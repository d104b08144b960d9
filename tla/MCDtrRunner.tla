---------------------------- MODULE MCDtrRunner ----------------------------
(* Tests for the model checker: with and without a slave, of two options;    *)
(* one that asks for a restart.                                              *)
EXTENDS DtrRunner

T(o, n, r) == [opts |-> o, slaves |-> n, restart |-> r]
Tests      == {T("a", 0, FALSE), T("a", 1, FALSE), T("b", 0, TRUE)}
OneSlave   == {T("a", 1, FALSE)}
=============================================================================
