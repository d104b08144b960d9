---------------------------- MODULE MCStressTest ----------------------------
(* Two threads, lists of one or two tests, limits up to two.                 *)
EXTENDS StressTest
=============================================================================
