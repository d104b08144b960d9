-------------------------- MODULE MCServerManager --------------------------
(* Tests for the model checker: no option, an option of the server, one of   *)
(* the runner, a data directory to load; one to three servers, or none.      *)
EXTENDS ServerManager, TLC

T(r, l)   == [reqs |-> r, loads |-> l]
Pairs     == {T(<<{}>>, {}), T(<<{"opt"}, {}>>, {}), T(<<{"restart"}>>, {}), T(<<{}, {}>>, {2})}
AndNone   == Pairs \cup {T(<<>>, {})}
Shrinking == {T(<<{}>>, {}), T(<<{}, {}, {}>>, {})}
Growing   == {T(<<>>, {}), T(<<{"opt"}>>, {}), T(<<{}, {}>>, {2})}
Symmetry  == Permutations(Blocks)
=============================================================================
