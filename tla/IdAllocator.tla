---------------------------- MODULE IdAllocator ----------------------------
(***************************************************************************)
(* What tests/lib/dtr_unique.pl promises to the test-run.pl processes of   *)
(* one host: a numerical id belongs to at most one running process, a      *)
(* process owns at most one id, and an id changes hands only after its     *)
(* owner has let go of it (by its END block or by dying).                  *)
(***************************************************************************)
EXTENDS Integers

CONSTANTS
  Pids,     \* process numbers of the host
  Ids,      \* the ids min..max of the request
  NoPid     \* "no process"

VARIABLE owner    \* owner[i]: the process that works under id i, or NoPid

Init == owner = [i \in Ids |-> NoPid]

(* A process that owns nothing becomes the owner of an id nobody owns. *)
Acquire(p, i) ==
  /\ owner[i] = NoPid
  /\ \A j \in Ids : owner[j] # p
  /\ owner' = [owner EXCEPT ![i] = p]

(* The owner gives its id back, deliberately or because it died. *)
Release(p, i) ==
  /\ owner[i] = p
  /\ owner' = [owner EXCEPT ![i] = NoPid]

Next == \E p \in Pids, i \in Ids : Acquire(p, i) \/ Release(p, i)

Spec == Init /\ [][Next]_owner

=============================================================================
