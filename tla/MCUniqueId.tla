----------------------------- MODULE MCUniqueId -----------------------------
(***************************************************************************)
(* Instances of UniqueId for TLC.  Two ids are the least for which the     *)
(* first vacant one matters, three pids the least for two owners and a     *)
(* third process that rewrites the file between them.                      *)
(***************************************************************************)
EXTENDS UniqueId
=============================================================================
