--------------------------- MODULE MCPortManager ---------------------------
(* Two kewpie processes of one user or of two; blocks of two among five      *)
(* ports, so that a block can reach over the wrap.                           *)
EXTENDS PortManager
=============================================================================
