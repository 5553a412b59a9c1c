------------------------------ MODULE MCClient ------------------------------
(***************************************************************************)
(* One client, a friend and a stranger, two workers.                       *)
(***************************************************************************)
EXTENDS Client
=============================================================================
