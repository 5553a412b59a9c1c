----------------------------- MODULE MCTransfer -----------------------------
(***************************************************************************)
(* Files of no byte, of one, and of the two that end a message; a buffer   *)
(* so small that bytes are moved and the vector grows.                     *)
(***************************************************************************)
EXTENDS Transfer

MCFiles == {<<>>, <<"x">>, <<"CR", "LF">>}
=============================================================================
