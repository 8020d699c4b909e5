------------------------- MODULE MCSessionConsumer -------------------------
(***************************************************************************)
(* Small instances of SessionConsumer for TLC.                             *)
(***************************************************************************)
EXTENDS SessionConsumer
=============================================================================
