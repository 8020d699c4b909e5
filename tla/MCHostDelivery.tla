--------------------------- MODULE MCHostDelivery ---------------------------
(***************************************************************************)
(* Small instances of HostDelivery for TLC.                                *)
(***************************************************************************)
EXTENDS HostDelivery
=============================================================================
