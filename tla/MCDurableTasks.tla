--------------------------- MODULE MCDurableTasks ---------------------------
(***************************************************************************)
(* Small instances of DurableTasks for TLC.                                *)
(***************************************************************************)
EXTENDS DurableTasks, TLC
=============================================================================
