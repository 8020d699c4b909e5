--------------------------- MODULE MCMappedChain ---------------------------
(***************************************************************************)
(* Small instances of MappedChain for TLC.                                 *)
(***************************************************************************)
EXTENDS MappedChain
=============================================================================
