------------------------- MODULE MCNoticeSettlement -------------------------
(***************************************************************************)
(* Small instances of NoticeSettlement for TLC.                            *)
(***************************************************************************)
EXTENDS NoticeSettlement
=============================================================================
