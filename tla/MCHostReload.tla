---------------------------- MODULE MCHostReload ----------------------------
(***************************************************************************)
(* Small instances of HostReload for TLC: one server that is redeclared    *)
(* and dropped, two model versions.                                        *)
(***************************************************************************)
EXTENDS HostReload

CONSTANTS a, b, v1, v2

Doc(decl, version, rest) ==
    [servers |-> [n \in Names |-> decl], version |-> version, rest |-> rest]
First == Doc(a, v1, 0)
Documents == {First, Doc(b, v2, 0), Doc(Absent, v1, 1)}
=============================================================================
