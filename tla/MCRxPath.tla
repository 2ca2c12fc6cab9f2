------------------------------ MODULE MCRxPath ------------------------------
(***************************************************************************)
(* An instance of RxPath in which CCSDSPack refuses one primary header:    *)
(* that of the shortest packets with an APID of 2.                         *)
(***************************************************************************)
EXTENDS RxPath

FewRefused == {<<2, 0>>}
=============================================================================
