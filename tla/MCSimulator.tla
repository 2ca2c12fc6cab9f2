---------------------------- MODULE MCSimulator -----------------------------
(***************************************************************************)
(* Simulator for TLC with three telecommands: one whose answers fill the   *)
(* transmit task, its queue and the dispatch task, one that is refused and *)
(* one that is rejected by on_packet.                                      *)
(***************************************************************************)
EXTENDS Simulator

FewTcs == {[req |-> "HK", acks |-> {"start", "completion"}],
           [req |-> "OTHER", acks |-> {"acceptance"}],
           [req |-> "REJECTED", acks |-> {}]}
=============================================================================
