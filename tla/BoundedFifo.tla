---------------------------- MODULE BoundedFifo -----------------------------
(***************************************************************************)
(* What the simulator expects of a queue between two of its tasks: items   *)
(* leave in the order they entered, each one once, at most Capacity wait.  *)
(***************************************************************************)
EXTENDS Integers, Sequences

CONSTANT Capacity

VARIABLES queue, produced, consumed

fvars == <<queue, produced, consumed>>

\* Item number produced + 1 enters.
Put == /\ Len(queue) < Capacity
       /\ queue' = Append(queue, produced + 1)
       /\ produced' = produced + 1
       /\ UNCHANGED consumed

\* The oldest item leaves; it is the one after the last that left.
Take == /\ queue # << >>
        /\ Head(queue) = consumed + 1
        /\ queue' = Tail(queue)
        /\ consumed' = Head(queue)
        /\ UNCHANGED produced

FInit == queue = << >> /\ produced = 0 /\ consumed = 0
FNext == Put \/ Take
FSpec == FInit /\ [][FNext]_fvars
=============================================================================
