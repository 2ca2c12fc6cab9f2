---------------------------- MODULE LinkContract ----------------------------
(***************************************************************************)
(* What the device link promises the rest of the daemon, without an event  *)
(* loop: packets are numbered as they are accepted; a session transmits    *)
(* the packets accepted in it in that order, each one contiguously and at  *)
(* most once, skipping none; the end of a session drops the rest; a shown  *)
(* state of "Connected" means that packets are being taken.                *)
(***************************************************************************)
EXTENDS Integers, Sequences

VARIABLES
    state,      \* "Disconnected", "Connected" or "Error", as published
    busy,       \* a connection attempt is under way
    session,    \* number of the current attempt or session
    accepted,   \* packets accepted so far
    next,       \* the packet to transmit next; accepted + 1 when there is none
    part,       \* parts of that packet already transmitted
    wire        \* everything transmitted

cvars == <<state, busy, session, accepted, next, part, wire>>

States == {"Disconnected", "Connected", "Error"}

DropPending == next' = accepted + 1 /\ part' = 0 /\ UNCHANGED <<accepted, wire>>

CInit ==
    /\ state \in States /\ busy \in BOOLEAN /\ session \in {0, 1}
    /\ state = "Connected" => ~busy
    /\ accepted = 0 /\ next = 1 /\ part = 0 /\ wire = << >>

Accept ==
    /\ state = "Connected"
    /\ accepted' = accepted + 1
    /\ UNCHANGED <<state, busy, session, next, part, wire>>

Transmit(last) ==
    /\ state = "Connected"
    /\ next <= accepted
    /\ wire' = Append(wire, [sess |-> session, pkt |-> next, part |-> part + 1, last |-> last])
    /\ IF last THEN next' = next + 1 /\ part' = 0
               ELSE part' = part + 1 /\ UNCHANGED next
    /\ UNCHANGED <<state, busy, session, accepted>>

\* A client's CONNECT, DISCONNECT or RECONNECT.
Command ==
    /\ session' \in {session + 1, session + 2}
    /\ state' \in States /\ busy' \in BOOLEAN
    /\ state' = "Connected" => ~busy'
    /\ DropPending

\* The attempt under way succeeds.
Up ==
    /\ busy /\ state # "Connected"
    /\ state' = "Connected" /\ busy' = FALSE
    /\ DropPending
    /\ UNCHANGED session

\* The attempt or the session fails, or a failure is published again.
Fail ==
    /\ state' = "Error" /\ busy' = FALSE
    /\ DropPending
    /\ UNCHANGED session

CNext == Accept \/ (\E last \in BOOLEAN : Transmit(last)) \/ Command \/ Up \/ Fail

CSpec == CInit /\ [][CNext]_cvars
=============================================================================
