------------------------------- MODULE Framer -------------------------------
(***************************************************************************)
(* CcsdsFramer::push_bytes (shared/src/framer.cpp): Space Packets out of a *)
(* byte stream that arrives in arbitrary pieces.  The daemon has one       *)
(* framer for its whole life (App::run); the simulator makes one per       *)
(* session (sim/src/main.cpp, start_session), which then sees the stream   *)
(* of that session alone.                                                  *)
(***************************************************************************)
EXTENDS SpacePacket, SequencesExt

CONSTANTS
    MaxStream,     \* bound on the bytes of all sessions
    MaxChunk       \* bound on the bytes one read returns

ASSUME StreamAssumption == MaxStream \in Nat /\ MaxChunk \in Nat

VARIABLES
    acc_, framing_errors_,
    out,       \* packets given to on_packet_ in this session
    stream,    \* bytes read in this session
    total      \* bytes read in all sessions

vars == <<acc_, framing_errors_, out, stream, total>>

Bytes == 0 .. MaxByte

\* The test of push_bytes for a total that is too small or too large never fires:
\* a declared size is at least the header and one byte.

\* Mutant of Round: at a wrong version everything received so far is dropped.
RoundClears(r) ==
    LET size == DeclaredSize(r.acc)
    IN IF Len(r.acc) < HdrLen THEN r
       ELSE IF ~VersionOk(r.acc) THEN [r EXCEPT !.acc = << >>, !.errors = @ + 1]
       ELSE IF Len(r.acc) < size THEN r
       ELSE [r EXCEPT !.acc = SubSeq(@, size + 1, Len(@)), !.out = Append(@, SubSeq(r.acc, 1, size))]

\* Mutant of Round: a complete packet waits for one byte more.
RoundWaits(r) ==
    LET size == DeclaredSize(r.acc)
    IN IF Len(r.acc) < HdrLen THEN r
       ELSE IF ~VersionOk(r.acc) THEN [r EXCEPT !.acc = Tail(@), !.errors = @ + 1]
       ELSE IF Len(r.acc) <= size THEN r
       ELSE [r EXCEPT !.acc = SubSeq(@, size + 1, Len(@)), !.out = Append(@, SubSeq(r.acc, 1, size))]

\* A round of the loop of push_bytes, on the bytes kept, the packets found and the
\* bytes dropped; the last one changes nothing.
Round(r) ==
    LET size == DeclaredSize(r.acc)
    IN IF Len(r.acc) < HdrLen THEN r
       ELSE IF ~VersionOk(r.acc) THEN [r EXCEPT !.acc = Tail(@), !.errors = @ + 1]
       ELSE IF Len(r.acc) < size THEN r
       ELSE [r EXCEPT !.acc = SubSeq(@, size + 1, Len(@)), !.out = Append(@, SubSeq(r.acc, 1, size))]

\* The loop: every round but the last takes a byte at least.
Drain(a) ==
    LET after[k \in 0 .. Len(a)] ==
            IF k = 0 THEN [acc |-> a, out |-> << >>, errors |-> 0] ELSE Round(after[k - 1])
    IN after[Len(a)]

PushBytes(chunk) ==
    LET r == Drain(acc_ \o chunk)
    IN /\ acc_' = r.acc
       /\ out' = out \o r.out
       /\ framing_errors_' = framing_errors_ + r.errors

\* A read of the link: any bytes, as many as happened to arrive.
Read(chunk) ==
    /\ total + Len(chunk) <= MaxStream
    /\ PushBytes(chunk)
    /\ stream' = stream \o chunk
    /\ total' = total + Len(chunk)

\* RECONNECT, or a link that fails and is connected again: stop() and start() do
\* not touch the framer.
NewSession ==
    /\ stream # << >>
    /\ out' = << >> /\ stream' = << >>
    /\ UNCHANGED <<acc_, framing_errors_, total>>

Init ==
    /\ acc_ = << >> /\ framing_errors_ = 0 /\ out = << >> /\ stream = << >> /\ total = 0

Next == NewSession \/ \E n \in 1 .. MaxChunk : \E chunk \in [1 .. n -> Bytes] : Read(chunk)

Spec == Init /\ [][Next]_vars

------------------------------------------------------------------------------
\* A whole packet starts at position p of s.
HeaderAt(s, p) == p + HdrLen - 1 <= Len(s)
VersionAt(s, p) == VersionOk(SubSeq(s, p, Len(s)))
SizeAt(s, p) == DeclaredSize(SubSeq(s, p, Len(s)))
PacketAt(s, p) == HeaderAt(s, p) /\ VersionAt(s, p) /\ p + SizeAt(s, p) - 1 <= Len(s)

\* Where the packets of a stream may begin, read off the stream itself: position p
\* is a boundary if it is the first one, if the byte before it was dropped at a
\* boundary, or if a whole packet that starts at a boundary ends before it.
NextBoundary(s, p) ==
    IF PacketAt(s, p) THEN {p + SizeAt(s, p)}
    ELSE IF HeaderAt(s, p) /\ ~VersionAt(s, p) THEN {p + 1} ELSE {}
Boundaries(s) ==
    LET at[k \in 0 .. Len(s)] ==
            IF k = 0 THEN {1} ELSE UNION {NextBoundary(s, p) : p \in at[k - 1]}
    IN UNION {at[k] : k \in 0 .. Len(s)}

\* The packets push_bytes gave out are those at the boundaries of the bytes read,
\* each once and in order, however the reads cut them (tests/gs_test.cpp:127 tries
\* one split).
PacketsOfStream ==
    LET starts == {p \in Boundaries(stream) : PacketAt(stream, p)}
    IN \E at \in [DOMAIN out -> starts] :
          /\ \A i, j \in DOMAIN out : i < j => at[i] < at[j]
          /\ \A p \in starts : \E i \in DOMAIN out : at[i] = p
          /\ \A i \in DOMAIN out : out[i] = SubSeq(stream, at[i], at[i] + SizeAt(stream, at[i]) - 1)

\* README.md:51, "RECONNECT - cleanly cycle it": the packets of a session are those
\* of its own bytes, whatever an earlier session left behind.
SessionIntact == PacketsOfStream
=============================================================================
