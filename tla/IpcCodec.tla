------------------------------ MODULE IpcCodec ------------------------------
(***************************************************************************)
(* exn::proto (shared/src/protocol.cpp): IPC frames as bytes, with the     *)
(* widths of the code.  A text is the sequence of its bytes.  Lengths of   *)
(* 2^32 - 4 and more, where the code's sum would wrap, are not sent, and   *)
(* no frame of an instance has four bytes a late read would take for one.  *)
(***************************************************************************)
EXTENDS Integers, Sequences, SequencesExt

\* enum class MsgType, as far as it is sent.
MsgType == [Hello |-> 1, LinkState |-> 2, PacketRx |-> 3, PacketTx |-> 4, Command |-> 10,
            QueryResult |-> 12, PacketSend |-> 13, Error |-> 255]

\* append_u16, append_u32, append_u64: n bytes, the most significant first.
Append_u(x, n) ==
    LET shifted[k \in 0 .. n - 1] == IF k = 0 THEN x ELSE shifted[k - 1] \div 256
    IN [i \in 1 .. n |-> shifted[n - i] % 256]

\* read_u16, read_u32, read_u64 of the n bytes behind the first off.
Read_u(p, off, n) ==
    LET read[k \in 0 .. n] == IF k = 0 THEN 0 ELSE 256 * read[k - 1] + p[off + k]
    IN read[n]

Rest(p, n) == SubSeq(p, n + 1, Len(p))

\* Mutant of encode: the length leaves out the type.
encodeShort(f) == Append_u(Len(f.payload), 4) \o Append_u(f.type, 2) \o f.payload

encode(f) == Append_u(2 + Len(f.payload), 4) \o Append_u(f.type, 2) \o f.payload

\* A buffer try_decode takes a frame from.
HasFrame(buffer) ==
    /\ Len(buffer) >= 4
    /\ Read_u(buffer, 0, 4) >= 2
    /\ Len(buffer) >= 4 + Read_u(buffer, 0, 4)

\* The frame it takes, and what it leaves.
TakeFrame(buffer) ==
    LET len == Read_u(buffer, 0, 4)
    IN [frame |-> [type |-> Read_u(buffer, 4, 2), payload |-> SubSeq(buffer, 7, 4 + len)],
        rest |-> Rest(buffer, 4 + len)]

\* try_decode, on the frames found before and the bytes left.
TryDecode(r) ==
    IF HasFrame(r.rest)
    THEN [frames |-> Append(r.frames, TakeFrame(r.rest).frame), rest |-> TakeFrame(r.rest).rest]
    ELSE r

\* while (try_decode(buffer, f)): a frame takes six bytes at least.
DecodeAll(buffer) ==
    LET after[k \in 0 .. Len(buffer) \div 6] ==
            IF k = 0 THEN [frames |-> << >>, rest |-> buffer] ELSE TryDecode(after[k - 1])
    IN after[Len(buffer) \div 6]

pack_string(s) == Append_u(Len(s), 4) \o s
unpack_string(p) ==
    LET n == Read_u(p, 0, 4)
    IN [ok |-> Len(p) >= 4 /\ Len(p) >= 4 + n, s |-> SubSeq(p, 5, 4 + n)]

pack_packet_meta(m, desc) ==
    Append_u(m.ts_ns, 8) \o <<m.ver, m.typ, m.shf, m.seqf>>
    \o Append_u(m.apid, 2) \o Append_u(m.seq, 2) \o Append_u(m.len, 2)
    \o <<m.svc, m.ssvc>> \o Append_u(Len(desc), 2) \o desc

\* Mutant of unpack_packet_meta: service and subservice are swapped.
unpackSwapped(p) ==
    IF Len(p) < 22 \/ Len(p) < 22 + Read_u(p, 20, 2) THEN [ok |-> FALSE]
    ELSE [ok |-> TRUE,
          row |-> [m |-> [ts_ns |-> Read_u(p, 0, 8), ver |-> p[9], typ |-> p[10],
                          shf |-> p[11], seqf |-> p[12], apid |-> Read_u(p, 12, 2),
                          seq |-> Read_u(p, 14, 2), len |-> Read_u(p, 16, 2),
                          svc |-> p[20], ssvc |-> p[19]],
                   desc |-> SubSeq(p, 23, 22 + Read_u(p, 20, 2))]]

unpack_packet_meta(p) ==
    IF Len(p) < 22 \/ Len(p) < 22 + Read_u(p, 20, 2) THEN [ok |-> FALSE]
    ELSE [ok |-> TRUE,
          row |-> [m |-> [ts_ns |-> Read_u(p, 0, 8), ver |-> p[9], typ |-> p[10],
                          shf |-> p[11], seqf |-> p[12], apid |-> Read_u(p, 12, 2),
                          seq |-> Read_u(p, 14, 2), len |-> Read_u(p, 16, 2),
                          svc |-> p[19], ssvc |-> p[20]],
                   desc |-> SubSeq(p, 23, 22 + Read_u(p, 20, 2))]]
=============================================================================
