------------------------------- MODULE RxPath -------------------------------
(***************************************************************************)
(* A Space Packet's way through the ground segment, byte for byte: from    *)
(* the device link through CcsdsFramer, decode_meta and StateStore         *)
(* (daemon/src/app.cpp, state.cpp) into an IPC frame (protocol.cpp), over  *)
(* the connection of a UI that may be lost and made again, through         *)
(* IpcClient's buffer (ui/src/ipc_client.cpp) into the lists UiApp shows;  *)
(* and from the UI's telecommand through IpcSession's buffer to the link.  *)
(* Both connections cut the bytes anywhere.  Daemon and UiClient model the *)
(* event loops at the two ends; here a frame given to send is in the pipe. *)
(***************************************************************************)
EXTENDS Framer, IpcCodec, FiniteSets

CONSTANTS
    RingCap,       \* StateStore's cap_, 2000 in the code
    MaxRows,       \* rows a list of the UI keeps, 5000 in the code
    ReadSizes,     \* how many bytes a read of the IPC connection asks for
    MaxLosses      \* bound on the losses of the IPC connection

ASSUME CapsAssumption == RingCap \in Nat \ {0} /\ MaxRows \in Nat \ {0}
\* A length field of a packet has 16 bits.
ASSUME FieldAssumption == HdrLen + TcHdr < 256 * 256
ASSUME SizesAssumption == ReadSizes \subseteq Nat \ {0} /\ MaxLosses \in Nat

VARIABLES
    snap_, ring_,                       \* StateStore
    connected_,                         \* the UI has its IPC connection
    down, rxbuf_,                       \* bytes to the UI: in the pipe, in IpcClient
    up, inbuf_,                         \* bytes to the daemon: in the pipe, in IpcSession
    device_line_, rx_rows_, tx_rows_,   \* UiApp
    cast, got,         \* history: frames sent to the UI and seen by it, this connection
    asked, served,     \* history: frames sent by the UI and seen by the daemon, likewise
    late,              \* the do_read of a lost connection's last read has yet to fail
    losses             \* connections lost so far

storeVars == <<snap_, ring_>>
uiVars == <<device_line_, rx_rows_, tx_rows_>>
downVars == <<down, rxbuf_, cast, got>>
upVars == <<up, inbuf_, asked, served>>
lossVars == <<late, losses>>
rxVars == <<vars, storeVars, uiVars, downVars, upVars, connected_, lossVars>>

\* Texts are one byte.
TextFrame(type, c) == [type |-> type, payload |-> pack_string(<<c>>)]
PacketFrame(type, meta) == [type |-> type, payload |-> pack_packet_meta(meta, <<type>>)]
Hello == TextFrame(MsgType.Hello, 1)
LinkFrame == TextFrame(MsgType.LinkState, 2)
ErrorFrame == TextFrame(MsgType.Error, 3)

FirstN(s, n) == IF Len(s) > n THEN SubSeq(s, 1, n) ELSE s
LastN(s, n) == IF Len(s) > n THEN SubSeq(s, Len(s) - n + 1, Len(s)) ELSE s
EncodeAll(fs) == FlattenSeq([i \in DOMAIN fs |-> encode(fs[i])])

\* ipc.broadcast, to the one client.
Broadcast(fs) ==
    /\ down' = IF connected_ THEN down \o EncodeAll(fs) ELSE down
    /\ cast' = IF connected_ THEN cast \o fs ELSE cast

------------------------------------------------------------------------------
(* From the device link.                                                    *)

\* StateStore::on_packet for each record, on_decode_error for the rejected ones.
OnPacket(recs, rejected) ==
    /\ snap_' = [snap_ EXCEPT
           !.rx_packets = @ + Len(recs),
           !.rx_bytes = @ + Len(FlattenSeq([i \in DOMAIN recs |-> recs[i].raw])),
           !.services = @ \union {recs[i].service : i \in DOMAIN recs},
           !.decode_errors = @ + rejected]
    /\ ring_' = LastN(ring_ \o recs, RingCap)

\* set_on_packet, for the packets of one read.
OnPackets(ps) ==
    LET decoded == [i \in DOMAIN ps |-> decode_meta(ps[i])]
        rec(i) == [dir |-> IF decoded[i].ok /\ decoded[i].meta.typ = 1 THEN "TC" ELSE "TM",
                   service |-> IF decoded[i].ok THEN decoded[i].meta.svc ELSE 0,
                   raw |-> ps[i]]
    IN /\ OnPacket([i \in DOMAIN ps |-> rec(i)], Cardinality({i \in DOMAIN ps : ~decoded[i].ok}))
       /\ Broadcast([i \in DOMAIN ps |->
              IF decoded[i].ok THEN PacketFrame(MsgType.PacketRx, decoded[i].meta) ELSE ErrorFrame])

\* set_on_bytes.
ReadLink(chunk) ==
    /\ Read(chunk)
    /\ OnPackets(Rest(out', Len(out)))
    /\ UNCHANGED <<uiVars, rxbuf_, got, upVars, connected_, lossVars>>

------------------------------------------------------------------------------
(* The connection of the UI.                                                *)

\* New pipes, empty buffers at both ends.
Fresh(greeting) ==
    /\ cast' = greeting /\ down' = EncodeAll(greeting) /\ got' = << >>
    /\ asked' = << >> /\ up' = << >> /\ served' = << >> /\ inbuf_' = << >>

\* The rows that frames of one type become; frames that do not unpack are skipped.
RowsOf(fs, type) ==
    LET rows == [i \in DOMAIN fs |->
                    IF fs[i].type = type THEN unpack_packet_meta(fs[i].payload) ELSE [ok |-> FALSE]]
        kept == SelectSeq(rows, LAMBDA r : r.ok)
    IN [i \in DOMAIN kept |-> kept[i].row]

\* on_frame of UiApp with push_rx, push_tx and trim_rows; line is what device_line_
\* was.
OnFrames(line, fs) ==
    LET lines == SelectSeq(fs, LAMBDA f : f.type = MsgType.LinkState /\ unpack_string(f.payload).ok)
    IN /\ device_line_' = IF lines = << >> THEN line
                          ELSE unpack_string(Last(lines).payload).s
       /\ rx_rows_' = LastN(rx_rows_ \o RowsOf(fs, MsgType.PacketRx), MaxRows)
       /\ tx_rows_' = LastN(tx_rows_ \o RowsOf(fs, MsgType.PacketTx), MaxRows)

\* do_connect, once nothing of the lost connection is left to be handled, and the
\* greeting of do_accept.
Connects ==
    /\ ~connected_ /\ ~late
    /\ connected_' = TRUE
    /\ rxbuf_' = << >>
    /\ Fresh(<<Hello, LinkFrame>>)
    /\ UNCHANGED <<vars, storeVars, uiVars, lossVars>>

\* schedule_reconnect in the client: rxbuf_ is cleared and the device is UNKNOWN; the
\* rows stay.
Clears ==
    /\ rxbuf_' = << >>
    /\ device_line_' = << >>
    /\ UNCHANGED <<rx_rows_, tx_rows_>>

\* schedule_reconnect: what was under way is lost.  A read of n bytes that had
\* completed before runs after it, on a buffer that no longer has the bytes before
\* these, and calls do_read on the closed socket.
Loses(n) ==
    /\ connected_ /\ losses < MaxLosses
    /\ losses' = losses + 1
    /\ connected_' = FALSE
    /\ \/ n = 0 /\ late' = FALSE /\ Clears
       \/ /\ n > 0 /\ down # << >>
          /\ late' = TRUE
          /\ LET r == DecodeAll(FirstN(down, n))
             IN rxbuf_' = r.rest /\ OnFrames(<< >>, r.frames)
    /\ Fresh(<< >>)
    /\ UNCHANGED <<vars, storeVars>>

\* Mutant of LateReadFails: schedule_reconnect returns first when it is scheduled.
LateReadFailsQuietly ==
    /\ late
    /\ late' = FALSE
    /\ UNCHANGED <<vars, storeVars, uiVars, downVars, upVars, connected_, losses>>

\* That do_read fails, and schedule_reconnect clears once more.
LateReadFails ==
    /\ late
    /\ late' = FALSE
    /\ Clears
    /\ UNCHANGED <<vars, storeVars, down, cast, got, upVars, connected_, losses>>

\* IpcClient::do_read, of up to n bytes.
ReadUi(n) ==
    /\ down # << >>
    /\ LET r == DecodeAll(rxbuf_ \o FirstN(down, n))
       IN /\ rxbuf_' = r.rest
          /\ got' = got \o r.frames
          /\ OnFrames(device_line_, r.frames)
    /\ down' = Rest(down, n)
    /\ UNCHANGED <<vars, storeVars, upVars, cast, connected_, lossVars>>

------------------------------------------------------------------------------
(* To the device link.                                                      *)

\* The telecommand of send_system_hk.
HkRequest == build_pus_c_tc(1, 1, 0, << >>)

\* send_packet.  A telecommand takes as much of the bound MaxStream as the
\* smallest packet of the device.
SendPacket ==
    /\ connected_
    /\ total + HdrLen + 1 <= MaxStream
    /\ total' = total + HdrLen + 1
    /\ LET f == [type |-> MsgType.PacketSend, payload |-> HkRequest]
       IN asked' = Append(asked, f) /\ up' = up \o encode(f)
    /\ UNCHANGED <<acc_, framing_errors_, out, stream, storeVars, uiVars, downVars, inbuf_,
                   served, connected_, lossVars>>

\* StateStore::on_tx for each packet.
OnTx(sent) ==
    snap_' = [snap_ EXCEPT
        !.tx_packets = @ + Len(sent),
        !.tx_bytes = @ + Len(FlattenSeq([i \in DOMAIN sent |-> sent[i].payload]))]

\* The packets among them that decode_meta accepts.
Accepted(fs) == SelectSeq(fs, LAMBDA f : decode_meta(f.payload).ok)

\* on_frame of App for a PacketSend, with the link up.
Route(fs) ==
    LET decoded == [i \in DOMAIN fs |-> decode_meta(fs[i].payload)]
    IN /\ OnTx(Accepted(fs))
       /\ Broadcast([i \in DOMAIN fs |->
              IF decoded[i].ok THEN PacketFrame(MsgType.PacketTx, decoded[i].meta) ELSE ErrorFrame])

\* IpcSession::do_read, of up to n bytes.
ReadSession(n) ==
    /\ up # << >>
    /\ LET r == DecodeAll(inbuf_ \o FirstN(up, n))
       IN /\ inbuf_' = r.rest
          /\ served' = served \o r.frames
          /\ Route(r.frames)
    /\ up' = Rest(up, n)
    /\ UNCHANGED <<vars, ring_, uiVars, rxbuf_, got, asked, connected_, lossVars>>

------------------------------------------------------------------------------
RxInit ==
    /\ Init
    /\ snap_ = [rx_packets |-> 0, rx_bytes |-> 0, tx_packets |-> 0, tx_bytes |-> 0,
                decode_errors |-> 0, services |-> {}]
    /\ ring_ = << >> /\ connected_ = FALSE
    /\ down = << >> /\ rxbuf_ = << >> /\ up = << >> /\ inbuf_ = << >>
    /\ device_line_ = << >> /\ rx_rows_ = << >> /\ tx_rows_ = << >>
    /\ cast = << >> /\ got = << >> /\ asked = << >> /\ served = << >>
    /\ late = FALSE /\ losses = 0

RxNext ==
    \/ \E n \in 1 .. MaxChunk : \E chunk \in [1 .. n -> Bytes] : ReadLink(chunk)
    \/ Connects \/ SendPacket
    \/ \E n \in ReadSizes \union {0} : Loses(n)
    \/ LateReadFails
    \/ \E n \in ReadSizes : ReadUi(n) \/ ReadSession(n)

RxSpec == RxInit /\ [][RxNext]_rxVars

------------------------------------------------------------------------------
\* push_bytes, decode_meta and StateStore::on_packet: every byte of the link is in a
\* packet that was counted, was dropped as a framing error, or is still kept; framer
\* and decode_meta agree on where packets end, so that of what the framer hands over
\* only packets with a refused primary header are invalid, and each of these is
\* counted; the history has the latest packets.
BytesAccounted ==
    /\ acc_ = Rest(stream, Len(stream) - Len(acc_))
    /\ Len(stream) = snap_.rx_bytes + framing_errors_ + Len(acc_)
    /\ snap_.rx_packets = Len(out)
    /\ snap_.decode_errors = Cardinality({i \in DOMAIN out : PrimaryRefused(out[i])})
    /\ [i \in DOMAIN ring_ |-> ring_[i].raw] = LastN(out, RingCap)

\* encode and try_decode: on each connection the receiver sees the frames that were
\* sent, each once and in order, however the reads cut the bytes and whatever was
\* left of an earlier connection, and none that has arrived waits for later bytes.
\* schedule_reconnect: of a lost connection neither bytes nor the device's state stay
\* once its last read is handled.
FramesConserved ==
    /\ connected_ =>
        /\ IsPrefix(got, cast) /\ IsPrefix(served, asked)
        /\ rxbuf_ \o down = EncodeAll(Rest(cast, Len(got)))
        /\ inbuf_ \o up = EncodeAll(Rest(asked, Len(served)))
        /\ down = << >> => got = cast
        /\ up = << >> => served = asked
    /\ ~connected_ /\ ~late => rxbuf_ = << >> /\ device_line_ = << >>

\* What the UI lists is what happened on the link, in that order: a received row
\* has the fields of a valid packet of the device, a transmitted one those of the
\* telecommand the UI built; rows outlive the connection they came over, and once
\* everything sent is read the newest one is the device's newest valid packet.
RowsTrue ==
    LET valid == SelectSeq([i \in DOMAIN out |-> decode_meta(out[i])], LAMBDA d : d.ok)
        metas == [i \in DOMAIN valid |-> valid[i].meta]
        rows == [i \in DOMAIN rx_rows_ |-> rx_rows_[i].m]
    IN /\ \E at \in [DOMAIN rows -> DOMAIN metas] :
              /\ \A i \in DOMAIN rows : rows[i] = metas[at[i]]
              /\ \A i, j \in DOMAIN rows : i < j => at[i] < at[j]
       /\ down = << >> /\ (\E i \in DOMAIN got : got[i].type = MsgType.PacketRx)
              => rows # << >> /\ Last(rows) = Last(metas)
       /\ \A i \in DOMAIN tx_rows_ : tx_rows_[i].m = decode_meta(HkRequest).meta
       /\ Len(tx_rows_) <= snap_.tx_packets
=============================================================================
