----------------------------- MODULE SpacePacket ----------------------------
(***************************************************************************)
(* exn::spacepacket (shared/src/ccsds.cpp) over small packets.  A primary  *)
(* header has HdrLen bytes, 6 in the code: the first one carries version,  *)
(* type, secondary header flag, APID and sequence count, the last one the  *)
(* Packet Data Length.  A PUS-C secondary header begins with service and   *)
(* subservice and has TcHdr bytes in a TC and TmHdr in a TM, 5 and 13 in   *)
(* the code; a packet that was built ends in a CRC of one byte.            *)
(***************************************************************************)
EXTENDS Integers, Sequences

CONSTANTS
    HdrLen, TcHdr, TmHdr,
    MaxByte,       \* bytes are 0 .. MaxByte; MaxByte stands for a wrong version
    Refused,       \* primary headers that ccsds::Header::deserialize (CCSDSPack) refuses
    Now            \* what the clock says

ASSUME HeaderAssumption == HdrLen \in Nat \ {0, 1}
ASSUME PusAssumption == TcHdr \in Nat \ {0, 1} /\ TmHdr \in Nat \ {0, 1}
ASSUME ByteAssumption == MaxByte \in Nat /\ Now \in Nat

\* ccsds::buffer::declaredPacketSize (CCSDSPack): none for a wrong version, else
\* the header and Packet Data Length + 1 bytes.
VersionOk(a) == a[1] # MaxByte
DeclaredSize(a) == HdrLen + a[HdrLen] + 1

\* ccsds::Header: 0 is a TM without secondary header, other even numbers are TMs
\* and odd ones TCs with one.
Typ(a) == a[1] % 2
Shf(a) == IF a[1] = 0 THEN 0 ELSE 1

PrimaryMeta(a) ==
    [ts_ns |-> Now, ver |-> 0, typ |-> Typ(a), shf |-> Shf(a), seqf |-> 3, apid |-> a[1],
     seq |-> a[1], len |-> a[HdrLen], svc |-> 0, ssvc |-> 0]

\* The service is filled in if the packet holds the secondary header of its type
\* and CCSDSPack accepts it (its first byte carries the PUS version as well).
HasService(p) ==
    /\ Shf(p) = 1
    /\ Len(p) >= HdrLen + (IF Typ(p) = 1 THEN TcHdr ELSE TmHdr)
    /\ p[HdrLen + 1] # MaxByte

PrimaryRefused(p) == SubSeq(p, 1, HdrLen) \in Refused

decode_meta(p) ==
    IF Len(p) < HdrLen \/ ~VersionOk(p) \/ DeclaredSize(p) # Len(p) \/ PrimaryRefused(p)
    THEN [ok |-> FALSE, meta |-> << >>]
    ELSE [ok |-> TRUE,
          meta |-> IF HasService(p)
                   THEN [PrimaryMeta(p) EXCEPT !.svc = p[HdrLen + 1], !.ssvc = p[HdrLen + 2]]
                   ELSE PrimaryMeta(p)]

\* build_pus_c_tc: the length field counts secondary header, data and CRC, less one.
build_pus_c_tc(apid, service, subservice, data) ==
    LET field == <<service, subservice>> \o [i \in 1 .. TcHdr - 2 |-> 0] \o data \o <<0>>
    IN <<apid>> \o [i \in 1 .. HdrLen - 2 |-> 0] \o <<Len(field) - 1>> \o field
=============================================================================
