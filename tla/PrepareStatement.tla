--------------------------- MODULE PrepareStatement ---------------------------
(***************************************************************************)
(* The COM_STMT_PREPARE command (src/unnamed/part_000, lines 8-24) and     *)
(* what happens to its packet next: the connection writes the frame header *)
(* with writeHeader(sequenceId) and the peer's framer reads the header to  *)
(* find the frame.                                                         *)
(*                                                                         *)
(* PacketParser.encode(query, encoding) is not under src/; on the model's  *)
(* ASCII queries it gives the query's bytes.  A query is a record           *)
(* [head, length]: its first bytes and its length in bytes; head is the     *)
(* whole query when Len(head) = length, and the rest of a longer query is   *)
(* data no property looks at.                                              *)
(***************************************************************************)
EXTENDS PacketWriter

CONSTANTS
  Queries,       \* the queries a caller may prepare
  SequenceIds    \* the sequence ids the connection may pass to writeHeader

VARIABLES
  query,         \* the query being prepared
  seq,           \* the sequence id the connection writes
  pc,            \* "toPacket", "header", "frame", "sent" or "threw"
  pkt,           \* the packet toPacket built
  frame,         \* the header as the framer reads it
  err            \* the exception that ended the command, or Undefined

vars == <<query, seq, pc, pkt, frame, err>>

STMT_PREPARE == 22   \* CommandCodes.STMT_PREPARE, 0x16

(* The rest of toPacket after writeInt8(STMT_PREPARE): writeBuffer(buf).   *)
ThenQuery(r, q) == IF IsThrow(r.v) THEN r ELSE Ret(CopyBuffer(r.p, q.head, q.length), Undefined)

(* toPacket sizing the buffer as 4 + buf.length.                            *)
toPacketShort(q) ==
  ThenQuery(writeInt8([NewPacket(0, AllocUnsafe(4 + q.length), 0, 4 + q.length)
                       EXCEPT !.offset = 4], STMT_PREPARE), q)

(* toPacket(): length = 5 + buf.length; Buffer.allocUnsafe(length);        *)
(* new Packet(0, buffer, 0, length); offset = 4; writeInt8(0x16);          *)
(* writeBuffer(buf).                                                       *)
toPacket(q) ==
  ThenQuery(writeInt8([NewPacket(0, AllocUnsafe(5 + q.length), 0, 5 + q.length)
                       EXCEPT !.offset = 4], STMT_PREPARE), q)

(* The byte at offset i as sent (0 for a byte allocUnsafe left unset).     *)
SentByte(buf, i) == IF i \in DOMAIN buf.bytes THEN buf.bytes[i] ELSE 0

(* The four header bytes as the framer receives them.                      *)
HeaderBytes(buf) == [i \in 1..4 |-> SentByte(buf, i - 1)]

-----------------------------------------------------------------------------
Init ==
  /\ query \in Queries
  /\ seq \in SequenceIds
  /\ pc = "toPacket"
  /\ pkt = NewPacket(0, MockBuffer, 0, 0)
  /\ frame = [length |-> 0, sequenceId |-> 0]
  /\ err = Undefined

(* new PrepareStatement(sql, charsetNumber).toPacket()                      *)
ToPacket ==
  /\ pc = "toPacket"
  /\ LET r == toPacket(query)
     IN /\ pkt' = r.p
        /\ IF IsThrow(r.v) THEN pc' = "threw" /\ err' = r.v ELSE pc' = "header" /\ UNCHANGED err
  /\ UNCHANGED <<query, seq, frame>>

(* packet.writeHeader(sequenceId), called by the connection.                *)
AfterHeader(r) ==
  /\ pkt' = r.p
  /\ IF IsThrow(r.v) THEN pc' = "threw" /\ err' = r.v ELSE pc' = "frame" /\ UNCHANGED err
WriteHeader ==
  /\ pc = "header"
  /\ AfterHeader(writeHeader(pkt, seq))
  /\ UNCHANGED <<query, seq, frame>>

(* The framer: length = readInt24() and sequenceId = readInt8() at         *)
(* offset 0 of the bytes received.                                         *)
HeaderFields(len) == [length |-> IntOf(len.v), sequenceId |-> readInt8(len.p).v]
Deliver ==
  /\ pc = "frame"
  /\ frame' = HeaderFields(readInt24([NewPacket(0, HeaderBytes(pkt.buffer), 0, 4)
                                      EXCEPT !.offset = 0]))
  /\ pc' = "sent"
  /\ UNCHANGED <<query, seq, pkt, err>>

Next == ToPacket \/ WriteHeader \/ Deliver

Spec == Init /\ [][Next]_vars

-----------------------------------------------------------------------------
(* Properties.                                                             *)

TypeOK ==
  /\ pc \in {"toPacket", "header", "frame", "sent", "threw"}
  /\ pkt.buffer.mock \/ pkt.offset <= pkt.buffer.len
  /\ DOMAIN pkt.buffer.bytes \subseteq 0..(pkt.buffer.len - 1)
  /\ err \in {Undefined, Throw("RangeError")}

(* The frame the peer receives is the command: its header announces the   *)
(* body toPacket wrote (0x16 and the query, spec scenario S6) and the      *)
(* sequence id the connection passed, the body is exactly those bytes, and *)
(* writeHeader leaves the cursor at the end toPacket left it.  The 24-bit  *)
(* length field cannot hold a body of 2^24 bytes or more: writeInt24 in    *)
(* writeHeader must then fail rather than send a frame whose header        *)
(* announces a different length.                                           *)
FrameAnnouncesBody ==
  /\ pc = "sent" =>
       /\ frame = [length |-> 1 + query.length, sequenceId |-> seq]
       /\ pkt.offset = pkt.buffer.len
       /\ Len(query.head) = query.length =>
            [i \in 1..(pkt.buffer.len - 4) |-> SentByte(pkt.buffer, 3 + i)]
              = <<STMT_PREPARE>> \o query.head
  /\ pc = "threw" => 1 + query.length >= 2^24

=============================================================================
