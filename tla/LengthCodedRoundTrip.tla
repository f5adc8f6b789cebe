------------------------- MODULE LengthCodedRoundTrip -------------------------
(***************************************************************************)
(* A command packet built with the Packet writers and read back with the   *)
(* Packet readers, the way the driver uses them: the caller sizes the      *)
(* buffer, either with a first pass over Packet.MockBuffer() (the offset   *)
(* it ends at) or with the static lengthCodedNumberLength /                *)
(* lengthCodedStringLength helpers; allocates it; writes the items;        *)
(* writes the frame header; and the peer's framer reads the header and     *)
(* hands the frame to the readers.                                         *)
(*                                                                         *)
(* An item is [kind, v]: a length-coded number (null, a number or a        *)
(* decimal string), a length-coded buffer or string, a NULL written by     *)
(* writeNull, a null-terminated string, or a Date written by writeDate    *)
(* and read by readDateTime.                                               *)
(***************************************************************************)
EXTENDS PacketWriter

CONSTANTS
  Itemss,    \* the item sequences a command may write
  Sizings    \* how the caller sizes the buffer: "mock" or "static"

VARIABLES
  items,     \* the items the command writes (ghost of the caller)
  sizing,    \* the sizing the caller uses
  pc,        \* "measure", "alloc", "write", "header", "frame", "read",
             \* "done" or "threw"
  k,         \* the item the next write or read handles (1-based)
  pkt,       \* the packet being written
  rd,        \* the packet the framer hands the readers
  got,       \* the values read back
  err        \* the exception that ended the exchange, or Undefined

vars == <<items, sizing, pc, k, pkt, rd, got, err>>

(* The writer call for an item.                                            *)
WriteItem(p, it) ==
  CASE it.kind = "number"  -> writeLengthCodedNumber(p, it.v)
    [] it.kind = "buffer"  -> writeLengthCodedBuffer(p, it.v)
    [] it.kind = "string"  -> writeLengthCodedString(p, it.v)
    [] it.kind = "null"    -> writeNull(p)
    [] it.kind = "cstring" -> writeNullTerminatedString(p, it.v)
    [] it.kind = "date"    -> writeDate(p, it.v)

(* The reader call that reads an item back.                                *)
ReadItem(p, it) ==
  CASE it.kind \in {"number", "null"} -> readLengthCodedNumber(p, FALSE, FALSE)
    [] it.kind = "buffer"  -> readLengthCodedBuffer(p)
    [] it.kind = "string"  -> readLengthCodedString(p, "utf8")
    [] it.kind = "cstring" -> readNullTerminatedString(p, "utf8")
    [] it.kind = "date"    -> readDateTime(p)

(* The size the static helpers give an item.                               *)
StaticSize(it) ==
  CASE it.kind = "number" -> lengthCodedNumberLength(it.v)
    [] it.kind \in {"buffer", "string"} -> lengthCodedStringLength(it.v)
    [] it.kind = "null" -> 1
    [] it.kind = "cstring" -> Len(it.v) + 1

StaticTotal(its) ==
  LET sum[i \in 0..Len(its)] == IF i = 0 THEN 0 ELSE sum[i - 1] + StaticSize(its[i])
  IN sum[Len(its)]

(* The bytes of an outbound buffer as the peer receives them; the model   *)
(* gives a byte Buffer.allocUnsafe left unwritten the value 0.             *)
Contents(buf) ==
  [i \in 1..buf.len |-> IF i - 1 \in DOMAIN buf.bytes THEN buf.bytes[i - 1] ELSE 0]

-----------------------------------------------------------------------------
Init ==
  /\ items \in Itemss
  /\ sizing \in Sizings
  /\ pc = IF sizing = "mock" THEN "measure" ELSE "alloc"
  /\ k = 1
  /\ pkt = NewPacket(0, MockBuffer, 0, 0)
  /\ rd = pkt
  /\ got = <<>>
  /\ err = Undefined

(* One writer call, on the mock buffer or on the real one.                 *)
AfterWrite(r) ==
  IF IsThrow(r.v)
    THEN pc' = "threw" /\ err' = r.v /\ UNCHANGED <<pkt, k>>
    ELSE /\ pkt' = r.p
         /\ k' = IF k = Len(items) THEN 1 ELSE k + 1
         /\ pc' = IF k < Len(items) THEN pc ELSE IF pc = "measure" THEN "alloc" ELSE "header"
         /\ UNCHANGED err
Write ==
  /\ pc \in {"measure", "write"}
  /\ AfterWrite(WriteItem(pkt, items[k]))
  /\ UNCHANGED <<items, sizing, rd, got>>

(* Buffer.allocUnsafe(size) and new Packet(0, buffer, 0, size).            *)
Alloc ==
  /\ pc = "alloc"
  /\ LET size == IF sizing = "mock" THEN pkt.offset ELSE 4 + StaticTotal(items)
     IN pkt' = NewPacket(0, AllocUnsafe(size), 0, size)
  /\ pc' = "write"
  /\ UNCHANGED <<items, sizing, k, rd, got, err>>

AfterHeader(r) ==
  /\ pkt' = r.p
  /\ IF IsThrow(r.v) THEN pc' = "threw" /\ err' = r.v ELSE pc' = "frame" /\ UNCHANGED err
Header ==
  /\ pc = "header"
  /\ AfterHeader(writeHeader(pkt, 0))
  /\ UNCHANGED <<items, sizing, k, rd, got>>

(* The peer's framer: length = readInt24(), sequenceId = readInt8() at     *)
(* offset 0, then new Packet(sequenceId, buffer, 0, 4 + length).           *)
FrameOf(b, len) == NewPacket(readInt8(len.p).v, b, 0, 4 + IntOf(len.v))
Deliver ==
  /\ pc = "frame"
  /\ rd' = FrameOf(Contents(pkt.buffer),
                   readInt24([NewPacket(0, Contents(pkt.buffer), 0, pkt.buffer.len)
                              EXCEPT !.offset = 0]))
  /\ pc' = "read"
  /\ UNCHANGED <<items, sizing, k, pkt, got, err>>

AfterRead(r) ==
  /\ rd' = r.p
  /\ got' = Append(got, r.v)
  /\ k' = k + 1
  /\ IF IsThrow(r.v) THEN pc' = "threw" /\ err' = r.v
     ELSE /\ pc' = IF k = Len(items) THEN "done" ELSE "read"
          /\ UNCHANGED err
Read ==
  /\ pc = "read"
  /\ AfterRead(ReadItem(rd, items[k]))
  /\ UNCHANGED <<items, sizing, pkt>>

Next == Write \/ Alloc \/ Header \/ Deliver \/ Read

Spec == Init /\ [][Next]_vars

-----------------------------------------------------------------------------
(* Properties.                                                             *)

(* What the spec says an item can be (section 4.3): null, or an integer   *)
(* 0 <= n < 2^64 as a number or a decimal string.                          *)
NatValue(x) == IF x.t = "num" THEN x.mag ELSE DigitsNat(x.s)
Representable(it) ==
  \/ it.kind # "number"
  \/ it.v = JSNull
  \/ /\ it.v.t \in {"num", "str"}
     /\ it.v.t = "num" => ~it.v.neg /\ it.v.scale = 0
     /\ CmpNat(NatValue(it.v), POW2[64]) < 0

(* The value read back stands for the item written: the same integer (as *)
(* a number or a decimal string), null, the same bytes or the same text.  *)
Denotes(v, it) ==
  CASE it.kind = "number" /\ it.v # JSNull ->
         \/ v.t = "num" /\ ~v.neg /\ v.scale = 0 /\ v.mag = NatValue(it.v)
         \/ v.t = "str" /\ DigitsNat(v.s) = NatValue(it.v)
    [] it.kind \in {"number", "null"} -> v = JSNull
    [] it.kind = "buffer" -> v = JSBuf(it.v)
    [] it.kind \in {"string", "cstring"} -> v = JSStr(it.v)
    [] it.kind = "date" -> v = it.v

(* The narrowest length-coded form of m (spec section 3).                  *)
LenEncNat(m) ==
  CASE CmpNat(m, NatOf(251)) < 0 -> <<SmallOf(m)>>
    [] CmpNat(m, NatOf(65536)) < 0 -> <<252>> \o NatBytesLE(m, 2)
    [] CmpNat(m, NatOf(16777216)) < 0 -> <<253>> \o NatBytesLE(m, 3)
    [] OTHER -> <<254>> \o NatBytesLE(m, 8)

(* The bytes the spec's encoder emits for an item.                         *)
Canonical(it) ==
  CASE it.kind = "number" -> IF it.v = JSNull THEN <<251>> ELSE LenEncNat(NatValue(it.v))
    [] it.kind = "null" -> <<251>>
    [] it.kind \in {"buffer", "string"} -> LenEncNat(NatOf(Len(it.v))) \o it.v
    [] it.kind = "cstring" -> it.v \o <<0>>
    [] it.kind = "date" ->
         LET f == DateFields(it.v)
         IN <<11>> \o NatBytesLE(NatOf(f.year), 2) \o <<f.month + 1, f.date, f.hours, f.minutes, f.seconds>>
              \o NatBytesLE(NatOf(f.ms * 1000), 4)

CanonicalBytes(its) ==
  LET c[i \in 0..Len(its)] == IF i = 0 THEN <<>> ELSE c[i - 1] \o Canonical(its[i])
  IN c[Len(its)]

(* A real buffer's cursor never passes its end, and nothing is stored     *)
(* outside it: the caller's sizing pass and the writers agree on every     *)
(* offset the writers advance by.                                          *)
TypeOK ==
  /\ pc \in {"measure", "alloc", "write", "header", "frame", "read", "done", "threw"}
  /\ pkt.buffer.mock \/ pkt.offset <= pkt.buffer.len
  /\ DOMAIN pkt.buffer.bytes \subseteq 0..(pkt.buffer.len - 1)

(* Spec invariants 1, 2, 4 and 6 end to end: every item the spec allows is *)
(* written, framed by writeHeader and read back by the framer and the      *)
(* readers as the value written, with no byte of the frame left over; an   *)
(* exception is thrown only for an item the spec does not allow.  It      *)
(* fails if the sizing pass and the writes disagree, if the writer picks   *)
(* a form the reader decodes differently, or if the 0xfe reader returns a  *)
(* number that is not the value.                                           *)
RoundTrip ==
  /\ pc = "threw" => \E i \in 1..Len(items) : ~Representable(items[i])
  /\ pc = "done" =>
       /\ \A i \in 1..Len(items) : Representable(items[i]) /\ Denotes(got[i], items[i])
       /\ ~haveMoreData(rd)

(* writeLengthCodedNumber picks the narrowest of the five forms for every  *)
(* value it accepts, whether given as a number or as a decimal string      *)
(* (spec 4.2): once written, the frame body is the spec's encoding.        *)
WritesCanonical ==
  (pc \in {"header", "frame", "read", "done"} /\ \A i \in 1..Len(items) : Representable(items[i]))
    => SubSeq(Contents(pkt.buffer), 5, pkt.offset) = CanonicalBytes(items)

=============================================================================
