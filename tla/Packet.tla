------------------------------- MODULE Packet -------------------------------
(***************************************************************************)
(* The Packet Cursor and the length-coded reader: class Packet of          *)
(* lib/packets/packet.js (src/unnamed/part_000, lines 28-684).             *)
(*                                                                         *)
(* A packet is a record; each reader maps a packet to [p |-> the packet    *)
(* after the call, v |-> the value returned or the exception thrown].      *)
(* A reader that throws after moving the offset returns the moved packet, *)
(* as the code leaves it.                                                  *)
(***************************************************************************)
EXTENDS PacketParser

(* new Packet(id, buffer, start, end)                                      *)
NewPacket(id, buffer, start, end) ==
  [sequenceId |-> id, numPackets |-> 1, buffer |-> buffer,
   start |-> start, offset |-> start + 4, end |-> end]

Ret(p, v) == [p |-> p, v |-> v]
Moved(p, n) == [p EXCEPT !.offset = @ + n]

(* readInt8(): buffer[offset++], undefined past the buffer.                *)
readInt8(p) == Ret(Moved(p, 1), ByteAt(p.buffer, p.offset))

(* readInt16()/readInt32(): offset += n, then readUIntLE(offset - n).     *)
readInt16(p) == Ret(Moved(p, 2), ReadUIntLE(p.buffer, p.offset, 2))
readInt32(p) == Ret(Moved(p, 4), ReadUIntLE(p.buffer, p.offset, 4))

(* JS  a + b  and  b << k  on the bytes readInt8 returns (undefined       *)
(* shifts as 0, and undefined + a number is NaN).                          *)
ShlByte(b, k) == IF b = Undefined THEN 0 ELSE b * 2 ^ k
PlusByte(a, rest) == IF a = Undefined THEN JSNaN ELSE JSInt(a + rest)

(* readInt24(): readInt16() + (readInt8() << 16)                            *)
Int24Hi(lo, b) == Ret(b.p, JSNum(FALSE, AddNat(lo.mag, NatOf(ShlByte(b.v, 16))), 0))
Int24Of(a) == IF IsThrow(a.v) THEN a ELSE Int24Hi(a.v, readInt8(a.p))
readInt24(p) == Int24Of(readInt16(p))

(* The number word1 * 0x100000000 + word0 for two unsigned words.          *)
WordsNat(word0, word1) == AddNat(TimesWord(word1.mag), word0.mag)

(* The tail of the 0xfe case once the two words are read: a high word    *)
(* below 2^21 gives the exact number, otherwise the Long's string under  *)
(* bigNumberStrings, else its number when that prints as the string.     *)
LongResult(q, bigNumberStrings, resNumber, resString) ==
  IF bigNumberStrings THEN Ret(q, resString)
  ELSE IF JSStr(NumberToString(resNumber)) = resString THEN Ret(q, resNumber)
  ELSE Ret(q, resString)

WordsResult(p, w0, w1, bigNumberStrings, signed) ==
  IF IsThrow(w0.v) THEN w0
  ELSE IF IsThrow(w1.v) THEN w1
  ELSE IF w1.v.mag = <<>> THEN Ret(w1.p, w0.v)
  ELSE IF CmpNat(w1.v.mag, NatOf(2097152)) < 0
    THEN Ret(w1.p, JSNum(FALSE, WordsNat(w0.v, w1.v), 0))
  ELSE LongResult(w1.p, bigNumberStrings,
                  LongToNumber(SubSeq(p.buffer, p.offset + 1, p.offset + 8), ~signed),
                  LongToString(SubSeq(p.buffer, p.offset + 1, p.offset + 8), ~signed))

ReadWords(p, w0, bigNumberStrings, signed) ==
  WordsResult(p, w0, readInt32(w0.p), bigNumberStrings, signed)

(* readLengthCodedNumberExt(tag, bigNumberStrings, signed)                 *)
readLengthCodedNumberExt(p, tag, bigNumberStrings, signed) ==
  CASE tag = 251 -> Ret(p, JSNull)
    [] tag = 252 ->
         LET a == readInt8(p)  b == readInt8(a.p)
         IN Ret(b.p, PlusByte(a.v, ShlByte(b.v, 8)))
    [] tag = 253 ->
         LET a == readInt8(p)  b == readInt8(a.p)  c == readInt8(b.p)
         IN Ret(c.p, PlusByte(a.v, ShlByte(b.v, 8) + ShlByte(c.v, 16)))
    [] tag = 254 -> ReadWords(p, readInt32(p), bigNumberStrings, signed)
    [] OTHER -> Ret(p, Throw("Error"))

(* Mutant: the NULL marker 251 taken as a one-byte length.                 *)
readLengthCodedNumberInclusive(p, bigNumberStrings, signed) ==
  LET byte1 == ByteAt(p.buffer, p.offset)
  IN IF byte1 # Undefined /\ byte1 <= 251 THEN Ret(Moved(p, 1), JSInt(byte1))
     ELSE readLengthCodedNumberExt(Moved(p, 1), byte1, bigNumberStrings, signed)

(* readLengthCodedNumber(bigNumberStrings, signed): byte1 < 251 is the    *)
(* value itself (undefined < 251 is false).                                *)
readLengthCodedNumber(p, bigNumberStrings, signed) ==
  LET byte1 == ByteAt(p.buffer, p.offset)
  IN IF byte1 # Undefined /\ byte1 < 251 THEN Ret(Moved(p, 1), JSInt(byte1))
     ELSE readLengthCodedNumberExt(Moved(p, 1), byte1, bigNumberStrings, signed)

(* readBuffer(len): offset += len, then the Buffer                         *)
(* slice(offset - len, offset); an undefined len reads to the end of the  *)
(* packet.                                                                 *)
readBuffer(p, len) ==
  LET n == IF len = Undefined THEN p.end - p.offset ELSE len
  IN Ret(Moved(p, n), JSBuf(Slice(p.buffer, p.offset, p.offset + n)))

(* readLengthCodedBuffer(): null for the NULL marker.                      *)
BufferOfLength(len) ==
  IF len.v = JSNull \/ IsThrow(len.v) THEN len
  ELSE readBuffer(len.p, IntOf(len.v))
readLengthCodedBuffer(p) == BufferOfLength(readLengthCodedNumber(p, FALSE, FALSE))

(* readLengthCodedString(encoding): null for the NULL marker, else offset *)
(* += len and the decoded slice(offset - len, offset).                     *)
StringOfLength(len, encoding) ==
  IF len.v = JSNull \/ IsThrow(len.v) THEN len
  ELSE Ret(Moved(len.p, IntOf(len.v)),
           decode(Slice(len.p.buffer, len.p.offset, len.p.offset + IntOf(len.v)), encoding))
readLengthCodedString(p, encoding) ==
  StringOfLength(readLengthCodedNumber(p, FALSE, FALSE), encoding)

(* readNullTerminatedString(encoding): scans while buffer[end] is truthy  *)
(* (neither 0 nor undefined past the end), then offset = end + 1.          *)
NulAfter(b, start) ==
  MinOf({e \in start..(start + Len(b)) : ByteAt(b, e) \in {0, Undefined}})
StringUpTo(p, end, encoding) ==
  Ret([p EXCEPT !.offset = end + 1], decode(Slice(p.buffer, p.offset, end), encoding))
readNullTerminatedString(p, encoding) ==
  StringUpTo(p, NulAfter(p.buffer, p.offset), encoding)

(* haveMoreData()                                                          *)
(* readDateTime(): a length byte, 0xfb for null, then dateTime over that  *)
(* many bytes.                                                             *)
readDateTime(p) ==
  LET l == readInt8(p)
  IN IF l.v = 251 THEN Ret(l.p, JSNull)
     ELSE Ret(Moved(l.p, l.v), dateTime(p.buffer, l.p.offset, l.v))

haveMoreData(p) == p.end > p.offset

=============================================================================
