---------------------------- MODULE PacketWriter -----------------------------
(***************************************************************************)
(* The writer half of the Packet Cursor and the Length-Coded Codec: the    *)
(* write* methods, writeHeader and the static length helpers of class      *)
(* Packet (src/unnamed/part_000, lines 496-684).                           *)
(*                                                                         *)
(* An outbound buffer is a record [len, bytes, mock]: bytes maps the       *)
(* offsets written so far to their bytes (Buffer.allocUnsafe leaves the    *)
(* others unspecified), and mock marks Packet.MockBuffer(), whose write    *)
(* methods are no-ops and whose length is 0.  Each writer maps a packet to *)
(* [p |-> the packet after the call, v |-> Undefined or the exception].    *)
(***************************************************************************)
EXTENDS Packet, MySQLRow

EmptyBytes == [k \in {} |-> 0]

(* Buffer.allocUnsafe(size)                                                *)
AllocUnsafe(size) == [len |-> size, bytes |-> EmptyBytes, mock |-> FALSE]

(* Packet.MockBuffer(): Buffer.alloc(0) with every method a no-op.         *)
MockBuffer == [len |-> 0, bytes |-> EmptyBytes, mock |-> TRUE]

(* The bytes of buf after the sequence bs is stored from offset off.       *)
Put(bytes, off, bs) ==
  [k \in DOMAIN bytes \cup {off + i - 1 : i \in 1..Len(bs)} |->
     IF k - off + 1 \in 1..Len(bs) THEN bs[k - off + 1] ELSE bytes[k]]

(* Node's buf.writeUInt8/16LE/32LE and writeInt32LE(value, off): a value  *)
(* outside the method's range, or bytes past the end, throw a RangeError   *)
(* and write nothing.                                                      *)
BufWrite(buf, off, inRange, bs) ==
  CASE buf.mock -> buf
    [] ~inRange \/ off < 0 \/ off + Len(bs) > buf.len -> Throw("RangeError")
    [] OTHER -> [buf EXCEPT !.bytes = Put(@, off, bs)]

(* b.copy(target, off): copies what fits, never throws.                    *)
BufCopy(buf, off, bs) ==
  IF buf.mock \/ off >= buf.len THEN buf
  ELSE [buf EXCEPT !.bytes = Put(@, off, SubSeq(bs, 1, MinOf({Len(bs), buf.len - off})))]

(* The w little-endian bytes of 0 <= k < 2^31.                             *)
LEBytes(k, w) == [i \in 1..w |-> (k \div (256 ^ (i - 1))) % 256]

-----------------------------------------------------------------------------
(* A Node write, then this.offset += w.                                    *)
Advance(p, b, w) ==
  IF IsThrow(b) THEN Ret(p, b) ELSE Ret([p EXCEPT !.buffer = b, !.offset = @ + w], Undefined)

(* writeInt8(n) / writeInt16(n): buffer.writeUInt8 / writeUInt16LE.       *)
writeInt8(p, n) ==
  Advance(p, BufWrite(p.buffer, p.offset, n \in 0..255, <<n % 256>>), 1)
writeInt16(p, n) ==
  Advance(p, BufWrite(p.buffer, p.offset, n \in 0..65535, LEBytes(n % 65536, 2)), 2)

(* writeInt24(n): writeInt8(n & 0xff), then writeInt16(n >> 8); a failing *)
(* second write leaves the first byte written and the offset past it.     *)
(* (n >> 8 is floor division for the 32-bit n the model writes.)          *)
Then16(r, n) == IF IsThrow(r.v) THEN r ELSE writeInt16(r.p, n)
(* writeInt24 with the high part masked, (n >> 8) & 0xffff.                *)
writeInt24Masked(p, n) == Then16(writeInt8(p, n % 256), (n \div 256) % 65536)
writeInt24(p, n) == Then16(writeInt8(p, n % 256), n \div 256)

(* writeNull(): buffer[offset] = 0xfb, which an index past the end        *)
(* silently ignores; offset++.                                             *)
writeNull(p) ==
  Ret([p EXCEPT !.buffer = IF p.offset < p.buffer.len /\ ~p.buffer.mock
                             THEN [@ EXCEPT !.bytes = Put(@, p.offset, <<251>>)] ELSE @,
                !.offset = @ + 1], Undefined)

(* writeBuffer(b): b.copy(buffer, offset); offset += b.length.  A Buffer  *)
(* too long to enumerate is passed as its first bytes and its length.      *)
CopyBuffer(p, head, length) ==
  [p EXCEPT !.buffer = BufCopy(@, p.offset, head), !.offset = @ + length]
writeBuffer(p, bs) == CopyBuffer(p, bs, Len(bs))

-----------------------------------------------------------------------------
(* writeLengthCodedNumber(n).  n is null, a number, or a decimal string;   *)
(* comparisons and Node's writes coerce a string with +n.                  *)
ToNumberJS(n) == IF n.t = "str" THEN JSNum(FALSE, DigitsNat(n.s), 0) ELSE n

(* m mod 2^64 for m < 7 * 2^64: Long's unsigned arithmetic wraps.          *)
Mod64(m) ==
  LET r[k \in 0..6] ==
        IF k = 0 THEN m
        ELSE IF CmpNat(r[k - 1], POW2[64]) >= 0 THEN SubNat(r[k - 1], POW2[64]) ELSE r[k - 1]
  IN r[6]

(* The Long the code builds, as its unsigned value, or Undefined for null: *)
(* Long.fromNumber(n, true) for a number above 0xffffff (2^64 - 1 from     *)
(* 2^64 up), Long.fromString(n, true, 10) for a string of 8 or more        *)
(* characters.                                                             *)
LongValue(n) ==
  CASE n.t = "num" /\ ~n.neg /\ CmpNat(n.mag, NatOf(16777215)) > 0 ->
         IF CmpNat(n.mag, POW2[64]) >= 0 THEN SubNat(POW2[64], <<1>>) ELSE n.mag
    [] n.t = "str" /\ Len(n.s) >= 8 -> Mod64(DigitsNat(n.s))
    [] OTHER -> Undefined

(* this.buffer.writeInt32LE(low, offset), then writeInt32LE(high,        *)
(* offset + 4), then offset += 8: each word is in range by construction   *)
(* and checked against the end separately.                                 *)
HighWord(p, b, lv) ==
  IF IsThrow(b) THEN Ret(p, b)
  ELSE Advance([p EXCEPT !.buffer = b],
               BufWrite(b, p.offset + 4, TRUE, SubSeq(NatBytesLE(lv, 8), 5, 8)), 8)
LongWords(p, lv) ==
  HighWord(p, BufWrite(p.buffer, p.offset, TRUE, SubSeq(NatBytesLE(lv, 8), 1, 4)), lv)
Then8(r, lv) == IF IsThrow(r.v) THEN r ELSE LongWords(r.p, lv)
Then24(r, n) == IF IsThrow(r.v) THEN r ELSE writeInt24(r.p, n)

(* WriteSmall with the one-byte form taken up to 0xfb inclusive.        *)
WriteSmallOffByOne(p, x) ==
  CASE x.t = "nan" -> Ret(p, Throw("Error"))
    [] IntOf(x) <= 251 -> writeInt8(p, IntOf(x))
    [] IntOf(x) < 65536 -> Then16(writeInt8(p, 252), IntOf(x))
    [] IntOf(x) < 16777216 -> Then24(writeInt8(p, 253), IntOf(x))
    [] OTHER -> Ret(p, Throw("Error"))

(* The three short forms; NaN fails every comparison and reaches the      *)
(* final throw.                                                            *)
WriteSmall(p, x) ==
  CASE x.t = "nan" -> Ret(p, Throw("Error"))
    [] IntOf(x) < 251 -> writeInt8(p, IntOf(x))
    [] IntOf(x) < 65536 -> Then16(writeInt8(p, 252), IntOf(x))
    [] IntOf(x) < 16777216 -> Then24(writeInt8(p, 253), IntOf(x))
    [] OTHER -> Ret(p, Throw("Error"))

(* WriteLong without the UInt24 shortcut for a small Long.                *)
WriteLongNoShort(p, n, lv) ==
  IF lv = Undefined THEN WriteSmall(p, ToNumberJS(n))
  ELSE Then8(writeInt8(p, 254), lv)

(* A Long below 2^24 (high === 0, low & 0xff000000 === 0) is written as   *)
(* the number low; any other Long in the 0xfe form.                        *)
WriteLong(p, n, lv) ==
  IF lv = Undefined THEN WriteSmall(p, ToNumberJS(n))
  ELSE IF CmpNat(lv, NatOf(16777216)) < 0 THEN WriteSmall(p, JSNum(FALSE, lv, 0))
  ELSE Then8(writeInt8(p, 254), lv)

writeLengthCodedNumber(p, n) ==
  IF n = JSNull THEN writeInt8(p, 251) ELSE WriteLong(p, n, LongValue(n))

(* writeLengthCodedBuffer(b) and writeLengthCodedString(s, encoding): the *)
(* length, then the bytes copied (the string's only when buffer.length is  *)
(* not 0), then offset += length.  encode is the identity on the model's   *)
(* ASCII text, as decode is.                                               *)
CopyAfter(r, bs) ==
  IF IsThrow(r.v) THEN r ELSE Ret(writeBuffer(r.p, bs), Undefined)
(* writeLengthCodedString with the offset advanced only on a real buffer. *)
writeLengthCodedStringGuarded(p, s) ==
  LET r == writeLengthCodedNumber(p, JSInt(Len(s)))
  IN IF IsThrow(r.v) \/ r.p.buffer.mock THEN r ELSE Ret(writeBuffer(r.p, s), Undefined)
writeLengthCodedBuffer(p, bs) == CopyAfter(writeLengthCodedNumber(p, JSInt(Len(bs))), bs)
writeLengthCodedString(p, s) == CopyAfter(writeLengthCodedNumber(p, JSInt(Len(s))), s)

(* writeNullTerminatedString(s, encoding): the bytes, then writeInt8(0).   *)
writeNullTerminatedString(p, s) == writeInt8(writeBuffer(p, s), 0)

(* The local calendar fields of a valid Date: getFullYear(), getMonth()   *)
(* (0-11), getDate(), getHours(), getMinutes(), getSeconds() and           *)
(* getMilliseconds().                                                      *)
YearOfDay(day) ==
  CHOOSE y \in (1969 + (IF day < 0 THEN day \div 365 ELSE day \div 366))
               ..(1971 + (IF day < 0 THEN day \div 366 ELSE day \div 365)) :
    DayFromYear(y) <= day /\ day < DayFromYear(y + 1)
DateFields(d) ==
  LET y    == YearOfDay(d.day)
      yday == d.day - DayFromYear(y)
      mon  == CHOOSE m \in 0..11 :
                /\ MonthStart(m, IsLeapYear(y)) <= yday
                /\ (m = 11 \/ yday < MonthStart(m + 1, IsLeapYear(y)))
  IN [year |-> y, month |-> mon, date |-> yday - MonthStart(mon, IsLeapYear(y)) + 1,
      hours |-> d.ms \div 3600000, minutes |-> (d.ms \div 60000) % 60,
      seconds |-> (d.ms \div 1000) % 60, ms |-> d.ms % 1000]

(* writeDate(d): eight Node writes at offset + 0 .. 8, the length 11, the *)
(* year (writeUInt16LE), month + 1, date, hours, minutes, seconds          *)
(* (writeUInt8) and ms * 1000 (writeUInt32LE); then offset += 12.  A       *)
(* write that throws ends the call with the offset where it was.           *)
writeDate(p, d) ==
  LET f == DateFields(d)
      w == << [at |-> 0, ok |-> TRUE, bs |-> <<11>>],
             [at |-> 1, ok |-> f.year \in 0..65535, bs |-> LEBytes(f.year % 65536, 2)],
             [at |-> 3, ok |-> TRUE, bs |-> <<f.month + 1>>],
             [at |-> 4, ok |-> TRUE, bs |-> <<f.date>>],
             [at |-> 5, ok |-> TRUE, bs |-> <<f.hours>>],
             [at |-> 6, ok |-> TRUE, bs |-> <<f.minutes>>],
             [at |-> 7, ok |-> TRUE, bs |-> <<f.seconds>>],
             [at |-> 8, ok |-> TRUE, bs |-> LEBytes(f.ms * 1000, 4)] >>
      buf[i \in 0..8] ==
        IF i = 0 THEN p.buffer
        ELSE IF IsThrow(buf[i - 1]) THEN buf[i - 1]
        ELSE BufWrite(buf[i - 1], p.offset + w[i].at, w[i].ok, w[i].bs)
  IN IF IsThrow(buf[8]) THEN Ret(p, buf[8])
     ELSE Ret([p EXCEPT !.buffer = buf[8], !.offset = @ + 12], Undefined)

(* writeHeader(sequenceId): offset = 0, writeInt24(buffer.length - 4),    *)
(* writeInt8(sequenceId), then the saved offset back; a throwing write    *)
(* leaves the offset where it stopped.                                     *)
RestoreOffset(r, offset) == IF IsThrow(r.v) THEN r ELSE Ret([r.p EXCEPT !.offset = offset], Undefined)
ThenSeq(r, sequenceId) == IF IsThrow(r.v) THEN r ELSE writeInt8(r.p, sequenceId)
writeHeader(p, sequenceId) ==
  RestoreOffset(ThenSeq(writeInt24([p EXCEPT !.offset = 0], p.buffer.len - 4), sequenceId),
                p.offset)

(* Packet.lengthCodedNumberLength(n): null compares as 0, a string as its *)
(* number, NaN as nothing.                                                 *)
lengthCodedNumberLength(n) ==
  LET x == IF n = JSNull THEN JSInt(0) ELSE ToNumberJS(n)
  IN CASE x.t = "nan" -> 9
       [] x.neg \/ CmpNat(x.mag, NatOf(251)) < 0 -> 1
       [] CmpNat(x.mag, NatOf(65536)) < 0 -> 3
       [] CmpNat(x.mag, NatOf(16777216)) < 0 -> 5
       [] OTHER -> 9

(* Packet.lengthCodedStringLength(str, encoding)                           *)
lengthCodedStringLength(s) == lengthCodedNumberLength(JSInt(Len(s))) + Len(s)

=============================================================================
