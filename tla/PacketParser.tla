---------------------------- MODULE PacketParser ----------------------------
(***************************************************************************)
(* The Primitive Codec: the PacketParser object of                         *)
(* lib/parsers/packet_parser.js (src/unnamed/part_000, lines 966-1511).    *)
(* Each decoder is an operator from (buffer, offset, length) to the JS     *)
(* value it returns or the exception it throws; an argument the caller     *)
(* leaves out is Undefined.  Offsets are JS offsets (0-based).             *)
(*                                                                         *)
(* Not modelled here: dateTimeString, timeString, and the exponent        *)
(* branch of floatAscii: the cells the model feeds to floatAscii never    *)
(* contain 'e' or 'E'.                                                     *)
(***************************************************************************)
EXTENDS JSValues, FiniteSets

(* offset || 0                                                             *)
OrZero(offset) == IF offset = Undefined THEN 0 ELSE offset

int8(buffer, offset)   == ReadIntLE(buffer, OrZero(offset), 1)
(* Mutant: an unsigned byte decoded as signed.                              *)
uint8Signed(buffer, offset) == int8(buffer, offset)
uint8(buffer, offset)  ==
  IF ByteAt(buffer, OrZero(offset)) = Undefined THEN Undefined
  ELSE JSInt(ByteAt(buffer, OrZero(offset)))
int16(buffer, offset)  == ReadIntLE(buffer, OrZero(offset), 2)
uint16(buffer, offset) == ReadUIntLE(buffer, OrZero(offset), 2)
int32(buffer, offset)  == ReadIntLE(buffer, OrZero(offset), 4)
uint32(buffer, offset) == ReadUIntLE(buffer, OrZero(offset), 4)

(* new Long(readInt32LE(offset), readInt32LE(4 + offset), unsigned): the  *)
(* Long is its 8 bytes; a short buffer throws from readInt32LE.            *)
uint64Long(buffer, offset) ==
  IF OrZero(offset) + 8 > Len(buffer) THEN Throw("RangeError")
  ELSE SubSeq(buffer, OrZero(offset) + 1, OrZero(offset) + 8)
int64Long(buffer, offset) == uint64Long(buffer, offset)

IsThrow(v) == v # Undefined /\ DOMAIN v = {"t", "e"}

(* buffer.readFloatLE / readDoubleLE(offset || 0): the bytes, most         *)
(* significant first, or a RangeError past the end.                         *)
ReadBytesLE(buffer, off, w) == [i \in 1..w |-> buffer[off + w + 1 - i]]
float32(buffer, offset) ==
  IF OrZero(offset) + 4 > Len(buffer) THEN Throw("RangeError")
  ELSE JSFloat(ReadBytesLE(buffer, OrZero(offset), 4))
float64(buffer, offset) ==
  IF OrZero(offset) + 8 > Len(buffer) THEN Throw("RangeError")
  ELSE JSDouble(ReadBytesLE(buffer, OrZero(offset), 8))

uint64Number(buffer, offset) ==
  LET l == uint64Long(buffer, offset)
  IN IF IsThrow(l) THEN l ELSE LongToNumber(l, TRUE)

(* m * 2^32                                                                *)
TimesWord(m) == MulAddNat(MulAddNat(m, 65536, 0), 65536, 0)

(* When the high word is not negative the value is computed as             *)
(* word0 + 0x100000000 * word1 with word0 read as a SIGNED 32-bit word.   *)
(* word0 + high for a signed word0.                                        *)
PlusSignedWord(high, word0) ==
  IF ~word0.neg THEN JSIntRounded(FALSE, AddNat(high, word0.mag))
  ELSE IF CmpNat(high, word0.mag) >= 0 THEN JSIntRounded(FALSE, SubNat(high, word0.mag))
  ELSE JSIntRounded(TRUE, SubNat(word0.mag, high))
Int64Words(buffer, offset, word0, word1) ==
  IF IsThrow(word0) THEN word0
  ELSE IF IsThrow(word1) THEN word1
  ELSE IF ~word1.neg THEN PlusSignedWord(TimesWord(word1.mag), word0)
  ELSE LongToNumber(uint64Long(buffer, offset), FALSE)
int64Number(buffer, offset) ==
  Int64Words(buffer, offset, ReadIntLE(buffer, OrZero(offset), 4),
             ReadIntLE(buffer, 4 + OrZero(offset), 4))

uint64String(buffer, offset) ==
  LET l == uint64Long(buffer, offset)
  IN IF IsThrow(l) THEN l ELSE LongToString(l, TRUE)
int64String(buffer, offset) ==
  LET l == int64Long(buffer, offset)
  IN IF IsThrow(l) THEN l ELSE LongToString(l, FALSE)

(* const long = ...Long(...).toString(); long.toNumber() is then a call   *)
(* of a method strings do not have: a TypeError whatever the bytes.       *)
uint64NumberIfPossible(buffer, offset) ==
  LET l == uint64Long(buffer, offset)
  IN IF IsThrow(l) THEN l ELSE Throw("TypeError")
int64NumberIfPossible(buffer, offset) ==
  LET l == int64Long(buffer, offset)
  IN IF IsThrow(l) THEN l ELSE Throw("TypeError")

(* The (offset, length) the ASCII parsers default to.                      *)
ArgOffset(buffer, offset) == OrZero(offset)
ArgLength(buffer, offset, length) ==
  IF offset = Undefined THEN Len(buffer)
  ELSE IF length = Undefined THEN Len(buffer) - offset ELSE length

(* floatAscii: optional '-', optional '+', then digits and dots; every    *)
(* non-dot character is accumulated as a digit and every digit after a dot *)
(* multiplies the divisor by 10.                                           *)
floatAscii(buffer, offset, length) ==
  LET off   == ArgOffset(buffer, offset)
      len   == ArgLength(buffer, offset, length)
      neg   == ByteAt(buffer, off) = ASCII_MINUS
      off1  == IF neg THEN off + 1 ELSE off
      from  == IF ByteAt(buffer, off1) = ASCII_PLUS THEN off1 + 1 ELSE off1
      chars == [i \in 1..(off + len - from) |-> ByteAt(buffer, from + i - 1)]
      dots  == {i \in DOMAIN chars : chars[i] = ASCII_DOT}
      digs  == SelectSeq(chars, LAMBDA c : c # ASCII_DOT)
      first == CHOOSE i \in dots : \A j \in dots : i <= j
      scale == IF dots = {} THEN 0 ELSE Len(chars) - first - (Cardinality(dots) - 1)
  IN IF len = 0 THEN JSNaN
     ELSE JSNum(neg, AccumDigits([i \in 1..Len(digs) |-> digs[i] - ASCII_0]), scale)

(* the parsed result when result.toFixed() reproduces str, else str       *)
FixedOrString(result, str) ==
  IF NumberToFixedChars(result) = str THEN result ELSE JSStr(str)

(* A byte past the end of the buffer reads as undefined, and              *)
(* undefined - 0x30 is NaN, which every later step keeps.                  *)
ReadsPastEnd(buffer, from, end) == \E i \in from..(end - 1) : ByteAt(buffer, i) = Undefined

(* intAscii: values of more than 16 digits, and 16-digit values starting  *)
(* with 9 that toFixed() does not reproduce, are returned as the string   *)
(* buffer.toString('ascii', offset, length), i.e. with length as the END. *)
intAscii(buffer, offset, length) ==
  LET off  == ArgOffset(buffer, offset)
      len  == ArgLength(buffer, offset, length)
      neg  == ByteAt(buffer, off) = ASCII_MINUS
      pos1 == IF neg THEN off + 1 ELSE off
      plus == ByteAt(buffer, pos1) = ASCII_PLUS
      pos  == IF plus THEN pos1 + 1 ELSE pos1
      numDigits == len - (IF neg THEN 1 ELSE 0) - (IF plus THEN 1 ELSE 0)
      str  == AsciiString(buffer, off, len)
      digs == [i \in 1..(off + len - pos) |-> ByteAt(buffer, pos + i - 1) - ASCII_0]
  IN IF len = 0 THEN JSNaN
     ELSE IF numDigits > 16 THEN JSStr(str)
     ELSE IF numDigits = 16 /\ ByteAt(buffer, pos) = 57
       THEN FixedOrString(ParseInt10(str), str)
     ELSE IF ReadsPastEnd(buffer, pos, off + len) THEN JSNaN
     ELSE JSNum(neg, AccumDigits(digs), 0)

(* Mutant: the leading '-' skipped but the result not negated.             *)
intAsciiSmallUnsigned(buffer, offset, length) ==
  LET off  == ArgOffset(buffer, offset)
      len  == ArgLength(buffer, offset, length)
      neg  == ByteAt(buffer, off) = ASCII_MINUS
      pos1 == IF neg THEN off + 1 ELSE off
      pos  == IF ByteAt(buffer, pos1) = ASCII_PLUS THEN pos1 + 1 ELSE pos1
      digs == [i \in 1..(off + len - pos) |-> ByteAt(buffer, pos + i - 1) - ASCII_0]
  IN IF len = 0 \/ ReadsPastEnd(buffer, pos, off + len) THEN JSNaN
     ELSE JSNum(FALSE, AccumDigits(digs), 0)

intAsciiSmall(buffer, offset, length) ==
  LET off  == ArgOffset(buffer, offset)
      len  == ArgLength(buffer, offset, length)
      neg  == ByteAt(buffer, off) = ASCII_MINUS
      pos1 == IF neg THEN off + 1 ELSE off
      pos  == IF ByteAt(buffer, pos1) = ASCII_PLUS THEN pos1 + 1 ELSE pos1
      digs == [i \in 1..(off + len - pos) |-> ByteAt(buffer, pos + i - 1) - ASCII_0]
  IN IF len = 0 \/ ReadsPastEnd(buffer, pos, off + len) THEN JSNaN
     ELSE JSNum(neg, AccumDigits(digs), 0)

(* The default (offset, length) of the date decoders.                      *)
DateLength(buffer, offset, length) ==
  CASE offset = Undefined -> Len(buffer)
    [] length = Undefined -> Len(buffer) - offset
    [] OTHER              -> length

(* new Date(y, m, d, H, M, S, ms) of JS numbers: an undefined or NaN      *)
(* argument gives the invalid Date; ms is truncated (MakeTime).            *)
DateFrom(parts) ==
  IF \E i \in DOMAIN parts : parts[i] = Undefined \/ ~IsNum(parts[i])
  THEN InvalidDate
  ELSE LET n(i) == IntOf(parts[i])
       IN NewDate(n(1), n(2), n(3), n(4), n(5), n(6), n(7))

(* dateTime: the binary DATE/DATETIME/TIMESTAMP layout, y (2 bytes LE),   *)
(* m, d, then H, M, S when length > 6, then microseconds (4 bytes LE)     *)
(* when length > 10; INVALID_DATE when every field is 0 (or undefined),   *)
(* else new Date(y, m - 1, d, H, M, S, microseconds / 1000).               *)
dateTime(buffer, offset, length) ==
  LET off == OrZero(offset)
      len == DateLength(buffer, offset, length)
      zero == JSInt(0)
      y  == IF len > 3 THEN uint16(buffer, off) ELSE zero
      m  == IF len > 3 THEN uint8(buffer, 2 + off) ELSE zero
      d  == IF len > 3 THEN uint8(buffer, 3 + off) ELSE zero
      H  == IF len > 6 THEN uint8(buffer, 4 + off) ELSE zero
      M  == IF len > 6 THEN uint8(buffer, 5 + off) ELSE zero
      S  == IF len > 6 THEN uint8(buffer, 6 + off) ELSE zero
      us == IF len > 10 THEN uint32(buffer, 7 + off) ELSE zero
      parts == <<y, m, d, H, M, S, us>>
      Falsy(v) == v = Undefined \/ IntOf(v) = 0
  IN CASE \E i \in 1..7 : IsThrow(parts[i]) ->
            parts[CHOOSE i \in 1..7 : IsThrow(parts[i])]
       [] \A i \in 1..7 : Falsy(parts[i]) -> InvalidDate
       [] OTHER -> DateFrom(<<y, IF m = Undefined THEN m ELSE JSInt(IntOf(m) - 1),
                              d, H, M, S,
                              IF us = Undefined THEN us ELSE JSInt(IntOf(us) \div 1000)>>)

(* dateAscii: the text layout 'YYYY-MM-DD[ HH:MM:SS[.f...]]', each field  *)
(* read by intAsciiSmall; the fraction's digits are read as an integer    *)
(* and leftPad(6, us) / 1000 is that integer / 1000 (padding keeps the    *)
(* value, NaN stays NaN).  The month is passed to new Date as read.        *)
dateAscii(buffer, offset, length) ==
  LET off == OrZero(offset)
      len == DateLength(buffer, offset, length)
      zero == JSInt(0)
      y  == IF len > 9 THEN intAsciiSmall(buffer, off, 4) ELSE zero
      m  == IF len > 9 THEN intAsciiSmall(buffer, 5 + off, 2) ELSE zero
      d  == IF len > 9 THEN intAsciiSmall(buffer, 8 + off, 2) ELSE zero
      H  == IF len > 18 THEN intAsciiSmall(buffer, 11 + off, 2) ELSE zero
      M  == IF len > 18 THEN intAsciiSmall(buffer, 14 + off, 2) ELSE zero
      S  == IF len > 18 THEN intAsciiSmall(buffer, 17 + off, 2) ELSE zero
      us == IF len > 20 THEN intAsciiSmall(buffer, 20 + off, len - 20) ELSE zero
      ms == IF IsNum(us) THEN JSInt(IntOf(us) \div 1000) ELSE us
  IN DateFrom(<<y, m, d, H, M, S, ms>>)

(* JSON(buffer, offset, length): buffer.slice(offset, length) when either *)
(* is given, then JSON.parse of its UTF-8 text.                            *)
JSON(buffer, offset, length) ==
  LET b == IF offset # Undefined \/ length # Undefined
             THEN Slice(buffer, offset, length) ELSE buffer
  IN JSONParse(b)

alwaysNull == JSNull

-----------------------------------------------------------------------------
(* geometry(buffer, offset, length): MySQL's WKB.  parseGeometry reads     *)
(* through the closure's one offset; a partial parse is [o, v], the       *)
(* offset after it and the value read, or the exception a Buffer read     *)
(* threw (a RangeError past the end of the buffer).                        *)

(* buffer.readUInt8 / readUInt32LE / readUInt32BE.                         *)
ReadUInt8(b, o) == ReadUIntLE(b, o, 1)
ReadUInt32(b, o, le) ==
  IF le THEN ReadUIntLE(b, o, 4)
  ELSE IF o < 0 \/ o + 4 > Len(b) THEN Throw("RangeError")
  ELSE JSNum(FALSE, FromBytesBE(SubSeq(b, o + 1, o + 4)), 0)
(* readDoubleLE / readDoubleBE: the 8 bytes, most significant first.      *)
ReadDouble(b, o, le) ==
  IF o < 0 \/ o + 8 > Len(b) THEN Throw("RangeError")
  ELSE JSDouble([i \in 1..8 |-> b[o + (IF le THEN 9 - i ELSE i)]])

(* x, then y: { x: x, y: y }.                                              *)
GeoPoint(x, y) == [t |-> "point", x |-> x, y |-> y]
ReadPoint(b, o, le) ==
  LET x == ReadDouble(b, o, le)
      y == ReadDouble(b, o + 8, le)
  IN CASE IsThrow(x) -> x
       [] IsThrow(y) -> y
       [] OTHER      -> [o |-> o + 16, v |-> GeoPoint(x, y)]

(* An item of a counted list: a point, a ring (a counted list of points) *)
(* or a part (a whole geometry).                                           *)
RECURSIVE parseGeometry(_, _), CountedItems(_, _, _, _)
ReadGeoItem(kind, b, o, le) ==
  CASE kind = "point" -> ReadPoint(b, o, le)
    [] kind = "ring"  -> CountedItems("point", b, o, le)
    [] kind = "part"  -> parseGeometry(b, o)

(* for (i = n; i > 0; i--) result.push(item()): n items from offset o,   *)
(* each read from where the last one ended.  Every item reads at least 4  *)
(* bytes, so a count larger than the bytes left can hold ends in the      *)
(* RangeError of some read past the end (checked first: a count of up to  *)
(* 2^32 - 1 is not enumerated).                                            *)
ReadItems(kind, b, o, le, n) ==
  LET step[i \in 0..IntOf(n)] ==
        IF i = 0 THEN [o |-> o, v |-> <<>>]
        ELSE IF IsThrow(step[i - 1]) THEN step[i - 1]
        ELSE LET r == ReadGeoItem(kind, b, step[i - 1].o, le)
             IN IF IsThrow(r) THEN r ELSE [o |-> r.o, v |-> Append(step[i - 1].v, r.v)]
      last == step[IntOf(n)]
  IN CASE CmpNat(n.mag, NatOf((Len(b) - o) \div 4)) > 0 -> Throw("RangeError")
       [] IsThrow(last) -> last
       [] OTHER         -> [o |-> last.o, v |-> JSArr(last.v)]

(* A uint32 count at o, then that many items after it.                     *)
CountedItems(kind, b, o, le) ==
  LET n == ReadUInt32(b, o, le)
  IN IF IsThrow(n) THEN n ELSE ReadItems(kind, b, o + 4, le, n)

(* parseGeometry(): the byte order byte, the wkbType in that order, and   *)
(* the body: a point, a line string of points, a polygon of rings of      *)
(* points, or (types 4-7) geometries each with its own byte order; any    *)
(* other type (compared as a digit sequence: it may be up to 2^32 - 1) is *)
(* null with nothing more read.                                            *)
parseGeometry(b, o) ==
  LET byteOrder == ReadUInt8(b, o)
      le        == IntOf(byteOrder) # 0
      wkbType   == ReadUInt32(b, o + 1, le)
      Is(k)     == wkbType.mag = NatOf(k)
      body      == o + 5
  IN CASE IsThrow(byteOrder) -> byteOrder
       [] IsThrow(wkbType)   -> wkbType
       [] Is(1)              -> ReadPoint(b, body, le)
       [] Is(2)              -> CountedItems("point", b, body, le)
       [] Is(3)              -> CountedItems("ring", b, body, le)
       [] \E k \in 4..7 : Is(k) -> CountedItems("part", b, body, le)
       [] OTHER              -> [o |-> body, v |-> JSNull]

(* offset and length default to the whole buffer; fewer than 4 bytes, or  *)
(* a length of 0, is null; otherwise the 4-byte SRID is skipped.           *)
geometry(buffer, offset, length) ==
  LET off == OrZero(offset)
      len == CASE offset = Undefined -> Len(buffer)
               [] length = Undefined -> Len(buffer) - offset
               [] OTHER              -> length
      r   == parseGeometry(buffer, off + 4)
  IN CASE len = 0 \/ len < 4 -> JSNull
       [] IsThrow(r)         -> r
       [] OTHER              -> r.v

(* StringParser.decode: the model's text is ASCII, which every encoding   *)
(* the columns use decodes to the same code units.                         *)
decode(buffer, encoding) == JSStr(buffer)

(* The decoder a compiled row parser names as its defaultCast, applied to *)
(* (buffer, offset, length); JSON.parse is the binary parser's JSON cast. *)
DefaultCast(name, buffer, offset, length) ==
  CASE name = "int8"          -> int8(buffer, offset)
    [] name = "uint8"         -> uint8(buffer, offset)
    [] name = "int16"         -> int16(buffer, offset)
    [] name = "uint16"        -> uint16(buffer, offset)
    [] name = "int32"         -> int32(buffer, offset)
    [] name = "uint32"        -> uint32(buffer, offset)
    [] name = "float32"       -> float32(buffer, offset)
    [] name = "float64"       -> float64(buffer, offset)
    [] name = "uint64Number"  -> uint64Number(buffer, offset)
    [] name = "int64Number"   -> int64Number(buffer, offset)
    [] name = "uint64String"  -> uint64String(buffer, offset)
    [] name = "int64String"   -> int64String(buffer, offset)
    [] name = "uint64NumberIfPossible" -> uint64NumberIfPossible(buffer, offset)
    [] name = "int64NumberIfPossible"  -> int64NumberIfPossible(buffer, offset)
    [] name = "floatAscii"    -> floatAscii(buffer, offset, length)
    [] name = "intAscii"      -> intAscii(buffer, offset, length)
    [] name = "intAsciiSmall" -> intAsciiSmall(buffer, offset, length)
    [] name = "JSON"          -> JSON(buffer, offset, length)
    [] name = "JSON.parse"    -> JSONParse(buffer)
    [] name = "alwaysNull"    -> alwaysNull
    [] name = "geometry"      -> geometry(buffer, offset, length)
    [] name = "dateTime"      -> dateTime(buffer, offset, length)
    [] name = "dateAscii"     -> dateAscii(buffer, offset, length)

=============================================================================
