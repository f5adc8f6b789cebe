------------------------------ MODULE MySQLRow ------------------------------
(***************************************************************************)
(* The other side of the row parsers: how the MySQL server lays a result   *)
(* row out on the wire (spec section 6, the MySQL client/server protocol), *)
(* and what the specification says each cell decodes to (spec sections    *)
(* 4.1, 4.4 and 4.5).  Nothing here is translated from the codec: it is    *)
(* what the codec is checked against.                                      *)
(*                                                                         *)
(* A column is a record [name, table, columnType, unsigned, encoding,      *)
(* decimals].  A cell value is an integer [neg, mag] (mag a digit          *)
(* sequence, see JSValues) for the integer types and a text [txt] (a       *)
(* sequence of ASCII codes) for the others.                                *)
(***************************************************************************)
EXTENDS JSValues

IntTypes == {"TINY", "SHORT", "LONG", "INT24", "YEAR", "LONGLONG"}
(* The width of an integer cell in a binary row.                           *)
BinaryWidth == [TINY |-> 1, SHORT |-> 2, LONG |-> 4, INT24 |-> 4, YEAR |-> 2,
                LONGLONG |-> 8]

(* An integer cell value from a TLC integer.                               *)
IntVal(n) == [neg |-> n < 0, mag |-> NatOf(IF n < 0 THEN -n ELSE n)]
TextVal(cs) == [txt |-> cs]

(* The w little-endian bytes of a natural number below 256^w.              *)
NatBytesLE(m, w) ==
  LET step[i \in 0..w] ==
        IF i = 0 THEN [q |-> m, r |-> 0] ELSE DivSmall(step[i - 1].q, 256)
  IN [i \in 1..w |-> step[i].r]

(* Two's complement, w bytes.                                              *)
IntBytesLE(v, w) ==
  NatBytesLE(IF v.neg THEN SubNat(Pow2Nat(8 * w), v.mag) ELSE v.mag, w)

(* The length-coded encoding of a length below 2^24.                       *)
LenEnc(n) ==
  CASE n < 251     -> <<n>>
    [] n < 65536   -> <<252>> \o NatBytesLE(NatOf(n), 2)
    [] OTHER       -> <<253>> \o NatBytesLE(NatOf(n), 3)

RevBytes(s) == [i \in 1..Len(s) |-> s[Len(s) + 1 - i]]

(* Date and time columns.  A date cell value holds its fields            *)
(* <<y, mo, d, H, M, S, us>> and, as txt, the binary body the server      *)
(* sends: 0 bytes for the zero date, 4 with no time, 7 with no           *)
(* microseconds, else 11 (y as 2 bytes LE, microseconds as 4).            *)
DateTypes == {"DATE", "NEWDATE", "DATETIME", "TIMESTAMP"}
DateBody(f) ==
  LET len == CASE \A i \in 1..7 : f[i] = 0 -> 0
               [] \A i \in 4..7 : f[i] = 0 -> 4
               [] f[7] = 0                 -> 7
               [] OTHER                    -> 11
  IN SubSeq(NatBytesLE(NatOf(f[1]), 2) \o SubSeq(f, 2, 6) \o NatBytesLE(NatOf(f[7]), 4),
            1, len)
DateVal(f) == [date |-> f, txt |-> DateBody(f)]

(* The decimal digits of n, zero-padded to w characters.                  *)
PadDigits(n, w) ==
  LET s == DigitChars(NatOf(n)) IN [i \in 1..(w - Len(s)) |-> ASCII_0] \o s

(* The text protocol's form: 'YYYY-MM-DD' for a DATE, then ' HH:MM:SS',   *)
(* then '.' and the column's decimals first digits of the 6 microsecond   *)
(* digits.                                                                 *)
DateText(col, f) ==
  LET day  == PadDigits(f[1], 4) \o <<45>> \o PadDigits(f[2], 2) \o <<45>> \o PadDigits(f[3], 2)
      time == <<32>> \o PadDigits(f[4], 2) \o <<58>> \o PadDigits(f[5], 2) \o <<58>> \o PadDigits(f[6], 2)
      frac == IF col.decimals = 0 THEN <<>>
              ELSE <<ASCII_DOT>> \o SubSeq(PadDigits(f[7], 6), 1, col.decimals)
  IN IF col.columnType \in {"DATE", "NEWDATE"} THEN day ELSE day \o time \o frac

(* The instant a date cell denotes (spec 4.1): invalid when every field is *)
(* zero, else the local time y-mo-d H:M:S and us / 1000 ms.                *)
SpecDate(f) ==
  IF \A i \in 1..7 : f[i] = 0 THEN InvalidDate
  ELSE DateOf(DayFromYear(f[1]) + MonthStart(f[2] - 1, IsLeapYear(f[1])) + f[3] - 1,
              ((f[4] * 60 + f[5]) * 60 + f[6]) * 1000 + f[7] \div 1000)

(* The text form of a cell: integers in decimal, anything else as is.      *)
CellText(col, v) ==
  CASE col.columnType \in IntTypes  -> SignChars(v.neg) \o DigitChars(v.mag)
    [] col.columnType \in DateTypes -> DateText(col, v.date)
    [] OTHER                        -> v.txt

(* A FLOAT or DOUBLE cell value: its IEEE-754 bytes, most significant     *)
(* first (4 for a FLOAT, 8 for a DOUBLE).  Only binary rows carry them;  *)
(* a text row's float is its decimal text.                                 *)
FloatTypes == {"FLOAT", "DOUBLE"}
IeeeVal(bytes) == [ieee |-> bytes]

(* The bytes of a non-NULL cell in a binary row; a NULL-typed column has  *)
(* no bytes; a float is its bytes in little-endian order.                  *)
BinaryCell(col, v) ==
  CASE col.columnType \in IntTypes -> IntBytesLE(v, BinaryWidth[col.columnType])
    [] col.columnType \in FloatTypes -> RevBytes(v.ieee)
    [] col.columnType = "NULL"      -> <<>>
    [] OTHER                        -> LenEnc(Len(v.txt)) \o v.txt

(* The raw bytes of a non-NULL cell of a binary row, without the length  *)
(* prefix of a length-coded cell.                                          *)
BinaryCellBytes(col, v) ==
  CASE col.columnType \in IntTypes   -> IntBytesLE(v, BinaryWidth[col.columnType])
    [] col.columnType \in FloatTypes -> RevBytes(v.ieee)
    [] OTHER                        -> v.txt

(* The bytes of a cell in a text row.                                      *)
TextCell(col, v, null) ==
  IF null THEN <<251>> ELSE LenEnc(Len(CellText(col, v))) \o CellText(col, v)

(* The NULL bitmap of a binary row: (n + 7 + 2) \div 8 bytes, column i   *)
(* (from 0) at bit i + 2.                                                  *)
NullBitmap(n, nulls) ==
  [k \in 1..((n + 7 + 2) \div 8) |->
     LET bits == {b \in 0..7 : (8 * (k - 1) + b - 2) + 1 \in nulls}
     IN LET pw[j \in 0..8] == IF j = 0 THEN 0
                              ELSE pw[j - 1] + (IF j - 1 \in bits THEN 2 ^ (j - 1) ELSE 0)
        IN pw[8]]

RECURSIVE Concat(_)
Concat(ss) == IF ss = <<>> THEN <<>> ELSE Head(ss) \o Concat(Tail(ss))

(* The payload of a binary row: status byte, NULL bitmap, non-NULL cells. *)
BinaryRowPayload(fields, vals, nulls) ==
  <<0>> \o NullBitmap(Len(fields), nulls)
  \o Concat([i \in 1..Len(fields) |->
               IF i \in nulls THEN <<>> ELSE BinaryCell(fields[i], vals[i])])

TextRowPayload(fields, vals, nulls) ==
  Concat([i \in 1..Len(fields) |-> TextCell(fields[i], vals[i], i \in nulls)])

(* A frame: length:u24le, sequenceId:u8, payload.                          *)
Frame(seq, payload) == NatBytesLE(NatOf(Len(payload)), 3) \o <<seq>> \o payload

-----------------------------------------------------------------------------
(* Geometries (spec 4.1, OGC Well-Known Binary).  A geometry is           *)
(* [type, order, body]: order 1 is little-endian, 0 big-endian; the body  *)
(* of a point (type 1) is <<x, y>>, a double being its 8 IEEE-754 bytes,  *)
(* most significant first; of a line string (2) a sequence of points; of  *)
(* a polygon (3) a sequence of rings of points; of a multi-geometry or     *)
(* collection (4-7) a sequence of geometries; of any other type nothing.   *)
Geo(type, order, body) == [type |-> type, order |-> order, body |-> body]

WkbU32(le, n) == IF le THEN NatBytesLE(NatOf(n), 4) ELSE RevBytes(NatBytesLE(NatOf(n), 4))
WkbPoint(le, p) == Concat([i \in 1..2 |-> IF le THEN RevBytes(p[i]) ELSE p[i]])
WkbPoints(le, ps) == WkbU32(le, Len(ps)) \o Concat([i \in 1..Len(ps) |-> WkbPoint(le, ps[i])])

(* The WKB of a geometry; each part of a collection in its own order.      *)
RECURSIVE Wkb(_)
Wkb(g) ==
  LET le == g.order = 1
  IN <<g.order>> \o WkbU32(le, g.type) \o
     CASE g.type = 1       -> WkbPoint(le, g.body)
       [] g.type = 2       -> WkbPoints(le, g.body)
       [] g.type = 3       -> WkbU32(le, Len(g.body))
                              \o Concat([r \in 1..Len(g.body) |-> WkbPoints(le, g.body[r])])
       [] g.type \in 4..7  -> WkbU32(le, Len(g.body))
                              \o Concat([i \in 1..Len(g.body) |-> Wkb(g.body[i])])
       [] OTHER            -> <<>>

(* A GEOMETRY cell: the 4-byte SRID, then the WKB; geo is Undefined for   *)
(* a cell of other bytes.                                                  *)
GeoVal(srid, g) == [txt |-> NatBytesLE(NatOf(srid), 4) \o Wkb(g), geo |-> g]
RawGeoVal(bytes) == [txt |-> bytes, geo |-> Undefined]

-----------------------------------------------------------------------------
(* What a cell decodes to.                                                 *)

(* The parsed WKB form (spec 4.1): {x, y} for a point, an array of points *)
(* for a line string, an array of rings for a polygon, an array of the    *)
(* parts' values for types 4-7; an undefined type is null.                 *)
SpecPoint(p) == [t |-> "point", x |-> JSDouble(p[1]), y |-> JSDouble(p[2])]
RECURSIVE GeoValue(_)
GeoValue(g) ==
  CASE g.type = 1      -> SpecPoint(g.body)
    [] g.type = 2      -> JSArr([i \in 1..Len(g.body) |-> SpecPoint(g.body[i])])
    [] g.type = 3      -> JSArr([r \in 1..Len(g.body) |->
                                   JSArr([i \in 1..Len(g.body[r]) |-> SpecPoint(g.body[r][i])])])
    [] g.type \in 4..7 -> JSArr([i \in 1..Len(g.body) |-> GeoValue(g.body[i])])
    [] OTHER          -> JSNull

(* A geometry cell's value: a buffer shorter than 4 bytes is null.         *)
GeometryValue(v) ==
  IF Len(v.txt) < 4 THEN JSNull
  ELSE IF v.geo = Undefined THEN JSNull ELSE GeoValue(v.geo)

(* The decimal a DECIMAL cell's text denotes, as the nearest double.       *)
DecimalNumber(cs) ==
  LET neg  == cs # <<>> /\ cs[1] = ASCII_MINUS
      dots == {i \in 1..Len(cs) : cs[i] = ASCII_DOT}
      digs == SelectSeq(cs, IsDigit)
  IN JSNum(neg, DigitsNat(digs),
           IF dots = {} THEN 0 ELSE Len(cs) - (CHOOSE d \in dots : TRUE))

(* The 64-bit integer policy (spec 4.1, 4.5).                              *)
BigIntValue(v, supportBigNumbers, bigNumberStrings) ==
  CASE ~supportBigNumbers -> JSIntRounded(v.neg, v.mag)
    [] bigNumberStrings   -> JSStr(SignChars(v.neg) \o DigitChars(v.mag))
    [] OTHER -> IF CmpNat(v.mag, TWO53) <= 0 THEN JSNum(v.neg, v.mag, 0)
                ELSE JSStr(SignChars(v.neg) \o DigitChars(v.mag))

(* The value of a non-NULL cell under the default decoding.                *)
CellValue(col, v, supportBigNumbers, bigNumberStrings, decimalNumbers, dateStrings) ==
  CASE col.columnType = "LONGLONG" ->
         BigIntValue(v, supportBigNumbers, bigNumberStrings)
    [] col.columnType \in IntTypes -> JSNum(v.neg, v.mag, 0)
    [] col.columnType \in {"DECIMAL", "NEWDECIMAL"} ->
         IF decimalNumbers THEN DecimalNumber(v.txt) ELSE JSStr(v.txt)
    [] col.columnType = "JSON" -> [t |-> "json", s |-> v.txt]
    [] col.columnType = "NULL" -> JSNull
    [] col.columnType = "GEOMETRY" -> GeometryValue(v)
    [] col.columnType = "FLOAT"    -> JSFloat(v.ieee)
    [] col.columnType = "DOUBLE"   -> JSDouble(v.ieee)
    [] col.columnType \in DateTypes ->
         IF dateStrings THEN JSStr(DateText(col, v.date)) ELSE SpecDate(v.date)
    [] OTHER -> IF col.encoding = "binary" THEN JSBuf(v.txt) ELSE JSStr(v.txt)

=============================================================================
