------------------------------ MODULE JSValues ------------------------------
(***************************************************************************)
(* The JavaScript run-time values the codec produces, and the parts of the *)
(* JavaScript number semantics it relies on (IEEE-754 doubles, Number      *)
(* toString/toFixed, parseInt, the 'long' library's toNumber/toString).    *)
(*                                                                         *)
(* TLC's integers are 32-bit, while the codec handles 32-bit unsigned      *)
(* words, 64-bit integers and 16-digit decimals.  A natural number is      *)
(* therefore a little-endian sequence of decimal digits with no leading    *)
(* zero (<<>> is 0), and a JS number is a sign, such a magnitude and a     *)
(* decimal scale: the number is the double nearest to +-mag / 10^scale,    *)
(* which for the integers below 2^53 and the short decimals the model      *)
(* uses is that value itself.                                              *)
(***************************************************************************)
EXTENDS Integers, Sequences

(* The value undefined: an argument that was not passed, a read past the  *)
(* end of a Buffer.  A model value, so that it compares with numbers.     *)
CONSTANT Undefined

-----------------------------------------------------------------------------
(* Natural numbers as digit sequences.                                     *)

(* The digit of x at position i (1 is the units), 0 beyond its length.    *)
Dig(x, i) == IF i \in 1..Len(x) THEN x[i] ELSE 0

(* Drops leading (most significant) zero digits.                           *)
TrimNat(tm) ==
  LET nz == {i \in 1..Len(tm) : tm[i] # 0}
  IN IF nz = {} THEN <<>> ELSE SubSeq(tm, 1, CHOOSE i \in nz : \A j \in nz : j <= i)

(* The digit sequence of a TLC natural number.                             *)
NatOf(nn) ==
  IF nn = 0 THEN <<>>
  ELSE LET len == CHOOSE l \in 1..10 : nn \div 10 ^ (l - 1) \in 1..9
       IN [i \in 1..len |-> (nn \div 10 ^ (i - 1)) % 10]

(* The TLC integer of a digit sequence (only used below 2^31).             *)
SmallOf(sm) ==
  LET acc[i \in 0..Len(sm)] == IF i = 0 THEN 0 ELSE acc[i - 1] + sm[i] * 10 ^ (i - 1)
  IN acc[Len(sm)]

(* m * k + c for small k and c.                                            *)
MulAddNat(am, ak, ac) ==
  LET carry[i \in 0..Len(am)] ==
        IF i = 0 THEN ac ELSE (am[i] * ak + carry[i - 1]) \div 10
  IN TrimNat([i \in 1..Len(am) |-> (am[i] * ak + carry[i - 1]) % 10]
             \o NatOf(carry[Len(am)]))

(* a + b                                                                   *)
AddNat(pa, pb) ==
  LET n == IF Len(pa) > Len(pb) THEN Len(pa) ELSE Len(pb)
      carry[i \in 0..n] ==
        IF i = 0 THEN 0 ELSE (Dig(pa, i) + Dig(pb, i) + carry[i - 1]) \div 10
  IN TrimNat([i \in 1..n |-> (Dig(pa, i) + Dig(pb, i) + carry[i - 1]) % 10]
             \o NatOf(carry[n]))

(* a - b, for a >= b.                                                      *)
SubNat(sa, sb) ==
  LET borrow[i \in 0..Len(sa)] ==
        IF i = 0 THEN 0 ELSE IF sa[i] - Dig(sb, i) - borrow[i - 1] < 0 THEN 1 ELSE 0
  IN TrimNat([i \in 1..Len(sa) |-> (sa[i] - Dig(sb, i) - borrow[i - 1] + 10) % 10])

(* -1, 0 or 1 as a <, = or > b.                                            *)
CmpNat(ca, cb) ==
  LET diff == {i \in 1..Len(ca) : ca[i] # cb[i]}
      top  == CHOOSE i \in diff : \A j \in diff : j <= i
  IN IF Len(ca) # Len(cb) THEN (IF Len(ca) < Len(cb) THEN -1 ELSE 1)
     ELSE IF diff = {} THEN 0
     ELSE IF ca[top] < cb[top] THEN -1 ELSE 1

(* m \div k and m % k for a small k, by long division from the top digit. *)
DivSmall(vm, vk) ==
  LET n == Len(vm)
      rem[i \in 0..n] == IF i = 0 THEN 0 ELSE (rem[i - 1] * 10 + vm[n + 1 - i]) % vk
  IN [q |-> TrimNat([j \in 1..n |-> (rem[n - j] * 10 + vm[j]) \div vk]),
      r |-> rem[n]]

(* 2^p for p <= 84, from TLC integer powers of at most 2^30.              *)
Pow2Nat(p2) ==
  IF p2 <= 30 THEN NatOf(2 ^ p2)
  ELSE IF p2 <= 57 THEN MulAddNat(NatOf(2 ^ 30), 2 ^ (p2 - 30), 0)
  ELSE MulAddNat(MulAddNat(NatOf(2 ^ 30), 2 ^ 27, 0), 2 ^ (p2 - 57), 0)

Pow10Nat(p10) == [i \in 1..(p10 + 1) |-> IF i = p10 + 1 THEN 1 ELSE 0]

(* The natural number of a byte sequence, most significant byte first.     *)
FromBytesBE(bbe) ==
  LET acc[i \in 0..Len(bbe)] == IF i = 0 THEN <<>> ELSE MulAddNat(acc[i - 1], 256, bbe[i])
  IN acc[Len(bbe)]

(* The natural number of a little-endian byte sequence.                    *)
FromBytesLE(ble) ==
  FromBytesBE([i \in 1..Len(ble) |-> ble[Len(ble) + 1 - i]])

(* The powers of two the codec meets, computed once.                        *)
POW2 == [p \in 0..84 |-> Pow2Nat(p)]
TWO53 == POW2[53]

(* The least element of a nonempty set of integers.                        *)
MinOf(S) == CHOOSE x \in S : \A y \in S : x <= y

-----------------------------------------------------------------------------
(* IEEE-754 double rounding of an integer (round half to even).            *)

(* The number of low bits a double of the natural number m cannot hold: *)
(* the least j >= 1 with m < 2^(53 + j).                                   *)
LostBits(em) == MinOf({b \in 54..73 : CmpNat(em, POW2[b]) < 0}) - 53

(* The multiple of unit nearest to q * unit + r, ties to the even q.       *)
RoundQuot(dv, unit) ==
  MulAddNat(IF 2 * dv.r > unit \/ (2 * dv.r = unit /\ Dig(dv.q, 1) % 2 = 1)
              THEN AddNat(dv.q, <<1>>) ELSE dv.q,
            unit, 0)

(* m rounded to a multiple of unit, round half to even.                    *)
RoundToUnit(m, unit) == RoundQuot(DivSmall(m, unit), unit)

(* The double nearest to the natural number m (m < 2^73).                  *)
ToDoubleNat(tdm) ==
  IF CmpNat(tdm, TWO53) <= 0 THEN tdm ELSE RoundToUnit(tdm, 2 ^ LostBits(tdm))

(* m with its k low digits cut off, and that plus one unit of the last   *)
(* digit kept: the two k-digit-shorter candidates around m.                *)
TruncNat(m, k) == TrimNat([i \in 1..k |-> 0] \o SubSeq(m, k + 1, Len(m)))
UpperNat(m, k) == AddNat(TruncNat(m, k), Pow10Nat(k))
(* The number of significant digits of a nonzero natural number.          *)
SigLen(c) == Len(c) + 1 - MinOf({i \in 1..Len(c) : c[i] # 0})

(* |a - b|                                                                 *)
DistNat(a, b) == IF CmpNat(a, b) >= 0 THEN SubNat(a, b) ELSE SubNat(b, a)

(* Of the candidates, those with the fewest significant digits, and of     *)
(* them the closest to m.                                                  *)
Closest(m, good) ==
  LET fewest == {c \in good : \A d \in good : SigLen(c) <= SigLen(d)}
  IN CHOOSE c \in fewest : \A d \in fewest : CmpNat(DistNat(c, m), DistNat(d, m)) <= 0

(* Number.prototype.toString digits of an integral double m (ECMA-262      *)
(* Number::toString: the fewest significant digits that still round to m,  *)
(* the closest such when there are two), as a natural number.  Only the    *)
(* two neighbours of m at each digit position can read back as m.          *)
ShortestNat(shm) ==
  IF Len(shm) <= 15 THEN shm
  ELSE Closest(shm, {c \in {TruncNat(shm, k) : k \in 0..Len(shm) - 1}
                             \cup {UpperNat(shm, k) : k \in 0..Len(shm) - 1} :
                       ToDoubleNat(c) = shm})

-----------------------------------------------------------------------------
(* Values.  A JS value is a record tagged by t.                            *)

ASCII_0 == 48
ASCII_MINUS == 45
ASCII_PLUS == 43

JSNull == [t |-> "null"]
JSNaN == [t |-> "nan"]
(* A thrown exception of the given kind.                                   *)
Throw(kind) == [t |-> "throw", e |-> kind]
JSStr(s) == [t |-> "str", s |-> s]
JSBuf(b) == [t |-> "buf", b |-> b]
(* A JS array of the values of sequence s.                                 *)
JSArr(s) == [t |-> "array", elems |-> s]
(* The double whose IEEE-754 bytes, most significant first, are b: kept   *)
(* as those bytes, which tell apart every two doubles but NaNs and -0/+0. *)
JSDouble(b) == [t |-> "double", b |-> b]
(* The double a float32 widens to, kept as the float's 4 bytes, most      *)
(* significant first (widening is exact and one-to-one).                   *)
JSFloat(b) == [t |-> "float", b |-> b]

(* A Date, as its local time: the day number from 1970-01-01 and the      *)
(* milliseconds into that day.  The process's time zone is taken as one   *)
(* fixed offset, so two Dates are the same instant iff their local times  *)
(* are equal.  new Date(NaN) is the one invalid Date.                      *)
DateOf(day, ms) ==
  [t |-> "date", valid |-> TRUE, day |-> day + ms \div 86400000, ms |-> ms % 86400000]
InvalidDate == [t |-> "date", valid |-> FALSE, day |-> 0, ms |-> 0]

(* ECMAScript DayFromYear, InLeapYear and the first day of month m (0-11). *)
DayFromYear(y) ==
  365 * (y - 1970) + (y - 1969) \div 4 - (y - 1901) \div 100 + (y - 1601) \div 400
IsLeapYear(y) == (y % 4 = 0 /\ y % 100 # 0) \/ y % 400 = 0
MonthStart(m, leap) ==
  <<0, 31, 59, 90, 120, 151, 181, 212, 243, 273, 304, 334>>[m + 1]
    + (IF leap /\ m >= 2 THEN 1 ELSE 0)

(* new Date(y, mon, d, H, M, S, ms) with integral arguments: a year of    *)
(* 0-99 means 1900 + year, the month carries into the year (MakeDay), and *)
(* days, hours, minutes, seconds and ms carry upwards (MakeTime, MakeDate).*)
NewDate(y, mon, d, H, M, S, ms) ==
  LET yr == IF y \in 0..99 THEN 1900 + y ELSE y
      ym == yr + mon \div 12
      mn == mon % 12
  IN DateOf(DayFromYear(ym) + MonthStart(mn, IsLeapYear(ym)) + d - 1,
            ((H * 60 + M) * 60 + S) * 1000 + ms)

(* A decimal with trailing fractional zeros removed.                       *)
Normal(nmag, nscale) ==
  LET z == CHOOSE zz \in 0..nscale :
             /\ \A i \in 1..zz : Dig(nmag, i) = 0
             /\ (zz = nscale \/ Dig(nmag, zz + 1) # 0)
  IN IF nmag = <<>> THEN [mag |-> <<>>, scale |-> 0]
     ELSE [mag |-> SubSeq(nmag, z + 1, Len(nmag)), scale |-> nscale - z]

(* The number -1^neg * mag / 10^scale (-0 is 0: the codec compares with   *)
(* ===).                                                                   *)
JSNum(neg, mag, scale) ==
  LET nm == Normal(TrimNat(mag), scale)
  IN [t |-> "num", neg |-> neg /\ nm.mag # <<>>, mag |-> nm.mag, scale |-> nm.scale]

JSInt(n) == JSNum(n < 0, NatOf(IF n < 0 THEN -n ELSE n), 0)

(* The JS number an exact integer rounds to.                               *)
JSIntRounded(neg, m) == JSNum(neg, ToDoubleNat(m), 0)

IsNum(v) == v.t = "num"
IsIntegral(v) == IsNum(v) /\ v.scale = 0

(* The TLC integer of a small integral JS number.                          *)
IntOf(v) == IF v.neg THEN -SmallOf(v.mag) ELSE SmallOf(v.mag)

(* The ASCII codes of a natural number's decimal digits.                   *)
DigitChars(m) ==
  IF m = <<>> THEN <<ASCII_0>>
  ELSE [i \in 1..Len(m) |-> m[Len(m) + 1 - i] + ASCII_0]

SignChars(neg) == IF neg THEN <<ASCII_MINUS>> ELSE <<>>

ASCII_DOT == 46

(* The digits of mag / 10^scale written with a decimal point.              *)
PointChars(m, sc) ==
  LET ds == DigitChars(m)
      zs == [i \in 1..(sc - Len(ds) + 1) |-> ASCII_0]
      pd == IF Len(ds) > sc THEN ds ELSE zs \o ds
  IN SubSeq(pd, 1, Len(pd) - sc) \o <<ASCII_DOT>> \o SubSeq(pd, Len(pd) - sc + 1, Len(pd))

(* String(x): NaN, an integral number below 10^21 (shortest round-trip  *)
(* digits), or a decimal of at most 15 significant digits, which is its  *)
(* own shortest form.                                                      *)
NumberToString(v) ==
  IF v = JSNaN THEN <<78, 97, 78>>
  ELSE IF v.scale = 0 THEN SignChars(v.neg) \o DigitChars(ShortestNat(v.mag))
  ELSE SignChars(v.neg) \o PointChars(v.mag, v.scale)

(* x.toFixed() of an integral number below 10^21: its exact digits.        *)
NumberToFixed(v) == SignChars(v.neg) \o DigitChars(v.mag)

IsDigit(c) == c \in 48..57

(* The natural number of a run of ASCII digits.                            *)
DigitsNat(cs) == TrimNat([i \in 1..Len(cs) |-> cs[Len(cs) + 1 - i] - ASCII_0])

-----------------------------------------------------------------------------
(* Node.js Buffers, as sequences of bytes: JS index i is element i + 1.     *)

(* buffer[i]: the byte, or undefined outside the buffer.                   *)
ByteAt(b, i) == IF i \in 0..(Len(b) - 1) THEN b[i + 1] ELSE Undefined

(* A slice bound: a negative index counts from the end, and it is clamped *)
(* to 0..length; undefined stands for the default given.                   *)
SliceBound(b, x, dflt) ==
  LET y == IF x = Undefined THEN dflt ELSE IF x < 0 THEN x + Len(b) ELSE x
  IN IF y < 0 THEN 0 ELSE IF y > Len(b) THEN Len(b) ELSE y

(* buf.slice(start, end) (a view; the model copies, nothing is written).   *)
Slice(b, s, e) ==
  LET from == SliceBound(b, s, 0)
      to   == SliceBound(b, e, Len(b))
  IN IF to <= from THEN <<>> ELSE SubSeq(b, from + 1, to)

(* buf.toString('ascii', start, end): start below 0 counts as 0, end past *)
(* the buffer as its length, and end <= start gives ''; each byte is kept *)
(* to its low 7 bits.                                                      *)
AsciiString(b, s, e) ==
  LET from == IF s < 0 THEN 0 ELSE s
      to   == IF e > Len(b) THEN Len(b) ELSE e
  IN IF to <= from THEN <<>> ELSE [i \in 1..(to - from) |-> b[from + i] % 128]

(* buf.readUIntLE / readUInt16LE ...: the w bytes at off as an unsigned   *)
(* natural, or a RangeError when they do not all lie in the buffer.        *)
ReadUIntLE(b, off, w) ==
  IF off < 0 \/ off + w > Len(b) THEN Throw("RangeError")
  ELSE JSNum(FALSE, FromBytesLE(SubSeq(b, off + 1, off + w)), 0)

(* The w-byte two's complement number of unsigned u with its sign bit.    *)
TwosComplement(u, signBit, w) ==
  IF signBit THEN JSNum(TRUE, SubNat(POW2[8 * w], u), 0) ELSE JSNum(FALSE, u, 0)

(* buf.readInt8 / readInt16LE / readInt32LE: two's complement.             *)
ReadIntLE(b, off, w) ==
  IF off < 0 \/ off + w > Len(b) THEN Throw("RangeError")
  ELSE TwosComplement(FromBytesLE(SubSeq(b, off + 1, off + w)), b[off + w] >= 128, w)

-----------------------------------------------------------------------------
(* The 'long' library: a Long is kept as its 8 little-endian bytes.       *)

LongNeg(l, unsigned) == ~unsigned /\ l[8] >= 128
MagOf(u, neg) == IF neg THEN SubNat(POW2[64], u) ELSE u
LongMag(l, unsigned) == MagOf(FromBytesLE(l), LongNeg(l, unsigned))
(* long.toNumber(): high * 2^32 + low, one rounding of the exact value.   *)
LongToNumber(l, unsigned) == JSIntRounded(LongNeg(l, unsigned), LongMag(l, unsigned))
(* long.toString(): the exact decimal.                                     *)
LongToString(l, unsigned) ==
  JSStr(SignChars(LongNeg(l, unsigned)) \o DigitChars(LongMag(l, unsigned)))

-----------------------------------------------------------------------------
(* Number arithmetic the ASCII parsers do.                                 *)

(* result = 0; for each digit d: result *= 10; result += d, each          *)
(* operation rounded to a double.                                         *)
AccumDigits(ds) ==
  LET acc[i \in 0..Len(ds)] ==
        IF i = 0 THEN <<>>
        ELSE ToDoubleNat(AddNat(ToDoubleNat(MulAddNat(acc[i - 1], 10, 0)), NatOf(ds[i])))
  IN acc[Len(ds)]

(* parseInt(s, 10): an optional sign, then the longest run of digits,     *)
(* rounded to the nearest double; NaN when there is no digit.             *)
ParseInt10(s) ==
  LET neg  == s # <<>> /\ s[1] = ASCII_MINUS
      from == IF s # <<>> /\ s[1] \in {ASCII_MINUS, ASCII_PLUS} THEN 2 ELSE 1
      stop == {i \in from..Len(s) : ~IsDigit(s[i])}
      to   == IF stop = {} THEN Len(s) ELSE (CHOOSE i \in stop : \A j \in stop : i <= j) - 1
  IN IF to < from THEN JSNaN
     ELSE JSIntRounded(neg, DigitsNat(SubSeq(s, from, to)))

(* x.toFixed() of a number below 10^21 in magnitude; NaN gives "NaN".     *)
NumberToFixedChars(v) ==
  IF v = JSNaN THEN <<78, 97, 78>> ELSE NumberToFixed(v)

-----------------------------------------------------------------------------
(* JSON.parse over the JSON texts the model's cells hold: an unsigned     *)
(* integer or an array of them, without spaces.  The parsed value is kept *)
(* as the text it was parsed from; any other text throws a SyntaxError.   *)

IsJSONNumber(s) == s # <<>> /\ (\A i \in 1..Len(s) : IsDigit(s[i]))
                   /\ (s[1] = ASCII_0 => Len(s) = 1)
ASCII_COMMA == 44
ASCII_LBRACKET == 91
ASCII_RBRACKET == 93
IsJSONArray(s) ==
  /\ Len(s) >= 2 /\ s[1] = ASCII_LBRACKET /\ s[Len(s)] = ASCII_RBRACKET
  /\ LET inner  == SubSeq(s, 2, Len(s) - 1)
         commas == {0, Len(inner) + 1} \cup {i \in 1..Len(inner) : inner[i] = ASCII_COMMA}
     IN inner = <<>>
        \/ \A i \in commas \ {Len(inner) + 1} :
             LET next == CHOOSE j \in commas : j > i /\ \A k \in commas : k > i => j <= k
             IN IsJSONNumber(SubSeq(inner, i + 1, next - 1))
JSONParse(s) ==
  IF IsJSONNumber(s) \/ IsJSONArray(s) THEN [t |-> "json", s |-> s]
  ELSE Throw("SyntaxError")

(* String(v) / v.toString() of a decoded cell value; a JSON array prints *)
(* its elements without the brackets.                                      *)
ValueToString(v) ==
  CASE v.t \in {"num", "nan"} -> JSStr(NumberToString(v))
    [] v.t = "str"   -> v
    [] v.t = "buf"   -> JSStr(v.b)
    [] v.t = "json"  -> JSStr(IF v.s[1] = ASCII_LBRACKET THEN SubSeq(v.s, 2, Len(v.s) - 1)
                              ELSE v.s)
    [] v.t = "throw" -> v

=============================================================================
