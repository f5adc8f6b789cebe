------------------------ MODULE MCLengthCodedRoundTrip ------------------------
(***************************************************************************)
(* Items for LengthCodedRoundTrip: numbers on both sides of every form     *)
(* boundary (251, 2^16, 2^24), of 2^53 and of 2^64, given as numbers and   *)
(* as decimal strings; values the spec does not allow (-1, NaN, 2^64);     *)
(* buffers of 0 and 251 bytes (the 0xfc length form); text; NULL; dates.  *)
(***************************************************************************)
EXTENDS LengthCodedRoundTrip

Num(n) == [kind |-> "number", v |-> JSInt(n)]
BigNum(m) == [kind |-> "number", v |-> JSNum(FALSE, m, 0)]
DecStr(m) == [kind |-> "number", v |-> JSStr(DigitChars(m))]

(* "00000300": eight characters, so it goes through Long.fromString.       *)
Padded300 == [kind |-> "number", v |-> JSStr(<<48, 48, 48, 48, 48, 51, 48, 48>>)]

NullNumber == [kind |-> "number", v |-> JSNull]
NullItem   == [kind |-> "null", v |-> JSNull]
Buf251     == [kind |-> "buffer", v |-> [i \in 1..251 |-> 97]]
EmptyBuf   == [kind |-> "buffer", v |-> <<>>]
Text       == [kind |-> "string", v |-> <<120, 121>>]
CText      == [kind |-> "cstring", v |-> <<120, 121>>]

(* Dates, by local day number and ms into the day: 2020-01-02             *)
(* 03:04:05.678, 1969-12-31 23:59:59.999 (before the epoch) and           *)
(* 2024-02-29, a leap day.                                                 *)
DateItem(day, ms) == [kind |-> "date", v |-> DateOf(day, ms)]
Dates == {DateItem(18263, 11045678), DateItem(-1, 86399999), DateItem(19782, 0)}

(* Every value the spec allows, in every form.                             *)
Allowed ==
  {Num(0), Num(250), Num(251), Num(65535), Num(65536), Num(16777215), Num(16777216),
   BigNum(AddNat(TWO53, <<2>>)), BigNum(POW2[60]), Padded300,
   DecStr(AddNat(TWO53, <<1>>)), DecStr(SubNat(POW2[64], <<1>>)),
   NullNumber, NullItem, Buf251, EmptyBuf, Text, CText} \cup Dates

(* Values the spec rejects.                                                 *)
Rejected == {Num(-1), [kind |-> "number", v |-> JSNaN]}

(* One item, or two in a row, so each starts where the last one ended.     *)
PairItems == {Num(251), Num(65536), Padded300, BigNum(POW2[60]), Buf251, NullItem, CText,
              DateItem(18263, 11045678)}
MCItemss ==
  {<<it>> : it \in Allowed \cup Rejected} \cup {<<a, b>> : a, b \in PairItems}

(* Numbers in the 0xfd range sized by the static helper.                   *)
Range24Itemss == {<<Num(65536)>>, <<Num(16777215)>>}

=============================================================================
