---------------------------- MODULE MCBinaryRow -----------------------------
(***************************************************************************)
(* Model-checking instances of BinaryRow.                                  *)
(***************************************************************************)
EXTENDS BinaryRow

Col(name, table, type, unsigned, enc) ==
  [name |-> name, table |-> table, columnType |-> type, unsigned |-> unsigned,
   encoding |-> enc, decimals |-> 0]

(* Geometry cell values.  Doubles are given by their      *)
(* IEEE-754 bytes: 1.0, -2.0 and 0.5, none a palindrome.  The geometries:  *)
(* a little-endian point, a polygon of two rings, a collection (SRID 4326)*)
(* of a big-endian point, a big-endian multipoint of a little-endian      *)
(* point and a big-endian line string, an undefined type, and a 3-byte     *)
(* cell, too short for its SRID.                                           *)
D1 == <<63, 240, 0, 0, 0, 0, 0, 0>>
D2 == <<192, 0, 0, 0, 0, 0, 0, 0>>
D3 == <<63, 224, 0, 0, 0, 0, 0, 0>>
PtLE == Geo(1, 1, <<D1, D2>>)
PtBE == Geo(1, 0, <<D2, D3>>)
LineBE == Geo(2, 0, << <<D1, D2>>, <<D3, D1>> >>)
PolyLE == Geo(3, 1, << << <<D1, D2>>, <<D2, D3>> >>, << <<D3, D3>> >> >>)
CollLE == Geo(7, 1, << PtBE, Geo(4, 0, <<PtLE>>), LineBE >>)

(* Eight columns over two tables: the last two have their NULL bits in the *)
(* second bitmap byte.                                                     *)
AllCols ==
  << Col("a", "t", "TINY", TRUE, "binary"),
     Col("b", "t", "SHORT", FALSE, "binary"),
     Col("c", "u", "LONG", TRUE, "binary"),
     Col("d", "u", "VAR_STRING", FALSE, "utf8"),
     Col("e", "t", "YEAR", TRUE, "binary"),
     Col("f", "u", "NEWDECIMAL", FALSE, "binary"),
     Col("g", "t", "TINY", FALSE, "binary"),
     Col("h", "u", "JSON", FALSE, "binary") >>

(* 2, 6 and 8 columns: bitmaps of 1, 1 and 2 bytes, where a ceiling of    *)
(* (n + 9) / 8 would read 2, 2 and 3.                                      *)
MCFieldss == {SubSeq(AllCols, 1, 2), SubSeq(AllCols, 1, 6), AllCols}

MCCellValues ==
  [a |-> {IntVal(200)},
   b |-> {IntVal(-2)},
   c |-> {[neg |-> FALSE, mag |-> SubNat(Pow2Nat(32), <<1>>)]},
   d |-> {TextVal(<<120, 121>>)},
   e |-> {IntVal(2024)},
   f |-> {TextVal(<<45, 49, 46, 53, 48>>)},
   g |-> {IntVal(-128)},
   id |-> {IntVal(-300), IntVal(7)},
   r |-> {IeeeVal(<<63, 192, 0, 0>>)},
   x |-> {IeeeVal(D2)},
   p |-> {GeoVal(0, PtLE), GeoVal(0, PolyLE), GeoVal(4326, CollLE), GeoVal(0, Geo(0, 1, <<>>)),
          RawGeoVal(<<1, 0, 0>>)},
   da |-> {DateVal(<<2020, 12, 31, 0, 0, 0, 0>>), DateVal(<<0, 0, 0, 0, 0, 0, 0>>)},
   dt |-> {DateVal(<<2020, 1, 2, 3, 4, 5, 1000>>), DateVal(<<1999, 3, 1, 23, 59, 59, 0>>)},
   ts |-> {DateVal(<<2024, 2, 29, 0, 0, 0, 0>>)},
   v |-> {TextVal(<<255, 0, 97>>)},
   h |-> {TextVal(<<91, 49, 44, 50, 93>>)},
   n |-> {TextVal(<<>>)},
   i |-> {[neg |-> FALSE, mag |-> Pow2Nat(31)], IntVal(-2)},
   u |-> {[neg |-> FALSE, mag |-> AddNat(TWO53, <<2>>)]}]

Opts(rowsAsArray, nestTables, typeCast, binaryCast) ==
  [rowsAsArray |-> rowsAsArray, nestTables |-> nestTables,
   supportBigNumbers |-> FALSE, bigNumberStrings |-> FALSE,
   typeCast |-> typeCast, binaryCast |-> binaryCast]

Cfg(decimalNumbers, typeCast, binaryCast) ==
  [supportBigNumbers |-> FALSE, bigNumberStrings |-> FALSE, dateStrings |-> FALSE,
   decimalNumbers |-> decimalNumbers, typeCast |-> typeCast, binaryCast |-> binaryCast]

(* Every row shape the spec defines, without a cast.                       *)
LayoutOptionss ==
  {Opts(FALSE, Undefined, Undefined, Undefined), Opts(TRUE, Undefined, Undefined, Undefined),
   Opts(FALSE, "true", Undefined, Undefined), Opts(FALSE, "_", Undefined, Undefined)}
LayoutConfigs == {Cfg(d, Undefined, Undefined) : d \in BOOLEAN}

-----------------------------------------------------------------------------
(* Cells routed through the user's typeCast.                               *)

CastCols ==
  << AllCols[1], AllCols[4], AllCols[6], AllCols[8], Col("n", "t", "NULL", FALSE, "binary") >>
CastFieldss == {CastCols}

(* Every binaryCast/typeCast combination where the query either leaves    *)
(* typeCast unset or sets a callback of its own (the geometry callback,   *)
(* which calls next() on these columns, is left to the GEOMETRY setup).   *)
CastOptionss ==
  {Opts(FALSE, Undefined, tc, bc) :
     tc \in {Undefined} \cup (TypeCastFns \ {"geometry"}),
     bc \in {Undefined, "true", "false", "string"}}
CastConfigs ==
  {Cfg(d, tc, bc) : d \in BOOLEAN, tc \in {Undefined, "buffer"}, bc \in {Undefined, "true"}}

-----------------------------------------------------------------------------
(* BIGINT cells: a signed 2^31 and -2, an unsigned 2^53 + 2.               *)

BigCols ==
  << Col("i", "t", "LONGLONG", FALSE, "binary"), Col("u", "t", "LONGLONG", TRUE, "binary") >>
BigFieldss == {BigCols}
(* BIGINT columns among narrower ones, in every row shape.                 *)
BigMixedFieldss == {BigCols, BigCols \o SubSeq(AllCols, 1, 2)}
BigOptionss(supportBigNumbers, bigNumberStrings) ==
  {[Opts(FALSE, Undefined, Undefined, Undefined)
      EXCEPT !.supportBigNumbers = supportBigNumbers, !.bigNumberStrings = bigNumberStrings]}
DefaultBigOptionss == BigOptionss(FALSE, FALSE)
IfPossibleBigOptionss == BigOptionss(TRUE, FALSE)
StringBigOptionss ==
  {[o EXCEPT !.supportBigNumbers = TRUE, !.bigNumberStrings = TRUE] : o \in LayoutOptionss}
PlainConfigs == {Cfg(FALSE, Undefined, Undefined)}

(* A GEOMETRY column before a SHORT, a FLOAT (1.5) and a DOUBLE (-2.0).   *)
GeoCols == << Col("p", "t", "GEOMETRY", FALSE, "binary"), AllCols[2],
              Col("r", "t", "FLOAT", FALSE, "binary"), Col("x", "u", "DOUBLE", FALSE, "binary") >>
GeoFieldss == {GeoCols}
GeoOptionss == {Opts(FALSE, Undefined, tc, bc) :
                 tc \in {Undefined, "next", "buffer", "geometry"}, bc \in {Undefined, "true"}}

(* A join: tables t and u both have a column "id".  Only the nested and   *)
(* array row shapes keep the two apart (a flat object keeps the last).    *)
JoinFieldss == {<< Col("id", "t", "SHORT", FALSE, "binary"),
                   Col("id", "u", "SHORT", FALSE, "binary") >>}
JoinOptionss == {Opts(FALSE, "true", Undefined, Undefined), Opts(FALSE, "_", Undefined, Undefined),
                 Opts(TRUE, Undefined, Undefined, Undefined)}

(* Dates: a DATE (or the zero date, sent in 0 bytes), a DATETIME with    *)
(* microseconds (11 bytes) or without (7), a TIMESTAMP on a leap day (4). *)
DateFieldss == {<< Col("da", "t", "DATE", FALSE, "binary"), Col("dt", "u", "DATETIME", FALSE, "binary"),
                   Col("ts", "t", "TIMESTAMP", FALSE, "binary") >>}
DateOptionss == {Opts(FALSE, Undefined, tc, bc) :
                   tc \in {Undefined, "next", "buffer"}, bc \in {Undefined, "true"}}

(* A BLOB of the binary character set (no decoder in readCodeFor) beside *)
(* a utf8 VAR_STRING: through a cast (binaryCast true with a callback)    *)
(* in the passing run, and on the default path in binary_blob.            *)
BlobFieldss == {<< Col("v", "t", "BLOB", FALSE, "binary"), AllCols[4] >>}
BlobCastOptionss == {Opts(FALSE, Undefined, tc, "true") : tc \in {"next", "buffer", "string"}}
PlainOptionss == {Opts(FALSE, Undefined, Undefined, Undefined)}

-----------------------------------------------------------------------------
(* The passing run explores several setups, every row shape, the cast combinations and BIGINT as strings: *)
(* each a set of column sequences with the options and configs chosen for  *)
(* it, rather than every combination of the three.                         *)
PassSetups ==
  {<<MCFieldss, LayoutOptionss, LayoutConfigs>>,
   <<CastFieldss, CastOptionss, CastConfigs>>,
   <<BigMixedFieldss, StringBigOptionss, PlainConfigs>>,
   <<JoinFieldss, JoinOptionss, PlainConfigs>>,
   <<GeoFieldss, GeoOptionss, PlainConfigs>>,
   <<DateFieldss, DateOptionss, PlainConfigs>>,
   <<BlobFieldss, BlobCastOptionss, PlainConfigs>>}
PassFieldss  == UNION {s[1] : s \in PassSetups}
PassOptionss == UNION {s[2] : s \in PassSetups}
PassConfigs  == UNION {s[3] : s \in PassSetups}

MCInit ==
  \E s \in PassSetups :
     /\ fields \in s[1] /\ options \in s[2] /\ config \in s[3]
     /\ Init

MCSpec == MCInit /\ [][Next]_vars


-----------------------------------------------------------------------------
(* Queries the connection ran before, whose parsers are in the cache: none, *)
(* or ones whose fingerprints the passing setups repeat: a row shape of     *)
(* the layout setup, and a query on the cast columns with binaryCast false, *)
(* whose parser casts nothing whatever typeCast the later query brings.    *)
NoEarlierQueries == {}
PassEarlierQueries ==
  {[fields |-> SubSeq(AllCols, 1, 6), options |-> Opts(FALSE, "true", Undefined, Undefined)],
   [fields |-> AllCols, options |-> Opts(TRUE, Undefined, Undefined, Undefined)],
   [fields |-> CastCols, options |-> Opts(FALSE, Undefined, Undefined, "false")]}

=============================================================================
