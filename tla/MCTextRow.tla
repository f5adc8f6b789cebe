----------------------------- MODULE MCTextRow ------------------------------
(***************************************************************************)
(* Model-checking instances of TextRow.                                    *)
(***************************************************************************)
EXTENDS TextRow

Col(name, table, type, unsigned, enc) ==
  [name |-> name, table |-> table, columnType |-> type, unsigned |-> unsigned,
   encoding |-> enc, decimals |-> 0]

(* Geometry cell values.  Doubles are given by their      *)
(* IEEE-754 bytes: 1.0, -2.0 and 0.5, none a palindrome.  The geometries:  *)
(* a little-endian point, a polygon of two rings, a collection (SRID 4326)*)
(* of a big-endian point, a big-endian multipoint of a little-endian      *)
(* point and a big-endian line string, an undefined type, and a 3-byte     *)
(* cell, too short for its SRID.                                           *)
D1 == <<63, 240, 0, 0, 0, 0, 0, 0>>
D2 == <<192, 0, 0, 0, 0, 0, 0, 0>>
D3 == <<63, 224, 0, 0, 0, 0, 0, 0>>
PtLE == Geo(1, 1, <<D1, D2>>)
PtBE == Geo(1, 0, <<D2, D3>>)
LineBE == Geo(2, 0, << <<D1, D2>>, <<D3, D1>> >>)
PolyLE == Geo(3, 1, << << <<D1, D2>>, <<D2, D3>> >>, << <<D3, D3>> >> >>)
CollLE == Geo(7, 1, << PtBE, Geo(4, 0, <<PtLE>>), LineBE >>)

(* Columns over two tables; "n" is NULL-typed, "k" a BIGINT.               *)
TextCols ==
  << Col("a", "t", "TINY", TRUE, "binary"),
     Col("b", "u", "SHORT", FALSE, "binary"),
     Col("d", "u", "VAR_STRING", FALSE, "utf8"),
     Col("f", "t", "NEWDECIMAL", FALSE, "binary"),
     Col("k", "t", "LONGLONG", FALSE, "binary"),
     Col("n", "u", "NULL", FALSE, "binary"),
     Col("v", "t", "BLOB", FALSE, "binary") >>
JsonCol == Col("h", "u", "JSON", FALSE, "binary")

MCFieldss == {SubSeq(TextCols, 1, 3), TextCols}
CastCols == << TextCols[1], TextCols[3], TextCols[4], JsonCol, TextCols[6] >>
CastFieldss == {CastCols}

(* The cell values: both signs, 200 and -300 past one signed byte, a      *)
(* decimal text, a 255-character BLOB whose length needs the 0xfc form     *)
(* (0xfc 0xff 0x00), and 2^53 + 2, which a double cannot hold.             *)
MCCellValues ==
  [a |-> {IntVal(200)},
   b |-> {IntVal(-300), IntVal(7)},
   d |-> {TextVal(<<120, 121>>)},
   f |-> {TextVal(<<45, 49, 46, 53, 48>>)},
   k |-> {IntVal(-2)},
   id |-> {IntVal(-300), IntVal(7)},
   p |-> {GeoVal(0, PtLE), GeoVal(0, PolyLE), GeoVal(4326, CollLE), GeoVal(0, Geo(0, 1, <<>>)),
          RawGeoVal(<<1, 0, 0>>)},
   n |-> {TextVal(<<>>)},
   v |-> {TextVal([j \in 1..255 |-> 97])},
   h |-> {TextVal(<<91, 49, 44, 50, 93>>)},
   da |-> {DateVal(<<2020, 12, 31, 0, 0, 0, 0>>)},
   dt |-> {DateVal(<<2020, 1, 2, 3, 4, 5, 1000>>)},
   i |-> {[neg |-> FALSE, mag |-> AddNat(TWO53, <<2>>)]}]

Opts(rowsAsArray, nestTables, typeCast) ==
  [rowsAsArray |-> rowsAsArray, nestTables |-> nestTables,
   supportBigNumbers |-> FALSE, bigNumberStrings |-> FALSE, typeCast |-> typeCast]

Cfg(decimalNumbers, supportBigNumbers, typeCast) ==
  [supportBigNumbers |-> supportBigNumbers, bigNumberStrings |-> FALSE, dateStrings |-> FALSE,
   decimalNumbers |-> decimalNumbers, typeCast |-> typeCast]

(* Every row shape the spec defines, with typeCast unset or true.          *)
LayoutOptionss ==
  {Opts(ra, nt, tc) : ra \in BOOLEAN, nt \in {Undefined, "true", "_"}, tc \in {Undefined, "true"}}
  \ {Opts(TRUE, nt, tc) : nt \in {"true", "_"}, tc \in {Undefined, "true"}}
LayoutConfigs == {Cfg(d, s, Undefined) : d \in BOOLEAN, s \in BOOLEAN}

(* Queries that set typeCast false or a callback, or leave it to a        *)
(* connection with a callback.                                             *)
CastOptionss == {Opts(FALSE, Undefined, tc) : tc \in {Undefined, "false"} \cup TypeCastFns}
CastConfigs == {Cfg(d, FALSE, tc) : d \in BOOLEAN, tc \in TypeCastFns}

(* A JSON column, and a BIGINT above 2^53, on the default text path.       *)
JsonFieldss == {<< TextCols[1], JsonCol >>}
BigFieldss == {<< Col("i", "t", "LONGLONG", FALSE, "binary") >>}
PlainOptionss == {Opts(FALSE, Undefined, Undefined)}
PlainConfigs == {Cfg(FALSE, FALSE, Undefined)}
BigConfigs == {Cfg(FALSE, TRUE, Undefined)}

(* A GEOMETRY column before a SHORT one.                                 *)
GeoCols == << Col("p", "t", "GEOMETRY", FALSE, "binary"), TextCols[2] >>
GeoFieldss == {GeoCols}
GeoOptionss == {Opts(FALSE, Undefined, tc) : tc \in {Undefined, "false"} \cup TypeCastFns}

(* A join: tables t and u both have a column "id".  Only the nested and   *)
(* array row shapes keep the two apart (a flat object keeps the last).    *)
JoinFieldss == {<< Col("id", "t", "SHORT", FALSE, "binary"),
                   Col("id", "u", "SHORT", FALSE, "binary") >>}
JoinOptionss == {Opts(FALSE, "true", Undefined), Opts(FALSE, "_", Undefined),
                 Opts(TRUE, Undefined, Undefined)}

(* A DATE, and a DATETIME(3) sent as '2020-01-02 03:04:05.001'; the       *)
(* passing run reads them with dateStrings, the default path with         *)
(* dateAscii.                                                              *)
DateFieldss == {<< Col("da", "t", "DATE", FALSE, "binary"),
                   [Col("dt", "u", "DATETIME", FALSE, "binary") EXCEPT !.decimals = 3] >>}
DateOptionss == {Opts(FALSE, Undefined, tc) : tc \in {Undefined, "next", "string"}}
DateStringConfigs == {[Cfg(FALSE, FALSE, Undefined) EXCEPT !.dateStrings = TRUE]}

-----------------------------------------------------------------------------
(* The passing run explores several setups, every row shape and the cast combinations: *)
(* each a set of column sequences with the options and configs chosen for  *)
(* it, rather than every combination of the three.                         *)
PassSetups ==
  {<<MCFieldss, LayoutOptionss, LayoutConfigs>>,
   <<CastFieldss, CastOptionss, CastConfigs>>,
   <<JoinFieldss, JoinOptionss, PlainConfigs>>,
   <<GeoFieldss, GeoOptionss, PlainConfigs>>,
   <<DateFieldss, DateOptionss, DateStringConfigs>>}
PassFieldss  == UNION {s[1] : s \in PassSetups}
PassOptionss == UNION {s[2] : s \in PassSetups}
PassConfigs  == UNION {s[3] : s \in PassSetups}

MCInit ==
  \E s \in PassSetups :
     /\ fields \in s[1] /\ options \in s[2] /\ config \in s[3]
     /\ Init

MCSpec == MCInit /\ [][Next]_vars

-----------------------------------------------------------------------------
(* Queries the connection ran before, whose parsers are in the cache: none, *)
(* or one of a row shape or a typeCast: false the passing setups repeat.   *)
NoEarlierQueries == {}
PassEarlierQueries ==
  {[fields |-> SubSeq(TextCols, 1, 3), options |-> Opts(FALSE, Undefined, Undefined)],
   [fields |-> TextCols, options |-> Opts(TRUE, Undefined, "true")],
   [fields |-> CastCols, options |-> Opts(FALSE, Undefined, "false")]}

(* A query that sets its own typeCast callback after one that used the     *)
(* connection's callback on the same columns.                               *)
OwnCastOptionss == {Opts(FALSE, Undefined, tc) : tc \in TypeCastFns}
CallbackEarlierQueries == {[fields |-> CastCols, options |-> Opts(FALSE, Undefined, Undefined)]}

=============================================================================
