----------------------------- MODULE BinaryRow ------------------------------
(***************************************************************************)
(* The binary-protocol Row Parser: compile() of lib/parsers/binary_parser.js *)
(* (src/unnamed/part_000, lines 685-965) and the parser function it        *)
(* generates, run on one row packet.                                       *)
(*                                                                         *)
(* Compile is compile(fields, options, config): it fixes, per column, the  *)
(* reader, the encoding, the decoder and the NULL-bitmap byte and bit the  *)
(* generated code tests, and it writes config's binaryCast and typeCast    *)
(* into the caller's options object.  The generated function is the        *)
(* prologue Begin (result array, nested table objects, status byte, NULL   *)
(* bitmap bytes) followed by one ReadField step per column.                *)
(*                                                                         *)
(* JS true/false option values are the strings "true"/"false"; an unset   *)
(* option is Undefined; a user callback is one of CastField's              *)
(* TypeCastFns.                                                            *)
(***************************************************************************)
EXTENDS CastField, Packet, MySQLRow, TLC

CONSTANTS
  Fieldss,     \* the column-definition sequences a result set may have
  CellValues,  \* [column name -> the values its cells may hold]
  Optionss,    \* the query options objects
  Configs,     \* the connection configs
  EarlierQueries \* [fields, options] of queries the connection ran before

VARIABLES
  fields,      \* the result set's column definitions
  config,      \* the connection config
  options,     \* the query options object (compile writes to it)
  sent,        \* the row the server sent and the options the query was
               \* given: [vals, nulls, opts] (ghost)
  parser,      \* the compiled parser, or Undefined before compile
  cache,       \* the parser cache: fingerprint -> compiled parser
  packet,      \* the row packet being read
  pc,          \* "compile", "begin", "field", "done" or "threw"
  nullBytes,   \* the NULL bitmap bytes read
  fi,          \* the column the next ReadField reads (1-based)
  obj,         \* this: the row object
  arr,         \* result: the row array (rowsAsArray)
  err,         \* the exception that ended the parse, or Undefined
  specRow      \* the spec's value of each cell of the row sent (ghost)

vars == <<fields, config, options, sent, parser, cache, packet, pc, nullBytes, fi, obj, arr, err, specRow>>

IsFn(x) == x \in TypeCastFns
(* typeof options.nestTables === 'string'                                  *)
IsSep(x) == x \notin {Undefined, "true", "false"}

EmptyObject == [k \in {} |-> Undefined]

-----------------------------------------------------------------------------
(* readCodeFor(field, fieldNum, options, config): the reader, width,      *)
(* encoding and decoder of a column.  The encoding is a code string: a    *)
(* literal ('"binary"', '"ascii"', '"utf8"', literal TRUE) or, for the    *)
(* default branch, the expression `fields[i].encoding` (literal FALSE),   *)
(* which binaryField receives evaluated but which the compile-time test   *)
(* encoding === '"binary"' never matches.  dateTimeString and timeString  *)
(* are not modelled (see PacketParser); no result set reaches them.       *)
readCodeFor(field, opts, cfg) ==
  LET supportBigNumbers == opts.supportBigNumbers \/ cfg.supportBigNumbers
      bigNumberStrings  == opts.bigNumberStrings \/ cfg.bigNumberStrings
      unsigned          == field.unsigned
      t                 == field.columnType
      Fixed(w, cast) == [buffer |-> "readBuffer", width |-> w, encoding |-> "binary",
                         literal |-> TRUE, defaultCast |-> cast]
      Lcb(enc, cast) == [buffer |-> "readLengthCodedBuffer", width |-> 0,
                         encoding |-> enc, literal |-> TRUE, defaultCast |-> cast]
  IN CASE t = "TINY"  -> Fixed(1, IF unsigned THEN "uint8" ELSE "int8")
       [] t = "SHORT" -> Fixed(2, IF unsigned THEN "uint16" ELSE "int16")
       [] t \in {"LONG", "INT24"} -> Fixed(4, IF unsigned THEN "uint32" ELSE "int32")
       [] t = "YEAR"  -> Fixed(2, "uint16")
       [] t = "FLOAT" -> Fixed(4, "float32")
       [] t = "DOUBLE" -> Fixed(8, "float64")
       [] t = "NULL"  -> [buffer |-> "null", width |-> 0, encoding |-> "binary",
                          literal |-> TRUE, defaultCast |-> "alwaysNull"]
       [] t \in {"DATE", "DATETIME", "TIMESTAMP", "NEWDATE"} ->
            Lcb("binary", IF ~cfg.dateStrings THEN "dateTime"
                          ELSE IF field.decimals = 0 THEN "dateTimeString"
                          ELSE "dateTimeStringDecimals")
       [] t = "TIME"  -> Lcb("binary", "timeString")
       [] t = "GEOMETRY" -> Lcb("binary", "geometry")
       [] t \in {"DECIMAL", "NEWDECIMAL"} ->
            Lcb("ascii", IF cfg.decimalNumbers THEN "floatAscii" ELSE "null")
       [] t = "JSON"  -> Lcb("utf8", "JSON.parse")
       [] t = "LONGLONG" ->
            Fixed(8, CASE ~supportBigNumbers ->
                            IF unsigned THEN "uint64Number" ELSE "int64Number"
                       [] bigNumberStrings ->
                            IF unsigned THEN "uint64String" ELSE "int64String"
                       [] OTHER ->
                            IF unsigned THEN "uint64NumberIfPossible"
                            ELSE "int64NumberIfPossible")
       [] OTHER -> [Lcb(field.encoding, "null") EXCEPT !.literal = FALSE]

(* The NULL-bitmap byte and bit of each column: the bit starts at 4 and   *)
(* doubles, wrapping to bit 1 of the next byte at 0x100.                  *)
(* Mutant: the first column's bit taken as bit 1 instead of bit 2.         *)
NullBitsFrom2(n) ==
  LET pos[i \in 1..n] ==
        IF i = 1 THEN [byte |-> 0, bit |-> 2]
        ELSE IF pos[i - 1].bit * 2 = 256 THEN [byte |-> pos[i - 1].byte + 1, bit |-> 1]
        ELSE [byte |-> pos[i - 1].byte, bit |-> pos[i - 1].bit * 2]
  IN pos

NullBits(n) ==
  LET pos[i \in 1..n] ==
        IF i = 1 THEN [byte |-> 0, bit |-> 4]
        ELSE IF pos[i - 1].bit * 2 = 256 THEN [byte |-> pos[i - 1].byte + 1, bit |-> 1]
        ELSE [byte |-> pos[i - 1].byte, bit |-> pos[i - 1].bit * 2]
  IN pos

(* Mutant: the bitmap length rounded up, as ceil((n + 9) / 8).             *)
NullBitmapLengthCeil(n) == (n + 7 + 2 + 7) \div 8
NullBitmapLength(n) == (n + 7 + 2) \div 8

(* options after compile() has copied config's binaryCast and typeCast.   *)
CompiledOptions(opts, cfg) ==
  LET o1 == IF opts.binaryCast = Undefined /\ cfg.binaryCast # Undefined
              THEN [opts EXCEPT !.binaryCast = cfg.binaryCast] ELSE opts
  IN IF ~IsFn(o1.typeCast) /\ IsFn(cfg.typeCast)
       THEN [o1 EXCEPT !.typeCast = cfg.typeCast] ELSE o1

(* The parser compile() builds for the options it has completed: the     *)
(* cast it captures in parserImports, the row shape, the tables, the       *)
(* bitmap length and each column's read code with its bitmap byte and bit. *)
CompiledParser(fs, opts, cfg) ==
  [cast             |-> IF IsFn(opts.binaryCast) THEN opts.binaryCast
                        ELSE IF opts.binaryCast = "true" /\ IsFn(opts.typeCast)
                          THEN opts.typeCast ELSE "null",
   nullBitmapLength |-> NullBitmapLength(Len(fs)),
   rowsAsArray      |-> opts.rowsAsArray,
   nestTables       |-> opts.nestTables,
   tables           |-> {fs[i].table : i \in 1..Len(fs)},
   codes            |-> [i \in 1..Len(fs) |-> readCodeFor(fs[i], opts, cfg) @@ NullBits(Len(fs))[i]]]

(* The parser cache (lib/parsers/parser_cache.js, not under src/), from    *)
(* spec 4.5: the fingerprint is the protocol, the column records, the     *)
(* dispatch options in force, and which kind of typeCast and binaryCast   *)
(* apply (none, false, true, a function).                                  *)
TypeCastKind(tc) == IF IsFn(tc) THEN "function" ELSE tc
ParserKey(fs, opts, cfg) ==
  LET o == CompiledOptions(opts, cfg)
  IN <<"binary",
       fs,
       o.rowsAsArray, o.nestTables,
       o.supportBigNumbers \/ cfg.supportBigNumbers, o.bigNumberStrings \/ cfg.bigNumberStrings,
       cfg.decimalNumbers, cfg.dateStrings, TypeCastKind(o.typeCast), TypeCastKind(o.binaryCast)>>

(* getBinaryParser(fields, options, config): the cached parser for the     *)
(* fingerprint, or compile(fields, options, config) stored under it.      *)
(* Only compile writes config's binaryCast and typeCast into options.     *)
GetParser(key) ==
  IF key \in DOMAIN cache
    THEN parser' = cache[key] /\ UNCHANGED <<options, cache>>
  ELSE /\ options' = CompiledOptions(options, config)
       /\ parser' = CompiledParser(fields, options', config)
       /\ cache' = (key :> parser') @@ cache

Compile ==
  /\ pc = "compile"
  /\ GetParser(ParserKey(fields, options, config))
  /\ pc' = "begin"
  /\ UNCHANGED <<fields, config, sent, packet, nullBytes, fi, obj, arr, err, specRow>>

-----------------------------------------------------------------------------
(* The generated function.                                                 *)

(* The prologue: new Array(n), this[table] = {}, packet.readInt8() for the *)
(* status byte, then one readInt8() per NULL-bitmap byte.                  *)
Begin ==
  /\ pc = "begin"
  /\ arr' = IF parser.rowsAsArray THEN [i \in 1..Len(fields) |-> Undefined] ELSE <<>>
  /\ obj' = IF parser.nestTables = "true" THEN [t \in parser.tables |-> EmptyObject]
            ELSE EmptyObject
  /\ nullBytes' = [k \in 1..parser.nullBitmapLength |->
                     ByteAt(packet.buffer, packet.offset + k)]
  /\ packet' = Moved(packet, 1 + parser.nullBitmapLength)
  /\ fi' = 1
  /\ pc' = IF Len(fields) = 0 THEN "done" ELSE "field"
  /\ UNCHANGED <<fields, config, options, sent, parser, cache, err, specRow>>

(* binaryField(column, encoding, typeCast, defaultCast, fieldBuffer)       *)
binaryField(column, encoding, typeCast, defaultCast, fieldBuffer) ==
  run(NewCastField(TRUE, column, encoding, defaultCast, fieldBuffer), typeCast)

(* nullBitmaskByte & bit (undefined & bit is 0)                            *)
IsNullBit(code) ==
  LET b == nullBytes[code.byte + 1]
  IN b # Undefined /\ (b \div code.bit) % 2 = 1

(* The reader expression the generated code evaluates for a cell.          *)
ReadCell(p, code) ==
  CASE code.buffer = "readBuffer" -> readBuffer(p, code.width)
    [] code.buffer = "readLengthCodedBuffer" -> readLengthCodedBuffer(p)
    [] code.buffer = "null" -> Ret(p, JSNull)

(* The value of a non-NULL cell without a cast: defaultCast(buffer), the  *)
(* buffer itself when the compile-time encoding string is '"binary"', or  *)
(* PacketParser.decode(buffer, encoding).                                  *)
PlainValue(code, buf) ==
  IF code.defaultCast # "null" THEN DefaultCast(code.defaultCast, buf.b, Undefined, Undefined)
  ELSE IF code.literal /\ code.encoding = "binary" THEN buf
  ELSE decode(buf.b, code.encoding)

(* Mutant: this[table] = {name: value}, dropping the table's earlier      *)
(* columns.                                                                *)
AssignReplacingTable(field, i, v) ==
  CASE IsSep(parser.nestTables) ->
         /\ obj' = ((field.table \o parser.nestTables \o field.name) :> v) @@ obj
         /\ arr' = arr
    [] parser.nestTables = "true" ->
         /\ obj' = [obj EXCEPT ![field.table] = (field.name :> v)]
         /\ arr' = arr
    [] parser.rowsAsArray ->
         /\ arr' = [arr EXCEPT ![i] = v]
         /\ obj' = obj
    [] OTHER ->
         /\ obj' = (field.name :> v) @@ obj
         /\ arr' = arr

(* The lvalue the generated code assigns.                                  *)
Assign(field, i, v) ==
  CASE IsSep(parser.nestTables) ->
         /\ obj' = ((field.table \o parser.nestTables \o field.name) :> v) @@ obj
         /\ arr' = arr
    [] parser.nestTables = "true" ->
         /\ obj' = [obj EXCEPT ![field.table] = (field.name :> v) @@ @]
         /\ arr' = arr
    [] parser.rowsAsArray ->
         /\ arr' = [arr EXCEPT ![i] = v]
         /\ obj' = obj
    [] OTHER ->
         /\ obj' = (field.name :> v) @@ obj
         /\ arr' = arr

(* One column: lvalue = cast !== null                                      *)
(*   ? binaryField(fields[i], encoding, cast, defaultCast,                 *)
(*                 isNull ? null : buffer)                                 *)
(*   : isNull ? null : <plain value of buffer>                             *)
(* The cell read: nothing is read for a NULL cell.                         *)
CellRead(code, null) == IF null THEN Ret(packet, JSNull) ELSE ReadCell(packet, code)

(* The value assigned for the cell read into buf.                          *)
FieldValue(field, code, null, buf) ==
  IF parser.cast # "null"
    THEN binaryField(field, code.encoding, parser.cast, code.defaultCast, buf)
  ELSE IF null THEN JSNull ELSE PlainValue(code, buf)

(* The assignment, or the exception the reader or the decoder threw.       *)
StoreField(field, rd, value) ==
  /\ packet' = rd.p
  /\ IF IsThrow(rd.v) \/ IsThrow(value)
       THEN /\ err' = IF IsThrow(rd.v) THEN rd.v ELSE value
            /\ pc' = "threw"
            /\ UNCHANGED <<obj, arr, fi>>
       ELSE /\ Assign(field, fi, value)
            /\ fi' = fi + 1
            /\ pc' = IF fi = Len(fields) THEN "done" ELSE "field"
            /\ UNCHANGED err

ReadFieldWith(field, code, null, rd) ==
  StoreField(field, rd, FieldValue(field, code, null, rd.v))

ReadField ==
  /\ pc = "field"
  /\ ReadFieldWith(fields[fi], parser.codes[fi], IsNullBit(parser.codes[fi]),
                   CellRead(parser.codes[fi], IsNullBit(parser.codes[fi])))
  /\ UNCHANGED <<fields, config, options, sent, parser, cache, nullBytes, specRow>>

-----------------------------------------------------------------------------
(* The callback the spec routes binary cells through: the query's         *)
(* binaryCast and typeCast, or the connection's where the query sets none. *)
SpecCast ==
  LET bc == IF sent.opts.binaryCast # Undefined THEN sent.opts.binaryCast ELSE config.binaryCast
      tc == IF sent.opts.typeCast # Undefined THEN sent.opts.typeCast ELSE config.typeCast
  IN IF IsFn(bc) THEN bc ELSE IF bc = "true" /\ IsFn(tc) THEN tc ELSE "none"

(* What the spec says cell i decodes to, given its plain value.           *)
CastCell(i, plain) ==
  CASE SpecCast \in {"none", "next", "geometry"} -> plain
    [] SpecCast = "string" -> IF plain = JSNull THEN JSNull ELSE ValueToString(plain)
    [] SpecCast = "buffer" ->
         JSBuf(IF i \in sent.nulls \/ fields[i].columnType = "NULL" THEN <<>>
               ELSE BinaryCellBytes(fields[i], sent.vals[i]))

(* What the spec says cell i of the row the server sent decodes to.        *)
ExpectedCell(i) ==
  CastCell(i, IF i \in sent.nulls THEN JSNull
              ELSE CellValue(fields[i], sent.vals[i],
                             sent.opts.supportBigNumbers \/ config.supportBigNumbers,
                             sent.opts.bigNumberStrings \/ config.bigNumberStrings,
                             config.decimalNumbers, config.dateStrings))

(* The sequences of cell values a row of the given columns may hold.       *)
RowValues(fs) ==
  LET rows[k \in 0..Len(fs)] ==
        IF k = 0 THEN {<<>>}
        ELSE {r \o <<x>> : r \in rows[k - 1], x \in CellValues[fs[k].name]}
  IN rows[Len(fs)]

(* The parser cache after the connection ran the queries qs, in some     *)
(* order: the first query of each fingerprint compiled the parser stored   *)
(* under it, and the later ones hit.                                       *)
CacheAfter(qs, cfg) ==
  [k \in {ParserKey(q.fields, q.options, cfg) : q \in qs} |->
     LET q == CHOOSE e \in qs : ParserKey(e.fields, e.options, cfg) = k
     IN CompiledParser(q.fields, CompiledOptions(q.options, cfg), cfg)]
(* The same for each connection config, computed once.                     *)
EarlierCaches == [c \in Configs |-> CacheAfter(EarlierQueries, c)]

(* The server sends one row of a result set the query's fields describe.   *)
Init ==
  /\ fields \in Fieldss
  /\ config \in Configs
  /\ options \in Optionss
  /\ sent \in [vals  : RowValues(fields),
               nulls : SUBSET (1..Len(fields)),
               opts  : {options}]
  /\ LET payload == BinaryRowPayload(fields, sent.vals, sent.nulls)
     IN packet = NewPacket(0, Frame(0, payload), 0, 4 + Len(payload))
  /\ parser = Undefined
  /\ pc = "compile"
  /\ nullBytes = <<>>
  /\ fi = 0
  /\ obj = EmptyObject
  /\ arr = <<>>
  /\ err = Undefined
  /\ specRow = [i \in 1..Len(fields) |-> ExpectedCell(i)]
  /\ cache = EarlierCaches[config]

Next == Compile \/ Begin \/ ReadField

Spec == Init /\ [][Next]_vars

-----------------------------------------------------------------------------
(* Properties.                                                             *)

TypeOK ==
  /\ pc \in {"compile", "begin", "field", "done", "threw"}
  /\ fi \in 0..(Len(fields) + 1)
  /\ packet.offset \in Nat
  /\ nullBytes \in Seq(0..255)

Lookup(f, k) == IF f # Undefined /\ k \in DOMAIN f THEN f[k] ELSE Undefined

(* Where the row the parser returns holds column i, by the row options    *)
(* the query was given (spec section 3).                                   *)
RowOut(i) ==
  LET nt == sent.opts.nestTables
      f  == fields[i]
  IN IF sent.opts.rowsAsArray THEN Lookup(arr, i)
     ELSE CASE IsSep(nt)    -> Lookup(obj, f.table \o nt \o f.name)
            [] nt = "true"  -> Lookup(Lookup(obj, f.table), f.name)
            [] OTHER        -> Lookup(obj, f.name)

(* The cursor never passes the end of the row packet, and a row that was  *)
(* parsed to the end has consumed exactly its packet: the NULL-bitmap     *)
(* length and every cell width agree with what the server wrote.           *)
CursorWithinFrame ==
  /\ packet.offset <= packet.end
  /\ pc = "done" => packet.offset = packet.end

(* Every row the server sends is parsed without an exception, and each    *)
(* column's value sits where the row options put it and is what the spec  *)
(* says the cell decodes to: NULL exactly when its bitmap bit is set, the *)
(* per-type default decoding otherwise, through the user's typeCast when  *)
(* binaryCast routes cells to it.                                          *)
RowDecodesAsSent ==
  /\ pc # "threw"
  /\ pc = "done" => \A i \in 1..Len(fields) : RowOut(i) = specRow[i]


(* The parse as RowParse sees it: the cells' spec values, the columns     *)
(* delivered so far, read where the query's row options put them, and     *)
(* whether the row has been returned.                                      *)
Delivered == IF pc \in {"field", "done", "threw"} THEN [i \in 1..(fi - 1) |-> RowOut(i)] ELSE <<>>
Abstract == INSTANCE RowParse WITH
  expected <- specRow,
  row      <- Delivered,
  status   <- CASE pc \in {"compile", "begin"} -> "idle"
                [] pc = "done" -> "done"
                [] OTHER -> "parsing"

(* The binary parser implements RowParse: each generated assignment,      *)
(* NULL cells included, delivers the next column's spec value where the   *)
(* row options put it and leaves every column already delivered as it     *)
(* was; the row is returned only once every column is in it.               *)
RefinesRowParse == Abstract!Spec

=============================================================================
