------------------------------ MODULE TextRow -------------------------------
(***************************************************************************)
(* The text-protocol Row Parser: compile() of lib/parsers/text_parser.js   *)
(* and the parser function it generates, run on one row packet.            *)
(*                                                                         *)
(* Compile is compile(fields, options, config): it copies config.typeCast  *)
(* into the caller's options when the query sets none and fixes, per       *)
(* column, the encoding and the decoder.  The generated function is the    *)
(* prologue Begin (result array, nested table objects) followed by one     *)
(* ReadField step per column, each reading one length-coded cell through   *)
(* readLengthCodedBuffer (typeCast false), castField (a typeCast callback) *)
(* or textField (anything else).                                           *)
(*                                                                         *)
(* Value conventions are BinaryRow's: JS true/false options are the        *)
(* strings "true"/"false", an unset option is Undefined, a user callback   *)
(* is one of CastField's TypeCastFns.                                      *)
(***************************************************************************)
EXTENDS CastField, Packet, MySQLRow, TLC

CONSTANTS
  Fieldss,     \* the column-definition sequences a result set may have
  CellValues,  \* [column name -> the values its cells may hold]
  Optionss,    \* the query options objects
  Configs,     \* the connection configs
  EarlierQueries \* [fields, options] of queries the connection ran before

VARIABLES
  fields,      \* the result set's column definitions
  config,      \* the connection config
  options,     \* the query options object (compile writes to it)
  sent,        \* the row the server sent and the options the query was
               \* given: [vals, nulls, opts] (ghost)
  parser,      \* the compiled parser, or Undefined before compile
  cache,       \* the parser cache: fingerprint -> compiled parser
  packet,      \* the row packet being read
  pc,          \* "compile", "begin", "field", "done" or "threw"
  fi,          \* the column the next ReadField reads (1-based)
  obj,         \* this: the row object
  arr,         \* result: the row array (rowsAsArray)
  err,         \* the exception that ended the parse, or Undefined
  specRow      \* the spec's value of each cell of the row sent (ghost)

vars == <<fields, config, options, sent, parser, cache, packet, pc, fi, obj, arr, err, specRow>>

IsFn(x) == x \in TypeCastFns
(* typeof options.nestTables === 'string'                                  *)
IsSep(x) == x \notin {Undefined, "true", "false"}

EmptyObject == [k \in {} |-> Undefined]

-----------------------------------------------------------------------------
(* readCodeFor(field, fieldNum, options, config): the encoding and the     *)
(* decoder of a column; the reader is always readLengthCodedBuffer.  The   *)
(* date decoder it names is not modelled (see PacketParser); the model's  *)
(* result sets have no date columns.                                       *)
readCodeFor(field, opts, cfg) ==
  LET t == field.columnType
      Code(enc, cast) == [encoding |-> enc, defaultCast |-> cast]
  IN CASE t \in {"TINY", "SHORT", "LONG", "INT24", "YEAR"} -> Code("ascii", "intAsciiSmall")
       [] t = "LONGLONG" ->
            Code("ascii",
                 IF ~(opts.supportBigNumbers \/ cfg.supportBigNumbers) THEN "intAsciiSmall"
                 ELSE IF opts.bigNumberStrings \/ cfg.bigNumberStrings THEN "null"
                 ELSE "intAscii")
       [] t \in {"FLOAT", "DOUBLE"} -> Code("ascii", "floatAscii")
       [] t = "NULL" -> Code("binary", "alwaysNull")
       [] t \in {"DATE", "NEWDATE", "DATETIME", "TIMESTAMP"} ->
            Code("ascii", IF cfg.dateStrings THEN "null" ELSE "dateAscii")
       [] t = "TIME" -> Code("ascii", "null")
       [] t \in {"DECIMAL", "NEWDECIMAL"} ->
            Code("ascii", IF cfg.decimalNumbers THEN "floatAscii" ELSE "null")
       [] t = "GEOMETRY" -> Code("binary", "geometry")
       [] t = "JSON" -> Code("utf8", "JSON")
       [] OTHER -> Code(field.encoding, "null")

(* castField(column, encoding, typeCast, defaultCast, fieldBuffer)         *)
castField(column, encoding, typeCast, defaultCast, fieldBuffer) ==
  run(NewCastField(FALSE, column, encoding, defaultCast, fieldBuffer), typeCast)

(* textField(encoding, defaultCast, packet): the decoder is handed the     *)
(* whole packet buffer with the cell's offset and length, then the offset  *)
(* is moved past the cell; without a decoder the cell is read as a buffer  *)
(* and decoded unless its encoding is binary.                              *)
BufferCell(encoding, buf) ==
  IF encoding \in {"binary", Undefined} THEN buf
  ELSE Ret(buf.p, decode(buf.v.b, encoding))

(* The cell of length n whose bytes start at q.offset; a decoder that     *)
(* throws leaves the offset at the cell, before packet.offset += length.  *)
DecodedCell(q, n, value) ==
  IF IsThrow(value) THEN Ret(q, value) ELSE Ret(Moved(q, n), value)
CellOfLength(encoding, defaultCast, p, q, n) ==
  IF defaultCast # "null"
    THEN DecodedCell(q, n, DefaultCast(defaultCast, p.buffer, q.offset, n))
  ELSE BufferCell(encoding, readBuffer(q, n))

(* The result once the length is read: null is returned as read.           *)
FieldOfLength(encoding, defaultCast, p, len) ==
  IF len.v = JSNull \/ IsThrow(len.v) THEN len
  ELSE CellOfLength(encoding, defaultCast, p, len.p, IntOf(len.v))

(* Mutant: a bare return (undefined) for a NULL cell.                       *)
FieldOfLengthUndefined(encoding, defaultCast, p, len) ==
  IF len.v = JSNull THEN Ret(len.p, Undefined)
  ELSE FieldOfLength(encoding, defaultCast, p, len)
textFieldUndefined(encoding, defaultCast, p) ==
  FieldOfLengthUndefined(encoding, defaultCast, p, readLengthCodedNumber(p, FALSE, FALSE))

textField(encoding, defaultCast, p) ==
  FieldOfLength(encoding, defaultCast, p, readLengthCodedNumber(p, FALSE, FALSE))

(* options.typeCast = config.typeCast when only the config defines one.    *)
CompiledOptions(opts, cfg) ==
  IF cfg.typeCast # Undefined /\ opts.typeCast = Undefined
    THEN [opts EXCEPT !.typeCast = cfg.typeCast] ELSE opts

(* The parser compile() builds for the options it has completed: the     *)
(* cast and the row shape it bakes into the generated code, and each       *)
(* column's encoding and decoder.                                           *)
CompiledParser(fs, opts, cfg) ==
  [cast        |-> opts.typeCast,
   rowsAsArray |-> opts.rowsAsArray,
   nestTables  |-> opts.nestTables,
   tables      |-> {fs[i].table : i \in 1..Len(fs)},
   codes       |-> [i \in 1..Len(fs) |-> readCodeFor(fs[i], opts, cfg)]]

(* The parser cache (lib/parsers/parser_cache.js, not under src/), from    *)
(* spec 4.5: the fingerprint is the protocol, each column's shape (name,   *)
(* table, columnType, unsigned flag, encoding, decimals) and the options   *)
(* that decide dispatch: the row shape, the number and date settings in    *)
(* force, and which kind of typeCast applies (none, false, a function).    *)
TypeCastKind(tc) == IF IsFn(tc) THEN "function" ELSE tc
ParserKey(fs, opts, cfg) ==
  LET o == CompiledOptions(opts, cfg)
  IN <<"text",
       fs,
       o.rowsAsArray, o.nestTables,
       o.supportBigNumbers \/ cfg.supportBigNumbers, o.bigNumberStrings \/ cfg.bigNumberStrings,
       cfg.decimalNumbers, cfg.dateStrings, TypeCastKind(o.typeCast)>>

(* getTextParser(fields, options, config): the cached parser for the       *)
(* fingerprint, or compile(fields, options, config) stored under it.      *)
(* Only compile writes config.typeCast into options.                       *)
GetParser(key) ==
  IF key \in DOMAIN cache
    THEN parser' = cache[key] /\ UNCHANGED <<options, cache>>
  ELSE /\ options' = CompiledOptions(options, config)
       /\ parser' = CompiledParser(fields, options', config)
       /\ cache' = (key :> parser') @@ cache

Compile ==
  /\ pc = "compile"
  /\ GetParser(ParserKey(fields, options, config))
  /\ pc' = "begin"
  /\ UNCHANGED <<fields, config, sent, packet, fi, obj, arr, err, specRow>>

(* The prologue: new Array(n) and this[table] = {}.                        *)
Begin ==
  /\ pc = "begin"
  /\ arr' = IF parser.rowsAsArray THEN [i \in 1..Len(fields) |-> Undefined] ELSE <<>>
  /\ obj' = IF parser.nestTables = "true" THEN [t \in parser.tables |-> EmptyObject]
            ELSE EmptyObject
  /\ fi' = 1
  /\ pc' = IF Len(fields) = 0 THEN "done" ELSE "field"
  /\ UNCHANGED <<fields, config, options, sent, parser, cache, packet, err, specRow>>

(* Mutant: this[table] = {name: value}, dropping the table's earlier      *)
(* columns.                                                                *)
AssignReplacingTable(field, i, v) ==
  CASE IsSep(parser.nestTables) ->
         /\ obj' = ((field.table \o parser.nestTables \o field.name) :> v) @@ obj
         /\ arr' = arr
    [] parser.nestTables = "true" ->
         /\ obj' = [obj EXCEPT ![field.table] = (field.name :> v)]
         /\ arr' = arr
    [] parser.rowsAsArray ->
         /\ arr' = [arr EXCEPT ![i] = v]
         /\ obj' = obj
    [] OTHER ->
         /\ obj' = (field.name :> v) @@ obj
         /\ arr' = arr

(* The lvalue the generated code assigns.                                  *)
Assign(field, i, v) ==
  CASE IsSep(parser.nestTables) ->
         /\ obj' = ((field.table \o parser.nestTables \o field.name) :> v) @@ obj
         /\ arr' = arr
    [] parser.nestTables = "true" ->
         /\ obj' = [obj EXCEPT ![field.table] = (field.name :> v) @@ @]
         /\ arr' = arr
    [] parser.rowsAsArray ->
         /\ arr' = [arr EXCEPT ![i] = v]
         /\ obj' = obj
    [] OTHER ->
         /\ obj' = (field.name :> v) @@ obj
         /\ arr' = arr

(* One column: lvalue = packet.readLengthCodedBuffer() when cast === false, *)
(* castField(...) when cast is a function, textField(...) otherwise.       *)
(* castField over the cell readLengthCodedBuffer() read.                  *)
CastRead(field, code, lcb) ==
  Ret(lcb.p, IF IsThrow(lcb.v) THEN lcb.v
             ELSE castField(field, code.encoding, parser.cast, code.defaultCast, lcb.v))

(* The expression the generated code evaluates for the column.            *)
CellRead(field, code) ==
  CASE parser.cast = "false" -> readLengthCodedBuffer(packet)
    [] IsFn(parser.cast) -> CastRead(field, code, readLengthCodedBuffer(packet))
    [] OTHER -> textField(code.encoding, code.defaultCast, packet)

(* The assignment, or the exception the read threw.                        *)
StoreField(field, rd) ==
  /\ packet' = rd.p
  /\ IF IsThrow(rd.v)
       THEN /\ err' = rd.v
            /\ pc' = "threw"
            /\ UNCHANGED <<obj, arr, fi>>
       ELSE /\ Assign(field, fi, rd.v)
            /\ fi' = fi + 1
            /\ pc' = IF fi = Len(fields) THEN "done" ELSE "field"
            /\ UNCHANGED err

ReadField ==
  /\ pc = "field"
  /\ StoreField(fields[fi], CellRead(fields[fi], parser.codes[fi]))
  /\ UNCHANGED <<fields, config, options, sent, parser, cache, specRow>>

-----------------------------------------------------------------------------
(* The typeCast the spec applies to a text row: the query's, or the        *)
(* connection's where the query sets none.                                 *)
SpecCast ==
  IF sent.opts.typeCast # Undefined THEN sent.opts.typeCast ELSE config.typeCast

(* What the spec says cell i of the row the server sent decodes to: the   *)
(* raw cell bytes under typeCast false, the per-type default decoding      *)
(* otherwise, through the user's callback when there is one; a text        *)
(* cell's string() and buffer() are its text and bytes, empty for NULL.    *)
CastCell(i, bytes) ==
  CASE SpecCast = "false"  -> IF i \in sent.nulls THEN JSNull ELSE JSBuf(bytes)
    [] SpecCast = "string" -> JSStr(bytes)
    [] SpecCast = "buffer" -> JSBuf(bytes)
    [] OTHER ->
         IF i \in sent.nulls THEN JSNull
         ELSE CellValue(fields[i], sent.vals[i],
                        sent.opts.supportBigNumbers \/ config.supportBigNumbers,
                        sent.opts.bigNumberStrings \/ config.bigNumberStrings,
                        config.decimalNumbers, config.dateStrings)
ExpectedCell(i) ==
  CastCell(i, IF i \in sent.nulls THEN <<>> ELSE CellText(fields[i], sent.vals[i]))

(* The sequences of cell values a row of the given columns may hold.       *)
RowValues(fs) ==
  LET rows[k \in 0..Len(fs)] ==
        IF k = 0 THEN {<<>>}
        ELSE {r \o <<x>> : r \in rows[k - 1], x \in CellValues[fs[k].name]}
  IN rows[Len(fs)]

(* The parser cache after the connection ran the queries qs, in some     *)
(* order: the first query of each fingerprint compiled the parser stored   *)
(* under it, and the later ones hit.                                       *)
CacheAfter(qs, cfg) ==
  [k \in {ParserKey(q.fields, q.options, cfg) : q \in qs} |->
     LET q == CHOOSE e \in qs : ParserKey(e.fields, e.options, cfg) = k
     IN CompiledParser(q.fields, CompiledOptions(q.options, cfg), cfg)]
(* The same for each connection config, computed once.                     *)
EarlierCaches == [c \in Configs |-> CacheAfter(EarlierQueries, c)]

(* The server sends one text row of a result set the query's fields        *)
(* describe; a NULL-typed column's cell is always NULL.                    *)
Init ==
  /\ fields \in Fieldss
  /\ config \in Configs
  /\ options \in Optionss
  /\ sent \in [vals  : RowValues(fields),
               nulls : {s \in SUBSET (1..Len(fields)) :
                          \A i \in 1..Len(fields) : fields[i].columnType = "NULL" => i \in s},
               opts  : {options}]
  /\ LET payload == TextRowPayload(fields, sent.vals, sent.nulls)
     IN packet = NewPacket(0, Frame(0, payload), 0, 4 + Len(payload))
  /\ parser = Undefined
  /\ pc = "compile"
  /\ fi = 0
  /\ obj = EmptyObject
  /\ arr = <<>>
  /\ err = Undefined
  /\ specRow = [i \in 1..Len(fields) |-> ExpectedCell(i)]
  /\ cache = EarlierCaches[config]

Next == Compile \/ Begin \/ ReadField

Spec == Init /\ [][Next]_vars

-----------------------------------------------------------------------------
(* Properties.                                                             *)

(* The values the row object holds (inside the table objects when tables  *)
(* are nested).                                                            *)
StoredValues ==
  IF pc # "compile" /\ parser.nestTables = "true"
    THEN UNION {{obj[t][c] : c \in DOMAIN obj[t]} : t \in DOMAIN obj}
  ELSE {obj[k] : k \in DOMAIN obj}

TypeOK ==
  /\ pc \in {"compile", "begin", "field", "done", "threw"}
  /\ fi \in 0..(Len(fields) + 1)
  /\ packet.offset \in Nat
  /\ err \in {Undefined} \cup {Throw(e) : e \in {"Error", "RangeError", "SyntaxError", "TypeError"}}
  /\ Undefined \notin StoredValues

Lookup(f, k) == IF f # Undefined /\ k \in DOMAIN f THEN f[k] ELSE Undefined

(* Where the row the parser returns holds column i, by the row options    *)
(* the query was given (spec section 3).                                   *)
RowOut(i) ==
  LET nt == sent.opts.nestTables
      f  == fields[i]
  IN IF sent.opts.rowsAsArray THEN Lookup(arr, i)
     ELSE CASE IsSep(nt)    -> Lookup(obj, f.table \o nt \o f.name)
            [] nt = "true"  -> Lookup(Lookup(obj, f.table), f.name)
            [] OTHER        -> Lookup(obj, f.name)

(* The cursor never passes the end of the row packet, and a row parsed to *)
(* the end has consumed exactly its packet: every length-coded cell,       *)
(* whether read by textField's decoder call or by readBuffer, moves the    *)
(* offset past its bytes.                                                  *)
CursorWithinFrame ==
  /\ packet.offset <= packet.end
  /\ pc = "done" => packet.offset = packet.end

(* Every text row the server sends is parsed without an exception, and     *)
(* each column's value sits where the row options put it and is what the  *)
(* spec says the cell decodes to under the query's typeCast.               *)
RowDecodesAsSent ==
  /\ pc # "threw"
  /\ pc = "done" => \A i \in 1..Len(fields) : RowOut(i) = specRow[i]

(* The parse as RowParse sees it: the cells' spec values, the columns     *)
(* delivered so far, read where the query's row options put them, and     *)
(* whether the row has been returned.                                      *)
Delivered == IF pc \in {"field", "done", "threw"} THEN [i \in 1..(fi - 1) |-> RowOut(i)] ELSE <<>>
Abstract == INSTANCE RowParse WITH
  expected <- specRow,
  row      <- Delivered,
  status   <- CASE pc \in {"compile", "begin"} -> "idle"
                [] pc = "done" -> "done"
                [] OTHER -> "parsing"

(* The text parser implements RowParse: each generated assignment         *)
(* delivers the next column's spec value where the row options put it and *)
(* leaves every column already delivered as it was, whichever parser the  *)
(* cache hands back; the row is returned only once every column is in it.  *)
RefinesRowParse == Abstract!Spec

=============================================================================
