# TLA+ model of the node-mysql2 row codec

This directory holds TLA+ models of the MySQL wire-format codec in `src/`:
- the packet cursor, its length-coded reader and its writers;
- the primitive decoders;
- the cast-field adapter;
- the compilers that generate text-protocol and binary-protocol row parsers;
- the `COM_STMT_PREPARE` command.

The models are checked with TLC. Every module is translated from the source lines that `PROJECT.json` "map" names.

## The system

The codec is synchronous and single-threaded (spec section 5). The row parsers are its one multi-step process. A parser is compiled once for a result set's columns and the query options, then run on each row packet. The pieces interact as follows:

- **compile** (`text_parser.js:132`, `part_000:836`)
  - Picks, per column, a reader, an encoding and a decoder (`readCodeFor`).
  - Writes the connection's `typeCast` / `binaryCast` into the caller's `options` object.
  - Emits a function with one assignment per column into the row object, its nested table objects, or an array.
- **the generated function**
  - Walks one `Packet` (`part_000:50`).
  - In a binary row, first reads a status byte and a NULL bitmap of `floor((n+9)/8)` bytes. Column *i* sits at bit *i+2* of that bitmap.
  - Reads each cell with `readBuffer(width)` or `readLengthCodedBuffer()`.
  - Decodes each cell with a `PacketParser` decoder (`part_000:1006`), or passes it to the user's `typeCast` through a `CastField` (`cast_field.js`).
- **textField** (`text_parser.js:114`)
  - The text parser's fast path.
  - Hands the decoder the whole packet buffer together with the cell's offset and length.
- **the outbound side** (`part_000:496-684`, `part_000:8-24`)
  - A command builds its packet with the `write*` methods into a buffer it sized first. It sizes the buffer either by a dry run on `Packet.MockBuffer()` or with the static `lengthCodedNumberLength` / `lengthCodedStringLength`.
  - The connection calls `writeHeader(sequenceId)`, which writes the 24-bit length and the sequence id in front of the body.
  - The peer's framer reads that header to find the frame. The readers then decode the body.
  - The connection and the framer are not under `src/`. The models take them from the spec: section 6 for the frame header and section 4.2 for `writeHeader`.

### Inventory

| Part | Source | Module | Status |
|---|---|---|---|
| Primitive decoders (`PacketParser`) | part_000:966-1511 | `PacketParser` | partly: integer decoders, 64-bit variants, `floatAscii` (no exponent), `intAscii`, `intAsciiSmall`, `JSON`, `alwaysNull`, `float32`, `float64`, the WKB `geometry` decoder, `dateTime`, `dateAscii`; not `dateTimeString`, `timeString` |
| Packet cursor | part_000:28-684 | `Packet`, `PacketWriter` | partly: constructor, the readers the row parsers call, `readInt24`, `readLengthCodedString`, `readNullTerminatedString`, and the writers `writeInt8/16/24`, `writeBuffer`, `writeNull`, `writeNullTerminatedString`, `writeDate`, `writeHeader`, `MockBuffer`, and `readDateTime`; not `writeInt32`, `writeDouble`, `writeString`, `readDateTimeString`, `readTimeString`, `asError`, `type()` |
| Length-coded codec | part_000:170-219, 555-614, 653-670 | `Packet`, `PacketWriter`, `LengthCodedRoundTrip` | modelled: the reader (all five tags), the writers for numbers, buffers and strings, and the static length helpers |
| Cast-field adapter | cast_field.js | `CastField` | partly: constructor, `run`, `toString`, `string`, `buffer`, `geometry`, `encoding`, `columnType`; the other column getters only return a column property |
| Text row parser | text_parser.js | `TextRow`, `MCTextRow` | modelled, with `getTextParser` |
| Binary row parser | part_000:685-965 | `BinaryRow`, `MCBinaryRow` | modelled |
| `PrepareStatement` | part_000:8-24 | `PrepareStatement`, `MCPrepareStatement` | modelled |
| Parser cache | `lib/parsers/parser_cache.js` (not under src/), called at text_parser.js:222 and part_000:962 | `TextRow`, `BinaryRow` | modelled: lookup and store for both protocols, with the fingerprint taken from spec 4.5; eviction is not in the spec |
| ESLint config | part_001 | – | not modelled: no behaviour |

## Modules

- **`JSValues`: the JavaScript and Node.js runtime the code runs on.** It models none of this repository's code.
  - Numbers are records `[t, neg, mag, scale]` whose digits are kept as a digit sequence, so 64-bit values and the 2^53 boundary are exact.
  - A number denotes the nearest double, and rounding is modelled bit by bit (`ToDoubleNat`).
  - Also here: `Number.prototype.toString`, Node `Buffer` `slice`, `toString('ascii', s, e)`, `readUIntLE` / `readIntLE` with their RangeErrors, the `long` library's `toNumber` / `toString`, `parseInt`, and a `JSON.parse` over the model's JSON texts.
  - `Undefined` is a model value.
  - A `Date` is its local time: the day number from 1970-01-01 and the milliseconds into the day, or the one invalid Date. The process's time zone is taken as one fixed offset, so equal local times are equal instants. `NewDate` is the constructor `new Date(y, mon, d, H, M, S, ms)` with ECMAScript's carries (MakeDay, MakeTime) and its rule that a year of 0-99 means 1900 + year.
- **`PacketParser`: each decoder as an operator.** It maps `(buffer, offset, length)` to the value returned or to `Throw(kind)`.
  - `DefaultCast` is the call `${defaultCast}(...)` the generated code makes.
  - `geometry` is the WKB decoder. Its inner `parseGeometry` is `RECURSIVE`. It threads the closure's one offset through a partial result `[o, v]`, or stops at the RangeError a Buffer read throws. `ReadItems` is the code's `for (i = n; i > 0; i--) result.push(...)` loop. A double from `readDoubleLE/BE` is `JSDouble` of its 8 bytes, most significant first. Likewise `float64` gives `JSDouble`, and `float32` gives `JSFloat` of the float's 4 bytes; widening a float to a double is exact and one-to-one. This keeps the byte order, which is what the decoder can get wrong, and treats the bit pattern as opaque.
  - `dateTime` (binary) and `dateAscii` (text) read each field at its offset and build the Date with `NewDate`; an undefined or NaN field gives the invalid Date. `dateAscii`'s `leftPad(6, us) / 1000` is the integer `us / 1000`: padding with zeros keeps the value, and NaN stays NaN.
  - `decode` (StringParser, not under src/) is identity on ASCII bytes, which is what every encoding the model uses does with them.
- **Intermediate results are parameters.** Where the code binds a reader's or decoder's result to a `const` and uses it several times, the model passes it to a helper operator (`BufferOfLength`, `FieldOfLength`, `StoreField`, ...) instead of naming it in a `LET`. The result is computed once, as in the code, and TLC's coverage profiler does not re-expand it at every use.
- **`Packet`: a packet is a record.** Each reader maps a packet to `[p |-> the packet after the call, v |-> the result]`. A reader that moves the offset and then throws returns the moved packet, exactly as the code leaves it.
- **`CastField`: the adapter as a record.**
  - `defaultRead` is named by the constructor branch that chose it.
  - The user's `typeCast` callbacks are the environment: `"next"` returns `defaultRead()`, `"string"` returns `field.string()`, `"buffer"` returns `field.buffer()`, and `"geometry"` is the documented geometry callback `field.columnType === GEOMETRY ? field.geometry() : next()`.
- **`BinaryRow` and `TextRow`: one row parse.**
  - `Compile` models `compile()`, including its writes into `options`.
  - `Begin` models the generated prologue. In `BinaryRow` this includes the status byte and the bitmap bytes.
  - `ReadField` is one generated column assignment: the reader, then the NULL test, the cast or the decoder, then the lvalue.
  - In `BinaryRow`, `readCodeFor` returns the encoding as a piece of code. It is the literal `'"binary"'` for fixed-width and cast-free columns, and the expression `fields[i].encoding` for the rest (flag `literal`). `PlainValue` reproduces compile's test `encoding === '"binary"'` on that code string. For a column readCodeFor has no decoder for, the test never matches, and the cell goes through `PacketParser.decode` whatever its runtime encoding.
  - In `TextRow`, a decoder that throws leaves `packet.offset` at the cell (`DecodedCell`), as `packet.offset += length` follows the call.
  - The variables are the code's own: `options`, `parser`, `packet`, the bitmap bytes, the row object `obj` and the array `arr`.
  - A ghost variable `sent` records the row the server sent and the options the query was given.
  - `pc` ends at `"done"` or at `"threw"`, the latter with the exception in `err`.
  - A second ghost, `specRow`, holds the spec's value of each cell of that row. It is computed once in `Init` from `MySQLRow`, so the properties do not recompute the big-number arithmetic at every state.
- **The parser cache, inside `TextRow` and `BinaryRow`.** `Compile` is `getTextParser` (or `getBinaryParser`): `GetParser` looks the fingerprint up in `cache`. A hit hands back the stored parser and leaves `options` alone. A miss runs `compile()`, which writes `config.typeCast` into `options`, and stores the result.
  - `cache` starts as `CacheAfter(EarlierQueries, config)`, computed once per config as `EarlierCaches`: the parsers of the queries the connection ran before, on this or other columns. The first query of each fingerprint compiled the parser stored under it.
  - `CompiledParser` is what the generated function closes over: the `cast` it captured (text_parser.js:140-142), the row shape, the tables, and each column's read code.
  - `ParserKey` is the fingerprint. `parser_cache.js` is not under `src/`, so the key is taken from spec 4.5: the protocol, the column records, the dispatch options in force, and the *kind* of typeCast (and of binaryCast) — none, false, true, or a function. Two different callbacks are the same kind.
  - The binary compiler captures its `cast` the same way (part_000:862-868).
- **`RowParse`: the abstract row parser.** It holds the values the spec assigns to the row's cells (`expected`), the values delivered so far (`row`), and a status. `Start` begins a parse. `Deliver` appends the next cell's expected value and returns the row after the last one.
  - Both parsers implement it. `Abstract == INSTANCE RowParse WITH ...` maps `expected` to `specRow`, `row` to the columns `1..fi-1` read back where the query's row options put them (`Delivered`), and `status` to `pc`.
  - `Compile` and `Begin` are stuttering steps of the abstract spec. Each `ReadField` is one `Deliver`.
- **`MySQLRow`: the server side and the specification's expected values.** It contains no codec code:
  - the wire bytes of text and binary rows, following spec section 6 and the MySQL protocol;
  - `CellValue`, what spec 4.1/4.5 say a cell decodes to.
  - `Wkb`, the server's WKB for a geometry tree `[type, order, body]`, with each part in its own byte order, and `GeoValue`, the parsed form spec 4.1 gives it. A GEOMETRY cell is the 4-byte SRID followed by the WKB.
  - `DateVal`, a date cell: its seven fields, sent in binary as 0, 4, 7 or 11 bytes (the server drops trailing zero parts) and in text as `YYYY-MM-DD[ HH:MM:SS[.f]]` with the column's `decimals` fraction digits; `SpecDate` is the instant spec 4.1 gives it.
- **`MCBinaryRow` and `MCTextRow`: the column sets, cell values, options and configs that the runs instantiate.**
  - The passing run of each explores several setups. Each setup pairs a set of column sequences with the options and configs chosen for it. `MCInit` picks one setup and then applies the module's own `Init`.
- **`PacketWriter`: the writers as operators.** An outbound buffer is a record `[len, bytes, mock]`. Here `bytes` is a partial function from offsets to bytes, because `allocUnsafe` leaves the other bytes unspecified.
  - Node's `writeUInt8/16LE` throw a RangeError for a value out of range or past the end, and write nothing. `b.copy` copies what fits. The `MockBuffer` writes nothing.
  - `writeInt24` is two writes. If the second one throws, the first byte is already written.
  - `writeLengthCodedNumber` is translated branch by branch:
    - `Long.fromNumber` saturates at 2^64 - 1.
    - `Long.fromString` wraps mod 2^64.
    - A Long below 2^24 goes through the short forms.
    - NaN reaches the final `throw`.
  - `writeDate` is eight Node writes of the Date's local fields (the getters are `DateFields`, the inverse of the day arithmetic), then `offset += 12`; `Packet.readDateTime` reads it back through `dateTime`.
- **`LengthCodedRoundTrip`: a command's packet end to end.** One run of it goes through these steps:
  - size the buffer (by a dry run on `MockBuffer`, or statically);
  - `Alloc`;
  - one `Write` per item;
  - `Header` (`writeHeader`);
  - `Deliver` (the framer reads the header);
  - one `Read` per item with the matching reader.
- **`PrepareStatement`: `toPacket()`, then `writeHeader` and the framer.** A query is `[head, length]`: its first bytes and its length. Queries of up to 2^24 bytes therefore stay cheap for TLC. Only short queries keep all their bytes, and only theirs are compared byte by byte.

## Properties

- **`CursorWithinFrame`.** The offset never passes the packet end, and a row parsed to the end leaves the offset exactly at the end.
  - This is spec invariant 3, plus exact consumption.
  - It fails when the bitmap length, a bit position, a cell width, a length-coded form, or an offset update disagrees with what the server wrote.
- **`RowDecodesAsSent`.** No exception occurs. Every column's value sits where the row options put it, and equals what the specification says that cell decodes to, through the user's callback where one applies.
  - The expected values come from `MySQLRow` and the spec tables, not from the parser.
  - Breaking it takes `Compile`'s option handling, the per-column code, the NULL bit and the decoder all agreeing wrongly.
- **`RefinesRowParse`** (`Abstract!Spec`, in both parsers). Every column assignment delivers exactly the next column's spec value where the row options put it. It also leaves every column already delivered unchanged, and the row is returned only once every column is in it.
  - Unlike `RowDecodesAsSent`, it is checked at every step. So it catches an lvalue that overwrites an earlier column, even when the final row would look right. Examples are a nested table object replaced instead of extended, or the two `id` columns of the join setup put under one key.
- **`TypeOK`.** In the binary parser, every bitmap byte read is a byte of the packet. In the text parser, no stored value is `undefined`. In the writer models, no real buffer's cursor passes its end and nothing is stored outside it. This checks that the sizing pass and the writes advance by the same amounts.
- **`RoundTrip`.** Every item the spec allows comes back from the readers as the value written. An item is a number, a decimal string, null, a buffer or text. Nothing is left over in the frame. An exception is thrown only for a value the spec rejects. An item is also a Date, which must come back as the same instant (spec invariant 6). This covers spec invariants 1, 2, 4 and 6 across the writer, the sizing, `writeHeader`, the framer and the reader.
- **`WritesCanonical`.** The frame body is the spec's narrowest encoding of the items, whether a value is given as a number or as a decimal string (spec 4.2).
- **`FrameAnnouncesBody`.** The header of a prepared statement's frame announces exactly the body `toPacket` wrote and the sequence id passed. A short query's body is exactly `0x16` followed by the query (scenario S6). `writeHeader` leaves the cursor at the end. A body of 2^24 bytes or more must make `writeHeader` throw, never send a wrong length.

## Runs

| Run | Expect | What it shows |
|---|---|---|
| `binary_rows` | pass | Also checks `RefinesRowParse`. Three earlier queries are in the cache, and 1280 initial states hit it: two layout queries, and the cast columns with `binaryCast: false`, whose parser casts nothing whatever callback the later query brings. Seven setups. (1) 2, 6 and 8 columns, every NULL pattern, every row shape, decimalNumbers either way; the bitmap spans 1 and 2 bytes. (2) Every `binaryCast` × `typeCast` combination where the query leaves typeCast unset or gives a callback, plus a NULL-typed column. (3) Signed and unsigned BIGINT (including 2^53+2) under `bigNumberStrings`. (4) A join: tables `t` and `u` both have a column `id`, under nestTables true, `"_"` and rowsAsArray. (5) A GEOMETRY column before a SHORT, a FLOAT and a DOUBLE one, decoded by the default path and through the `next`, `buffer` and `geometry` callbacks. (6) DATE, DATETIME and TIMESTAMP cells of 0, 4, 7 and 11 bytes (the zero date, a leap day, a time without and with microseconds) decoded by `dateTime`, by default and through `next` and `buffer`. (7) A BLOB of the binary character set beside a utf8 VAR_STRING, with binaryCast true and a callback (`next`, `buffer`, `string`): through `binaryField` the BLOB is a Buffer. |
| `binary_int64number` | violation | A signed BIGINT of 2^31 decodes to −2^31 (`int64Number` reads the low word signed). |
| `binary_ifpossible` | violation | Every BIGINT under `supportBigNumbers` without `bigNumberStrings` throws a TypeError. |
| `binary_blob` | violation | A binary-charset BLOB on the default path (no cast): the compile-time test compares the code string `fields[i].encoding` with `'"binary"'`, never matches, and the cell is decoded to a latin1 string where spec 4.5 says it is the raw Buffer (part_000:929). |
| `text_rows` | pass | Also checks `RefinesRowParse`. Three earlier queries are in the cache, so both hits and misses happen: a shorter row shape, the same columns under `rowsAsArray` with `typeCast: true`, and `typeCast: false` on the cast columns. Five setups. (1) Integer, BIGINT, string, decimal, NULL-typed and 255-byte BLOB (the 0xfc length form) columns, every NULL pattern, every row shape, typeCast unset or true. (2) `typeCast: false`, a query callback, or an inherited connection callback, including a JSON column. (3) The join of two `id` columns, as in `binary_rows`. (4) The GEOMETRY setup, with `typeCast: false` and every callback. Here the decoder gets the whole packet buffer and the cell's offset. (5) A DATE and a DATETIME(3) under `dateStrings`, by default and through `next` and `string`. |
| `text_json` | violation | A non-NULL JSON cell on the default text path throws a SyntaxError (`JSON` slices with length as the end). |
| `text_cache` | violation | A query with its own `typeCast` callback, on columns an earlier query parsed with the connection's callback, gets the cached parser. The parser applies the captured earlier callback: `buffer()` where the query asked for `string()`. |
| `text_date` | violation | On the default text path (`dateStrings` false) `dateAscii` decodes `2020-12-31` as 2021-01-31 (the month is not made 0-based) and `2020-01-02 03:04:05.001` as 2020-02-02 03:04:05.000 (a 3-digit fraction is scaled as microseconds). |
| `text_bigint` | violation | `9007199254740994` under supportBigNumbers decodes to the number 90071992547 (`intAscii` uses length as the end). |
| `roundtrip` | pass | 18 single items and 49 pairs, sized on `MockBuffer`: numbers at every form boundary (251, 2^16, 2^24), 2^53 + 1 and 2^53 + 2, 2^60 and 2^64 - 1 as numbers and as decimal strings, the padded string `"00000300"`, NULL both ways, 0- and 251-byte buffers, text, a C string, and Dates written by `writeDate` and read by `readDateTime` (2020-01-02 03:04:05.678, 1969-12-31 23:59:59.999, 2024-02-29); -1 and NaN must throw. |
| `roundtrip_static` | violation | A number in the 0xfd range sized with `lengthCodedNumberLength` (which says 5 bytes) is written in 4, so the frame has a stray byte. |
| `prepare` | pass | Bodies of 1 (empty query), 9 (`"SELECT 1"`), 255, 256, 65535, 65536, 2^24 - 1, 2^24 and 2^24 + 1 bytes, with sequence ids 0, 1 and 255. |

Each property of a passing run has a mutant in `PROJECT.json`: an operator defined just before the one it replaces, modelling a plausible bug. Every mutant is caught:

- a ceiling bitmap length;
- the first NULL bit at 2;
- unsigned bytes read signed;
- a minus sign dropped;
- 251 taken as a length;
- `undefined` returned for NULL;
- 251 written in the one-byte form;
- a Long below 2^24 written in the 0xfe form;
- the string offset advanced only on a real buffer;
- `writeInt24` masking its high part to 16 bits;
- `toPacket` sizing its buffer one byte short;
- in both parsers, `this[table] = {name: value}` replacing a nested table object instead of adding to it (`RefinesRowParse`).

## Bounds, fairness, deadlock

- **Row sizes.** Rows have 2 to 8 columns and one or two values per column. This is enough to:
  - put columns in both bytes of the bitmap (columns 7 and 8 are the first in byte 2);
  - make the spec's ceiling formula and the code's floor differ (n = 2, 6, 8);
  - cover every length-coded form a row of this size uses (1-byte and 0xfc);
  - cover both sides of 2^31, 2^32 and 2^53.
- **NULL patterns.** Every NULL pattern is enumerated.
- **Geometries.** The GEOMETRY cells are:
  - a little-endian point;
  - a polygon of two rings;
  - a collection under SRID 4326 of a big-endian point, a big-endian multipoint holding a little-endian point, and a big-endian line string;
  - a type-0 geometry (undefined, so null);
  - a 3-byte cell (shorter than the SRID, so null).

  The doubles 1.0, -2.0 and 0.5 have no palindromic byte pattern, so a read in the wrong order changes the value. These cells cover every branch of `parseGeometry`, nesting two deep, and a change of byte order in each direction between a part and its parent.
- **Dates.** The binary cells take each body length (0, 4, 7, 11), a leap day and the last second of a day, so each field's offset, the zero-date rule, the month shift and the microsecond scale are all exercised; the round trip adds a Date before 1970 (a negative day). Years are 1969-2024: the 0-99 rule is a divergence recorded below, not a bound hiding one. The text cells are a December DATE and a DATETIME(3), the cases where a month or fraction error shows.
- **Writer values.** Every value sits on one side of a form boundary of the length-coded encoding, or of the 2^53 / 2^64 limits. A pair of items makes the second one start at an offset the first one's form moved. The packet header's length field is exercised where each of its three bytes carries (255/256, 65535/65536) and at 2^24.
- **Fairness.** A parse, and a command's build, header write and framing, is one synchronous call that always ends in `done` or `threw`. Every state graph here is acyclic and every non-terminal state has a successor, so "the parse returns" holds by the model's shape and is not checked as a liveness property. `RowParse` therefore has no fairness conjunct. With one, TLC's liveness checking of the 186k-state text run exceeds the time budget.
- **Cache contents.** `EarlierQueries` puts three parsers in the cache. A query of a passing setup either matches one of them (672 text and 1280 binary initial states do) or compiles its own. One earlier query with the connection's callback is enough for the stale-callback divergence.
- **Deadlock.** The cfgs say `CHECK_DEADLOCK FALSE` because the end states are terminal by design: `done`, `sent` or `threw`.

## Not modelled, and the plan

- The connection's splitting of payloads over 2^24 - 1 bytes into several frames is not under `src/`. The spec does not describe it, so `prepare` checks `writeHeader` on its own. After a throw, `writeHeader` also leaves the offset at 1 rather than restoring it (spec section 4.2 says it restores the offset). No property states this: a caller that catches the exception drops the packet.
- `rowsAsArray` together with `nestTables`. The lvalue follows `nestTables` while the function returns the untouched array. Spec section 3 does not define the combination, so no run asserts a value for it. An earlier run that treated it as a divergence has been dropped.
- Parser cache eviction and its size bound are in `parser_cache.js`, which is not under `src/`. The spec says nothing about them.
- `Packet.parseGeometryValue` passes `null` for a NULL cell to `geometry`. That call reads `buffer.length` before the null check and throws a TypeError, where spec 4.1 says null gives null. Nothing under `src/` calls it, so no run reaches it.
- The `encoding` getter returns the column's encoding for a NULL cell (`forceEncoding || column.encoding`), while spec 4.4 says it is forced null. The model's callbacks do not read `field.encoding`, and the project's twelve runs have no room for a violation run of this divergence. It is listed as a hazard.
- Geometry cells whose WKB claims more than the cell holds. On the text path, `geometry` reads from the whole packet, so such a cell would read into the following cells. The server does not send such cells, and the spec says nothing about them.
- `writeInt32`, `writeDouble` and `writeString` have no caller under `src/`, and no model yet.
- `writeLengthCodedNumber` given 2^64 or more writes 2^64 - 1 (a number, `Long.fromNumber` saturates) or the value mod 2^64 (a decimal string, `Long.fromString` wraps), where spec section 7 says it fails. The `roundtrip` items stay below 2^64, and no caller under `src/` writes such values, so no run checks it.
- Years 0-99. `new Date(y, ...)` reads them as 1900 + y, so `dateTime` decodes a binary `0050-01-01` as 1950-01-01, and a Date of year 50 that `writeDate` writes comes back from `readDateTime` as 1950 (spec invariant 6 fails). `RoundTrip` with such a Date is violated; no run is kept for it.
- A query's `typeCast: false` on the binary protocol. compile replaces any `options.typeCast` that is not a function, an explicit false included, by `config.typeCast` (part_000:855-860), while text_parser.js:133 says the connection's typeCast applies only when the query does not give one. No run is kept for it; it is listed as a hazard.
- Columns whose keys truly collide: two same-named columns in a flat object, or `a_` + `b` and `a` + `_b` under the separator `"_"`. The later column overwrites the earlier; spec section 3 does not say what such a row holds, so no run asserts it. The join setups assert that nested, separator and array rows keep `t.id` and `u.id` apart.
- `dateTimeString` (binary, `dateStrings`) and `timeString` (binary TIME) are not modelled, and the binary runs keep `dateStrings` false and have no TIME column. Reading the source shows three divergences, listed as hazards: `dateTimeString` takes the day from offset + 4, the hour byte (spec section 9 notes it); for a DATETIME(n) column the compiler calls `dateTimeString(_, 0, n)`, so `n` is taken as the length and the time is lost (part_000:767); and `timeString` does not pad the hours to two digits (part_000:1294).
- **Next**
  - `dateTimeString` and `timeString` with violation runs for the three divergences above, if run slots allow.
  
