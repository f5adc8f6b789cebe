----------------------------- MODULE CastField ------------------------------
(***************************************************************************)
(* The Cast Field Adapter: class CastField of lib/parsers/cast_field.js.   *)
(* The object is a record; its defaultRead closure is named by the branch *)
(* of the constructor that chose it.  An encoding of null or undefined is  *)
(* Undefined.                                                              *)
(*                                                                         *)
(* The user's typeCast callbacks are the environment: "next" returns       *)
(* next(), "string" returns field.string(), "buffer" returns               *)
(* field.buffer(), and "geometry" is the documented geometry callback     *)
(* field.columnType === Types.GEOMETRY ? field.geometry() : next().        *)
(***************************************************************************)
EXTENDS PacketParser

TypeCastFns == {"next", "string", "buffer", "geometry"}

(* new CastField(isBinary, column, encoding, defaultCast, fieldBuffer):   *)
(* defaultCast is a decoder name, or "null" when the parser has none;     *)
(* fieldBuffer is a Buffer (JSBuf), null or undefined.                     *)
NewCastField(isBinary, column, encoding, defaultCast, fieldBuffer) ==
  LET isNull == fieldBuffer = Undefined \/ fieldBuffer = JSNull
  IN [isBinary      |-> isBinary,
      column        |-> column,
      defaultRead   |-> IF isNull THEN "alwaysNull"
                        ELSE IF defaultCast # "null" THEN "cast"
                        ELSE IF encoding \in {"binary", Undefined} THEN "buffer"
                        ELSE "decode",
      cast          |-> defaultCast,
      fieldBuffer   |-> IF isNull THEN <<>> ELSE fieldBuffer.b,
      forceEncoding |-> IF isNull THEN Undefined ELSE encoding]

(* this.defaultRead()                                                      *)
DefaultRead(cf) ==
  CASE cf.defaultRead = "alwaysNull" -> JSNull
    [] cf.defaultRead = "cast"   -> DefaultCast(cf.cast, cf.fieldBuffer, Undefined, Undefined)
    [] cf.defaultRead = "buffer" -> JSBuf(cf.fieldBuffer)
    [] cf.defaultRead = "decode" -> decode(cf.fieldBuffer, cf.forceEncoding)

(* get encoding(): this.forceEncoding || this.column.encoding              *)
Encoding(cf) ==
  IF cf.forceEncoding = Undefined THEN cf.column.encoding ELSE cf.forceEncoding

(* toString(): the field buffer decoded in this.encoding (the model's     *)
(* callers never pass an encoding).                                        *)
toString(cf) == decode(cf.fieldBuffer, Encoding(cf))

(* string(): binary fields print defaultRead(), null staying null; text  *)
(* fields decode the field buffer, which is empty for NULL.                *)
StringOf(value) ==
  IF value \in {JSNull, Undefined} THEN JSNull ELSE ValueToString(value)
string(cf) ==
  IF cf.isBinary THEN StringOf(DefaultRead(cf)) ELSE toString(cf)

buffer(cf) == JSBuf(cf.fieldBuffer)

(* geometry(): PacketParser.geometry(this.fieldBuffer), the whole buffer.  *)
fieldGeometry(cf) == geometry(cf.fieldBuffer, Undefined, Undefined)

(* get columnType(): this.column.columnType                                *)
columnType(cf) == cf.column.columnType

(* run(typeCast): typeCast(this, this.defaultRead)                         *)
run(cf, typeCast) ==
  CASE typeCast = "next"   -> DefaultRead(cf)
    [] typeCast = "string" -> string(cf)
    [] typeCast = "buffer" -> buffer(cf)
    [] typeCast = "geometry" ->
         IF columnType(cf) = "GEOMETRY" THEN fieldGeometry(cf) ELSE DefaultRead(cf)

=============================================================================
