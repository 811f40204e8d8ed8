--------------------------------- MODULE Scalars ---------------------------------
(***************************************************************************)
(* Scalar values on their way into _source and back: what the rewrites and *)
(* to_json do at the leaf of a type, and read_coerce (read_transform.py)   *)
(* below its containers.                                                   *)
(*                                                                         *)
(* A value carries its tag: <<"null">>, <<"nonfinite">> or <<leaf, number  *)
(* or text>>; in JSON <<"bool", b>>, <<"int", n>>, <<"real", halves>> (a   *)
(* number with a decimal point) or <<"str", text>>. Text is a tuple, <<"a">> *)
(* for a literal. Instants count half milliseconds, doubles and decimals   *)
(* count halves, and a day has DayMs milliseconds.                         *)
(***************************************************************************)
EXTENDS Integers

CONSTANTS
    IntBits, LongBits,  \* the bits of int and bigint but the sign: 31 and 63
    NumericText,        \* the number in a text that int() and float() read
    FractionText,       \* that in a text that float() reads and int() does not, in halves
    LooseBase64         \* what b64decode makes of a text that was not written as base64

ASSUME ScalarsAssumption ==
    /\ IntBits \in Nat /\ LongBits \in Nat
    /\ NumericText \in [DOMAIN NumericText -> Int]
    /\ FractionText \in [DOMAIN FractionText -> Int]
    /\ DOMAIN FractionText \cap DOMAIN NumericText = {}
    /\ LooseBase64 \in [DOMAIN LooseBase64 -> Int]
    /\ \A s \in DOMAIN LooseBase64 : s[1] \notin {"b64", "empty"}

DayMs == 4

Null == <<"null">>

EmptyText == <<"str", <<"empty">>>>

(* Base64 of no bytes is empty.                                             *)
Base64(n) == IF n = 0 THEN EmptyText ELSE <<"str", <<"b64", n>>>>

-----------------------------------------------------------------------------
(* Into _source                                                             *)

Leaves(rewrite) ==
    CASE rewrite = "timestamp" -> {"timestamp"}
      [] rewrite = "date"      -> {"date", "timestamp_ntz"}
      [] rewrite = "float"     -> {"double"}

(* unix_millis floors; unix_date counts days.                               *)
DateNtzLeafToEpochMillis(v) ==
    IF v[1] = "date" THEN <<"long", v[2] * DayMs>> ELSE <<"long", v[2] \div 2>>

RewrittenLeaf(rewrite, v) ==
    CASE rewrite = "timestamp" -> <<"long", v[2] \div 2>>
      [] rewrite = "date"      -> DateNtzLeafToEpochMillis(v)
      [] rewrite = "float"     -> IF v = <<"nonfinite">> THEN Null ELSE v

(* External: to_json of a scalar                                            *)
ScalarToJson(v, leaf) ==
    CASE v = <<"nonfinite">> -> <<"str", <<"NaN">>>>
      [] leaf \in {"timestamp", "timestamp_ntz", "date"} -> <<"str", <<"iso", v[2]>>>>
      [] leaf \in {"byte", "short", "int", "long", "decimal0"} -> <<"int", v[2]>>
      [] leaf \in {"double", "decimal2"} -> <<"real", v[2]>>
      [] leaf = "boolean" -> <<"bool", v[2]>>
      [] leaf = "binary" -> Base64(v[2])
      [] leaf = "string" -> <<"str", v[2]>>

-----------------------------------------------------------------------------
(* Out of _source                                                           *)

Bad == <<"raise">>

(* Leaves are named for the Spark class, tokens for its simpleString.       *)
SimpleString(leaf) ==
    CASE leaf = "byte"  -> "tinyint"
      [] leaf = "short" -> "smallint"
      [] leaf = "long"  -> "bigint"
      [] leaf \in {"decimal0", "decimal2"} -> "decimal"
      [] OTHER -> leaf

BoolTrueStrings  == {<<"true">>, <<"t">>, <<"1">>, <<"yes">>, <<"y">>}
BoolFalseStrings == {<<"false">>, <<"f">>, <<"0">>, <<"no">>, <<"n">>}

IsContainer(v) == v[1] \in {"list", "obj"}

(* External: int(v). A number is cut off, a boolean counts, text has to be  *)
(* numeric.                                                                 *)
PyInt(v) ==
    CASE v[1] = "int"  -> v
      [] v[1] = "real" -> <<"int", IF v[2] >= 0 THEN v[2] \div 2 ELSE -((-v[2]) \div 2)>>
      [] v[1] = "bool" -> <<"int", IF v[2] THEN 1 ELSE 0>>
      [] v[1] = "str" /\ v[2] \in DOMAIN NumericText -> <<"int", NumericText[v[2]]>>
      [] OTHER -> Bad

(* External: float(v), in halves (the names of numbers that are not finite  *)
(* are left out)                                                            *)
PyFloat(v) ==
    IF v[1] = "real" THEN <<"double", v[2]>>
    ELSE IF v[1] = "str" /\ v[2] \in DOMAIN FractionText THEN <<"double", FractionText[v[2]]>>
    ELSE LET n == PyInt(v) IN IF n = Bad THEN Bad ELSE <<"double", 2 * n[2]>>

(* Mutant: keyed on names simpleString does not give                        *)
MutIntWidthBits == [byte |-> 7, short |-> 15, int |-> IntBits, long |-> LongBits]

IntWidthBits == [tinyint |-> 7, smallint |-> 15, int |-> IntBits, bigint |-> LongBits]

InWidth(n, bits) == -(2^bits) <= n /\ n <= 2^bits - 1

CoerceInt(v, bits) ==
    LET n == PyInt(v) IN
    IF \/ v[1] = "real" /\ v[2] % 2 # 0
       \/ n = Bad
       \/ ~InWidth(n[2], bits)
    THEN Bad ELSE n

CoerceBoolean(v) ==
    CASE v[1] = "bool" -> <<"boolean", v[2]>>
      [] v[1] = "str"  -> IF v[2] \in BoolTrueStrings THEN <<"boolean", TRUE>>
                          ELSE IF v[2] \in BoolFalseStrings THEN <<"boolean", FALSE>>
                          ELSE Bad
      [] OTHER -> <<"boolean", v[2] # 0>>

CoerceTemporal(v, t) ==
    LET ms == PyInt(v) IN
    IF ms = Bad THEN Bad
    ELSE IF t = "date" THEN <<"date", ms[2] \div DayMs>> ELSE <<t, 2 * ms[2]>>

(* Mutant: by way of int                                                    *)
MutCoerceDecimal(v) ==
    LET n == PyInt(v) IN IF n = Bad THEN Bad ELSE <<"decimal", 2 * n[2]>>

(* Decimal(str(v)), in halves; str(True) is no number.                      *)
CoerceDecimal(v) ==
    IF v[1] = "bool" THEN Bad
    ELSE LET x == PyFloat(v) IN IF x = Bad THEN Bad ELSE <<"decimal", x[2]>>

CoerceString(v) == IF v[1] = "str" THEN <<"string", v[2]>> ELSE <<"string", <<"text", v>>>>

(* b64decode without validate drops what is not of its alphabet and takes   *)
(* the rest for base64, unless the length is wrong.                         *)
CoerceBinary(v) ==
    CASE v = EmptyText -> <<"binary", 0>>
      [] v[1] = "str" /\ v[2][1] = "b64" -> <<"binary", v[2][2]>>
      [] v[1] = "str" /\ v[2] \in DOMAIN LooseBase64 -> <<"binary", LooseBase64[v[2]]>>
      [] OTHER -> Bad

CoerceScalar(v, t) ==
    IF IsContainer(v) THEN Bad
    ELSE CASE t \in {"timestamp", "timestamp_ntz", "date"} -> CoerceTemporal(v, t)
           [] t = "binary" -> CoerceBinary(v)
           [] t = "decimal" -> CoerceDecimal(v)
           [] t \in DOMAIN IntWidthBits -> CoerceInt(v, IntWidthBits[t])
           [] t = "double" -> PyFloat(v)
           [] t = "boolean" -> CoerceBoolean(v)
           [] t \in {"string", "variant", "interval"} -> CoerceString(v)
           [] OTHER -> v

-----------------------------------------------------------------------------
(* What the README's tables say                                             *)

(* r shows the value v of a column of type leaf, but for half a millisecond. *)
ScalarReproduces(r, v, leaf) ==
    CASE leaf \in {"timestamp", "timestamp_ntz"} -> r = <<leaf, v[2] - (v[2] % 2)>>
      [] leaf \in {"byte", "short", "int", "long"} -> r = <<"int", v[2]>>
      [] leaf = "decimal0" -> r = <<"decimal", 2 * v[2]>>
      [] leaf = "decimal2" -> r = <<"decimal", v[2]>>
      [] OTHER -> r = v

(* The number a JSON value stands for, in halves: a set, empty if none.     *)
Halves(v) ==
    CASE v[1] = "int"  -> {2 * v[2]}
      [] v[1] = "real" -> {v[2]}
      [] v[1] = "bool" -> {IF v[2] THEN 2 ELSE 0}
      [] v[1] = "str" /\ v[2] \in DOMAIN NumericText -> {2 * NumericText[v[2]]}
      [] v[1] = "str" /\ v[2] \in DOMAIN FractionText -> {FractionText[v[2]]}
      [] OTHER -> {}

Signed(bits) == -(2^bits)..(2^bits - 1)

RangeOf == [byte |-> Signed(7), short |-> Signed(15), int |-> Signed(IntBits),
            long |-> Signed(LongBits)]

(* r, read under the declared type leaf, shows the JSON value v.            *)
ScalarStandsFor(r, v, leaf) ==
    CASE leaf \in DOMAIN RangeOf ->
            r[1] = "int" /\ 2 * r[2] \in Halves(v) /\ r[2] \in RangeOf[leaf]
      [] leaf = "double" -> r[1] = "double" /\ r[2] \in Halves(v)
      [] leaf \in {"decimal0", "decimal2"} -> r[1] = "decimal" /\ r[2] \in Halves(v)
      [] leaf \in {"timestamp", "timestamp_ntz"} ->
            r[1] = leaf /\ \E h \in Halves(v) : r[2] - h \in -1..1
      [] leaf = "date" ->
            r[1] = leaf /\ \E h \in Halves(v) : h - 2 * DayMs * r[2] \in -1..(2 * DayMs - 1)
      [] leaf = "boolean" ->
            /\ r[1] = "boolean"
            /\ \/ v[1] = "str" /\ v[2] \in (IF r[2] THEN BoolTrueStrings ELSE BoolFalseStrings)
               \/ v[1] # "str" /\ \E h \in Halves(v) : r[2] = (h # 0)
      [] leaf = "binary" -> v = Base64(r[2])
      [] leaf = "string" -> r = <<"string", IF v[1] = "str" THEN v[2] ELSE <<"text", v>>>>
      [] OTHER -> FALSE

(* Text of some other kind that is read as bytes                            *)
DecodesLoosely(v, leaf) ==
    leaf = "binary" /\ v[1] = "str" /\ v[2] \in DOMAIN LooseBase64

=============================================================================
