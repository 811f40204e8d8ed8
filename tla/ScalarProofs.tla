------------------------------ MODULE ScalarProofs ------------------------------
(***************************************************************************)
(* Proofs about Scalars, for every number and text and for every width of  *)
(* int and bigint.                                                         *)
(***************************************************************************)
EXTENDS Scalars, TLAPS

(* Text is a literal or tagged; text that is base64 of no bytes is empty.   *)
IsText(s) == s[1] = "b64" => \E n \in Int \ {0} : s = <<"b64", n>>

IsJsonScalar(v) ==
    \/ \E n \in Int : v = <<"int", n>>
    \/ \E h \in Int : v = <<"real", h>>
    \/ \E b \in BOOLEAN : v = <<"bool", b>>
    \/ \E s : IsText(s) /\ v = <<"str", s>>

Integrals == {"byte", "short", "int", "long"}
Decimals  == {"decimal0", "decimal2"}
Instants  == {"timestamp", "timestamp_ntz"}

ScalarLeaves ==
    Integrals \cup Decimals \cup Instants \cup {"date", "double", "boolean", "binary", "string"}

LEMMA ScalarsAreFlat == \A v : IsJsonScalar(v) => ~IsContainer(v)
BY DEF IsJsonScalar, IsContainer

(* int() gives an integer or raises, and what it gives is within one of the *)
(* number, towards zero.                                                    *)
LEMMA PyIntCuts ==
    ASSUME NEW v, IsJsonScalar(v), PyInt(v) # Bad
    PROVE  \E n \in Int : /\ PyInt(v) = <<"int", n>>
                          /\ \E h \in Int : /\ Halves(v) = {h} /\ 2 * n - h \in -1..1
                                            /\ (v[1] = "real" => v[2] = h)
                                            /\ (v[1] # "real" => h = 2 * n)
<1>1. CASE \E n \in Int : v = <<"int", n>>
    BY <1>1 DEF PyInt, Halves
<1>2. CASE \E h \in Int : v = <<"real", h>>
    BY <1>2 DEF PyInt, Halves
<1>3. CASE \E b \in BOOLEAN : v = <<"bool", b>>
    BY <1>3 DEF PyInt, Halves
<1>4. CASE \E s : IsText(s) /\ v = <<"str", s>>
    BY <1>4, ScalarsAssumption DEF PyInt, Halves
<1>5. QED
    BY <1>1, <1>2, <1>3, <1>4 DEF IsJsonScalar

(* float() gives the number itself, or raises.                              *)
LEMMA PyFloatKeeps ==
    ASSUME NEW v, IsJsonScalar(v), PyFloat(v) # Bad
    PROVE  \E h \in Int : PyFloat(v) = <<"double", h>> /\ Halves(v) = {h}
<1>1. CASE v[1] = "real"
    BY <1>1 DEF IsJsonScalar, PyFloat, Halves
<1>2. CASE v[1] = "str" /\ v[2] \in DOMAIN FractionText
    BY <1>2, ScalarsAssumption DEF PyFloat, Halves
<1>3. CASE v[1] # "real" /\ ~(v[1] = "str" /\ v[2] \in DOMAIN FractionText)
    <2>1. PyInt(v) # Bad
        BY <1>3 DEF PyFloat
    <2>2. PICK n \in Int : PyInt(v) = <<"int", n>> /\ Halves(v) = {2 * n}
        BY <1>3, <2>1, PyIntCuts
    <2>3. PyFloat(v) = <<"double", 2 * n>>
        BY <1>3, <2>1, <2>2 DEF PyFloat
    <2>4. QED
        BY <2>2, <2>3
<1>4. QED
    BY <1>1, <1>2, <1>3

(* The widths read_coerce looks up by simpleString are those of the Spark   *)
(* types.                                                                   *)
LEMMA WidthsFit ==
    ASSUME NEW leaf \in Integrals
    PROVE  /\ SimpleString(leaf) \in DOMAIN IntWidthBits
           /\ SimpleString(leaf) \notin Instants \cup {"date", "binary", "decimal"}
           /\ \A n \in Int : InWidth(n, IntWidthBits[SimpleString(leaf)]) <=> n \in RangeOf[leaf]
<1>1. /\ SimpleString(leaf) \in DOMAIN IntWidthBits
      /\ SimpleString(leaf) \notin Instants \cup {"date", "binary", "decimal"}
      /\ IntWidthBits[SimpleString(leaf)] \in Nat
      /\ RangeOf[leaf] = Signed(IntWidthBits[SimpleString(leaf)])
    BY ScalarsAssumption DEF Integrals, SimpleString, IntWidthBits, Instants, RangeOf
<1>2. \A bits \in Nat, n \in Int : InWidth(n, bits) <=> n \in Signed(bits)
    BY DEF InWidth, Signed
<1>3. QED
    BY <1>1, <1>2

(* An integer is read as itself, whole and within its width, or refused.    *)
LEMMA IntegralStands ==
    ASSUME NEW v, IsJsonScalar(v), NEW leaf \in Integrals,
           CoerceScalar(v, SimpleString(leaf)) # Bad
    PROVE  ScalarStandsFor(CoerceScalar(v, SimpleString(leaf)), v, leaf)
<1> DEFINE bits == IntWidthBits[SimpleString(leaf)]
           r == CoerceScalar(v, SimpleString(leaf))
<1>1. r = CoerceInt(v, bits)
    BY WidthsFit, ScalarsAreFlat DEF CoerceScalar, Instants, IntWidthBits
<1>2. /\ PyInt(v) # Bad /\ r = PyInt(v) /\ InWidth(r[2], bits)
      /\ ~(v[1] = "real" /\ v[2] % 2 # 0)
    BY <1>1 DEF CoerceInt
<1>3. PICK n \in Int, h \in Int :
          /\ PyInt(v) = <<"int", n>> /\ Halves(v) = {h} /\ 2 * n - h \in -1..1
          /\ (v[1] = "real" => v[2] = h) /\ (v[1] # "real" => h = 2 * n)
    BY <1>2, PyIntCuts
<1>4. v[1] = "real" => h % 2 = 0
    BY <1>2, <1>3
<1>5. 2 * n = h
    BY <1>3, <1>4
<1>6. n \in RangeOf[leaf]
    BY <1>2, <1>3, WidthsFit
<1>7. r[1] = "int" /\ 2 * r[2] \in Halves(v) /\ r[2] \in RangeOf[leaf]
    BY <1>2, <1>3, <1>5, <1>6
<1>8. leaf \in DOMAIN RangeOf
    BY DEF Integrals, RangeOf
<1>9. QED
    BY <1>7, <1>8 DEF ScalarStandsFor, Integrals

LEMMA DecimalStands ==
    ASSUME NEW v, IsJsonScalar(v), NEW leaf \in Decimals,
           CoerceScalar(v, SimpleString(leaf)) # Bad
    PROVE  ScalarStandsFor(CoerceScalar(v, SimpleString(leaf)), v, leaf)
<1>1. SimpleString(leaf) = "decimal" /\ leaf \notin DOMAIN RangeOf
    BY DEF SimpleString, Decimals, RangeOf
<1>2. CoerceScalar(v, SimpleString(leaf)) = CoerceDecimal(v)
    BY <1>1, ScalarsAreFlat DEF CoerceScalar, IntWidthBits
<1>3. PyFloat(v) # Bad /\ CoerceDecimal(v) = <<"decimal", PyFloat(v)[2]>>
    BY <1>2 DEF CoerceDecimal
<1>4. PICK h \in Int : PyFloat(v) = <<"double", h>> /\ Halves(v) = {h}
    BY <1>3, PyFloatKeeps
<1>5. CoerceDecimal(v) = <<"decimal", h>>
    BY <1>3, <1>4
<1>6. QED
    BY <1>1, <1>2, <1>4, <1>5 DEF ScalarStandsFor, Decimals

LEMMA TemporalStands ==
    ASSUME NEW v, IsJsonScalar(v), NEW leaf \in Instants \cup {"date"},
           CoerceScalar(v, SimpleString(leaf)) # Bad
    PROVE  ScalarStandsFor(CoerceScalar(v, SimpleString(leaf)), v, leaf)
<1>1. /\ SimpleString(leaf) = leaf /\ leaf \notin DOMAIN RangeOf
      /\ leaf \notin Decimals \cup {"double"}
    BY DEF SimpleString, Instants, Decimals, RangeOf
<1>2. CoerceScalar(v, SimpleString(leaf)) = CoerceTemporal(v, leaf)
    BY <1>1, ScalarsAreFlat DEF CoerceScalar, Instants, IntWidthBits
<1>3. PyInt(v) # Bad
    BY <1>2 DEF CoerceTemporal
<1>4. PICK n \in Int, h \in Int :
          PyInt(v) = <<"int", n>> /\ Halves(v) = {h} /\ 2 * n - h \in -1..1
    BY <1>3, PyIntCuts
<1>5. CASE leaf = "date"
    <2>1. CoerceTemporal(v, leaf) = <<"date", n \div DayMs>>
        BY <1>3, <1>4, <1>5 DEF CoerceTemporal
    <2>2. h - 2 * DayMs * (n \div DayMs) \in -1..(2 * DayMs - 1)
        BY <1>4 DEF DayMs
    <2>3. QED
        BY <1>1, <1>2, <1>4, <1>5, <2>1, <2>2 DEF ScalarStandsFor, Decimals
<1>6. CASE leaf \in Instants
    <2>1. CoerceTemporal(v, leaf) = <<leaf, 2 * n>>
        BY <1>3, <1>4, <1>6 DEF CoerceTemporal, Instants
    <2>2. QED
        BY <1>1, <1>2, <1>4, <1>6, <2>1 DEF ScalarStandsFor, Decimals, Instants
<1>7. QED
    BY <1>5, <1>6

LEMMA DoubleStands ==
    ASSUME NEW v, IsJsonScalar(v), CoerceScalar(v, SimpleString("double")) # Bad
    PROVE  ScalarStandsFor(CoerceScalar(v, SimpleString("double")), v, "double")
<1>1. SimpleString("double") = "double" /\ "double" \notin DOMAIN RangeOf
    BY DEF SimpleString, RangeOf
<1>2. CoerceScalar(v, "double") = PyFloat(v)
    BY ScalarsAreFlat DEF CoerceScalar, IntWidthBits
<1>3. PICK h \in Int : PyFloat(v) = <<"double", h>> /\ Halves(v) = {h}
    BY <1>1, <1>2, PyFloatKeeps
<1>4. QED
    BY <1>1, <1>2, <1>3 DEF ScalarStandsFor

LEMMA BooleanStands ==
    ASSUME NEW v, IsJsonScalar(v), CoerceScalar(v, SimpleString("boolean")) # Bad
    PROVE  ScalarStandsFor(CoerceScalar(v, SimpleString("boolean")), v, "boolean")
<1>1. SimpleString("boolean") = "boolean" /\ "boolean" \notin DOMAIN RangeOf
    BY DEF SimpleString, RangeOf
<1>2. CoerceScalar(v, "boolean") = CoerceBoolean(v)
    BY ScalarsAreFlat DEF CoerceScalar, IntWidthBits
<1> DEFINE r == CoerceBoolean(v)
<1>3. /\ r[1] = "boolean"
      /\ \/ v[1] = "str" /\ v[2] \in (IF r[2] THEN BoolTrueStrings ELSE BoolFalseStrings)
         \/ v[1] # "str" /\ \E h \in Halves(v) : r[2] = (h # 0)
    <2>1. CASE v[1] = "str"
        <3>1. PICK b \in BOOLEAN : /\ r = <<"boolean", b>>
                                   /\ b => v[2] \in BoolTrueStrings
                                   /\ ~b => v[2] \in BoolFalseStrings
            <4>1. CASE v[2] \in BoolTrueStrings
                BY <2>1, <4>1 DEF CoerceBoolean
            <4>2. CASE v[2] \notin BoolTrueStrings
                BY <1>1, <1>2, <2>1, <4>2 DEF CoerceBoolean
            <4>3. QED
                BY <4>1, <4>2
        <3>2. r[1] = "boolean" /\ r[2] = b
            BY <3>1
        <3>3. QED
            BY <2>1, <3>1, <3>2
    <2>2. CASE \E b \in BOOLEAN : v = <<"bool", b>>
        <3>1. PICK b \in BOOLEAN : v = <<"bool", b>>
            BY <2>2
        <3>2. r = <<"boolean", b>> /\ Halves(v) = {IF b THEN 2 ELSE 0}
            BY <3>1 DEF CoerceBoolean, Halves
        <3>3. b = ((IF b THEN 2 ELSE 0) # 0)
            BY <3>1
        <3>4. r[1] = "boolean" /\ r[2] = b /\ v[1] # "str"
            BY <3>1, <3>2
        <3>5. QED
            BY <3>2, <3>3, <3>4
    <2>3. CASE \E n \in Int : v = <<"int", n>> \/ v = <<"real", n>>
        <3>1. PICK n \in Int : v = <<"int", n>> \/ v = <<"real", n>>
            BY <2>3
        <3>2. r = <<"boolean", n # 0>> /\ v[1] # "str"
            BY <3>1 DEF CoerceBoolean
        <3>3. PICK h \in Int : Halves(v) = {h} /\ (h # 0 <=> n # 0)
            BY <3>1 DEF Halves
        <3>4. r[1] = "boolean" /\ r[2] = (n # 0)
            BY <3>2
        <3>5. (h # 0) = (n # 0)
            BY <3>3
        <3>6. QED
            BY <3>2, <3>3, <3>4, <3>5
    <2>4. QED
        BY <2>1, <2>2, <2>3 DEF IsJsonScalar
<1> HIDE DEF r
<1>4. QED
    BY <1>1, <1>2, <1>3 DEF ScalarStandsFor, r

LEMMA BinaryStands ==
    ASSUME NEW v, IsJsonScalar(v), CoerceScalar(v, SimpleString("binary")) # Bad,
           ~DecodesLoosely(v, "binary")
    PROVE  ScalarStandsFor(CoerceScalar(v, SimpleString("binary")), v, "binary")
<1>1. SimpleString("binary") = "binary" /\ "binary" \notin DOMAIN RangeOf
    BY DEF SimpleString, RangeOf
<1>2. CoerceScalar(v, "binary") = CoerceBinary(v)
    BY ScalarsAreFlat DEF CoerceScalar, IntWidthBits
<1>3. v = Base64(CoerceBinary(v)[2])
    <2>1. CASE v = EmptyText
        BY <2>1, ScalarsAssumption DEF CoerceBinary, Base64, EmptyText
    <2>2. CASE v # EmptyText
        <3>1. v[1] = "str" /\ v[2][1] = "b64" /\ CoerceBinary(v) = <<"binary", v[2][2]>>
            BY <1>1, <1>2, <2>2 DEF CoerceBinary, DecodesLoosely
        <3>2. PICK n \in Int \ {0} : v = <<"str", <<"b64", n>>>>
            BY <3>1 DEF IsJsonScalar, IsText
        <3>3. CoerceBinary(v)[2] = n
            BY <3>1, <3>2
        <3>4. QED
            BY <3>2, <3>3 DEF Base64
    <2>3. QED
        BY <2>1, <2>2
<1>4. QED
    BY <1>1, <1>2, <1>3 DEF ScalarStandsFor

LEMMA StringStands ==
    ASSUME NEW v, IsJsonScalar(v)
    PROVE  ScalarStandsFor(CoerceScalar(v, SimpleString("string")), v, "string")
<1>1. SimpleString("string") = "string" /\ "string" \notin DOMAIN RangeOf
    BY DEF SimpleString, RangeOf
<1>2. CoerceScalar(v, "string") = CoerceString(v)
    BY ScalarsAreFlat DEF CoerceScalar, IntWidthBits
<1>3. QED
    BY <1>1, <1>2 DEF ScalarStandsFor, CoerceString

(* read_coerce never returns a wrong scalar, with one exception: whatever   *)
(* JSON value an index holds and whatever scalar type is declared, it is    *)
(* refused or shown. No integer is cut off or wraps, of whatever width; no  *)
(* boolean turns around; an instant is off by less than a millisecond; no   *)
(* list or object shows up as text. The exception is text that was not      *)
(* written as base64 and is declared binary: b64decode takes some for bytes. *)
THEOREM ScalarsReadTrue ==
    ASSUME NEW v, IsJsonScalar(v) \/ IsContainer(v), NEW leaf \in ScalarLeaves,
           CoerceScalar(v, SimpleString(leaf)) # Bad, ~DecodesLoosely(v, leaf)
    PROVE  ScalarStandsFor(CoerceScalar(v, SimpleString(leaf)), v, leaf)
<1>1. IsJsonScalar(v)
    BY DEF CoerceScalar
<1>2. QED
    BY <1>1, IntegralStands, DecimalStands, TemporalStands, DoubleStands, BooleanStands,
       BinaryStands, StringStands DEF ScalarLeaves

-----------------------------------------------------------------------------
(* Written by the connector and read back                                   *)

(* The values of a column, nulls and non-finite numbers apart               *)
ScalarValue(v, leaf) ==
    \/ leaf \in Integrals /\ \E n \in RangeOf[leaf] : v = <<leaf, n>>
    \/ /\ leaf \in Decimals \cup Instants \cup {"date", "double", "binary"}
       /\ \E n \in Int : v = <<leaf, n>>
    \/ leaf = "boolean" /\ \E b \in BOOLEAN : v = <<leaf, b>>
    \/ leaf = "string" /\ \E s : IsText(s) /\ v = <<leaf, s>>

(* The leaf of normalize_timestamps_for_utc and build_ndjson: an instant    *)
(* and a date become longs, then everything becomes JSON.                   *)
StoredScalar(v, leaf) ==
    CASE leaf \in Leaves("timestamp") -> ScalarToJson(RewrittenLeaf("timestamp", v), "long")
      [] leaf \in Leaves("date")      -> ScalarToJson(RewrittenLeaf("date", v), "long")
      [] leaf \in Leaves("float")     -> ScalarToJson(RewrittenLeaf("float", v), leaf)
      [] OTHER                        -> ScalarToJson(v, leaf)

(* What the connector has written it reads back under the same type, for    *)
(* every value: never refused, and never changed but for the part of an     *)
(* instant below a millisecond.                                             *)
THEOREM ScalarsRoundTrip ==
    ASSUME NEW leaf \in ScalarLeaves, NEW v, ScalarValue(v, leaf)
    PROVE  ScalarReproduces(CoerceScalar(StoredScalar(v, leaf), SimpleString(leaf)), v, leaf)
<1> DEFINE json == StoredScalar(v, leaf)
           r == CoerceScalar(json, SimpleString(leaf))
<1>1. CASE leaf \in Integrals
    <2>0. RangeOf[leaf] \subseteq Int
        <3>1. \A bits \in Nat : Signed(bits) \subseteq Int
            BY DEF Signed
        <3>2. RangeOf[leaf] \in {Signed(7), Signed(15), Signed(IntBits), Signed(LongBits)}
            BY <1>1 DEF Integrals, RangeOf
        <3>3. QED
            BY <3>1, <3>2, ScalarsAssumption
    <2>1. PICK n \in Int : v = <<leaf, n>> /\ n \in RangeOf[leaf]
        BY <1>1, <2>0 DEF ScalarValue, Integrals, Decimals, Instants
    <2>2. json = <<"int", n>>
        BY <1>1, <2>1 DEF StoredScalar, ScalarToJson, Leaves, Integrals
    <2>3. r = CoerceInt(json, IntWidthBits[SimpleString(leaf)])
        BY <1>1, <2>2, WidthsFit DEF CoerceScalar, IsContainer, Instants, IntWidthBits
    <2>4. InWidth(n, IntWidthBits[SimpleString(leaf)])
        BY <1>1, <2>1, WidthsFit
    <2>5. r = <<"int", n>>
        BY <2>2, <2>3, <2>4 DEF CoerceInt, PyInt, Bad
    <2>6. QED
        BY <1>1, <2>1, <2>5 DEF ScalarReproduces, Integrals
<1>2. CASE leaf \in Decimals
    <2>1. PICK n \in Int : v = <<leaf, n>>
        BY <1>2 DEF ScalarValue, Decimals, Integrals
    <2>2. SimpleString(leaf) = "decimal"
        BY <1>2 DEF SimpleString, Decimals
    <2>3. json = IF leaf = "decimal0" THEN <<"int", n>> ELSE <<"real", n>>
        BY <1>2, <2>1 DEF StoredScalar, ScalarToJson, Leaves, Decimals
    <2>4. r = IF leaf = "decimal0" THEN <<"decimal", 2 * n>> ELSE <<"decimal", n>>
        BY <2>2, <2>3 DEF CoerceScalar, IsContainer, CoerceDecimal, PyFloat, PyInt, Bad, IntWidthBits
    <2>5. QED
        BY <1>2, <2>1, <2>4 DEF ScalarReproduces, Decimals
<1>3. CASE leaf \in Instants \cup {"date"}
    <2>1. PICK n \in Int : v = <<leaf, n>>
        BY <1>3 DEF ScalarValue, Instants, Integrals
    <2>2. SimpleString(leaf) = leaf
        BY <1>3 DEF SimpleString, Instants
    <2>3. json = IF leaf = "date" THEN <<"int", n * DayMs>> ELSE <<"int", n \div 2>>
        BY <1>3, <2>1
           DEF StoredScalar, ScalarToJson, RewrittenLeaf, DateNtzLeafToEpochMillis, Leaves, Instants
    <2>4. r = IF leaf = "date" THEN <<"date", (n * DayMs) \div DayMs>> ELSE <<leaf, 2 * (n \div 2)>>
        <3>1. json[1] = "int" /\ PyInt(json) = json /\ json # Bad
            BY <2>3 DEF PyInt, Bad
        <3>2. r = CoerceTemporal(json, leaf)
            BY <1>3, <2>2, <3>1 DEF CoerceScalar, IsContainer, Instants, IntWidthBits
        <3>3. r = IF leaf = "date" THEN <<"date", json[2] \div DayMs>> ELSE <<leaf, 2 * json[2]>>
            BY <3>1, <3>2 DEF CoerceTemporal
        <3>4. json[2] = IF leaf = "date" THEN n * DayMs ELSE n \div 2
            BY <2>3
        <3>5. QED
            BY <3>3, <3>4
    <2>5. (n * DayMs) \div DayMs = n /\ 2 * (n \div 2) = n - (n % 2)
        BY DEF DayMs
    <2>6. QED
        BY <1>3, <2>1, <2>4, <2>5 DEF ScalarReproduces, Instants
<1>4. CASE leaf = "double"
    <2>1. PICK n \in Int : v = <<"double", n>>
        BY <1>4 DEF ScalarValue, Integrals
    <2>2. json = <<"real", n>>
        BY <1>4, <2>1 DEF StoredScalar, ScalarToJson, RewrittenLeaf, Leaves
    <2>3. r = <<"double", n>>
        BY <1>4, <2>2 DEF CoerceScalar, SimpleString, IsContainer, PyFloat, IntWidthBits
    <2>4. QED
        BY <1>4, <2>1, <2>3 DEF ScalarReproduces
<1>5. CASE leaf = "binary"
    <2>1. PICK n \in Int : v = <<"binary", n>>
        BY <1>5 DEF ScalarValue, Integrals
    <2>2. json = Base64(n)
        BY <1>5, <2>1 DEF StoredScalar, ScalarToJson, Leaves
    <2>3. CASE n = 0
        <3>1. json = EmptyText
            BY <2>2, <2>3 DEF Base64
        <3>2. r = CoerceBinary(json)
            <4>1. json[1] = "str"
                BY <3>1 DEF EmptyText
            <4>2. QED
                BY <1>5, <4>1 DEF CoerceScalar, SimpleString, IsContainer, IntWidthBits
        <3>3. CoerceBinary(EmptyText) = <<"binary", 0>>
            BY ScalarsAssumption DEF CoerceBinary, EmptyText
        <3>4. QED
            BY <2>3, <3>1, <3>2, <3>3, <2>1, <1>5 DEF ScalarReproduces
    <2>4. CASE n # 0
        <3>1. json = <<"str", <<"b64", n>>>> /\ json # EmptyText
            BY <2>2, <2>4 DEF Base64, EmptyText
        <3>2. r = CoerceBinary(json)
            BY <1>5, <3>1 DEF CoerceScalar, SimpleString, IsContainer, IntWidthBits
        <3>3. r = <<"binary", n>>
            BY <3>1, <3>2, ScalarsAssumption DEF CoerceBinary
        <3>4. QED
            BY <1>5, <2>1, <3>3 DEF ScalarReproduces
    <2>5. QED
        BY <2>3, <2>4
<1>6. CASE leaf = "boolean"
    <2>1. PICK b \in BOOLEAN : v = <<"boolean", b>>
        BY <1>6 DEF ScalarValue, Integrals, Decimals, Instants
    <2>2. json = <<"bool", b>>
        BY <1>6, <2>1 DEF StoredScalar, ScalarToJson, Leaves
    <2>3. r = <<"boolean", b>>
        BY <1>6, <2>2 DEF CoerceScalar, SimpleString, IsContainer, CoerceBoolean, IntWidthBits
    <2>4. QED
        BY <1>6, <2>1, <2>3 DEF ScalarReproduces
<1>7. CASE leaf = "string"
    <2>1. PICK s : v = <<"string", s>>
        BY <1>7 DEF ScalarValue, Integrals, Decimals, Instants
    <2>2. json = <<"str", s>>
        BY <1>7, <2>1 DEF StoredScalar, ScalarToJson, Leaves
    <2>3. r = <<"string", s>>
        BY <1>7, <2>2 DEF CoerceScalar, SimpleString, IsContainer, CoerceString, IntWidthBits
    <2>4. QED
        BY <1>7, <2>1, <2>3 DEF ScalarReproduces
<1>8. QED
    BY <1>1, <1>2, <1>3, <1>4, <1>5, <1>6, <1>7 DEF ScalarLeaves

=============================================================================
