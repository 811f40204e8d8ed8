-------------------------------- MODULE RoundTrip --------------------------------
(***************************************************************************)
(* One column from a DataFrame to _source and back: bulk_write sanitizes   *)
(* it, normalizes its timestamps and builds the document; read_index       *)
(* coerces what is stored to the declared type. Or the field comes from an *)
(* index the connector did not write. Compared with what the README's      *)
(* datatype and read fidelity tables say, each in a single pass.           *)
(***************************************************************************)
EXTENDS WriteTransform, ReadTransform

CONSTANTS
    Types,    \* types of written columns
    ValuesOf, \* ValuesOf[t]: values of a column of type t
    Foreign   \* fields of other indices: [source, is_id, declared]

DocId == <<"1">>

VARIABLES
    origin,   \* what there was: [type, value], or a member of Foreign
    type,     \* the type of the column now
    column,   \* its value now; <<>> or <<value>> once it is in _source
    declared, \* the type declared by the reader
    stage     \* "frame", "sanitized", "normalized", "stored", "read";
              \* "failed" (to write) or "refused" (to read)

vars == <<origin, type, column, declared, stage>>

Written == "value" \in DOMAIN origin

Init ==
    \/ /\ \E t \in Types : \E v \in ValuesOf[t] : origin = [type |-> t, value |-> v]
       /\ type = origin.type /\ column = origin.value
       /\ declared = <<>>
       /\ stage = "frame"
    \/ /\ origin \in Foreign
       /\ type = <<>> /\ column = origin.source
       /\ declared = origin.declared
       /\ stage = "stored"

SanitizeForArrow ==
    /\ stage = "frame" /\ stage' = "sanitized"
    /\ IF TypeIsArrowHostile(type)
       THEN column' = Sanitized(column, type) /\ type' = <<"string">>
       ELSE UNCHANGED <<column, type>>
    /\ UNCHANGED <<origin, declared>>

NormalizeTimestampsForUtc ==
    /\ stage = "sanitized"
    /\ IF ~OneTypePerBranch("timestamp", type)
       THEN stage' = "failed" /\ UNCHANGED <<column, type>>
       ELSE /\ stage' = "normalized"
            /\ IF TypeHasTimestamp(type)
               THEN column' = RewriteTimestamps(column, type)
                    /\ type' = RewrittenType("timestamp", type)
               ELSE UNCHANGED <<column, type>>
    /\ UNCHANGED <<origin, declared>>

BuildNdjson ==
    /\ stage = "normalized"
    /\ IF ~OneTypePerBranch("date", type)
       THEN stage' = "failed" /\ UNCHANGED <<column, type>>
       ELSE /\ stage' = "stored"
            /\ type' = RewrittenType("date", type)
            /\ column' = <<ToJson(SourceExpr(column, type), type')>>
    /\ UNCHANGED <<origin, declared>>

(* The type to declare: variants and intervals are text, and so are the keys *)
(* of maps.                                                                 *)
RECURSIVE ReadSchema(_)
ReadSchema(t) ==
    CASE TypeIsArrowHostile(t) -> <<"string">>
      [] Kind(t) = "struct" ->
            <<"struct", [i \in DOMAIN t[2] |-> <<t[2][i][1], ReadSchema(t[2][i][2])>>]>>
      [] Kind(t) = "array" -> <<"array", ReadSchema(t[2])>>
      [] Kind(t) = "map"   -> <<"map", <<"string">>, ReadSchema(t[3])>>
      [] OTHER -> t

(* With the type the column had, where it can be declared, or as documented. *)
Declare ==
    /\ stage = "stored" /\ declared = <<>>
    /\ \/ declared' = ReadSchema(origin.type)
       \/ ~TypeIsArrowHostile(origin.type) /\ declared' = origin.type
    /\ UNCHANGED <<origin, type, column, stage>>

ReadIndex ==
    /\ stage = "stored" /\ declared # <<>>
    /\ LET token == SparkTypeToken(declared)
           is_id == ~Written /\ origin.is_id
           row   == CoerceHit(column, is_id, DocId, token)
       IN  IF RejectNonStringMapKeys(token)
           THEN stage' = "refused" /\ UNCHANGED column
           ELSE /\ stage' = IF row = Bad THEN "refused" ELSE "read"
                /\ column' = IF row = Bad THEN column ELSE <<row>>
    /\ UNCHANGED <<origin, type, declared>>

Next ==
    \/ SanitizeForArrow
    \/ NormalizeTimestampsForUtc
    \/ BuildNdjson
    \/ Declare
    \/ ReadIndex

Spec == Init /\ [][Next]_vars

-----------------------------------------------------------------------------
(* The README's tables                                                      *)

RECURSIVE Stored(_, _)
(* "Spark type | ES _source value"                                          *)
Stored(v, t) ==
    CASE v \in {Null, <<"nonfinite">>} -> Null
      [] Kind(t) = "struct" ->
            <<"obj", [i \in DOMAIN v[2] |-> <<t[2][i][1], Stored(v[2][i], t[2][i][2])>>]>>
      [] Kind(t) = "array" -> <<"list", [i \in DOMAIN v[2] |-> Stored(v[2][i], t[2])]>>
      [] Kind(t) = "map" ->
            <<"obj", [i \in DOMAIN v[2] |-> <<KeyText(v[2][i][1]), Stored(v[2][i][2], t[3])>>]>>
      [] Kind(t) \in {"timestamp", "timestamp_ntz"} -> <<"int", v[2] \div 2>>
      [] Kind(t) = "date" -> <<"int", v[2] * DayMs>>
      [] OTHER -> ToJson(v, t)

StoredColumn(v, t) ==
    IF v = Null THEN Null
    ELSE IF Kind(t) = "interval" THEN <<"str", <<"interval", v[2]>>>>
    ELSE IF TypeIsArrowHostile(t) THEN <<"str", <<"json", v>>>>
    ELSE Stored(v, t)

RECURSIVE Reproduces(_, _, _)
(* Does r, read back, show the value v of type t but for the documented     *)
(* deltas: milliseconds, non-finite floats, text for keys and for variants  *)
(* and intervals?                                                           *)
Reproduces(r, v, t) ==
    CASE v \in {Null, <<"nonfinite">>} -> r = Null
      [] TypeIsArrowHostile(t) -> r = <<"string", StoredColumn(v, t)[2]>>
      [] Kind(t) = "struct" -> \A i \in DOMAIN v[2] : Reproduces(r[2][i], v[2][i], t[2][i][2])
      [] Kind(t) = "array" ->
            /\ Len(r[2]) = Len(v[2])
            /\ \A i \in DOMAIN v[2] : Reproduces(r[2][i], v[2][i], t[2])
      [] Kind(t) = "map" ->
            /\ Len(r[2]) = Len(v[2])
            /\ \A i \in DOMAIN v[2] :
                  /\ r[2][i][1] = <<"string", KeyText(v[2][i][1])>>
                  /\ Reproduces(r[2][i][2], v[2][i][2], t[3])
      [] OTHER -> ScalarReproduces(r, v, Kind(t))

RECURSIVE StandsFor(_, _, _)
(* Does the row value r show the JSON value v under the declared type t? An *)
(* array shows a scalar as its only element.                                *)
StandsFor(r, v, t) ==
    CASE v = Null \/ r = Null -> v = r
      [] Kind(t) = "struct" ->
            /\ v[1] = "obj"
            /\ \A i \in DOMAIN t[2] :
                  StandsFor(r[2][i], Get(v[2], t[2][i][1]), t[2][i][2])
      [] Kind(t) = "map" ->
            /\ v[1] = "obj" /\ Len(r[2]) = Len(v[2])
            /\ \A i \in DOMAIN v[2] :
                  r[2][i][1] = <<"string", v[2][i][1]>> /\ StandsFor(r[2][i][2], v[2][i][2], t[3])
      [] Kind(t) = "array" ->
            LET seq == IF v[1] = "list" THEN v[2] ELSE <<v>> IN
            /\ Len(r[2]) = Len(seq)
            /\ \A i \in DOMAIN seq : StandsFor(r[2][i], seq[i], t[2])
      [] OTHER -> ~IsContainer(v) /\ ScalarStandsFor(r, v, Kind(t))

RECURSIVE HasLooseText(_, _)
HasLooseText(v, t) ==
    IF Kind(t) = "array" /\ v[1] = "list" THEN \E i \in DOMAIN v[2] : HasLooseText(v[2][i], t[2])
    ELSE IF Kind(t) = "array" THEN HasLooseText(v, t[2])
    ELSE DecodesLoosely(v, Kind(t))

RECURSIVE HasObject(_)
HasObject(t) == Kind(t) \in {"struct", "map"} \/ \E p \in ValueParts(t) : HasObject(p)

-----------------------------------------------------------------------------
(* _source holds what the datatype table says, at any depth, though three   *)
(* passes with a type walk each have made it: no timestamp or date left in  *)
(* ISO form, no "NaN" a numeric field would reject, no null turned into a   *)
(* struct of nulls.                                                         *)
StoredAsDocumented ==
    Written /\ stage = "stored" => column = <<StoredColumn(origin.value, origin.type)>>

(* Reading after writing gives the original column, but for the documented  *)
(* deltas.                                                                  *)
ReadReproducesWrite ==
    Written /\ stage = "read" => Reproduces(column[1], origin.value, origin.type)

(* What was written can be read, unless the declared type has a map whose   *)
(* keys are not strings; then it is refused, and never misread.             *)
RefusedForItsKeysOnly ==
    /\ Written /\ stage = "refused" => AnyKey(declared, {<<"string">>})
    /\ stage = "read" => ~AnyKey(declared, {<<"string">>})

Source ==
    IF origin.source # <<>> THEN origin.source[1]
    ELSE IF origin.is_id THEN <<"str", DocId>> ELSE Null

(* A value that does not fit a declared scalar, or array of scalars, is     *)
(* refused: no integer is cut off or wraps, no boolean turns around, no     *)
(* list shows up as text. The one exception is text that b64decode takes    *)
(* for base64 under a declared binary.                                      *)
ScalarMismatchRaises ==
    ~Written /\ stage = "read" /\ ~HasObject(declared) /\ ~HasLooseText(Source, declared) =>
        StandsFor(column[1], Source, declared)

(* The README: "A declared type that doesn't fit the stored value raises    *)
(* ReadSchemaMismatch", for structs, maps and binaries as well (nothing is  *)
(* said of an empty list or text).                                          *)
MismatchRaises ==
    ~Written /\ stage = "read" /\ Source \notin {<<"list", <<>>>>, EmptyText} =>
        StandsFor(column[1], Source, declared)

(* The README: "Every valid Spark column can be exported with no caller     *)
(* pre-processing".                                                         *)
EveryColumnExports == stage # "failed"

=============================================================================
