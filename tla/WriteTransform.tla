----------------------------- MODULE WriteTransform -----------------------------
(***************************************************************************)
(* What a column goes through on its way into _source: sanitize_for_arrow  *)
(* and normalize_timestamps_for_utc (spark_prep.py), then the rewrites of  *)
(* build_ndjson and to_json (spark_serialize.py).                          *)
(*                                                                         *)
(* A rewrite is named by what it replaces: "timestamp" by normalize, "date" *)
(* (date and timestamp_ntz) and "float" by build_ndjson. The three walk a  *)
(* type the same way, except for map keys.                                 *)
(***************************************************************************)
EXTENDS SparkTypes

(* Mutant: one level deep                                                   *)
MutHas(rewrite, t) ==
    \E p \in {t} \cup ValueParts(t) : Kind(p) \in Leaves(rewrite)

RECURSIVE Has(_, _)
(* Does t contain what the rewrite replaces?                                *)
Has(rewrite, t) ==
    \/ Kind(t) \in Leaves(rewrite)
    \/ \E p \in ValueParts(t) : Has(rewrite, p)
    \/ rewrite # "date" /\ \E k \in KeyParts(t) : Has(rewrite, k)

TypeHasTimestamp(t) == Has("timestamp", t)
TypeHasDateOrNtz(t) == Has("date", t)
TypeHasFloat(t)     == Has("float", t)

RECURSIVE Rewrite(_, _, _)
(* A null stays null at every depth; map keys are left alone.               *)
Rewrite(rewrite, v, t) ==
    CASE v = Null         -> Null
      [] Kind(t) \in Leaves(rewrite) -> RewrittenLeaf(rewrite, v)
      [] Kind(t) = "struct" ->
            <<"struct", [i \in DOMAIN v[2] |->
                 LET ft == t[2][i][2] IN
                 IF Has(rewrite, ft) THEN Rewrite(rewrite, v[2][i], ft) ELSE v[2][i]]>>
      [] Kind(t) = "array" ->
            <<"array", [i \in DOMAIN v[2] |-> Rewrite(rewrite, v[2][i], t[2])]>>
      [] Kind(t) = "map" ->
            <<"map", [i \in DOMAIN v[2] |-> <<v[2][i][1], Rewrite(rewrite, v[2][i][2], t[3])>>]>>
      [] OTHER -> v

RewriteTimestamps(v, t) == Rewrite("timestamp", v, t)
RewriteDateNtz(v, t)    == Rewrite("date", v, t)
NullNonfinite(v, t)     == Rewrite("float", v, t)

RECURSIVE RewrittenType(_, _)
(* The type of what Rewrite builds.                                         *)
RewrittenType(rewrite, t) ==
    CASE Kind(t) \in Leaves(rewrite) -> IF rewrite = "float" THEN t ELSE <<"long">>
      [] Kind(t) = "struct" ->
            <<"struct", [i \in DOMAIN t[2] |-> <<t[2][i][1], RewrittenType(rewrite, t[2][i][2])>>]>>
      [] Kind(t) = "array"  -> <<"array", RewrittenType(rewrite, t[2])>>
      [] Kind(t) = "map"    -> <<"map", t[2], RewrittenType(rewrite, t[3])>>
      [] OTHER -> t

RECURSIVE EpochStructType(_)
(* The type _rewrite_timestamps gives the null of a struct: keys as well.   *)
EpochStructType(t) ==
    CASE Kind(t) = "timestamp" -> <<"long">>
      [] Kind(t) = "struct" ->
            <<"struct", [i \in DOMAIN t[2] |-> <<t[2][i][1], EpochStructType(t[2][i][2])>>]>>
      [] Kind(t) = "array"  -> <<"array", EpochStructType(t[2])>>
      [] Kind(t) = "map"    -> <<"map", EpochStructType(t[2]), EpochStructType(t[3])>>
      [] OTHER -> t

RECURSIVE EpochType(_)
(* The type _rewrite_date_ntz gives it: the key is left unchanged.          *)
EpochType(t) ==
    CASE Kind(t) \in {"date", "timestamp_ntz"} -> <<"long">>
      [] Kind(t) = "struct" ->
            <<"struct", [i \in DOMAIN t[2] |-> <<t[2][i][1], EpochType(t[2][i][2])>>]>>
      [] Kind(t) = "array"  -> <<"array", EpochType(t[2])>>
      [] Kind(t) = "map"    -> <<"map", t[2], EpochType(t[3])>>
      [] OTHER -> t

NullStructType(rewrite, t) == IF rewrite = "timestamp" THEN EpochStructType(t) ELSE EpochType(t)

RECURSIVE OneTypePerBranch(_, _)
(* Spark analyses when(null, null struct).otherwise(rebuilt) only if both   *)
(* branches have one type, at every struct that is rebuilt.                 *)
OneTypePerBranch(rewrite, t) ==
    Has(rewrite, t) =>
        /\ Kind(t) = "struct" => NullStructType(rewrite, t) = RewrittenType(rewrite, t)
        /\ \A p \in ValueParts(t) : OneTypePerBranch(rewrite, p)

-----------------------------------------------------------------------------
(* sanitize_for_arrow                                                       *)

RECURSIVE TypeIsArrowHostile(_)
TypeIsArrowHostile(t) ==
    \/ Kind(t) \in {"variant", "interval"}
    \/ \E p \in ValueParts(t) \cup KeyParts(t) : TypeIsArrowHostile(p)

IsScalarIntervalType(t) == Kind(t) = "interval"

(* cast(... as string) for an interval, to_json of the column for the rest. *)
Sanitized(v, t) ==
    CASE v = Null -> Null
      [] IsScalarIntervalType(t) -> <<"string", <<"interval", v[2]>>>>
      [] OTHER -> <<"string", <<"json", v>>>>

-----------------------------------------------------------------------------
(* External: to_json. JSON is <<"null">>, a scalar, <<"list", <<...>>>> or  *)
(* <<"obj", <<<<text, json>>, ...>>>>.                                      *)

KeyText(k) == IF k[1] = "string" THEN k[2] ELSE <<"text", k>>

RECURSIVE ToJson(_, _)
ToJson(v, t) ==
    CASE v = Null -> Null
      [] Kind(t) = "struct" ->
            <<"obj", [i \in DOMAIN v[2] |-> <<t[2][i][1], ToJson(v[2][i], t[2][i][2])>>]>>
      [] Kind(t) = "array" -> <<"list", [i \in DOMAIN v[2] |-> ToJson(v[2][i], t[2])]>>
      [] Kind(t) = "map" ->
            <<"obj", [i \in DOMAIN v[2] |-> <<KeyText(v[2][i][1]), ToJson(v[2][i][2], t[3])>>]>>
      [] OTHER -> ScalarToJson(v, Kind(t))

(* One payload column of build_ndjson: dates before floats.                 *)
SourceExpr(v, t) ==
    LET dated == IF TypeHasDateOrNtz(t) THEN RewriteDateNtz(v, t) ELSE v
    IN  IF TypeHasFloat(t) THEN NullNonfinite(dated, t) ELSE dated

=============================================================================
