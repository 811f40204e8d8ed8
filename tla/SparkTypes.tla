------------------------------- MODULE SparkTypes -------------------------------
(***************************************************************************)
(* Spark types and values as the connector walks them.                     *)
(*                                                                         *)
(* A type is <<leaf>>, <<"array", t>>, <<"map", key, value>> or            *)
(* <<"struct", <<<<name, t>>, ...>>>>. A value is a scalar,                *)
(* <<"array", <<v, ...>>>>, <<"map", <<<<key, v>>, ...>>>> or              *)
(* <<"struct", <<v, ...>>>>.                                               *)
(***************************************************************************)
EXTENDS Scalars, Sequences

Kind(t) == t[1]

Elements(t) == LET fields == t[2] IN {fields[i][2] : i \in DOMAIN fields}

(* The subtypes of a type: those in value position, and map keys.           *)
ValueParts(t) ==
    CASE Kind(t) = "array"  -> {t[2]}
      [] Kind(t) = "map"    -> {t[3]}
      [] Kind(t) = "struct" -> Elements(t)
      [] OTHER              -> {}

KeyParts(t) == IF Kind(t) = "map" THEN {t[2]} ELSE {}

RECURSIVE AnyKey(_, _)
(* Has a map in t a key outside of S?                                       *)
AnyKey(t, S) ==
    \/ \E k \in KeyParts(t) : k \notin S
    \/ \E p \in ValueParts(t) : AnyKey(p, S)

=============================================================================
