----------------------------- MODULE ReadTransform -----------------------------
(***************************************************************************)
(* The way back (read.py, read_transform.py): the declared type becomes a  *)
(* token, maps with other than string keys are refused, and read_coerce    *)
(* turns a JSON value into the value of the declared type, or raises (Bad). *)
(* Tokens have the shape of types, with Spark's simpleString for a leaf.   *)
(***************************************************************************)
EXTENDS SparkTypes, SequencesExt

RECURSIVE SparkTypeToken(_)
SparkTypeToken(t) ==
    CASE Kind(t) = "struct" ->
            <<"struct", [i \in DOMAIN t[2] |-> <<t[2][i][1], SparkTypeToken(t[2][i][2])>>]>>
      [] Kind(t) = "array" -> <<"array", SparkTypeToken(t[2])>>
      [] Kind(t) = "map"   -> <<"map", SparkTypeToken(t[2]), SparkTypeToken(t[3])>>
      [] OTHER -> <<SimpleString(Kind(t))>>

(* Mutant: nested maps are not looked at                                    *)
MutRejectNonStringMapKeys(token) == \E k \in KeyParts(token) : k # <<"string">>

RejectNonStringMapKeys(token) == AnyKey(token, {<<"string">>})

-----------------------------------------------------------------------------
(* Containers                                                               *)

TwoCharacters == <<"no">> :> <<<<"n">>, <<"o">>>>

(* dict(value) wants an object, nothing, or a list of pairs; an object with *)
(* two keys is a pair, and so is text of two characters.                    *)
IsPair(e) ==
    \/ e[1] = "obj" /\ Len(e[2]) = 2
    \/ e[1] = "list" /\ Len(e[2]) = 2 /\ ~IsContainer(e[2][1])
    \/ e[1] = "str" /\ e[2] \in DOMAIN TwoCharacters

AsPair(e) ==
    CASE e[1] = "obj"  -> <<e[2][1][1], <<"str", e[2][2][1]>>>>
      [] e[1] = "list" -> <<IF e[2][1][1] = "str" THEN e[2][1][2] ELSE <<"text", e[2][1]>>,
                            e[2][2]>>
      [] e[1] = "str"  -> <<TwoCharacters[e[2]][1], <<"str", TwoCharacters[e[2]][2]>>>>

CanBeDict(v) ==
    \/ v[1] = "obj" \/ v = EmptyText
    \/ v[1] = "list" /\ \A i \in DOMAIN v[2] : IsPair(v[2][i])

PyDict(v) ==
    CASE v[1] = "obj"  -> v[2]
      [] v[1] = "list" -> [i \in DOMAIN v[2] |-> AsPair(v[2][i])]
      [] v[1] = "str"  -> <<>>

(* src.get(name)                                                            *)
Get(pairs, name) ==
    LET at == {i \in DOMAIN pairs : pairs[i][1] = name}
    IN  IF at = {} THEN Null ELSE pairs[CHOOSE i \in at : \A j \in at : j <= i][2]

OrBad(tag, parts) == IF Bad \in ToSet(parts) THEN Bad ELSE <<tag, parts>>

RECURSIVE ReadCoerce(_, _)
ReadCoerce(v, token) ==
    CASE Kind(token) \in {"char", "varchar", "void"} -> Bad
      [] v = Null -> Null
      [] Kind(token) = "array" ->
            LET seq == IF v[1] = "list" THEN v[2] ELSE <<v>>
            IN  OrBad("array", [i \in DOMAIN seq |-> ReadCoerce(seq[i], token[2])])
      [] Kind(token) \in {"map", "struct"} /\ ~CanBeDict(v) -> Bad
      [] Kind(token) = "map" ->
            LET d == PyDict(v)
                values == [i \in DOMAIN d |-> ReadCoerce(d[i][2], token[3])]
            IN  IF Bad \in ToSet(values) THEN Bad
                ELSE <<"map", [i \in DOMAIN d |-> <<<<"string", d[i][1]>>, values[i]>>]>>
      [] Kind(token) = "struct" ->
            OrBad("struct", [i \in DOMAIN token[2] |->
                ReadCoerce(Get(PyDict(v), token[2][i][1]), token[2][i][2])])
      [] OTHER -> CoerceScalar(v, Kind(token))

(* A field of a hit that _source leaves out is null, or the _id if it is    *)
(* declared as the id. An id is text.                                       *)
CoerceHit(source, is_id, doc_id, token) ==
    IF source = <<>>
    THEN IF is_id THEN ReadCoerce(<<"str", doc_id>>, token) ELSE ReadCoerce(Null, token)
    ELSE ReadCoerce(source[1], token)

=============================================================================
