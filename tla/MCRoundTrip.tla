------------------------------ MODULE MCRoundTrip ------------------------------
(* Types two and three levels deep, small values and foreign fields for    *)
(* model-checking RoundTrip.                                               *)
EXTENDS RoundTrip

A == <<"a">>
B == <<"b">>

Leaf(S) == {<<s>> : s \in S}

Temporal == {"timestamp", "timestamp_ntz", "date"}

Struct(t, u) == <<"struct", <<<<A, t>>, <<B, u>>>>>>

Shallow ==
    LET L == Leaf(Temporal \cup {"double", "string"}) IN
    {<<"array", t>> : t \in L \cup Leaf({"variant"})}
    \cup {Struct(t, u) : t \in L, u \in Leaf({"timestamp", "double", "interval"})}
    \cup {<<"map", k, t>> : k \in Leaf({"string", "timestamp", "double"}), t \in L}

Deep ==
    LET S == Shallow \ {Struct(t, <<"interval">>) : t \in Leaf(Temporal)} IN
    {<<"array", t>> : t \in S} \cup {Struct(t, <<"date">>) : t \in S}
    \cup {<<"map", <<"string">>, t>> : t \in S}

MCTypes ==
    Leaf(Temporal \cup {"double", "string", "byte", "short", "int", "long", "decimal0", "decimal2",
                        "boolean", "binary", "variant", "interval"})
    \cup Shallow \cup Deep

(* A half millisecond before and after the epoch; numbers with and without  *)
(* a half.                                                                  *)
Samples(leaf) ==
    CASE leaf \in Temporal  -> {<<leaf, n>> : n \in {-1, 3}}
      [] leaf = "double"    -> {<<leaf, 3>>, <<"nonfinite">>}
      [] leaf = "boolean"   -> {<<leaf, TRUE>>, <<leaf, FALSE>>}
      [] leaf = "string"    -> {<<leaf, A>>}
      [] OTHER              -> {<<leaf, n>> : n \in {-128, 5}}

RECURSIVE MCValues(_)
MCValues(t) ==
    {Null} \cup
    CASE Kind(t) = "array" ->
            {<<"array", <<>>>>} \cup {<<"array", <<v>>>> : v \in MCValues(t[2])}
      [] Kind(t) = "struct" ->
            {<<"struct", <<v, w>>>> : v \in MCValues(t[2][1][2]), w \in MCValues(t[2][2][2])}
      [] Kind(t) = "map" ->
            {<<"map", <<>>>>}
            \cup {<<"map", <<<<k, v>>>>>> : k \in Samples(Kind(t[2])), v \in MCValues(t[3])}
      [] OTHER -> Samples(Kind(t))

MCValuesOf == [t \in MCTypes |-> MCValues(t)]

(* No types written, no fields of other indices.                            *)
NoTypes  == {}
NoFields == {}
NoValues == <<>>

MCNumericText  == (<<"1">> :> 1) @@ (<<"0">> :> 0) @@ (<<"300">> :> 300)
MCFractionText == (<<"2.0">> :> 4) @@ (<<"-3.5">> :> -7)

(* A word of four letters is the base64 of three bytes; hyphens are dropped. *)
MCLooseBase64 == (<<"true">> :> 7) @@ (<<"us-east-1a">> :> 8)

JsonScalars ==
    {<<"int", n>> : n \in {-129, -1, 0, 1, 127, 128, 32768, 65536, 131072}}
    \cup {<<"real", h>> : h \in {-1, 2, 3}}
    \cup {<<"bool", TRUE>>, <<"bool", FALSE>>}
    \cup {<<"str", s>> : s \in {A, <<"empty">>, <<"1">>, <<"300">>, <<"no">>, <<"t">>, <<"b64", 5>>}
                              \cup DOMAIN MCFractionText \cup DOMAIN MCLooseBase64}

OneKey(v)     == <<"obj", <<<<A, v>>>>>>
TwoKeys(v, w) == <<"obj", <<<<A, v>>, <<B, w>>>>>>
ListOf(v)     == <<"list", <<v>>>>

JsonContainers ==
    LET S == {<<"int", 300>>, <<"str", <<"no">>>>} IN
    {<<"list", <<>>>>}
    \cup {ListOf(v) : v \in S \cup {OneKey(w) : w \in S} \cup {TwoKeys(w, x) : w, x \in S}}
    \cup {<<"list", <<v, w>>>> : v, w \in S} \cup {ListOf(<<"list", <<v, w>>>>) : v, w \in S}
    \cup {OneKey(v) : v \in S \cup {Null, ListOf(<<"int", 1>>)}} \cup {TwoKeys(v, w) : v, w \in S}

DeclaredScalars ==
    Leaf(Temporal \cup {"byte", "short", "int", "long", "double", "decimal0", "boolean", "binary",
                        "string", "varchar"})

DeclaredTypes ==
    DeclaredScalars \cup {<<"array", t>> : t \in DeclaredScalars}
    \cup {Struct(t, u) : t \in Leaf({"string", "byte"}), u \in Leaf({"string"})}
    \cup {<<"map", k, t>> : k \in Leaf({"string", "long"}), t \in Leaf({"string", "byte"})}

MCForeign ==
    [source : {<<>>, <<Null>>} \cup {<<v>> : v \in JsonScalars \cup JsonContainers},
     is_id : {FALSE}, declared : DeclaredTypes]
    \cup [source : {<<>>, <<Null>>, <<<<"str", A>>>>}, is_id : {TRUE}, declared : DeclaredScalars]

(* Only those declared as structs or maps, or only those declared binary:  *)
(* in MCRoundTripObjects.cfg either one refutes MismatchRaises.            *)
MCObjectFields == {f \in MCForeign : HasObject(f.declared)}
MCBinaryFields == {f \in MCForeign : Kind(f.declared) = "binary"}

=============================================================================
