------------------------------- MODULE SumProofs -------------------------------
(***************************************************************************)
(* Laws of SumFunctionOnSet, the sum of a function over a finite set, of   *)
(* counting by summing, and of the totals of Counts. They rest on one      *)
(* principle of induction, stated for a set of sets instead of a predicate *)
(* on sets: a fold is recursive data, and this is how it is reasoned about *)
(* without instantiating an operator.                                      *)
(***************************************************************************)
EXTENDS Counts, FiniteSetTheorems, WellFoundedInduction, TLAPS

(* What holds of a set when it holds of its proper subsets holds of every  *)
(* finite set.                                                             *)
LEMMA SetDescent ==
    ASSUME NEW S, IsFiniteSet(S), NEW G,
           \A T \in SUBSET S : (\A U \in (SUBSET T) \ {T} : U \in G) => T \in G
    PROVE  \A T \in SUBSET S : T \in G
<1> DEFINE Bad == {T \in SUBSET S : T \notin G}
<1> SUFFICES ASSUME Bad # {} PROVE FALSE
    OBVIOUS
<1>1. Bad \subseteq FiniteSubsetsOf(S)
    BY FS_Subset DEF FiniteSubsetsOf
<1>2. PICK T \in Bad : \A U \in Bad : <<U, T>> \notin StrictSubsetOrdering(S)
    <2> HIDE DEF Bad
    <2>1. IsWellFoundedOn(StrictSubsetOrdering(S), FiniteSubsetsOf(S))
        BY FS_StrictSubsetOrderingWellFounded
    <2>2. QED
        BY <1>1, <2>1, WFMin
<1>3. PICK U \in (SUBSET T) \ {T} : U \notin G
    BY <1>2
<1>4. QED
    BY <1>2, <1>3 DEF StrictSubsetOrdering

(* What holds of the empty set, and of every set with one element more,    *)
(* holds of every finite set.                                              *)
LEMMA SetInduction ==
    ASSUME NEW S, IsFiniteSet(S), NEW G, {} \in G,
           \A T \in SUBSET S : \A x \in S \ T : T \in G => T \cup {x} \in G
    PROVE  \A T \in SUBSET S : T \in G
<1>1. ASSUME NEW T \in SUBSET S, \A U \in (SUBSET T) \ {T} : U \in G PROVE T \in G
    <2>1. CASE T = {}
        BY <2>1
    <2>2. ASSUME NEW x \in T PROVE T \in G
        <3>1. T \ {x} \in G /\ T = (T \ {x}) \cup {x} /\ x \in S \ (T \ {x})
            BY <1>1
        <3>2. QED
            BY <3>1
    <2>3. QED
        BY <2>1, <2>2
<1>2. QED
    BY <1>1, SetDescent

(* The same for natural numbers *)
LEMMA NatSetInduction ==
    ASSUME NEW G, 0 \in G, \A n \in Nat : n \in G => n + 1 \in G
    PROVE  \A n \in Nat : n \in G
<1> DEFINE Bad == {n \in Nat : n \notin G}
<1> SUFFICES ASSUME Bad # {} PROVE FALSE
    OBVIOUS
<1>1. PICK n \in Bad : \A m \in Bad : <<m, n>> \notin OpToRel(<, Nat)
    BY NatLessThanWellFounded, WFMin
<1>2. n - 1 \in Nat /\ n - 1 < n /\ (n - 1) + 1 = n
    <2>1. n \in Nat /\ n # 0
        BY <1>1
    <2>2. QED
        BY <2>1
<1>3. <<n - 1, n>> \in OpToRel(<, Nat)
    BY <1>1, <1>2 DEF OpToRel
<1>4. QED
    BY <1>1, <1>2, <1>3

LEMMA DisjointUnion ==
    ASSUME NEW S, IsFiniteSet(S), NEW T, IsFiniteSet(T), S \cap T = {}
    PROVE  /\ IsFiniteSet(S \cup T)
           /\ Cardinality(S \cup T) = Cardinality(S) + Cardinality(T)
<1>1. Cardinality(S) \in Nat /\ Cardinality(T) \in Nat /\ Cardinality(S \cap T) = 0
    BY FS_CardinalityType, FS_EmptySet
<1>2. /\ IsFiniteSet(S \cup T)
      /\ Cardinality(S \cup T) = Cardinality(S) + Cardinality(T) - Cardinality(S \cap T)
    BY FS_Union
<1> DEFINE s == Cardinality(S)
           t == Cardinality(T)
<1>3. s \in Nat /\ t \in Nat /\ Cardinality(S \cup T) = s + t - 0
    BY <1>1, <1>2
<1> HIDE DEF s, t
<1>4. Cardinality(S \cup T) = s + t
    BY <1>3
<1>5. QED
    BY <1>2, <1>4 DEF s, t

-----------------------------------------------------------------------------
(* Sums. Counted as units, the sum needs no recursion; the fold agrees.    *)

NatOn(f, S) == \A x \in S : f[x] \in Nat

Units(f, S) == UNION {{x} \X (1..f[x]) : x \in S}

LEMMA UnitsOfOne ==
    ASSUME NEW x, NEW n \in Nat
    PROVE  IsFiniteSet({x} \X (1..n)) /\ Cardinality({x} \X (1..n)) = n
<1>1. IsFiniteSet(1..n) /\ Cardinality(1..n) = n
    BY FS_Interval
<1>2. IsFiniteSet({x}) /\ Cardinality({x}) = 1
    BY FS_Singleton
<1>3. QED
    BY <1>1, <1>2, FS_Product

LEMMA UnitsAdd ==
    ASSUME NEW f, NEW T, NEW x, x \notin T, f[x] \in Nat, IsFiniteSet(Units(f, T))
    PROVE  /\ IsFiniteSet(Units(f, T \cup {x}))
           /\ Cardinality(Units(f, T \cup {x})) = Cardinality(Units(f, T)) + f[x]
<1>1. Units(f, T \cup {x}) = Units(f, T) \cup ({x} \X (1..f[x]))
    BY DEF Units
<1>2. Units(f, T) \cap ({x} \X (1..f[x])) = {}
    BY DEF Units
<1>3. IsFiniteSet({x} \X (1..f[x])) /\ Cardinality({x} \X (1..f[x])) = f[x]
    BY UnitsOfOne
<1>4. /\ IsFiniteSet(Units(f, T) \cup ({x} \X (1..f[x])))
      /\ Cardinality(Units(f, T) \cup ({x} \X (1..f[x])))
            = Cardinality(Units(f, T)) + Cardinality({x} \X (1..f[x]))
    BY <1>2, <1>3, DisjointUnion
<1>5. QED
    BY <1>1, <1>3, <1>4

LEMMA UnitsFinite ==
    ASSUME NEW f, NEW S, IsFiniteSet(S), NatOn(f, S)
    PROVE  \A T \in SUBSET S : IsFiniteSet(Units(f, T))
<1> DEFINE G == {T \in SUBSET S : IsFiniteSet(Units(f, T))}
<1>1. {} \in G
    BY FS_EmptySet DEF Units
<1>2. \A T \in SUBSET S : \A x \in S \ T : T \in G => T \cup {x} \in G
    BY UnitsAdd DEF NatOn
<1> HIDE DEF G
<1>3. \A T \in SUBSET S : T \in G
    BY <1>1, <1>2, SetInduction
<1>4. QED
    BY <1>3 DEF G

Sums(f, S, it) ==
    it = [s \in SUBSET S |-> IF s = {} THEN 0
                             ELSE f[CHOOSE x \in s : TRUE] + it[s \ {CHOOSE x \in s : TRUE}]]

LEMMA SumUnfold ==
    ASSUME NEW f, NEW S
    PROVE  SumFunctionOnSet(f, S) = (CHOOSE it : Sums(f, S, it))[S]
BY DEF SumFunctionOnSet, FoldFunctionOnSet, MapThenFoldSet, Sums

LEMMA UnitsSum ==
    ASSUME NEW f, NEW S, IsFiniteSet(S), NatOn(f, S)
    PROVE  Sums(f, S, [s \in SUBSET S |-> Cardinality(Units(f, s))])
<1>1. Units(f, {}) = {}
    BY DEF Units
<1>2. ASSUME NEW s \in SUBSET S, s # {}
      PROVE  LET x == CHOOSE y \in s : TRUE
             IN  Cardinality(Units(f, s)) = f[x] + Cardinality(Units(f, s \ {x}))
    <2>1. PICK x \in s : x = CHOOSE y \in s : TRUE
        BY <1>2
    <2>2. x \notin s \ {x} /\ s = (s \ {x}) \cup {x} /\ f[x] \in Nat /\ s \ {x} \in SUBSET S
        BY DEF NatOn
    <2>3. IsFiniteSet(Units(f, s \ {x}))
        BY <2>2, UnitsFinite
    <2>4. Cardinality(Units(f, s)) = Cardinality(Units(f, s \ {x})) + f[x]
        BY <2>2, <2>3, UnitsAdd
    <2>5. QED
        BY <2>1, <2>2, <2>3, <2>4, FS_CardinalityType
<1>3. QED
    BY <1>1, <1>2, FS_EmptySet DEF Sums

(* The sum of f over S is the number of units. *)
LEMMA SumIsUnits ==
    ASSUME NEW f, NEW S, IsFiniteSet(S), NatOn(f, S)
    PROVE  /\ SumFunctionOnSet(f, S) = Cardinality(Units(f, S))
           /\ SumFunctionOnSet(f, S) \in Nat
<1>1. PICK it : Sums(f, S, it) /\ SumFunctionOnSet(f, S) = it[S]
    BY UnitsSum, SumUnfold
<1> DEFINE G == {T \in SUBSET S : it[T] = Cardinality(Units(f, T))}
           g == [s \in SUBSET S |-> Cardinality(Units(f, s))]
<1>2. ASSUME NEW T \in SUBSET S, \A U \in (SUBSET T) \ {T} : U \in G PROVE T \in G
    <2>1. Sums(f, S, g)
        BY UnitsSum
    <2>2. CASE T = {}
        BY <1>1, <2>1, <2>2 DEF Sums
    <2>3. CASE T # {}
        <3>1. PICK x \in T : x = CHOOSE y \in T : TRUE
            BY <2>3
        <3>2. T \ {x} \in G
            BY <1>2, <3>1
        <3>3. it[T] = f[x] + it[T \ {x}]
            BY <1>1, <2>3, <3>1 DEF Sums
        <3>4. g[T] = f[x] + g[T \ {x}]
            BY <2>1, <2>3, <3>1 DEF Sums
        <3>5. QED
            BY <3>2, <3>3, <3>4
    <2>4. QED
        BY <2>2, <2>3
<1> HIDE DEF G, g
<1>3. S \in G
    BY <1>2, SetDescent
<1>4. QED
    BY <1>1, <1>3, UnitsFinite, FS_CardinalityType DEF G

-----------------------------------------------------------------------------
(* The laws that the proofs about the models cite *)

LEMMA SumNat ==
    ASSUME NEW f, NEW S, IsFiniteSet(S), NatOn(f, S)
    PROVE  SumFunctionOnSet(f, S) \in Nat
BY SumIsUnits

LEMMA SumEmpty ==
    ASSUME NEW f PROVE SumFunctionOnSet(f, {}) = 0
<1>1. IsFiniteSet({}) /\ Cardinality({}) = 0 /\ NatOn(f, {}) /\ Units(f, {}) = {}
    BY FS_EmptySet DEF NatOn, Units
<1>2. QED
    BY <1>1, SumIsUnits

(* Only the values on the set matter. *)
LEMMA SumEqual ==
    ASSUME NEW f, NEW g, NEW S, IsFiniteSet(S), NatOn(f, S), \A x \in S : f[x] = g[x]
    PROVE  SumFunctionOnSet(f, S) = SumFunctionOnSet(g, S)
<1>1. Units(f, S) = Units(g, S) /\ NatOn(g, S)
    BY DEF Units, NatOn
<1>2. QED
    BY <1>1, SumIsUnits

LEMMA SumAdd ==
    ASSUME NEW f, NEW S, IsFiniteSet(S), NatOn(f, S), NEW x, x \notin S, f[x] \in Nat
    PROVE  SumFunctionOnSet(f, S \cup {x}) = SumFunctionOnSet(f, S) + f[x]
<1>1. IsFiniteSet(S \cup {x}) /\ NatOn(f, S \cup {x})
    BY FS_AddElement DEF NatOn
<1>2. IsFiniteSet(Units(f, S))
    BY UnitsFinite
<1>3. Cardinality(Units(f, S \cup {x})) = Cardinality(Units(f, S)) + f[x]
    BY <1>2, UnitsAdd
<1>4. QED
    BY <1>1, <1>3, SumIsUnits

LEMMA SumRemove ==
    ASSUME NEW f, NEW S, IsFiniteSet(S), NatOn(f, S), NEW x \in S
    PROVE  SumFunctionOnSet(f, S) = SumFunctionOnSet(f, S \ {x}) + f[x]
<1>1. IsFiniteSet(S \ {x}) /\ NatOn(f, S \ {x}) /\ f[x] \in Nat
    BY FS_RemoveElement DEF NatOn
<1>2. S = (S \ {x}) \cup {x} /\ x \notin S \ {x}
    OBVIOUS
<1>3. QED
    BY <1>1, <1>2, SumAdd

LEMMA SumMonotone ==
    ASSUME NEW f, NEW g, NEW S, IsFiniteSet(S), NatOn(f, S), NatOn(g, S),
           \A x \in S : f[x] <= g[x]
    PROVE  SumFunctionOnSet(f, S) <= SumFunctionOnSet(g, S)
<1>1. Units(f, S) \in SUBSET Units(g, S)
    BY DEF Units, NatOn
<1>2. IsFiniteSet(Units(g, S))
    BY UnitsFinite
<1>3. QED
    BY <1>1, <1>2, FS_Subset, SumIsUnits

(* The sum over a set, from the sums over a part and the rest *)
LEMMA SumParts ==
    ASSUME NEW f, NEW S, IsFiniteSet(S), NatOn(f, S), NEW D \in SUBSET S
    PROVE  SumFunctionOnSet(f, S) = SumFunctionOnSet(f, S \ D) + SumFunctionOnSet(f, D)
<1>1. Units(f, S) = Units(f, S \ D) \cup Units(f, D) /\ Units(f, S \ D) \cap Units(f, D) = {}
    BY DEF Units
<1>2. IsFiniteSet(D) /\ IsFiniteSet(S \ D) /\ NatOn(f, D) /\ NatOn(f, S \ D)
    BY FS_Subset DEF NatOn
<1>3. IsFiniteSet(Units(f, D)) /\ IsFiniteSet(Units(f, S \ D))
    BY <1>2, UnitsFinite
<1>4. Cardinality(Units(f, S)) = Cardinality(Units(f, S \ D)) + Cardinality(Units(f, D))
    BY <1>1, <1>3, DisjointUnion
<1>5. QED
    BY <1>2, <1>4, SumIsUnits

LEMMA SumZero ==
    ASSUME NEW f, NEW S, IsFiniteSet(S), NatOn(f, S)
    PROVE  SumFunctionOnSet(f, S) = 0 <=> \A x \in S : f[x] = 0
<1>1. ASSUME NEW x \in S, SumFunctionOnSet(f, S) = 0 PROVE f[x] = 0
    <2>1. SumFunctionOnSet(f, S) = SumFunctionOnSet(f, S \ {x}) + f[x]
        BY SumRemove
    <2>2. IsFiniteSet(S \ {x}) /\ NatOn(f, S \ {x}) /\ f[x] \in Nat
        BY FS_RemoveElement DEF NatOn
    <2>3. SumFunctionOnSet(f, S \ {x}) \in Nat
        BY <2>2, SumNat
    <2>4. QED
        BY <1>1, <2>1, <2>2, <2>3
<1>2. ASSUME \A x \in S : f[x] = 0 PROVE SumFunctionOnSet(f, S) = 0
    <2>1. Units(f, S) = {}
        BY <1>2 DEF Units
    <2>2. QED
        BY <2>1, SumIsUnits, FS_EmptySet
<1>3. QED
    BY <1>1, <1>2

(* Where the greater function sums to no more, it is nowhere greater. *)
LEMMA SumTight ==
    ASSUME NEW f, NEW g, NEW S, IsFiniteSet(S), NatOn(f, S), NatOn(g, S),
           \A x \in S : f[x] <= g[x], SumFunctionOnSet(g, S) <= SumFunctionOnSet(f, S),
           NEW x \in S
    PROVE  f[x] = g[x]
<1> DEFINE R == S \ {x}
<1>1. IsFiniteSet(R) /\ NatOn(f, R) /\ NatOn(g, R) /\ \A y \in R : f[y] <= g[y]
    BY FS_RemoveElement DEF NatOn
<1>2. /\ SumFunctionOnSet(f, S) = SumFunctionOnSet(f, R) + f[x]
      /\ SumFunctionOnSet(g, S) = SumFunctionOnSet(g, R) + g[x]
    BY SumRemove
<1> HIDE DEF R
<1>3. /\ SumFunctionOnSet(f, R) \in Nat /\ SumFunctionOnSet(g, R) \in Nat
      /\ SumFunctionOnSet(f, R) <= SumFunctionOnSet(g, R)
    BY <1>1, SumNat, SumMonotone
<1>4. f[x] \in Nat /\ g[x] \in Nat /\ f[x] <= g[x]
    BY DEF NatOn
<1>5. QED
    BY <1>2, <1>3, <1>4

(* Sums add up. *)
LEMMA SumPlus ==
    ASSUME NEW f, NEW g, NEW h, NEW S, IsFiniteSet(S), NatOn(f, S), NatOn(g, S),
           \A x \in S : h[x] = f[x] + g[x]
    PROVE  /\ NatOn(h, S)
           /\ SumFunctionOnSet(h, S) = SumFunctionOnSet(f, S) + SumFunctionOnSet(g, S)
<1> DEFINE G == {T \in SUBSET S :
                    SumFunctionOnSet(h, T) = SumFunctionOnSet(f, T) + SumFunctionOnSet(g, T)}
<1>0. NatOn(h, S)
    BY DEF NatOn
<1>1. {} \in G
    BY SumEmpty
<1>2. ASSUME NEW T \in SUBSET S, NEW x \in S \ T, T \in G PROVE T \cup {x} \in G
    <2>1. IsFiniteSet(T) /\ NatOn(f, T) /\ NatOn(g, T) /\ NatOn(h, T)
        BY <1>0, FS_Subset DEF NatOn
    <2>2. f[x] \in Nat /\ g[x] \in Nat /\ h[x] \in Nat /\ h[x] = f[x] + g[x]
        BY <1>0 DEF NatOn
    <2>3. /\ SumFunctionOnSet(f, T \cup {x}) = SumFunctionOnSet(f, T) + f[x]
          /\ SumFunctionOnSet(g, T \cup {x}) = SumFunctionOnSet(g, T) + g[x]
          /\ SumFunctionOnSet(h, T \cup {x}) = SumFunctionOnSet(h, T) + h[x]
        BY <2>1, <2>2, SumAdd
    <2>4. SumFunctionOnSet(f, T) \in Nat /\ SumFunctionOnSet(g, T) \in Nat
        BY <2>1, SumNat
    <2>5. SumFunctionOnSet(h, T) = SumFunctionOnSet(f, T) + SumFunctionOnSet(g, T)
        BY <1>2
    <2>6. SumFunctionOnSet(h, T \cup {x})
              = SumFunctionOnSet(f, T \cup {x}) + SumFunctionOnSet(g, T \cup {x})
        BY <2>2, <2>3, <2>4, <2>5
    <2>7. QED
        BY <2>6
<1> HIDE DEF G
<1>3. \A T \in SUBSET S : T \in G
    BY <1>1, <1>2, SetInduction
<1>4. QED
    BY <1>0, <1>3 DEF G

(* n counts the parts into which part divides S. *)
CountsParts(n, S, part, P) ==
    \A p \in P : n[p] = Cardinality({x \in S : part[x] = p})

(* A set is counted by counting its parts. *)
LEMMA CountByParts ==
    ASSUME NEW S, IsFiniteSet(S), NEW P, IsFiniteSet(P), NEW part,
           \A x \in S : part[x] \in P, NEW n, CountsParts(n, S, part, P)
    PROVE  NatOn(n, P) /\ SumFunctionOnSet(n, P) = Cardinality(S)
<1> DEFINE In(Q) == {x \in S : part[x] \in Q}
           Of(p) == {x \in S : part[x] = p}
           G == {Q \in SUBSET P : SumFunctionOnSet(n, Q) = Cardinality(In(Q))}
<1>1. ASSUME NEW p \in P
      PROVE  IsFiniteSet(Of(p)) /\ Cardinality(Of(p)) \in Nat /\ n[p] = Cardinality(Of(p))
    BY FS_Subset, FS_CardinalityType DEF CountsParts
<1>2. NatOn(n, P)
    BY <1>1 DEF NatOn
<1>3. {} \in G
    BY SumEmpty, FS_EmptySet
<1>4. ASSUME NEW Q \in SUBSET P, NEW p \in P \ Q, Q \in G PROVE Q \cup {p} \in G
    <2>1. In(Q \cup {p}) = In(Q) \cup Of(p) /\ In(Q) \cap Of(p) = {}
        OBVIOUS
    <2>2. In(Q) \in SUBSET S /\ SumFunctionOnSet(n, Q) = Cardinality(In(Q))
        BY <1>4
    <2> HIDE DEF In, Of
    <2>3. IsFiniteSet(Q) /\ NatOn(n, Q) /\ n[p] = Cardinality(Of(p)) /\ n[p] \in Nat
        BY <1>1, <1>2, FS_Subset DEF NatOn
    <2>4. SumFunctionOnSet(n, Q \cup {p}) = SumFunctionOnSet(n, Q) + n[p]
        BY <2>3, SumAdd
    <2>5. IsFiniteSet(In(Q))
        BY <2>2, FS_Subset
    <2>6. Cardinality(In(Q \cup {p})) = Cardinality(In(Q)) + Cardinality(Of(p))
        <3>1. IsFiniteSet(Of(p))
            BY <1>1
        <3>2. Cardinality(In(Q) \cup Of(p)) = Cardinality(In(Q)) + Cardinality(Of(p))
            BY <2>1, <2>5, <3>1, DisjointUnion
        <3>3. QED
            BY <2>1, <3>2
    <2>7. SumFunctionOnSet(n, Q \cup {p}) = Cardinality(In(Q \cup {p}))
        BY <2>2, <2>3, <2>4, <2>6
    <2>8. QED
        BY <2>7
<1> HIDE DEF G
<1>5. P \in G
    BY <1>3, <1>4, SetInduction
<1>6. In(P) = S
    OBVIOUS
<1>7. QED
    BY <1>2, <1>5, <1>6 DEF G

-----------------------------------------------------------------------------
(* Totals *)

LEMMA AddCountAdds ==
    ASSUME NEW c \in Count, NEW d \in Count
    PROVE  /\ AddCount(c, d) \in Count
           /\ Accounted(AddCount(c, d)) = Accounted(c) + Accounted(d)
           /\ AddCount(c, d).errors = c.errors + d.errors
           /\ Accounted(c) \in Nat /\ c.errors \in Nat /\ c.errors <= Accounted(c)
BY DEF AddCount, Accounted, Count

LEMMA SumCountsAdds ==
    ASSUME NEW S, IsFiniteSet(S), NEW f, DOMAIN f = S, \A x \in S : f[x] \in Count
    PROVE  /\ SumCounts(f) \in Count
           /\ SumCounts(f).errors = SumFunction([x \in S |-> f[x].errors])
           /\ Accounted(SumCounts(f)) = SumFunction([x \in S |-> Accounted(f[x])])
<1> DEFINE w == [x \in S |-> f[x].written]
           d == [x \in S |-> f[x].deleted]
           i == [x \in S |-> f[x].ignored]
           e == [x \in S |-> f[x].errors]
           wd == [x \in S |-> f[x].written + f[x].deleted]
           wdi == [x \in S |-> f[x].written + f[x].deleted + f[x].ignored]
           a == [x \in S |-> Accounted(f[x])]
<1>1. NatOn(w, S) /\ NatOn(d, S) /\ NatOn(i, S) /\ NatOn(e, S)
    BY DEF Count, NatOn
<1>2. SumCounts(f) = [written |-> SumFunctionOnSet(w, S), deleted |-> SumFunctionOnSet(d, S),
                      ignored |-> SumFunctionOnSet(i, S), errors |-> SumFunctionOnSet(e, S)]
    BY DEF SumCounts, SumFunction
<1>3. /\ SumFunctionOnSet(w, S) \in Nat /\ SumFunctionOnSet(d, S) \in Nat
      /\ SumFunctionOnSet(i, S) \in Nat /\ SumFunctionOnSet(e, S) \in Nat
    <2> HIDE DEF w, d, i, e
    <2>1. QED
        BY <1>1, SumNat
<1>4. /\ \A x \in S : wd[x] = w[x] + d[x]
      /\ \A x \in S : wdi[x] = wd[x] + i[x]
      /\ \A x \in S : a[x] = wdi[x] + e[x]
    BY DEF Accounted
<1>5. SumFunction(a) = SumFunctionOnSet(a, S) /\ SumFunction(e) = SumFunctionOnSet(e, S)
    BY DEF SumFunction
<1> HIDE DEF w, d, i, e, wd, wdi, a
<1>6. NatOn(wd, S) /\ SumFunctionOnSet(wd, S) = SumFunctionOnSet(w, S) + SumFunctionOnSet(d, S)
    BY <1>1, <1>4, SumPlus
<1>7. NatOn(wdi, S) /\ SumFunctionOnSet(wdi, S) = SumFunctionOnSet(wd, S) + SumFunctionOnSet(i, S)
    BY <1>1, <1>4, <1>6, SumPlus
<1>8. SumFunctionOnSet(a, S) = SumFunctionOnSet(wdi, S) + SumFunctionOnSet(e, S)
    BY <1>1, <1>4, <1>7, SumPlus
<1>9. Accounted(SumCounts(f)) = SumFunctionOnSet(a, S)
    BY <1>2, <1>6, <1>7, <1>8 DEF Accounted
<1>10. SumCounts(f) \in Count /\ SumCounts(f).errors = SumFunctionOnSet(e, S)
    BY <1>2, <1>3 DEF Count
<1>11. SumCounts(f).errors = SumFunction(e) /\ Accounted(SumCounts(f)) = SumFunction(a)
    BY <1>5, <1>9, <1>10
<1>12. QED
    BY <1>10, <1>11 DEF e, a

LEMMA CappedBounds ==
    ASSUME NEW n \in Nat, NEW cap \in Nat \ {0}
    PROVE  Capped(n, cap) \in 0..cap /\ Capped(n, cap) <= n /\ (Capped(n, cap) > 0 <=> n > 0)
BY DEF Capped

=============================================================================
