--------------------------- MODULE ShipChunkProofs ---------------------------
(***************************************************************************)
(* Proofs about ShipChunk, for every chunk, configuration and set of       *)
(* refusals: where each line ends up, what the counts say of it, and how   *)
(* many requests that may take.                                            *)
(***************************************************************************)
EXTENDS ShipChunk, FiniteSetTheorems, TLAPS

(* Subsets of the chunk are finite and their sizes are naturals. *)
LEMMA LinesFinite ==
    ASSUME NEW S \in SUBSET Lines
    PROVE  IsFiniteSet(S) /\ Cardinality(S) \in Nat
<1>1. IsFiniteSet(Lines)
    BY ShipAssumption, FS_Interval DEF Lines
<1>2. IsFiniteSet(S)
    BY <1>1, FS_Subset
<1>3. QED
    BY <1>2, FS_CardinalityType

(* A configuration in use has passed validation. *)
LEMMA ConfigAccepted ==
    ASSUME TypeOK
    PROVE  cfg \in WriteConfig /\ Accepted(cfg)
BY ShipAssumption DEF TypeOK

(* Every line carries an index, a create or a delete. *)
LEMMA OpsKnown ==
    ASSUME TypeOK, NEW l \in Lines
    PROVE  /\ op[l] \in Ops
           /\ op[l] \in RowOps(cfg)
BY ConfigAccepted DEF TypeOK, RowOps, Accepted, Ops

(* Executing lines leaves a document count for every line. *)
LEMMA ApplyTyped ==
    ASSUME TypeOK, NEW E, Apply(E)
    PROVE  docs' \in [Lines -> 0..MaxDocs]
<1>1. ASSUME NEW l \in Lines, NEW n \in 0..MaxDocs
      PROVE  After(l, n) \in 0..MaxDocs
    BY ShipAssumption DEF After, Capped
<1>2. QED
    BY <1>1 DEF Apply, TypeOK

(* The counts of a round are counts. *)
LEMMA TallyTyped ==
    ASSUME TypeOK, NEW st, NEW D \in SUBSET Lines
    PROVE  /\ TallyOf(st, D) \in Count
           /\ \A o \in Outcomes : Cardinality(Having(st, D, o)) \in Nat
<1>1. \A o \in Outcomes : Having(st, D, o) \in SUBSET Lines
    BY DEF Having
<1>2. \A o \in Outcomes : Cardinality(Having(st, D, o)) \in Nat
    BY <1>1, LinesFinite
<1>3. \A o \in {"written", "deleted", "ignored", "errors"} :
          Cardinality(Having(st, D, o)) \in Nat
    BY <1>2 DEF Outcomes
<1>4. counts \in Count
    BY DEF TypeOK
<1>5. QED
    BY <1>2, <1>3, <1>4 DEF TallyOf, Count

(* The diagnostics of a round are numbers. *)
LEMMA DiagTyped ==
    ASSUME TypeOK, NEW st, NEW D \in SUBSET Lines, NEW R \in SUBSET Lines
    PROVE  DiagOf(st, D, R) \in [DiagKeys -> Nat]
<1>1. Deduped(st, D \ R) \in SUBSET Lines
    BY DEF Deduped
<1>2. ASSUME NEW k PROVE InBucket(st, D, k) \in SUBSET Lines
    BY DEF InBucket
<1>3. ASSUME NEW k \in DiagKeys
      PROVE  Cardinality(IF k = "docs_retried" THEN R
                         ELSE IF k = "docs_deduped" THEN Deduped(st, D \ R)
                         ELSE InBucket(st, D, k)) \in Nat
    <2>1. CASE k = "docs_retried"
        BY <2>1, LinesFinite
    <2>2. CASE k # "docs_retried" /\ k = "docs_deduped"
        BY <2>2, <1>1, LinesFinite
    <2>3. CASE k # "docs_retried" /\ k # "docs_deduped"
        <3>1. Cardinality(InBucket(st, D, k)) \in Nat
            BY <1>2, LinesFinite
        <3>2. QED BY <3>1, <2>3
    <2>4. QED BY <2>1, <2>2, <2>3
<1>4. diag \in [DiagKeys -> Nat]
    BY DEF TypeOK
<1>5. QED
    BY <1>3, <1>4 DEF DiagOf

LEMMA InitTyped == Init => TypeOK
<1> SUFFICES ASSUME Init PROVE TypeOK
    OBVIOUS
<1>1. cfg \in WriteConfig /\ Accepted(cfg) /\ cfg \in Configs
    BY ShipAssumption DEF Init, FirstPhase
<1>2. before \in [Lines -> {0, 1}] /\ docs \in [Lines -> 0..MaxDocs]
    BY ShipAssumption DEF Init, FirstPhase
<1>3. /\ attempt \in 0..cfg.max_retries_per_doc
      /\ resends \in 0..cfg.transport_max_retries
      /\ http \in 0..cfg.transport_max_retries
    BY <1>1 DEF Init, FirstPhase, Accepted, ConnectionAccepted, WriteConfig
<1>4. counts \in Count /\ samples \in 0..SampleCap /\ diag \in [DiagKeys -> Nat]
    BY ShipAssumption DEF Init, FirstPhase, NoCount, Count
<1>5. malformed \in BOOLEAN
    BY ShipAssumption DEF Init
<1>6. QED
    BY <1>1, <1>2, <1>3, <1>4, <1>5 DEF Init, FirstPhase, TypeOK

LEMMA StepTyped == TypeOK /\ [Next]_vars => TypeOK'
<1> SUFFICES ASSUME TypeOK, [Next]_vars PROVE TypeOK'
    OBVIOUS
<1> USE ShipAssumption
<1>0. cfg \in WriteConfig /\ Accepted(cfg)
    BY ConfigAccepted
<1>00. /\ cfg.transport_max_retries \in Nat /\ cfg.max_retries_per_doc \in Nat
       /\ samples \in Nat /\ SampleCap \in Nat
    BY <1>0 DEF WriteConfig, Accepted, ConnectionAccepted, TypeOK
<1>1. ASSUME NEW loss \in Losses, TransportResend(loss) PROVE TypeOK'
    <2>1. docs' \in [Lines -> 0..MaxDocs]
        BY <1>1, ApplyTyped DEF TransportResend, Lose
    <2>2. http' \in 0..cfg.transport_max_retries
        BY <1>1, <1>00 DEF TransportResend, ClientRaises, Losses, TypeOK
    <2>3. timeouts' \in Nat
        BY <1>1 DEF TransportResend, TypeOK
    <2>4. QED
        BY <2>1, <2>2, <2>3, <1>1 DEF TransportResend, Lose, env, tally, TypeOK
<1>2. ASSUME NEW loss \in Losses, ConnectorResend(loss) PROVE TypeOK'
    <2>1. docs' \in [Lines -> 0..MaxDocs]
        BY <1>2, ApplyTyped DEF ConnectorResend, Lose
    <2>2. /\ resends' \in 0..cfg.transport_max_retries
          /\ http' \in 0..cfg.transport_max_retries
          /\ timeouts' \in Nat
        BY <1>2, <1>00 DEF ConnectorResend, ConnectorCatches, TypeOK
    <2>3. QED
        BY <2>1, <2>2, <1>2 DEF ConnectorResend, Lose, env, tally, TypeOK
<1>3. ASSUME NEW loss \in Losses, FailClosed(loss) PROVE TypeOK'
    <2>1. docs' \in [Lines -> 0..MaxDocs]
        BY <1>3, ApplyTyped DEF FailClosed, CountPending, Lose
    <2>2. counts' \in Count
        <3>1. Cardinality(pending) \in Nat
            BY LinesFinite DEF TypeOK
        <3>2. QED BY <3>1, <1>3 DEF FailClosed, CountPending, Count, TypeOK
    <2>3. samples' \in 0..SampleCap /\ timeouts' \in Nat
        BY <1>3, <1>00 DEF FailClosed, CountPending, Capped, TypeOK
    <2>4. QED
        BY <2>1, <2>2, <2>3, <1>3 DEF FailClosed, CountPending, Lose, env, TypeOK
<1>4. CASE ProbeAnswered
    <2>1. docs' \in [Lines -> 0..MaxDocs]
        BY <1>4, ApplyTyped DEF ProbeAnswered, Reship
    <2>2. /\ counts' \in Count /\ pending' \in SUBSET Lines /\ phase' \in {"full", "done"}
          /\ resends' \in 0..cfg.transport_max_retries
          /\ http' \in 0..cfg.transport_max_retries
          /\ timeouts' \in Nat /\ unknown' \in BOOLEAN
        BY <1>4, <1>00 DEF ProbeAnswered, Reship, Count, NewSend, sending, TypeOK
    <2>3. QED
        BY <2>1, <2>2, <1>4 DEF ProbeAnswered, Reship, env, TypeOK
<1>5. CASE FullAnswered
    <2>1. PICK st \in Answers, D \in Itemized :
              /\ \E E \in Effects(st) : Apply(E)
              /\ unknown' = (unknown \/ Unclear(st) # {})
              /\ counts' = TallyOf(st, D \ Retries(st, D))
              /\ samples' = Capped(samples
                     + Cardinality(Having(st, D \ Retries(st, D), "errors")), SampleCap)
              /\ diag' = DiagOf(st, D, Retries(st, D))
              /\ NextRound(Retries(st, D))
        BY <1>5 DEF FullAnswered
    <2> DEFINE R == Retries(st, D)
    <2>2. D \in SUBSET Lines /\ R \in SUBSET Lines /\ D \ R \in SUBSET Lines
        BY DEF Itemized, Retries, TypeOK
    <2>3. docs' \in [Lines -> 0..MaxDocs]
        BY <2>1, ApplyTyped
    <2>4. counts' \in Count /\ diag' \in [DiagKeys -> Nat]
        BY <2>1, <2>2, TallyTyped, DiagTyped
    <2>5. samples' \in 0..SampleCap
        <3>1. Cardinality(Having(st, D \ R, "errors")) \in Nat
            BY <2>2, TallyTyped DEF Outcomes
        <3>2. QED BY <3>1, <2>1, <1>00 DEF Capped
    <2>6. R # {} => attempt < cfg.max_retries_per_doc
        BY DEF Retries
    <2>7. /\ pending' \in SUBSET Lines /\ phase' \in {"probe", "full", "done", "raised"}
          /\ attempt' \in 0..cfg.max_retries_per_doc
          /\ resends' \in 0..cfg.transport_max_retries
          /\ http' \in 0..cfg.transport_max_retries
          /\ timeouts' \in Nat
        BY <2>1, <2>2, <2>6, <1>00 DEF NextRound, NewSend, sending, TypeOK
    <2>8. QED
        BY <2>1, <2>3, <2>4, <2>5, <2>7, <1>5 DEF FullAnswered, env, TypeOK
<1>6. CASE FullUnreadable
    <2>1. docs' \in [Lines -> 0..MaxDocs]
        BY <1>6, ApplyTyped DEF FullUnreadable
    <2>2. QED
        BY <2>1, <1>6 DEF FullUnreadable, env, sending, tally, TypeOK
<1>7. CASE UNCHANGED vars
    BY <1>7 DEF vars, env, sending, tally, TypeOK
<1>8. QED
    BY <1>1, <1>2, <1>3, <1>4, <1>5, <1>6, <1>7 DEF Next

(* ShipChunk keeps its state well formed: no budget of re-sends or rounds   *)
(* is exceeded and the samples stay within ERROR_SAMPLE_CAP.                *)
THEOREM TypeCorrect == Spec => []TypeOK
BY InitTyped, StepTyped, PTL DEF Spec

-----------------------------------------------------------------------------
(* Counting *)

(* A subset and the rest make up a finite set. *)
LEMMA Split ==
    ASSUME NEW S \in SUBSET Lines, NEW A \in SUBSET S
    PROVE  Cardinality(S) = Cardinality(A) + Cardinality(S \ A)
<1>1. IsFiniteSet(S) /\ IsFiniteSet(A)
    BY LinesFinite
<1>2. Cardinality(S \ A) = Cardinality(S) - Cardinality(S \cap A)
    BY <1>1, FS_Difference
<1>3. S \cap A = A
    OBVIOUS
<1>4. Cardinality(S) \in Nat /\ Cardinality(A) \in Nat
    BY LinesFinite
<1>5. QED
    BY <1>2, <1>3, <1>4

(* Two disjoint sets of lines add up to their union. *)
LEMMA TwoClasses ==
    ASSUME NEW A \in SUBSET Lines, NEW B \in SUBSET Lines, A \cap B = {}
    PROVE  Cardinality(A \cup B) = Cardinality(A) + Cardinality(B)
<1>1. A \cup B \in SUBSET Lines /\ A \in SUBSET (A \cup B)
    OBVIOUS
<1>2. (A \cup B) \ A = B
    OBVIOUS
<1>3. QED
    BY <1>1, <1>2, Split

(* Four disjoint sets of lines do too. *)
FourWay(A, B, C, D) ==
    /\ A \in SUBSET Lines /\ B \in SUBSET Lines
    /\ C \in SUBSET Lines /\ D \in SUBSET Lines
    /\ A \cap B = {} /\ A \cap C = {} /\ A \cap D = {}
    /\ B \cap C = {} /\ B \cap D = {} /\ C \cap D = {}

LEMMA FourClasses ==
    ASSUME NEW A, NEW B, NEW C, NEW D, FourWay(A, B, C, D)
    PROVE  Cardinality(((A \cup B) \cup C) \cup D)
             = Cardinality(A) + Cardinality(B) + Cardinality(C) + Cardinality(D)
<1> USE DEF FourWay
<1>1. Cardinality(A \cup B) = Cardinality(A) + Cardinality(B)
    BY TwoClasses
<1>2. Cardinality((A \cup B) \cup C) = Cardinality(A \cup B) + Cardinality(C)
    <2>1. A \cup B \in SUBSET Lines /\ (A \cup B) \cap C = {}
        OBVIOUS
    <2>2. QED
        BY <2>1, TwoClasses
<1>3. Cardinality(((A \cup B) \cup C) \cup D) = Cardinality((A \cup B) \cup C) + Cardinality(D)
    <2>1. (A \cup B) \cup C \in SUBSET Lines /\ ((A \cup B) \cup C) \cap D = {}
        OBVIOUS
    <2>2. QED
        BY <2>1, TwoClasses
<1>4. QED
    BY <1>1, <1>2, <1>3

(* A round tallies each line it does not send again exactly once. *)
LEMMA TallyAddsUp ==
    ASSUME TypeOK, NEW st, NEW D \in SUBSET Lines
    PROVE  Accounted(TallyOf(st, D)) = Accounted(counts) + Cardinality(D)
<1>1. Cardinality(D) = Cardinality(Having(st, D, "written"))
                     + Cardinality(Having(st, D, "deleted"))
                     + Cardinality(Having(st, D, "ignored"))
                     + Cardinality(Having(st, D, "errors"))
    <2>1. \A l \in D : Classify(op[l], st[l]) \in {"written", "deleted", "ignored", "errors"}
        BY DEF Classify
    <2>2. D = Having(st, D, "written") \cup Having(st, D, "deleted")
              \cup Having(st, D, "ignored") \cup Having(st, D, "errors")
        BY <2>1 DEF Having
    <2> DEFINE W == Having(st, D, "written")
               X == Having(st, D, "deleted")
               I == Having(st, D, "ignored")
               E == Having(st, D, "errors")
    <2>3. /\ W \cap X = {} /\ W \cap I = {} /\ W \cap E = {}
          /\ X \cap I = {} /\ X \cap E = {} /\ I \cap E = {}
        BY DEF Having
    <2>4. /\ W \in SUBSET Lines /\ X \in SUBSET Lines
          /\ I \in SUBSET Lines /\ E \in SUBSET Lines
        BY DEF Having
    <2>5. D = ((W \cup X) \cup I) \cup E
        BY <2>2
    <2>6. QED
        <3> HIDE DEF W, X, I, E
        <3>1. Cardinality(((W \cup X) \cup I) \cup E)
                = Cardinality(W) + Cardinality(X) + Cardinality(I) + Cardinality(E)
            <4>1. FourWay(W, X, I, E)
                BY <2>3, <2>4 DEF FourWay
            <4>2. QED
                BY <4>1, FourClasses
        <3>2. Cardinality(D) = Cardinality(W) + Cardinality(X) + Cardinality(I) + Cardinality(E)
            BY <2>5, <3>1
        <3>3. QED
            BY <3>2 DEF W, X, I, E
<1>2. \A o \in {"written", "deleted", "ignored", "errors"} :
          Cardinality(Having(st, D, o)) \in Nat
    BY TallyTyped DEF Outcomes
<1>3. counts \in Count
    BY DEF TypeOK
<1>4. QED
    BY <1>1, <1>2, <1>3 DEF Accounted, TallyOf, Count

(* The items of a round: which lines they cover, and how they divide. *)
Divided(st, D) ==
    /\ D \in SUBSET pending /\ D \in SUBSET Lines
    /\ Retries(st, D) \in SUBSET D /\ Retries(st, D) \in SUBSET Lines
    /\ D \ Retries(st, D) \in SUBSET Lines
    /\ Cardinality(D) = Cardinality(Retries(st, D)) + Cardinality(D \ Retries(st, D))
    /\ Cardinality(D) <= Cardinality(pending)
    /\ Cardinality(D) = Cardinality(pending) => D = pending
    /\ ~malformed => D = pending

LEMMA RoundDivides ==
    ASSUME TypeOK, NEW st, NEW D \in Itemized
    PROVE  Divided(st, D)
<1>1. D \in SUBSET pending /\ D \in SUBSET Lines
    BY DEF Itemized, TypeOK
<1>2. Retries(st, D) \in SUBSET D
    BY DEF Retries
<1>3. Cardinality(D) <= Cardinality(pending)
      /\ (Cardinality(D) = Cardinality(pending) => D = pending)
    <2>1. IsFiniteSet(pending)
        BY LinesFinite DEF TypeOK
    <2>2. QED
        BY <1>1, <2>1, FS_Subset
<1>4. Cardinality(D) = Cardinality(Retries(st, D)) + Cardinality(D \ Retries(st, D))
    BY <1>1, <1>2, Split
<1>5. QED
    BY <1>1, <1>2, <1>3, <1>4 DEF Itemized, Divided

-----------------------------------------------------------------------------
(* Accounting. Alone it is not inductive: the probe must be known to start *)
(* from nothing, or "written += N" would count twice.                      *)

ProbeFresh ==
    phase = "probe" => pending = Lines /\ counts = NoCount /\ ~cfg.has_deletes

AccountingInv == TypeOK /\ ProbeFresh /\ Accounting

LEMMA LinesCounted == Cardinality(Lines) = N
BY ShipAssumption, FS_Interval DEF Lines

LEMMA NothingPending == Cardinality({}) = 0
BY FS_EmptySet

LEMMA InitAccounted == Init => ProbeFresh /\ Accounting
<1> SUFFICES ASSUME Init PROVE ProbeFresh /\ Accounting
    OBVIOUS
<1>1. Accounted(counts) = 0 /\ Cardinality(pending) = N /\ Shipping
    BY LinesCounted DEF Init, FirstPhase, Accounted, NoCount, Shipping
<1>2. QED
    BY <1>1, ShipAssumption DEF Init, FirstPhase, ProbeFresh, Accounting

LEMMA StepFresh == TypeOK /\ ProbeFresh /\ [Next]_vars => ProbeFresh'
<1> SUFFICES ASSUME TypeOK, ProbeFresh, [Next]_vars PROVE ProbeFresh'
    OBVIOUS
<1>1. ASSUME NEW loss \in Losses, TransportResend(loss) PROVE ProbeFresh'
    BY <1>1 DEF TransportResend, ProbeFresh, env, tally
<1>2. ASSUME NEW loss \in Losses, ConnectorResend(loss) PROVE ProbeFresh'
    BY <1>2 DEF ConnectorResend, ProbeFresh, env, tally
<1>3. ASSUME NEW loss \in Losses, FailClosed(loss) PROVE ProbeFresh'
    BY <1>3 DEF FailClosed, CountPending, ProbeFresh
<1>4. CASE ProbeAnswered
    BY <1>4 DEF ProbeAnswered, Reship, ProbeFresh
<1>5. CASE FullAnswered
    BY <1>5 DEF FullAnswered, NextRound, ProbeFresh
<1>6. CASE FullUnreadable
    BY <1>6 DEF FullUnreadable, ProbeFresh
<1>7. CASE UNCHANGED vars
    BY <1>7 DEF vars, env, tally, ProbeFresh
<1>8. QED
    BY <1>1, <1>2, <1>3, <1>4, <1>5, <1>6, <1>7 DEF Next

(* The total of Accounting *)
Total == Accounted(counts) + (IF Shipping THEN Cardinality(pending) ELSE 0)

(* Whether responses may be malformed is fixed. *)
LEMMA MalformedFixed == [Next]_vars => malformed' = malformed
BY DEF Next, TransportResend, ConnectorResend, FailClosed, ProbeAnswered, FullAnswered,
       FullUnreadable, env, vars

(* Each step keeps the accounting. *)
LEMMA StepAccounted == AccountingInv /\ [Next]_vars => Accounting'
<1> SUFFICES ASSUME AccountingInv, [Next]_vars PROVE Accounting'
    OBVIOUS
<1> USE ShipAssumption, StepTyped
<1>0. /\ TypeOK /\ TypeOK' /\ ProbeFresh /\ malformed' = malformed
      /\ Cardinality(pending) \in Nat
      /\ Accounted(counts) \in Nat
      /\ phase # "raised" => Total <= N /\ (~malformed => Total = N)
    <2>1. TypeOK /\ TypeOK' /\ ProbeFresh
        BY DEF AccountingInv
    <2>2. Cardinality(pending) \in Nat
        BY <2>1, LinesFinite DEF TypeOK
    <2>3. Accounted(counts) \in Nat
        BY <2>1 DEF TypeOK, Count, Accounted
    <2>4. QED
        BY <2>1, <2>2, <2>3, MalformedFixed DEF AccountingInv, Accounting, Total
<1>1. ASSUME NEW loss \in Losses, TransportResend(loss) PROVE Accounting'
    BY <1>1, <1>0 DEF TransportResend, Accounting, Total, Shipping, tally
<1>2. ASSUME NEW loss \in Losses, ConnectorResend(loss) PROVE Accounting'
    BY <1>2, <1>0 DEF ConnectorResend, Accounting, Total, Shipping, tally
<1>3. ASSUME NEW loss \in Losses, FailClosed(loss) PROVE Accounting'
    <2>1. Accounted(counts') = Accounted(counts) + Cardinality(pending)
        BY <1>3, <1>0 DEF FailClosed, CountPending, Accounted, Count, TypeOK
    <2>2. QED
        BY <1>3, <2>1, <1>0 DEF FailClosed, CountPending, Accounting, Total, Shipping
<1>4. CASE ProbeAnswered
    <2>1. CASE phase' = "done"
        <3>1. counts = NoCount /\ counts' = [counts EXCEPT !.written = @ + N]
            BY <1>4, <1>0, <2>1 DEF ProbeAnswered, Reship, ProbeFresh
        <3>2. Accounted(counts') = N
            BY <3>1 DEF Accounted, NoCount
        <3>3. QED
            BY <2>1, <3>2 DEF Accounting, Shipping
    <2>2. CASE phase' # "done"
        <3>1. phase' = "full" /\ UNCHANGED <<counts, pending>> /\ phase = "probe"
            BY <1>4, <2>2 DEF ProbeAnswered, Reship
        <3>2. QED
            BY <3>1, <1>0 DEF Accounting, Total, Shipping
    <2>3. QED BY <2>1, <2>2
<1>5. CASE FullAnswered
    <2>1. PICK st \in Answers, D \in Itemized :
              /\ counts' = TallyOf(st, D \ Retries(st, D))
              /\ NextRound(Retries(st, D))
        BY <1>5 DEF FullAnswered
    <2> DEFINE R == Retries(st, D)
    <2>2. /\ R \in SUBSET Lines /\ D \ R \in SUBSET Lines
          /\ Cardinality(D) = Cardinality(R) + Cardinality(D \ R)
          /\ Cardinality(D) <= Cardinality(pending)
          /\ ~malformed => D = pending
        <3>1. Divided(st, D)
            BY <1>0, RoundDivides
        <3>2. QED
            BY <3>1 DEF Divided
    <2>3. Accounted(counts') = Accounted(counts) + Cardinality(D \ R)
        <3>1. Accounted(TallyOf(st, D \ R)) = Accounted(counts) + Cardinality(D \ R)
            BY <2>2, <1>0, TallyAddsUp
        <3>2. QED
            BY <2>1, <3>1
    <2>4. Accounted(counts') + Cardinality(R) = Accounted(counts) + Cardinality(D)
        <3>1. Cardinality(R) \in Nat /\ Cardinality(D \ R) \in Nat
            BY <2>2, LinesFinite
        <3>2. QED BY <2>2, <2>3, <3>1, <1>0
    <2>5. Accounted(counts') + (IF Shipping' THEN Cardinality(pending') ELSE 0)
              = Accounted(counts) + Cardinality(D)
        <3>1. CASE R = {}
            <4>1. phase' = "done" /\ Cardinality(R) = 0
                BY <3>1, <2>1, NothingPending DEF NextRound
            <4>2. Accounted(counts') = Accounted(counts) + Cardinality(D) /\ ~Shipping'
                BY <4>1, <2>3, <2>2, <3>1, <1>0 DEF Shipping
            <4>3. Accounted(counts') \in Nat
                BY <1>0 DEF TypeOK, Count, Accounted
            <4>4. QED BY <4>2, <4>3
        <3>2. CASE R # {}
            <4>1. phase' = "full" /\ pending' = R
                BY <3>2, <2>1, <1>5 DEF NextRound, FullAnswered
            <4>2. QED BY <4>1, <2>4 DEF Shipping
        <3>3. QED BY <3>1, <3>2
    <2>6. /\ Accounted(counts) + Cardinality(pending) <= N
          /\ ~malformed => Accounted(counts) + Cardinality(pending) = N
        BY <1>5, <1>0 DEF FullAnswered, Total, Shipping
    <2>7. Cardinality(D) \in Nat
        <3>1. D \in SUBSET Lines
            <4>1. Divided(st, D)
                BY <1>0, RoundDivides
            <4>2. QED
                BY <4>1 DEF Divided
        <3>2. QED BY <3>1, LinesFinite
    <2>8. QED
        BY <2>2, <2>5, <2>6, <2>7, <1>0 DEF Accounting
<1>6. CASE FullUnreadable
    BY <1>6 DEF FullUnreadable, Accounting
<1>7. CASE UNCHANGED vars
    BY <1>7, <1>0 DEF vars, tally, Accounting, Total, Shipping
<1>8. QED
    BY <1>1, <1>2, <1>3, <1>4, <1>5, <1>6, <1>7 DEF Next

(* However a chunk is shipped, its lines are each accounted for once; only  *)
(* a malformed response can leave any out, and none is counted twice.       *)
THEOREM AccountingHolds == Spec => []Accounting
<1>1. Init => AccountingInv
    BY InitTyped, InitAccounted DEF AccountingInv
<1>2. AccountingInv /\ [Next]_vars => AccountingInv'
    BY StepTyped, StepFresh, StepAccounted DEF AccountingInv
<1>3. AccountingInv => Accounting
    BY DEF AccountingInv
<1>4. QED
    BY <1>1, <1>2, <1>3, PTL DEF Spec

-----------------------------------------------------------------------------
(* No silent loss. The invariant extends the claim to the shipment under   *)
(* way: as long as no error and no forgotten line was met, the lines that  *)
(* are no longer pending have landed.                                      *)

SettledLanded ==
    (phase # "raised" /\ counts.errors = 0 /\ Total = N) => Lines \ pending \subseteq Landed

Unsettled ==
    /\ Shipping => pending # {}
    /\ phase = "done" /\ pending # {} => counts.errors > 0

LossInv == AccountingInv /\ Unsettled /\ SettledLanded

(* An executed line lands. *)
LEMMA ExecutedLands ==
    ASSUME TypeOK, NEW E \in SUBSET Lines, Apply(E), UNCHANGED env,
           NEW l \in Lines, l \in E \/ l \in Landed
    PROVE  l \in Landed'
<1> USE ShipAssumption
<1>1. /\ op' = op /\ docs'[l] = (IF l \in E THEN After(l, docs[l]) ELSE docs[l])
      /\ docs[l] \in 0..MaxDocs
    BY DEF Apply, env, TypeOK
<1>2. CASE l \in E
    <2>1. docs'[l] = After(l, docs[l])
        BY <1>1, <1>2
    <2>2. IF op[l] = "delete" THEN After(l, docs[l]) = 0 ELSE After(l, docs[l]) > 0
        BY <1>1 DEF After, Capped
    <2>3. QED BY <2>1, <2>2, <1>1 DEF Landed
<1>3. CASE l \notin E
    BY <1>1, <1>3 DEF Landed
<1>4. QED
    BY <1>2, <1>3

(* A refusal is an error unless it is one of the two no-ops. *)
LEMMA RefusalIsError ==
    ASSUME NEW o, NEW s \in 400..599,
           ~(o = "create" /\ s = 409), ~(o = "delete" /\ s = 404)
    PROVE  Classify(o, s) = "errors"
<1>1. ~Ok(s)
    BY DEF Ok
<1>2. QED
    BY <1>1 DEF Classify

(* A line counted other than as an error was executed. *)
LEMMA CountedExecuted ==
    ASSUME TypeOK, NEW st \in Answers, NEW l \in pending,
           Classify(op[l], st[l]) # "errors", NEW E \in Effects(st)
    PROVE  l \in E
<1>1. st[l] = Executed(l) \/ st[l] \in Refused(l)
    BY DEF Answers
<1>2. l \in Lines /\ op[l] \in Ops
    BY OpsKnown DEF TypeOK
<1>3. st[l] \in Refused(l) => FALSE
    <2>1. st[l] \in Refused(l) => st[l] \in 400..599
        BY ShipAssumption DEF Refused
    <2>2. st[l] \in Refused(l) => ~(op[l] = "create" /\ st[l] = 409)
                                  /\ ~(op[l] = "delete" /\ st[l] = 404)
        BY DEF Refused
    <2>3. QED BY <2>1, <2>2, RefusalIsError
<1>4. st[l] = Executed(l)
    BY <1>1, <1>3
<1>5. QED
    BY <1>4 DEF Effects

LEMMA InitLossless == Init => Unsettled /\ SettledLanded
<1> SUFFICES ASSUME Init PROVE Unsettled /\ SettledLanded
    OBVIOUS
<1>1. pending = Lines /\ 1 \in Lines /\ Shipping
    BY ShipAssumption DEF Init, FirstPhase, Lines, Shipping
<1>2. QED
    BY <1>1 DEF Unsettled, SettledLanded, Shipping

LEMMA StepUnsettled == AccountingInv /\ Unsettled /\ [Next]_vars => Unsettled'
<1> SUFFICES ASSUME AccountingInv, Unsettled, [Next]_vars PROVE Unsettled'
    OBVIOUS
<1>0. TypeOK /\ TypeOK'
    BY StepTyped DEF AccountingInv
<1>1. ASSUME NEW loss \in Losses, TransportResend(loss) PROVE Unsettled'
    BY <1>1 DEF TransportResend, Unsettled, Shipping, tally
<1>2. ASSUME NEW loss \in Losses, ConnectorResend(loss) PROVE Unsettled'
    BY <1>2 DEF ConnectorResend, Unsettled, Shipping, tally
<1>3. ASSUME NEW loss \in Losses, FailClosed(loss) PROVE Unsettled'
    <2>1. Cardinality(pending) \in Nat /\ (Cardinality(pending) = 0 => pending = {})
        <3>1. IsFiniteSet(pending) /\ Cardinality(pending) \in Nat
            BY <1>0, LinesFinite DEF TypeOK
        <3>2. QED BY <3>1, FS_EmptySet
    <2>2. counts.errors \in Nat /\ counts'.errors = counts.errors + Cardinality(pending)
        BY <1>3, <1>0 DEF FailClosed, CountPending, Count, TypeOK
    <2>3. QED
        BY <2>1, <2>2, <1>3 DEF FailClosed, CountPending, Unsettled, Shipping
<1>4. CASE ProbeAnswered
    BY <1>4 DEF ProbeAnswered, Reship, Unsettled, Shipping
<1>5. CASE FullAnswered
    <2>1. PICK R : NextRound(R)
        BY <1>5 DEF FullAnswered
    <2>2. QED
        BY <2>1, <1>5 DEF FullAnswered, NextRound, Unsettled, Shipping
<1>6. CASE FullUnreadable
    BY <1>6 DEF FullUnreadable, Unsettled, Shipping
<1>7. CASE UNCHANGED vars
    BY <1>7 DEF vars, tally, Unsettled, Shipping
<1>8. QED
    BY <1>1, <1>2, <1>3, <1>4, <1>5, <1>6, <1>7 DEF Next

(* A lost attempt unsettles nothing: landed lines stay landed. *)
LEMMA LostKeepsLanded ==
    ASSUME TypeOK, NEW loss \in Losses, Lose(loss), UNCHANGED env,
           NEW l \in Lines, l \in Landed
    PROVE  l \in Landed'
<1>1. PICK E \in SUBSET pending : Apply(E)
    BY DEF Lose
<1>2. E \in SUBSET Lines
    BY DEF TypeOK
<1>3. QED
    BY <1>1, <1>2, ExecutedLands

LEMMA StepSettled == LossInv /\ [Next]_vars => SettledLanded'
<1> SUFFICES ASSUME LossInv, [Next]_vars PROVE SettledLanded'
    OBVIOUS
<1> USE ShipAssumption
<1>0. /\ TypeOK /\ TypeOK' /\ ProbeFresh /\ Accounting /\ Unsettled /\ Unsettled'
      /\ Cardinality(pending) \in Nat
      /\ Accounted(counts) \in Nat
    <2>1. TypeOK /\ TypeOK' /\ ProbeFresh /\ Accounting /\ Unsettled /\ Unsettled'
        BY StepTyped, StepUnsettled DEF LossInv, AccountingInv
    <2>2. Cardinality(pending) \in Nat
        BY <2>1, LinesFinite DEF TypeOK
    <2>3. QED
        BY <2>1, <2>2 DEF TypeOK, Count, Accounted
<1>1. ASSUME NEW loss \in Losses, TransportResend(loss) PROVE SettledLanded'
    <2>1. \A l \in Lines : l \in Landed => l \in Landed'
        BY <1>1, <1>0, LostKeepsLanded DEF TransportResend
    <2>2. Total' = Total
        BY <1>1 DEF TransportResend, Total, Shipping, tally
    <2>3. QED
        BY <2>1, <2>2, <1>1 DEF TransportResend, tally, LossInv, SettledLanded
<1>2. ASSUME NEW loss \in Losses, ConnectorResend(loss) PROVE SettledLanded'
    <2>1. \A l \in Lines : l \in Landed => l \in Landed'
        BY <1>2, <1>0, LostKeepsLanded DEF ConnectorResend
    <2>2. Total' = Total
        BY <1>2 DEF ConnectorResend, Total, Shipping, tally
    <2>3. QED
        BY <2>1, <2>2, <1>2 DEF ConnectorResend, tally, LossInv, SettledLanded
<1>3. ASSUME NEW loss \in Losses, FailClosed(loss) PROVE SettledLanded'
    <2>1. pending' # {} /\ phase' = "done"
        BY <1>3, <1>0 DEF FailClosed, CountPending, Unsettled
    <2>2. counts'.errors > 0
        BY <2>1, <1>0 DEF Unsettled
    <2>3. QED
        BY <2>2 DEF SettledLanded
<1>4. CASE ProbeAnswered
    <2>a. PICK st \in Answers, flagged \in {TRUE} \cup {~malformed} :
              /\ \E E \in Effects(st) : Apply(E)
              /\ IF ProbeClean(st, flagged)
                 THEN counts' = [counts EXCEPT !.written = @ + N]
                      /\ pending' = {} /\ phase' = "done"
                 ELSE phase' = "full" /\ counts' = counts /\ pending' = pending
        BY <1>4 DEF ProbeAnswered, Reship
    <2>1. PICK E \in Effects(st) : Apply(E)
        BY <2>a
    <2>2. phase = "probe" /\ pending = Lines /\ ~cfg.has_deletes /\ UNCHANGED env
        BY <1>4, <1>0 DEF ProbeAnswered, Reship, ProbeFresh
    <2>3. E \in SUBSET Lines
        BY <2>2 DEF Effects, Unclear
    <2>4. CASE ProbeClean(st, flagged)
        <3>1. ASSUME NEW l \in Lines PROVE l \in Landed'
            <4>1. op[l] # "delete"
                BY <2>2, <1>0, OpsKnown, ConfigAccepted DEF RowOps, Accepted
            <4>2. Ok(st[l])
                BY <2>4, <2>2, <4>1 DEF ProbeClean, ErrorsFlag
            <4>3. Classify(op[l], st[l]) # "errors"
                BY <4>1, <4>2 DEF Classify
            <4>4. l \in E
                BY <4>3, <2>2, <1>0, CountedExecuted
            <4>5. QED
                BY <4>4, <2>1, <2>2, <2>3, <1>0, ExecutedLands
        <3>2. QED
            BY <3>1 DEF SettledLanded
    <2>5. CASE ~ProbeClean(st, flagged)
        BY <2>5, <2>a, <2>2 DEF SettledLanded
    <2>6. QED
        BY <2>4, <2>5
<1>5. CASE FullAnswered
    <2>a. PICK st \in Answers, D \in Itemized :
              /\ \E E \in Effects(st) : Apply(E)
              /\ counts' = TallyOf(st, D \ Retries(st, D))
              /\ NextRound(Retries(st, D))
        BY <1>5 DEF FullAnswered
    <2>1. PICK E \in Effects(st) : Apply(E)
        BY <2>a
    <2> DEFINE R == Retries(st, D)
    <2>2. /\ D \in SUBSET Lines /\ D \in SUBSET pending
          /\ R \in SUBSET D /\ R \in SUBSET Lines /\ D \ R \in SUBSET Lines
          /\ Cardinality(D) = Cardinality(R) + Cardinality(D \ R)
          /\ Cardinality(D) <= Cardinality(pending)
          /\ Cardinality(D) = Cardinality(pending) => D = pending
        <3>1. Divided(st, D)
            BY <1>0, RoundDivides
        <3>2. QED
            BY <3>1 DEF Divided
    <2>3. Cardinality(R) \in Nat /\ Cardinality(D \ R) \in Nat /\ Cardinality(D) \in Nat
        BY <2>2, LinesFinite
    <2>4. pending' = R /\ UNCHANGED env /\ Shipping
        BY <2>a, <1>5 DEF NextRound, FullAnswered, Shipping
    <2> SUFFICES ASSUME counts'.errors = 0, Total' = N,
                        NEW l \in Lines, l \notin R
                 PROVE  l \in Landed'
        BY <2>4 DEF SettledLanded
    <2>5. Total' = Accounted(counts) + Cardinality(D)
        <3>1. Accounted(counts') = Accounted(counts) + Cardinality(D \ R)
            BY <2>a, <2>2, <1>0, TallyAddsUp
        <3>2. CASE R = {}
            <4>1. phase' = "done" /\ Cardinality(R) = 0
                BY <3>2, <2>a, NothingPending DEF NextRound
            <4>2. Accounted(counts') \in Nat
                BY <1>0 DEF TypeOK, Count, Accounted
            <4>3. QED
                BY <4>1, <4>2, <3>1, <2>2, <2>3, <1>0 DEF Total, Shipping
        <3>3. CASE R # {}
            <4>1. phase' = "full"
                BY <3>3, <2>a, <1>5 DEF NextRound, FullAnswered
            <4>2. QED
                BY <4>1, <3>1, <2>2, <2>3, <2>4, <1>0 DEF Total, Shipping
        <3>4. QED BY <3>2, <3>3
    <2>6. D = pending /\ Total = N
        BY <2>2, <2>3, <2>4, <2>5, <1>0 DEF Accounting, Total, Shipping
    <2>7. counts.errors = 0 /\ Having(st, D \ R, "errors") = {}
        <3>1. counts'.errors = counts.errors + Cardinality(Having(st, D \ R, "errors"))
            BY <2>a DEF TallyOf
        <3>2. counts.errors \in Nat /\ IsFiniteSet(Having(st, D \ R, "errors"))
              /\ Cardinality(Having(st, D \ R, "errors")) \in Nat
            <4>1. Having(st, D \ R, "errors") \in SUBSET Lines
                BY <2>2 DEF Having
            <4>2. counts.errors \in Nat
                BY <1>0 DEF TypeOK, Count
            <4> DEFINE H == Having(st, D \ R, "errors")
            <4> HIDE DEF H
            <4>3. IsFiniteSet(H) /\ Cardinality(H) \in Nat
                <5>1. H \in SUBSET Lines
                    BY <4>1 DEF H
                <5>2. QED BY <5>1, LinesFinite
            <4>4. QED BY <4>2, <4>3 DEF H
        <3>3. counts.errors = 0 /\ Cardinality(Having(st, D \ R, "errors")) = 0
            BY <3>1, <3>2
        <3>4. QED BY <3>2, <3>3, FS_EmptySet
    <2>8. E \in SUBSET Lines
        BY <1>0 DEF Effects, Unclear, TypeOK
    <2>9. CASE l \in pending
        <3>1. Classify(op[l], st[l]) # "errors"
            BY <2>6, <2>7, <2>9 DEF Having
        <3>2. l \in E
            BY <3>1, <2>9, <1>0, CountedExecuted
        <3>3. QED BY <3>2, <2>1, <2>4, <2>8, <1>0, ExecutedLands
    <2>10. CASE l \notin pending
        <3>1. l \in Landed
            BY <2>6, <2>7, <2>10, <1>5 DEF LossInv, SettledLanded, FullAnswered
        <3>2. QED BY <3>1, <2>1, <2>4, <2>8, <1>0, ExecutedLands
    <2>11. QED
        BY <2>9, <2>10
<1>6. CASE FullUnreadable
    BY <1>6 DEF FullUnreadable, SettledLanded
<1>7. CASE UNCHANGED vars
    BY <1>7 DEF vars, env, tally, Total, Shipping, LossInv, SettledLanded, Landed
<1>8. QED
    BY <1>1, <1>2, <1>3, <1>4, <1>5, <1>6, <1>7 DEF Next

LEMMA LossInvariant == Spec => []LossInv
<1>1. Init => LossInv
    BY InitTyped, InitAccounted, InitLossless DEF AccountingInv, LossInv
<1>2. LossInv /\ [Next]_vars => LossInv'
    BY StepTyped, StepFresh, StepAccounted, StepUnsettled, StepSettled
       DEF AccountingInv, LossInv
<1>3. QED
    BY <1>1, <1>2, PTL DEF Spec

(* A chunk reported clean is in the index, however many requests were lost, *)
(* repeated or half executed on the way.                                    *)
THEOREM NoSilentLossHolds == Spec => []NoSilentLoss
<1>1. LossInv => NoSilentLoss
    <2> SUFFICES ASSUME LossInv, phase = "done", counts.errors = 0, Accounted(counts) = N
                 PROVE  Landed = Lines
        BY DEF NoSilentLoss
    <2>1. Total = N
        BY ShipAssumption DEF Total, Shipping
    <2>2. pending = {}
        BY DEF LossInv, Unsettled
    <2>3. QED
        BY <2>1, <2>2 DEF LossInv, SettledLanded, Landed
<1>2. QED
    BY <1>1, LossInvariant, PTL

-----------------------------------------------------------------------------
(* Error samples *)

LEMMA StepSampled ==
    TypeOK /\ (phase = "full" \/ phase = "probe" => pending # {})
           /\ SamplesExplainErrors /\ [Next]_vars => SamplesExplainErrors'
<1> SUFFICES ASSUME TypeOK, Shipping => pending # {}, SamplesExplainErrors, [Next]_vars
             PROVE  SamplesExplainErrors'
    BY DEF Shipping
<1> USE ShipAssumption
<1>0. /\ counts.errors \in Nat /\ samples \in Nat /\ samples <= SampleCap
      /\ SampleCap \in Nat \ {0}
    BY DEF TypeOK, Count
<1>1. ASSUME NEW loss \in Losses, TransportResend(loss) PROVE SamplesExplainErrors'
    BY <1>1 DEF TransportResend, tally, SamplesExplainErrors
<1>2. ASSUME NEW loss \in Losses, ConnectorResend(loss) PROVE SamplesExplainErrors'
    BY <1>2 DEF ConnectorResend, tally, SamplesExplainErrors
<1>3. ASSUME NEW loss \in Losses, FailClosed(loss) PROVE SamplesExplainErrors'
    <2>1. Cardinality(pending) \in Nat /\ Cardinality(pending) # 0
        <3>1. IsFiniteSet(pending) /\ Cardinality(pending) \in Nat
            BY LinesFinite DEF TypeOK
        <3>2. QED BY <3>1, <1>3, FS_EmptySet DEF FailClosed, CountPending
    <2>2. counts'.errors = counts.errors + Cardinality(pending)
        BY <1>3 DEF FailClosed, CountPending, TypeOK, Count
    <2>3. samples' = Capped(samples + 1, SampleCap)
        BY <1>3 DEF FailClosed, CountPending
    <2>4. QED
        BY <2>1, <2>2, <2>3, <1>0 DEF SamplesExplainErrors, Capped
<1>4. CASE ProbeAnswered
    <2>1. samples' = samples /\ counts'.errors = counts.errors
        BY <1>4 DEF ProbeAnswered, Reship, TypeOK, Count
    <2>2. QED BY <2>1 DEF SamplesExplainErrors
<1>5. CASE FullAnswered
    <2>1. PICK st \in Answers, D \in Itemized :
              /\ counts' = TallyOf(st, D \ Retries(st, D))
              /\ samples' = Capped(samples
                     + Cardinality(Having(st, D \ Retries(st, D), "errors")), SampleCap)
        BY <1>5 DEF FullAnswered
    <2> DEFINE n == Cardinality(Having(st, D \ Retries(st, D), "errors"))
    <2>2. n \in Nat
        <3>1. Having(st, D \ Retries(st, D), "errors") \in SUBSET Lines
            BY DEF Having, Itemized, TypeOK
        <3>2. QED BY <3>1, LinesFinite
    <2>3. counts'.errors = counts.errors + n
        BY <2>1 DEF TallyOf
    <2>4. samples' = Capped(samples + n, SampleCap)
        BY <2>1
    <2> HIDE DEF n
    <2>5. QED
        BY <2>2, <2>3, <2>4, <1>0 DEF SamplesExplainErrors, Capped
<1>6. CASE FullUnreadable
    BY <1>6 DEF FullUnreadable, tally, SamplesExplainErrors
<1>7. CASE UNCHANGED vars
    BY <1>7 DEF vars, tally, SamplesExplainErrors
<1>8. QED
    BY <1>1, <1>2, <1>3, <1>4, <1>5, <1>6, <1>7 DEF Next

(* A report of errors carries a sample, and samples only come with errors. *)
THEOREM SamplesHold == Spec => []SamplesExplainErrors
<1>1. Init => SamplesExplainErrors
    BY DEF Init, FirstPhase, NoCount, SamplesExplainErrors
<1>2. LossInv /\ SamplesExplainErrors /\ [Next]_vars => SamplesExplainErrors'
    BY StepSampled DEF LossInv, AccountingInv, Unsettled, Shipping
<1>3. QED
    BY <1>1, <1>2, LossInvariant, PTL DEF Spec

-----------------------------------------------------------------------------
(* Timeouts. Where the transport re-sends timed-out requests each timeout  *)
(* used up one of its re-sends; where it does not, one of the connector's. *)

TimeoutsPaid ==
    LET paid == IF ClientRetriesTimeout(cfg) THEN http ELSE resends IN
    timeouts <= (IF Shipping THEN paid ELSE paid + 1)

LEMMA StepPaid == TypeOK /\ TimeoutsPaid /\ [Next]_vars => TimeoutsPaid'
<1> SUFFICES ASSUME TypeOK, TimeoutsPaid, [Next]_vars PROVE TimeoutsPaid'
    OBVIOUS
<1>0. timeouts \in Nat /\ http \in Nat /\ resends \in Nat
    BY ConfigAccepted DEF TypeOK, WriteConfig, Accepted, ConnectionAccepted
<1>1. ASSUME NEW loss \in Losses, TransportResend(loss) PROVE TimeoutsPaid'
    <2>1. cfg' = cfg /\ resends' = resends /\ http' = http + 1 /\ Shipping /\ Shipping'
        BY <1>1 DEF TransportResend, env, Shipping
    <2>2. loss = "timeout" => ClientRetriesTimeout(cfg)
        BY <1>1 DEF TransportResend, ClientRaises
    <2>3. timeouts' = timeouts + (IF loss = "timeout" THEN 1 ELSE 0)
        BY <1>1 DEF TransportResend
    <2>4. QED
        BY <2>1, <2>2, <2>3, <1>0 DEF TimeoutsPaid
<1>2. ASSUME NEW loss \in Losses, ConnectorResend(loss) PROVE TimeoutsPaid'
    <2>1. ~ClientRetriesTimeout(cfg)
        BY <1>2 DEF ConnectorResend, ConnectorCatches, ClientRetriesTimeout
    <2>2. cfg' = cfg /\ resends' = resends + 1 /\ timeouts' = timeouts + 1
          /\ Shipping /\ Shipping'
        BY <1>2 DEF ConnectorResend, env, Shipping
    <2>3. QED
        BY <2>1, <2>2, <1>0 DEF TimeoutsPaid
<1>3. ASSUME NEW loss \in Losses, FailClosed(loss) PROVE TimeoutsPaid'
    <2>1. /\ cfg' = cfg /\ resends' = resends /\ http' = http
          /\ timeouts' = timeouts + (IF loss = "timeout" THEN 1 ELSE 0)
          /\ Shipping /\ ~Shipping'
        BY <1>3 DEF FailClosed, CountPending, env, Shipping
    <2>2. QED
        BY <2>1, <1>0 DEF TimeoutsPaid
<1>4. CASE ProbeAnswered
    <2>1. cfg' = cfg /\ Shipping
        BY <1>4 DEF ProbeAnswered, Reship, env, Shipping
    <2>2. CASE UNCHANGED sending
        BY <2>1, <2>2, <1>0 DEF sending, TimeoutsPaid
    <2>3. CASE NewSend
        BY <2>1, <2>3 DEF NewSend, TimeoutsPaid
    <2>4. QED
        BY <1>4, <2>2, <2>3 DEF ProbeAnswered, Reship
<1>5. CASE FullAnswered
    <2>1. cfg' = cfg /\ Shipping
        BY <1>5 DEF FullAnswered, env, Shipping
    <2>2. CASE UNCHANGED sending
        BY <2>1, <2>2, <1>0 DEF sending, TimeoutsPaid
    <2>3. CASE NewSend
        BY <2>1, <2>3 DEF NewSend, TimeoutsPaid
    <2>4. QED
        BY <1>5, <2>2, <2>3 DEF FullAnswered, NextRound
<1>6. CASE FullUnreadable
    BY <1>6, <1>0 DEF FullUnreadable, env, sending, Shipping, TimeoutsPaid
<1>7. CASE UNCHANGED vars
    BY <1>7 DEF vars, env, sending, Shipping, TimeoutsPaid
<1>8. QED
    BY <1>1, <1>2, <1>3, <1>4, <1>5, <1>6, <1>7 DEF Next

(* One call of _send_retrying sits through at most 1 + transport_max_retries *)
(* timeouts, whichever layer re-sends them: the layers do not multiply.      *)
THEOREM TimeoutsHold == Spec => []TimeoutsDoNotStack
<1>1. Init => TimeoutsPaid
    BY DEF Init, FirstPhase, Shipping, TimeoutsPaid
<1>2. TypeOK /\ TimeoutsPaid => TimeoutsDoNotStack
    <2> SUFFICES ASSUME TypeOK, TimeoutsPaid PROVE TimeoutsDoNotStack
        OBVIOUS
    <2>1. /\ timeouts \in Nat /\ http \in Nat /\ resends \in Nat
          /\ cfg.transport_max_retries \in Nat
          /\ http <= cfg.transport_max_retries /\ resends <= cfg.transport_max_retries
        BY ConfigAccepted DEF TypeOK, WriteConfig, Accepted
    <2>2. QED
        BY <2>1 DEF TimeoutsPaid, TimeoutsDoNotStack
<1>3. QED
    BY <1>1, <1>2, StepPaid, TypeCorrect, PTL DEF Spec

-----------------------------------------------------------------------------
(* The balance of rejections *)

(* The rejected items of a round fall into the four buckets, and each is   *)
(* either sent again or tallied as an error.                               *)
LEMMA RejectionsDivide ==
    ASSUME TypeOK, NEW st, NEW D \in Itemized
    PROVE  Cardinality(InBucket(st, D, "rejected_429"))
           + Cardinality(InBucket(st, D, "rejected_409"))
           + Cardinality(InBucket(st, D, "rejected_4xx_other"))
           + Cardinality(InBucket(st, D, "rejected_5xx"))
             = Cardinality(Retries(st, D))
               + Cardinality(Having(st, D \ Retries(st, D), "errors"))
<1> DEFINE R   == Retries(st, D)
           Rej == {l \in D : Rejected(op[l], st[l])}
           A   == InBucket(st, D, "rejected_429")
           B   == InBucket(st, D, "rejected_409")
           C   == InBucket(st, D, "rejected_4xx_other")
           F   == InBucket(st, D, "rejected_5xx")
<1>1. D \in SUBSET Lines /\ R \in SUBSET Lines
    <2>1. Divided(st, D)
        BY RoundDivides
    <2>2. QED
        BY <2>1 DEF Divided
<1>2. Rej \in SUBSET Lines
    BY <1>1
<1>3. Cardinality(Rej) = Cardinality(A) + Cardinality(B) + Cardinality(C) + Cardinality(F)
    <2>1. Rej = ((A \cup B) \cup C) \cup F
        BY DEF InBucket, RejectBucket
    <2>2. /\ A \cap B = {} /\ A \cap C = {} /\ A \cap F = {}
          /\ B \cap C = {} /\ B \cap F = {} /\ C \cap F = {}
        BY DEF InBucket
    <2>3. /\ A \in SUBSET Lines /\ B \in SUBSET Lines
          /\ C \in SUBSET Lines /\ F \in SUBSET Lines
        BY <1>1 DEF InBucket
    <2>4. QED
        <3> HIDE DEF Rej, A, B, C, F
        <3>1. Cardinality(((A \cup B) \cup C) \cup F)
                = Cardinality(A) + Cardinality(B) + Cardinality(C) + Cardinality(F)
            <4>1. FourWay(A, B, C, F)
                BY <2>2, <2>3 DEF FourWay
            <4>2. QED
                BY <4>1, FourClasses
        <3>2. QED
            BY <2>1, <3>1
<1>4. R \in SUBSET Rej
    BY DEF Retries
<1>5. Rej \ R = Having(st, D \ R, "errors")
    BY DEF Having, Rejected, Classify, Ok
<1>6. Cardinality(Rej) = Cardinality(R) + Cardinality(Rej \ R)
    BY <1>2, <1>4, Split
<1>7. QED
    BY <1>3, <1>5, <1>6

LEMMA StepBalanced ==
    TypeOK /\ RejectionsBalance /\ [Next]_vars => RejectionsBalance'
<1> SUFFICES ASSUME TypeOK, RejectionsBalance, [Next]_vars PROVE RejectionsBalance'
    OBVIOUS
<1>0. /\ counts.errors \in Nat /\ Cardinality(pending) \in Nat
      /\ diag["docs_retried"] \in Nat
      /\ diag["rejected_429"] \in Nat /\ diag["rejected_409"] \in Nat
      /\ diag["rejected_4xx_other"] \in Nat /\ diag["rejected_5xx"] \in Nat
    BY LinesFinite DEF TypeOK, Count, DiagKeys, Buckets
<1>1. ASSUME NEW loss \in Losses, TransportResend(loss) PROVE RejectionsBalance'
    BY <1>1 DEF TransportResend, tally, Rejections, RejectionsBalance
<1>2. ASSUME NEW loss \in Losses, ConnectorResend(loss) PROVE RejectionsBalance'
    BY <1>2 DEF ConnectorResend, tally, Rejections, RejectionsBalance
<1>3. ASSUME NEW loss \in Losses, FailClosed(loss) PROVE RejectionsBalance'
    <2>1. /\ diag' = diag /\ pending' = pending /\ phase # "done" /\ phase' = "done"
          /\ counts'.errors = counts.errors + Cardinality(pending)
        BY <1>3 DEF FailClosed, CountPending, Shipping, TypeOK, Count
    <2>2. QED
        BY <2>1, <1>0 DEF Rejections, RejectionsBalance
<1>4. CASE ProbeAnswered
    <2>1. /\ diag' = diag /\ phase # "done" /\ counts'.errors = counts.errors
          /\ phase' = "done" => Cardinality(pending') = 0
        BY <1>4, NothingPending DEF ProbeAnswered, Reship, TypeOK, Count
    <2>2. QED
        BY <2>1, <1>0 DEF Rejections, RejectionsBalance
<1>5. CASE FullAnswered
    <2>1. PICK st \in Answers, D \in Itemized :
              /\ counts' = TallyOf(st, D \ Retries(st, D))
              /\ diag' = DiagOf(st, D, Retries(st, D))
              /\ NextRound(Retries(st, D))
        BY <1>5 DEF FullAnswered
    <2> DEFINE R == Retries(st, D)
               n == Cardinality(Having(st, D \ R, "errors"))
               a == Cardinality(InBucket(st, D, "rejected_429"))
               b == Cardinality(InBucket(st, D, "rejected_409"))
               c == Cardinality(InBucket(st, D, "rejected_4xx_other"))
               f == Cardinality(InBucket(st, D, "rejected_5xx"))
    <2>2. a + b + c + f = Cardinality(R) + n
        BY RejectionsDivide
    <2>3. /\ Cardinality(R) \in Nat /\ n \in Nat
          /\ a \in Nat /\ b \in Nat /\ c \in Nat /\ f \in Nat
        <3>1. D \in SUBSET Lines /\ R \in SUBSET Lines
            <4>1. Divided(st, D)
                BY RoundDivides
            <4>2. QED
                BY <4>1 DEF Divided
        <3>2. Having(st, D \ R, "errors") \in SUBSET Lines
            BY <3>1 DEF Having
        <3>3. \A k : InBucket(st, D, k) \in SUBSET Lines
            BY <3>1 DEF InBucket
        <3>4. QED
            BY <3>1, <3>2, <3>3, LinesFinite
    <2>4. counts'.errors = counts.errors + n
        BY <2>1 DEF TallyOf
    <2>5. /\ diag'["docs_retried"] = diag["docs_retried"] + Cardinality(R)
          /\ diag'["rejected_429"] = diag["rejected_429"] + a
          /\ diag'["rejected_409"] = diag["rejected_409"] + b
          /\ diag'["rejected_4xx_other"] = diag["rejected_4xx_other"] + c
          /\ diag'["rejected_5xx"] = diag["rejected_5xx"] + f
        BY <2>1 DEF DiagOf, DiagKeys, Buckets
    <2>6. phase' = "done" => Cardinality(pending') = 0
        BY <2>1, <1>5, NothingPending DEF NextRound, FullAnswered
    <2>7. phase = "full"
        BY <1>5 DEF FullAnswered
    <2> HIDE DEF R, n, a, b, c, f
    <2>8. QED
        BY <2>2, <2>3, <2>4, <2>5, <2>6, <2>7, <1>0 DEF Rejections, RejectionsBalance
<1>6. CASE FullUnreadable
    BY <1>6 DEF FullUnreadable, tally, Rejections, RejectionsBalance
<1>7. CASE UNCHANGED vars
    BY <1>7 DEF vars, tally, Rejections, RejectionsBalance
<1>8. QED
    BY <1>1, <1>2, <1>3, <1>4, <1>5, <1>6, <1>7 DEF Next

(* The bulk_stats diagnostics balance: rejections = lines sent again +      *)
(* lines counted as errors by their item.                                   *)
THEOREM BalanceHolds == Spec => []RejectionsBalance
<1>1. Init => RejectionsBalance
    BY DEF Init, FirstPhase, NoCount, DiagKeys, Buckets, Rejections, RejectionsBalance
<1>2. QED
    BY <1>1, StepBalanced, TypeCorrect, PTL DEF Spec

-----------------------------------------------------------------------------
(* Counted lines rest *)

LEMMA StepRests ==
    TypeOK /\ [Next]_vars =>
        [ /\ pending' \subseteq pending
          /\ \A l \in Lines \ pending : docs'[l] = docs[l] ]_vars
<1> DEFINE Rests == /\ pending' \subseteq pending
                    /\ \A l \in Lines \ pending : docs'[l] = docs[l]
<1> SUFFICES ASSUME TypeOK, [Next]_vars PROVE Rests \/ UNCHANGED vars
    OBVIOUS
<1>0. ASSUME NEW E \in SUBSET pending, Apply(E)
      PROVE  \A l \in Lines \ pending : docs'[l] = docs[l]
    BY <1>0 DEF Apply
<1>1. ASSUME NEW st, NEW E \in Effects(st) PROVE E \in SUBSET pending
    BY DEF Effects, Unclear
<1>2. ASSUME NEW loss \in Losses, Lose(loss), pending' = pending PROVE Rests
    BY <1>2, <1>0 DEF Lose
<1>3. ASSUME NEW loss \in Losses,
             TransportResend(loss) \/ ConnectorResend(loss) \/ FailClosed(loss)
      PROVE  Rests
    BY <1>3, <1>2 DEF TransportResend, ConnectorResend, FailClosed, CountPending
<1>4. CASE ProbeAnswered
    <2>1. PICK st \in Answers : \E E \in Effects(st) : Apply(E)
        BY <1>4 DEF ProbeAnswered, Reship
    <2>2. pending' \subseteq pending
        BY <1>4 DEF ProbeAnswered, Reship
    <2>3. QED
        BY <2>1, <2>2, <1>0, <1>1
<1>5. CASE FullAnswered
    <2>1. PICK st \in Answers, D \in Itemized :
              /\ \E E \in Effects(st) : Apply(E)
              /\ NextRound(Retries(st, D))
        BY <1>5 DEF FullAnswered
    <2>2. pending' \subseteq pending
        BY <2>1 DEF NextRound, Retries, Itemized
    <2>3. QED
        BY <2>1, <2>2, <1>0, <1>1
<1>6. CASE FullUnreadable
    <2>1. PICK st \in Answers : \E E \in Effects(st) : Apply(E)
        BY <1>6 DEF FullUnreadable
    <2>2. pending' = pending
        BY <1>6 DEF FullUnreadable
    <2>3. QED
        BY <2>1, <2>2, <1>0, <1>1
<1>7. QED
    BY <1>3, <1>4, <1>5, <1>6 DEF Next

(* A line with an outcome is never sent again within the chunk.             *)
THEOREM CountedLinesRestHolds == Spec => CountedLinesRest
BY StepRests, TypeCorrect, PTL DEF Spec, CountedLinesRest

-----------------------------------------------------------------------------
(* The contract *)

(* A call under way is the only one that takes steps, and only a malformed *)
(* response makes it raise.                                                *)
LEMMA StepsWhileShipping ==
    TypeOK /\ Next => Shipping /\ (phase' = "raised" => malformed)
BY DEF Next, TransportResend, ConnectorResend, FailClosed, CountPending, ProbeAnswered, Reship, FullAnswered,
       NextRound, FullUnreadable, Shipping

(* What is reported is a report of the contract. *)
ReportAllowed == phase = "done" => Report \in Contract!Reports(N, SampleCap, malformed)

ContractInv == LossInv /\ SamplesExplainErrors /\ ReportAllowed

LEMMA ReportsAllowed == LossInv /\ SamplesExplainErrors => ReportAllowed
<1> SUFFICES ASSUME LossInv, SamplesExplainErrors, phase = "done"
             PROVE  Report \in Contract!Reports(N, SampleCap, malformed)
    BY DEF ReportAllowed
<1> USE ShipAssumption
<1>1. counts \in Count /\ samples \in 0..SampleCap /\ SampleCap \in Nat
    BY DEF LossInv, AccountingInv, TypeOK
<1>2. /\ counts.written \in Nat /\ counts.deleted \in Nat
      /\ counts.ignored \in Nat /\ counts.errors \in Nat
      /\ Accounted(counts) \in Nat
    BY <1>1 DEF Count, Accounted
<1>3. Accounted(counts) <= N /\ (~malformed => Accounted(counts) = N)
    BY <1>2 DEF LossInv, AccountingInv, Accounting, Shipping
<1>4. counts \in [written : 0..N, deleted : 0..N, ignored : 0..N, errors : 0..N]
    BY <1>1, <1>2, <1>3 DEF Count, Accounted
<1>5. (counts.errors > 0 <=> samples > 0) /\ samples <= counts.errors
    BY DEF SamplesExplainErrors
<1>6. Report = [counts |-> counts, samples |-> samples]
    BY DEF Report
<1>7. QED
    BY <1>1, <1>3, <1>4, <1>5, <1>6 DEF Contract!Reports, Contract!Accounted, Accounted

LEMMA InitContract == Init => Contract!Init
BY DEF Init, FirstPhase, Contract!Init, Contract!NoReport, Contract!NoCount, NoCount, Status, Report,
       Shipping, Landed, Lines

LEMMA StepContract ==
    ContractInv /\ ContractInv' /\ [Next]_vars => [Contract!Next]_Contract!vars
<1> SUFFICES ASSUME ContractInv, ContractInv', [Next]_vars
             PROVE  [Contract!Next]_Contract!vars
    OBVIOUS
<1>0. /\ TypeOK /\ TypeOK' /\ Landed' \in SUBSET (1..N) /\ malformed' = malformed
    BY MalformedFixed DEF ContractInv, LossInv, AccountingInv, Landed, Lines
<1>1. CASE UNCHANGED vars
    BY <1>1 DEF vars, env, tally, Contract!vars, Status, Report, Shipping, Landed
<1>2. CASE Next
    <2>1. Shipping /\ (phase' = "raised" => malformed)
        BY <1>2, <1>0, StepsWhileShipping
    <2>2. Status = "shipping" /\ Report = Contract!NoReport
        BY <2>1 DEF Status, Report, Contract!NoReport, Contract!NoCount, NoCount, Shipping
    <2>3. CASE Shipping'
        <3>1. Status' = "shipping" /\ Report' = Contract!NoReport
            BY <2>3 DEF Status, Report, Contract!NoReport, Contract!NoCount, NoCount, Shipping
        <3>2. Contract!Ship
            BY <3>1, <2>2, <1>0 DEF Contract!Ship
        <3>3. QED BY <3>2 DEF Contract!Next
    <2>4. CASE phase' = "done"
        <3>1. Status' = "reported"
            BY <2>4 DEF Status, Shipping
        <3>2. Report' \in Contract!Reports(N, SampleCap, malformed)
            BY <2>4, <1>0 DEF ContractInv, ReportAllowed
        <3>3. Contract!Clean(Report', N) => Landed' = 1..N
            <4>1. counts'.errors = 0 /\ Accounted(counts') = N => Landed' = Lines
                <5>1. phase' # "raised" /\ (pending' # {} => counts'.errors > 0)
                    BY <2>4 DEF ContractInv, LossInv, Unsettled
                <5>2. Accounted(counts') = N => Total' = N
                    BY <2>4, ShipAssumption DEF Total, Shipping
                <5>3. QED
                    BY <5>1, <5>2 DEF ContractInv, LossInv, SettledLanded, Landed, Lines
            <4>2. Report'.counts = counts'
                BY <2>4 DEF Report
            <4>3. QED BY <4>1, <4>2 DEF Contract!Clean, Contract!Accounted, Accounted, Lines
        <3>4. Contract!Finish
            BY <3>1, <3>2, <3>3, <2>2, <1>0 DEF Contract!Finish
        <3>5. QED BY <3>4 DEF Contract!Next
    <2>5. CASE phase' = "raised"
        <3>1. Status' = "aborted" /\ Report' = Contract!NoReport
            BY <2>5 DEF Status, Report, Contract!NoReport, Contract!NoCount, NoCount, Shipping
        <3>2. Contract!Abort
            BY <3>1, <2>1, <2>2, <2>5, <1>0 DEF Contract!Abort
        <3>3. QED BY <3>2 DEF Contract!Next
    <2>6. QED
        BY <2>3, <2>4, <2>5, <1>0 DEF TypeOK, Shipping
<1>3. QED
    BY <1>1, <1>2

(* Shipping a chunk implements the contract its caller relies on.           *)
THEOREM ContractKept == Spec => ImplementsContract
<1>1. Init => SamplesExplainErrors
    BY DEF Init, FirstPhase, NoCount, SamplesExplainErrors
<1>2. LossInv /\ SamplesExplainErrors /\ [Next]_vars => SamplesExplainErrors'
    BY StepSampled DEF LossInv, AccountingInv, Unsettled, Shipping
<1>3. Spec => []ContractInv
    BY <1>1, <1>2, LossInvariant, ReportsAllowed, PTL DEF Spec, ContractInv
<1>4. QED
    BY <1>3, InitContract, StepContract, PTL DEF Spec, ImplementsContract, Contract!Spec

-----------------------------------------------------------------------------
(* While the sender knows what its requests did: no request was lost and no *)
(* item left open whether its line was executed.                           *)

(* What a chunk starts from does not change. *)
LEMMA EnvFixed == [Next]_vars => UNCHANGED env
BY DEF Next, TransportResend, ConnectorResend, FailClosed, ProbeAnswered, FullAnswered,
       FullUnreadable, env, vars

(* A request whose loss leaves nothing unknown changed nothing. *)
LEMMA LostKnown ==
    ASSUME TypeOK, NEW loss, Lose(loss), ~unknown'
    PROVE  ~unknown /\ docs' = docs
<1>1. ~unknown /\ loss = "refused"
    BY DEF Lose, TypeOK
<1>2. PICK E \in SUBSET pending : E = {} /\ Apply(E)
    BY <1>1 DEF Lose
<1>3. docs' = [l \in Lines |-> docs[l]]
    BY <1>2 DEF Apply
<1>4. QED
    BY <1>1, <1>3 DEF TypeOK

(* What an answered request executed, if its items tell *)
ExactlyExecuted(st) ==
    \A l \in Lines :
        docs'[l] = IF l \in pending /\ st[l] = Executed(l) THEN After(l, docs[l]) ELSE docs[l]

LEMMA AnsweredKnown ==
    ASSUME TypeOK, NEW st \in Answers, \E E \in Effects(st) : Apply(E),
           unknown' = (unknown \/ Unclear(st) # {}), ~unknown'
    PROVE  ~unknown /\ ExactlyExecuted(st)
<1>1. ~unknown /\ Unclear(st) = {}
    BY DEF TypeOK
<1>2. PICK E \in Effects(st) : Apply(E)
    OBVIOUS
<1>3. E = {l \in pending : st[l] = Executed(l)}
    BY <1>1, <1>2 DEF Effects
<1>4. QED
    BY <1>1, <1>2, <1>3 DEF Apply, ExactlyExecuted

-----------------------------------------------------------------------------
(* Generated ids. Alone the bound is not inductive: a line that is sent     *)
(* again must have been executed by the probe at most.                      *)

ByProbe == IF cfg.bypass_fast_path THEN 0 ELSE 1

DupInv ==
    ~cfg.id_field /\ ~unknown =>
        /\ phase = "probe" => ~cfg.bypass_fast_path /\ \A l \in Lines : docs[l] = 0
        /\ phase = "full" => \A l \in pending : docs[l] <= ByProbe
        /\ \A l \in Lines : docs[l] <= ByProbe + 1

(* Without an id_field each line indexes a document. *)
LEMMA OnlyIndexes ==
    ASSUME TypeOK, ~cfg.id_field, NEW l \in Lines
    PROVE  op[l] = "index"
BY OpsKnown, ConfigAccepted DEF RowOps, Accepted

(* Executing such a line adds at most one document, and answers 200. *)
LEMMA OneMore ==
    ASSUME TypeOK, ~cfg.id_field, NEW l \in Lines
    PROVE  /\ After(l, docs[l]) <= docs[l] + 1
           /\ Executed(l) = 200
<1>1. op[l] = "index"
    BY OnlyIndexes
<1>2. docs[l] \in Nat /\ MaxDocs \in Nat
    BY ShipAssumption DEF TypeOK
<1>3. QED
    BY <1>1, <1>2 DEF After, Executed, Capped

LEMMA InitDup == Init => DupInv
BY DEF Init, FirstPhase, DupInv, ByProbe

LEMMA StepDup == TypeOK /\ ProbeFresh /\ DupInv /\ [Next]_vars => DupInv'
<1> SUFFICES ASSUME TypeOK, ProbeFresh, DupInv, [Next]_vars,
                    cfg' = cfg, ~cfg.id_field, ~unknown'
             PROVE  DupInv'
    BY EnvFixed DEF env, DupInv
<1>0. /\ \A l \in Lines : docs[l] \in Nat
      /\ ByProbe \in {0, 1} /\ ByProbe' = ByProbe
    BY DEF TypeOK, ByProbe
<1>1. ASSUME NEW loss \in Losses, TransportResend(loss) PROVE DupInv'
    <2>1. ~unknown /\ docs' = docs
        BY <1>1, LostKnown DEF TransportResend
    <2>2. QED
        BY <2>1, <1>0, <1>1 DEF TransportResend, DupInv
<1>2. ASSUME NEW loss \in Losses, ConnectorResend(loss) PROVE DupInv'
    <2>1. ~unknown /\ docs' = docs
        BY <1>2, LostKnown DEF ConnectorResend
    <2>2. QED
        BY <2>1, <1>0, <1>2 DEF ConnectorResend, DupInv
<1>3. ASSUME NEW loss \in Losses, FailClosed(loss) PROVE DupInv'
    <2>1. ~unknown /\ docs' = docs
        BY <1>3, LostKnown DEF FailClosed
    <2>2. QED
        BY <2>1, <1>0, <1>3 DEF FailClosed, DupInv
<1>4. CASE ProbeAnswered
    <2>1. PICK st \in Answers :
              (\E E \in Effects(st) : Apply(E)) /\ unknown' = (unknown \/ Unclear(st) # {})
        BY <1>4 DEF ProbeAnswered
    <2>2. ~unknown /\ ExactlyExecuted(st)
        BY <2>1, AnsweredKnown
    <2>3. /\ phase = "probe" /\ phase' \in {"full", "done"}
          /\ pending' \in SUBSET Lines
        BY <1>4 DEF ProbeAnswered, Reship, TypeOK
    <2>4. ~cfg.bypass_fast_path /\ \A l \in Lines : docs[l] = 0
        BY <2>2, <2>3 DEF DupInv
    <2>5. ASSUME NEW l \in Lines PROVE docs'[l] <= 1
        <3>1. After(l, docs[l]) <= 1 /\ docs[l] = 0
            BY <2>4, OneMore
        <3>2. QED
            BY <3>1, <2>2 DEF ExactlyExecuted
    <2>6. ASSUME NEW l \in Lines PROVE docs'[l] <= 1 /\ docs'[l] <= 2
        <3>1. docs'[l] = docs[l] \/ docs'[l] = After(l, docs[l])
            BY <2>2 DEF ExactlyExecuted
        <3>2. docs'[l] \in Int
            BY <3>1, <1>0, ShipAssumption DEF After, Capped
        <3>3. QED
            BY <2>5, <3>2
    <2>7. ByProbe' = 1
        BY <2>4, <1>0 DEF ByProbe
    <2>8. QED
        BY <2>3, <2>6, <2>7 DEF DupInv
<1>5. CASE FullAnswered
    <2>1. PICK st \in Answers, D \in Itemized :
              /\ \E E \in Effects(st) : Apply(E)
              /\ unknown' = (unknown \/ Unclear(st) # {})
              /\ NextRound(Retries(st, D))
        BY <1>5 DEF FullAnswered
    <2>2. ~unknown /\ ExactlyExecuted(st)
        BY <2>1, AnsweredKnown
    <2>3. /\ phase = "full" /\ phase' \in {"full", "done"}
          /\ pending' = Retries(st, D) /\ pending' \in SUBSET pending
          /\ pending \in SUBSET Lines
        BY <2>1, <1>5 DEF FullAnswered, NextRound, Retries, Itemized, TypeOK
    <2>4. /\ \A l \in pending : docs[l] <= ByProbe
          /\ \A l \in Lines : docs[l] <= ByProbe + 1
        BY <2>2, <2>3 DEF DupInv
    <2>5. ASSUME NEW l \in Lines PROVE docs'[l] <= ByProbe + 1
        <3>1. CASE l \in pending /\ st[l] = Executed(l)
            <4>1. docs'[l] = After(l, docs[l]) /\ docs'[l] \in Int
                BY <3>1, <2>2, <1>0, ShipAssumption DEF ExactlyExecuted, After, Capped
            <4>2. After(l, docs[l]) <= docs[l] + 1
                BY OneMore
            <4>3. QED
                BY <4>1, <4>2, <3>1, <2>4, <1>0
        <3>2. CASE ~(l \in pending /\ st[l] = Executed(l))
            BY <3>2, <2>2, <2>4 DEF ExactlyExecuted
        <3>3. QED
            BY <3>1, <3>2
    <2>6. ASSUME NEW l \in pending' PROVE docs'[l] <= ByProbe
        <3>1. l \in pending /\ l \in Lines /\ ~Ok(st[l])
            BY <2>3 DEF Retries, Rejected
        <3>2. st[l] # Executed(l)
            <4>1. Executed(l) = 200
                BY <3>1, OneMore
            <4>2. QED
                BY <4>1, <3>1 DEF Ok
        <3>3. QED
            BY <3>1, <3>2, <2>2, <2>4 DEF ExactlyExecuted
    <2>7. QED
        BY <2>3, <2>5, <2>6, <1>0 DEF DupInv
<1>6. CASE FullUnreadable
    BY <1>6 DEF FullUnreadable
<1>7. CASE UNCHANGED vars
    BY <1>7, <1>0 DEF vars, env, DupInv
<1>8. QED
    BY <1>1, <1>2, <1>3, <1>4, <1>5, <1>6, <1>7 DEF Next

(* With generated ids the probe can double a document once; the rounds of  *)
(* per-document retry never do.                                            *)
THEOREM BoundedDuplicationHolds == Spec => []BoundedDuplication
<1>1. Init => TypeOK /\ ProbeFresh /\ DupInv
    BY InitTyped, InitAccounted, InitDup
<1>2. (TypeOK /\ ProbeFresh /\ DupInv) /\ [Next]_vars => (TypeOK /\ ProbeFresh /\ DupInv)'
    BY StepTyped, StepFresh, StepDup
<1>3. TypeOK /\ DupInv => BoundedDuplication
    BY DEF DupInv, BoundedDuplication, ByProbe
<1>4. QED
    BY <1>1, <1>2, <1>3, PTL DEF Spec

-----------------------------------------------------------------------------
(* Creates with the probe bypassed. A line that is sent again has not been *)
(* created by this write, so no 409 is the echo of its own create.         *)

Made == {l \in Lines : docs[l] > before[l]}

ExactInv ==
    PreciseCreate /\ ~unknown =>
        /\ phase # "probe"
        /\ Shipping => \A l \in pending : docs[l] = before[l]
        /\ counts.written = Cardinality(Made)
        /\ diag["docs_deduped"] = counts.ignored

LEMMA OnlyCreates ==
    ASSUME TypeOK, PreciseCreate, NEW l \in Lines
    PROVE  op[l] = "create" /\ cfg.id_field
BY OpsKnown, ConfigAccepted DEF RowOps, Accepted, PreciseCreate

LEMMA InitExact == Init => ExactInv
<1> SUFFICES ASSUME Init PROVE ExactInv
    OBVIOUS
<1>1. Made = {}
    <2>1. ASSUME NEW l \in Lines PROVE ~(docs[l] > before[l])
        BY DEF Init
    <2>2. QED
        BY <2>1 DEF Made
<1>2. Cardinality(Made) = 0
    BY <1>1, NothingPending
<1>3. QED
    BY <1>2 DEF Init, FirstPhase, ExactInv, PreciseCreate, NoCount, DiagKeys

(* What one item of such a round says of its line *)
LEMMA CreateItem ==
    ASSUME TypeOK, PreciseCreate, NEW st \in Answers, ExactlyExecuted(st),
           NEW l \in pending, docs[l] = before[l]
    PROVE  /\ l \in Lines /\ op[l] = "create"
           /\ Ok(st[l]) <=> docs'[l] > before[l]
           /\ Rejected(op[l], st[l]) => docs'[l] = before[l]
<1>1. l \in Lines
    BY DEF TypeOK
<1>2. op[l] = "create" /\ cfg.id_field
    BY <1>1, OnlyCreates
<1>3. docs[l] \in {0, 1} /\ before[l] \in {0, 1}
    BY <1>1 DEF TypeOK
<1>4. st[l] = Executed(l) \/ st[l] \in (400..599) \ {409}
    BY <1>2, ShipAssumption DEF Answers, Refused
<1>5. CASE st[l] = Executed(l)
    <2>1. docs'[l] = 1
        BY <1>1, <1>2, <1>5 DEF ExactlyExecuted, After
    <2>2. st[l] = IF docs[l] > 0 THEN 409 ELSE 200
        BY <1>2, <1>5 DEF Executed
    <2>3. QED
        BY <1>1, <1>2, <1>3, <2>1, <2>2 DEF Ok, Rejected, Classify
<1>6. CASE st[l] # Executed(l)
    <2>1. docs'[l] = docs[l]
        BY <1>1, <1>6 DEF ExactlyExecuted
    <2>2. ~Ok(st[l])
        BY <1>4, <1>6 DEF Ok
    <2>3. QED
        BY <1>1, <1>2, <1>3, <2>1, <2>2
<1>7. QED
    BY <1>5, <1>6

LEMMA StepExact == TypeOK /\ ExactInv /\ [Next]_vars => ExactInv'
<1> SUFFICES ASSUME TypeOK, ExactInv, [Next]_vars, UNCHANGED env, PreciseCreate, ~unknown'
             PROVE  ExactInv'
    BY EnvFixed DEF env, PreciseCreate, ExactInv
<1>0. /\ counts \in Count /\ diag \in [DiagKeys -> Nat] /\ Cardinality(Made) \in Nat
      /\ "docs_deduped" \in DiagKeys /\ before' = before
    <2>1. Made \in SUBSET Lines
        BY DEF Made
    <2>2. QED
        BY <2>1, LinesFinite DEF TypeOK, DiagKeys, env
<1>1. ASSUME NEW loss \in Losses, TransportResend(loss) PROVE ExactInv'
    <2>1. ~unknown /\ docs' = docs
        BY <1>1, LostKnown DEF TransportResend
    <2>2. Made' = Made
        BY <2>1, <1>0 DEF Made
    <2>3. QED
        BY <2>1, <2>2, <1>0, <1>1 DEF TransportResend, tally, ExactInv, Shipping
<1>2. ASSUME NEW loss \in Losses, ConnectorResend(loss) PROVE ExactInv'
    <2>1. ~unknown /\ docs' = docs
        BY <1>2, LostKnown DEF ConnectorResend
    <2>2. Made' = Made
        BY <2>1, <1>0 DEF Made
    <2>3. QED
        BY <2>1, <2>2, <1>0, <1>2 DEF ConnectorResend, tally, ExactInv, Shipping
<1>3. ASSUME NEW loss \in Losses, FailClosed(loss) PROVE ExactInv'
    <2>1. ~unknown /\ docs' = docs
        BY <1>3, LostKnown DEF FailClosed
    <2>2. Made' = Made
        BY <2>1, <1>0 DEF Made
    <2>3. counts'.written = counts.written /\ counts'.ignored = counts.ignored
        BY <1>3, <1>0 DEF FailClosed, CountPending, Count
    <2>4. QED
        BY <2>1, <2>2, <2>3, <1>0, <1>3 DEF FailClosed, ExactInv, Shipping
<1>4. CASE ProbeAnswered
    <2>1. ~unknown /\ phase = "probe"
        BY <1>4 DEF ProbeAnswered, TypeOK
    <2>2. QED
        BY <2>1 DEF ExactInv
<1>5. CASE FullAnswered
    <2>1. PICK st \in Answers, D \in Itemized :
              /\ \E E \in Effects(st) : Apply(E)
              /\ unknown' = (unknown \/ Unclear(st) # {})
              /\ counts' = TallyOf(st, D \ Retries(st, D))
              /\ diag' = DiagOf(st, D, Retries(st, D))
              /\ NextRound(Retries(st, D))
        BY <1>5 DEF FullAnswered
    <2> DEFINE R == Retries(st, D)
    <2>2. ~unknown /\ ExactlyExecuted(st)
        BY <2>1, AnsweredKnown
    <2>3. phase = "full" /\ Shipping /\ D = pending /\ pending \in SUBSET Lines
        BY <1>5 DEF FullAnswered, Shipping, Itemized, PreciseCreate, TypeOK
    <2>4. /\ \A l \in pending : docs[l] = before[l]
          /\ counts.written = Cardinality(Made)
          /\ diag["docs_deduped"] = counts.ignored
        BY <2>2, <2>3 DEF ExactInv
    <2>5. \A l \in pending :
              /\ op[l] = "create"
              /\ Ok(st[l]) <=> docs'[l] > before[l]
              /\ Rejected(op[l], st[l]) => docs'[l] = before[l]
        BY <2>2, <2>4, CreateItem
    <2> DEFINE W == Having(st, D \ R, "written")
               I == Having(st, D \ R, "ignored")
    <2>6. W = {l \in pending : docs'[l] > before[l]}
        <3>1. ASSUME NEW l \in pending PROVE Ok(st[l]) => l \notin R
            BY DEF Retries, Rejected
        <3>2. ASSUME NEW l \in pending
              PROVE  Classify(op[l], st[l]) = "written" <=> Ok(st[l])
            BY <2>5 DEF Classify, Ok
        <3>3. QED
            BY <3>1, <3>2, <2>3, <2>5 DEF Having
    <2>7. I = Deduped(st, D \ R)
        <3>1. ASSUME NEW l \in pending
              PROVE  Classify(op[l], st[l]) = "ignored" <=> st[l] = 409
            BY <2>5 DEF Classify, Ok
        <3>2. D \ R \in SUBSET pending
            BY <2>3
        <3>3. QED
            BY <3>1, <3>2, <2>5 DEF Having, Deduped
    <2>8. Made' = Made \cup W /\ Made \cap W = {}
        <3>1. ASSUME NEW l \in Lines, l \notin pending PROVE docs'[l] = docs[l]
            BY <3>1, <2>2 DEF ExactlyExecuted
        <3>2. ASSUME NEW l \in pending PROVE l \notin Made
            BY <2>3, <2>4, <1>0 DEF Made, TypeOK
        <3>3. QED
            BY <3>1, <3>2, <2>3, <2>6, <1>0 DEF Made
    <2>9. Cardinality(Made') = Cardinality(Made) + Cardinality(W)
        <3>1. W \in SUBSET Lines /\ Made \in SUBSET Lines
            BY <2>3, <2>6 DEF Made
        <3> HIDE DEF W
        <3>2. QED
            BY <3>1, <2>8, TwoClasses
    <2>10. counts'.written = counts.written + Cardinality(W)
           /\ counts'.ignored = counts.ignored + Cardinality(I)
        BY <2>1 DEF TallyOf
    <2>11. diag'["docs_deduped"] = diag["docs_deduped"] + Cardinality(Deduped(st, D \ R))
        BY <2>1, <1>0 DEF DiagOf
    <2>12. \A l \in pending' : docs'[l] = before'[l]
        <3>1. pending' = R
            BY <2>1 DEF NextRound
        <3>2. ASSUME NEW l \in R PROVE l \in pending /\ Rejected(op[l], st[l])
            BY <2>3 DEF Retries
        <3>3. QED
            BY <3>1, <3>2, <2>5, <1>0
    <2>13. phase' # "probe"
        BY <2>1, <2>3 DEF NextRound
    <2>14. counts'.written = Cardinality(Made') /\ diag'["docs_deduped"] = counts'.ignored
        BY <2>4, <2>7, <2>9, <2>10, <2>11
    <2>15. QED
        BY <2>12, <2>13, <2>14 DEF ExactInv
<1>6. CASE FullUnreadable
    BY <1>6 DEF FullUnreadable
<1>7. CASE UNCHANGED vars
    <2>1. Made' = Made
        BY <1>7 DEF vars, env, Made
    <2>2. QED
        BY <2>1, <1>7 DEF vars, env, tally, ExactInv, PreciseCreate, Shipping
<1>8. QED
    BY <1>1, <1>2, <1>3, <1>4, <1>5, <1>6, <1>7 DEF Next

(* op_type = "create" with bypass_fast_path: `written` and `docs_deduped`  *)
(* are exact unless the effect of some request is unknown, for chunks of   *)
(* every size and every number of rounds.                                  *)
THEOREM ExactCreateCountsHold == Spec => []ExactCreateCountsWhenKnown
<1>1. Init => TypeOK /\ ExactInv
    BY InitTyped, InitExact
<1>2. (TypeOK /\ ExactInv) /\ [Next]_vars => (TypeOK /\ ExactInv)'
    BY StepTyped, StepExact
<1>3. ExactInv => ExactCreateCountsWhenKnown
    BY DEF ExactInv, ExactCreateCountsWhenKnown, CreateCountsExact, Made
<1>4. QED
    BY <1>1, <1>2, <1>3, PTL DEF Spec

-----------------------------------------------------------------------------
(* Three layers send again: how many requests that makes                    *)

Tries == 1 + cfg.transport_max_retries

(* Requests that may follow the one under way in this _send_retrying call:  *)
(* each of the connector's re-sends starts the client's budget afresh.      *)
RestOfSend == (cfg.transport_max_retries - resends) * Tries
              + (cfg.transport_max_retries - http)

(* _send_retrying calls that may follow this one                            *)
SendsToCome == cfg.max_retries_per_doc - attempt + (IF phase = "probe" THEN 1 ELSE 0)

(* The requests this chunk may still cost, the one under way included       *)
RequestsLeft == IF Shipping THEN SendsToCome * (Tries * Tries) + RestOfSend + 1 ELSE 0

RequestsAllowed == (2 + cfg.max_retries_per_doc) * (Tries * Tries)

(* Every step of a call is the end of one request, and leaves fewer of them. *)
RequestsDecrease == [][RequestsLeft' < RequestsLeft]_vars

LEMMA Distributes ==
    ASSUME NEW a \in Int, NEW k \in Int
    PROVE  a * k \in Int /\ (a - 1) * k = a * k - k /\ (1 + a) * k = a * k + k
OBVIOUS

LEMMA ProductNat == ASSUME NEW a \in Nat, NEW k \in Nat PROVE a * k \in Nat
OBVIOUS

LEMMA ProductMonotone ==
    ASSUME NEW a \in Nat, NEW b \in Nat, NEW k \in Nat, a <= b PROVE a * k <= b * k
<1>1. PICK d \in Nat : b = a + d
    <2>1. b - a \in Nat /\ b = a + (b - a)
        OBVIOUS
    <2>2. QED
        BY <2>1
<1>2. b * k = a * k + d * k /\ d * k \in Nat /\ a * k \in Nat
    BY <1>1, ProductNat
<1>3. QED
    BY <1>2

LEMMA BudgetsTyped ==
    ASSUME TypeOK
    PROVE  /\ cfg.transport_max_retries \in Nat /\ cfg.max_retries_per_doc \in Nat
           /\ resends \in 0..cfg.transport_max_retries /\ http \in 0..cfg.transport_max_retries
           /\ attempt \in 0..cfg.max_retries_per_doc
           /\ Tries \in Nat /\ Tries * Tries \in Nat
           /\ SendsToCome \in 0..(1 + cfg.max_retries_per_doc)
           /\ RestOfSend \in 0..(Tries * Tries - 1)
<1>1. /\ cfg.transport_max_retries \in Nat /\ cfg.max_retries_per_doc \in Nat
      /\ resends \in 0..cfg.transport_max_retries /\ http \in 0..cfg.transport_max_retries
      /\ attempt \in 0..cfg.max_retries_per_doc
    BY ConfigAccepted DEF TypeOK, WriteConfig, Accepted, ConnectionAccepted
<1>2. Tries \in Nat /\ Tries * Tries \in Nat
    <2>1. Tries \in Nat
        BY <1>1 DEF Tries
    <2>2. QED
        BY <2>1, ProductNat
<1>3. SendsToCome \in 0..(1 + cfg.max_retries_per_doc)
    BY <1>1 DEF SendsToCome
<1> DEFINE T == cfg.transport_max_retries
           left == T - resends
<1>4. left \in Nat /\ left <= T
    BY <1>1
<1>5. left * Tries \in Nat /\ left * Tries <= T * Tries
    BY <1>1, <1>2, <1>4, ProductNat, ProductMonotone
<1>6. Tries * Tries = T * Tries + Tries
    <2>1. (1 + T) * Tries = T * Tries + Tries
        BY <1>1, <1>2, Distributes
    <2>2. QED
        BY <2>1 DEF Tries
<1>7. T * Tries \in Nat
    BY <1>1, <1>2, ProductNat
<1>8. RestOfSend = left * Tries + (T - http)
    BY DEF RestOfSend
<1> HIDE DEF left
<1>9. RestOfSend \in 0..(Tries * Tries - 1)
    <2>1. Tries = 1 + T
        BY DEF Tries
    <2> HIDE DEF T
    <2> DEFINE x == left * Tries
               y == T * Tries
    <2>2. x \in Nat /\ y \in Nat /\ x <= y /\ Tries * Tries = y + (1 + T) /\ RestOfSend = x + (T - http)
        BY <1>5, <1>6, <1>7, <1>8, <2>1
    <2>3. T \in Nat /\ http \in 0..T
        BY <1>1 DEF T
    <2> HIDE DEF x, y
    <2>4. QED
        BY <2>2, <2>3
<1>10. QED
    BY <1>1, <1>2, <1>3, <1>9

LEMMA RequestsTyped == TypeOK => RequestsLeft \in 0..RequestsAllowed
<1> SUFFICES ASSUME TypeOK PROVE RequestsLeft \in 0..RequestsAllowed
    OBVIOUS
<1> DEFINE C == Tries * Tries
           m == cfg.max_retries_per_doc
<1>1. /\ m \in Nat /\ C \in Nat /\ SendsToCome \in 0..(1 + m) /\ RestOfSend \in 0..(C - 1)
    BY BudgetsTyped
<1>2. /\ RequestsLeft = IF Shipping THEN SendsToCome * C + RestOfSend + 1 ELSE 0
      /\ RequestsAllowed = (1 + (1 + m)) * C
    BY <1>1 DEF RequestsLeft, RequestsAllowed
<1> HIDE DEF C, m
<1>3. SendsToCome * C \in Nat /\ SendsToCome * C <= (1 + m) * C /\ (1 + m) * C \in Nat
    BY <1>1, ProductNat, ProductMonotone
<1>4. (1 + (1 + m)) * C = (1 + m) * C + C
    BY <1>1, Distributes
<1>5. QED
    BY <1>1, <1>2, <1>3, <1>4

(* The next request of a call                                               *)
LEMMA SameCall ==
    ASSUME TypeOK, cfg' = cfg, Shipping, Shipping', phase' = phase, attempt' = attempt,
           \/ resends' = resends /\ http' = http + 1
           \/ resends' = resends + 1 /\ http' = 0
    PROVE  RequestsLeft' < RequestsLeft
<1> DEFINE T == cfg.transport_max_retries
<1>1. /\ T \in Nat /\ resends \in 0..T /\ http \in 0..T /\ Tries \in Nat
      /\ SendsToCome \in Int /\ RestOfSend \in Int /\ Tries * Tries \in Int
    BY BudgetsTyped
<1>2. Tries' = Tries /\ SendsToCome' = SendsToCome /\ Tries = 1 + T
    BY DEF Tries, SendsToCome
<1>3. RestOfSend' < RestOfSend /\ RestOfSend' \in Int
    <2> DEFINE left == T - resends
    <2>1. left \in Int /\ left * Tries \in Int /\ (left - 1) * Tries = left * Tries - Tries
        BY <1>1, Distributes
    <2>2. RestOfSend = left * Tries + (T - http)
        BY DEF RestOfSend
    <2>3. CASE resends' = resends /\ http' = http + 1
        <3>1. RestOfSend' = left * Tries + (T - (http + 1))
            BY <1>2, <2>3 DEF RestOfSend
        <3> HIDE DEF left, T
        <3>2. QED
            BY <1>1, <2>1, <2>2, <3>1
    <2>4. CASE resends' = resends + 1 /\ http' = 0
        <3>1. RestOfSend' = (left - 1) * Tries + (T - 0)
            <4>1. T - (resends + 1) = left - 1
                BY <1>1
            <4>2. RestOfSend' = (T - (resends + 1)) * Tries + (T - 0)
                BY <1>2, <2>4 DEF RestOfSend
            <4>3. QED
                BY <4>1, <4>2
        <3> HIDE DEF left, T
        <3>2. QED
            BY <1>1, <1>2, <2>1, <2>2, <3>1
    <2>5. QED
        BY <2>3, <2>4
<1> DEFINE x == SendsToCome * (Tries * Tries)
<1>4. x \in Int
    BY <1>1, Distributes
<1>5. RequestsLeft = x + RestOfSend + 1 /\ RequestsLeft' = x + RestOfSend' + 1
    BY <1>2 DEF RequestsLeft
<1> HIDE DEF x
<1>6. \A r, s, y \in Int : s < r => y + s + 1 < y + r + 1
    OBVIOUS
<1>7. x + RestOfSend' + 1 < x + RestOfSend + 1
    BY <1>1, <1>3, <1>4, <1>6
<1>8. QED
    BY <1>5, <1>7

(* A new call, of which one fewer follows                                   *)
LEMMA NextCall ==
    ASSUME TypeOK, cfg' = cfg, Shipping, Shipping', SendsToCome' = SendsToCome - 1, NewSend
    PROVE  RequestsLeft' < RequestsLeft
<1> DEFINE T == cfg.transport_max_retries
           C == Tries * Tries
           x == SendsToCome * C
<1>1. /\ T \in Nat /\ Tries \in Nat /\ C \in Nat
      /\ SendsToCome \in Int /\ RestOfSend \in 0..(C - 1)
    BY BudgetsTyped
<1>2. Tries' = Tries /\ Tries = 1 + T
    BY DEF Tries
<1>3. RestOfSend' + 1 = C
    <2>1. RestOfSend' = (T - 0) * Tries + (T - 0)
        BY <1>2 DEF RestOfSend, NewSend
    <2>2. (1 + T) * Tries = T * Tries + Tries /\ T * Tries \in Int
        BY <1>1, Distributes
    <2>3. T - 0 = T
        BY <1>1
    <2>4. C = T * Tries + (1 + T)
        BY <1>2, <2>2
    <2>5. RestOfSend' = T * Tries + T
        BY <2>1, <2>3
    <2> DEFINE y == T * Tries
    <2> HIDE DEF y, T, C
    <2>6. y \in Int /\ C = y + (1 + T) /\ RestOfSend' = y + T
        BY <2>2, <2>4, <2>5 DEF y
    <2>7. QED
        BY <1>1, <2>6
<1>4. x \in Int /\ (SendsToCome - 1) * C = x - C
    BY <1>1, Distributes
<1>5. RequestsLeft = x + RestOfSend + 1
    BY DEF RequestsLeft
<1>6. RequestsLeft' = (SendsToCome - 1) * C + RestOfSend' + 1
    BY <1>2 DEF RequestsLeft
<1> HIDE DEF x, C
<1>7. RestOfSend' \in Int
    <2>1. (T - 0) * Tries \in Int
        BY <1>1, Distributes
    <2>2. RestOfSend' = (T - 0) * Tries + (T - 0)
        BY <1>2 DEF RestOfSend, NewSend
    <2>3. QED
        BY <1>1, <2>1, <2>2
<1>8. \A y, c, r, s \in Int : r + 1 = c /\ s >= 0 => (y - c) + r + 1 < y + s + 1
    OBVIOUS
<1>9. C \in Int /\ RestOfSend \in Int /\ RestOfSend >= 0
    BY <1>1
<1>10. (x - C) + RestOfSend' + 1 < x + RestOfSend + 1
    BY <1>3, <1>4, <1>7, <1>8, <1>9
<1>11. QED
    BY <1>4, <1>5, <1>6, <1>10

LEMMA CallEnds ==
    ASSUME TypeOK, Shipping, ~Shipping' PROVE RequestsLeft' < RequestsLeft
<1>1. RequestsLeft' = 0
    BY DEF RequestsLeft
<1>2. SendsToCome \in Nat /\ Tries * Tries \in Nat /\ RestOfSend \in Nat
    BY BudgetsTyped
<1>3. SendsToCome * (Tries * Tries) \in Nat
    BY <1>2, ProductNat
<1> DEFINE x == SendsToCome * (Tries * Tries)
<1>4. RequestsLeft = x + RestOfSend + 1
    BY DEF RequestsLeft
<1> HIDE DEF x
<1>5. x \in Nat
    BY <1>3 DEF x
<1>6. QED
    BY <1>1, <1>2, <1>4, <1>5

LEMMA StepSpends == TypeOK /\ Next => RequestsLeft' < RequestsLeft
<1> SUFFICES ASSUME TypeOK, Next PROVE RequestsLeft' < RequestsLeft
    OBVIOUS
<1>0. cfg' = cfg /\ Shipping
    BY EnvFixed DEF Next, env, TransportResend, ConnectorResend, FailClosed, ProbeAnswered,
       FullAnswered, FullUnreadable, Shipping
<1>1. ASSUME NEW loss \in Losses, TransportResend(loss) PROVE RequestsLeft' < RequestsLeft
    <2>1. phase' = phase /\ attempt' = attempt /\ resends' = resends /\ http' = http + 1
        BY <1>1 DEF TransportResend
    <2>2. QED
        BY <1>0, <2>1, SameCall DEF Shipping
<1>2. ASSUME NEW loss \in Losses, ConnectorResend(loss) PROVE RequestsLeft' < RequestsLeft
    <2>1. phase' = phase /\ attempt' = attempt /\ resends' = resends + 1 /\ http' = 0
        BY <1>2 DEF ConnectorResend
    <2>2. QED
        BY <1>0, <2>1, SameCall DEF Shipping
<1>3. ASSUME NEW loss \in Losses, FailClosed(loss) PROVE RequestsLeft' < RequestsLeft
    BY <1>0, <1>3, CallEnds DEF FailClosed, Shipping
<1>4. CASE ProbeAnswered
    <2>1. CASE phase' = "done"
        BY <1>0, <2>1, CallEnds DEF Shipping
    <2>2. CASE Reship
        <3>1. phase = "probe" /\ phase' = "full" /\ attempt' = attempt /\ NewSend
            BY <1>4, <2>2 DEF ProbeAnswered, Reship
        <3>2. SendsToCome' = SendsToCome - 1
            BY <1>0, <3>1, BudgetsTyped DEF SendsToCome
        <3>3. QED
            BY <1>0, <3>1, <3>2, NextCall DEF Shipping
    <2>3. QED
        BY <1>4, <2>1, <2>2 DEF ProbeAnswered
<1>5. CASE FullAnswered
    <2>1. PICK R : NextRound(R)
        BY <1>5 DEF FullAnswered
    <2>2. CASE R = {}
        BY <1>0, <2>1, <2>2, CallEnds DEF NextRound, Shipping
    <2>3. CASE R # {}
        <3>1. phase = "full" /\ phase' = "full" /\ attempt' = attempt + 1 /\ NewSend
            BY <1>5, <2>1, <2>3 DEF FullAnswered, NextRound
        <3>2. SendsToCome' = SendsToCome - 1
            BY <1>0, <3>1, BudgetsTyped DEF SendsToCome
        <3>3. QED
            BY <1>0, <3>1, <3>2, NextCall DEF Shipping
    <2>4. QED
        BY <2>2, <2>3
<1>6. CASE FullUnreadable
    BY <1>0, <1>6, CallEnds DEF FullUnreadable, Shipping
<1>7. QED
    BY <1>1, <1>2, <1>3, <1>4, <1>5, <1>6 DEF Next

(* The retries of three layers do not multiply without end: a chunk costs   *)
(* at most (2 + max_retries_per_doc) * (1 + transport_max_retries)^2        *)
(* requests, whatever is lost, refused or half executed.                    *)
THEOREM RequestsBounded == Spec => [](RequestsLeft \in 0..RequestsAllowed) /\ RequestsDecrease
<1>1. TypeOK /\ [Next]_vars => [RequestsLeft' < RequestsLeft]_vars
    BY StepSpends
<1>2. QED
    BY <1>1, RequestsTyped, TypeCorrect, PTL DEF Spec, RequestsDecrease

=============================================================================
