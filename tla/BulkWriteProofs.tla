---------------------------- MODULE BulkWriteProofs ----------------------------
(***************************************************************************)
(* Proofs about BulkWrite, for every frame, configuration, number of       *)
(* partitions and of task failures: what a result and a summary say of the *)
(* rows, the contract with the caller, and how often a partition is        *)
(* written.                                                                *)
(***************************************************************************)
EXTENDS BulkWrite, SumProofs

(* What bulk_write starts from does not change. *)
LEMMA InputFixed == [Next]_vars => UNCHANGED fixed
BY DEF Next, Driver, Preflight, PreflightFails, Conclude, TaskStarts, TaskWrites, TaskEmits,
       TaskFails, TaskKilled, fixed, vars

(* The parts of the state that the arguments below look at *)
TasksTyped ==
    /\ frame \in Frame /\ IsFiniteSet(frame.rows) /\ cfg \in WriteConfig /\ Accepted(cfg)
    /\ task \in [Partitions -> {"queued", "running", "done"}]
    /\ summary \in [Partitions -> [counts : Count, samples : 0..SampleCap, total_input : Nat]]
    /\ pc \in {"preflight", "collect", "returned", "raised"}

LEMMA RowsPlaced ==
    ASSUME TasksTyped, NEW r \in frame.rows
    PROVE  r.part \in Partitions /\ r \in RowsOf(r.part)
BY DEF TasksTyped, Frame, Row, RowsOf

(* What a task may emit *)
LEMMA SummariesTyped ==
    ASSUME NEW n \in Nat, NEW s \in Summaries(n)
    PROVE  /\ s \in [counts : Count, samples : 0..SampleCap, total_input : Nat]
           /\ s.total_input = n
<1>1. PICK r \in Reports(n, SampleCap, miscount \/ cfg.chunk_size < 0)
                 \cup Reports(n + 1, SampleCap, FALSE) :
          s = [counts |-> r.counts, samples |-> r.samples, total_input |-> n]
    BY DEF Summaries
<1>2. r.counts \in Count /\ r.samples \in 0..SampleCap
    BY <1>1 DEF Reports, Count
<1>3. QED
    BY <1>1, <1>2

LEMMA InitTasks == Init => TasksTyped
<1> SUFFICES ASSUME Init PROVE TasksTyped
    OBVIOUS
<1>1. NoSummary \in [counts : Count, samples : 0..SampleCap, total_input : Nat]
    BY BulkAssumption DEF NoSummary, NoCount, Count
<1>2. QED
    BY <1>1, BulkAssumption DEF Init, TasksTyped

LEMMA StepTasks == TasksTyped /\ [Next]_vars => TasksTyped'
<1> SUFFICES ASSUME TasksTyped, [Next]_vars PROVE TasksTyped'
    OBVIOUS
<1>0. frame' = frame /\ cfg' = cfg
    BY InputFixed DEF fixed
<1>1. ASSUME NEW p \in Partitions, TaskStarts(p) PROVE TasksTyped'
    BY <1>0, <1>1 DEF TaskStarts, TasksTyped
<1>2. ASSUME NEW p \in Partitions, TaskWrites(p) PROVE TasksTyped'
    BY <1>0, <1>2 DEF TaskWrites, TasksTyped
<1>3. ASSUME NEW p \in Partitions, TaskEmits(p) PROVE TasksTyped'
    <2>1. PICK s \in Summaries(Cardinality(RowsOf(p))) : summary' = [summary EXCEPT ![p] = s]
        BY <1>3 DEF TaskEmits
    <2>2. Cardinality(RowsOf(p)) \in Nat
        <3>1. IsFiniteSet(frame.rows) /\ RowsOf(p) \in SUBSET frame.rows
            BY DEF TasksTyped, RowsOf
        <3>2. QED
            BY <3>1, FS_Subset, FS_CardinalityType
    <2>3. s \in [counts : Count, samples : 0..SampleCap, total_input : Nat]
        BY <2>2, SummariesTyped
    <2>4. QED
        BY <1>0, <1>3, <2>1, <2>3 DEF TaskEmits, TasksTyped
<1>4. ASSUME NEW p \in Partitions, TaskFails(p) PROVE TasksTyped'
    BY <1>0, <1>4 DEF TaskFails, TasksTyped
<1>5. ASSUME NEW p \in Partitions, TaskKilled(p) PROVE TasksTyped'
    BY <1>0, <1>5 DEF TaskKilled, TasksTyped
<1>6. CASE Driver
    BY <1>0, <1>6 DEF Driver, Preflight, PreflightFails, Conclude, TasksTyped
<1>7. CASE UNCHANGED vars
    BY <1>0, <1>7 DEF vars, TasksTyped
<1>8. QED
    BY <1>1, <1>2, <1>3, <1>4, <1>5, <1>6, <1>7 DEF Next

-----------------------------------------------------------------------------
(* Null ids *)

NullInv ==
    /\ \A r \in frame.rows : (cfg.id_field /\ r.null_id) => r \notin present
    /\ \A p \in Partitions : task[p] = "done" => Shippable(p) = RowsOf(p)
    /\ pc = "returned" => \A p \in Partitions : task[p] = "done"

(* Executing lines that are not null gives no row with a null id a document. *)
LEMMA NullsStayOut ==
    ASSUME NEW E, Execute(E), NEW r, cfg.id_field, r.null_id, r \notin present
    PROVE  r \notin present'
BY DEF Execute, Line

LEMMA InitNull == Init => NullInv
BY DEF Init, NullInv

LEMMA StepNull == NullInv /\ TasksTyped /\ [Next]_vars => NullInv'
<1> SUFFICES ASSUME NullInv, TasksTyped, [Next]_vars PROVE NullInv'
    OBVIOUS
<1>0. /\ UNCHANGED fixed
      /\ \A p : Shippable(p)' = Shippable(p) /\ RowsOf(p)' = RowsOf(p)
    BY InputFixed DEF fixed, Shippable, RowsOf, Line, Flagged
<1>1. ASSUME NEW p \in Partitions, TaskStarts(p) PROVE NullInv'
    BY <1>0, <1>1 DEF TaskStarts, TasksTyped, NullInv, fixed
<1>2. ASSUME NEW p \in Partitions, TaskWrites(p) PROVE NullInv'
    <2>1. PICK r \in Shippable(p) : Execute({r})
        BY <1>2 DEF TaskWrites
    <2>2. QED
        BY <1>0, <1>2, <2>1, NullsStayOut DEF TaskWrites, NullInv, fixed
<1>3. ASSUME NEW p \in Partitions, TaskEmits(p) PROVE NullInv'
    <2>1. PICK E \in SUBSET RowsOf(p) : Execute(E)
        BY <1>3 DEF TaskEmits
    <2>2. QED
        BY <1>0, <1>3, <2>1, NullsStayOut DEF TaskEmits, TasksTyped, NullInv, fixed
<1>4. ASSUME NEW p \in Partitions, TaskFails(p) PROVE NullInv'
    BY <1>0, <1>4 DEF TaskFails, TasksTyped, NullInv, fixed
<1>5. ASSUME NEW p \in Partitions, TaskKilled(p) PROVE NullInv'
    BY <1>0, <1>5 DEF TaskKilled, TasksTyped, NullInv, fixed
<1>6. CASE Driver
    BY <1>0, <1>6 DEF Driver, Preflight, PreflightFails, Conclude, NullInv, fixed
<1>7. CASE UNCHANGED vars
    BY <1>0, <1>7 DEF vars, NullInv, fixed
<1>8. QED
    BY <1>1, <1>2, <1>3, <1>4, <1>5, <1>6, <1>7 DEF Next

(* A write with a null id never returns and never gives that row a         *)
(* document, in whichever partition it is and however tasks fail.          *)
THEOREM NullIdRaisesHolds == Spec => []NullIdRaises
<1>1. Init => NullInv /\ TasksTyped
    BY InitNull, InitTasks
<1>2. (NullInv /\ TasksTyped) /\ [Next]_vars => (NullInv /\ TasksTyped)'
    BY StepNull, StepTasks
<1>3. NullInv /\ TasksTyped => NullIdRaises
    <2> SUFFICES ASSUME NullInv, TasksTyped, NEW r \in frame.rows, cfg.id_field, r.null_id
                 PROVE  r \notin present /\ pc # "returned"
        BY DEF NullIdRaises
    <2>1. r \in RowsOf(r.part) /\ r \notin Shippable(r.part) /\ r.part \in Partitions
        BY RowsPlaced DEF Shippable, Line
    <2>2. QED
        BY <2>1 DEF NullInv
<1>4. QED
    BY <1>1, <1>2, <1>3, PTL DEF Spec

-----------------------------------------------------------------------------
(* Clean partitions *)

LandedInv ==
    /\ pc = "preflight" => \A p \in Partitions : task[p] = "queued"
    /\ \A p \in Partitions : task[p] # "queued" => PreflightOk
    /\ pc = "collect" => PreflightOk
    /\ \A p \in Partitions :
           (task[p] = "done" /\ Clean(summary[p], summary[p].total_input)) =>
               \A r \in RowsOf(p) : LandedIn(r, present)

(* What is executed for one partition leaves the rows of another alone. *)
LEMMA OthersKept ==
    ASSUME NEW p, NEW q, p # q, NEW E \in SUBSET RowsOf(p), Execute(E), UNCHANGED fixed,
           NEW r \in RowsOf(q), LandedIn(r, present)
    PROVE  LandedIn(r, present)'
<1>1. r \notin E
    BY DEF RowsOf
<1>2. r \in present' <=> r \in present
    BY <1>1 DEF Execute
<1>3. Line(r)' = Line(r)
    BY DEF fixed, Line, Flagged
<1>4. QED
    BY <1>2, <1>3 DEF LandedIn

LEMMA InitLanded == Init => LandedInv
BY DEF Init, LandedInv

LEMMA StepLanded == LandedInv /\ TasksTyped /\ [Next]_vars => LandedInv'
<1> SUFFICES ASSUME LandedInv, TasksTyped, [Next]_vars PROVE LandedInv'
    OBVIOUS
<1>0. /\ UNCHANGED fixed /\ PreflightOk' = PreflightOk
      /\ \A p : RowsOf(p)' = RowsOf(p)
      /\ \A r : Line(r)' = Line(r)
    BY InputFixed DEF fixed, PreflightOk, RowsOf, Line, Flagged
<1>1. ASSUME NEW p \in Partitions, TaskStarts(p) PROVE LandedInv'
    BY <1>0, <1>1 DEF TaskStarts, TasksTyped, LandedInv, LandedIn
<1>2. ASSUME NEW p \in Partitions, TaskWrites(p) PROVE LandedInv'
    <2>1. PICK r \in Shippable(p) : Execute({r})
        BY <1>2 DEF TaskWrites
    <2>2. {r} \in SUBSET RowsOf(p) /\ task[p] = "running"
        BY <1>2 DEF TaskWrites, Shippable
    <2>3. ASSUME NEW q \in Partitions, task[q] = "done", Clean(summary[q], summary[q].total_input),
                 NEW o \in RowsOf(q)
          PROVE  LandedIn(o, present)'
        BY <1>0, <2>1, <2>2, <2>3, OthersKept DEF LandedInv
    <2>4. QED
        BY <1>0, <1>2, <2>3 DEF TaskWrites, LandedInv, LandedIn
<1>3. ASSUME NEW p \in Partitions, TaskEmits(p) PROVE LandedInv'
    <2>1. PICK s \in Summaries(Cardinality(RowsOf(p))), E \in SUBSET RowsOf(p) :
              /\ Execute(E)
              /\ Clean(s, s.total_input) => \A r \in RowsOf(p) : LandedIn(r, present')
              /\ summary' = [summary EXCEPT ![p] = s]
        BY <1>3 DEF TaskEmits
    <2>2. ASSUME NEW q \in Partitions, task'[q] = "done",
                 Clean(summary'[q], summary'[q].total_input), NEW o \in RowsOf(q)
          PROVE  LandedIn(o, present)'
        <3>1. CASE q = p
            BY <1>0, <2>1, <2>2, <3>1 DEF TasksTyped, LandedIn
        <3>2. CASE q # p
            <4>1. task[q] = "done" /\ summary'[q] = summary[q]
                BY <1>3, <2>1, <2>2, <3>2 DEF TaskEmits, TasksTyped
            <4>2. LandedIn(o, present)
                BY <2>2, <4>1 DEF LandedInv
            <4>3. QED
                BY <1>0, <2>1, <3>2, <4>2, OthersKept
        <3>3. QED
            BY <3>1, <3>2
    <2>3. PreflightOk /\ pc' = "collect"
        BY <1>3 DEF TaskEmits, LandedInv
    <2>4. QED
        BY <1>0, <2>2, <2>3 DEF LandedInv, LandedIn
<1>4. ASSUME NEW p \in Partitions, TaskFails(p) PROVE LandedInv'
    <2>1. PreflightOk
        BY <1>4 DEF TaskFails, LandedInv
    <2>2. /\ pc' # "preflight" /\ summary' = summary /\ present' = present
          /\ \A q \in Partitions : task'[q] = "done" => task[q] = "done"
        BY <1>4 DEF TaskFails, TasksTyped
    <2>3. QED
        BY <1>0, <2>1, <2>2 DEF LandedInv, LandedIn
<1>5. ASSUME NEW p \in Partitions, TaskKilled(p) PROVE LandedInv'
    <2>1. PreflightOk
        BY <1>5 DEF TaskKilled, LandedInv
    <2>2. /\ pc' # "preflight" /\ summary' = summary /\ present' = present
          /\ \A q \in Partitions : task'[q] = "done" => task[q] = "done"
        BY <1>5 DEF TaskKilled, TasksTyped
    <2>3. QED
        BY <1>0, <2>1, <2>2 DEF LandedInv, LandedIn
<1>6. CASE Driver
    <2>1. /\ task' = task /\ summary' = summary /\ present' = present
          /\ pc' # "preflight" /\ (pc' = "collect" => PreflightOk)
        BY <1>6 DEF Driver, Preflight, PreflightFails, Conclude
    <2>2. QED
        BY <1>0, <2>1 DEF LandedInv, LandedIn
<1>7. CASE UNCHANGED vars
    BY <1>0, <1>7 DEF vars, LandedInv, LandedIn
<1>8. QED
    BY <1>1, <1>2, <1>3, <1>4, <1>5, <1>6, <1>7 DEF Next

(* The rows of a partition whose task is done with a clean summary are      *)
(* where the caller wants them: the upserts present, the rows flagged true  *)
(* gone.                                                                    *)
CleanPartitionLanded ==
    \A p \in Partitions :
        (task[p] = "done" /\ Clean(summary[p], summary[p].total_input)) =>
            \A r \in RowsOf(p) : AsIntended(r)

(* Given the checks on the driver, the line of a row that is not null says *)
(* what the caller wants.                                                  *)
LEMMA LineSaysIt ==
    ASSUME TasksTyped, PreflightOk, NEW r, Line(r) # "null"
    PROVE  Line(r) = "delete" <=> (cfg.has_deletes /\ r.flag = "true")
<1>1. Line(r) = "delete" <=> (cfg.has_deletes /\ Flagged(r))
    BY DEF Line, TasksTyped, Accepted
<1>2. cfg.has_deletes => (Flagged(r) <=> r.flag = "true")
    BY DEF PreflightOk, Flagged
<1>3. QED
    BY <1>1, <1>2

LEMMA LinesAsIntended ==
    ASSUME TasksTyped, PreflightOk, NEW p \in Partitions, NEW r \in RowsOf(p),
           Shippable(p) = RowsOf(p), LandedIn(r, present)
    PROVE  AsIntended(r)
<1>1. Line(r) # "null"
    BY DEF Shippable
<1>2. QED
    BY <1>1, LineSaysIt DEF AsIntended, LandedIn

(* No partition reports clean while a row of it is lost, misrouted or taken *)
(* back by another task, not even in a write that raises.                   *)
THEOREM CleanPartitionHolds == Spec => []CleanPartitionLanded
<1>1. Init => NullInv /\ LandedInv /\ TasksTyped
    BY InitNull, InitLanded, InitTasks
<1>2. (NullInv /\ LandedInv /\ TasksTyped) /\ [Next]_vars
        => (NullInv /\ LandedInv /\ TasksTyped)'
    BY StepNull, StepLanded, StepTasks
<1>3. NullInv /\ LandedInv /\ TasksTyped => CleanPartitionLanded
    <2> SUFFICES ASSUME NullInv, LandedInv, TasksTyped, NEW p \in Partitions, task[p] = "done",
                        Clean(summary[p], summary[p].total_input), NEW r \in RowsOf(p)
                 PROVE  AsIntended(r)
        BY DEF CleanPartitionLanded
    <2>1. PreflightOk /\ LandedIn(r, present) /\ Shippable(p) = RowsOf(p)
        BY DEF NullInv, LandedInv
    <2>2. QED
        BY <2>1, LinesAsIntended
<1>4. QED
    BY <1>1, <1>2, <1>3, PTL DEF Spec

-----------------------------------------------------------------------------
(* The merged result *)

ResultRecord == [counts : Count, samples : 0..SampleCap, total_input : Nat,
                 unaccounted : Nat, overcounted : Nat]

(* Either sign of a difference, summed apart, makes up the difference.      *)
LEMMA SignsApart ==
    ASSUME NEW t \in Nat, NEW a \in Nat
    PROVE  /\ Positive(t - a) \in Nat /\ Positive(-(t - a)) \in Nat
           /\ a + Positive(t - a) = t + Positive(-(t - a))
           /\ (Positive(t - a) = 0 => a >= t) /\ (Positive(-(t - a)) = 0 => a <= t)
BY DEF Positive

LEMMA MergedTotals ==
    ASSUME TasksTyped
    PROVE  /\ MergedResult \in ResultRecord
           /\ MergedResult.counts.errors = 0 => \A p \in Partitions : summary[p].counts.errors = 0
           /\ MergedResult.counts.errors > 0 => \E p \in Partitions : summary[p].counts.errors > 0
           /\ MergedResult.samples > 0 <=> \E p \in Partitions : summary[p].samples > 0
           /\ MergedResult.unaccounted = 0 =>
                  \A p \in Partitions : Accounted(summary[p].counts) >= summary[p].total_input
           /\ MergedResult.overcounted = 0 =>
                  \A p \in Partitions : Accounted(summary[p].counts) <= summary[p].total_input
           /\ Accounted(MergedResult.counts) + MergedResult.unaccounted
                  = MergedResult.total_input + MergedResult.overcounted
<1> DEFINE P == Partitions
           c == [p \in P |-> summary[p].counts]
           a == [p \in P |-> Accounted(summary[p].counts)]
           e == [p \in P |-> summary[p].counts.errors]
           n == [p \in P |-> summary[p].samples]
           t == [p \in P |-> summary[p].total_input]
           u == [p \in P |-> Positive(Missing(p))]
           o == [p \in P |-> Positive(-Missing(p))]
           both == [p \in P |-> a[p] + u[p]]
<1>1. ASSUME NEW p \in P
      PROVE  /\ summary[p].counts \in Count /\ summary[p].samples \in Nat
             /\ summary[p].total_input \in Nat
    BY DEF TasksTyped
<1>2. ASSUME NEW p \in P PROVE a[p] \in Nat /\ e[p] \in Nat /\ n[p] \in Nat /\ t[p] \in Nat
    BY <1>1 DEF Count, Accounted
<1>3. ASSUME NEW p \in P
      PROVE  /\ u[p] \in Nat /\ o[p] \in Nat /\ a[p] + u[p] = t[p] + o[p]
             /\ (u[p] = 0 => a[p] >= t[p]) /\ (o[p] = 0 => a[p] <= t[p])
    <2>1. u[p] = Positive(t[p] - a[p]) /\ o[p] = Positive(-(t[p] - a[p]))
        BY DEF Missing
    <2>2. a[p] \in Nat /\ t[p] \in Nat
        BY <1>2
    <2> HIDE DEF a, t, u, o
    <2>3. QED
        BY <2>1, <2>2, SignsApart
<1>4. /\ IsFiniteSet(P) /\ NatOn(a, P) /\ NatOn(e, P) /\ NatOn(n, P) /\ NatOn(t, P)
      /\ NatOn(u, P) /\ NatOn(o, P)
    BY <1>2, <1>3, BulkAssumption DEF NatOn
<1>5. /\ SumCounts(c) \in Count /\ SumCounts(c).errors = SumFunction(e)
      /\ Accounted(SumCounts(c)) = SumFunction(a)
    <2>1. DOMAIN c = P /\ \A p \in P : c[p] \in Count
        BY <1>1
    <2>2. e = [p \in P |-> c[p].errors] /\ a = [p \in P |-> Accounted(c[p])]
        OBVIOUS
    <2> HIDE DEF c, a, e
    <2>3. QED
        BY <1>4, <2>1, <2>2, SumCountsAdds
<1>6. /\ SumFunction(a) = SumFunctionOnSet(a, P) /\ SumFunction(e) = SumFunctionOnSet(e, P)
      /\ SumFunction(n) = SumFunctionOnSet(n, P) /\ SumFunction(t) = SumFunctionOnSet(t, P)
      /\ SumFunction(u) = SumFunctionOnSet(u, P) /\ SumFunction(o) = SumFunctionOnSet(o, P)
    BY DEF SumFunction
<1>7. MergedResult = [counts |-> SumCounts(c), samples |-> Capped(SumFunction(n), SampleCap),
                      total_input |-> SumFunction(t), unaccounted |-> SumFunction(u),
                      overcounted |-> SumFunction(o)]
    BY DEF MergedResult, MergedSamples, Samples, Unaccounted, Overcounted
<1>8. \A p \in P : both[p] = a[p] + u[p] /\ both[p] = t[p] + o[p]
    BY <1>3
<1>9. /\ \A p \in P : a[p] = Accounted(summary[p].counts) /\ e[p] = summary[p].counts.errors
      /\ \A p \in P : n[p] = summary[p].samples /\ t[p] = summary[p].total_input
    OBVIOUS
<1> HIDE DEF c, a, e, n, t, u, o, both
<1>10. SumFunctionOnSet(a, P) + SumFunctionOnSet(u, P) = SumFunctionOnSet(t, P) + SumFunctionOnSet(o, P)
    <2>1. SumFunctionOnSet(both, P) = SumFunctionOnSet(a, P) + SumFunctionOnSet(u, P)
        BY <1>4, <1>8, SumPlus
    <2>2. SumFunctionOnSet(both, P) = SumFunctionOnSet(t, P) + SumFunctionOnSet(o, P)
        BY <1>4, <1>8, SumPlus
    <2>3. QED
        BY <2>1, <2>2
<1>11. /\ SumFunctionOnSet(n, P) \in Nat /\ SumFunctionOnSet(t, P) \in Nat
       /\ SumFunctionOnSet(u, P) \in Nat /\ SumFunctionOnSet(o, P) \in Nat
       /\ SumFunctionOnSet(e, P) \in Nat
    BY <1>4, SumNat
<1>12. /\ SumFunctionOnSet(e, P) = 0 <=> \A p \in P : e[p] = 0
       /\ SumFunctionOnSet(n, P) = 0 <=> \A p \in P : n[p] = 0
       /\ SumFunctionOnSet(u, P) = 0 <=> \A p \in P : u[p] = 0
       /\ SumFunctionOnSet(o, P) = 0 <=> \A p \in P : o[p] = 0
    BY <1>4, SumZero
<1>13. /\ Capped(SumFunction(n), SampleCap) \in 0..SampleCap
       /\ Capped(SumFunction(n), SampleCap) > 0 <=> SumFunctionOnSet(n, P) > 0
    BY <1>6, <1>11, CappedBounds, BulkAssumption
<1>14. MergedResult \in ResultRecord
    BY <1>5, <1>6, <1>7, <1>11, <1>13 DEF ResultRecord
<1>15. /\ MergedResult.counts.errors = SumFunctionOnSet(e, P)
       /\ Accounted(MergedResult.counts) = SumFunctionOnSet(a, P)
       /\ MergedResult.total_input = SumFunctionOnSet(t, P)
       /\ MergedResult.unaccounted = SumFunctionOnSet(u, P)
       /\ MergedResult.overcounted = SumFunctionOnSet(o, P)
       /\ MergedResult.samples > 0 <=> SumFunctionOnSet(n, P) > 0
    BY <1>5, <1>6, <1>7, <1>13
<1>16. \A p \in P : e[p] \in Nat /\ n[p] \in Nat
    BY <1>4 DEF NatOn
<1>17. MergedResult.counts.errors > 0 => \E p \in P : e[p] > 0
    BY <1>11, <1>12, <1>15, <1>16
<1>18. MergedResult.samples > 0 <=> \E p \in P : n[p] > 0
    BY <1>11, <1>12, <1>15, <1>16
<1>19. /\ MergedResult.unaccounted = 0 => \A p \in P : a[p] >= t[p]
       /\ MergedResult.overcounted = 0 => \A p \in P : a[p] <= t[p]
    BY <1>3, <1>12, <1>15
<1>20. QED
    BY <1>9, <1>10, <1>12, <1>14, <1>15, <1>17, <1>18, <1>19

-----------------------------------------------------------------------------
(* The shape of the state *)

TypeInv ==
    /\ TasksTyped
    /\ cfg \in Configs /\ frame \in Frames /\ raise_on_error \in BOOLEAN
    /\ failures \in [Partitions -> 0..MaxTaskFailures]
    /\ present \subseteq frame.rows
    /\ result \in ResultRecord

LEMMA InitType == Init => TypeInv
<1> SUFFICES ASSUME Init PROVE TypeInv
    OBVIOUS
<1>1. NoResult \in ResultRecord
    BY BulkAssumption DEF NoResult, NoCount, Count, ResultRecord
<1>2. QED
    BY <1>1, InitTasks, BulkAssumption DEF Init, TypeInv

LEMMA StepType == TypeInv /\ [Next]_vars => TypeInv'
<1> SUFFICES ASSUME TypeInv, [Next]_vars PROVE TypeInv'
    OBVIOUS
<1>0. TasksTyped' /\ cfg' = cfg /\ frame' = frame /\ raise_on_error' = raise_on_error
    BY StepTasks, InputFixed DEF TypeInv, fixed
<1>1. ASSUME UNCHANGED <<failures, present, result>> PROVE TypeInv'
    BY <1>0, <1>1 DEF TypeInv
<1>2. ASSUME NEW p \in Partitions, NEW E \in SUBSET RowsOf(p), Execute(E),
             UNCHANGED <<failures, result>>
      PROVE  TypeInv'
    BY <1>0, <1>2 DEF TypeInv, Execute, RowsOf
<1>3. ASSUME NEW p \in Partitions, TaskStarts(p) \/ TaskKilled(p) PROVE TypeInv'
    BY <1>1, <1>3 DEF TaskStarts, TaskKilled
<1>4. ASSUME NEW p \in Partitions, TaskWrites(p) PROVE TypeInv'
    <2>1. PICK r \in Shippable(p) : Execute({r})
        BY <1>4 DEF TaskWrites
    <2>2. {r} \in SUBSET RowsOf(p)
        BY DEF Shippable
    <2>3. QED
        BY <1>2, <1>4, <2>1, <2>2 DEF TaskWrites
<1>5. ASSUME NEW p \in Partitions, TaskEmits(p) PROVE TypeInv'
    BY <1>2, <1>5 DEF TaskEmits
<1>6. ASSUME NEW p \in Partitions, TaskFails(p) PROVE TypeInv'
    <2>1. /\ failures' = [failures EXCEPT ![p] = Capped(failures[p] + 1, MaxTaskFailures)]
          /\ UNCHANGED <<present, result>>
        BY <1>6 DEF TaskFails
    <2>2. failures[p] + 1 \in Nat /\ MaxTaskFailures \in Nat \ {0}
        BY BulkAssumption DEF TypeInv
    <2>3. Capped(failures[p] + 1, MaxTaskFailures) \in 0..MaxTaskFailures
        BY <2>2, CappedBounds
    <2>4. QED
        BY <1>0, <2>1, <2>3 DEF TypeInv
<1>7. CASE Preflight \/ PreflightFails
    BY <1>1, <1>7 DEF Preflight, PreflightFails
<1>8. CASE Conclude
    <2>1. result' = MergedResult /\ UNCHANGED <<failures, present>>
        BY <1>8 DEF Conclude
    <2>2. MergedResult \in ResultRecord
        BY MergedTotals DEF TypeInv
    <2>3. QED
        BY <1>0, <2>1, <2>2 DEF TypeInv
<1>9. CASE UNCHANGED vars
    BY <1>1, <1>9 DEF vars
<1>10. QED
    BY <1>3, <1>4, <1>5, <1>6, <1>7, <1>8, <1>9 DEF Next, Driver

(* The state keeps its shape; above all the merged result is a result dict *)
(* with capped samples, whatever the partitions report.                    *)
THEOREM TypeCorrect == Spec => []TypeOK
<1>1. TypeInv => TypeOK
    BY DEF TypeInv, TasksTyped, TypeOK, ResultRecord
<1>2. QED
    BY <1>1, InitType, StepType, PTL DEF Spec

-----------------------------------------------------------------------------
(* What is returned *)

ReturnInv ==
    /\ pc = "returned" => result = MergedResult /\ \A p \in Partitions : task[p] = "done"
    /\ \A p \in Partitions :
          /\ task[p] = "done" => summary[p].total_input = Cardinality(RowsOf(p))
          /\ summary[p].counts.errors > 0 <=> summary[p].samples > 0

LEMMA InitReturn == Init => ReturnInv
BY DEF Init, ReturnInv, NoSummary, NoCount

LEMMA StepReturn == ReturnInv /\ TasksTyped /\ [Next]_vars => ReturnInv'
<1> SUFFICES ASSUME ReturnInv, TasksTyped, [Next]_vars PROVE ReturnInv'
    OBVIOUS
<1>0. \A p : RowsOf(p)' = RowsOf(p)
    BY InputFixed DEF fixed, RowsOf
<1>1. ASSUME summary' = summary PROVE MergedResult' = MergedResult
    BY <1>1 DEF MergedResult, MergedSamples, Samples, Unaccounted, Overcounted, Missing
<1>2. ASSUME summary' = summary, result' = result, pc' = "returned" => pc = "returned",
             \A p \in Partitions : task'[p] = "done" <=> task[p] = "done"
      PROVE  ReturnInv'
    BY <1>0, <1>1, <1>2 DEF ReturnInv
<1>3. ASSUME NEW p \in Partitions, TaskStarts(p) \/ TaskFails(p) \/ TaskKilled(p) PROVE ReturnInv'
    BY <1>2, <1>3 DEF TaskStarts, TaskFails, TaskKilled, TasksTyped
<1>4. ASSUME NEW p \in Partitions, TaskWrites(p) PROVE ReturnInv'
    BY <1>2, <1>4 DEF TaskWrites
<1>5. ASSUME NEW p \in Partitions, TaskEmits(p) PROVE ReturnInv'
    <2>1. PICK s \in Summaries(Cardinality(RowsOf(p))) : summary' = [summary EXCEPT ![p] = s]
        BY <1>5 DEF TaskEmits
    <2>2. s.total_input = Cardinality(RowsOf(p)) /\ (s.counts.errors > 0 <=> s.samples > 0)
        BY DEF Summaries, Reports
    <2>3. /\ pc' = "collect" /\ task' = [task EXCEPT ![p] = "done"]
        BY <1>5 DEF TaskEmits
    <2>4. ASSUME NEW q \in Partitions
          PROVE  /\ task'[q] = "done" => summary'[q].total_input = Cardinality(RowsOf(q))
                 /\ summary'[q].counts.errors > 0 <=> summary'[q].samples > 0
        <3>1. CASE q = p
            BY <2>1, <2>2, <3>1 DEF TasksTyped
        <3>2. CASE q # p
            <4>1. summary'[q] = summary[q] /\ task'[q] = task[q]
                BY <2>1, <2>3, <3>2 DEF TasksTyped
            <4>2. QED
                BY <4>1 DEF ReturnInv
        <3>3. QED
            BY <3>1, <3>2
    <2>5. QED
        BY <1>0, <2>3, <2>4 DEF ReturnInv
<1>6. CASE Preflight \/ PreflightFails
    BY <1>2, <1>6 DEF Preflight, PreflightFails
<1>7. CASE Conclude
    BY <1>0, <1>1, <1>7 DEF Conclude, ReturnInv
<1>8. CASE UNCHANGED vars
    BY <1>2, <1>8 DEF vars
<1>9. QED
    BY <1>3, <1>4, <1>5, <1>6, <1>7, <1>8 DEF Next, Driver

(* The whole inductive invariant *)
WriteInv == TypeInv /\ NullInv /\ LandedInv /\ ReturnInv

LEMMA WriteInvInit == Init => WriteInv
BY InitType, InitNull, InitLanded, InitReturn DEF WriteInv

LEMMA WriteInvStep == WriteInv /\ [Next]_vars => WriteInv'
BY StepType, StepNull, StepLanded, StepReturn DEF WriteInv, TypeInv

(* A merged result that reconciles has only clean summaries in it.          *)
LEMMA ReconciledPartitions ==
    ASSUME WriteInv, Reconciles(MergedResult), MergedResult.overcounted = 0, NEW p \in Partitions
    PROVE  Clean(summary[p], summary[p].total_input)
<1>1. TasksTyped
    BY DEF WriteInv, TypeInv
<1>2. MergedResult.unaccounted \in Nat /\ MergedResult.counts.errors = 0
      /\ MergedResult.unaccounted <= 0
    BY <1>1, MergedTotals DEF Reconciles, ResultRecord
<1>3. MergedResult.unaccounted = 0
    BY <1>2
<1>4. /\ summary[p].counts.errors = 0
      /\ Accounted(summary[p].counts) >= summary[p].total_input
      /\ Accounted(summary[p].counts) <= summary[p].total_input
    BY <1>1, <1>2, <1>3, MergedTotals
<1>5. summary[p].counts \in Count /\ summary[p].total_input \in Nat
    BY <1>1 DEF TasksTyped
<1>6. Accounted(summary[p].counts) \in Nat
    BY <1>5, AddCountAdds
<1>7. QED
    BY <1>4, <1>5, <1>6 DEF Clean

LEMMA ReconciledRows ==
    ASSUME WriteInv, Reconciles(MergedResult), MergedResult.overcounted = 0,
           \A p \in Partitions : task[p] = "done", NEW r \in frame.rows
    PROVE  AsIntended(r)
<1>1. TasksTyped /\ r.part \in Partitions /\ r \in RowsOf(r.part)
    BY RowsPlaced DEF WriteInv, TypeInv
<1>2. Clean(summary[r.part], summary[r.part].total_input)
    BY <1>1, ReconciledPartitions
<1>3. PreflightOk /\ LandedIn(r, present) /\ Shippable(r.part) = RowsOf(r.part)
    BY <1>1, <1>2 DEF WriteInv, NullInv, LandedInv
<1>4. QED
    BY <1>1, <1>3, LinesAsIntended

(* A result without errors, unaccounted and overcounted rows means that     *)
(* each row of the frame is where the caller wants it, for any number of    *)
(* partitions, task failures and rows.                                      *)
THEOREM CleanResultHolds == Spec => []CleanResultLanded
<1>1. WriteInv => CleanResultLanded
    BY ReconciledRows DEF WriteInv, ReturnInv, CleanResultLanded
<1>2. QED
    BY <1>1, WriteInvInit, WriteInvStep, PTL DEF Spec

(* No loss is cancelled by an overcount elsewhere.                          *)
THEOREM LossNotCancelledHolds == Spec => []LossNotCancelled
<1>1. WriteInv => LossNotCancelled
    BY MergedTotals DEF WriteInv, TypeInv, ReturnInv, LossNotCancelled
<1>2. QED
    BY <1>1, WriteInvInit, WriteInvStep, PTL DEF Spec

-----------------------------------------------------------------------------
(* bulk_write implements BulkContract. *)

(* The rows the driver counts are those of the frame. *)
LEMMA TotalIsFrame ==
    ASSUME WriteInv, \A p \in Partitions : task[p] = "done"
    PROVE  MergedResult.total_input = Cardinality(frame.rows)
<1> DEFINE part == [r \in frame.rows |-> r.part]
           t == [p \in Partitions |-> summary[p].total_input]
<1>1. /\ IsFiniteSet(frame.rows) /\ IsFiniteSet(Partitions)
      /\ \A r \in frame.rows : part[r] \in Partitions
    BY RowsPlaced, BulkAssumption DEF WriteInv, TypeInv, TasksTyped
<1>2. \A p \in Partitions : RowsOf(p) = {r \in frame.rows : part[r] = p}
    BY DEF RowsOf
<1>3. CountsParts(t, frame.rows, part, Partitions)
    BY <1>2 DEF WriteInv, ReturnInv, CountsParts
<1>4. MergedResult.total_input = SumFunctionOnSet(t, Partitions)
    BY DEF MergedResult, SumFunction
<1> HIDE DEF part, t
<1>5. SumFunctionOnSet(t, Partitions) = Cardinality(frame.rows)
    BY <1>1, <1>3, CountByParts
<1>6. QED
    BY <1>4, <1>5

LEMMA ContractInit == Init => Contract!Init
BY DEF Init, Contract!Init, Contract!NoResult, NoResult, Contract!NoCount, NoCount, Status

kept == {r \in frame.rows : ~(cfg.has_deletes /\ r.flag = "true")}

(* Rows only move towards where the caller wants them.                      *)
LEMMA ExecuteTowardsWish ==
    ASSUME TasksTyped, PreflightOk, NEW p, NEW E \in SUBSET RowsOf(p), Execute(E)
    PROVE  present' \ present \subseteq kept /\ present \ present' \subseteq frame.rows \ kept
<1>1. \A r \in E : r \in frame.rows
    BY DEF RowsOf
<1>2. \A r \in present' \ present : r \in E /\ Line(r) \in {"index", "create"}
    BY DEF Execute
<1>3. \A r \in present \ present' : r \in E /\ Line(r) = "delete"
    BY DEF Execute
<1>4. QED
    BY <1>1, <1>2, <1>3, LineSaysIt DEF kept

LEMMA ReturnKept ==
    ASSUME WriteInv, Conclude, pc' = "returned"
    PROVE  Contract!Return
<1> DEFINE res == MergedResult
<1>1. /\ pc = "collect" /\ \A p \in Partitions : task[p] = "done"
      /\ result' = res /\ (raise_on_error => Reconciles(res))
      /\ UNCHANGED fixed /\ UNCHANGED present
    BY DEF Conclude
<1>2. TasksTyped /\ NullInv /\ ReturnInv
    BY DEF WriteInv, TypeInv
<1>3. ASSUME NEW r \in frame.rows, cfg.id_field, r.null_id PROVE FALSE
    <2>1. r \in RowsOf(r.part) /\ r \notin Shippable(r.part) /\ r.part \in Partitions
        BY <1>2, <1>3, RowsPlaced DEF Shippable, Line
    <2>2. QED
        BY <1>1, <1>2, <2>1 DEF NullInv
<1>4. res.total_input = Cardinality(frame.rows)
    BY <1>1, TotalIsFrame
<1>5. /\ res \in ResultRecord
      /\ Accounted(res.counts) + res.unaccounted = res.total_input + res.overcounted
      /\ res.counts.errors > 0 <=> res.samples > 0
    <2>1. /\ res \in ResultRecord
          /\ Accounted(res.counts) + res.unaccounted = res.total_input + res.overcounted
          /\ res.counts.errors = 0 => \A p \in Partitions : summary[p].counts.errors = 0
          /\ res.counts.errors > 0 => \E p \in Partitions : summary[p].counts.errors > 0
          /\ res.samples > 0 <=> \E p \in Partitions : summary[p].samples > 0
        BY <1>2, MergedTotals
    <2>2. res.counts.errors \in Nat
        BY <2>1 DEF ResultRecord, Count
    <2>3. \A p \in Partitions : summary[p].counts.errors > 0 <=> summary[p].samples > 0
        BY <1>2 DEF ReturnInv
    <2> HIDE DEF res
    <2>4. res.counts.errors > 0 => res.samples > 0
        BY <2>1, <2>3
    <2>5. ASSUME res.samples > 0 PROVE res.counts.errors > 0
        <3>1. PICK p \in Partitions : summary[p].counts.errors > 0
            BY <2>1, <2>3, <2>5
        <3>2. res.counts.errors # 0
            BY <2>1, <3>1
        <3>3. QED
            BY <2>2, <3>2
    <2>6. QED
        BY <2>1, <2>4, <2>5
<1>6. /\ res.samples <= SampleCap /\ res.unaccounted \in Nat
      /\ Reconciles(res) <=> (res.counts.errors = 0 /\ res.unaccounted = 0)
    BY <1>5, BulkAssumption DEF ResultRecord, Reconciles
<1>7. ASSUME Reconciles(res), res.overcounted = 0 PROVE present = kept
    <2>1. \A r \in frame.rows : AsIntended(r)
        BY <1>1, <1>7, ReconciledRows
    <2>2. present \subseteq frame.rows
        BY DEF WriteInv, TypeInv
    <2>3. QED
        BY <2>1, <2>2 DEF AsIntended, kept
<1> HIDE DEF res
<1>8. UNCHANGED Contract!fixed
    BY <1>1 DEF Contract!fixed, fixed
<1>9. Status = "writing" /\ Status' = "returned"
    BY <1>1 DEF Status
<1>10. ~\E r \in frame.rows : cfg.id_field /\ r.null_id
    BY <1>3
<1>11. Accounted(res.counts) = Contract!Accounted(res.counts)
    BY DEF Accounted, Contract!Accounted
<1>12. Cardinality(frame.rows) = Contract!Cardinality(frame.rows)
    BY DEF Cardinality, Contract!Cardinality, IsFiniteSet, Contract!IsFiniteSet
<1>13. QED
    BY <1>1, <1>4, <1>5, <1>6, <1>7, <1>8, <1>9, <1>10, <1>11, <1>12
       DEF Contract!Return, Contract!Reconciled, kept

LEMMA StepKept == WriteInv /\ [Next]_vars => [Contract!Next]_(Contract!vars)
<1> SUFFICES ASSUME WriteInv, [Next]_vars PROVE [Contract!Next]_(Contract!vars)
    OBVIOUS
<1>0. UNCHANGED fixed /\ TasksTyped /\ NullInv /\ LandedInv
    BY InputFixed DEF WriteInv, TypeInv
<1>1. ASSUME Status' = Status, UNCHANGED <<present, result>> PROVE UNCHANGED Contract!vars
    BY <1>0, <1>1 DEF Contract!vars, Contract!fixed, fixed
<1>2. ASSUME pc \notin {"returned", "raised"}, pc' = "raised", UNCHANGED present PROVE Contract!Raise
    BY <1>0, <1>2 DEF Contract!Raise, Contract!fixed, fixed, Status
<1>3. ASSUME NEW p \in Partitions, NEW E \in SUBSET RowsOf(p), Execute(E), task[p] = "running",
             UNCHANGED <<pc, result>>
      PROVE  Contract!Write
    <2>1. PreflightOk
        BY <1>0, <1>3 DEF LandedInv
    <2>2. present' \ present \subseteq kept /\ present \ present' \subseteq frame.rows \ kept
        BY <1>0, <1>3, <2>1, ExecuteTowardsWish
    <2>3. pc # "returned" /\ Status' = Status
        BY <1>0, <1>3 DEF NullInv, Status
    <2>4. Status \in {"writing", "raised"}
        BY <1>0, <2>3 DEF Status, TasksTyped
    <2>5. QED
        BY <1>0, <1>3, <2>2, <2>3, <2>4
           DEF Contract!Write, Contract!TowardsWish, Contract!fixed, fixed, kept
<1>4. ASSUME NEW p \in Partitions, TaskStarts(p) \/ TaskKilled(p) PROVE UNCHANGED Contract!vars
    BY <1>1, <1>4 DEF TaskStarts, TaskKilled, Status
<1>5. ASSUME NEW p \in Partitions, TaskWrites(p) PROVE Contract!Write
    <2>1. PICK r \in Shippable(p) : Execute({r})
        BY <1>5 DEF TaskWrites
    <2>2. {r} \in SUBSET RowsOf(p)
        BY DEF Shippable
    <2>3. QED
        BY <1>3, <1>5, <2>1, <2>2 DEF TaskWrites
<1>6. ASSUME NEW p \in Partitions, TaskEmits(p) PROVE Contract!Write
    BY <1>3, <1>6 DEF TaskEmits
<1>7. ASSUME NEW p \in Partitions, TaskFails(p)
      PROVE  Contract!Raise \/ UNCHANGED Contract!vars
    BY <1>1, <1>2, <1>7 DEF TaskFails, Status
<1>8. CASE Preflight \/ PreflightFails
    <2>1. /\ pc = "preflight" /\ UNCHANGED present /\ UNCHANGED result
          /\ pc' = "collect" \/ pc' = "raised"
        BY <1>8 DEF Preflight, PreflightFails
    <2>2. CASE pc' = "collect"
        BY <1>1, <2>1, <2>2 DEF Status
    <2>3. CASE pc' = "raised"
        BY <1>2, <2>1, <2>3 DEF Contract!Next
    <2>4. QED
        BY <2>1, <2>2, <2>3 DEF Contract!Next
<1>9. CASE Conclude
    <2>1. pc' \in {"returned", "raised"} /\ pc = "collect" /\ UNCHANGED present
        BY <1>9 DEF Conclude
    <2>2. QED
        BY <1>2, <1>9, <2>1, ReturnKept DEF Contract!Next
<1>10. CASE UNCHANGED vars
    BY <1>1, <1>10 DEF vars, Status
<1>11. QED
    BY <1>4, <1>5, <1>6, <1>7, <1>8, <1>9, <1>10 DEF Next, Driver, Contract!Next

(* bulk_write keeps its contract with its caller, the streaming sink among  *)
(* them: every row counted once, no row ever moved away from where it is    *)
(* wanted, and after a result that reconciles each one there.               *)
THEOREM ContractKept == Spec => ImplementsContract
<1>1. Init => Contract!Init
    BY ContractInit
<1>2. QED
    BY <1>1, WriteInvInit, WriteInvStep, StepKept, PTL
       DEF Spec, ImplementsContract, Contract!Spec

-----------------------------------------------------------------------------
(* A partition is written at most MaxTaskFailures times: each attempt takes *)
(* something off what its task may still do, and once the job has failed    *)
(* nothing starts any more.                                                 *)

(* Starts and ends of attempts that a task in state t with f failures may   *)
(* still go through, the driver being at d                                  *)
LiveSteps(t, f) ==
    2 * (MaxTaskFailures - 1 - f) + CASE t = "queued" -> 2 [] t = "running" -> 1 [] t = "done" -> 0

StepsLeft(d, t, f) == IF d = "raised" THEN IF t = "running" THEN 1 ELSE 0 ELSE LiveSteps(t, f)

TaskWork(p) == StepsLeft(pc, task[p], failures[p])

(* A task has at most MaxTaskFailures starts and as many ends before it.    *)
RunsBounded == \A p \in Partitions : TaskWork(p) \in 0..(2 * MaxTaskFailures)

(* No step gives a task more to do; each step of a task but a row taking    *)
(* effect, and none but the driver's besides, leaves it less.               *)
RunsShrink ==
    [][/\ \A p \in Partitions : TaskWork(p)' <= TaskWork(p)
       /\ \/ Driver
          \/ \E p \in Partitions : TaskWrites(p) \/ TaskWork(p)' < TaskWork(p)]_vars

(* Until the driver is through no task has used up its attempts.            *)
AttemptsLeft == pc \in {"preflight", "collect"} => \A p \in Partitions : failures[p] < MaxTaskFailures

(* The driver returns when all tasks are done.                              *)
AllDone == pc = "returned" => \A p \in Partitions : task[p] = "done" /\ failures[p] < MaxTaskFailures

LEMMA InitAttempts == Init => AttemptsLeft /\ AllDone
BY BulkAssumption DEF Init, AttemptsLeft, AllDone

LEMMA StepsOrdered ==
    ASSUME NEW f \in Nat, f < MaxTaskFailures
    PROVE  \A d \in {"preflight", "collect", "returned"} :
             /\ StepsLeft(d, "done", f) \in 0..(2 * MaxTaskFailures)
             /\ StepsLeft(d, "running", f) = StepsLeft(d, "done", f) + 1
             /\ StepsLeft(d, "queued", f) = StepsLeft(d, "done", f) + 2
             /\ StepsLeft(d, "queued", f) \in 0..(2 * MaxTaskFailures)
             /\ StepsLeft(d, "queued", f + 1) = StepsLeft(d, "done", f)
<1>1. MaxTaskFailures \in Nat
    BY BulkAssumption
<1>2. QED
    BY <1>1 DEF StepsLeft, LiveSteps

LEMMA StepAttempts == TypeInv /\ AttemptsLeft /\ AllDone /\ [Next]_vars => (AttemptsLeft /\ AllDone)'
<1> SUFFICES ASSUME TypeInv, AttemptsLeft, AllDone, [Next]_vars PROVE (AttemptsLeft /\ AllDone)'
    OBVIOUS
<1>0. MaxTaskFailures \in Nat \ {0} /\ failures \in [Partitions -> Nat]
    BY BulkAssumption DEF TypeInv
<1>1. ASSUME NEW p \in Partitions, TaskFails(p) PROVE (AttemptsLeft /\ AllDone)'
    <2>1. /\ pc = "collect" /\ pc' = IF Exhausted(p) THEN "raised" ELSE "collect"
          /\ failures' = [failures EXCEPT ![p] = Capped(failures[p] + 1, MaxTaskFailures)]
        BY <1>1 DEF TaskFails
    <2>2. CASE Exhausted(p)
        BY <2>1, <2>2 DEF AttemptsLeft, AllDone
    <2>3. CASE ~Exhausted(p)
        <3>1. failures[p] + 1 < MaxTaskFailures /\ pc' = "collect"
            BY <1>0, <2>1, <2>3 DEF Exhausted
        <3>2. Capped(failures[p] + 1, MaxTaskFailures) = failures[p] + 1
            BY <3>1 DEF Capped
        <3>3. QED
            BY <1>0, <2>1, <3>1, <3>2 DEF AttemptsLeft, AllDone
    <2>4. QED
        BY <2>2, <2>3
<1>2. ASSUME NEW p \in Partitions, TaskStarts(p) \/ TaskEmits(p) \/ TaskKilled(p)
      PROVE  (AttemptsLeft /\ AllDone)'
    <2>1. UNCHANGED <<pc, failures>> /\ pc # "returned"
        BY <1>2 DEF TaskStarts, TaskEmits, TaskKilled
    <2>2. QED
        BY <2>1 DEF AttemptsLeft, AllDone
<1>3. ASSUME NEW p \in Partitions, TaskWrites(p) PROVE (AttemptsLeft /\ AllDone)'
    BY <1>3 DEF TaskWrites, AttemptsLeft, AllDone
<1>4. CASE Preflight \/ PreflightFails
    BY <1>4 DEF Preflight, PreflightFails, AttemptsLeft, AllDone
<1>5. CASE Conclude
    BY <1>5 DEF Conclude, AttemptsLeft, AllDone
<1>6. CASE UNCHANGED vars
    BY <1>6 DEF vars, AttemptsLeft, AllDone
<1>7. QED
    BY <1>1, <1>2, <1>3, <1>4, <1>5, <1>6 DEF Next, Driver

(* What a task may still do, in either half of a write *)
LEMMA WorkOfTask ==
    ASSUME TypeInv, AttemptsLeft, AllDone, NEW p \in Partitions
    PROVE  /\ TaskWork(p) \in 0..(2 * MaxTaskFailures) /\ failures[p] \in Nat
           /\ task[p] \in {"queued", "running", "done"}
           /\ pc # "raised" => failures[p] < MaxTaskFailures
           /\ task[p] = "running" => TaskWork(p) >= 1
<1>1. /\ task[p] \in {"queued", "running", "done"} /\ failures[p] \in Nat
      /\ pc \in {"preflight", "collect", "returned", "raised"} /\ MaxTaskFailures \in Nat \ {0}
      /\ pc # "raised" => failures[p] < MaxTaskFailures
    BY BulkAssumption DEF TypeInv, TasksTyped, AttemptsLeft, AllDone
<1>2. CASE pc = "raised"
    <2>1. TaskWork(p) = IF task[p] = "running" THEN 1 ELSE 0
        BY <1>2 DEF TaskWork, StepsLeft
    <2>2. QED
        BY <1>1, <1>2, <2>1
<1>3. CASE pc # "raised"
    <2> DEFINE D == StepsLeft(pc, "done", failures[p])
    <2>1. /\ D \in 0..(2 * MaxTaskFailures) /\ D + 2 \in 0..(2 * MaxTaskFailures)
          /\ TaskWork(p) \in {D, D + 1, D + 2} /\ (task[p] = "running" => TaskWork(p) = D + 1)
        BY <1>1, <1>3, StepsOrdered DEF TaskWork
    <2> HIDE DEF D
    <2>2. QED
        BY <1>1, <2>1
<1>4. QED
    BY <1>2, <1>3

LEMMA RunsTyped == TypeInv /\ AttemptsLeft /\ AllDone => RunsBounded
BY WorkOfTask DEF RunsBounded

(* The driver's place counts only as raised or not. *)
LEMMA SameSteps ==
    ASSUME NEW q, UNCHANGED <<task[q], failures[q]>>, (pc' = "raised") <=> (pc = "raised")
    PROVE  TaskWork(q)' = TaskWork(q)
<1>1. \A t, f : StepsLeft(pc', t, f) = StepsLeft(pc, t, f)
    BY DEF StepsLeft
<1>2. TaskWork(q)' = StepsLeft(pc', task[q], failures[q])
    BY DEF TaskWork, StepsLeft
<1>3. QED
    BY <1>1, <1>2 DEF TaskWork

LEMMA WorkShrinks ==
    ASSUME TypeInv, AttemptsLeft, AllDone, Next
    PROVE  /\ \A p \in Partitions : TaskWork(p)' <= TaskWork(p)
           /\ \/ Driver
              \/ \E p \in Partitions : TaskWrites(p) \/ TaskWork(p)' < TaskWork(p)
<1>0. /\ \A p \in Partitions : TaskWork(p) \in Nat
      /\ task \in [Partitions -> {"queued", "running", "done"}] /\ failures \in [Partitions -> Nat]
      /\ MaxTaskFailures \in Nat
    BY WorkOfTask, BulkAssumption DEF TypeInv, TasksTyped
<1>1. ASSUME NEW p \in Partitions, UNCHANGED pc,
             \A q \in Partitions \ {p} : task'[q] = task[q] /\ failures'[q] = failures[q],
             TaskWork(p)' < TaskWork(p), TaskWork(p)' <= TaskWork(p)
      PROVE  /\ \A q \in Partitions : TaskWork(q)' <= TaskWork(q)
             /\ \E q \in Partitions : TaskWork(q)' < TaskWork(q)
    <2>1. ASSUME NEW q \in Partitions \ {p} PROVE TaskWork(q)' <= TaskWork(q)
        <3>1. TaskWork(q)' = TaskWork(q)
            BY <1>1, SameSteps
        <3>2. QED
            BY <1>0, <3>1
    <2>2. QED
        BY <1>1, <2>1
(* The job fails, with the tasks as they are. *)
<1>2. ASSUME pc' = "raised", pc # "raised",
             NEW q \in Partitions, task'[q] = task[q]
      PROVE  TaskWork(q)' <= TaskWork(q)
    <2>1. TaskWork(q)' = IF task[q] = "running" THEN 1 ELSE 0
        BY <1>2 DEF TaskWork, StepsLeft
    <2>2. task[q] = "running" => TaskWork(q) >= 1
        BY WorkOfTask
    <2>3. QED
        BY <1>0, <2>1, <2>2
<1>3. ASSUME NEW p \in Partitions, TaskStarts(p)
      PROVE  /\ \A q \in Partitions : TaskWork(q)' <= TaskWork(q)
             /\ \E q \in Partitions : TaskWork(q)' < TaskWork(q)
    <2>1. /\ pc = "collect" /\ UNCHANGED <<pc, failures>> /\ task[p] = "queued" /\ task'[p] = "running"
          /\ \A q \in Partitions \ {p} : task'[q] = task[q]
        BY <1>0, <1>3 DEF TaskStarts
    <2>2. TaskWork(p) = StepsLeft(pc, "queued", failures[p])
          /\ TaskWork(p)' = StepsLeft(pc, "running", failures[p])
        BY <2>1 DEF TaskWork, StepsLeft
    <2>3. StepsLeft(pc, "running", failures[p]) < StepsLeft(pc, "queued", failures[p])
          /\ StepsLeft(pc, "running", failures[p]) <= StepsLeft(pc, "queued", failures[p])
        BY <2>1, StepsOrdered, WorkOfTask
    <2>4. QED
        BY <1>1, <2>1, <2>2, <2>3
<1>4. ASSUME NEW p \in Partitions, TaskEmits(p)
      PROVE  /\ \A q \in Partitions : TaskWork(q)' <= TaskWork(q)
             /\ \E q \in Partitions : TaskWork(q)' < TaskWork(q)
    <2>1. /\ pc = "collect" /\ UNCHANGED <<pc, failures>> /\ task[p] = "running" /\ task'[p] = "done"
          /\ \A q \in Partitions \ {p} : task'[q] = task[q]
        BY <1>0, <1>4 DEF TaskEmits
    <2>2. TaskWork(p) = StepsLeft(pc, "running", failures[p])
          /\ TaskWork(p)' = StepsLeft(pc, "done", failures[p])
        BY <2>1 DEF TaskWork, StepsLeft
    <2>3. StepsLeft(pc, "done", failures[p]) < StepsLeft(pc, "running", failures[p])
          /\ StepsLeft(pc, "done", failures[p]) <= StepsLeft(pc, "running", failures[p])
        BY <2>1, StepsOrdered, WorkOfTask
    <2>4. QED
        BY <1>1, <2>1, <2>2, <2>3
<1>5. ASSUME NEW p \in Partitions, TaskFails(p)
      PROVE  /\ \A q \in Partitions : TaskWork(q)' <= TaskWork(q)
             /\ \E q \in Partitions : TaskWork(q)' < TaskWork(q)
    <2>1. /\ pc = "collect" /\ task[p] = "running" /\ task'[p] = "queued"
          /\ pc' = IF Exhausted(p) THEN "raised" ELSE pc
          /\ failures' = [failures EXCEPT ![p] = Capped(failures[p] + 1, MaxTaskFailures)]
          /\ \A q \in Partitions \ {p} : task'[q] = task[q] /\ failures'[q] = failures[q]
        BY <1>0, <1>5 DEF TaskFails
    <2>2. CASE Exhausted(p)
        <3>1. TaskWork(p)' = 0 /\ TaskWork(p) >= 1 /\ pc' = "raised"
            BY <2>1, <2>2, WorkOfTask DEF TaskWork, StepsLeft
        <3>2. TaskWork(p)' <= TaskWork(p) /\ TaskWork(p)' < TaskWork(p)
            BY <1>0, <3>1
        <3>3. \A q \in Partitions \ {p} : TaskWork(q)' <= TaskWork(q)
            BY <1>2, <2>1, <3>1
        <3>4. QED
            BY <3>2, <3>3
    <2>3. CASE ~Exhausted(p)
        <3>1. failures[p] + 1 < MaxTaskFailures /\ UNCHANGED pc
            BY <1>0, <2>1, <2>3 DEF Exhausted
        <3>2. failures'[p] = failures[p] + 1
            BY <1>0, <2>1, <3>1 DEF Capped
        <3>3. TaskWork(p) = StepsLeft(pc, "running", failures[p])
              /\ TaskWork(p)' = StepsLeft(pc, "queued", failures[p] + 1)
            BY <2>1, <3>1, <3>2 DEF TaskWork, StepsLeft
        <3>4. StepsLeft(pc, "queued", failures[p] + 1) < StepsLeft(pc, "running", failures[p])
              /\ StepsLeft(pc, "queued", failures[p] + 1) <= StepsLeft(pc, "running", failures[p])
            BY <2>1, StepsOrdered, WorkOfTask
        <3>5. QED
            BY <1>1, <2>1, <3>1, <3>3, <3>4
    <2>4. QED
        BY <2>2, <2>3
<1>6. ASSUME NEW p \in Partitions, TaskKilled(p)
      PROVE  /\ \A q \in Partitions : TaskWork(q)' <= TaskWork(q)
             /\ \E q \in Partitions : TaskWork(q)' < TaskWork(q)
    <2>1. /\ pc = "raised" /\ UNCHANGED <<pc, failures>> /\ task[p] = "running" /\ task'[p] = "queued"
          /\ \A q \in Partitions \ {p} : task'[q] = task[q]
        BY <1>0, <1>6 DEF TaskKilled
    <2>2. TaskWork(p) = 1 /\ TaskWork(p)' = 0
        BY <2>1 DEF TaskWork, StepsLeft
    <2>3. TaskWork(p)' < TaskWork(p) /\ TaskWork(p)' <= TaskWork(p)
        BY <2>2
    <2>4. QED
        BY <1>1, <2>1, <2>3
<1>7. ASSUME NEW p \in Partitions, TaskWrites(p)
      PROVE  \A q \in Partitions : TaskWork(q)' <= TaskWork(q)
    <2>1. \A q \in Partitions : TaskWork(q)' = TaskWork(q)
        BY <1>7 DEF TaskWrites, TaskWork, StepsLeft
    <2>2. QED
        BY <1>0, <2>1
<1>8. CASE Driver
    <2>1. UNCHANGED <<task, failures>> /\ pc \in {"preflight", "collect"}
          /\ pc' \in {"collect", "returned", "raised"}
        BY <1>8 DEF Driver, Preflight, PreflightFails, Conclude
    <2>2. CASE pc' = "raised"
        BY <1>2, <1>8, <2>1, <2>2
    <2>3. CASE pc' # "raised"
        <3>1. \A q \in Partitions : TaskWork(q)' = TaskWork(q)
            BY <2>1, <2>3, SameSteps
        <3>2. QED
            BY <1>0, <1>8, <3>1
    <2>4. QED
        BY <2>2, <2>3
<1>9. QED
    BY <1>3, <1>4, <1>5, <1>6, <1>7, <1>8 DEF Next

(* Whatever fails, a partition is written at most MaxTaskFailures times     *)
(* before the job has failed, and a failed job starts no task.              *)
THEOREM TaskRunsBounded == Spec => []RunsBounded /\ RunsShrink
<1>1. TypeInv /\ AttemptsLeft /\ AllDone /\ [Next]_vars =>
        [/\ \A p \in Partitions : TaskWork(p)' <= TaskWork(p)
         /\ \/ Driver
            \/ \E p \in Partitions : TaskWrites(p) \/ TaskWork(p)' < TaskWork(p)]_vars
    BY WorkShrinks
<1>2. QED
    BY <1>1, RunsTyped, InitType, StepType, InitAttempts, StepAttempts, PTL DEF Spec, RunsShrink

=============================================================================
