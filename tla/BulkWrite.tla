------------------------------- MODULE BulkWrite -------------------------------
(***************************************************************************)
(* bulk_write (bulk.py): the driver checks the frame against the           *)
(* configuration, lets Spark build one action line per row and run one     *)
(* partition writer per partition, merges the summary rows that the        *)
(* successful tasks returned, and, if asked to, raises when the result     *)
(* does not reconcile.                                                     *)
(*                                                                         *)
(* Spark is external: a task that raises, or whose executor is lost, is    *)
(* run again up to MaxTaskFailures times, then the job fails, which        *)
(* collect() raises, while other tasks may be running still. A task does   *)
(* what PartitionContract promises. Ids are distinct, and nobody else      *)
(* writes the index.                                                       *)
(***************************************************************************)
EXTENDS EsWriteConfig, Counts, FiniteSets

CONSTANTS
    Partitions,          \* partitions of the frame
    Frames,              \* the frames considered
    Configs,             \* the write configurations considered
    SampleCap,           \* ERROR_SAMPLE_CAP
    MaxTaskFailures,     \* spark.task.maxFailures
    Miscounted           \* frames also considered with malformed and padded responses

(* A row: whether its delete flag is set, and whether its id is null *)
Row == [part : Partitions, n : Nat, flag : {"true", "false", "null"}, null_id : BOOLEAN]

(* What the driver sees of a frame: whether the id column is there, what    *)
(* type the flag column has, whether drop_fields names an absent column;    *)
(* and whether the target index exists.                                     *)
Frame == [rows : SUBSET Row, id_column : BOOLEAN,
          flag_column : {"absent", "boolean", "other"}, stray_drop : BOOLEAN,
          index_exists : BOOLEAN]

ASSUME BulkAssumption ==
    /\ IsFiniteSet(Partitions)
    /\ \A f \in Frames : f \in Frame /\ IsFiniteSet(f.rows)
    /\ Configs \subseteq {c \in WriteConfig : Accepted(c)}
    /\ SampleCap \in Nat \ {0}
    /\ MaxTaskFailures \in Nat \ {0}
    /\ Miscounted \subseteq Frames

VARIABLES
    cfg, frame, raise_on_error,   \* fixed
    miscount,  \* may responses be malformed or padded, so that counts are off? fixed
    pc,        \* driver: "preflight", "collect", then "returned" or "raised"
    task,      \* "queued", "running", "done"
    failures,  \* failed attempts of each task
    summary,   \* the summary row of each task that is done
    present,   \* the rows that have a document in the index
    result     \* the result dict, once there is one

fixed == <<cfg, frame, raise_on_error, miscount>>
vars  == <<fixed, pc, task, failures, summary, present, result>>

RowsOf(p) == {r \in frame.rows : r.part = p}

NoSummary == [counts |-> NoCount, samples |-> 0, total_input |-> 0]
NoResult  == [counts |-> NoCount, samples |-> 0, total_input |-> 0,
              unaccounted |-> 0, overcounted |-> 0]

Init ==
    /\ cfg \in Configs /\ frame \in Frames /\ raise_on_error \in BOOLEAN
    /\ miscount \in BOOLEAN /\ (miscount => frame \in Miscounted)
    /\ pc = "preflight"
    /\ task = [p \in Partitions |-> "queued"]
    /\ failures = [p \in Partitions |-> 0]
    /\ summary = [p \in Partitions |-> NoSummary]
    /\ present \in SUBSET {r \in frame.rows : cfg.id_field /\ ~r.null_id}
    /\ result = NoResult

-----------------------------------------------------------------------------
(* The driver, before anything is written *)

(* Mutant: any flag column will do *)
MutPreflightOk ==
    /\ cfg.id_field => frame.id_column
    /\ cfg.strict_drop_fields => ~frame.stray_drop
    /\ cfg.has_deletes => frame.flag_column # "absent"
    /\ cfg.require_existing_index => frame.index_exists

(* _preflight raises no ValueError *)
PreflightOk ==
    /\ cfg.id_field => frame.id_column
    /\ cfg.strict_drop_fields => ~frame.stray_drop
    /\ cfg.has_deletes => frame.flag_column = "boolean"
    /\ cfg.require_existing_index => frame.index_exists

Preflight ==
    /\ pc = "preflight"
    /\ pc' = IF PreflightOk THEN "collect" ELSE "raised"
    /\ UNCHANGED <<fixed, task, failures, summary, present, result>>

(* Spark or, in indices.exists, Elasticsearch fails first *)
PreflightFails ==
    /\ pc = "preflight"
    /\ pc' = "raised"
    /\ UNCHANGED <<fixed, task, failures, summary, present, result>>

-----------------------------------------------------------------------------
(* The lines, built by Spark *)

(* flag === true: null, hence not a delete, for a null flag or another type *)
Flagged(r) == frame.flag_column = "boolean" /\ r.flag = "true"

(* Mutant: the id of a row is only looked at when it is deleted *)
MutLine(r) ==
    IF cfg.has_deletes /\ Flagged(r) THEN IF r.null_id THEN "null" ELSE "delete"
    ELSE cfg.op_type

(* build_ndjson: the action line of a row, null when its id is *)
Line(r) ==
    IF cfg.id_field /\ r.null_id THEN "null"
    ELSE IF cfg.has_deletes /\ Flagged(r) THEN "delete" ELSE cfg.op_type

(* The index, once the lines of the rows in E were executed *)
Execute(E) ==
    present' = (present \ {r \in E : Line(r) = "delete"})
               \cup {r \in E : Line(r) \in {"index", "create"}}

Shippable(p) == {r \in RowsOf(p) : Line(r) # "null"}

(* The effect of the row's line is in the index *)
LandedIn(r, index) == r \in index <=> Line(r) # "delete"

-----------------------------------------------------------------------------
(* The tasks: the partition writer, run by Spark *)

TaskStarts(p) ==
    /\ pc = "collect" /\ task[p] = "queued"
    /\ task' = [task EXCEPT ![p] = "running"]
    /\ UNCHANGED <<fixed, pc, failures, summary, present, result>>

(* Some row takes effect; also after the job has failed, until the task is *)
(* killed.                                                                 *)
TaskWrites(p) ==
    /\ task[p] = "running"
    /\ \E r \in Shippable(p) : Execute({r})
    /\ UNCHANGED <<fixed, pc, task, failures, summary, result>>

(* Reports of n rows, and those that count one outcome too many. With a     *)
(* negative chunk_size no batch yields a slice and rows are left out.       *)
Summaries(n) ==
    {[counts |-> r.counts, samples |-> r.samples, total_input |-> n] :
        r \in Reports(n, SampleCap, miscount \/ cfg.chunk_size < 0) \cup
              (IF miscount THEN Reports(n + 1, SampleCap, FALSE) ELSE {})}

(* The writer emits its summary row: never if a line of the partition is    *)
(* null, and a clean summary only when the rows have landed.                *)
TaskEmits(p) ==
    /\ pc = "collect" /\ task[p] = "running"
    /\ Shippable(p) = RowsOf(p)
    /\ \E s \in Summaries(Cardinality(RowsOf(p))), E \in SUBSET RowsOf(p) :
          /\ Execute(E)
          /\ Clean(s, s.total_input) => \A r \in RowsOf(p) : LandedIn(r, present')
          /\ summary' = [summary EXCEPT ![p] = s]
    /\ task' = [task EXCEPT ![p] = "done"]
    /\ UNCHANGED <<fixed, pc, failures, result>>

(* Mutant: a task is retried without limit *)
MutExhausted(p) == FALSE

Exhausted(p) == failures[p] + 1 >= MaxTaskFailures

(* The writer raises or its executor is lost; what was written, perhaps all *)
(* of the partition, stays written.                                         *)
TaskFails(p) ==
    /\ pc = "collect" /\ task[p] = "running"
    /\ task' = [task EXCEPT ![p] = "queued"]
    /\ failures' = [failures EXCEPT ![p] = Capped(@ + 1, MaxTaskFailures)]
    /\ pc' = IF Exhausted(p) THEN "raised" ELSE pc
    /\ UNCHANGED <<fixed, summary, present, result>>

(* After the job has failed *)
TaskKilled(p) ==
    /\ pc = "raised" /\ task[p] = "running"
    /\ task' = [task EXCEPT ![p] = "queued"]
    /\ UNCHANGED <<fixed, pc, failures, summary, present, result>>

-----------------------------------------------------------------------------
(* The driver, after collect() *)

(* Rows of a partition without an outcome; negative: outcomes without a row *)
Missing(p) == summary[p].total_input - Accounted(summary[p].counts)

Positive(n) == IF n > 0 THEN n ELSE 0

(* Mutant: the two signs net against each other *)
MutUnaccounted ==
    Positive(SumFunction([p \in Partitions |-> Missing(p)]))

(* The two signs are summed apart *)
Unaccounted == SumFunction([p \in Partitions |-> Positive(Missing(p))])
Overcounted == SumFunction([p \in Partitions |-> Positive(-Missing(p))])

Samples == SumFunction([p \in Partitions |-> summary[p].samples])

(* Mutant: the concatenated samples are not cut *)
MutMergedSamples == Samples

MergedSamples == Capped(Samples, SampleCap)

(* _merge_partition_results *)
MergedResult ==
    [counts      |-> SumCounts([p \in Partitions |-> summary[p].counts]),
     samples     |-> MergedSamples,
     total_input |-> SumFunction([p \in Partitions |-> summary[p].total_input]),
     unaccounted |-> Unaccounted,
     overcounted |-> Overcounted]

(* Mutant: only rejections fail a write *)
MutReconciles(res) == res.counts.errors = 0

(* reconcile_or_raise returns; overcounted is logged only *)
Reconciles(res) == res.counts.errors = 0 /\ res.unaccounted <= 0

Conclude ==
    /\ pc = "collect" /\ \A p \in Partitions : task[p] = "done"
    /\ result' = MergedResult
    /\ pc' = IF raise_on_error /\ ~Reconciles(MergedResult) THEN "raised" ELSE "returned"
    /\ UNCHANGED <<fixed, task, failures, summary, present>>

Driver == Preflight \/ PreflightFails \/ Conclude

Task(p) == TaskStarts(p) \/ TaskEmits(p) \/ TaskFails(p) \/ TaskKilled(p)

Next ==
    \/ Driver
    \/ \E p \in Partitions :
          TaskStarts(p) \/ TaskWrites(p) \/ TaskEmits(p) \/ TaskFails(p) \/ TaskKilled(p)

Spec == Init /\ [][Next]_vars

(* Spark schedules each task, and an attempt ends: PartitionWriter's        *)
(* WriterEnds, or the loss of its executor.                                 *)
FairSpec == Spec /\ WF_vars(Driver) /\ \A p \in Partitions : WF_vars(Task(p))

-----------------------------------------------------------------------------
(* Properties *)

(* The state has the shape the code gives it. *)
TypeOK ==
    /\ cfg \in Configs /\ frame \in Frames /\ raise_on_error \in BOOLEAN
    /\ pc \in {"preflight", "collect", "returned", "raised"}
    /\ task \in [Partitions -> {"queued", "running", "done"}]
    /\ failures \in [Partitions -> 0..MaxTaskFailures]
    /\ summary \in [Partitions -> [counts : Count, samples : 0..SampleCap, total_input : Nat]]
    /\ present \subseteq frame.rows
    /\ result \in [counts : Count, samples : 0..SampleCap, total_input : Nat,
                   unaccounted : Nat, overcounted : Nat]

(* The row is where the caller wants it: gone if flagged, else present *)
AsIntended(r) == r \in present <=> ~(cfg.has_deletes /\ r.flag = "true")

(* A write that returns without errors, and with the rows adding up, put    *)
(* each row where the caller wants it. From the checks on the driver over   *)
(* the routing of deletes, task retries and the merge, nothing is lost and  *)
(* no intended delete was applied as an upsert.                             *)
CleanResultLanded ==
    (pc = "returned" /\ Reconciles(result) /\ result.overcounted = 0) =>
        \A r \in frame.rows : AsIntended(r)

(* A row with a null id never gets a document, and the write that has one   *)
(* never returns, whatever raise_on_error says.                             *)
NullIdRaises ==
    \A r \in frame.rows : (cfg.id_field /\ r.null_id) => r \notin present /\ pc # "returned"

(* Loss in one partition is not cancelled by an overcount in another: a     *)
(* result without unaccounted rows has none missing in any partition.       *)
LossNotCancelled ==
    (pc = "returned" /\ result.unaccounted = 0) =>
        \A p \in Partitions : Accounted(summary[p].counts) >= Cardinality(RowsOf(p))

(* What the caller sees of the write *)
Status == IF pc \in {"returned", "raised"} THEN pc ELSE "writing"

Contract ==
    INSTANCE BulkContract WITH
        rows <- frame.rows, kept <- {r \in frame.rows : ~(cfg.has_deletes /\ r.flag = "true")},
        doomed <- \E r \in frame.rows : cfg.id_field /\ r.null_id,
        strict <- raise_on_error, status <- Status

(* bulk_write keeps its contract with its caller. Above all no row is ever  *)
(* moved away from where the caller wants it, not even by a write that      *)
(* fails or by the tasks that outlive it.                                   *)
ImplementsContract == Contract!Spec

(* bulk_write ends, whatever its tasks do *)
WriteEnds == <>(pc \in {"returned", "raised"})

=============================================================================
