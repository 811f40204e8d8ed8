-------------------------------- MODULE PitRead --------------------------------
(***************************************************************************)
(* read_index (read.py): the driver resolves the number of slices, opens a *)
(* point in time (PIT) and returns a lazy DataFrame. Whenever that is      *)
(* evaluated, Spark runs one task per slice; a task pages through its      *)
(* slice with search_after until a page is empty, and gathers all rows of  *)
(* the slice before it hands them on. Nobody closes the PIT: each page     *)
(* prolongs it by keep_alive. The clients are left out.                    *)
(*                                                                         *)
(* External: Elasticsearch keeps the PIT's snapshot while writers go on;   *)
(* a search takes the first hits in _shard_doc order, may answer with a    *)
(* new PIT id, and may leave out the shards that fail. Spark runs a failed *)
(* task again, with the id the driver captured.                            *)
(***************************************************************************)
EXTENDS Naturals, FiniteSets

CONSTANTS
    Docs,            \* documents, as their ranks in the _shard_doc order
    Shards,          \* the shards of the index
    ShardOf,         \* the shard of each document
    SliceOf,         \* SliceOf[k][d]: the slice of d among k
    Configs,         \* the calls considered
    BatchSize,       \* EsReadConfig.batch_size
    KeepAlive,       \* pit_keep_alive, in ticks
    Slots,           \* tasks Spark runs at a time
    MaxAttempts,     \* attempts Spark gives a task
    Worlds,          \* the worlds considered
    MaxEvaluations,  \* bound: times the DataFrame is evaluated
    MaxFaults        \* bound: requests that raise

(* A call; num_slices 0 is None. It is valid if _validate and              *)
(* _reject_non_string_map_keys let the schema and the index pass.          *)
Config == [valid : BOOLEAN, num_slices : Nat, strict_slices : BOOLEAN]

(* Does a search answer although shards failed? Does an id work after a     *)
(* newer one was issued? Which documents have a value read_coerce refuses?  *)
(* How many ticks may pass between two searches, how many new PIT ids are   *)
(* issued and how often do others change the index, at most (bounds)?       *)
World == [partial : BOOLEAN, old_ids_work : BOOLEAN, uncoercible : SUBSET Docs,
          max_gap : Nat, refreshes : Nat, writes : Nat]

SliceCounts == {c.num_slices : c \in Configs} \cup {1, Cardinality(Shards)}

ASSUME PitReadAssumption ==
    /\ Docs \subseteq Nat \ {0} /\ IsFiniteSet(Docs)
    /\ IsFiniteSet(Shards) /\ Shards # {}
    /\ ShardOf \in [Docs -> Shards]
    /\ \A k \in SliceCounts \ {0} : SliceOf[k] \in [Docs -> 0..(k - 1)]
    /\ Configs \subseteq Config /\ Worlds \subseteq World
    /\ {BatchSize, KeepAlive, Slots, MaxAttempts} \subseteq Nat \ {0}
    /\ {MaxEvaluations, MaxFaults} \subseteq Nat

VARIABLES
    cfg, world,  \* fixed
    phase,       \* "start", "resolved", "lazy", "running" or "raised"
    n,           \* the number of slices, 0 before it is resolved
    live,        \* the documents in the index now
    snapshot,    \* the documents in the PIT
    ttl,         \* ticks until the PIT expires
    ids,         \* PIT ids that work
    task,        \* per slice "waiting", "reading" or "done"
    attempt,     \* per slice, failed attempts
    pos,         \* per slice, search_after: the last document read
    pit_id,      \* per slice, the id its next search uses
    rows,        \* per slice and document, the rows gathered
    out,         \* per document, the rows of this evaluation handed on
    env,         \* what the bounds count
    missing      \* missing: shards that failed in a search that answered

driver  == <<cfg, world, phase, n>>
pit     == <<snapshot, ttl, ids>>
tasks   == <<task, attempt, pos, pit_id, rows>>
vars    == <<driver, live, pit, tasks, out, env, missing>>

(* Mutant: the last slice is left out                                       *)
MutSlices == 0..(n - 2)

(* spark.range(num_slices): one task per slice.                             *)
Slices == 0..(n - 1)

NoRows == [d \in Docs |-> 0]

(* The driver captures the id that opening the PIT returned in the reader   *)
(* it ships to the tasks.                                                   *)
CapturedId == 0

Fault(e) == e.faults < MaxFaults
Faulted  == [env EXCEPT !.faults = @ + 1]

Init ==
    /\ cfg \in Configs /\ world \in Worlds
    /\ phase = "start"
    /\ n = 0
    /\ live \in SUBSET Docs
    /\ snapshot = {} /\ ttl = 0 /\ ids = {}
    /\ task = <<>> /\ attempt = <<>> /\ pos = <<>> /\ pit_id = <<>> /\ rows = <<>>
    /\ out = NoRows
    /\ env = [gap |-> 0, evaluations |-> 0, writes |-> 0, faults |-> 0, id |-> CapturedId]
    /\ missing = {}

-----------------------------------------------------------------------------
(* The driver                                                               *)

Raise ==
    /\ phase' = "raised"
    /\ UNCHANGED <<cfg, world, n>>

(* Nothing has been asked of Elasticsearch yet.                             *)
ValidationFails ==
    /\ phase = "start" /\ ~cfg.valid
    /\ Raise
    /\ UNCHANGED <<live, pit, tasks, out, env, missing>>

(* Mutant: replicas are counted too                                         *)
MutShardCount == 2 * Cardinality(Shards)

ShardCount == Cardinality(Shards)

Resolved(k) == n' = k /\ phase' = "resolved" /\ UNCHANGED <<cfg, world>>

ResolveSlices ==
    /\ phase = "start" /\ cfg.valid
    /\ \/ /\ cfg.num_slices # 0
          /\ Resolved(cfg.num_slices)
          /\ UNCHANGED env
       \/ /\ cfg.num_slices = 0
          /\ Resolved(ShardCount)
          /\ UNCHANGED env
       \/ /\ cfg.num_slices = 0 /\ ~cfg.strict_slices /\ Fault(env)
          /\ Resolved(1)
          /\ env' = Faulted
    /\ UNCHANGED <<live, pit, tasks, out, missing>>

(* The shard count cannot be read, or the PIT cannot be opened.             *)
PlanFails ==
    /\ \/ phase = "start" /\ cfg.valid /\ cfg.num_slices = 0 /\ cfg.strict_slices
       \/ phase = "resolved"
    /\ Fault(env) /\ env' = Faulted
    /\ Raise
    /\ UNCHANGED <<live, pit, tasks, out, missing>>

OpenPit ==
    /\ phase = "resolved"
    /\ phase' = "lazy"
    /\ snapshot' = live /\ ttl' = KeepAlive /\ ids' = {CapturedId}
    /\ env' = [env EXCEPT !.gap = 0]
    /\ UNCHANGED <<cfg, world, n, live, tasks, out, missing>>

(* An action runs on the DataFrame: one task per slice, from the start.     *)
Evaluate ==
    /\ phase = "lazy" /\ env.evaluations < MaxEvaluations
    /\ phase' = "running"
    /\ env' = [env EXCEPT !.evaluations = @ + 1]
    /\ task' = [s \in Slices |-> "waiting"]
    /\ attempt' = [s \in Slices |-> 0]
    /\ pos' = [s \in Slices |-> 0]
    /\ pit_id' = [s \in Slices |-> CapturedId]
    /\ rows' = [s \in Slices |-> NoRows]
    /\ out' = NoRows
    /\ UNCHANGED <<cfg, world, n, live, pit, missing>>

Return ==
    /\ phase = "running" /\ \A s \in Slices : task[s] = "done"
    /\ phase' = "lazy"
    /\ UNCHANGED <<cfg, world, n, live, pit, tasks, out, env, missing>>

-----------------------------------------------------------------------------
(* The task of slice s                                                      *)

Working == {s \in Slices : task[s] = "reading"}

Reading(s) == phase = "running" /\ s \in Working

StartTask(s) ==
    /\ phase = "running" /\ s \in Slices /\ task[s] = "waiting"
    /\ Cardinality(Working) < Slots
    /\ task' = [task EXCEPT ![s] = "reading"]
    /\ pos' = [pos EXCEPT ![s] = 0]
    /\ pit_id' = [pit_id EXCEPT ![s] = CapturedId]
    /\ rows' = [rows EXCEPT ![s] = NoRows]
    /\ UNCHANGED <<driver, live, pit, attempt, out, env, missing>>

(* A single slice reads the PIT unsliced.                                   *)
InSlice(s) == IF n = 1 THEN snapshot ELSE {d \in snapshot : SliceOf[n][d] = s}

Remaining(s) == {d \in InSlice(s) : d > pos[s]}

(* External: the first hits among the documents asked for, a batch at most. *)
IsPage(hits, asked) ==
    /\ \A d \in hits, e \in asked : e < d => e \in hits
    /\ Cardinality(hits) =
          IF Cardinality(asked) < BatchSize THEN Cardinality(asked) ELSE BatchSize

(* External: the shards that fail while the search answers all the same;    *)
(* it raises when all of them fail.                                         *)
Failures == IF world.partial THEN SUBSET Shards \ {Shards} ELSE {{}}

(* Mutant: keep_alive is not sent again                                     *)
MutProlonged == ttl

(* Every search sends keep_alive.                                           *)
Prolonged == KeepAlive

(* External: the search prolongs the PIT and may issue a new id.            *)
Touch(s, id) ==
    /\ ttl > 0 /\ pit_id[s] \in ids
    /\ ttl' = Prolonged
    /\ \/ id = pit_id[s] /\ UNCHANGED ids /\ env' = [env EXCEPT !.gap = 0]
       \/ /\ env.id < world.refreshes /\ id = env.id + 1
          /\ ids' = (IF world.old_ids_work THEN ids ELSE ids \ {pit_id[s]}) \cup {id}
          /\ env' = [env EXCEPT !.gap = 0, !.id = id]
    /\ UNCHANGED snapshot

(* Mutant: what cannot be coerced is passed on                              *)
MutCoerced(hits) == TRUE

(* Every hit of a page is coerced, or the task raises.                      *)
Coerced(hits) == hits \cap world.uncoercible = {}

(* Mutant: search_after is the first hit of the page                        *)
MutSearchAfter(d, hits) == \A e \in hits : d <= e

(* search_after is the last hit of the page.                                *)
SearchAfter(d, hits) == \A e \in hits : e <= d

(* One page with hits: all of them are coerced and gathered.                *)
NextPage(s) ==
    /\ Reading(s)
    /\ \E F \in Failures, id \in 0..world.refreshes :
          LET asked == {d \in Remaining(s) : ShardOf[d] \notin F} IN
          \E hits \in SUBSET asked :
             /\ IsPage(hits, asked) /\ hits # {} /\ Coerced(hits)
             /\ Touch(s, id)
             /\ rows' = [rows EXCEPT ![s] =
                            [d \in Docs |-> IF d \in hits THEN @[d] + 1 ELSE @[d]]]
             /\ \E last \in hits :
                   /\ SearchAfter(last, hits)
                   /\ pos' = [pos EXCEPT ![s] = last]
             /\ pit_id' = [pit_id EXCEPT ![s] = id]
             /\ missing' = missing \cup F
    /\ UNCHANGED <<driver, live, task, attempt, out>>

(* Mutant: the loop does not end on a first page                            *)
MutNoHits(s, F) == pos[s] > 0 /\ \A d \in Remaining(s) : ShardOf[d] \in F

NoHits(s, F) == \A d \in Remaining(s) : ShardOf[d] \in F

(* An empty page ends the slice; its rows are handed on.                    *)
EndSlice(s) ==
    /\ Reading(s)
    /\ \E F \in Failures, id \in 0..world.refreshes :
          /\ NoHits(s, F)
          /\ Touch(s, id)
          /\ missing' = missing \cup F
    /\ task' = [task EXCEPT ![s] = "done"]
    /\ out' = [d \in Docs |-> out[d] + rows[s][d]]
    /\ UNCHANGED <<driver, live, attempt, pos, pit_id, rows>>

(* A search raises: the PIT has expired, its id no longer works, or         *)
(* something else is wrong; or a hit of the page cannot be coerced.         *)
AttemptFails(s) ==
    /\ Reading(s)
    /\ \/ /\ ttl = 0 \/ pit_id[s] \notin ids
          /\ UNCHANGED <<pit, env>>
       \/ /\ Fault(env) /\ env' = Faulted
          /\ UNCHANGED pit
       \/ /\ \E hits \in SUBSET Remaining(s) :
                IsPage(hits, Remaining(s)) /\ ~Coerced(hits)
          /\ \E id \in 0..world.refreshes : Touch(s, id)
    /\ attempt' = [attempt EXCEPT ![s] = @ + 1]
    /\ task' = [task EXCEPT ![s] = "waiting"]
    /\ IF attempt[s] + 1 < MaxAttempts THEN UNCHANGED driver ELSE Raise
    /\ UNCHANGED <<live, pos, pit_id, rows, out, missing>>

-----------------------------------------------------------------------------
(* The world outside                                                        *)

(* Time passes. Spark leaves no more than max_gap ticks between two searches. *)
Tick ==
    /\ phase \in {"lazy", "running"} /\ env.gap < world.max_gap
    /\ env' = [env EXCEPT !.gap = @ + 1]
    /\ ttl' = IF ttl > 0 THEN ttl - 1 ELSE 0
    /\ UNCHANGED <<driver, live, snapshot, ids, tasks, out, missing>>

(* Others go on writing to the index.                                       *)
Write(d) ==
    /\ env.writes < world.writes
    /\ env' = [env EXCEPT !.writes = @ + 1]
    /\ live' = IF d \in live THEN live \ {d} ELSE live \cup {d}
    /\ UNCHANGED <<driver, pit, tasks, out, missing>>

Driver == ValidationFails \/ ResolveSlices \/ PlanFails \/ OpenPit \/ Evaluate \/ Return
Task(s) == StartTask(s) \/ NextPage(s) \/ EndSlice(s) \/ AttemptFails(s)
Outside == Tick \/ \E d \in Docs : Write(d)

Next == Driver \/ Outside \/ \E s \in Slices : Task(s)

Spec == Init /\ [][Next]_vars

(* Spark schedules every task, and every request is answered or raises.     *)
Fairness == WF_vars(Driver) /\ WF_vars(\E s \in Slices : Task(s))

FairSpec == Spec /\ Fairness

-----------------------------------------------------------------------------
(* The types.                                                               *)
PerSlice(S) == IF task = <<>> THEN {<<>>} ELSE [Slices -> S]

TypeOK ==
    /\ cfg \in Configs /\ world \in Worlds
    /\ phase \in {"start", "resolved", "lazy", "running", "raised"}
    /\ n \in SliceCounts \cup {0}
    /\ live \subseteq Docs /\ snapshot \subseteq Docs
    /\ ttl \in 0..KeepAlive
    /\ ids \subseteq 0..world.refreshes
    /\ task \in PerSlice({"waiting", "reading", "done"})
    /\ attempt \in PerSlice(0..MaxAttempts)
    /\ pos \in PerSlice(Docs \cup {0})
    /\ pit_id \in PerSlice(0..world.refreshes)
    /\ rows \in PerSlice([Docs -> Nat])
    /\ out \in [Docs -> Nat]
    /\ env \in [gap : 0..world.max_gap, evaluations : 0..MaxEvaluations, writes : 0..world.writes,
                faults : 0..MaxFaults, id : 0..world.refreshes]
    /\ missing \subseteq Shards

Returned == phase = "lazy" /\ env.evaluations > 0

(* The rows of an evaluation that returned are the documents of the         *)
(* snapshot, each once, whatever was retried, refreshed or written in       *)
(* between; only documents of a shard that failed in a search that answered *)
(* all the same can be absent (_slice_hits looks at the hits alone).        *)
OnlyFailedShardsLoseRows ==
    Returned =>
        \A d \in Docs :
            /\ out[d] <= IF d \in snapshot THEN 1 ELSE 0
            /\ d \in snapshot /\ ShardOf[d] \notin missing => out[d] = 1

(* A snapshot with a document that cannot be coerced is never returned      *)
(* without it: _coerce_hit raises in every attempt, so the read does too.   *)
UncoercibleFailsTheRead ==
    Returned /\ missing = {} => snapshot \cap world.uncoercible = {}

(* keep_alive is a sliding window: with no gap between two searches as long *)
(* as it, and nothing else going wrong, a read returns however long it      *)
(* takes (every page re-sends keep_alive and the reader follows a refreshed *)
(* id). Where an old id dies, that holds for one slice and one evaluation:  *)
(* other tasks start from the captured id.                                  *)
SlidingWindowSuffices ==
    /\ cfg.valid /\ world.max_gap < KeepAlive /\ env.faults = 0
    /\ snapshot \cap world.uncoercible = {}
    /\ world.old_ids_work \/ (n <= 1 /\ env.evaluations <= 1)
    => phase # "raised"

(* Every evaluation comes to an end.                                        *)
EvaluationEnds == phase = "running" ~> phase # "running"

Contract == INSTANCE ReadContract WITH
    may_miss <- world.partial,
    status   <- IF phase \in {"start", "resolved"} THEN "planned" ELSE phase

(* read_index implements what it promises.                                  *)
ImplementsContract == Contract!Spec

=============================================================================
