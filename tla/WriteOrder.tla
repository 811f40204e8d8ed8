------------------------------ MODULE WriteOrder ------------------------------
(***************************************************************************)
(* Rows of one partition that share an id. The partition writer of bulk.py *)
(* cuts the rows into chunks and ships up to write_concurrency of them at  *)
(* a time; a chunk is probed, sent in full, and its retryable lines sent   *)
(* again (see ShipChunk, whose retry budgets and counts are left out here: *)
(* a lost request is sent again or fails its chunk). The state of an id in *)
(* the index, a document or none after a delete, is that of the row        *)
(* executed last, whatever its rank.                                       *)
(*                                                                         *)
(* External: Elasticsearch executes the lines of a request with one id in  *)
(* their order, but may refuse any of them, with a status the connector    *)
(* retries or for good. A request that timed out may be executed later.    *)
(* Spark runs a failed task again.                                         *)
(***************************************************************************)
EXTENDS EsWriteConfig, FiniteSets

CONSTANTS
    NumRows,      \* rows of the partition
    Ids,          \* their ids
    Configs,      \* the write configurations considered: upserts and deletes by id
    MaxLosses,    \* bound: requests without an answer
    MaxLate,      \* bound: those of them that are executed late
    MaxTaskRuns   \* bound: runs of the task

ASSUME WriteOrderAssumption ==
    /\ NumRows \in Nat
    /\ Configs \subseteq {c \in WriteConfig :
                       Accepted(c) /\ c.id_field /\ c.op_type = "index" /\ c.chunk_size > 0}
    /\ {MaxLosses, MaxLate, MaxTaskRuns} \subseteq Nat

Rows == 1..NumRows

VARIABLES
    cfg,    \* the configuration, fixed
    id,     \* the id of each row, fixed
    doc,    \* per id, the row executed last, 0 for none of these
    fed,    \* chunks handed to the shipper
    work,   \* the chunks being shipped
    acked,  \* rows counted as written, deleted or ignored in this run of the task
    late,   \* lines of requests that timed out and have yet to be executed
    stragglers, \* history: rows that may be executed after a later row of their id
    env     \* what the bounds count

input == <<cfg, id>>
vars  == <<input, doc, fed, work, acked, late, stragglers, env>>

Chunk(k) == {r \in Rows : (r - 1) \div cfg.chunk_size = k}

(* Row r is the last of E with the id i.                                    *)
IsLast(E, i, r) == r \in E /\ id[r] = i /\ \A q \in E : id[q] = i => q <= r

(* The lines in E are executed.                                             *)
Execute(E) ==
    doc' \in {f \in [Ids -> 0..NumRows] :
               \A i \in Ids : IF \E r \in E : id[r] = i THEN IsLast(E, i, f[i])
                              ELSE f[i] = doc[i]}

FirstPhase == IF cfg.has_deletes \/ cfg.bypass_fast_path THEN "full" ELSE "probe"

Init ==
    /\ cfg \in Configs
    /\ id \in [Rows -> Ids]
    /\ doc = [i \in Ids |-> 0]
    /\ fed = 0 /\ work = {} /\ acked = {} /\ late = {} /\ stragglers = {}
    /\ env = [losses |-> 0, late |-> 0, runs |-> 1]

(* Mutant: no bound on the chunks in flight                                 *)
MutWindow == NumRows

(* Without a pool the chunks are shipped one after the other.               *)
Window == cfg.write_concurrency

Feed ==
    /\ Chunk(fed) # {}
    /\ Cardinality(work) < Window
    /\ work' = work \cup {[lines |-> Chunk(fed), phase |-> FirstPhase, attempt |-> 0]}
    /\ fed' = fed + 1
    /\ UNCHANGED <<input, doc, acked, late, stragglers, env>>

Becomes(w, X) == work' = (work \ {w}) \cup X

(* The probe: a clean chunk is counted. One with a refused line, or whose   *)
(* answer has no flag, is sent again in full.                               *)
Probe(w) ==
    /\ w.phase = "probe"
    /\ \E E \in SUBSET w.lines :
          /\ Execute(E)
          /\ \/ E = w.lines /\ acked' = acked \cup E /\ Becomes(w, {})
             \/ UNCHANGED acked /\ Becomes(w, {[w EXCEPT !.phase = "full"]})
    /\ UNCHANGED <<input, fed, late, stragglers, env>>

(* Of the lines R that are refused with a status to retry, those sent again *)
Retried(w, R) ==
    IF w.attempt < cfg.max_retries_per_doc /\ cfg.retry_on_doc_status # {} THEN R ELSE {}

(* Lines to send again although a later line of their id was executed       *)
Overtaken(again, E) == {p \in again : \E r \in E : id[r] = id[p] /\ p < r}

(* In full: the lines in E are executed and counted, those in R refused for *)
(* now and sent again by themselves, and the others are errors.             *)
Full(w) ==
    /\ w.phase = "full"
    /\ \E E \in SUBSET w.lines : \E R \in SUBSET (w.lines \ E) :
          LET again == Retried(w, R) IN
          /\ Execute(E)
          /\ acked' = acked \cup E
          /\ stragglers' = stragglers \cup Overtaken(again, E)
          /\ Becomes(w, IF again = {} THEN {}
                        ELSE {[lines |-> again, phase |-> "full", attempt |-> w.attempt + 1]})
    /\ UNCHANGED <<input, fed, late, env>>

(* A request is lost: a part of it has been executed, or it is executed     *)
(* later.                                                                   *)
Unanswered(w) ==
    \/ /\ \E E \in SUBSET w.lines : Execute(E)
       /\ UNCHANGED <<late, stragglers>>
       /\ env' = [env EXCEPT !.losses = @ + 1]
    \/ /\ env.late < MaxLate
       /\ late' = late \cup {w.lines}
       /\ stragglers' = stragglers \cup w.lines
       /\ env' = [env EXCEPT !.losses = @ + 1, !.late = @ + 1]
       /\ UNCHANGED doc

(* The client or the connector sends it again, or the chunk fails closed.   *)
Lost(w) ==
    /\ env.losses < MaxLosses
    /\ Unanswered(w)
    /\ Becomes(w, {}) \/ UNCHANGED work
    /\ UNCHANGED <<input, fed, acked>>

ExecuteLate(L) ==
    /\ \E E \in SUBSET L : Execute(E)
    /\ late' = late \ {L}
    /\ UNCHANGED <<input, fed, work, acked, stragglers, env>>

(* The task dies, with whatever of its requests has been executed, and runs *)
(* again from its first row; only the last run's summary counts.            *)
Restart ==
    /\ env.runs < MaxTaskRuns
    /\ env' = [env EXCEPT !.runs = @ + 1]
    /\ \E E \in SUBSET UNION {w.lines : w \in work} : Execute(E)
    /\ fed' = 0 /\ work' = {} /\ acked' = {}
    /\ stragglers' = UNION late
    /\ UNCHANGED <<input, late>>

Next ==
    \/ Feed
    \/ \E w \in work : Probe(w) \/ Full(w) \/ Lost(w)
    \/ \E L \in late : ExecuteLate(L)
    \/ Restart

Spec == Init /\ [][Next]_vars

-----------------------------------------------------------------------------
(* An acknowledged row is not undone by a row before it: the index holds it *)
(* or a later one (or, after a delete, none).                               *)
InOrder == \A r \in acked : doc[id[r]] >= r

UniqueIds == \A r, q \in Rows : id[r] = id[q] => r = q

(* Rows that share an id are applied in row order through every probe,      *)
(* retry, re-send and task re-run, as long as chunks are shipped one at a   *)
(* time, with two exceptions: an earlier row may come out on top only if it *)
(* was refused in a request that executed a later one and then sent again   *)
(* by itself, or if a request that timed out is executed late. With unique  *)
(* ids no acknowledged row is undone, however it is shipped.                *)
RowOrderKept ==
    /\ UniqueIds => InOrder
    /\ cfg.write_concurrency = 1 =>
          \A r \in acked : doc[id[r]] >= r \/ doc[id[r]] \in stragglers

(* README: "the deterministic _id makes the later row upsert over the       *)
(* earlier one", said of every write.                                       *)
LaterRowWins == InOrder

=============================================================================
