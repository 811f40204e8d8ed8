---------------------------- MODULE PartitionWriter ----------------------------
(***************************************************************************)
(* make_ndjson_partition_writer and _PipelinedShipper (bulk.py): the       *)
(* producer thread of one partition pulls Arrow batches of action lines,   *)
(* cuts them into chunks and ships each chunk, either itself               *)
(* (write_concurrency = 1) or through a pool of write_concurrency workers  *)
(* of which it merges the partial results. On every way out it joins the   *)
(* pool, stops the GIL probe and closes the client, in this order, and     *)
(* emits the summary row only if nothing was raised.                       *)
(*                                                                         *)
(* A batch is its number of rows and whether one of its lines is null; a   *)
(* chunk is a slice of a batch. What shipping a chunk does is the contract *)
(* ShipChunk implements: a worker returns some report of the chunk.        *)
(***************************************************************************)
EXTENDS EsWriteConfig, Counts, Sequences, FiniteSets

CONSTANTS
    Configs,             \* the write configurations considered
    Inputs,              \* the partitions considered: sequences of batches
    SampleCap,           \* ERROR_SAMPLE_CAP
    MalformedResponses   \* whether a chunk's report may leave lines out: the cases considered

Batch == [rows : Nat, null : BOOLEAN]
Chunk == [batch : Nat, first : Nat, rows : Nat]

ASSUME WriterAssumption ==
    /\ Configs \subseteq {c \in WriteConfig : Accepted(c)}
    /\ Inputs \subseteq Seq(Batch)
    /\ SampleCap \in Nat \ {0}
    /\ MalformedResponses \subseteq BOOLEAN

VARIABLES
    cfg, input,     \* fixed
    malformed,      \* may a chunk's report leave lines out? fixed
    pc,             \* where the producer is
    raising,        \* an exception is on its way out
    next,           \* index of the next batch to pull
    slices,         \* chunks of the current batch not yet submitted
    pending,        \* submitted chunks whose result is not merged
    queued,         \* chunks waiting for a worker
    running,        \* chunks a worker is shipping
    results,        \* what the finished tasks left: a report, or Crash
    total_input, counts, samples,
    probe, es, pool,   \* "none", "live", "gone"
    shipped,        \* history: the chunks handed over for shipping
    landed          \* history: the chunks that reported clean, hence landed

fixed     == <<cfg, input, malformed>>
workers   == <<queued, running, results>>
totals    == <<counts, samples>>
resources == <<probe, es, pool>>
history   == <<shipped, landed>>
vars == <<fixed, pc, raising, next, slices, pending, workers, total_input, totals,
          resources, history>>

Crash == [counts |-> NoCount, samples |-> -1]

Parallel == cfg.write_concurrency > 1

(* lines[i:i + chunk_size] for i in range(0, n, chunk_size). A negative     *)
(* step yields nothing.                                                     *)
Split(b, n) ==
    LET size == cfg.chunk_size
        count == IF size < 0 THEN 0 ELSE (n + size - 1) \div size
        left(k) == n - (k - 1) * size
    IN  [k \in 1..count |-> [batch |-> b, first |-> (k - 1) * size + 1,
                             rows  |-> IF left(k) < size THEN left(k) ELSE size]]

Init ==
    /\ cfg \in Configs /\ input \in Inputs
    /\ malformed \in MalformedResponses
    /\ pc = "construct" /\ raising = FALSE
    /\ next = 1 /\ slices = <<>> /\ pending = {}
    /\ queued = {} /\ running = {} /\ results = <<>>
    /\ total_input = 0 /\ counts = NoCount /\ samples = 0
    /\ probe = "none" /\ es = "none" /\ pool = "none"
    /\ shipped = {} /\ landed = {}

-----------------------------------------------------------------------------
(* The producer thread *)

(* Leave the try body: normally, or with an exception *)
Leave == pc' = "join" /\ UNCHANGED raising
Raise == pc' = "join" /\ raising' = TRUE

(* Mutant: the constructors run before the try *)
MutConstructFails == pc' = "failed" /\ raising' = TRUE

(* The constructors run inside the try: the finally follows *)
ConstructFails == Raise

(* Probe, client and pool are built in this order, as far as the            *)
(* configuration asks for them; any of the constructors may raise.          *)
Construct ==
    /\ pc = "construct"
    /\ \E built \in 0..3 :
          /\ probe' = IF built > 0 /\ cfg.bulk_stats THEN "live" ELSE "none"
          /\ es'    = IF built > 1 THEN "live" ELSE "none"
          /\ pool'  = IF built > 2 /\ Parallel THEN "live" ELSE "none"
          /\ IF built = 3 THEN pc' = "pull" /\ UNCHANGED raising ELSE ConstructFails
    /\ UNCHANGED <<fixed, next, slices, pending, workers, total_input, totals, history>>

(* Mutant: null lines are not looked for *)
MutUnshippable(b) == b.rows > 0 /\ cfg.chunk_size = 0

(* A null line, or range() with a step of 0 *)
Unshippable(b) == b.null \/ (b.rows > 0 /\ cfg.chunk_size = 0)

(* The next batch. What is unshippable raises before any line of the batch *)
(* is fed.                                                                 *)
Pull ==
    /\ pc = "pull" /\ next <= Len(input)
    /\ LET b == input[next] IN
          /\ next' = next + 1
          /\ total_input' = total_input + b.rows
          /\ IF Unshippable(b)
             THEN Raise /\ UNCHANGED slices
             ELSE /\ slices' = IF b.rows = 0 THEN <<>> ELSE Split(next, b.rows)
                  /\ pc' = IF slices' = <<>> THEN "pull" ELSE "feed"
                  /\ UNCHANGED raising
    /\ UNCHANGED <<fixed, pending, workers, totals, resources, history>>

(* Mutant: an upstream failure ends the partition like its last batch *)
MutPullFails ==
    /\ pc = "pull"
    /\ Leave
    /\ UNCHANGED <<fixed, next, slices, pending, workers, total_input, totals, resources, history>>

(* The upstream iterator raises *)
PullFails ==
    /\ pc = "pull"
    /\ Raise
    /\ UNCHANGED <<fixed, next, slices, pending, workers, total_input, totals, resources, history>>

(* Mutant: the shipper is not closed *)
MutAfterInput == "join"

(* shipper.close(), if there is one, before the try body is left *)
AfterInput == IF Parallel THEN "close" ELSE "join"

PullEnds ==
    /\ pc = "pull" /\ next > Len(input)
    /\ pc' = AfterInput
    /\ UNCHANGED <<fixed, raising, next, slices, pending, workers, total_input, totals, resources, history>>

(* The current slice is handed over; after the last one, back to the input *)
Advance ==
    /\ slices' = Tail(slices)
    /\ pc' = IF Tail(slices) = <<>> THEN "pull" ELSE "feed"
    /\ shipped' = shipped \cup {Head(slices)}

(* Mutant: one task too many *)
MutFull == Cardinality(pending) > cfg.write_concurrency

(* max_inflight is write_concurrency *)
Full == Cardinality(pending) >= cfg.write_concurrency

(* feed: submit a chunk unless max_inflight tasks are outstanding *)
Submit ==
    /\ pc = "feed" /\ Parallel /\ ~Full
    /\ pending' = pending \cup {Head(slices)}
    /\ queued' = queued \cup {Head(slices)}
    /\ Advance
    /\ UNCHANGED <<fixed, raising, next, running, results, total_input, totals, resources, landed>>

(* _merge, for a set of finished tasks *)
Merge(D) ==
    /\ counts' = AddCount(counts, SumCounts([c \in D |-> results[c].counts]))
    /\ samples' = Capped(samples + SumFunction([c \in D |-> results[c].samples]), SampleCap)

(* The finished tasks leave the window *)
Take(D) ==
    /\ pending' = pending \ D
    /\ results' = Restrict(results, DOMAIN results \ D)

(* Mutant: a worker's exception is swallowed *)
MutCrashed(D) == FALSE

(* f.result() raises for one of them *)
Crashed(D) == \E c \in D : results[c] = Crash

(* _drain_one, from feed when the window is full and from close: merge all  *)
(* finished tasks. If one of them crashed the totals are lost: nothing      *)
(* reads them any more.                                                     *)
Drain ==
    /\ \/ pc = "feed" /\ Parallel /\ Full
       \/ pc = "close"
    /\ LET D == pending \cap DOMAIN results IN
          /\ D # {}
          /\ Take(D)
          /\ IF Crashed(D)
             THEN Raise /\ UNCHANGED totals
             ELSE Merge(D) /\ UNCHANGED <<pc, raising>>
    /\ UNCHANGED <<fixed, next, slices, queued, running, total_input, resources, history>>

CloseEnds ==
    /\ pc = "close" /\ pending = {}
    /\ Leave
    /\ UNCHANGED <<fixed, next, slices, pending, workers, total_input, totals, resources, history>>

(* The serial path: the producer ships the chunk and counts it itself *)
ShipSerially ==
    /\ pc = "feed" /\ ~Parallel
    /\ \E r \in Reports(Head(slices).rows, SampleCap, malformed) :
          /\ counts' = AddCount(counts, r.counts)
          /\ samples' = Capped(samples + r.samples, SampleCap)
          /\ landed' = landed \cup {c \in {Head(slices)} : Clean(r, c.rows)}
    /\ Advance
    /\ UNCHANGED <<fixed, raising, next, pending, workers, total_input, resources>>

ShipSeriallyFails ==
    /\ pc = "feed" /\ ~Parallel
    /\ Raise
    /\ shipped' = shipped \cup {Head(slices)}
    /\ UNCHANGED <<fixed, next, slices, pending, workers, total_input, totals, resources, landed>>

(* Mutants: shutdown does not wait; it waits for results nobody merges *)
MutJoined == TRUE
MutJoinsMerged == pending = {}

(* pool.shutdown(wait=True): every submitted task runs to its end first *)
Joined == queued = {} /\ running = {}

Join ==
    /\ pc = "join"
    /\ pool # "none" => Joined
    /\ pool' = IF pool = "none" THEN pool ELSE "gone"
    /\ pc' = "stop"
    /\ UNCHANGED <<fixed, raising, next, slices, pending, workers, total_input, totals,
                   probe, es, history>>

StopProbe ==
    /\ pc = "stop"
    /\ probe' = IF probe = "none" THEN probe ELSE "gone"
    /\ pc' = "release"
    /\ UNCHANGED <<fixed, raising, next, slices, pending, workers, total_input, totals,
                   es, pool, history>>

(* Mutant: the summary row is yielded on the way out of an exception *)
MutEnding == "emitted"

(* The summary row is yielded, or the exception leaves the writer *)
Ending == IF raising THEN "failed" ELSE "emitted"

(* es.close(), whose own failure is swallowed *)
CloseClient ==
    /\ pc = "release"
    /\ es' = IF es = "none" THEN es ELSE "gone"
    /\ pc' = Ending
    /\ UNCHANGED <<fixed, raising, next, slices, pending, workers, total_input, totals,
                   probe, pool, history>>

-----------------------------------------------------------------------------
(* The pool's workers *)

producer == <<fixed, pc, raising, next, slices, pending, total_input, totals, resources>>

WorkerStarts(c) ==
    /\ c \in queued
    /\ Cardinality(running) < cfg.write_concurrency
    /\ queued' = queued \ {c}
    /\ running' = running \cup {c}
    /\ UNCHANGED <<producer, results, history>>

(* _ship_one returns the private counts of its chunk *)
WorkerReturns(c) ==
    /\ c \in running
    /\ running' = running \ {c}
    /\ \E r \in Reports(c.rows, SampleCap, malformed) :
          /\ results' = [d \in DOMAIN results \cup {c} |-> IF d = c THEN r ELSE results[d]]
          /\ landed' = landed \cup {d \in {c} : Clean(r, d.rows)}
    /\ UNCHANGED <<producer, queued, shipped>>

WorkerCrashes(c) ==
    /\ c \in running
    /\ running' = running \ {c}
    /\ results' = [d \in DOMAIN results \cup {c} |-> IF d = c THEN Crash ELSE results[d]]
    /\ UNCHANGED <<producer, queued, history>>

Producer ==
    \/ Construct
    \/ Pull \/ PullFails \/ PullEnds
    \/ Submit \/ Drain \/ CloseEnds
    \/ ShipSerially \/ ShipSeriallyFails
    \/ Join \/ StopProbe \/ CloseClient

Worker ==
    \/ \E c \in queued : WorkerStarts(c)
    \/ \E c \in running : WorkerReturns(c)
    \/ \E c \in running : WorkerCrashes(c)

Next == Producer \/ Worker

Spec == Init /\ [][Next]_vars

(* Both threads run: the producer blocks only where it waits for a worker,  *)
(* and a worker's request ends at the latest with its last timeout.         *)
FairSpec == Spec /\ WF_vars(Producer) /\ WF_vars(Worker)

-----------------------------------------------------------------------------
(* Properties *)

RowsOf(S) == SumFunction([c \in S |-> c.rows])

(* Rows are conserved from the iterator to the totals: while nothing was    *)
(* raised, what was counted, what is in flight and what is still to be fed  *)
(* make up the rows pulled so far; less, if a response was malformed, and   *)
(* never more (what the driver calls `overcounted`). No partial is merged   *)
(* twice or dropped, whatever the order in which workers finish.            *)
RowsConserved ==
    LET rows == Accounted(counts) + RowsOf(pending) + RowsOf(Range(slices)) IN
    ~raising => /\ rows <= total_input
                /\ ~malformed /\ cfg.chunk_size >= 0 => rows = total_input

(* A summary row that is clean, for all the rows of the partition, means    *)
(* that each row of each batch is in a chunk that landed.                   *)
CleanSummaryLanded ==
    (pc = "emitted" /\ counts.errors = 0 /\ Accounted(counts) = total_input) =>
        \A b \in DOMAIN input : \A i \in 1..input[b].rows :
            \E c \in landed : c.batch = b /\ i \in c.first..(c.first + c.rows - 1)

(* A null line fails the partition, and nothing of its batch is ever sent,  *)
(* nor of a later one.                                                      *)
NullLineFails ==
    \A b \in DOMAIN input : input[b].null =>
        /\ \A c \in shipped : c.batch < b
        /\ pc # "emitted"

(* Backpressure: at most write_concurrency chunks are held in memory beside *)
(* the batch being fed, and all of them can be running.                     *)
InFlightBounded ==
    /\ Cardinality(pending) <= cfg.write_concurrency
    /\ ~raising => queued \cup running \subseteq pending

(* Nothing is torn down under a worker: while a task is queued or runs, the *)
(* client is open, the pool alive and, under bulk_stats, the probe sampling.*)
WorkersHaveTheirTools ==
    queued \cup running # {} =>
        es = "live" /\ pool = "live" /\ (cfg.bulk_stats => probe = "live")

(* Whichever way the writer ends, what it built is gone *)
NothingLeaks ==
    pc \in {"emitted", "failed"} => "live" \notin {probe, es, pool}

(* A worker that died fails the partition: a summary row is only emitted    *)
(* when each chunk that was handed over has been merged.                    *)
NoLostWorker ==
    pc = "emitted" => pending = {} /\ queued = {} /\ running = {} /\ DOMAIN results = {}

(* What Spark and the driver see of the partition *)
InputRows  == UNION {{b} \X (1..input[b].rows) : b \in DOMAIN input}
LandedRows == UNION {{c.batch} \X (c.first..(c.first + c.rows - 1)) : c \in landed}
Status     == IF pc \in {"emitted", "failed"} THEN pc ELSE "writing"
Summary    == IF pc # "emitted" THEN [counts |-> NoCount, samples |-> 0, total_input |-> 0]
              ELSE [counts |-> counts, samples |-> samples, total_input |-> total_input]

Contract ==
    INSTANCE PartitionContract WITH
        rows <- InputRows, doomed <- \E b \in DOMAIN input : input[b].null,
        status <- Status, summary <- Summary, landed <- LandedRows,
        may_miss <- malformed \/ cfg.chunk_size < 0

(* The writer keeps its contract with Spark and the driver, for any input   *)
(* and any chunk_size; a negative one ships nothing, and the rows are       *)
(* missing in the summary.                                                  *)
ImplementsContract == Contract!Spec

(* The partition ends, with a summary or with an exception: feed, close and *)
(* shutdown never wait for a task that cannot finish.                       *)
WriterEnds == <>(pc \in {"emitted", "failed"})

=============================================================================
