# A verification project for databricks-es-connector

This directory holds TLA+ models of the connector in `src/src/databricks_es_connector`, the TLC
configurations that check them on small instances, and proofs that the TLA+ proof system (TLAPS)
checks for every instance. The connector writes a Spark DataFrame to Elasticsearch and reads an index
back. Its whole concern is silent failure: a write that reports success while rows are lost. The
properties here say what a reported success means, and under which failures it keeps meaning it.

File names without a path are in `src/src/databricks_es_connector`.

## Inventory

| Component | Code | State | Operations | What is hard |
|---|---|---|---|---|
| Configuration | `config.py` `EsConnection`, `EsWriteConfig`, `EsReadConfig`, `max_retries` umbrella | frozen fields | construct (validates), `client_kwargs` | two retry layers configured apart; one field overridden on its way to the client |
| Frame preparation | `spark_prep.py` | none (pure on types) | `sanitize_for_arrow`, `normalize_timestamps_for_utc` | nested types; two walks over a type that must agree |
| Action lines | `spark_serialize.py` `build_ndjson` | none | one `_bulk` line per row; null for a null id | deletes routed by a flag; non-finite ids |
| Driver of a write | `bulk.py` `bulk_write`, `_preflight`, `_merge_partition_results`, `reconcile_or_raise` | summary rows, result dict | check the frame, run the job, merge, reconcile | checks before anything is written; retried tasks; signs that must not net |
| Partition writer | `bulk.py` `make_ndjson_partition_writer`, `_PipelinedShipper` | totals, pending futures, pool, client, probe | pull, feed, drain, close, teardown, emit | worker threads, backpressure, teardown under exceptions |
| Shipping one chunk | `bulk.py` `_ship_ndjson_chunk`, `classify_bulk_result` | pending lines, attempt, counts, samples, diagnostics | probe, full re-ship, per-document retry, timeout retry, fail closed | lost responses, three retry loops, malformed responses |
| Diagnostics | `bulk.py` `_GilWaitProbe`, `_aggregate_bulk_stats` | timings | aggregate | a daemon thread; statistics only |
| Streaming sink | `stream.py` `make_foreach_batch` | none; Spark's checkpoint | one call per micro-batch | replay after a crash; a policy that decides whether the checkpoint advances |
| Point-in-time reader | `read.py` | PIT id, `search_after` | open the PIT, page each slice | a sliding keep-alive, lazy evaluation, task retries |
| Read coercion | `read_transform.py`, `read.py` `_coerce_hit` | none | `read_coerce` | width overflow, containers under scalar types |

How they interact: `make_foreach_batch` calls `bulk_write` per micro-batch. `bulk_write` prepares the
frame, checks it against the configuration, has Spark build the lines and run one partition writer per
partition, and merges the summary rows the successful tasks returned. A partition writer cuts batches
of lines into chunks and ships each, itself or through a pool. Shipping a chunk talks to
Elasticsearch through the client, whose transport re-sends requests on its own. The components share
nothing but arguments and results, with two exceptions: the partition's ES client, which all workers
use, and the index.

What makes each correct:

* a chunk: each line has exactly one outcome; reported clean means that it landed;
* a partition: no partial result is lost or merged twice; no exception is swallowed; nothing is torn
  down under a worker; it ends;
* a write: a result that reconciles means that each row is where the caller wants it;
* the sink: the checkpoint passes a batch only when its rows landed (under `on_error="raise"`);
* the reader: a DataFrame that was read without an exception has each document of the snapshot once;
* coercion: a value either comes back as it was written or raises.

## Modules

| Module | Models | Uses |
|---|---|---|
| `EsWriteConfig` | fields, validation, the `retry_on_timeout` override | |
| `BulkItems` | `classify_bulk_result`, `_reject_bucket`, the test for a rejection | |
| `Counts` | the four totals, capped sample lists, what shipping n lines may report | |
| `ShipContract` | abstract: what shipping a chunk promises | `Counts` |
| `ShipChunk` | `_ship_ndjson_chunk` over an unreliable Elasticsearch; implements `ShipContract` | the above |
| `PartitionContract` | abstract: what writing a partition promises | `Counts` |
| `PartitionWriter` | `make_ndjson_partition_writer` with `_PipelinedShipper`; implements `PartitionContract` | `EsWriteConfig`, `Counts` |
| `WriteOrder` | the same code seen from the index, for rows that share an id | `EsWriteConfig` |
| `BulkWrite` | `bulk_write` over tasks that do what `PartitionContract` promises | `EsWriteConfig`, `Counts` |
| `BulkContract` | abstract: what `bulk_write` promises its caller; `BulkWrite` implements it | `Counts` |
| `Stream` | `make_foreach_batch` in a stream that crashes and replays, over what `BulkContract` promises | |
| `ReadContract` | abstract: what `read_index` promises | |
| `PitRead` | `read_index` and its slice tasks over a point in time; implements `ReadContract` | |
| `Scalars` | what both directions do with a scalar, and the tables' word on it | |
| `SparkTypes` | types and values, as both directions walk them | `Scalars` |
| `WriteTransform` | `sanitize_for_arrow`, `normalize_timestamps_for_utc`, the rewrites of `build_ndjson` | `SparkTypes` |
| `ReadTransform` | `spark_type_token`, the map key check, `read_coerce`, `_coerce_hit` | `SparkTypes` |
| `RoundTrip` | one column written and read back, or a foreign field read, against the documented tables | the two above |
| `SumProofs` | laws of sums over finite sets and of the totals of `Counts` | `Counts`, library theorems |
| `ShipChunkProofs`, `PartitionWriterProofs`, `WriteOrderProofs`, `BulkWriteProofs`, `StreamProofs`, `PitReadProofs`, `ScalarProofs` | theorems about the module each is named for | `TLAPS`, library theorems, `SumProofs` |
| `MC...` | small instances for TLC | |

The composition is by contract. `ShipChunk` is shown to implement `ShipContract`; a worker of
`PartitionWriter` returns any report that contract allows (`Reports` in `Counts`) and so does not
repeat the retry loops. `PartitionWriter` is shown to implement `PartitionContract`; a task of
`BulkWrite` emits any summary that one allows. `BulkWrite` is shown to implement `BulkContract`; in
`Stream` the write of a micro-batch moves rows, returns and raises as that one allows. Each level is
checked with all the behaviours of the level below it and none of its states. `RoundTrip` composes the
two transforms by running them one after the other on one column; `PitRead` uses of coercion only that
it raises or not.

### ShipChunk

The variables are the locals of `_ship_ndjson_chunk` (`pending`, `attempt`, `counts`, `samples`,
`diag`), of one `_send_retrying` call (`resends`) and of one `es.bulk` call (`http`: re-sends by the
transport), with `phase` for the place in the code, and the index (`docs`, documents per line).
`timeouts`, `unknown` and `before` are history.

Lines are positions; their ids are distinct or generated. Every HTTP attempt is one step with one of
three endings. It may be *lost* (`Losses`) after Elasticsearch executed any subset of its lines; then
the transport re-sends (`TransportResend`), or raises and `_send_retrying` re-sends
(`ConnectorResend`), or the pending lines are counted as errors (`FailClosed`). It may be *answered*:
`ProbeAnswered` and `FullAnswered` are the two paths of the function. It may be answered *unreadably*
(`FullUnreadable`). An item with a 5xx status does not tell whether its line was executed. With
`MalformedResponses`, the flag, a suffix of the items, or all of them may be missing.

Not modelled: the backoff sleeps, the timings of `bulk_stats`, the text of samples.

### PartitionWriter

`pc` is where the producer thread is; `slices` the chunks of the current batch not yet submitted;
`pending` is `_pending`; `queued`, `running` and `results` are the pool. The producer and the workers
interleave. `Drain` is `_drain_one`: it merges all tasks that are finished at that moment, or raises if
one of them crashed. Every way out of the try body goes to `Join`, `StopProbe`, `CloseClient`, in that
order. Constructors, the upstream iterator and a worker may raise at any time. `probe`, `es` and
`pool` record what exists. `shipped` and `landed` are history.

`chunk_size` is not validated by the code: 0 makes `range()` raise and a negative value yields no
slices; `Split` and `Unshippable` do the same.

### BulkWrite

A frame is its rows and what the driver can see of it. `Preflight` is `_preflight`; `Line` is the
action `build_ndjson` gives a row; `TaskWrites` lets any row take effect at any time, `TaskEmits` ends
an attempt with a summary, `TaskFails` ends it without (an exception, or a lost executor), and Spark
runs it again until `MaxTaskFailures`; then the job fails while other tasks write on until they are
killed. `Conclude` merges and reconciles.

A summary counts every row unless a response was malformed or `chunk_size` is negative, as
`PartitionContract` has it; with `miscount` there are also summaries that count one outcome too many (a
response padded by a proxy), which is the case the sign split is for.

### Stream

`Trigger` is the call of `_foreach_batch` with its test for an empty batch; `WriteRow`,
`WriteReturns` and `WriteRaises` are `bulk_write`; `HookReturns` and `HookRaises` are `on_batch`;
`Policy` is the rest of the function. `Commit` is the checkpoint, which Spark writes when the function
returned. `Crash` may happen anywhere, between the return and the commit too; `Restart` replays the
batch after the last one committed. `from` is the index: the batch whose row of an id took effect last.
Of the counts of a result, `Stream` keeps whether they are positive, which is all the policies test.

A failure that no row of the batch explains passes, and costs one of `MaxFaults`. Three kinds of batch
fail as often as they are tried (`Trouble`): those with a poison row, which Elasticsearch rejects
whenever it is sent (with a negative `chunk_size` all rows are as good as poison, as none is ever sent);
*doomed* ones, on which `bulk_write` raises (a row with a null id, a preflight that fails, a
`chunk_size` of 0); and *balked* ones, whose result the hook raises on. `stream.py:83` and `:79`, `:86`
let these exceptions out, so a doomed or balked batch wedges the stream under every policy, and a poison
row under `raise` only. `Passable` says so, and `StreamDrains` promises the end of the stream or a batch
that is not passable. Tasks of a failed attempt may write on, until the next batch is started: Spark
kills them, and the replay of their own batch writes the same rows.
A task that survived into the next batch would put an old row over a new one;
the code has nothing against that, and the model assumes that it does not happen.

Scope: `id_field` is set, ids are distinct within a batch, rows are upserts or deletes. With generated
ids a replay writes a second document, as the README says; with `op_type="create"` the first row of an
id stays.

### WriteOrder

`ShipChunk` and `PartitionWriter` take the lines of a partition to be independent. `WriteOrder` is about
the case where they are not: `id` gives each row an id, several rows the same, and `doc` is the rank of
the row whose line was executed last for an id (an upsert or a delete). `Feed` hands the next chunk
to the shipper within the window of `write_concurrency`; `Probe`, `Full` and `Lost` are what
`_ship_ndjson_chunk` does with it; `Restart` is Spark running the task again. `ExecuteLate` is a request
that nobody waits for any longer and that Elasticsearch executes nevertheless.

A request may refuse any of its lines, each by itself, as in `ShipChunk`: `Full` sends those with a status
of `retry_on_doc_status` again alone (`Retried`) while the attempts last and counts the others. So a line
that was refused can be executed after a later one of its id that was not (`Overtaken`), within a chunk
and with serial shipping too. `stragglers` is history: the rows this can happen to, and those of requests
executed late. Nothing but `RowOrderKept` reads it. External and assumed: the lines of one request that
share an id are executed in their order.

### PitRead

`ResolveSlices`, `OpenPit` and their failures are the driver's part of `read_index`; `Evaluate` is an
action that Spark runs on the lazy DataFrame. `StartTask`, `NextPage`, `EndSlice` and `AttemptFails`
are `_slice_hits` inside the function `_make_slice_reader` returns; `rows` is the list it builds before
it yields, `pos` is `search_after`, `pit_id` the local that follows the refreshed id. A task that fails
starts again from the captured id and from nothing; `out` is what the successful tasks handed on.

`world` fixes, for a behaviour, what Elasticsearch and the scheduler may do: whether a search answers
although shards failed (the reader does not look at `_shards` or `timed_out`), whether an id still works
after a newer one was issued, which documents do not fit the schema, how long the gaps between two
searches may be. Time is a counter (`ttl`), and `Tick` stops at `max_gap` since the last search.

### Scalars, SparkTypes, WriteTransform, ReadTransform, RoundTrip

A type is a tree and a value a tree with tags (see the heads of `Scalars` and `SparkTypes`). `Scalars` is
what happens at the leaves: the two epoch rewrites, `to_json`, and `read_coerce` below its containers. It
has no recursion, so that it can be proved about. `WriteTransform` has one
operator for each function of `spark_prep.py` and `spark_serialize.py` that walks a type or builds an
expression; the three rewrites (timestamps, dates with ntz timestamps, non-finite floats) share
their shape in the code and share an operator with a parameter here. `OneTypePerBranch` is Spark's rule
that both branches of `when(...).otherwise(...)` have one type. `ReadTransform` has `read_coerce` case
by case. The widths of int and bigint are the constants `IntBits` and `LongBits`: TLC's integers have 32
bits, so the run takes 16 and 17 for them; the proofs take any.
`RoundTrip` is a straight line (sanitize, normalize, serialize, declare, read); its reference operators
`Stored`, `Reproduces` and `StandsFor` state the README's tables in one pass over the original type.

Units make rounding visible with small numbers: instants count half milliseconds, doubles and decimals
halves, and a day has four milliseconds. Text is abstract: the literals `bool` accepts, text
that `int()` and `float()` read (`NumericText`) or `float()` alone (`FractionText`), the text of a value,
base64 text, and other text that `b64decode` decodes all the same (`LooseBase64`). The names of numbers
that are not finite are left out. Not modelled: `DESCRIBE` (types are given), time zones
(`normalize_timestamps_for_utc` makes them irrelevant, which is its purpose), decimals of other scales.

## What the runs check

| Run | Instance | States | Shows |
|---|---|---|---|
| `ship_chunk` | 2 lines; 28 configurations: every legal way of writing with four retry settings; refusals 400, 409, 429, 500; well-formed and malformed responses | 380,604 | accounting, no silent loss, balance of the diagnostics, retry layers that do not stack, bounded duplication, exact create counts when no effect is unknown, lines with an outcome are left alone, `ShipContract`, termination |
| `exact_create_counts` | no refusals at all | | a documented claim is violated, see below |
| `errors_are_rejections` | no refusals at all | | two documented claims are violated, see below |
| `partition_writer` | inputs of up to 3 batches, with an empty one, and with a null line in the second; chunk sizes -1, 0, 1, 2; 1 to 3 workers; malformed responses or not | 230,711 | conservation of rows, meaning of a clean summary, null lines, backpressure, teardown order, no leaks, no lost worker, `PartitionContract`, termination |
| `write_order` | 4 rows with 2 ids in any arrangement; chunks of 2, with and without deletes, and of 3 shipped one at a time, and chunks of 1 two at a time; any line refused, retried once or (chunks of 3) twice; 2 lost requests, 1 of them late, 2 runs of the task | 875,967 | rows of one id keep their order, but for lines sent again alone and late requests |
| `later_row_wins` | 3 rows, two at a time, nothing lost | | a documented claim is violated, see below |
| `bulk_write` | 2 partitions of up to 2 rows, 2 task failures, all kinds of frame; a negative `chunk_size`; for one frame summaries that miss rows or count one too many | 98,976 | meaning of a result that reconciles, null ids, loss is not cancelled, `BulkContract`, termination |
| `stream` | batches `{a, b}`, `{}`, `{a}`; eight streams: no poison row, or one in the first or the last batch; a doomed batch or none; a hook that fails on the second batch or not; three policies, with and without hook; 2 faults | 83,952 | the checkpoint passes no lost row under `raise`; losses leave a trace; the stream drains unless a batch is not passable |
| `pit_read` | 3 documents on 2 shards, pages of 2; `num_slices` `None` (strict or not), 1 and 3, and a call that is not valid; 2 tasks at a time, 2 attempts, 2 evaluations, 1 fault; three worlds | 263,168 | each document of the snapshot once, refused values, the sliding window, `ReadContract`, evaluations end |
| `round_trip` | 150 types up to three levels deep, with nulls at each level; 1703 foreign fields | 13,897 | the stored form, reading what was written, refused keys, foreign scalars |
| `mismatch_raises` | foreign lists under a declared struct or map | | a documented claim is violated, see below |
| `every_column_exports` | structs with maps with timestamp keys | | a documented claim is violated, see below |

Why the bounds are enough. Two lines distinguish all from some and none, one line's retry from the
other's outcome, and an item that is missing from one that is there; lines do not interact otherwise.
One re-send per layer lets each budget be exhausted and lets two layers act in one call; a fourth
setting has two per-document rounds. `SampleCap = 1` puts the cap within reach. `MaxDocs` 3 is one
above what the bounded-duplication property forbids. In the writer, two workers and three chunks fill
the window and leave a chunk waiting, three workers finish in any order, and a batch boundary falls
between two tasks. `chunk_size` 0 and -1 are what the code does not refuse. Four rows make two
chunks that hold two ids each, so that an id can be in both and be retried in either; a chunk of
three has a line that is refused twice while others of its id are executed.
Two partitions are enough for one to hide what the other lost.
An id that comes back after an empty batch tells an old row from a new one, and two faults let a replay
fail again; the doomed batch is the second, where it has no other row, or the last, where it has one.
In the reader one shard fills a page and the other does not; with three slices one is empty, one has
documents of one shard, and a third waits for a free slot. Types of three levels put a leaf under a
container in a container, which is where a walk can forget one; scalar values lie on both sides of zero
and of a byte's range, and above a short's, an int's and a bigint's.

In several modules a variable without a next value (`malformed`, `miscount`, `world`) picks the
environment at the start, so that one run covers it with and without what the stronger properties have
to assume away.

Terminal states (a returned or raised call) are the end of a behaviour, so deadlock is not an error in
these runs; that nothing stops earlier is what `Termination`, `WriterEnds`, `WriteEnds`, `StreamDrains`
and `EvaluationEnds` say. `RoundTrip` and `WriteOrder` have no liveness property: the first is a straight
line, the second leaves the budgets out on which termination depends.

Fairness. `ShipChunk`: weak fairness of the whole step relation, since the call is a sequential loop
and every HTTP attempt ends, if only by `request_timeout`. `PartitionWriter`: weak fairness of the
producer and of the pool; both are OS threads, and each worker step ends for the same reason.
`BulkWrite`: weak fairness of the driver and of each task; Spark schedules every task, and an attempt
ends by `WriterEnds` or with its executor. `Stream`: weak fairness of the function, which ends because
`bulk_write` does (`WriteEnds`), of the restart, since the README runs the stream as a job that is run
again, and of the end of stray tasks. `PitRead`: weak fairness of the driver and of the tasks taken
together, not of each: as long as some task can go on, one does. Time and other writers owe nothing.
No property needs strong fairness.

### Claims of the documentation that do not hold

Each with a run that finds a counterexample:

* `config.py:233` and `:242` say that `bypass_fast_path=True` makes `written` and `docs_deduped` of a
  create write exact. They are exact as long as no request is lost (`ExactCreateCountsWhenKnown`). When
  a response is lost after the create was executed, the re-send conflicts with the document it
  created itself, and the write reports it as deduplicated (`ExactCreateCounts` is violated).
* `bulk.py:1048` and the README (`:226`, `:261`) say that `errors` is the exact count of documents
  Elasticsearch rejected. A request that fails as a whole counts all its pending lines, and if only the
  response was lost some of them are in the index (`ErrorsAreRejections` is violated). Counting them is
  the safe choice; the sentence is too strong.
* The README's triage note (`:166-169`) says that a network failure propagates and fails the Spark task,
  and that only rejections are returned as counts. `_ship_ndjson_chunk` catches the exception
  (`bulk.py:469`, `:503`), counts its pending lines as errors and returns; Spark sees a task that
  succeeded. The same run shows it: the errors it reports come from requests that were lost.
* README `:297-299` says that of two rows with one id the later one upserts over the earlier one. With
  `write_concurrency` above 1 their chunks are shipped at the same time, and either may be executed last
  (`LaterRowWins` is violated). With serial shipping too, a line that was refused and is sent again alone
  (`bulk.py:528-531`) is executed after a later one of its id, which its first request may have executed;
  `RowOrderKept` says when the claim does hold.
* README `:396` says that a declared type that does not fit the stored value raises
  `ReadSchemaMismatch`. `read_coerce` builds structs and maps with `dict(value)`
  (`read_transform.py:202`), which accepts a list of pairs, of two-letter texts and of objects with two
  keys (`MismatchRaises` is violated). The same property fails for a declared binary: `b64decode(value)`
  (`read_transform.py:224`) does not validate, so it drops the characters it does not know and decodes
  ordinary text of a fitting length, `"true"` to three bytes and `"us-east-1a"` to six (give `Foreign` the
  value `MCBinaryFields` in `MCRoundTripObjects.cfg`). For other scalars and arrays of them, and for text
  that `b64decode` refuses, `ScalarMismatchRaises` holds.
* README `:628` says that every valid Spark column can be exported. For a struct that holds a map with
  timestamp keys, `_rewrite_timestamps` leaves the keys alone and `_epoch_struct_type`
  (`spark_prep.py:226`) makes them longs: the typed null and the rebuilt struct have two types, and
  Spark refuses the expression (`EveryColumnExports` is violated).

Noticed while modelling, and not about anything a run could check:

* `read.py:164` and README `:617` say that the reader, with one slice too, returns every document. A
  search that answers although shards failed or timed out returns fewer hits, which the reader
  does not look at; `OnlyFailedShardsLoseRows` and `ReadContract` carry this as `missing`/`may_miss`.
* `bulk.py:771` says that the read path already closes its client. The driver's is closed; those of the
  slice tasks (`read.py:219`) are not.
* `read.py:256` and `config.py:348` name backpressure of a slow consumer as a gap between pages. A slice
  is read completely before its rows are yielded (`read.py:224`), so a consumer comes between slices of
  one task only.
* README `:513` says that a chunk is flushed early at 100 MB. The connector calls `es.bulk` with chunks
  cut by their number of lines and nothing else.
* `bulk.py:1056` names a chunk-level transport error as what `unaccounted` is for. Such an error
  is counted in `errors`; `unaccounted` is positive for malformed responses only.

## What is proved

`ShipChunkProofs` proves, for every number of lines, every set of accepted configurations, every cap and
every set of refusal statuses (`ShipAssumption`, and nothing else):

| Theorem | Statement | Argument |
|---|---|---|
| `TypeCorrect` | `[]TypeOK` | inductive as it stands; the budgets need the guards of the three retry layers |
| `AccountingHolds` | `[]Accounting` | needs `ProbeFresh`: in the probe nothing is counted and all lines are pending. A round divides the pending lines into four outcomes, those sent again and those without an item (`RoundDivides`) |
| `NoSilentLossHolds` | `[]NoSilentLoss` | needs `SettledLanded` and `Unsettled`: while there are no errors, a line with an outcome has landed, and a line without one is pending or was never given an item. A re-executed line stays landed (`LostKeepsLanded`) |
| `SamplesHold` | `[]SamplesExplainErrors` | inductive with the type invariant; `ContractKept` rests on it |
| `TimeoutsHold` | `[]TimeoutsDoNotStack` | needs `TimeoutsPaid`: each timeout so far was paid by the one budget that owns timeouts |
| `BalanceHolds` | `[]RejectionsBalance` | a rejection of a round is in exactly one bucket and is either sent again or an error |
| `CountedLinesRestHolds` | `[][...]_vars` | only pending lines are ever part of a request |
| `ContractKept` | `Spec => ImplementsContract` | initial states map to initial states; each step maps to a step of `ShipContract` or a stutter, with the invariants above |

It goes on from these invariants to what is known while no effect is in doubt:

| Theorem | Statement | Argument |
|---|---|---|
| `BoundedDuplicationHolds` | `[]BoundedDuplication` | `DupInv`: nothing is in the index before the probe, and in the full path a pending line was executed by the probe at most. An answer whose items tell everything tells exactly what was executed (`AnsweredKnown`), and a line that is sent again was refused |
| `ExactCreateCountsHold` | `[]ExactCreateCountsWhenKnown` | `ExactInv`: pending lines are as they were before, so a 409 is never the echo of this write's own create, and the lines a round counts as written are those it created (`CreateItem`) |
| `RequestsBounded` | `[](RequestsLeft \in 0..RequestsAllowed)`, `[][RequestsLeft' < RequestsLeft]_vars` | a chunk costs at most (2 + `max_retries_per_doc`) · (1 + `transport_max_retries`)² requests, and every step spends one. The three layers count in one number: sends to come, tries of this send, requests of this try. The type invariant is enough, as it keeps the three budgets; the next request of a call spends the last number, and a call that follows starts the other two afresh (`NextCall`) |

`PartitionWriterProofs` proves, for every input, `write_concurrency` and `chunk_size` (zero and negative
ones included; `WriterAssumption`, and nothing else):

| Theorem | Statement | Argument |
|---|---|---|
| `ToolsHold`, `NothingLeaksHolds` | `[]WorkersHaveTheirTools`, `[]NothingLeaks` | `ToolsInv` says for each place of the producer what exists there (`Before`, `Inside`, `Leaving`), and that tasks exist only in a live pool (`Idle`). Without the places, nothing keeps `Join` from being skipped |
| `WindowHolds`, `NoLostWorkerHolds` | `[]InFlightBounded`, `[]NoLostWorker` | `PoolInv`: while nothing was raised the outstanding chunks are those that wait, run or have left a result (`Outstanding`), and each is in one of these places (`Disjoint`). That needs a chunk not to be submitted twice (`Fresh`), which holds because cutting a batch never gives the same slice twice (`SplitSlices`) |
| `NullLineFailsHolds` | `[]NullLineFails` | `NullInv`: batches pulled without an exception have no null line, and a chunk that was handed over stems from one of them |
| `RowsConservedHolds` | `[]RowsConserved` | a row that was pulled is counted, in a chunk outstanding or in a slice not yet handed over, and each step moves as many rows out of one place as into another (`Flow`, `FlowCarries`). It needs what a worker may leave (`Left`, `Shape`), that `total_input` counts what was pulled (`Pulled`), and that merging the results of several tasks at once adds up as merging them one by one |
| `CleanSummaryHolds` | `[]CleanSummaryLanded` | `Covered`: as long as there are no errors and no row is missing from the sum, each row pulled lies in a chunk that has landed or still may (`Known`). A sum that reaches its bound reaches it in every summand, so a total without errors and without missing rows is made of clean reports only; at the end nothing is outstanding, and what is left of `Known` has landed |
| `ContractKept` | `Spec => ImplementsContract` | a summary is one of the `Reports` (`EmittedReport`, `InputCounted`); every other step moves landed rows only, or stutters |
| `NobodyWaitsForeverHolds` | `[]NobodyWaitsForever` | `feed`, `close` and `shutdown(wait=True)` wait for tasks only. By `PoolInv` an outstanding chunk without a result is queued or running, and a queued one can start as soon as fewer than `write_concurrency` run; so until the end a guard of the producer or of a worker holds |
| `WorkBounded` | `WorkLeft = WorkAllowed` at the start, `[](WorkLeft \in Nat)`, `[][WorkLeft' < WorkLeft]_vars` | a row is at most one chunk, which is cut and submitted, started, ended and merged: five steps a row, one a batch, six to set up and tear down. It needs `PoolInv` and that `total_input` counts the batches pulled (`Pulled`), a sum, so it uses `SumProofs` |

`WriteOrderProofs` proves, for every number of rows, ids and configurations
(`WriteOrderAssumption`, and nothing else):

| Theorem | Statement | Argument |
|---|---|---|
| `RowOrderHolds` | `[]RowOrderKept` | with unique ids an id holds only its own row (`OwnRow`, `Held`). Otherwise `SerialInv`: at most one chunk is being shipped, and only rows of chunks handed over have gone anywhere. An acknowledged row comes before those of its id that may be executed yet, unless these are stragglers (`After`): a line that is sent again alone after a later one was executed becomes one at that step, and so does every line of a late request (`LateKnown`). The run of the task a crash ends takes its acknowledgements with it |

`BulkWriteProofs` proves, for every frame, configuration, number of partitions and of task failures
(`BulkAssumption`, and nothing else):

| Theorem | Statement | Argument |
|---|---|---|
| `NullIdRaisesHolds` | `[]NullIdRaises` | `NullInv`: a task that is done had no null line, and the driver returns after all of them |
| `CleanPartitionHolds` | `[]CleanPartitionLanded` | `LandedInv`: no task starts unless `_preflight` passed, and what one partition writes leaves the rows of another alone (`OthersKept`); with `_preflight` the line of a row says what the caller wants (`LinesAsIntended`). It holds of a write that raises as well |
| `TypeCorrect` | `[]TypeOK` | `TypeInv`: sums of naturals are naturals (`MergedTotals`) |
| `CleanResultHolds` | `[]CleanResultLanded` | `WriteInv`, which adds `ReturnInv`: the result is the merge of the summaries. A sum of naturals is zero only if each is (`SumTight`), so a result that reconciles has clean summaries only (`ReconciledPartitions`) |
| `LossNotCancelledHolds` | `[]LossNotCancelled` | the same, for the sum of what is missing: no summand is negative because the signs are split before they are summed |
| `ContractKept` | `Spec => ImplementsContract` | rows move as their lines say (`ExecuteTowardsWish`); the total of the partitions is the size of the frame (`TotalIsFrame`, `CountByParts`) |
| `TaskRunsBounded` | `[]RunsBounded`, `RunsShrink` | a task has `MaxTaskFailures` starts and as many ends before it; a start and an end each take one off and a failed job leaves running tasks only their end. It needs `AttemptsLeft` (until the driver is through no task has used up its attempts) |

`StreamProofs` proves, for every stream, policy and number of faults (`StreamAssumption`, and nothing
else):

| Theorem | Statement | Argument |
|---|---|---|
| `TypeCorrect` | `[]TypeOK` | `Shape` and `Bounds`; rows of failed attempts belong to a batch that exists |
| `CommittedRowsHold` | `[]CommittedRowsLanded` | `StrayRows`: what may still be written is of the last committed batch or of the next one, so no id falls back behind a committed batch (`TakesForward`, `ReportsKept`). `CleanLanded` carries what a clean result means from `bulk_write` to the commit |
| `LossReported` | `[]LossIsReported` | `PolicyKept`: what hook and log have seen by the time the function returns, which it never does for a doomed batch |
| `RowsMoveForwardHolds` | `[][\A id \in Ids : from'[id] >= from[id]]_vars` | `OneBatchAhead`: no id is ahead of the batch to come, and the strays are rows of it, or of the last committed one while nothing of the next has been written. While a batch is tried they are rows of it only (`StrayRows`). It holds under every policy, where `CommittedRowsLanded` speaks of `raise` |
| `StreamWorkBounded` | `[]StreamWorkBound`, `StreamAdvances` | as long as every batch up to the present one is passable (`Unhindered`), there are five steps for each batch and six for each fault; a result that will stop the stream has been paid for by a fault. Rows taking effect and strays that end are not counted: they are bounded by the batch |

`PitReadProofs` proves, for every index, number of shards and slices, page size, call and set of worlds
(`PitReadAssumption`, and nothing else):

| Theorem | Statement | Argument |
|---|---|---|
| `CompleteHolds` | `[]OnlyFailedShardsLoseRows` | `ReadInv`: a task has gathered exactly the documents of its slice up to `pos`, but for shards that failed, and `out` holds the slices that are done. Each document has one slice (`Home`), so none is handed on twice; a page takes the first documents, so none is skipped |
| `UncoercibleHolds` | `[]UncoercibleFailsTheRead` | the same invariant: nothing that cannot be coerced is ever gathered |
| `SlidingWindowHolds` | `[]SlidingWindowSuffices` | `WindowInv`: `ttl` and the gap since the last search add up to `keep_alive`, and the ids the tasks hold or will start with work |
| `ContractKept` | `Spec => ImplementsContract` | steps map to steps of `ReadContract` or stutters; the return needs `ReadInv` |
| `TypeCorrect` | `[]TypeOK` | `Bounded`, `Tables`, `Budget`: the tables of the tasks exist from the first evaluation on, and while it runs no task has used up its attempts, so that the attempt that fails stays within `MaxAttempts` |
| `PagingBounded` | `[]WorkBound`, `WorkShrinks` | an attempt has the documents ahead of its position to read and each page but the last takes some off (`SearchAfter`): at most `Cardinality(Docs) + 2` steps. Writers and time change none of it, because the snapshot is fixed, and neither do other tasks |
| `ReaderMovesHolds` | `[]ReaderMoves` | until all tasks are done a slot is free or a task works, and a task that works finds its point in time gone, nothing more, or a page (`PageExists`: a finite set of documents in an order has a first part of any size, and a last of it) |

`ScalarProofs` proves, for every number and text, whatever text Python reads as a number or `b64decode`
decodes, and for every width of int and bigint (`ScalarsAssumption`, and nothing else):

| Theorem | Statement | Argument |
|---|---|---|
| `ScalarsReadTrue` | what `read_coerce` returns under a scalar type stands for the JSON value that is stored (`ScalarStandsFor`), but for text that `b64decode` takes for base64 (`DecodesLoosely`) | by type: `int()` is within one half of the number towards zero (`PyIntCuts`), and an integer type refuses what is not whole; the widths are looked up by `simpleString`, and found (`WidthsFit`) |
| `ScalarsRoundTrip` | what the connector writes under a scalar type is read back under it (`ScalarReproduces`), and never refused | by type, through the rewrite, `to_json` and `read_coerce` |

They are the leaves of `ScalarMismatchRaises` and `ReadReproducesWrite`, whose reference operators they use.

`SumProofs` has what these proofs need of totals. The merge of a drain, and of the result, adds up
over a set of any size, by a fold of the community modules; a fold is recursive, and the library's
induction theorems take an operator the prover cannot instantiate. The way around is `SetInduction`: *the
set of the subsets* of S for which a law holds contains the empty set, is closed under adding an element,
and so contains S. It follows from the library's well-founded order on finite subsets. From it follow
that a sum counts units (`SumIsUnits`), hence that sums add, split and compare as cardinalities do
(`SumAdd`, `SumParts`, `SumMonotone`, `SumTight`).

Only model-checked:

* the liveness properties `Termination`, `WriterEnds`, `WriteEnds`, `EvaluationEnds` and `StreamDrains`.
  What a progress argument needs of the steps is proved: measures that fall (`RequestsBounded`,
  `WorkBounded`, `TaskRunsBounded`, `PagingBounded`, `StreamWorkBounded`) and, where several actors wait for each
  other, guards that hold (`NobodyWaitsForeverHolds`, `ReaderMovesHolds`). What is left to TLC is the
  temporal part: that fairness turns an enabled step into one that is taken (`ENABLED` is out of the
  prover's reach), and for streams and writes that rows which may take effect one by one come to an end;
* `RoundTrip`, that is its four invariants, above the leaves: its transforms are recursive operators over
  types, and a module that declares one is closed to the prover.

## What is not modelled, and why

* Concurrent writers of the ids a write touches, and an index deleted during a write. The code makes no
  promise about either. (`PitRead` has concurrent writers: the snapshot is there against them.)
* A task of a failed micro-batch that lives on into the next batch (see `Stream`).
* Timings, `bulk_stats` aggregates, the GIL probe's samples, log and error texts: nothing reads them.
* Parsing the text of `DESCRIBE`, JSON text, and the escaping of ids in the action line: string work
  without state.
* Hosts, credentials, TLS, the warning for unbalanced retries; the `max_retries` umbrella, which sets
  two fields when a configuration is built and is gone afterwards.
* The clients of the slice tasks, which are left to the garbage collector.
* `scripts/`, the package's re-exports and the tests.

## Where to go from here

The core of both directions is modelled. What would add most next: the walks over
a type as recursive functions on types of bounded depth, with an induction over the set of depths like the
one over sets, so that the theorems about scalars can be carried up through containers; `DESCRIBE` parsing,
should the abbreviation of wide structs turn up in practice.
