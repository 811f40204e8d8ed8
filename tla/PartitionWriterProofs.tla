------------------------ MODULE PartitionWriterProofs ------------------------
(* Theorems of PartitionWriter, for every configuration and every input:   *)
(* the order in which the writer builds and tears down, the bookkeeping of *)
(* its pool, what becomes of a null line, where the rows are while they    *)
(* are shipped, what a summary says of them, and that the producer and the *)
(* workers neither wait for each other for ever nor go on for ever.        *)
EXTENDS PartitionWriter, SumProofs

(* What the steps below use of the constants *)
LEMMA ConfigTyped ==
    ASSUME cfg \in Configs
    PROVE  cfg.write_concurrency \in Nat /\ cfg.write_concurrency >= 1
           /\ cfg.bulk_stats \in BOOLEAN /\ cfg.chunk_size \in Int
BY WriterAssumption DEF WriteConfig, Accepted

-----------------------------------------------------------------------------
(* Building and tearing down. Alone, WorkersHaveTheirTools is not           *)
(* inductive: what is built must be known at each place of the producer.    *)

Before == pc = "construct" =>
    /\ probe = "none" /\ es = "none" /\ pool = "none"
    /\ ~raising

Inside == pc \in {"pull", "feed", "close"} =>
    /\ es = "live"
    /\ pool = (IF Parallel THEN "live" ELSE "none")
    /\ cfg.bulk_stats => probe = "live"
    /\ ~raising

Leaving ==
    /\ pc = "join" => /\ pool # "gone"
                      /\ pool = "live" => es = "live" /\ (cfg.bulk_stats => probe = "live")
    /\ pc \in {"stop", "release", "emitted", "failed"} => pool # "live"
    /\ pc \in {"release", "emitted", "failed"} => probe # "live"
    /\ pc \in {"emitted", "failed"} => es # "live"

Idle == pool # "live" => queued = {} /\ running = {}

Places == pc \in {"construct", "pull", "feed", "close", "join", "stop", "release",
                  "emitted", "failed"}

ToolsInv == cfg \in Configs /\ Places /\ Before /\ Inside /\ Leaving /\ Idle

LEMMA ToolsInit == Init => ToolsInv
BY DEF Init, ToolsInv, Places, Before, Inside, Leaving, Idle

LEMMA ToolsStep == ToolsInv /\ [Next]_vars => ToolsInv'
<1> SUFFICES ASSUME ToolsInv, [Next]_vars PROVE ToolsInv'
    OBVIOUS
<1> USE DEF ToolsInv, Places, Before, Inside, Leaving, Idle
<1>0. cfg.bulk_stats \in BOOLEAN
    BY ConfigTyped
<1>1. CASE Construct
    BY <1>1, <1>0 DEF Construct, ConstructFails, Raise, fixed, workers, Parallel
<1>2. CASE Pull
    BY <1>2 DEF Pull, Raise, fixed, workers, resources, Parallel
<1>3. CASE PullFails
    BY <1>3 DEF PullFails, Raise, fixed, workers, resources, Parallel
<1>4. CASE PullEnds
    BY <1>4 DEF PullEnds, AfterInput, fixed, workers, resources, Parallel
<1>5. CASE Submit
    BY <1>5 DEF Submit, Advance, fixed, resources, Parallel
<1>6. CASE Drain
    BY <1>6 DEF Drain, Raise, fixed, resources, Parallel
<1>7. CASE CloseEnds
    BY <1>7 DEF CloseEnds, Leave, fixed, workers, resources, Parallel
<1>8. CASE ShipSerially
    BY <1>8 DEF ShipSerially, Advance, fixed, workers, resources, Parallel
<1>9. CASE ShipSeriallyFails
    BY <1>9 DEF ShipSeriallyFails, Raise, fixed, workers, resources, Parallel
<1>10. CASE Join
    BY <1>10 DEF Join, Joined, fixed, workers, Parallel
<1>11. CASE StopProbe
    BY <1>11 DEF StopProbe, fixed, workers, Parallel
<1>12. CASE CloseClient
    BY <1>12 DEF CloseClient, Ending, fixed, workers, Parallel
<1>13. CASE Worker
    <2>1. /\ producer' = producer
          /\ queued \cup running # {}
        BY <1>13 DEF Worker, WorkerStarts, WorkerReturns, WorkerCrashes
    <2>2. pool = "live"
        BY <2>1
    <2>3. QED
        BY <2>1, <2>2 DEF producer, fixed, resources, Parallel
<1>14. CASE UNCHANGED vars
    BY <1>14 DEF vars, fixed, workers, resources, Parallel
<1> HIDE DEF ToolsInv, Places, Before, Inside, Leaving, Idle
<1>15. QED
    BY <1>1, <1>2, <1>3, <1>4, <1>5, <1>6, <1>7, <1>8, <1>9, <1>10, <1>11, <1>12,
       <1>13, <1>14 DEF Next, Producer

(* Nothing is torn down under a worker: pool first, then probe, then client *)
THEOREM ToolsHold == Spec => []WorkersHaveTheirTools
<1>1. ToolsInv => WorkersHaveTheirTools
    BY DEF ToolsInv, Places, Before, Inside, Leaving, Idle, WorkersHaveTheirTools
<1>2. QED
    BY <1>1, ToolsInit, ToolsStep, PTL DEF Spec

(* Whatever raised, and wherever: what was built is gone when it is over.   *)
THEOREM NothingLeaksHolds == Spec => []NothingLeaks
<1>1. ToolsInv => NothingLeaks
    BY DEF ToolsInv, Leaving, NothingLeaks
<1>2. QED
    BY <1>1, ToolsInit, ToolsStep, PTL DEF Spec

-----------------------------------------------------------------------------
(* Slices: no chunk is cut twice                                            *)

Slice == [batch : Nat, first : Int, rows : Int]

LEMMA TimesCancels ==
    ASSUME NEW x \in Int, NEW y \in Int, NEW z \in Int, z # 0, x * z = y * z
    PROVE  x = y
OBVIOUS

LEMMA QuotientNat == ASSUME NEW x \in Nat, NEW y \in Nat \ {0} PROVE x \div y \in Nat
OBVIOUS

(* Cutting a batch gives a sequence of different slices of it, for any      *)
(* chunk_size but 0.                                                        *)
LEMMA SplitSlices ==
    ASSUME NEW b \in Nat, NEW n \in Nat, cfg.chunk_size \in Int, cfg.chunk_size # 0
    PROVE  /\ Split(b, n) \in Seq(Slice)
           /\ \A k \in 1..Len(Split(b, n)) : Split(b, n)[k].batch = b
           /\ \A j, k \in 1..Len(Split(b, n)) : Split(b, n)[j] = Split(b, n)[k] => j = k
<1> DEFINE size  == cfg.chunk_size
           count == IF size < 0 THEN 0 ELSE (n + size - 1) \div size
           start(k) == (k - 1) * size + 1
           taken(k) == IF n - (k - 1) * size < size THEN n - (k - 1) * size ELSE size
           cut == [k \in 1..count |-> [batch |-> b, first |-> start(k), rows |-> taken(k)]]
<1>1. Split(b, n) = cut
    BY DEF Split
<1>2. count \in Nat
    <2>1. CASE size < 0
        BY <2>1
    <2>2. CASE size > 0
        <3>1. n + size - 1 \in Nat /\ size \in Nat \ {0}
            BY <2>2
        <3>2. (n + size - 1) \div size \in Nat
            BY <3>1, QuotientNat
        <3>3. QED
            BY <3>2, <2>2
    <2>3. QED
        BY <2>1, <2>2
<1> HIDE DEF count
<1>3. ASSUME NEW k \in 1..count PROVE start(k) \in Int /\ taken(k) \in Int
    BY <1>2
<1>4. ASSUME NEW j \in 1..count, NEW k \in 1..count, start(j) = start(k) PROVE j = k
    <2>1. j - 1 \in Int /\ k - 1 \in Int /\ size \in Int /\ size # 0
        BY <1>2
    <2>2. (j - 1) * size = (k - 1) * size
        BY <1>4, <2>1
    <2>3. j - 1 = k - 1
        BY <2>1, <2>2, TimesCancels
    <2>4. QED
        BY <2>3, <1>2
<1> HIDE DEF start, taken
<1>5. cut \in Seq(Slice) /\ Len(cut) = count
    BY <1>2, <1>3 DEF Slice
<1>6. \A j, k \in 1..count : cut[j] = cut[k] => start(j) = start(k)
    OBVIOUS
<1>7. \A k \in 1..count : cut[k].batch = b
    OBVIOUS
<1>8. \A j, k \in 1..count : cut[j] = cut[k] => j = k
    BY <1>4, <1>6
<1> HIDE DEF cut
<1>9. QED
    BY <1>1, <1>5, <1>7, <1>8

(* The slices still to be fed differ from each other and from what is       *)
(* outstanding, which stems from batches pulled before.                     *)
Fresh ==
    /\ next \in Nat \ {0}
    /\ slices \in Seq(Slice) /\ (pc = "feed" => slices # <<>>)
    /\ pending \subseteq Slice
    /\ \A c \in pending : c.batch < next
    /\ \A k \in 1..Len(slices) : slices[k].batch < next /\ slices[k] \notin pending
    /\ \A j, k \in 1..Len(slices) : slices[j] = slices[k] => j = k

LEMMA FreshInit == Init => Fresh
BY DEF Init, Fresh

LEMMA FreshStep ==
    ASSUME cfg \in Configs, input \in Inputs, Fresh, [Next]_vars PROVE Fresh'
<1> USE DEF Fresh
<1>1. CASE Construct
    BY <1>1 DEF Construct, ConstructFails, Raise
<1> HIDE DEF Fresh
<1>2. CASE Pull
    <2>1. /\ next \in Nat \ {0} /\ pending \subseteq Slice
          /\ \A c \in pending : c.batch < next
        BY DEF Fresh
    <2>2. next \in 1..Len(input) /\ next' = next + 1 /\ pending' = pending
        <3>1. input \in Seq(Batch) /\ Len(input) \in Nat
            BY WriterAssumption
        <3>2. QED
            BY <3>1, <2>1, <1>2 DEF Pull
    <2>3. input[next].rows \in Nat
        <3>1. input \in Seq(Batch)
            BY WriterAssumption
        <3>2. input[next] \in Batch
            BY <3>1, <2>2
        <3>3. QED
            BY <3>2 DEF Batch
    <2>4. \A n \in Int : n < next => n < next + 1
        BY <2>1
    <2>5. next' \in Nat \ {0} /\ pending' \subseteq Slice /\ (\A c \in pending' : c.batch < next')
        BY <2>1, <2>2, <2>4 DEF Slice
    <2>6. CASE slices' = slices /\ pc' # "feed"
        <3>1. \A k \in 1..Len(slices) : slices[k] \in Slice
            BY DEF Fresh
        <3>2. \A k \in 1..Len(slices) : slices[k].batch < next'
            BY <3>1, <2>2, <2>4 DEF Fresh, Slice
        <3>3. QED
            BY <2>2, <2>5, <2>6, <3>2 DEF Fresh
    <2>7. CASE slices' = <<>> /\ pc' # "feed"
        BY <2>5, <2>7 DEF Fresh
    <2>8. CASE /\ ~Unshippable(input[next]) /\ input[next].rows # 0
               /\ slices' = Split(next, input[next].rows) /\ (pc' = "feed" => slices' # <<>>)
        <3>1. cfg.chunk_size \in Int /\ cfg.chunk_size # 0
            BY <2>3, <2>8, ConfigTyped DEF Unshippable
        <3>2. /\ Split(next, input[next].rows) \in Seq(Slice)
              /\ \A k \in 1..Len(Split(next, input[next].rows)) :
                     Split(next, input[next].rows)[k].batch = next
              /\ \A j, k \in 1..Len(Split(next, input[next].rows)) :
                     Split(next, input[next].rows)[j] = Split(next, input[next].rows)[k] => j = k
            BY <2>1, <2>3, <3>1, SplitSlices
        <3>3. /\ slices' \in Seq(Slice)
              /\ \A k \in 1..Len(slices') : slices'[k].batch = next
              /\ \A j, k \in 1..Len(slices') : slices'[j] = slices'[k] => j = k
            BY <2>8, <3>2
        <3>4. next < next' /\ \A c \in pending' : c.batch # next
            BY <2>1, <2>2 DEF Slice
        <3>5. QED
            BY <2>5, <2>8, <3>3, <3>4 DEF Fresh
    <2>9. QED
        BY <1>2, <2>6, <2>7, <2>8 DEF Pull, Raise
<1> USE DEF Fresh
<1>3. ASSUME pc = "feed", Advance, pending' \subseteq pending \cup {Head(slices)}, next' = next
      PROVE  Fresh'
    <2>1. slices # <<>> /\ slices \in Seq(Slice) /\ slices' = Tail(slices)
        BY <1>3 DEF Advance
    <2>2. /\ slices' \in Seq(Slice) /\ Len(slices') = Len(slices) - 1 /\ Len(slices) \in Nat \ {0}
          /\ \A k \in 1..Len(slices') : slices'[k] = slices[k + 1]
          /\ Head(slices) = slices[1]
        BY <2>1
    <2>3. Head(slices) \in Slice /\ Head(slices).batch < next
        BY <2>1, <2>2
    <2>4. \A k \in 1..Len(slices') : k + 1 \in 1..Len(slices)
        BY <2>2
    <2>5. \A k \in 1..Len(slices') : slices'[k] # Head(slices)
        BY <2>2, <2>4
    <2>6. pc' = "feed" => slices' # <<>>
        BY <1>3 DEF Advance
    <2>7. \A j, k \in 1..Len(slices') : slices'[j] = slices'[k] => j = k
        BY <2>2, <2>4
    <2>8. pending' \subseteq Slice /\ \A c \in pending' : c.batch < next
        BY <1>3, <2>3
    <2>9. \A k \in 1..Len(slices') : slices'[k].batch < next /\ slices'[k] \notin pending'
        BY <1>3, <2>2, <2>4, <2>5
    <2>10. QED
        BY <1>3, <2>2, <2>6, <2>7, <2>8, <2>9
<1>4. CASE Submit
    BY <1>3, <1>4 DEF Submit
<1>5. CASE ShipSerially
    BY <1>3, <1>5 DEF ShipSerially
<1>6. CASE Drain
    BY <1>6 DEF Drain, Take, Raise
<1>7. ASSUME next' = next, slices' = slices, pending' = pending, pc' = "feed" => pc = "feed"
      PROVE  Fresh'
    BY <1>7
<1>8. CASE PullFails \/ PullEnds \/ CloseEnds \/ ShipSeriallyFails \/ Join \/ StopProbe
           \/ CloseClient
    BY <1>7, <1>8 DEF PullFails, PullEnds, CloseEnds, ShipSeriallyFails, Join, StopProbe,
                      CloseClient, Raise, Leave, AfterInput, Ending
<1>9. CASE Worker
    BY <1>7, <1>9 DEF Worker, WorkerStarts, WorkerReturns, WorkerCrashes, producer
<1>10. CASE UNCHANGED vars
    BY <1>7, <1>10 DEF vars
<1> HIDE DEF Fresh
<1>11. QED
    BY <1>1, <1>2, <1>4, <1>5, <1>6, <1>8, <1>9, <1>10 DEF Next, Producer

-----------------------------------------------------------------------------
(* The pool's bookkeeping. While nothing was raised, the outstanding tasks  *)
(* are exactly those that wait, run, or have left a result; a serial writer *)
(* has none; and the producer leaves the try body with none.                *)

Outstanding == ~raising =>
    /\ queued \cup running \cup DOMAIN results = pending
    /\ ~Parallel => pending = {}
    /\ pc \in {"construct", "join", "stop", "release", "emitted"} => pending = {}

Disjoint ==
    queued \cap running = {} /\ queued \cap DOMAIN results = {} /\ running \cap DOMAIN results = {}

Window == IsFiniteSet(pending) /\ Cardinality(pending) <= cfg.write_concurrency

Ended   == pc = "emitted" => ~raising

PoolInv == ToolsInv /\ input \in Inputs /\ Fresh /\ Outstanding /\ Disjoint /\ Window /\ Ended

LEMMA PoolInit == Init => PoolInv
<1> SUFFICES ASSUME Init PROVE PoolInv
    OBVIOUS
<1>1. IsFiniteSet({}) /\ Cardinality({}) = 0
    BY FS_EmptySet
<1>2. cfg.write_concurrency \in Nat
    BY ConfigTyped DEF Init
<1>3. Window
    BY <1>1, <1>2 DEF Init, Window
<1>4. input \in Inputs /\ Outstanding /\ Disjoint /\ Ended
    BY DEF Init, Outstanding, Disjoint, Ended
<1>5. QED
    BY <1>3, <1>4, ToolsInit, FreshInit DEF PoolInv

LEMMA WindowStep ==
    ASSUME PoolInv, [Next]_vars PROVE Window'
<1>0. /\ IsFiniteSet(pending) /\ Cardinality(pending) <= cfg.write_concurrency
      /\ cfg.write_concurrency \in Nat /\ Cardinality(pending) \in Nat
    BY ConfigTyped, FS_CardinalityType DEF PoolInv, Window, ToolsInv
<1>1. cfg' = cfg
    BY DEF Next, Producer, Worker, Construct, Pull, PullFails, PullEnds, Submit, Drain,
           CloseEnds, ShipSerially, ShipSeriallyFails, Join, StopProbe, CloseClient,
           WorkerStarts, WorkerReturns, WorkerCrashes, producer, vars, fixed
<1>2. CASE Submit
    <2>1. pending' = pending \cup {Head(slices)} /\ ~Full
        BY <1>2 DEF Submit
    <2>2. IsFiniteSet(pending') /\ Cardinality(pending') <= Cardinality(pending) + 1
        <3>1. /\ IsFiniteSet(pending')
              /\ Cardinality(pending') = IF Head(slices) \in pending THEN Cardinality(pending)
                                        ELSE Cardinality(pending) + 1
            BY <2>1, <1>0, FS_AddElement
        <3>2. QED
            BY <3>1, <1>0
    <2>3. IsFiniteSet(pending') /\ Cardinality(pending') \in Nat
        BY <2>2, FS_CardinalityType
    <2>4. QED
        BY <2>1, <2>2, <2>3, <1>0, <1>1 DEF Full, Window
<1>3. CASE Drain
    <2>1. pending' \in SUBSET pending
        BY <1>3 DEF Drain, Take
    <2>2. IsFiniteSet(pending') /\ Cardinality(pending') <= Cardinality(pending)
        BY <2>1, <1>0, FS_Subset
    <2>3. Cardinality(pending') \in Nat
        BY <2>2, FS_CardinalityType
    <2>4. QED
        BY <2>2, <2>3, <1>0, <1>1 DEF Window
<1>4. ASSUME ~Submit, ~Drain PROVE pending' = pending
    BY <1>4 DEF Next, Producer, Worker, Construct, Pull, PullFails, PullEnds,
           CloseEnds, ShipSerially, ShipSeriallyFails, Join, StopProbe, CloseClient,
           WorkerStarts, WorkerReturns, WorkerCrashes, producer, vars
<1>5. QED
    BY <1>0, <1>1, <1>2, <1>3, <1>4 DEF Window

LEMMA OutstandingStep ==
    ASSUME PoolInv, [Next]_vars PROVE Outstanding' /\ Disjoint' /\ Ended'
<1>0. ToolsInv /\ Fresh /\ Outstanding /\ Disjoint /\ Ended
    BY DEF PoolInv
<1> USE DEF Outstanding, Disjoint, Ended
<1>1. CASE Construct
    BY <1>1, <1>0 DEF Construct, ConstructFails, Raise, fixed, workers, Parallel
<1>2. CASE Pull
    BY <1>2, <1>0 DEF Pull, Raise, fixed, workers, Parallel
<1>3. CASE PullFails
    BY <1>3, <1>0 DEF PullFails, Raise, fixed, workers, Parallel
<1>4. CASE PullEnds
    BY <1>4, <1>0 DEF PullEnds, AfterInput, fixed, workers, Parallel
<1>5. CASE Submit
    <2>1. slices # <<>> /\ slices \in Seq(Slice) /\ ~raising
        BY <1>5, <1>0 DEF Submit, Fresh, ToolsInv, Inside
    <2>2. Head(slices) \notin pending
        BY <2>1, <1>0 DEF Fresh
    <2>3. QED
        BY <1>5, <1>0, <2>1, <2>2 DEF Submit, Advance, fixed, Parallel
<1>6. CASE Drain
    <2>1. DOMAIN results' = DOMAIN results \ (pending \cap DOMAIN results)
        BY <1>6 DEF Drain, Take, Restrict
    <2>2. pending' = pending \ (pending \cap DOMAIN results)
        BY <1>6 DEF Drain, Take
    <2>3. Parallel /\ UNCHANGED <<cfg, queued, running>>
        BY <1>6, <1>0 DEF Drain, fixed, ToolsInv, Inside, Idle
    <2>4. \/ pc' = "join" /\ raising'
          \/ pc' \in {"feed", "close"} /\ raising' = raising
        BY <1>6 DEF Drain, Raise
    <2>5. QED
        BY <1>0, <2>1, <2>2, <2>3, <2>4 DEF Parallel
<1>7. CASE CloseEnds
    BY <1>7, <1>0 DEF CloseEnds, Leave, fixed, workers, Parallel
<1>8. CASE ShipSerially
    BY <1>8, <1>0 DEF ShipSerially, Advance, fixed, workers, Parallel
<1>9. CASE ShipSeriallyFails
    BY <1>9, <1>0 DEF ShipSeriallyFails, Raise, fixed, workers, Parallel
<1>10. CASE Join
    BY <1>10, <1>0 DEF Join, fixed, workers, Parallel
<1>11. CASE StopProbe
    BY <1>11, <1>0 DEF StopProbe, fixed, workers, Parallel
<1>12. CASE CloseClient
    BY <1>12, <1>0 DEF CloseClient, Ending, fixed, workers, Parallel
<1>13. CASE Worker
    <2>1. CASE \E c \in queued : WorkerStarts(c)
        BY <2>1, <1>0 DEF WorkerStarts, producer, fixed, Parallel
    <2>2. CASE \E c \in running : WorkerReturns(c)
        BY <2>2, <1>0 DEF WorkerReturns, producer, fixed, Parallel
    <2>3. CASE \E c \in running : WorkerCrashes(c)
        BY <2>3, <1>0 DEF WorkerCrashes, producer, fixed, Parallel
    <2>4. QED
        BY <1>13, <2>1, <2>2, <2>3 DEF Worker
<1>14. CASE UNCHANGED vars
    BY <1>14, <1>0 DEF vars, fixed, workers, Parallel
<1> HIDE DEF Outstanding, Disjoint, Ended
<1>15. QED
    BY <1>1, <1>2, <1>3, <1>4, <1>5, <1>6, <1>7, <1>8, <1>9, <1>10, <1>11, <1>12,
       <1>13, <1>14 DEF Next, Producer

LEMMA InputFixed == ASSUME [Next]_vars PROVE input' = input
BY DEF Next, Producer, Worker, Construct, Pull, PullFails, PullEnds, Submit, Drain,
       CloseEnds, ShipSerially, ShipSeriallyFails, Join, StopProbe, CloseClient,
       WorkerStarts, WorkerReturns, WorkerCrashes, producer, vars, fixed

LEMMA PoolStep == PoolInv /\ [Next]_vars => PoolInv'
<1> SUFFICES ASSUME PoolInv, [Next]_vars PROVE PoolInv'
    OBVIOUS
<1>1. ToolsInv' /\ Window' /\ Outstanding' /\ Disjoint' /\ Ended' /\ input' = input
    BY ToolsStep, WindowStep, OutstandingStep, InputFixed DEF PoolInv
<1>2. Fresh'
    BY FreshStep DEF PoolInv, ToolsInv
<1>3. QED
    BY <1>1, <1>2 DEF PoolInv

(* Backpressure holds for every write_concurrency and every input. *)
THEOREM WindowHolds == Spec => []InFlightBounded
<1>1. PoolInv => InFlightBounded
    BY DEF PoolInv, Window, Outstanding, InFlightBounded
<1>2. QED
    BY <1>1, PoolInit, PoolStep, PTL DEF Spec

(* A worker that died is never forgotten: no summary row without every task *)
(* merged.                                                                  *)
THEOREM NoLostWorkerHolds == Spec => []NoLostWorker
<1>1. PoolInv => NoLostWorker
    BY DEF PoolInv, Outstanding, Ended, NoLostWorker
<1>2. QED
    BY <1>1, PoolInit, PoolStep, PTL DEF Spec

-----------------------------------------------------------------------------
(* Null lines. What was pulled without an exception has none, and what was  *)
(* handed over was pulled.                                                  *)

NoNullBefore(n) == \A b \in DOMAIN input : b < n => ~input[b].null

NullInv ==
    /\ pc \in {"construct", "pull", "feed", "close"} => NoNullBefore(next)
    /\ \A c \in shipped : c \in Slice /\ NoNullBefore(c.batch + 1)
    /\ (pc = "close" \/ (pc \in {"join", "stop", "release", "emitted"} /\ ~raising)) =>
           \A b \in DOMAIN input : ~input[b].null
    /\ pc = "construct" => next = 1

LEMMA NullInit == Init => NullInv
<1> SUFFICES ASSUME Init PROVE NullInv
    OBVIOUS
<1>1. input \in Seq(Batch)
    BY WriterAssumption DEF Init
<1>2. QED
    BY <1>1 DEF Init, NullInv, NoNullBefore

LEMMA NullStep ==
    PoolInv /\ NullInv /\ [Next]_vars => NullInv'
<1> SUFFICES ASSUME PoolInv, NullInv, [Next]_vars PROVE NullInv'
    OBVIOUS
<1>0. /\ input \in Seq(Batch) /\ input' = input /\ next \in Nat \ {0}
      /\ ToolsInv /\ Outstanding /\ Ended /\ Fresh
    BY WriterAssumption, InputFixed DEF PoolInv, Fresh
<1>1. \A n : NoNullBefore(n)' <=> NoNullBefore(n)
    BY <1>0 DEF NoNullBefore
<1>2. CASE Construct
    BY <1>2, <1>0, <1>1 DEF Construct, ConstructFails, Raise, NullInv, history
<1>3. CASE Pull
    <2>1. next' = next + 1 /\ next \in 1..Len(input) /\ shipped' = shipped
        BY <1>3, <1>0 DEF Pull, history
    <2>2. CASE Unshippable(input[next])
        <3>1. pc' = "join" /\ raising'
            BY <1>3, <2>2 DEF Pull, Raise
        <3>2. QED
            BY <3>1, <2>1, <1>0, <1>1 DEF NullInv
    <2>3. CASE ~Unshippable(input[next])
        <3>1. pc' \in {"pull", "feed"}
            BY <1>3, <2>3 DEF Pull
        <3>2. NoNullBefore(next) /\ ~input[next].null
            BY <1>3, <2>3 DEF Pull, NullInv, Unshippable
        <3>3. NoNullBefore(next + 1)
            BY <3>2, <1>0 DEF NoNullBefore
        <3>4. QED
            BY <3>1, <3>3, <2>1, <1>0, <1>1 DEF NullInv
    <2>4. QED
        BY <2>2, <2>3
<1>4. CASE PullEnds
    <2>1. \A b \in DOMAIN input : ~input[b].null
        <3>1. NoNullBefore(next) /\ next > Len(input)
            BY <1>4 DEF PullEnds, NullInv
        <3>2. QED
            BY <3>1, <1>0 DEF NoNullBefore
    <2>2. shipped' = shipped /\ next' = next /\ pc = "pull"
          /\ pc' \in {"join", "close"}
        BY <1>4 DEF PullEnds, AfterInput, history
    <2>3. QED
        BY <2>1, <2>2, <1>0, <1>1 DEF NullInv
<1>5. CASE pc = "feed" /\ next' = next /\ shipped' = shipped \cup {Head(slices)}
           /\ (pc' \in {"pull", "feed"} \/ (pc' = "join" /\ raising' = TRUE))
    <2>1. slices # <<>> /\ slices \in Seq(Slice)
        BY <1>5, <1>0 DEF Fresh
    <2>2. Head(slices) \in Slice /\ Head(slices).batch < next
        BY <2>1, <1>0 DEF Fresh
    <2>3. NoNullBefore(Head(slices).batch + 1)
        BY <2>2, <1>5, <1>0 DEF NoNullBefore, NullInv, Slice
    <2>4. QED
        BY <1>5, <2>2, <2>3, <1>0, <1>1 DEF NullInv
<1>6. CASE Submit \/ ShipSerially \/ ShipSeriallyFails
    <2>1. /\ pc = "feed" /\ next' = next /\ shipped' = shipped \cup {Head(slices)}
        BY <1>6 DEF Submit, ShipSerially, ShipSeriallyFails, Advance
    <2>2. CASE Submit \/ ShipSerially
        BY <2>1, <2>2, <1>5 DEF Submit, ShipSerially, Advance
    <2>3. CASE ShipSeriallyFails
        BY <2>1, <2>3, <1>5 DEF ShipSeriallyFails, Raise
    <2>4. QED
        BY <1>6, <2>2, <2>3
<1>7. CASE shipped' = shipped /\ pc' = "join" /\ (raising' = TRUE \/ pc = "close")
    BY <1>7, <1>0, <1>1 DEF NullInv
<1>8. CASE /\ shipped' = shipped /\ raising' = raising
           /\ pc \in {"join", "stop", "release"}
           /\ pc' \in {"stop", "release", "emitted", "failed"}
    BY <1>8, <1>0, <1>1 DEF NullInv
<1>9. CASE UNCHANGED <<pc, raising, next, shipped>>
    BY <1>9, <1>0, <1>1 DEF NullInv
<1>10. CASE PullFails \/ CloseEnds
    BY <1>7, <1>10 DEF PullFails, CloseEnds, Raise, Leave, history
<1>11. CASE Drain
    BY <1>7, <1>9, <1>11 DEF Drain, Raise, history
<1>12. CASE Join \/ StopProbe \/ CloseClient
    BY <1>8, <1>12 DEF Join, StopProbe, CloseClient, Ending, history
<1>13. CASE Worker \/ UNCHANGED vars
    BY <1>9, <1>13 DEF Worker, WorkerStarts, WorkerReturns, WorkerCrashes, producer, history, vars
<1>14. QED
    BY <1>2, <1>3, <1>4, <1>6, <1>10, <1>11, <1>12, <1>13 DEF Next, Producer

(* A null line fails its partition, before anything of its batch is sent.   *)
THEOREM NullLineFailsHolds == Spec => []NullLineFails
<1>1. PoolInv /\ NullInv => NullLineFails
    <2> SUFFICES ASSUME PoolInv, NullInv, NEW b \in DOMAIN input, input[b].null
                 PROVE  (\A c \in shipped : c.batch < b) /\ pc # "emitted"
        BY DEF NullLineFails
    <2>1. b \in Nat
        BY WriterAssumption DEF PoolInv
    <2>2. \A c \in shipped : c.batch \in Nat /\ ~(b < c.batch + 1)
        BY DEF NullInv, NoNullBefore, Slice
    <2>3. pc # "emitted"
        BY DEF PoolInv, Ended, NullInv
    <2>4. QED
        BY <2>1, <2>2, <2>3
<1>2. QED
    BY <1>1, PoolInit, PoolStep, NullInit, NullStep, PTL DEF Spec

-----------------------------------------------------------------------------
(* Rows of sets of chunks *)

RowsTyped(S) == \A c \in S : c.rows \in Nat

(* The sum of RowsOf is over a function that only its own set determines.   *)
LEMMA RowsOver ==
    ASSUME NEW S, IsFiniteSet(S), RowsTyped(S), NEW T \in SUBSET S
    PROVE  LET f == [c \in S |-> c.rows]
           IN  NatOn(f, S) /\ RowsOf(T) = SumFunctionOnSet(f, T)
<1> DEFINE f == [c \in S |-> c.rows]
           g == [c \in T |-> c.rows]
<1>1. IsFiniteSet(T) /\ NatOn(f, S) /\ NatOn(g, T) /\ \A c \in T : g[c] = f[c]
    BY FS_Subset DEF NatOn, RowsTyped
<1>2. RowsOf(T) = SumFunctionOnSet(g, T)
    BY DEF RowsOf, SumFunction
<1> HIDE DEF f, g
<1>3. SumFunctionOnSet(g, T) = SumFunctionOnSet(f, T)
    BY <1>1, SumEqual
<1>4. QED
    BY <1>1, <1>2, <1>3 DEF f

LEMMA RowsNat ==
    ASSUME NEW S, IsFiniteSet(S), RowsTyped(S) PROVE RowsOf(S) \in Nat
BY RowsOver, SumNat

LEMMA RowsEmpty == RowsOf({}) = 0
BY SumEmpty DEF RowsOf, SumFunction

LEMMA RowsAdd ==
    ASSUME NEW S, IsFiniteSet(S), RowsTyped(S), NEW c, c \notin S, c.rows \in Nat
    PROVE  RowsOf(S \cup {c}) = RowsOf(S) + c.rows
<1> DEFINE T == S \cup {c}
           f == [d \in T |-> d.rows]
<1>1. IsFiniteSet(T) /\ RowsTyped(T) /\ S \in SUBSET T /\ T \in SUBSET T
    BY FS_AddElement DEF RowsTyped
<1>2. NatOn(f, T) /\ RowsOf(T) = SumFunctionOnSet(f, T) /\ RowsOf(S) = SumFunctionOnSet(f, S)
    BY <1>1, RowsOver
<1>3. f[c] = c.rows /\ NatOn(f, S)
    BY <1>2 DEF NatOn
<1> HIDE DEF f
<1>4. SumFunctionOnSet(f, T) = SumFunctionOnSet(f, S) + f[c]
    BY <1>3, SumAdd
<1>5. QED
    BY <1>2, <1>3, <1>4

LEMMA RowsParts ==
    ASSUME NEW S, IsFiniteSet(S), RowsTyped(S), NEW D \in SUBSET S
    PROVE  RowsOf(S) = RowsOf(S \ D) + RowsOf(D)
<1> DEFINE f == [d \in S |-> d.rows]
<1>1. S \ D \in SUBSET S /\ S \in SUBSET S
    OBVIOUS
<1>2. /\ NatOn(f, S) /\ RowsOf(S) = SumFunctionOnSet(f, S)
      /\ RowsOf(D) = SumFunctionOnSet(f, D) /\ RowsOf(S \ D) = SumFunctionOnSet(f, S \ D)
    BY <1>1, RowsOver
<1> HIDE DEF f
<1>3. QED
    BY <1>2, SumParts

LEMMA RangeFinite ==
    ASSUME NEW X, NEW s \in Seq(X) PROVE IsFiniteSet(Range(s))
<1>1. IsFiniteSet(1..Len(s))
    BY FS_Interval
<1>2. s \in Surjection(1..Len(s), Range(s))
    BY DEF Surjection, Range
<1>3. QED
    BY <1>1, <1>2, FS_Surjection

(* The head of a sequence without repetition, and the rest *)
LEMMA HeadAndTail ==
    ASSUME NEW X, NEW s \in Seq(X), s # <<>>,
           \A j, k \in 1..Len(s) : s[j] = s[k] => j = k
    PROVE  /\ Head(s) \in X /\ Range(s) = Range(Tail(s)) \cup {Head(s)}
           /\ Head(s) \notin Range(Tail(s)) /\ Tail(s) \in Seq(X)
<1>1. /\ Tail(s) \in Seq(X) /\ Len(Tail(s)) = Len(s) - 1 /\ Len(s) \in Nat \ {0}
      /\ \A k \in 1..(Len(s) - 1) : Tail(s)[k] = s[k + 1]
      /\ Head(s) = s[1] /\ s[1] \in X
    OBVIOUS
<1>2. DOMAIN s = 1..Len(s) /\ DOMAIN Tail(s) = 1..(Len(s) - 1)
    BY <1>1
<1>3. \A k \in 1..(Len(s) - 1) : k + 1 \in 1..Len(s) /\ k + 1 # 1
    BY <1>1
<1>4. Head(s) \notin Range(Tail(s))
    BY <1>1, <1>2, <1>3 DEF Range
<1>5. \A k \in 1..Len(s) : k = 1 \/ (k - 1 \in 1..(Len(s) - 1) /\ (k - 1) + 1 = k)
    BY <1>1
<1>6. Range(s) = Range(Tail(s)) \cup {Head(s)}
    <2>1. ASSUME NEW k \in 1..Len(s) PROVE s[k] \in Range(Tail(s)) \cup {Head(s)}
        <3>1. CASE k = 1
            BY <1>1, <3>1
        <3>2. CASE k # 1
            <4>1. k - 1 \in DOMAIN Tail(s) /\ Tail(s)[k - 1] = s[(k - 1) + 1] /\ (k - 1) + 1 = k
                BY <1>1, <1>2, <1>5, <3>2
            <4>2. QED
                BY <4>1 DEF Range
        <3>3. QED
            BY <3>1, <3>2
    <2>2. ASSUME NEW k \in 1..(Len(s) - 1) PROVE Tail(s)[k] \in Range(s)
        <3>1. k + 1 \in DOMAIN s /\ Tail(s)[k] = s[k + 1]
            BY <1>1, <1>2, <1>3
        <3>2. QED
            BY <3>1 DEF Range
    <2>3. Head(s) \in Range(s)
        <3>1. 1 \in DOMAIN s
            BY <1>1, <1>2
        <3>2. QED
            BY <1>1, <3>1 DEF Range
    <2>4. Range(s) \subseteq Range(Tail(s)) \cup {Head(s)}
        BY <1>2, <2>1 DEF Range
    <2>5. Range(Tail(s)) \subseteq Range(s)
        BY <1>2, <2>2 DEF Range
    <2>6. QED
        BY <2>3, <2>4, <2>5
<1>7. QED
    BY <1>1, <1>4, <1>6

-----------------------------------------------------------------------------
(* The slices of a batch are a partition of its rows. *)

Spans(c, i) == i \in c.first..(c.first + c.rows - 1)

UpTo(s, j) == {s[k] : k \in 1..j}

(* Chunks that lie end to end: their rows add up, and none is missing.      *)
LEMMA EndToEnd ==
    ASSUME NEW m \in Nat, NEW e \in [0..m -> Nat], e[0] = 0,
           \A k \in 1..m : e[k - 1] <= e[k],
           NEW s, \A k \in 1..m : s[k].first = e[k - 1] + 1 /\ s[k].rows = e[k] - e[k - 1],
           \A j, k \in 1..m : s[j] = s[k] => j = k
    PROVE  /\ IsFiniteSet(UpTo(s, m)) /\ RowsTyped(UpTo(s, m))
           /\ RowsOf(UpTo(s, m)) = e[m]
           /\ \A i \in 1..e[m] : \E c \in UpTo(s, m) : Spans(c, i)
<1> DEFINE P(j) == /\ IsFiniteSet(UpTo(s, j)) /\ RowsTyped(UpTo(s, j))
                   /\ RowsOf(UpTo(s, j)) = e[j]
                   /\ \A i \in 1..e[j] : \E c \in UpTo(s, j) : Spans(c, i)
           G == {j \in Nat : j <= m => P(j)}
<1>1. 0 \in G
    <2>1. UpTo(s, 0) = {}
        BY DEF UpTo
    <2>2. IsFiniteSet(UpTo(s, 0)) /\ RowsTyped(UpTo(s, 0)) /\ RowsOf(UpTo(s, 0)) = e[0]
        BY <2>1, FS_EmptySet, RowsEmpty DEF RowsTyped
    <2>3. \A i \in 1..e[0] : FALSE
        OBVIOUS
    <2>4. QED
        BY <2>2, <2>3
<1>2. ASSUME NEW j \in Nat, j \in G PROVE j + 1 \in G
    <2> SUFFICES ASSUME j + 1 <= m PROVE P(j + 1)
        OBVIOUS
    <2>1. /\ P(j) /\ j + 1 \in 1..m /\ j \in 0..m /\ (j + 1) - 1 = j
        BY <1>2
    <2>2. /\ e[j] \in Nat /\ e[j + 1] \in Nat /\ e[j] <= e[j + 1]
          /\ s[j + 1].first = e[j] + 1 /\ s[j + 1].rows = e[j + 1] - e[j]
        BY <2>1
    <2>3. UpTo(s, j + 1) = UpTo(s, j) \cup {s[j + 1]}
        <3>1. 1..(j + 1) = (1..j) \cup {j + 1}
            BY <1>2
        <3>2. QED
            BY <3>1 DEF UpTo
    <2>4. s[j + 1] \notin UpTo(s, j)
        BY <2>1 DEF UpTo
    <2>5. s[j + 1].rows \in Nat
        BY <2>2
    <2>6. IsFiniteSet(UpTo(s, j + 1)) /\ RowsTyped(UpTo(s, j + 1))
        <3>1. IsFiniteSet(UpTo(s, j) \cup {s[j + 1]})
            <4>1. IsFiniteSet(UpTo(s, j))
                BY <2>1
            <4>2. QED
                BY <4>1, FS_AddElement
        <3>2. RowsTyped(UpTo(s, j) \cup {s[j + 1]})
            BY <2>1, <2>5 DEF RowsTyped
        <3>3. QED
            BY <2>3, <3>1, <3>2
    <2>7. RowsOf(UpTo(s, j + 1)) = RowsOf(UpTo(s, j)) + s[j + 1].rows
        BY <2>1, <2>3, <2>4, <2>5, RowsAdd
    <2>8. RowsOf(UpTo(s, j + 1)) = e[j + 1]
        BY <2>1, <2>2, <2>7
    <2>9. ASSUME NEW i \in 1..e[j + 1] PROVE \E c \in UpTo(s, j + 1) : Spans(c, i)
        <3>1. CASE i \in 1..e[j]
            BY <2>1, <2>3, <3>1
        <3>2. CASE i \notin 1..e[j]
            <4>1. Spans(s[j + 1], i)
                BY <2>2, <3>2 DEF Spans
            <4>2. QED
                BY <2>3, <4>1
        <3>3. QED
            BY <3>1, <3>2
    <2>10. QED
        BY <2>6, <2>8, <2>9
<1> HIDE DEF G
<1>3. m \in G
    BY <1>1, <1>2, NatSetInduction
<1>4. QED
    BY <1>3 DEF G

LEMMA Quotient ==
    ASSUME NEW x \in Nat, NEW y \in Nat \ {0}
    PROVE  /\ x \div y \in Nat /\ (x \div y) * y <= x
           /\ x < (x \div y) * y + y
OBVIOUS

LEMMA TimesMonotone ==
    ASSUME NEW x \in Nat, NEW y \in Nat, NEW z \in Nat, x <= y
    PROVE  x * z \in Nat /\ x * z <= y * z
OBVIOUS

LEMMA TimesNext ==
    ASSUME NEW x \in Int, NEW z \in Int PROVE (x - 1) * z = x * z - z
OBVIOUS

(* Cutting a batch for a positive chunk_size loses and doubles no row.      *)
LEMMA SplitCuts ==
    ASSUME NEW b \in Nat, NEW n \in Nat, cfg.chunk_size \in Nat \ {0}
    PROVE  /\ IsFiniteSet(Range(Split(b, n))) /\ RowsTyped(Range(Split(b, n)))
           /\ RowsOf(Range(Split(b, n))) = n
           /\ \A c \in Range(Split(b, n)) :
                  c \in Chunk /\ c.batch = b /\ c.first >= 1 /\ c.first + c.rows - 1 <= n
           /\ \A i \in 1..n : \E c \in Range(Split(b, n)) : Spans(c, i)
<1> DEFINE size  == cfg.chunk_size
           count == (n + size - 1) \div size
           s == Split(b, n)
           end(k) == IF k * size < n THEN k * size ELSE n
           e == [k \in 0..count |-> end(k)]
<1>0. size \in Nat \ {0} /\ n + size - 1 \in Nat
    OBVIOUS
<1>1. count \in Nat /\ count * size <= n + size - 1 /\ n <= count * size
    <2>1. count \in Nat /\ count * size <= n + size - 1 /\ n + size - 1 < count * size + size
        BY <1>0, Quotient
    <2> HIDE DEF count
    <2>2. count * size \in Nat
        BY <1>0, <2>1, TimesMonotone
    <2>3. QED
        BY <1>0, <2>1, <2>2
<1>2. s = [k \in 1..count |->
               [batch |-> b, first |-> (k - 1) * size + 1,
                rows |-> IF n - (k - 1) * size < size THEN n - (k - 1) * size ELSE size]]
    BY <1>0 DEF Split
<1> HIDE DEF count, s
<1>3. ASSUME NEW k \in 1..count
      PROVE  /\ (k - 1) * size \in Nat /\ (k - 1) * size < n /\ k * size = (k - 1) * size + size
             /\ k \in 0..count /\ k - 1 \in 0..count
    <2>1. k - 1 \in Nat /\ count - 1 \in Nat /\ k - 1 <= count - 1 /\ k \in Int
        BY <1>1
    <2>2. (k - 1) * size \in Nat /\ (k - 1) * size <= (count - 1) * size
        BY <1>0, <2>1, TimesMonotone
    <2>3. (count - 1) * size = count * size - size /\ (k - 1) * size = k * size - size
        BY <1>0, <1>1, <2>1, TimesNext
    <2>4. count * size \in Nat /\ k * size \in Nat
        BY <1>0, <1>1, <2>1, TimesMonotone
    <2>5. QED
        BY <1>0, <1>1, <2>1, <2>2, <2>3, <2>4
<1>4. \A k \in 0..count : k * size \in Nat /\ e[k] \in Nat
    BY <1>0, <1>1, TimesMonotone
<1>5. ASSUME NEW k \in 1..count
      PROVE  /\ e[k - 1] = (k - 1) * size /\ e[k - 1] <= e[k] /\ e[k] <= n
             /\ s[k] = [batch |-> b, first |-> e[k - 1] + 1, rows |-> e[k] - e[k - 1]]
    <2>1. e[k - 1] = end(k - 1) /\ e[k] = end(k)
        BY <1>3
    <2> DEFINE t == (k - 1) * size
    <2>2. t \in Nat /\ t < n /\ k * size = t + size
        BY <1>3
    <2>3. s[k] = [batch |-> b, first |-> t + 1, rows |-> IF n - t < size THEN n - t ELSE size]
        BY <1>2
    <2> HIDE DEF t, e
    <2>4. end(k - 1) = t
        BY <2>2 DEF t
    <2>5. end(k) = IF t + size < n THEN t + size ELSE n
        BY <2>2
    <2> HIDE DEF end
    <2>6. e[k] - e[k - 1] = IF n - t < size THEN n - t ELSE size
        BY <1>0, <2>1, <2>2, <2>4, <2>5
    <2>7. e[k - 1] <= e[k] /\ e[k] <= n
        BY <1>0, <2>1, <2>2, <2>4, <2>5
    <2>8. QED
        BY <2>1, <2>3, <2>4, <2>6, <2>7 DEF t
<1>6. e \in [0..count -> Nat] /\ e[0] = 0 /\ e[count] = n
    <2>1. 0 * size = 0 /\ 0 \in 0..count /\ count \in 0..count
        BY <1>0, <1>1
    <2>2. count * size \in Nat /\ ~(count * size < n)
        BY <1>1, <1>4, <2>1
    <2>3. QED
        BY <1>4, <2>1, <2>2
<1>7. \A j, k \in 1..count : s[j] = s[k] => j = k
    <2>1. Len(s) = count
        BY <1>1, <1>2
    <2>2. cfg.chunk_size \in Int /\ cfg.chunk_size # 0
        OBVIOUS
    <2>3. QED
        BY <2>1, <2>2, SplitSlices DEF s
<1>8. Range(s) = UpTo(s, count)
    BY <1>2 DEF Range, UpTo
<1> HIDE DEF e, end
<1>9. ASSUME NEW k \in 1..count
      PROVE  s[k].first = e[k - 1] + 1 /\ s[k].rows = e[k] - e[k - 1]
    <2>1. s[k] = [batch |-> b, first |-> e[k - 1] + 1, rows |-> e[k] - e[k - 1]]
        BY <1>5
    <2>2. QED
        BY <2>1
<1>10. \A k \in 1..count : e[k - 1] <= e[k]
    BY <1>5
<1>11. /\ IsFiniteSet(UpTo(s, count)) /\ RowsTyped(UpTo(s, count))
       /\ RowsOf(UpTo(s, count)) = e[count]
       /\ \A i \in 1..e[count] : \E c \in UpTo(s, count) : Spans(c, i)
    BY <1>1, <1>6, <1>7, <1>9, <1>10, EndToEnd
<1>12. ASSUME NEW c \in Range(s)
       PROVE  c \in Chunk /\ c.batch = b /\ c.first >= 1 /\ c.first + c.rows - 1 <= n
    <2>1. PICK k \in 1..count : c = s[k]
        BY <1>8 DEF UpTo
    <2>2. /\ k - 1 \in 0..count /\ k \in 0..count
        BY <1>3
    <2>3. /\ e[k - 1] \in Nat /\ e[k] \in Nat /\ e[k - 1] <= e[k] /\ e[k] <= n
          /\ c = [batch |-> b, first |-> e[k - 1] + 1, rows |-> e[k] - e[k - 1]]
        BY <1>5, <1>6, <2>1, <2>2
    <2>4. QED
        BY <2>3 DEF Chunk
<1>13. QED
    BY <1>6, <1>8, <1>11, <1>12 DEF s

-----------------------------------------------------------------------------
(* The shape of the state: what chunks, counts and results can be           *)

Piece(c) ==
    /\ c \in Chunk /\ c.batch \in DOMAIN input /\ c.first >= 1
    /\ c.first + c.rows - 1 <= input[c.batch].rows

Counted ==
    /\ counts \in Count /\ samples \in 0..SampleCap
    /\ counts.errors > 0 <=> samples > 0
    /\ samples <= counts.errors

Left(c, r) ==
    \/ r = Crash
    \/ /\ r \in Reports(c.rows, SampleCap, malformed)
       /\ Clean(r, c.rows) => c \in landed

Shape ==
    /\ malformed \in BOOLEAN /\ Counted
    /\ \A c \in shipped \cup Range(slices) : Piece(c)
    /\ pending \cup queued \cup running \cup DOMAIN results \cup landed \subseteq shipped
    /\ \A c \in DOMAIN results : Left(c, results[c])

LEMMA InputTyped ==
    ASSUME input \in Inputs
    PROVE  /\ input \in Seq(Batch) /\ DOMAIN input = 1..Len(input) /\ Len(input) \in Nat
           /\ \A b \in DOMAIN input : input[b].rows \in Nat /\ input[b].null \in BOOLEAN
<1>1. input \in Seq(Batch)
    BY WriterAssumption
<1>2. \A b \in DOMAIN input : input[b] \in Batch
    BY <1>1
<1>3. QED
    BY <1>1, <1>2 DEF Batch

(* A report adds up, and is counted like any other. *)
LEMMA ReportAdds ==
    ASSUME NEW n \in Nat, NEW r \in Reports(n, SampleCap, malformed)
    PROVE  /\ r.counts \in Count /\ r.samples \in Nat /\ Accounted(r.counts) \in Nat
           /\ Accounted(r.counts) <= n /\ (~malformed => Accounted(r.counts) = n)
           /\ (r.counts.errors > 0 <=> r.samples > 0) /\ r.samples <= r.counts.errors
           /\ r # Crash
<1>1. r.counts \in Count /\ r.samples \in 0..SampleCap
    BY DEF Reports, Count
<1>2. r.samples \in Nat /\ r # Crash
    BY <1>1, WriterAssumption DEF Crash
<1>3. QED
    BY <1>1, <1>2, AddCountAdds DEF Reports

(* Counting totals with consistent samples keeps them consistent. *)
LEMMA CountMore ==
    ASSUME Counted, NEW c \in Count, NEW n \in Nat, (c.errors > 0 <=> n > 0), n <= c.errors,
           counts' = AddCount(counts, c), samples' = Capped(samples + n, SampleCap)
    PROVE  Counted'
<1>1. /\ counts' \in Count /\ counts'.errors = counts.errors + c.errors
      /\ counts.errors \in Nat /\ c.errors \in Nat
    BY AddCountAdds DEF Counted
<1>2. samples \in Nat /\ (counts.errors > 0 <=> samples > 0) /\ samples <= counts.errors
    BY WriterAssumption DEF Counted
<1>3. /\ samples' \in 0..SampleCap /\ samples' <= samples + n
      /\ samples' > 0 <=> samples + n > 0
    <2> DEFINE m == samples + n
    <2>1. m \in Nat /\ SampleCap \in Nat \ {0} /\ samples' = Capped(m, SampleCap)
        BY <1>2, WriterAssumption
    <2> HIDE DEF m
    <2>2. samples' \in 0..SampleCap /\ samples' <= m /\ (samples' > 0 <=> m > 0)
        BY <2>1, CappedBounds
    <2>3. QED
        BY <2>2 DEF m
<1>4. samples' \in Nat
    BY <1>3, WriterAssumption
<1>5. samples' <= counts'.errors /\ (counts'.errors > 0 <=> samples' > 0)
    BY <1>1, <1>2, <1>3, <1>4
<1>6. QED
    BY <1>1, <1>3, <1>5 DEF Counted

(* What is merged from a set of finished tasks, none of which crashed *)
LEMMA MergedCounts ==
    ASSUME PoolInv, Shape, NEW D \in SUBSET (pending \cap DOMAIN results), ~Crashed(D)
    PROVE  LET c == SumCounts([d \in D |-> results[d].counts])
               n == SumFunction([d \in D |-> results[d].samples])
           IN  /\ c \in Count /\ n \in Nat
               /\ (c.errors > 0 <=> n > 0) /\ n <= c.errors
               /\ Accounted(c) <= RowsOf(D)
               /\ ~malformed => Accounted(c) = RowsOf(D)
               /\ (c.errors = 0 /\ Accounted(c) = RowsOf(D)) => D \subseteq landed
<1> DEFINE k == [d \in D |-> results[d].counts]
           a == [d \in D |-> Accounted(results[d].counts)]
           e == [d \in D |-> results[d].counts.errors]
           n == [d \in D |-> results[d].samples]
           w == [d \in D |-> d.rows]
<1>1. ASSUME NEW d \in D
      PROVE  /\ d.rows \in Nat /\ k[d] \in Count /\ a[d] \in Nat /\ e[d] \in Nat /\ n[d] \in Nat
             /\ w[d] \in Nat /\ a[d] <= w[d] /\ (~malformed => a[d] = w[d])
             /\ (e[d] > 0 <=> n[d] > 0) /\ n[d] <= e[d]
             /\ (e[d] = 0 /\ a[d] = w[d]) => d \in landed
    <2>1. Piece(d) /\ Left(d, results[d]) /\ results[d] # Crash
        BY DEF Shape, Crashed
    <2>2. d.rows \in Nat
        BY <2>1 DEF Piece, Chunk
    <2>3. results[d] \in Reports(d.rows, SampleCap, malformed)
        BY <2>1 DEF Left
    <2>4. /\ results[d].counts \in Count /\ results[d].samples \in Nat
          /\ Accounted(results[d].counts) \in Nat /\ results[d].counts.errors \in Nat
          /\ Accounted(results[d].counts) <= d.rows
          /\ ~malformed => Accounted(results[d].counts) = d.rows
          /\ results[d].counts.errors > 0 <=> results[d].samples > 0
          /\ results[d].samples <= results[d].counts.errors
        BY <2>2, <2>3, ReportAdds, AddCountAdds
    <2>5. (results[d].counts.errors = 0 /\ Accounted(results[d].counts) = d.rows) => d \in landed
        BY <2>1 DEF Left, Clean
    <2>6. QED
        BY <2>2, <2>4, <2>5
<1>2. IsFiniteSet(D)
    BY FS_Subset DEF PoolInv, Window
<1>3. /\ SumCounts(k) \in Count /\ SumCounts(k).errors = SumFunction(e)
      /\ Accounted(SumCounts(k)) = SumFunction(a)
    <2>1. DOMAIN k = D /\ \A d \in D : k[d] \in Count
        BY <1>1
    <2>2. e = [d \in D |-> k[d].errors] /\ a = [d \in D |-> Accounted(k[d])]
        OBVIOUS
    <2> HIDE DEF k, a, e
    <2>3. QED
        BY <1>2, <2>1, <2>2, SumCountsAdds
<1>4. /\ SumFunction(a) = SumFunctionOnSet(a, D) /\ SumFunction(e) = SumFunctionOnSet(e, D)
      /\ SumFunction(n) = SumFunctionOnSet(n, D) /\ RowsOf(D) = SumFunctionOnSet(w, D)
    BY DEF SumFunction, RowsOf
<1>5. NatOn(a, D) /\ NatOn(e, D) /\ NatOn(n, D) /\ NatOn(w, D)
    BY <1>1 DEF NatOn
<1> HIDE DEF a, e, n, w
<1>6. /\ SumFunctionOnSet(n, D) \in Nat /\ SumFunctionOnSet(e, D) \in Nat
      /\ SumFunctionOnSet(a, D) \in Nat /\ SumFunctionOnSet(w, D) \in Nat
    BY <1>2, <1>5, SumNat
<1>7. SumFunctionOnSet(n, D) <= SumFunctionOnSet(e, D)
    BY <1>1, <1>2, <1>5, SumMonotone
<1>8. SumFunctionOnSet(a, D) <= SumFunctionOnSet(w, D)
    BY <1>1, <1>2, <1>5, SumMonotone
<1>9. SumFunctionOnSet(e, D) = 0 <=> SumFunctionOnSet(n, D) = 0
    <2>1. \A d \in D : e[d] = 0 <=> n[d] = 0
        BY <1>1
    <2>2. /\ SumFunctionOnSet(e, D) = 0 <=> \A d \in D : e[d] = 0
          /\ SumFunctionOnSet(n, D) = 0 <=> \A d \in D : n[d] = 0
        BY <1>2, <1>5, SumZero
    <2>3. QED
        BY <2>1, <2>2
<1>10. ~malformed => SumFunctionOnSet(a, D) = SumFunctionOnSet(w, D)
    <2>1. ~malformed => \A d \in D : a[d] = w[d]
        BY <1>1
    <2>2. QED
        BY <1>2, <1>5, <2>1, SumEqual
<1>11. ASSUME SumFunctionOnSet(e, D) = 0, SumFunctionOnSet(a, D) = SumFunctionOnSet(w, D)
       PROVE  D \subseteq landed
    <2> SUFFICES ASSUME NEW d \in D PROVE d \in landed
        OBVIOUS
    <2>1. e[d] = 0
        BY <1>2, <1>5, <1>11, SumZero
    <2>2. a[d] = w[d]
        <3>1. SumFunctionOnSet(w, D) <= SumFunctionOnSet(a, D)
            BY <1>6, <1>11
        <3>2. \A x \in D : a[x] <= w[x]
            BY <1>1
        <3>3. QED
            BY <1>2, <1>5, <3>1, <3>2, SumTight
    <2>3. QED
        BY <1>1, <2>1, <2>2
<1> DEFINE C == SumCounts(k)
<1>12. /\ C \in Count /\ C.errors = SumFunctionOnSet(e, D) /\ Accounted(C) = SumFunctionOnSet(a, D)
    BY <1>3, <1>4
<1>13. /\ C \in Count /\ SumFunction(n) \in Nat
       /\ (C.errors > 0 <=> SumFunction(n) > 0) /\ SumFunction(n) <= C.errors
       /\ Accounted(C) <= RowsOf(D)
       /\ ~malformed => Accounted(C) = RowsOf(D)
       /\ (C.errors = 0 /\ Accounted(C) = RowsOf(D)) => D \subseteq landed
    <2> HIDE DEF C
    <2>1. QED
        BY <1>4, <1>6, <1>7, <1>8, <1>9, <1>10, <1>11, <1>12
<1>14. QED
    BY <1>13 DEF n

LEMMA ShapeInit == Init => Shape
<1> SUFFICES ASSUME Init PROVE Shape
    OBVIOUS
<1>1. NoCount \in Count /\ NoCount.errors = 0
    BY DEF NoCount, Count
<1>2. Counted
    BY <1>1, WriterAssumption DEF Init, Counted
<1>3. Range(slices) = {} /\ DOMAIN results = {}
    BY DEF Init, Range
<1>4. QED
    BY <1>2, <1>3, WriterAssumption DEF Init, Shape

(* The next slice, if there is one *)
LEMMA HeadPiece ==
    ASSUME PoolInv, Shape, slices # <<>>
    PROVE  /\ Piece(Head(slices)) /\ Head(slices) \notin pending
           /\ Head(slices).rows \in Nat
           /\ Range(slices) = Range(Tail(slices)) \cup {Head(slices)}
           /\ Head(slices) \notin Range(Tail(slices))
           /\ Tail(slices) \in Seq(Slice) /\ slices \in Seq(Slice)
<1>1. /\ slices \in Seq(Slice)
      /\ \A j, k \in 1..Len(slices) : slices[j] = slices[k] => j = k
      /\ \A k \in 1..Len(slices) : slices[k] \notin pending
    BY DEF PoolInv, Fresh
<1>2. /\ Range(slices) = Range(Tail(slices)) \cup {Head(slices)}
      /\ Head(slices) \notin Range(Tail(slices)) /\ Tail(slices) \in Seq(Slice)
    BY <1>1, HeadAndTail
<1>3. Head(slices) \notin pending
    BY <1>1
<1>4. Piece(Head(slices))
    BY <1>2 DEF Shape
<1>5. QED
    BY <1>1, <1>2, <1>3, <1>4 DEF Piece, Chunk

(* A batch that is cut into slices gives pieces of it. *)
LEMMA CutPieces ==
    ASSUME PoolInv, Pull, ~raising'
    PROVE  /\ next \in DOMAIN input /\ input[next].rows \in Nat
           /\ \A c \in Range(slices') : Piece(c) /\ c.batch = next
           /\ cfg.chunk_size < 0 => Range(slices') = {}
           /\ cfg.chunk_size >= 0 =>
                 /\ RowsOf(Range(slices')) = input[next].rows
                 /\ \A i \in 1..input[next].rows : \E c \in Range(slices') : Spans(c, i)
           /\ input[next].rows = 0 => Range(slices') = {}
           /\ pc' # "feed" => slices' = <<>>
<1> DEFINE n == input[next].rows
<1>1. next \in DOMAIN input /\ n \in Nat
    <2>1. next \in Nat \ {0} /\ next <= Len(input) /\ input \in Inputs
        BY DEF Pull, PoolInv, Fresh
    <2>2. QED
        BY <2>1, InputTyped
<1>2. /\ ~Unshippable(input[next])
      /\ slices' = IF n = 0 THEN <<>> ELSE Split(next, n)
      /\ pc' = IF slices' = <<>> THEN "pull" ELSE "feed"
    BY DEF Pull, Raise
<1>3. cfg.chunk_size \in Int /\ (cfg.chunk_size = 0 => n = 0)
    BY <1>1, <1>2, ConfigTyped DEF Unshippable, PoolInv, ToolsInv
<1>4. Range(<<>>) = {}
    BY DEF Range
<1>5. CASE n = 0
    <2>1. Range(slices') = {} /\ (\A i \in 1..n : FALSE)
        BY <1>2, <1>4, <1>5
    <2>2. QED
        BY <1>1, <1>2, <2>1, <1>5, RowsEmpty
<1>6. CASE n # 0 /\ cfg.chunk_size < 0
    <2>1. slices' = <<>>
        BY <1>2, <1>3, <1>6 DEF Split
    <2>2. QED
        BY <1>1, <1>2, <1>3, <1>4, <1>6, <2>1
<1>7. CASE n # 0 /\ cfg.chunk_size > 0
    <2>1. cfg.chunk_size \in Nat \ {0} /\ next \in Nat /\ slices' = Split(next, n)
        BY <1>1, <1>2, <1>3, <1>7 DEF PoolInv, Fresh
    <2> HIDE DEF n
    <2>2. /\ RowsOf(Range(slices')) = n
          /\ \A c \in Range(slices') :
                 c \in Chunk /\ c.batch = next /\ c.first >= 1 /\ c.first + c.rows - 1 <= n
          /\ \A i \in 1..n : \E c \in Range(slices') : Spans(c, i)
        BY <1>1, <2>1, SplitCuts
    <2>3. QED
        BY <1>1, <1>2, <1>3, <1>7, <2>2 DEF Piece, n
<1>8. QED
    BY <1>1, <1>3, <1>5, <1>6, <1>7

LEMMA FixedStays == ASSUME [Next]_vars PROVE UNCHANGED fixed
BY DEF Next, Producer, Worker, Construct, Pull, PullFails, PullEnds, Submit, Drain,
       CloseEnds, ShipSerially, ShipSeriallyFails, Join, StopProbe, CloseClient,
       WorkerStarts, WorkerReturns, WorkerCrashes, producer, vars, fixed

(* Only merging and the serial path count. *)
LEMMA CountedStep ==
    ASSUME PoolInv, Shape, [Next]_vars PROVE Counted'
<1>0. Counted
    BY DEF Shape
<1>1. CASE ShipSerially
    <2>1. slices # <<>>
        BY <1>1 DEF ShipSerially, PoolInv, Fresh
    <2>2. PICK r \in Reports(Head(slices).rows, SampleCap, malformed) :
              /\ counts' = AddCount(counts, r.counts)
              /\ samples' = Capped(samples + r.samples, SampleCap)
        BY <1>1 DEF ShipSerially
    <2>3. Head(slices).rows \in Nat
        BY <2>1, HeadPiece
    <2>4. /\ r.counts \in Count /\ r.samples \in Nat
          /\ r.counts.errors > 0 <=> r.samples > 0
          /\ r.samples <= r.counts.errors
        BY <2>3, ReportAdds
    <2>5. QED
        BY <1>0, <2>2, <2>4, CountMore
<1>2. CASE Drain
    <2> DEFINE D == pending \cap DOMAIN results
               c == SumCounts([d \in D |-> results[d].counts])
               n == SumFunction([d \in D |-> results[d].samples])
    <2>1. CASE Crashed(D)
        BY <1>0, <1>2, <2>1 DEF Drain, totals, Counted
    <2>2. CASE ~Crashed(D)
        <3>1. counts' = AddCount(counts, c) /\ samples' = Capped(samples + n, SampleCap)
            BY <1>2, <2>2 DEF Drain, Merge
        <3>2. c \in Count /\ n \in Nat /\ (c.errors > 0 <=> n > 0) /\ n <= c.errors
            BY <2>2, MergedCounts
        <3> HIDE DEF c, n
        <3>3. QED
            BY <1>0, <3>1, <3>2, CountMore
    <2>3. QED
        BY <2>1, <2>2
<1>3. ASSUME ~ShipSerially, ~Drain PROVE UNCHANGED <<counts, samples>>
    BY <1>3 DEF Next, Producer, Worker, Construct, Pull, PullFails, PullEnds, Submit,
       CloseEnds, ShipSeriallyFails, Join, StopProbe, CloseClient,
       WorkerStarts, WorkerReturns, WorkerCrashes, producer, vars, totals
<1>4. QED
    BY <1>0, <1>1, <1>2, <1>3 DEF Counted

(* Chunks only come from cutting a batch. *)
LEMMA PiecesStep ==
    ASSUME PoolInv, Shape, [Next]_vars
    PROVE  \A c \in (shipped \cup Range(slices))' : Piece(c)'
<1>1. \A c : Piece(c) => Piece(c)'
    BY FixedStays DEF Piece, fixed
<1>2. \A c \in shipped \cup Range(slices) : Piece(c)
    BY DEF Shape
<1>3. CASE Pull
    <2>1. shipped' = shipped
        BY <1>3 DEF Pull, history
    <2>2. CASE slices' = slices
        BY <1>1, <1>2, <2>1, <2>2
    <2>3. CASE slices' # slices
        <3>1. ~raising'
            BY <1>3, <2>3 DEF Pull, Raise, PoolInv, ToolsInv, Inside
        <3>2. \A c \in Range(slices') : Piece(c)
            BY <1>3, <3>1, CutPieces
        <3>3. Range(slices)' = Range(slices')
            BY DEF Range
        <3>4. QED
            BY <1>1, <1>2, <2>1, <3>2, <3>3
    <2>4. QED
        BY <2>2, <2>3
<1>4. CASE Submit \/ ShipSerially \/ ShipSeriallyFails
    <2>1. slices # <<>>
        BY <1>4 DEF Submit, ShipSerially, ShipSeriallyFails, PoolInv, Fresh
    <2>2. /\ shipped' = shipped \cup {Head(slices)}
          /\ slices' \in {slices, Tail(slices)}
        BY <1>4 DEF Submit, ShipSerially, ShipSeriallyFails, Advance
    <2>3. Range(slices') \subseteq Range(slices) /\ Head(slices) \in Range(slices)
        BY <2>1, <2>2, HeadPiece
    <2>4. Range(slices)' = Range(slices')
        BY DEF Range
    <2>5. QED
        BY <1>1, <1>2, <2>2, <2>3, <2>4
<1>5. ASSUME ~Pull, ~Submit, ~ShipSerially, ~ShipSeriallyFails
      PROVE  UNCHANGED <<slices, shipped>>
    BY <1>5 DEF Next, Producer, Worker, Construct, PullFails, PullEnds, Drain,
       CloseEnds, Join, StopProbe, CloseClient,
       WorkerStarts, WorkerReturns, WorkerCrashes, producer, vars, history
<1>6. QED
    BY <1>1, <1>2, <1>3, <1>4, <1>5

Handed == pending \cup queued \cup running \cup DOMAIN results \cup landed \subseteq shipped

(* What is in flight, finished or landed was handed over. *)
LEMMA HandedStep ==
    ASSUME Handed, [Next]_vars PROVE Handed'
<1> USE DEF Handed
<1>1. CASE Submit
    BY <1>1 DEF Submit, Advance
<1>2. CASE Drain
    <2>1. DOMAIN results' \subseteq DOMAIN results /\ pending' \subseteq pending
        BY <1>2 DEF Drain, Take, Restrict
    <2>2. QED
        BY <1>2, <2>1 DEF Drain, history
<1>3. CASE ShipSerially
    BY <1>3 DEF ShipSerially, Advance, workers
<1>4. CASE ShipSeriallyFails
    BY <1>4 DEF ShipSeriallyFails, workers
<1>5. ASSUME NEW c \in queued, WorkerStarts(c) PROVE Handed'
    BY <1>5 DEF WorkerStarts, producer, history
<1>6. ASSUME NEW c \in running, WorkerReturns(c) PROVE Handed'
    <2>1. DOMAIN results' = DOMAIN results \cup {c} /\ landed' \subseteq landed \cup {c}
        BY <1>6 DEF WorkerReturns
    <2>2. QED
        BY <1>6, <2>1 DEF WorkerReturns, producer
<1>7. ASSUME NEW c \in running, WorkerCrashes(c) PROVE Handed'
    <2>1. DOMAIN results' = DOMAIN results \cup {c}
        BY <1>7 DEF WorkerCrashes
    <2>2. QED
        BY <1>7, <2>1 DEF WorkerCrashes, producer, history
<1>8. ASSUME ~Submit, ~Drain, ~ShipSerially, ~ShipSeriallyFails, ~Worker
      PROVE  UNCHANGED <<pending, workers, history>>
    BY <1>8 DEF Next, Producer, Construct, Pull, PullFails, PullEnds,
       CloseEnds, Join, StopProbe, CloseClient, vars
<1>9. QED
    BY <1>1, <1>2, <1>3, <1>4, <1>5, <1>6, <1>7, <1>8 DEF Worker, workers, history

(* A result is a crash or a report, and a chunk reported clean has landed. *)
LEMMA LeftStep ==
    ASSUME \A c \in DOMAIN results : Left(c, results[c]), [Next]_vars
    PROVE  \A c \in DOMAIN results' : Left(c, results[c])'
<1>1. malformed' = malformed
    BY FixedStays DEF fixed
<1>2. CASE Drain
    <2>1. \A c \in DOMAIN results' : c \in DOMAIN results /\ results'[c] = results[c]
        BY <1>2 DEF Drain, Take, Restrict
    <2>2. landed' = landed
        BY <1>2 DEF Drain, history
    <2>3. QED
        BY <1>1, <2>1, <2>2 DEF Left
<1>3. ASSUME NEW c \in running, WorkerReturns(c) PROVE \A d \in DOMAIN results' : Left(d, results[d])'
    <2>1. PICK r \in Reports(c.rows, SampleCap, malformed) :
              /\ results' = [d \in DOMAIN results \cup {c} |-> IF d = c THEN r ELSE results[d]]
              /\ landed' = landed \cup {d \in {c} : Clean(r, d.rows)}
        BY <1>3 DEF WorkerReturns
    <2>2. Left(c, r)'
        BY <1>1, <2>1 DEF Left
    <2>3. ASSUME NEW d \in DOMAIN results, d # c PROVE Left(d, results[d])'
        BY <1>1, <2>1, <2>3 DEF Left
    <2>4. QED
        BY <2>1, <2>2, <2>3
<1>4. ASSUME NEW c \in running, WorkerCrashes(c) PROVE \A d \in DOMAIN results' : Left(d, results[d])'
    <2>1. /\ results' = [d \in DOMAIN results \cup {c} |-> IF d = c THEN Crash ELSE results[d]]
          /\ landed' = landed
        BY <1>4 DEF WorkerCrashes, history
    <2>2. QED
        BY <1>1, <2>1 DEF Left
<1>5. ASSUME ~Drain, \A c \in running : ~WorkerReturns(c) /\ ~WorkerCrashes(c)
      PROVE  results' = results /\ landed \subseteq landed'
    BY <1>5 DEF Next, Producer, Worker, Construct, Pull, PullFails, PullEnds, Submit,
       CloseEnds, ShipSerially, ShipSeriallyFails, Join, StopProbe, CloseClient,
       WorkerStarts, vars, workers, history
<1>6. CASE results' = results /\ landed \subseteq landed'
    BY <1>1, <1>6 DEF Left
<1>7. QED
    BY <1>2, <1>3, <1>4, <1>5, <1>6

LEMMA ShapeStep == PoolInv /\ Shape /\ [Next]_vars => Shape'
<1> SUFFICES ASSUME PoolInv, Shape, [Next]_vars PROVE Shape'
    OBVIOUS
<1>1. malformed' = malformed /\ malformed \in BOOLEAN
    BY FixedStays DEF fixed, Shape
<1>2. Handed'
    BY HandedStep DEF Shape, Handed
<1>3. \A c \in DOMAIN results' : Left(c, results[c])'
    BY LeftStep DEF Shape
<1>4. QED
    BY <1>1, <1>2, <1>3, CountedStep, PiecesStep DEF Shape, Handed

-----------------------------------------------------------------------------
(* How far the input is pulled, and that total_input counts it              *)

RowsIn == [b \in DOMAIN input |-> input[b].rows]

Pulled ==
    /\ next \in 1..(Len(input) + 1)
    /\ total_input = SumFunctionOnSet(RowsIn, 1..(next - 1))
    /\ ~raising =>
          /\ pc # "feed" => slices = <<>>
          /\ pc \in {"close", "join", "stop", "release", "emitted"} => next = Len(input) + 1

(* The sum over the batches pulled so far is a number, and grows by the next batch. *)
LEMMA SumOfPulled ==
    ASSUME input \in Inputs, NEW n \in 1..(Len(input) + 1)
    PROVE  /\ IsFiniteSet(1..(n - 1)) /\ NatOn(RowsIn, 1..(n - 1))
           /\ SumFunctionOnSet(RowsIn, 1..(n - 1)) \in Nat
           /\ n <= Len(input) =>
                 SumFunctionOnSet(RowsIn, 1..n)
                    = SumFunctionOnSet(RowsIn, 1..(n - 1)) + input[n].rows
<1>1. /\ Len(input) \in Nat /\ DOMAIN input = 1..Len(input)
      /\ \A b \in DOMAIN input : input[b].rows \in Nat
    BY InputTyped
<1>2. IsFiniteSet(1..(n - 1))
    BY <1>1, FS_Interval
<1>3. NatOn(RowsIn, 1..(n - 1))
    <2>1. \A b \in 1..(n - 1) : b \in DOMAIN input
        BY <1>1
    <2>2. QED
        BY <1>1, <2>1 DEF NatOn, RowsIn
<1>4. SumFunctionOnSet(RowsIn, 1..(n - 1)) \in Nat
    BY <1>2, <1>3, SumNat
<1>5. ASSUME n <= Len(input)
      PROVE  SumFunctionOnSet(RowsIn, 1..n)
                = SumFunctionOnSet(RowsIn, 1..(n - 1)) + input[n].rows
    <2>1. 1..n = (1..(n - 1)) \cup {n} /\ n \notin 1..(n - 1)
        BY <1>1
    <2>2. RowsIn[n] = input[n].rows /\ RowsIn[n] \in Nat
        BY <1>1, <1>5 DEF RowsIn
    <2>3. SumFunctionOnSet(RowsIn, (1..(n - 1)) \cup {n})
              = SumFunctionOnSet(RowsIn, 1..(n - 1)) + RowsIn[n]
        <3>1. n \notin 1..(n - 1)
            BY <2>1
        <3> DEFINE S == 1..(n - 1)
        <3>2. IsFiniteSet(S) /\ NatOn(RowsIn, S) /\ n \notin S /\ RowsIn[n] \in Nat
            BY <1>2, <1>3, <2>2, <3>1
        <3> HIDE DEF S
        <3>3. SumFunctionOnSet(RowsIn, S \cup {n}) = SumFunctionOnSet(RowsIn, S) + RowsIn[n]
            BY <3>2, SumAdd
        <3>4. QED
            BY <3>3 DEF S
    <2>4. QED
        BY <2>1, <2>2, <2>3
<1>6. QED
    BY <1>2, <1>3, <1>4, <1>5

LEMMA PulledInit == Init => Pulled
<1> SUFFICES ASSUME Init PROVE Pulled
    OBVIOUS
<1>1. input \in Inputs /\ next = 1 /\ total_input = 0 /\ slices = <<>> /\ pc = "construct"
    BY DEF Init
<1>2. Len(input) \in Nat
    BY <1>1, InputTyped
<1>3. 1..(next - 1) = {} /\ next \in 1..(Len(input) + 1)
    BY <1>1, <1>2
<1>4. SumFunctionOnSet(RowsIn, 1..(next - 1)) = 0
    BY <1>3, SumEmpty
<1>5. QED
    BY <1>1, <1>3, <1>4 DEF Pulled

LEMMA PulledStep == PoolInv /\ Pulled /\ [Next]_vars => Pulled'
<1> SUFFICES ASSUME PoolInv, Pulled, [Next]_vars PROVE Pulled'
    OBVIOUS
<1>1. /\ input' = input /\ input \in Inputs /\ Len(input) \in Nat /\ next \in Nat
      /\ next \in 1..(Len(input) + 1)
      /\ total_input = SumFunctionOnSet(RowsIn, 1..(next - 1))
    BY InputFixed, InputTyped DEF PoolInv, Pulled
<1>2. RowsIn' = RowsIn
    BY <1>1 DEF RowsIn
<1>3. CASE Pull
    <2>1. next <= Len(input) /\ next' = next + 1 /\ total_input' = total_input + input[next].rows
        BY <1>3 DEF Pull
    <2>2. next' \in 1..(Len(input) + 1) /\ next' - 1 = next
        BY <1>1, <2>1
    <2>3. total_input' = SumFunctionOnSet(RowsIn, 1..next)
        BY <1>1, <2>1, SumOfPulled
    <2>4. ~raising' => pc' \in {"pull", "feed"} /\ (pc' # "feed" => slices' = <<>>)
        BY <1>3 DEF Pull, Raise
    <2>5. QED
        BY <1>1, <1>2, <2>2, <2>3, <2>4 DEF Pulled
<1>4. ASSUME UNCHANGED <<next, total_input>>,
             ~raising' => /\ pc' # "feed" => slices' = <<>>
                          /\ pc' \in {"close", "join", "stop", "release", "emitted"} =>
                                next = Len(input) + 1
      PROVE  Pulled'
    BY <1>1, <1>2, <1>4 DEF Pulled
<1>5. CASE Construct
    BY <1>4, <1>5 DEF Construct, ConstructFails, Raise, Pulled, PoolInv, ToolsInv, Before
<1>6. CASE PullEnds
    <2>1. next = Len(input) + 1
        BY <1>1, <1>6 DEF PullEnds
    <2>2. UNCHANGED <<raising, next, slices, total_input>> /\ pc = "pull" /\ pc' # "feed"
        BY <1>6 DEF PullEnds, AfterInput
    <2>3. QED
        BY <1>4, <2>1, <2>2 DEF Pulled
<1>7. CASE Submit \/ ShipSerially
    <2>1. /\ UNCHANGED <<raising, next, total_input>> /\ pc' \in {"pull", "feed"}
          /\ pc' # "feed" => slices' = <<>>
        BY <1>7 DEF Submit, ShipSerially, Advance
    <2>2. QED
        BY <1>4, <2>1
<1>8. ASSUME UNCHANGED <<raising, next, slices, total_input>>,
             pc' = pc \/ /\ pc \in {"close", "join", "stop", "release"}
                         /\ pc' \in {"join", "stop", "release", "emitted", "failed"}
      PROVE  Pulled'
    BY <1>4, <1>8 DEF Pulled
<1>9. CASE Drain
    <2>1. UNCHANGED <<next, slices, total_input>>
        BY <1>9 DEF Drain
    <2>2. raising' \/ UNCHANGED <<pc, raising>>
        BY <1>9 DEF Drain, Raise
    <2>3. QED
        BY <1>4, <1>8, <2>1, <2>2
<1>10. CASE CloseEnds \/ Join \/ StopProbe \/ CloseClient
    BY <1>8, <1>10 DEF CloseEnds, Join, StopProbe, CloseClient, Leave, Ending
<1>11. CASE PullFails \/ ShipSeriallyFails
    BY <1>4, <1>11 DEF PullFails, ShipSeriallyFails, Raise
<1>12. CASE Worker \/ UNCHANGED vars
    BY <1>8, <1>12 DEF Worker, WorkerStarts, WorkerReturns, WorkerCrashes, producer, vars
<1>13. QED
    BY <1>3, <1>5, <1>6, <1>7, <1>9, <1>10, <1>11, <1>12 DEF Next, Producer

-----------------------------------------------------------------------------
(* Rows are conserved, and where none is missing none was missed            *)

Flow == Accounted(counts) + RowsOf(pending) + RowsOf(Range(slices))

CoveredBy(n, S) ==
    \A b \in 1..(n - 1) : \A i \in 1..input[b].rows : \E c \in S : c.batch = b /\ Spans(c, i)

(* The chunks that have landed, and those that still may *)
Known == landed \cup pending \cup Range(slices)

Covered ==
    (~raising /\ counts.errors = 0 /\ Flow = total_input) => CoveredBy(next, Known)

FlowInv == PoolInv /\ Shape /\ Pulled

LEMMA FlowTyped ==
    ASSUME FlowInv
    PROVE  /\ counts \in Count /\ counts.errors \in Nat /\ Accounted(counts) \in Nat
           /\ IsFiniteSet(pending) /\ RowsTyped(pending) /\ RowsOf(pending) \in Nat
           /\ IsFiniteSet(Range(slices)) /\ RowsTyped(Range(slices))
           /\ RowsOf(Range(slices)) \in Nat
           /\ total_input \in Nat /\ malformed \in BOOLEAN /\ cfg.chunk_size \in Int
<1>1. counts \in Count /\ counts.errors \in Nat /\ Accounted(counts) \in Nat
    BY AddCountAdds DEF FlowInv, Shape, Counted
<1>2. IsFiniteSet(pending) /\ IsFiniteSet(Range(slices))
    BY RangeFinite DEF FlowInv, PoolInv, Window, Fresh
<1>3. RowsTyped(pending) /\ RowsTyped(Range(slices))
    BY DEF FlowInv, Shape, Piece, Chunk, RowsTyped
<1>4. RowsOf(pending) \in Nat /\ RowsOf(Range(slices)) \in Nat
    BY <1>2, <1>3, RowsNat
<1>5. total_input \in Nat
    BY SumOfPulled DEF FlowInv, PoolInv, Pulled
<1>6. QED
    BY <1>1, <1>2, <1>3, <1>4, <1>5, ConfigTyped DEF FlowInv, Shape, PoolInv, ToolsInv

LEMMA FlowInit == Init => RowsConserved /\ Covered
<1> SUFFICES ASSUME Init PROVE RowsConserved /\ Covered
    OBVIOUS
<1>1. Accounted(counts) = 0 /\ total_input = 0 /\ 1..(next - 1) = {}
    BY DEF Init, Accounted, NoCount
<1>2. RowsOf(pending) = 0 /\ RowsOf(Range(slices)) = 0
    <2>1. pending = {} /\ slices = <<>>
        BY DEF Init
    <2>2. Range(slices) = {}
        BY <2>1 DEF Range
    <2>3. QED
        BY <2>1, <2>2, RowsEmpty
<1>3. QED
    BY <1>1, <1>2 DEF RowsConserved, Covered, CoveredBy

LEMMA FlowNat == FlowInv => Flow \in Nat
BY FlowTyped DEF Flow

LEMMA FlowNatNext == FlowInv' => (Flow \in Nat)'
BY FlowNat, PTL

(* A step that adds t rows to what was pulled: what it does to the sum, and *)
(* to what is covered if the sum keeps up.                                  *)
LEMMA FlowCarries ==
    ASSUME FlowInv, FlowInv', RowsConserved, Covered, UNCHANGED fixed,
           NEW t \in Nat, total_input' = total_input + t,
           ~raising' => /\ ~raising /\ Flow' <= Flow + t
                        /\ ~malformed /\ cfg.chunk_size >= 0 => Flow' = Flow + t
                        /\ (counts'.errors = 0 /\ Flow' = Flow + t) =>
                              /\ counts.errors = 0
                              /\ CoveredBy(next, Known) => CoveredBy(next, Known)'
    PROVE  RowsConserved' /\ Covered'
<1> SUFFICES ASSUME ~raising' PROVE RowsConserved' /\ Covered'
    BY DEF RowsConserved, Covered
<1>1. Flow \in Nat /\ Flow' \in Nat /\ total_input \in Nat
    BY FlowNat, FlowNatNext, FlowTyped
<1>2. malformed' = malformed /\ cfg' = cfg
    BY DEF fixed
<1>3. ~raising /\ Flow <= total_input /\ (~malformed /\ cfg.chunk_size >= 0 => Flow = total_input)
    BY DEF RowsConserved, Flow
<1>4. Flow' <= total_input' /\ (~malformed /\ cfg.chunk_size >= 0 => Flow' = total_input')
    BY <1>1, <1>3
<1>5. RowsConserved'
    BY <1>2, <1>4 DEF RowsConserved, Flow
<1>6. Flow' = total_input' => Flow = total_input /\ Flow' = Flow + t
    BY <1>1, <1>3
<1>7. Covered'
    BY <1>3, <1>6 DEF Covered
<1>8. QED
    BY <1>5, <1>7

(* A covered input stays covered by more chunks. *)
LEMMA CoveredMore ==
    ASSUME UNCHANGED <<next, input>>, Known \subseteq Known'
    PROVE  CoveredBy(next, Known) => CoveredBy(next, Known)'
BY DEF CoveredBy, Spans

LEMMA PullKeepsFlow ==
    ASSUME FlowInv, FlowInv', RowsConserved, Covered, Pull
    PROVE  RowsConserved' /\ Covered'
<1> DEFINE n == input[next].rows
<1>1. /\ UNCHANGED fixed /\ UNCHANGED <<counts, pending, landed>>
      /\ total_input' = total_input + n /\ next' = next + 1 /\ next \in Nat \ {0}
    BY DEF Pull, totals, history, FlowInv, PoolInv, Fresh
<1>2. n \in Nat
    <2>1. next \in DOMAIN input /\ input \in Inputs
        BY InputTyped DEF Pull, FlowInv, PoolInv, Fresh
    <2>2. QED
        BY <2>1, InputTyped
<1>3. ~raising /\ slices = <<>> /\ Range(slices) = {}
    <2>1. ~raising /\ slices = <<>>
        BY DEF Pull, FlowInv, Pulled, PoolInv, ToolsInv, Inside
    <2>2. QED
        BY <2>1 DEF Range
<1> HIDE DEF n
<1>4. ASSUME ~raising'
      PROVE  /\ Flow' <= Flow + n
             /\ cfg.chunk_size >= 0 => Flow' = Flow + n
             /\ Flow' = Flow + n /\ CoveredBy(next, Known) => CoveredBy(next, Known)'
    <2> DEFINE R == RowsOf(Range(slices'))
               A == Accounted(counts)
               P == RowsOf(pending)
    <2>1. /\ \A c \in Range(slices') : c.batch = next
          /\ cfg.chunk_size < 0 => Range(slices') = {}
          /\ cfg.chunk_size >= 0 =>
                /\ R = n
                /\ \A i \in 1..n : \E c \in Range(slices') : Spans(c, i)
        BY <1>4, CutPieces DEF FlowInv, n
    <2>2. A \in Nat /\ P \in Nat /\ cfg.chunk_size \in Int
        BY FlowTyped
    <2>3. Flow = A + P + 0
        BY <1>3, RowsEmpty DEF Flow
    <2>4. Flow' = A + P + R
        <3>1. RowsOf(Range(slices))' = RowsOf(Range(slices'))
            BY DEF RowsOf, Range
        <3>2. Accounted(counts)' = Accounted(counts) /\ RowsOf(pending)' = RowsOf(pending)
            BY <1>1 DEF Accounted, RowsOf
        <3>3. QED
            BY <3>1, <3>2 DEF Flow
    <2>5. cfg.chunk_size < 0 => R = 0
        BY <2>1, RowsEmpty
    <2> HIDE DEF R, A, P
    <2>6. cfg.chunk_size < 0 \/ cfg.chunk_size >= 0
        BY <2>2
    <2>7. Flow' <= Flow + n /\ (cfg.chunk_size >= 0 => Flow' = Flow + n)
        BY <1>2, <2>1, <2>2, <2>3, <2>4, <2>5, <2>6
    <2>8. ASSUME Flow' = Flow + n, CoveredBy(next, Known), NEW b \in 1..(next' - 1),
                 NEW i \in 1..input[b].rows
          PROVE  \E c \in Known' : c.batch = b /\ Spans(c, i)
        <3>1. Known' = landed \cup pending \cup Range(slices')
            BY <1>1 DEF Known, Range
        <3>2. CASE b = next
            <4>1. i \in 1..n
                BY <3>2 DEF n
            <4>2. cfg.chunk_size >= 0
                BY <1>2, <2>2, <2>3, <2>4, <2>5, <2>6, <2>8, <4>1
            <4>3. PICK c \in Range(slices') : Spans(c, i)
                BY <2>1, <4>1, <4>2
            <4>4. QED
                BY <2>1, <3>1, <3>2, <4>3
        <3>3. CASE b # next
            <4>1. b \in 1..(next - 1)
                BY <1>1, <3>3
            <4>2. PICK c \in Known : c.batch = b /\ Spans(c, i)
                BY <2>8, <4>1 DEF CoveredBy
            <4>3. c \in Known'
                BY <1>3, <3>1, <4>2 DEF Known
            <4>4. QED
                BY <4>2, <4>3
        <3>4. QED
            BY <3>2, <3>3
    <2>9. Flow' = Flow + n /\ CoveredBy(next, Known) => CoveredBy(next, Known)'
        <3>1. input' = input
            BY <1>1 DEF fixed
        <3>2. QED
            BY <2>8, <3>1 DEF CoveredBy, Spans
    <2>10. QED
        BY <2>7, <2>9
<1>5. counts' = counts
    BY <1>1
<1>6. QED
    BY <1>1, <1>2, <1>3, <1>4, <1>5, FlowCarries

LEMMA SubmitKeepsFlow ==
    ASSUME FlowInv, FlowInv', RowsConserved, Covered, Submit
    PROVE  RowsConserved' /\ Covered'
<1> DEFINE h == Head(slices)
<1>1. slices # <<>>
    BY DEF Submit, FlowInv, PoolInv, Fresh
<1>2. /\ h \notin pending /\ h.rows \in Nat
      /\ Range(slices) = Range(Tail(slices)) \cup {h} /\ h \notin Range(Tail(slices))
      /\ Tail(slices) \in Seq(Slice)
    BY <1>1, HeadPiece DEF FlowInv
<1>3. /\ pending' = pending \cup {h} /\ slices' = Tail(slices)
      /\ UNCHANGED <<fixed, raising, next, total_input, counts, landed>>
    BY DEF Submit, Advance, totals
<1> HIDE DEF h
<1> DEFINE T == Range(Tail(slices))
<1>4. IsFiniteSet(pending) /\ RowsTyped(pending) /\ IsFiniteSet(T) /\ RowsTyped(T)
    <2>1. IsFiniteSet(T)
        BY <1>2, RangeFinite
    <2>2. RowsTyped(Range(slices)) /\ T \subseteq Range(slices)
        BY <1>2, FlowTyped
    <2>3. QED
        BY <2>1, <2>2, FlowTyped DEF RowsTyped
<1>5. Range(slices)' = T
    BY <1>3 DEF Range
<1>6. RowsOf(Range(slices)) = RowsOf(T) + h.rows
    <2> HIDE DEF T
    <2>1. RowsOf(T \cup {h}) = RowsOf(T) + h.rows
        BY <1>2, <1>4, RowsAdd DEF T
    <2>2. QED
        BY <1>2, <2>1 DEF T
<1>7. RowsOf(pending \cup {h}) = RowsOf(pending) + h.rows
    BY <1>2, <1>4, RowsAdd
<1>8. RowsOf(T) \in Nat /\ RowsOf(pending) \in Nat /\ Accounted(counts) \in Nat
    BY <1>4, RowsNat, FlowTyped
<1>9. Flow' = Accounted(counts) + RowsOf(pending \cup {h}) + RowsOf(T)
    <2>1. RowsOf(Range(slices))' = RowsOf(T) /\ RowsOf(pending)' = RowsOf(pending \cup {h})
        BY <1>3, <1>5 DEF RowsOf
    <2>2. Accounted(counts)' = Accounted(counts)
        BY <1>3 DEF Accounted
    <2>3. QED
        BY <2>1, <2>2 DEF Flow
<1>10. Known' = Known
    BY <1>2, <1>3, <1>5 DEF Known
<1> HIDE DEF T
<1>11. Flow' = Flow /\ Flow \in Nat /\ total_input \in Nat
    BY <1>2, <1>6, <1>7, <1>8, <1>9, FlowNat, FlowTyped DEF Flow
<1>12. CoveredBy(next, Known) => CoveredBy(next, Known)'
    BY <1>3, <1>10, CoveredMore DEF fixed
<1>13. Flow' = Flow + 0 /\ total_input' = total_input + 0 /\ raising' = raising /\ counts' = counts
    BY <1>3, <1>11
<1>14. QED
    BY <1>3, <1>11, <1>12, <1>13, FlowCarries

LEMMA DrainKeepsFlow ==
    ASSUME FlowInv, FlowInv', RowsConserved, Covered, Drain
    PROVE  RowsConserved' /\ Covered'
<1> DEFINE D == pending \cap DOMAIN results
           c == SumCounts([d \in D |-> results[d].counts])
           A == Accounted(counts)
           R == RowsOf(Range(slices))
<1>1. /\ UNCHANGED <<fixed, next, slices, total_input, landed>>
      /\ pending' = pending \ D
    BY DEF Drain, Take, history
<1>2. A \in Nat /\ R \in Nat /\ total_input \in Nat /\ Flow \in Nat /\ total_input' = total_input + 0
    BY <1>1, FlowTyped, FlowNat
<1>3. ASSUME ~raising'
      PROVE  /\ ~raising /\ Flow' <= Flow /\ (~malformed => Flow' = Flow)
             /\ (counts'.errors = 0 /\ Flow' = Flow) =>
                   counts.errors = 0 /\ (CoveredBy(next, Known) => CoveredBy(next, Known)')
    <2>1. ~Crashed(D) /\ raising' = raising /\ counts' = AddCount(counts, c)
        BY <1>3 DEF Drain, Raise, Merge
    <2>2. /\ c \in Count /\ Accounted(c) <= RowsOf(D)
          /\ ~malformed => Accounted(c) = RowsOf(D)
          /\ (c.errors = 0 /\ Accounted(c) = RowsOf(D)) => D \subseteq landed
        BY <2>1, MergedCounts DEF FlowInv
    <2> HIDE DEF c
    <2>3. /\ Accounted(counts') = A + Accounted(c) /\ counts'.errors = counts.errors + c.errors
          /\ counts.errors \in Nat /\ c.errors \in Nat /\ Accounted(c) \in Nat
        BY <2>1, <2>2, FlowTyped, AddCountAdds
    <2>4. RowsOf(pending) = RowsOf(pending \ D) + RowsOf(D)
        <3>1. D \in SUBSET pending
            OBVIOUS
        <3> HIDE DEF D
        <3>2. QED
            BY <3>1, FlowTyped, RowsParts
    <2>5. RowsOf(D) \in Nat /\ RowsOf(pending \ D) \in Nat
        <3>1. D \in SUBSET pending /\ pending \ D \in SUBSET pending
            OBVIOUS
        <3> HIDE DEF D
        <3>2. /\ IsFiniteSet(D) /\ RowsTyped(D)
              /\ IsFiniteSet(pending \ D) /\ RowsTyped(pending \ D)
            BY <3>1, FlowTyped, FS_Subset DEF RowsTyped
        <3>3. QED
            BY <3>2, RowsNat
    <2>6. Flow' = (A + Accounted(c)) + RowsOf(pending \ D) + R
        <3>1. RowsOf(Range(slices))' = R /\ RowsOf(pending)' = RowsOf(pending \ D)
            BY <1>1 DEF RowsOf, Range
        <3>2. Accounted(counts)' = A + Accounted(c)
            BY <2>3
        <3>3. QED
            BY <3>1, <3>2 DEF Flow
    <2>7. Flow = A + RowsOf(pending) + R
        BY DEF Flow
    <2>8. Known' = landed \cup (pending \ D) \cup Range(slices)
        BY <1>1 DEF Known, Range
    <2> HIDE DEF D, A, R
    <2>9. Flow' <= Flow /\ (~malformed => Flow' = Flow)
        BY <1>2, <2>2, <2>3, <2>4, <2>5, <2>6, <2>7
    <2>10. ASSUME counts'.errors = 0, Flow' = Flow
           PROVE  counts.errors = 0 /\ (CoveredBy(next, Known) => CoveredBy(next, Known)')
        <3>1. counts.errors = 0 /\ c.errors = 0
            BY <2>3, <2>10
        <3>2. Accounted(c) = RowsOf(D)
            BY <1>2, <2>3, <2>4, <2>5, <2>6, <2>7, <2>10
        <3>3. Known \subseteq Known'
            BY <2>2, <2>8, <3>1, <3>2 DEF Known
        <3>4. QED
            BY <1>1, <3>1, <3>3, CoveredMore DEF fixed
    <2>11. QED
        BY <1>3, <2>1, <2>9, <2>10
<1>4. Flow + 0 = Flow
    BY <1>2
<1>5. UNCHANGED fixed /\ total_input' = total_input + 0
    BY <1>1, <1>2
<1>6. ~raising' => /\ ~raising /\ Flow' <= Flow + 0
                   /\ ~malformed /\ cfg.chunk_size >= 0 => Flow' = Flow + 0
                   /\ (counts'.errors = 0 /\ Flow' = Flow + 0) =>
                          /\ counts.errors = 0
                          /\ CoveredBy(next, Known) => CoveredBy(next, Known)'
    BY <1>3, <1>4
<1>7. QED
    BY <1>5, <1>6, FlowCarries

LEMMA ShipSeriallyKeepsFlow ==
    ASSUME FlowInv, FlowInv', RowsConserved, Covered, ShipSerially
    PROVE  RowsConserved' /\ Covered'
<1> DEFINE h == Head(slices)
           T == Range(Tail(slices))
           A == Accounted(counts)
           P == RowsOf(pending)
<1>1. slices # <<>>
    BY DEF ShipSerially, FlowInv, PoolInv, Fresh
<1>2. /\ h.rows \in Nat /\ Range(slices) = T \cup {h} /\ h \notin T
      /\ Tail(slices) \in Seq(Slice)
    BY <1>1, HeadPiece DEF FlowInv
<1>3. PICK r \in Reports(h.rows, SampleCap, malformed) :
          /\ counts' = AddCount(counts, r.counts)
          /\ landed' = landed \cup {c \in {h} : Clean(r, c.rows)}
    BY DEF ShipSerially
<1>4. /\ slices' = Tail(slices)
      /\ UNCHANGED <<fixed, raising, next, total_input, pending>>
    BY DEF ShipSerially, Advance
<1> HIDE DEF h
<1>5. /\ r.counts \in Count /\ Accounted(r.counts) \in Nat /\ Accounted(r.counts) <= h.rows
      /\ ~malformed => Accounted(r.counts) = h.rows
    BY <1>2, ReportAdds
<1>6. /\ Accounted(counts') = A + Accounted(r.counts)
      /\ counts'.errors = counts.errors + r.counts.errors
      /\ counts.errors \in Nat /\ r.counts.errors \in Nat
    BY <1>3, <1>5, FlowTyped, AddCountAdds
<1>7. IsFiniteSet(T) /\ RowsTyped(T)
    <2>1. IsFiniteSet(T)
        BY <1>2, RangeFinite
    <2>2. RowsTyped(Range(slices)) /\ T \subseteq Range(slices)
        BY <1>2, FlowTyped
    <2>3. QED
        BY <2>1, <2>2 DEF RowsTyped
<1>8. RowsOf(Range(slices)) = RowsOf(T) + h.rows
    <2> HIDE DEF T
    <2>1. RowsOf(T \cup {h}) = RowsOf(T) + h.rows
        BY <1>2, <1>7, RowsAdd
    <2>2. QED
        BY <1>2, <2>1
<1>9. Range(slices)' = T
    BY <1>4 DEF Range
<1>10. RowsOf(T) \in Nat /\ P \in Nat /\ A \in Nat /\ Flow \in Nat /\ total_input \in Nat
    BY <1>7, RowsNat, FlowTyped, FlowNat
<1>11. Flow' = (A + Accounted(r.counts)) + P + RowsOf(T)
    <2>1. RowsOf(Range(slices))' = RowsOf(T) /\ RowsOf(pending)' = P
        BY <1>4, <1>9 DEF RowsOf
    <2>2. QED
        BY <1>6, <2>1 DEF Flow
<1>12. Flow = A + P + (RowsOf(T) + h.rows)
    BY <1>8 DEF Flow
<1>13. (r.counts.errors = 0 /\ Accounted(r.counts) = h.rows) => Known \subseteq Known'
    BY <1>2, <1>3, <1>4, <1>9 DEF Known, Clean
<1> HIDE DEF T, A, P
<1>14. Flow' <= Flow /\ (~malformed => Flow' = Flow)
    BY <1>2, <1>5, <1>10, <1>11, <1>12
<1>15. ASSUME counts'.errors = 0, Flow' = Flow
       PROVE  counts.errors = 0 /\ (CoveredBy(next, Known) => CoveredBy(next, Known)')
    <2>1. counts.errors = 0 /\ r.counts.errors = 0
        BY <1>6, <1>15
    <2>2. Accounted(r.counts) = h.rows
        BY <1>2, <1>5, <1>10, <1>11, <1>12, <1>15
    <2>3. QED
        BY <1>4, <1>13, <2>1, <2>2, CoveredMore DEF fixed
<1>16. Flow + 0 = Flow /\ total_input' = total_input + 0 /\ raising' = raising
    BY <1>4, <1>10
<1>17. ~raising' => /\ ~raising /\ Flow' <= Flow + 0
                    /\ ~malformed /\ cfg.chunk_size >= 0 => Flow' = Flow + 0
                    /\ (counts'.errors = 0 /\ Flow' = Flow + 0) =>
                           /\ counts.errors = 0
                           /\ CoveredBy(next, Known) => CoveredBy(next, Known)'
    BY <1>14, <1>15, <1>16
<1>18. QED
    BY <1>4, <1>16, <1>17, FlowCarries

(* What only moves the producer, a worker or a resource on *)
LEMMA QuietKeepsFlow ==
    ASSUME FlowInv, FlowInv', RowsConserved, Covered,
           UNCHANGED <<fixed, counts, pending, next, total_input>>,
           landed \subseteq landed', raising' = TRUE \/ UNCHANGED <<raising, slices>>
    PROVE  RowsConserved' /\ Covered'
<1>1. total_input' = total_input + 0 /\ Flow \in Nat /\ Flow + 0 = Flow
    <2>1. total_input \in Nat /\ Flow \in Nat
        BY FlowTyped, FlowNat
    <2>2. QED
        BY <2>1
<1>2. ASSUME ~raising'
      PROVE  /\ ~raising /\ Flow' = Flow /\ counts' = counts
             /\ CoveredBy(next, Known) => CoveredBy(next, Known)'
    <2>1. UNCHANGED <<raising, slices, counts, pending>>
        BY <1>2
    <2>2. Flow' = Flow
        BY <2>1 DEF Flow, RowsOf, Range, Accounted
    <2>3. Known \subseteq Known'
        BY <2>1 DEF Known, Range
    <2>4. QED
        BY <1>2, <2>1, <2>2, <2>3, CoveredMore DEF fixed
<1>3. Flow' = Flow => Flow' <= Flow + 0
    BY <1>1
<1>4. QED
    BY <1>1, <1>2, <1>3, FlowCarries

LEMMA FlowStep ==
    ASSUME FlowInv, FlowInv', RowsConserved, Covered, [Next]_vars
    PROVE  RowsConserved' /\ Covered'
<1>1. ASSUME ~Pull, ~Submit, ~Drain, ~ShipSerially
      PROVE  /\ UNCHANGED <<fixed, counts, pending, next, total_input>>
             /\ landed \subseteq landed'
             /\ raising' = TRUE \/ UNCHANGED <<raising, slices>>
    BY <1>1 DEF Next, Producer, Worker, Construct, ConstructFails, Raise, Leave, PullFails, PullEnds,
       CloseEnds, ShipSeriallyFails, Join, StopProbe, CloseClient,
       WorkerStarts, WorkerReturns, WorkerCrashes, producer, vars, totals, history
<1>2. QED
    BY <1>1, PullKeepsFlow, SubmitKeepsFlow, DrainKeepsFlow, ShipSeriallyKeepsFlow,
       QuietKeepsFlow

ConservedInv == FlowInv /\ RowsConserved /\ Covered

LEMMA ConservedInit == Init => ConservedInv
BY PoolInit, ShapeInit, PulledInit, FlowInit DEF ConservedInv, FlowInv

LEMMA ConservedStep == ConservedInv /\ [Next]_vars => ConservedInv'
<1> SUFFICES ASSUME ConservedInv, [Next]_vars PROVE ConservedInv'
    OBVIOUS
<1>1. FlowInv'
    BY PoolStep, ShapeStep, PulledStep DEF ConservedInv, FlowInv
<1>2. QED
    BY <1>1, FlowStep DEF ConservedInv

(* Rows are conserved from the iterator to the totals, for every input,     *)
(* chunk_size and write_concurrency, in whatever order the workers finish.  *)
THEOREM RowsConservedHolds == Spec => []RowsConserved
<1>1. ConservedInv => RowsConserved
    BY DEF ConservedInv
<1>2. QED
    BY <1>1, ConservedInit, ConservedStep, PTL DEF Spec

-----------------------------------------------------------------------------
(* A clean summary                                                          *)

LEMMA EmittedIsDone ==
    ASSUME ConservedInv, pc = "emitted"
    PROVE  ~raising /\ Known = landed /\ next = Len(input) + 1 /\ Flow = Accounted(counts)
<1>1. ~raising /\ pending = {} /\ slices = <<>> /\ next = Len(input) + 1
    BY DEF ConservedInv, FlowInv, PoolInv, Ended, Outstanding, Pulled
<1>2. Range(slices) = {}
    BY <1>1 DEF Range
<1>3. Flow = Accounted(counts) + 0 + 0 /\ Accounted(counts) \in Nat
    BY <1>1, <1>2, RowsEmpty, FlowTyped DEF Flow, ConservedInv
<1>4. QED
    BY <1>1, <1>2, <1>3 DEF Known

(* A clean summary row for all rows: every row is in a chunk that landed.   *)
LEMMA CleanIsLanded == ConservedInv => CleanSummaryLanded
<1> SUFFICES ASSUME ConservedInv, pc = "emitted", counts.errors = 0,
                    Accounted(counts) = total_input,
                    NEW b \in DOMAIN input, NEW i \in 1..input[b].rows
             PROVE  \E c \in landed : c.batch = b /\ i \in c.first..(c.first + c.rows - 1)
    BY DEF CleanSummaryLanded
<1>1. ~raising /\ Known = landed /\ next = Len(input) + 1 /\ Flow = total_input
    BY EmittedIsDone
<1>2. CoveredBy(next, landed)
    BY <1>1 DEF ConservedInv, Covered
<1>3. b \in 1..(next - 1)
    <2>1. DOMAIN input = 1..Len(input) /\ Len(input) \in Nat
        BY InputTyped DEF ConservedInv, FlowInv, PoolInv
    <2>2. QED
        BY <1>1, <2>1
<1>4. QED
    BY <1>2, <1>3 DEF CoveredBy, Spans

THEOREM CleanSummaryHolds == Spec => []CleanSummaryLanded
BY CleanIsLanded, ConservedInit, ConservedStep, PTL DEF Spec

-----------------------------------------------------------------------------
(* The writer keeps its contract.                                           *)

LEMMA InputCounted ==
    ASSUME input \in Inputs
    PROVE  /\ Cardinality(InputRows) = SumFunctionOnSet(RowsIn, 1..Len(input))
           /\ Cardinality(InputRows) \in Nat
<1>1. /\ DOMAIN input = 1..Len(input) /\ Len(input) \in Nat
      /\ \A b \in DOMAIN input : input[b].rows \in Nat
    BY InputTyped
<1>2. IsFiniteSet(DOMAIN input) /\ NatOn(RowsIn, DOMAIN input)
    BY <1>1, FS_Interval DEF NatOn, RowsIn
<1>3. InputRows = Units(RowsIn, DOMAIN input)
    BY DEF InputRows, Units, RowsIn
<1>4. QED
    BY <1>1, <1>2, <1>3, SumIsUnits

LEMMA LandedInside == ASSUME Shape, input \in Inputs PROVE LandedRows \subseteq InputRows
<1> SUFFICES ASSUME NEW c \in landed, NEW i \in c.first..(c.first + c.rows - 1)
             PROVE  <<c.batch, i>> \in InputRows
    BY DEF LandedRows
<1>1. Piece(c)
    BY DEF Shape
<1>2. /\ c.batch \in DOMAIN input /\ c.first \in Nat /\ c.rows \in Nat /\ c.first >= 1
      /\ c.first + c.rows - 1 <= input[c.batch].rows /\ input[c.batch].rows \in Nat
    BY <1>1, InputTyped DEF Piece, Chunk
<1>3. i \in 1..input[c.batch].rows
    BY <1>2
<1>4. QED
    BY <1>2, <1>3 DEF InputRows

(* What is emitted is a report of all rows, and a clean one is of landed rows. *)
LEMMA EmittedReport ==
    ASSUME ConservedInv, NullInv, pc = "emitted"
    PROVE  /\ \A b \in DOMAIN input : ~input[b].null
           /\ total_input = Cardinality(InputRows)
           /\ [counts |-> counts, samples |-> samples]
                  \in Reports(total_input, SampleCap, malformed \/ cfg.chunk_size < 0)
           /\ (counts.errors = 0 /\ Accounted(counts) = total_input) => LandedRows = InputRows
<1>1. ~raising /\ Flow = Accounted(counts) /\ next = Len(input) + 1 /\ input \in Inputs
    BY EmittedIsDone DEF ConservedInv, FlowInv, PoolInv
<1>2. \A b \in DOMAIN input : ~input[b].null
    BY <1>1 DEF NullInv
<1>3. total_input = Cardinality(InputRows) /\ total_input \in Nat
    <2>1. Len(input) \in Nat /\ next - 1 = Len(input)
        BY <1>1, InputTyped
    <2>2. QED
        BY <1>1, <2>1, InputCounted DEF ConservedInv, FlowInv, Pulled
<1>4. [counts |-> counts, samples |-> samples]
          \in Reports(total_input, SampleCap, malformed \/ cfg.chunk_size < 0)
    <2>1. /\ counts \in Count /\ samples \in 0..SampleCap
          /\ (counts.errors > 0 <=> samples > 0) /\ samples <= counts.errors
          /\ malformed \in BOOLEAN /\ cfg.chunk_size \in Int
        BY FlowTyped DEF ConservedInv, FlowInv, Shape, Counted
    <2>2. /\ Accounted(counts) <= total_input
          /\ ~(malformed \/ cfg.chunk_size < 0) => Accounted(counts) = total_input
        BY <1>1, <2>1 DEF ConservedInv, RowsConserved, Flow
    <2>3. counts \in [written : 0..total_input, deleted : 0..total_input,
                      ignored : 0..total_input, errors : 0..total_input]
        BY <1>3, <2>1, <2>2 DEF Count, Accounted
    <2>4. QED
        BY <2>1, <2>2, <2>3 DEF Reports
<1>5. ASSUME counts.errors = 0, Accounted(counts) = total_input
      PROVE  LandedRows = InputRows
    <2>1. CleanSummaryLanded
        BY CleanIsLanded
    <2>2. ASSUME NEW b \in DOMAIN input, NEW i \in 1..input[b].rows
          PROVE  <<b, i>> \in LandedRows
        <3>1. PICK c \in landed : c.batch = b /\ i \in c.first..(c.first + c.rows - 1)
            BY <1>5, <2>1 DEF CleanSummaryLanded
        <3>2. QED
            BY <3>1 DEF LandedRows
    <2>3. InputRows \subseteq LandedRows
        BY <2>2 DEF InputRows
    <2>4. QED
        BY <1>1, <2>3, LandedInside DEF ConservedInv, FlowInv
<1>6. QED
    BY <1>2, <1>3, <1>4, <1>5

LEMMA ContractInit == Init => Contract!Init
<1> SUFFICES ASSUME Init PROVE Contract!Init
    OBVIOUS
<1>1. LandedRows = {} /\ Status = "writing"
    BY DEF Init, LandedRows, Status
<1>2. Summary = Contract!NoSummary
    BY DEF Init, Summary, Contract!NoSummary, NoCount, Contract!NoCount
<1>3. QED
    BY <1>1, <1>2 DEF Contract!Init

(* What the contract calls fixed is. *)
LEMMA ContractFixed ==
    ASSUME UNCHANGED fixed
    PROVE  /\ InputRows' = InputRows
           /\ (malformed \/ cfg.chunk_size < 0)' = (malformed \/ cfg.chunk_size < 0)
           /\ (\E b \in DOMAIN input : input[b].null)' = (\E b \in DOMAIN input : input[b].null)
BY DEF InputRows, fixed

(* The last step of a writer that did not raise *)
LEMMA EmitKept ==
    ASSUME ConservedInv', NullInv', UNCHANGED fixed, UNCHANGED landed,
           pc \notin {"emitted", "failed"}, pc' = "emitted"
    PROVE  Contract!Emit
<1> DEFINE r == [counts |-> counts', samples |-> samples']
           n == Cardinality(InputRows)
<1>1. (ConservedInv /\ NullInv /\ pc = "emitted" =>
          /\ \A b \in DOMAIN input : ~input[b].null
          /\ total_input = Cardinality(InputRows)
          /\ [counts |-> counts, samples |-> samples]
                 \in Reports(total_input, SampleCap, malformed \/ cfg.chunk_size < 0)
          /\ (counts.errors = 0 /\ Accounted(counts) = total_input) => LandedRows = InputRows)'
    BY EmittedReport, PTL
<1>2. InputRows' = InputRows /\ input' = input /\ malformed' = malformed /\ cfg' = cfg
      /\ LandedRows' = LandedRows
    BY ContractFixed DEF fixed, LandedRows
<1>3. /\ \A b \in DOMAIN input : ~input[b].null
      /\ total_input' = n
      /\ r \in Reports(n, SampleCap, malformed \/ cfg.chunk_size < 0)
      /\ (counts'.errors = 0 /\ Accounted(counts') = n) => LandedRows = InputRows
    BY <1>1, <1>2
<1>4. /\ Status = "writing" /\ Status' = "emitted"
      /\ Summary' = [counts |-> r.counts, samples |-> r.samples, total_input |-> n]
    BY <1>3 DEF Status, Summary
<1>5. Contract!Cardinality(InputRows) = n
    BY DEF Cardinality, Contract!Cardinality, IsFiniteSet, Contract!IsFiniteSet
<1>6. r \in Contract!Reports(n, SampleCap, malformed \/ cfg.chunk_size < 0)
    BY <1>3 DEF Reports, Contract!Reports, Accounted, Contract!Accounted
<1>7. Contract!Clean(r, n) => LandedRows = InputRows
    BY <1>3 DEF Contract!Clean, Contract!Accounted, Accounted
<1>8. /\ (malformed \/ cfg.chunk_size < 0)' = (malformed \/ cfg.chunk_size < 0)
      /\ (\E b \in DOMAIN input : input[b].null)' = (\E b \in DOMAIN input : input[b].null)
    BY ContractFixed
<1> HIDE DEF r, n
<1>9. QED
    BY <1>2, <1>3, <1>4, <1>5, <1>6, <1>7, <1>8 DEF Contract!Emit

(* A step that does not end the writer *)
LEMMA WriteKept ==
    ASSUME Shape', input' \in Inputs, UNCHANGED fixed, landed \subseteq landed',
           pc \notin {"emitted", "failed"}, pc' \notin {"emitted", "failed"}
    PROVE  Contract!Write
<1>1. (Shape /\ input \in Inputs => LandedRows \subseteq InputRows)'
    BY LandedInside, PTL
<1>2. LandedRows' \subseteq InputRows /\ LandedRows \subseteq LandedRows'
    <2>1. LandedRows' \subseteq InputRows
        BY <1>1, ContractFixed
    <2>2. LandedRows \subseteq LandedRows'
        BY DEF LandedRows
    <2>3. QED
        BY <2>1, <2>2
<1>3. Status = "writing" /\ Status' = "writing" /\ Summary' = Summary
    BY DEF Status, Summary
<1>4. QED
    BY <1>2, <1>3, ContractFixed DEF Contract!Write

LEMMA StepKept ==
    ConservedInv /\ ConservedInv' /\ NullInv' /\ [Next]_vars => [Contract!Next]_(Contract!vars)
<1> SUFFICES ASSUME ConservedInv, ConservedInv', NullInv', [Next]_vars
             PROVE  [Contract!Next]_(Contract!vars)
    OBVIOUS
<1>1. UNCHANGED fixed
    BY FixedStays
<1>2. CASE UNCHANGED vars
    <2>1. UNCHANGED <<InputRows, Status, Summary, LandedRows>>
        BY <1>2, ContractFixed, <1>1 DEF vars, Status, Summary, LandedRows, totals, history
    <2>2. QED
        BY <1>1, <2>1, ContractFixed DEF Contract!vars
<1>3. CASE Next
    <2>1. landed \subseteq landed'
        BY <1>3 DEF Next, Producer, Worker, Construct, Pull, PullFails, PullEnds, Submit, Drain,
           CloseEnds, ShipSerially, ShipSeriallyFails, Join, StopProbe, CloseClient,
           WorkerStarts, WorkerReturns, WorkerCrashes, history
    <2>2. pc \notin {"emitted", "failed"}
        <3>1. CASE Worker
            <4>1. queued \cup running # {}
                BY <3>1 DEF Worker
            <4>2. QED
                BY <4>1 DEF ConservedInv, FlowInv, PoolInv, ToolsInv, Idle, Leaving
        <3>2. CASE Producer
            BY <3>2 DEF Producer, Construct, Pull, PullFails, PullEnds, Submit, Drain,
               CloseEnds, ShipSerially, ShipSeriallyFails, Join, StopProbe, CloseClient
        <3>3. QED
            BY <1>3, <3>1, <3>2 DEF Next
    <2>3. CASE CloseClient
        <3>1. landed' = landed /\ pc' \in {"emitted", "failed"}
            BY <2>3 DEF CloseClient, Ending, history
        <3>2. CASE pc' = "emitted"
            BY <1>1, <2>2, <3>1, <3>2, EmitKept DEF Contract!Next
        <3>3. CASE pc' = "failed"
            <4>1. Status = "writing" /\ Status' = "failed" /\ Summary' = Summary
                BY <2>2, <3>3 DEF Status, Summary
            <4>2. LandedRows' = LandedRows
                BY <3>1 DEF LandedRows
            <4>3. QED
                BY <1>1, <4>1, <4>2, ContractFixed DEF Contract!Fail, Contract!Next
        <3>4. QED
            BY <3>1, <3>2, <3>3
    <2>4. CASE ~CloseClient
        <3>1. pc' \notin {"emitted", "failed"}
            BY <1>3, <2>2, <2>4 DEF Next, Producer, Worker, Construct, ConstructFails, Raise, Leave,
               Pull, PullFails, PullEnds, AfterInput, Submit, Advance, Drain,
               CloseEnds, ShipSerially, ShipSeriallyFails, Join, StopProbe,
               WorkerStarts, WorkerReturns, WorkerCrashes, producer
        <3>2. Shape' /\ input' \in Inputs
            BY DEF ConservedInv, FlowInv, PoolInv
        <3>3. QED
            BY <1>1, <2>1, <2>2, <3>1, <3>2, WriteKept DEF Contract!Next
    <2>5. QED
        BY <2>3, <2>4
<1>4. QED
    BY <1>2, <1>3

(* The writer keeps its contract with Spark and the driver: it ends once,   *)
(* and a summary row counts every row of the partition once.                *)
THEOREM ContractKept == Spec => ImplementsContract
<1>1. Init => ConservedInv /\ NullInv
    BY ConservedInit, NullInit
<1>2. ConservedInv /\ NullInv /\ [Next]_vars => (ConservedInv /\ NullInv)'
    BY ConservedStep, NullStep DEF ConservedInv, FlowInv
<1>3. QED
    BY <1>1, <1>2, ContractInit, StepKept, PTL DEF Spec, ImplementsContract, Contract!Spec

-----------------------------------------------------------------------------
(* The writer comes to an end: every step takes something off what is left  *)
(* to do, and nobody waits for what cannot come.                            *)

PoolFinite == IsFiniteSet(queued) /\ IsFiniteSet(running)

EndInv == PoolInv /\ Pulled /\ PoolFinite

RowsToCome    == SumFunctionOnSet(RowsIn, DOMAIN input) - total_input
BatchesToCome == Len(input) + 1 - next

ChunksLeft    == Len(slices)
TasksLeft     == 3 * Cardinality(queued) + 2 * Cardinality(running) + Cardinality(pending)
StagesLeft    == [construct |-> 6, pull |-> 5, feed |-> 5, close |-> 4, join |-> 3, stop |-> 2,
                  release |-> 1, emitted |-> 0, failed |-> 0][pc]

(* A row to come is at most one chunk, which is cut and submitted, started, *)
(* returned and merged.                                                     *)
WorkLeft == 5 * RowsToCome + BatchesToCome + 5 * ChunksLeft + TasksLeft + StagesLeft

Amounts ==
    /\ RowsToCome \in Nat /\ BatchesToCome \in Nat /\ ChunksLeft \in Nat
    /\ TasksLeft \in Nat /\ StagesLeft \in Nat

(* No step of the producer or of a worker, whatever its outcome, leaves as  *)
(* much to do as there was.                                                 *)
WorkDecreases == [][WorkLeft' < WorkLeft]_vars

(* The guards of the producer's actions, and of the workers'                *)
ProducerMoves ==
    \/ pc \in {"construct", "pull", "stop", "release"}
    \/ /\ pc = "feed" /\ slices # <<>>
       /\ Parallel /\ Full => pending \cap DOMAIN results # {}
    \/ pc = "close" /\ (pending = {} \/ pending \cap DOMAIN results # {})
    \/ pc = "join" /\ (pool # "none" => Joined)

WorkerMoves ==
    \/ running # {}
    \/ queued # {} /\ Cardinality(running) < cfg.write_concurrency

(* Until the partition has ended, the producer can go on, or a worker of    *)
(* whose task it waits for the end can.                                     *)
NobodyWaitsForever == pc \notin {"emitted", "failed"} => ProducerMoves \/ WorkerMoves

LEMMA NobodyStuck == PoolInv => NobodyWaitsForever
<1> SUFFICES ASSUME PoolInv, pc \notin {"emitted", "failed"}, ~ProducerMoves PROVE WorkerMoves
    BY DEF NobodyWaitsForever
<1>1. /\ pc \in {"feed", "close", "join"}
      /\ cfg.write_concurrency \in Nat /\ cfg.write_concurrency >= 1
    BY ConfigTyped DEF PoolInv, ToolsInv, Places, ProducerMoves
<1>2. ASSUME pc \in {"feed", "close"} PROVE queued \cup running # {}
    <2>1. pending # {} /\ pending \cap DOMAIN results = {}
        <3>1. CASE pc = "feed"
            <4>1. Full /\ pending \cap DOMAIN results = {}
                BY <3>1 DEF ProducerMoves, PoolInv, Fresh
            <4>2. Cardinality({}) = 0
                BY FS_EmptySet
            <4>3. QED
                BY <1>1, <4>1, <4>2 DEF Full
        <3>2. CASE pc = "close"
            BY <3>2 DEF ProducerMoves
        <3>3. QED
            BY <1>2, <3>1, <3>2
    <2>2. queued \cup running \cup DOMAIN results = pending
        BY <1>2 DEF PoolInv, ToolsInv, Inside, Outstanding
    <2>3. QED
        BY <2>1, <2>2
<1>3. ASSUME pc = "join" PROVE queued \cup running # {}
    BY <1>3 DEF ProducerMoves, Joined
<1>4. queued \cup running # {}
    BY <1>1, <1>2, <1>3
<1>5. CASE running # {}
    BY <1>5 DEF WorkerMoves
<1>6. CASE running = {}
    <2>1. Cardinality({}) = 0
        BY FS_EmptySet
    <2>2. queued # {} /\ Cardinality(running) < cfg.write_concurrency
        BY <1>1, <1>4, <1>6, <2>1
    <2>3. QED
        BY <2>2 DEF WorkerMoves
<1>7. QED
    BY <1>5, <1>6

(* feed, close and shutdown cannot deadlock, for every number of workers    *)
(* and every input: whenever the producer waits there is a task that a      *)
(* worker can start or end.                                                 *)
THEOREM NobodyWaitsForeverHolds == Spec => []NobodyWaitsForever
BY NobodyStuck, PoolInit, PoolStep, PTL DEF Spec

LEMMA FiniteInit == Init => PoolFinite
BY FS_EmptySet DEF Init, PoolFinite

LEMMA FiniteStep == PoolInv /\ PoolFinite /\ [Next]_vars => PoolFinite'
<1> SUFFICES ASSUME PoolInv, PoolFinite, [Next]_vars PROVE PoolFinite'
    OBVIOUS
<1>1. CASE Submit
    <2>1. queued' = queued \cup {Head(slices)} /\ running' = running
        BY <1>1 DEF Submit
    <2>2. QED
        BY <2>1, FS_AddElement DEF PoolFinite
<1>2. ASSUME NEW c \in queued, WorkerStarts(c) PROVE PoolFinite'
    <2>1. queued' = queued \ {c} /\ running' = running \cup {c}
        BY <1>2 DEF WorkerStarts
    <2>2. QED
        BY <2>1, FS_AddElement, FS_RemoveElement DEF PoolFinite
<1>3. ASSUME NEW c \in running, WorkerReturns(c) \/ WorkerCrashes(c) PROVE PoolFinite'
    <2>1. queued' = queued /\ running' = running \ {c}
        BY <1>3 DEF WorkerReturns, WorkerCrashes
    <2>2. QED
        BY <2>1, FS_RemoveElement DEF PoolFinite
<1>4. CASE ~Submit /\ ~Worker
    BY <1>4 DEF Next, Producer, Construct, Pull, PullFails, PullEnds, Drain, CloseEnds,
       ShipSerially, ShipSeriallyFails, Join, StopProbe, CloseClient, workers, vars, PoolFinite
<1>5. QED
    BY <1>1, <1>2, <1>3, <1>4 DEF Worker

(* A batch is cut into no more chunks than it has rows.                     *)
LEMMA SplitShort ==
    ASSUME NEW b \in Nat, NEW n \in Nat \ {0}, cfg.chunk_size \in Int, cfg.chunk_size # 0
    PROVE  Len(Split(b, n)) \in 0..n
<1> DEFINE size  == cfg.chunk_size
           count == IF size < 0 THEN 0 ELSE (n + size - 1) \div size
<1>1. count \in 0..n
    <2>1. CASE size < 0
        BY <2>1
    <2>2. CASE size > 0
        <3> DEFINE q == (n + size - 1) \div size
        <3>1. n + size - 1 \in Nat /\ size \in Nat \ {0}
            BY <2>2
        <3>2. q \in Nat /\ q * size <= n + size - 1
            BY <3>1, Quotient
        <3> HIDE DEF q
        <3>3. ASSUME n + 1 <= q PROVE FALSE
            <4>1. (n + 1) * size <= q * size /\ (n + 1) * size \in Nat /\ q * size \in Nat
                BY <3>1, <3>2, <3>3, TimesMonotone
            <4>2. 1 * n <= size * n
                BY <3>1, TimesMonotone
            <4>3. n <= n * size
                BY <3>1, <4>2
            <4>4. (n + 1) * size = n * size + size /\ n * size \in Nat
                BY <3>1, TimesMonotone
            <4>5. QED
                BY <3>1, <3>2, <4>1, <4>3, <4>4
        <3>4. q \in 0..n
            BY <3>2, <3>3
        <3>5. QED
            BY <2>2, <3>4 DEF q
    <2>3. QED
        BY <2>1, <2>2
<1> HIDE DEF count
<1>2. Split(b, n) = [k \in 1..count |->
          [batch |-> b, first |-> (k - 1) * size + 1,
           rows |-> IF n - (k - 1) * size < size THEN n - (k - 1) * size ELSE size]]
    BY DEF Split, count
<1>3. Len(Split(b, n)) = count
    BY <1>1, <1>2
<1>4. QED
    BY <1>1, <1>3

(* What WorkLeft adds up *)
LEMMA InputAmounts ==
    ASSUME EndInv
    PROVE  /\ next \in 1..(Len(input) + 1) /\ Len(input) \in Nat /\ input \in Inputs
           /\ RowsToCome \in Nat /\ total_input \in Nat
           /\ SumFunctionOnSet(RowsIn, DOMAIN input) \in Nat
<1>1. /\ Len(input) \in Nat /\ DOMAIN input = 1..Len(input) /\ next \in 1..(Len(input) + 1)
      /\ total_input = SumFunctionOnSet(RowsIn, 1..(next - 1)) /\ input \in Inputs
    BY InputTyped DEF EndInv, PoolInv, Pulled
<1> DEFINE S == 1..Len(input)
           D == 1..(next - 1)
<1>2. D \in SUBSET S /\ Len(input) + 1 \in 1..(Len(input) + 1) /\ (Len(input) + 1) - 1 = Len(input)
    BY <1>1
<1>3. IsFiniteSet(S) /\ NatOn(RowsIn, S)
    BY <1>1, <1>2, SumOfPulled
<1>4. total_input = SumFunctionOnSet(RowsIn, D) /\ DOMAIN input = S
    BY <1>1
<1> HIDE DEF S, D
<1>5. /\ SumFunctionOnSet(RowsIn, S)
             = SumFunctionOnSet(RowsIn, S \ D) + SumFunctionOnSet(RowsIn, D)
      /\ IsFiniteSet(S \ D) /\ IsFiniteSet(D) /\ NatOn(RowsIn, S \ D) /\ NatOn(RowsIn, D)
    BY <1>2, <1>3, SumParts, FS_Subset DEF NatOn
<1>6. SumFunctionOnSet(RowsIn, S \ D) \in Nat /\ SumFunctionOnSet(RowsIn, D) \in Nat
    BY <1>5, SumNat
<1>7. QED
    BY <1>1, <1>4, <1>5, <1>6 DEF RowsToCome

LEMMA PoolAmounts ==
    ASSUME EndInv
    PROVE  /\ Cardinality(queued) \in Nat /\ Cardinality(running) \in Nat
           /\ Cardinality(pending) \in Nat
           /\ IsFiniteSet(queued) /\ IsFiniteSet(running) /\ IsFiniteSet(pending)
BY FS_CardinalityType DEF EndInv, PoolFinite, PoolInv, Window

LEMMA AmountsTyped == EndInv => Amounts
<1> SUFFICES ASSUME EndInv PROVE Amounts
    OBVIOUS
<1>1. RowsToCome \in Nat /\ BatchesToCome \in Nat
    BY InputAmounts DEF BatchesToCome
<1>2. TasksLeft \in Nat
    BY PoolAmounts DEF TasksLeft
<1>3. ChunksLeft \in Nat
    BY DEF EndInv, PoolInv, Fresh, ChunksLeft
<1>4. StagesLeft \in Nat
    BY DEF EndInv, PoolInv, ToolsInv, Places, StagesLeft
<1>5. QED
    BY <1>1, <1>2, <1>3, <1>4 DEF Amounts

(* Less is left to do when some of the five amounts are less and none is    *)
(* more, when rows turn into no more chunks, and when a chunk becomes a task. *)
LEMMA LessWork ==
    ASSUME Amounts, Amounts', StagesLeft' <= StagesLeft,
           \/ /\ RowsToCome' = RowsToCome /\ BatchesToCome' = BatchesToCome
              /\ ChunksLeft' = ChunksLeft /\ TasksLeft' <= TasksLeft
              /\ TasksLeft' < TasksLeft \/ StagesLeft' < StagesLeft
           \/ /\ RowsToCome' + ChunksLeft' <= RowsToCome + ChunksLeft
              /\ BatchesToCome' < BatchesToCome /\ TasksLeft' = TasksLeft
           \/ /\ RowsToCome' = RowsToCome /\ BatchesToCome' = BatchesToCome
              /\ ChunksLeft' = ChunksLeft - 1 /\ TasksLeft' <= TasksLeft + 4
    PROVE  WorkLeft' < WorkLeft
<1> DEFINE a == RowsToCome    a1 == RowsToCome'
           b == BatchesToCome b1 == BatchesToCome'
           c == ChunksLeft    c1 == ChunksLeft'
           d == TasksLeft     d1 == TasksLeft'
           e == StagesLeft    e1 == StagesLeft'
<1>1. /\ a \in Nat /\ b \in Nat /\ c \in Nat /\ d \in Nat /\ e \in Nat
      /\ a1 \in Nat /\ b1 \in Nat /\ c1 \in Nat /\ d1 \in Nat /\ e1 \in Nat
    BY DEF Amounts
<1>2. WorkLeft = 5 * a + b + 5 * c + d + e /\ WorkLeft' = 5 * a1 + b1 + 5 * c1 + d1 + e1
    BY DEF WorkLeft
<1>3. /\ e1 <= e
      /\ \/ a1 = a /\ b1 = b /\ c1 = c /\ d1 <= d /\ (d1 < d \/ e1 < e)
         \/ a1 + c1 <= a + c /\ b1 < b /\ d1 = d
         \/ a1 = a /\ b1 = b /\ c1 = c - 1 /\ d1 <= d + 4
    OBVIOUS
<1> HIDE DEF a, b, c, d, e, a1, b1, c1, d1, e1
<1>4. 5 * a1 + b1 + 5 * c1 + d1 + e1 < 5 * a + b + 5 * c + d + e
    BY <1>1, <1>3
<1>5. QED
    BY <1>2, <1>4

LEMMA OneMore ==
    ASSUME NEW S, IsFiniteSet(S), NEW x
    PROVE  Cardinality(S \cup {x}) \in Nat /\ Cardinality(S \cup {x}) <= Cardinality(S) + 1
<1>1. Cardinality(S) \in Nat
    BY FS_CardinalityType
<1>2. Cardinality(S \cup {x}) \in {Cardinality(S), Cardinality(S) + 1}
    BY FS_AddElement
<1>3. QED
    BY <1>1, <1>2

LEMMA StepWorks == EndInv /\ EndInv' /\ Next => WorkLeft' < WorkLeft
<1> SUFFICES ASSUME EndInv, EndInv', Next PROVE WorkLeft' < WorkLeft
    OBVIOUS
<1>0. Amounts /\ Amounts'
    <2>1. EndInv' => Amounts'
        BY AmountsTyped, PTL
    <2>2. QED
        BY <2>1, AmountsTyped
<1>00. input' = input /\ RowsIn' = RowsIn /\ PoolInv /\ Pulled
    BY InputFixed DEF EndInv, RowsIn
<1>1. ASSUME UNCHANGED <<next, total_input, slices, queued, running, pending>>,
             StagesLeft' < StagesLeft
      PROVE  WorkLeft' < WorkLeft
    <2>1. /\ RowsToCome' = RowsToCome /\ BatchesToCome' = BatchesToCome
          /\ ChunksLeft' = ChunksLeft /\ TasksLeft' = TasksLeft
        BY <1>1, <1>00 DEF RowsToCome, BatchesToCome, ChunksLeft, TasksLeft
    <2>2. QED
        BY <1>0, <1>1, <2>1, LessWork DEF Amounts
<1>2. CASE Construct \/ PullFails \/ PullEnds \/ CloseEnds \/ ShipSeriallyFails
           \/ Join \/ StopProbe \/ CloseClient
    <2>1. UNCHANGED <<next, total_input, slices, queued, running, pending>>
        BY <1>2 DEF Construct, PullFails, PullEnds, CloseEnds, ShipSeriallyFails, Join, StopProbe,
           CloseClient, workers
    <2>2. StagesLeft' < StagesLeft
        BY <1>2 DEF Construct, PullFails, PullEnds, CloseEnds, ShipSeriallyFails, Join, StopProbe,
           CloseClient, ConstructFails, Raise, Leave, AfterInput, Ending, StagesLeft
    <2>3. QED
        BY <1>1, <2>1, <2>2
<1>3. CASE Pull
    <2> DEFINE n == input[next].rows
    <2>1. /\ pc = "pull" /\ next <= Len(input) /\ next' = next + 1
          /\ total_input' = total_input + n /\ UNCHANGED <<queued, running, pending>>
        BY <1>3 DEF Pull, workers
    <2>2. next \in DOMAIN input /\ n \in Nat /\ next \in Nat \ {0}
        BY <2>1, <1>00, InputAmounts, InputTyped
    <2>3. /\ TasksLeft' = TasksLeft /\ BatchesToCome' = BatchesToCome - 1
        BY <1>00, <2>1, InputAmounts DEF TasksLeft, BatchesToCome
    <2>4. RowsToCome' = RowsToCome - n
        <3>1. /\ RowsToCome = SumFunctionOnSet(RowsIn, DOMAIN input) - total_input
              /\ RowsToCome' = SumFunctionOnSet(RowsIn, DOMAIN input) - (total_input + n)
            BY <1>00, <2>1 DEF RowsToCome
        <3> HIDE DEF n
        <3>2. QED
            BY <2>2, <3>1, InputAmounts
    <2>5. StagesLeft' <= StagesLeft
        BY <1>3 DEF Pull, Raise, StagesLeft
    <2>6. ChunksLeft' <= ChunksLeft + n
        <3>1. CASE raising'
            <4>1. slices' = slices
                <5>1. ~raising
                    BY <2>1, <1>00 DEF PoolInv, ToolsInv, Inside
                <5>2. QED
                    BY <1>3, <3>1, <5>1 DEF Pull
            <4>2. QED
                BY <1>0, <2>2, <4>1 DEF Amounts, ChunksLeft
        <3>2. CASE ~raising'
            <4>1. ~Unshippable(input[next]) /\ slices' = IF n = 0 THEN <<>> ELSE Split(next, n)
                BY <1>3, <3>2 DEF Pull, Raise
            <4>2. CASE n = 0
                <5>1. Len(slices') = 0
                    BY <4>1, <4>2
                <5>2. QED
                    BY <1>0, <4>2, <5>1 DEF Amounts, ChunksLeft
            <4>3. CASE n # 0
                <5>1. cfg.chunk_size \in Int /\ cfg.chunk_size # 0
                    BY <1>00, <2>2, <4>1, <4>3, ConfigTyped DEF Unshippable, PoolInv, ToolsInv
                <5>2. slices' = Split(next, n) /\ n \in Nat \ {0} /\ next \in Nat
                    BY <2>2, <4>1, <4>3
                <5> HIDE DEF n
                <5>3. Len(slices') \in 0..n
                    BY <5>1, <5>2, SplitShort
                <5>4. QED
                    BY <1>0, <2>2, <5>3 DEF Amounts, ChunksLeft
            <4>4. QED
                BY <4>2, <4>3
        <3>3. QED
            BY <3>1, <3>2
    <2> HIDE DEF n
    <2>7. RowsToCome' + ChunksLeft' <= RowsToCome + ChunksLeft
        <3>1. \A r, r1, k, k1, m \in Int : r1 = r - m /\ k1 <= k + m => r1 + k1 <= r + k
            OBVIOUS
        <3>2. /\ RowsToCome \in Int /\ RowsToCome' \in Int /\ n \in Int
              /\ ChunksLeft \in Int /\ ChunksLeft' \in Int
            BY <1>0, <2>2 DEF Amounts
        <3>3. QED
            BY <2>4, <2>6, <3>1, <3>2
    <2>8. BatchesToCome' < BatchesToCome
        BY <1>0, <2>3 DEF Amounts
    <2>9. QED
        BY <1>0, <2>3, <2>5, <2>7, <2>8, LessWork
<1>4. CASE Submit \/ ShipSerially
    <2>1. /\ pc = "feed" /\ slices' = Tail(slices) /\ pc' \in {"pull", "feed"}
          /\ UNCHANGED <<next, total_input, running>>
        BY <1>4 DEF Submit, ShipSerially, Advance, workers
    <2>2. slices \in Seq(Slice) /\ slices # <<>>
        BY <2>1, <1>00 DEF PoolInv, Fresh
    <2>3. Len(Tail(slices)) = Len(slices) - 1
        BY <2>2
    <2>4. /\ RowsToCome' = RowsToCome /\ BatchesToCome' = BatchesToCome
          /\ ChunksLeft' = ChunksLeft - 1 /\ StagesLeft' <= StagesLeft
        BY <1>00, <2>1, <2>3 DEF RowsToCome, BatchesToCome, ChunksLeft, StagesLeft
    <2>5. TasksLeft' <= TasksLeft + 4
        <3>1. CASE ShipSerially
            <4>1. TasksLeft' = TasksLeft
                BY <3>1 DEF ShipSerially, workers, TasksLeft
            <4>2. QED
                BY <1>0, <4>1 DEF Amounts
        <3>2. CASE Submit
            <4> DEFINE c == Head(slices)
            <4>1. queued' = queued \cup {c} /\ pending' = pending \cup {c} /\ running' = running
                BY <3>2 DEF Submit
            <4> HIDE DEF c
            <4>2. /\ Cardinality(queued') \in Nat /\ Cardinality(queued') <= Cardinality(queued) + 1
                  /\ Cardinality(pending') \in Nat
                  /\ Cardinality(pending') <= Cardinality(pending) + 1
                BY <4>1, OneMore, PoolAmounts
            <4>3. QED
                BY <4>1, <4>2, PoolAmounts DEF TasksLeft
        <3>3. QED
            BY <1>4, <3>1, <3>2
    <2>6. QED
        BY <1>0, <2>4, <2>5, LessWork
<1>5. ASSUME UNCHANGED <<next, total_input, slices>>, StagesLeft' <= StagesLeft,
             TasksLeft' < TasksLeft
      PROVE  WorkLeft' < WorkLeft
    <2>1. /\ RowsToCome' = RowsToCome /\ BatchesToCome' = BatchesToCome
          /\ ChunksLeft' = ChunksLeft
        BY <1>5, <1>00 DEF RowsToCome, BatchesToCome, ChunksLeft
    <2>2. QED
        BY <1>0, <1>5, <2>1, LessWork DEF Amounts
<1>6. CASE Drain
    <2>1. /\ pending \cap DOMAIN results # {} /\ pending' = pending \ (pending \cap DOMAIN results)
          /\ UNCHANGED <<next, total_input, slices, queued, running>>
        BY <1>6 DEF Drain, Take
    <2>2. StagesLeft' <= StagesLeft
        BY <1>6 DEF Drain, Raise, StagesLeft
    <2>3. Cardinality(pending') < Cardinality(pending) /\ Cardinality(pending') \in Nat
        <3>1. pending' \in SUBSET pending /\ pending' # pending
            BY <2>1
        <3>2. QED
            BY <3>1, PoolAmounts, FS_Subset, FS_CardinalityType
    <2>4. TasksLeft' < TasksLeft
        BY <2>1, <2>3, PoolAmounts DEF TasksLeft
    <2>5. QED
        BY <1>5, <2>1, <2>2, <2>4
<1>7. CASE Worker
    <2>1. UNCHANGED <<pc, next, total_input, slices, pending>>
        BY <1>7 DEF Worker, WorkerStarts, WorkerReturns, WorkerCrashes, producer
    <2>2. StagesLeft' = StagesLeft
        BY <2>1 DEF StagesLeft
    <2>3. TasksLeft' < TasksLeft
        <3>1. ASSUME NEW c \in queued, WorkerStarts(c) PROVE TasksLeft' < TasksLeft
            <4>1. queued' = queued \ {c} /\ running' = running \cup {c}
                BY <3>1 DEF WorkerStarts
            <4>2. /\ Cardinality(queued') = Cardinality(queued) - 1
                  /\ Cardinality(running') \in Nat /\ Cardinality(running') <= Cardinality(running) + 1
                BY <4>1, OneMore, PoolAmounts, FS_RemoveElement
            <4>3. QED
                BY <2>1, <4>2, PoolAmounts DEF TasksLeft
        <3>2. ASSUME NEW c \in running, WorkerReturns(c) \/ WorkerCrashes(c)
              PROVE  TasksLeft' < TasksLeft
            <4>1. queued' = queued /\ running' = running \ {c}
                BY <3>2 DEF WorkerReturns, WorkerCrashes
            <4>2. Cardinality(running') = Cardinality(running) - 1
                BY <4>1, PoolAmounts, FS_RemoveElement
            <4>3. QED
                BY <2>1, <4>1, <4>2, PoolAmounts DEF TasksLeft
        <3>3. QED
            BY <1>7, <3>1, <3>2 DEF Worker
    <2>4. QED
        BY <1>0, <1>5, <2>1, <2>2, <2>3 DEF Amounts
<1>8. QED
    BY <1>2, <1>3, <1>4, <1>6, <1>7 DEF Next, Producer

(* At the start there are five steps to do for each row, one for each batch *)
(* and six to set up and tear down.                                         *)
WorkAllowed == 5 * SumFunctionOnSet(RowsIn, DOMAIN input) + Len(input) + 6

LEMMA WorkFits == Init => WorkLeft = WorkAllowed
<1> SUFFICES ASSUME Init PROVE WorkLeft = WorkAllowed
    OBVIOUS
<1>1. EndInv
    BY PoolInit, PulledInit, FiniteInit DEF EndInv
<1>2. RowsToCome = SumFunctionOnSet(RowsIn, DOMAIN input) /\ BatchesToCome = Len(input)
    BY <1>1, InputAmounts DEF Init, RowsToCome, BatchesToCome
<1>3. ChunksLeft = 0 /\ StagesLeft = 6 /\ TasksLeft = 0
    BY FS_EmptySet DEF Init, ChunksLeft, StagesLeft, TasksLeft
<1>4. QED
    BY <1>1, <1>2, <1>3, InputAmounts DEF WorkLeft, WorkAllowed

(* The writer ends after at most five steps for each row of the partition,  *)
(* one for each batch and six more, of the producer and the workers         *)
(* together, for every chunk_size and write_concurrency.                    *)
THEOREM WorkBounded == Spec => (WorkLeft = WorkAllowed) /\ [](WorkLeft \in Nat) /\ WorkDecreases
<1>1. Init => EndInv
    BY PoolInit, PulledInit, FiniteInit DEF EndInv
<1>2. EndInv /\ [Next]_vars => EndInv'
    BY PoolStep, PulledStep, FiniteStep DEF EndInv
<1>3. EndInv => WorkLeft \in Nat
    BY AmountsTyped DEF Amounts, WorkLeft
<1>4. EndInv /\ EndInv' /\ [Next]_vars => [WorkLeft' < WorkLeft]_vars
    BY StepWorks
<1>5. QED
    BY <1>1, <1>2, <1>3, <1>4, WorkFits, PTL DEF Spec, WorkDecreases

=============================================================================
