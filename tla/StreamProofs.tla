------------------------------ MODULE StreamProofs ------------------------------
(* Theorems of Stream, for every stream, however many batches, faults and  *)
(* replays: under on_error="raise" the checkpoint passes no lost row, and   *)
(* no loss goes unreported under the other policies; the document of an id *)
(* never goes back to an earlier batch; and no batch is tried for ever,    *)
(* unless it fails whenever it is tried.                                   *)
EXTENDS Stream, TLAPS

(* Between Trigger and Commit there is a batch *)
InBatch == pc \in {"write", "hook", "policy", "return"}

Verdict == [result : Result, shown : SUBSET Result, logged : BOOLEAN]

(* What the proofs need of the shape of the state *)
Shape ==
    /\ stream \in Stream
    /\ pc \in {"idle", "write", "hook", "policy", "return", "down"}
    /\ committed \in 0..Length
    /\ InBatch => committed < Length
    /\ from \in [Ids -> Nat]
    /\ verdicts \in Seq(Verdict) /\ Len(verdicts) = committed
    /\ result \in Result /\ shown \subseteq Result /\ logged \in BOOLEAN

(* Rows of failed attempts that may still be written belong to the last     *)
(* batch that was committed or to the next one; once that one is started,   *)
(* to that one.                                                             *)
StrayRows ==
    /\ stray \subseteq {committed, Now} \X Ids
    /\ InBatch => stray \subseteq {Now} \X Ids

(* A clean result of the current batch: its rows are where they belong *)
CleanLanded ==
    (pc \in {"hook", "policy", "return"} /\ Reconciles(result) /\ result.overcounted = 0) =>
        \A id \in Batch : from[id] = Now

(* What has happened by the time the policy is asked, and when it returns *)
PolicyKept ==
    /\ pc \in {"hook", "policy", "return"} => Now \notin stream.doomed
    /\ pc = "hook" => on_batch
    /\ (pc \in {"policy", "return"} /\ on_batch) => shown = {result}
    /\ (pc = "hook" /\ result.empty) => (Reconciles(result) /\ Batch = {})
    /\ (pc = "return" /\ on_error = "raise") => Reconciles(result)
    /\ (pc = "return" /\ on_error = "log" /\ Logs(result)) => (logged = TRUE \/ Batch = {})

StreamInv ==
    Shape /\ StrayRows /\ CleanLanded /\ PolicyKept /\ CommittedRowsLanded /\ LossIsReported

-----------------------------------------------------------------------------
(* Lemmas *)

LEMMA BatchesTyped ==
    ASSUME Shape, NEW k \in 1..Length
    PROVE  Length \in Nat /\ stream.batches[k] \subseteq Ids
BY DEF Shape, Stream, Length

LEMMA BatchTyped ==
    ASSUME Shape, InBatch
    PROVE  Now \in 1..Length /\ Batch \subseteq Ids
<1>1. Now \in 1..Length
    BY DEF Shape, Now, Length, Stream
<1> QED
    BY <1>1, BatchesTyped DEF Batch

LEMMA ResultsTyped ==
    NoResult \in Result /\ EmptyResult \in Result
    /\ EmptyResult.errors = 0 /\ EmptyResult.unaccounted = 0
BY DEF NoResult, EmptyResult, Result

(* No id falls back behind a batch that was committed *)
Forward ==
    \A id \in Ids : \A k \in 1..committed : from'[id] < k => from[id] < k

(* If the row of an id that takes effect is of the last batch committed or  *)
(* of the next one, no id falls back.                                       *)
LEMMA TakesForward ==
    ASSUME Shape, NEW row \in {committed, Now} \X Ids, Takes(row)
    PROVE  Forward /\ from' \in [Ids -> Nat]
<1>1. row[1] \in Nat /\ row[1] >= committed /\ row[2] \in Ids
    BY DEF Shape, Now, Length, Stream
<1>2. from' = [from EXCEPT ![row[2]] = row[1]]
    BY DEF Takes
<1>3. from' \in [Ids -> Nat]
    BY <1>1, <1>2 DEF Shape
<1>4. ASSUME NEW id \in Ids, NEW k \in 1..committed, from'[id] < k
      PROVE  from[id] < k
    <2>1. CASE id = row[2]
        BY <1>1, <1>2, <1>4, <2>1 DEF Shape, Length, Stream
    <2>2. CASE id # row[2]
        BY <1>2, <1>4, <2>2 DEF Shape
    <2> QED
        BY <2>1, <2>2
<1> QED
    BY <1>3, <1>4 DEF Forward

(* Then what is said of the committed batches stays true *)
LEMMA ReportsKept ==
    ASSUME Shape, CommittedRowsLanded, LossIsReported,
           Forward, Shape', UNCHANGED <<fixed, committed, verdicts>>
    PROVE  CommittedRowsLanded' /\ LossIsReported'
<1> USE DEF fixed
<1>1. \A k \in 1..committed : k \in 1..Length /\ stream.batches[k] \subseteq Ids
    BY BatchesTyped DEF Shape, Length, Stream
<1>2. \A id \in Ids : from[id] \in Nat /\ from'[id] \in Nat
    BY DEF Shape
<1>3. CommittedRowsLanded'
    <2> SUFFICES ASSUME on_error = "raise", NEW k \in 1..committed,
                        verdicts[k].result.overcounted = 0,
                        NEW id \in stream.batches[k]
                 PROVE  from'[id] >= k
        BY DEF CommittedRowsLanded
    <2>1. id \in Ids /\ k \in Nat /\ from[id] >= k
        BY <1>1 DEF CommittedRowsLanded, Shape
    <2> QED
        BY <2>1, <1>2 DEF Forward
<1>4. LossIsReported'
    <2>1. ASSUME NEW k \in 1..committed, NEW id \in stream.batches[k], from'[id] < k
          PROVE  from[id] < k
        BY <2>1, <1>1 DEF Forward
    <2> QED
        BY <2>1 DEF LossIsReported, Reconciles
<1> QED
    BY <1>3, <1>4

LEMMA NothingTakes ==
    ASSUME Shape, from' = from
    PROVE  Forward
BY DEF Forward

-----------------------------------------------------------------------------
(* The invariant *)

LEMMA InvInit == Init => StreamInv
<1> SUFFICES ASSUME Init PROVE StreamInv
    OBVIOUS
<1>1. stream \in Stream /\ Length \in Nat
    BY StreamAssumption DEF Init, Length, Stream
<1>2. verdicts \in Seq(Verdict) /\ Len(verdicts) = 0
    BY DEF Init
<1>3. result \in Result /\ shown \subseteq Result /\ logged \in BOOLEAN
    BY ResultsTyped DEF Init
<1>4. Shape
    BY <1>1, <1>2, <1>3 DEF Init, Shape, InBatch
<1> QED
    BY <1>4 DEF Init, StreamInv, StrayRows, InBatch, CleanLanded, PolicyKept,
                CommittedRowsLanded, LossIsReported

(* Nothing that is said of the committed batches changes, and no row takes  *)
(* effect: all steps but four.                                              *)
LEMMA QuietStep ==
    ASSUME StreamInv, UNCHANGED <<fixed, committed, from, verdicts>>, Shape',
           StrayRows', CleanLanded', PolicyKept'
    PROVE  StreamInv'
BY NothingTakes, ReportsKept DEF StreamInv

LEMMA TriggerInv == StreamInv /\ Trigger => StreamInv'
<1> SUFFICES ASSUME StreamInv, Trigger PROVE StreamInv'
    OBVIOUS
<1> USE DEF Trigger, fixed
<1>1. Shape'
    BY ResultsTyped, BatchesTyped DEF StreamInv, Shape, InBatch, Length
<1>2. StrayRows'
    BY DEF StreamInv, StrayRows, InBatch, Now
<1>3. CleanLanded'
    BY DEF CleanLanded, Batch, Now, IsEmpty
<1>4. PolicyKept'
    BY DEF PolicyKept, EmptyResult, NoResult, Reconciles, Batch, Now, IsEmpty
<1> QED
    BY <1>1, <1>2, <1>3, <1>4, QuietStep

LEMMA WriteRowInv == StreamInv /\ WriteRow => StreamInv'
<1> SUFFICES ASSUME StreamInv, WriteRow PROVE StreamInv'
    OBVIOUS
<1>1. InBatch /\ Batch \subseteq Ids
    BY BatchTyped DEF StreamInv, WriteRow, InBatch
<1>2. PICK row \in Writable : Takes(row)
    BY DEF WriteRow
<1>3. row \in {committed, Now} \X Ids
    BY <1>1, <1>2 DEF Writable
<1>4. Forward /\ from' \in [Ids -> Nat]
    BY <1>2, <1>3, TakesForward DEF StreamInv
<1>5. Shape'
    BY <1>4 DEF StreamInv, WriteRow, fixed, history, Shape, InBatch, Length
<1>6. StrayRows' /\ CleanLanded' /\ PolicyKept'
    BY DEF StreamInv, WriteRow, fixed, history, StrayRows, InBatch, Now, CleanLanded, PolicyKept
<1>7. CommittedRowsLanded' /\ LossIsReported'
    BY <1>4, <1>5, ReportsKept DEF StreamInv, WriteRow, fixed, history
<1> QED
    BY <1>5, <1>6, <1>7 DEF StreamInv

LEMMA WriteReturnsInv == StreamInv /\ WriteReturns => StreamInv'
<1> SUFFICES ASSUME StreamInv, WriteReturns PROVE StreamInv'
    OBVIOUS
<1> USE DEF WriteReturns, fixed, history
<1>1. Shape'
    BY DEF StreamInv, Shape, InBatch, AfterWrite, Length
<1>2. StrayRows'
    BY DEF StreamInv, StrayRows, InBatch, AfterWrite, Now
<1>3. CleanLanded'
    BY DEF CleanLanded, Batch, Now, Reconciles
<1>4. PolicyKept'
    BY DEF PolicyKept, AfterWrite, Now
<1> QED
    BY <1>1, <1>2, <1>3, <1>4, QuietStep

(* Tasks of an attempt that ends may run on *)
LEMMA StraysLeft ==
    ASSUME StreamInv, pc = "write", stray' \in SUBSET (stray \cup Writable),
           UNCHANGED <<fixed, committed>>, pc' = "down"
    PROVE  StrayRows'
<1>1. Batch \subseteq Ids
    BY BatchTyped DEF StreamInv, InBatch
<1> QED
    BY <1>1 DEF StreamInv, StrayRows, InBatch, Writable, Now, fixed

LEMMA WriteRaisesInv == StreamInv /\ WriteRaises => StreamInv'
<1> SUFFICES ASSUME StreamInv, WriteRaises PROVE StreamInv'
    OBVIOUS
<1> USE DEF WriteRaises, AfterException, fixed, history
<1>1. Shape'
    BY DEF StreamInv, Shape, InBatch, Length
<1>2. StrayRows'
    BY StraysLeft
<1>3. CleanLanded' /\ PolicyKept'
    BY DEF CleanLanded, PolicyKept
<1> QED
    BY <1>1, <1>2, <1>3, QuietStep

LEMMA HookReturnsInv == StreamInv /\ HookReturns => StreamInv'
<1> SUFFICES ASSUME StreamInv, HookReturns PROVE StreamInv'
    OBVIOUS
<1> USE DEF HookReturns, fixed
<1>1. Shape'
    BY DEF StreamInv, Shape, InBatch, Length
<1>2. StrayRows' /\ CleanLanded'
    BY DEF StreamInv, StrayRows, CleanLanded, InBatch, Batch, Now, Reconciles
<1>3. PolicyKept'
    BY DEF StreamInv, PolicyKept, Batch, Now, Reconciles
<1> QED
    BY <1>1, <1>2, <1>3, QuietStep

LEMMA HookRaisesInv == StreamInv /\ HookRaises => StreamInv'
<1> SUFFICES ASSUME StreamInv, HookRaises PROVE StreamInv'
    OBVIOUS
<1> USE DEF HookRaises, AfterException, fixed
<1>1. Shape'
    BY ResultsTyped DEF StreamInv, Shape, InBatch, Length
<1>2. StrayRows' /\ CleanLanded' /\ PolicyKept'
    BY DEF StreamInv, StrayRows, CleanLanded, PolicyKept, InBatch, Now
<1> QED
    BY <1>1, <1>2, QuietStep

LEMMA PolicyInv == StreamInv /\ Policy => StreamInv'
<1> SUFFICES ASSUME StreamInv, Policy PROVE StreamInv'
    OBVIOUS
<1> USE DEF Policy, fixed
<1>1. Shape'
    BY ResultsTyped DEF StreamInv, Shape, InBatch, Length, Logs, Raises
<1>2. StrayRows' /\ CleanLanded'
    BY DEF StreamInv, StrayRows, CleanLanded, InBatch, Batch, Now, Reconciles
<1>3. PolicyKept'
    <2>1. CASE Raises(result)
        BY <2>1 DEF PolicyKept
    <2>2. CASE ~Raises(result)
        <3>1. ((pc' \in {"policy", "return"} /\ on_batch) => shown = {result})
              /\ result' = result /\ (on_error = "raise" => Reconciles(result))
            BY <2>2 DEF StreamInv, PolicyKept, Raises
        <3>2. Logs(result) => logged' = TRUE
            OBVIOUS
        <3>3. Now' = Now /\ Now \notin stream.doomed /\ pc' = "return"
            BY <2>2 DEF StreamInv, PolicyKept, Now
        <3> QED
            BY <3>1, <3>2, <3>3 DEF PolicyKept, Logs, Reconciles
    <2> QED
        BY <2>1, <2>2
<1> QED
    BY <1>1, <1>2, <1>3, QuietStep

LEMMA CommitInv == StreamInv /\ Commit => StreamInv'
<1> SUFFICES ASSUME StreamInv, Commit PROVE StreamInv'
    OBVIOUS
<1> USE DEF Commit, fixed
<1> DEFINE end == [result |-> result, shown |-> shown, logged |-> logged]
<1>1. committed \in Nat /\ committed < Length /\ Length \in Nat /\ committed' = committed + 1
    BY DEF StreamInv, Shape, InBatch, Now, Length, Stream
<1>2. end \in Verdict /\ verdicts' = Append(verdicts, end)
    BY DEF StreamInv, Shape, Verdict
<1>3. /\ verdicts' \in Seq(Verdict) /\ Len(verdicts') = committed'
      /\ verdicts'[committed'] = end
      /\ \A k \in 1..committed : verdicts'[k] = verdicts[k]
    <2> HIDE DEF end
    <2> QED
        BY <1>1, <1>2 DEF StreamInv, Shape
<1>4. Shape'
    BY <1>1, <1>3, ResultsTyped DEF StreamInv, Shape, InBatch, Length
<1>5. StrayRows' /\ CleanLanded' /\ PolicyKept'
    BY <1>1 DEF StreamInv, StrayRows, CleanLanded, PolicyKept, InBatch, Now
<1>6. \A k \in 1..committed' : k = committed' \/ k \in 1..committed
    BY <1>1
<1>7. Batch = stream.batches[committed'] /\ Now = committed'
    BY <1>1 DEF Batch, Now
<1>8. Reconciles(result) /\ result.overcounted = 0 =>
          \A id \in stream.batches[committed'] : from[id] = committed'
    BY <1>7 DEF StreamInv, CleanLanded
<1>9. CommittedRowsLanded'
    <2> SUFFICES ASSUME on_error = "raise", NEW k \in 1..committed',
                        verdicts'[k].result.overcounted = 0,
                        NEW id \in stream.batches[k]
                 PROVE  from[id] >= k
        BY DEF CommittedRowsLanded
    <2>1. CASE k \in 1..committed
        BY <2>1, <1>3 DEF StreamInv, CommittedRowsLanded
    <2>2. CASE k = committed'
        <3>1. Reconciles(result) /\ result.overcounted = 0
            BY <2>2, <1>3 DEF StreamInv, PolicyKept
        <3> QED
            BY <3>1, <2>2, <1>1, <1>8
    <2> QED
        BY <2>1, <2>2, <1>6
<1>10. LossIsReported'
    <2>0. ASSUME NEW k \in 1..committed' PROVE k \notin stream.doomed
        <3>1. CASE k \in 1..committed
            BY <3>1 DEF StreamInv, LossIsReported
        <3>2. CASE k = committed'
            BY <3>2, <1>7 DEF StreamInv, PolicyKept
        <3> QED
            BY <3>1, <3>2, <1>6
    <2> SUFFICES ASSUME NEW k \in 1..committed', NEW id \in stream.batches[k], from[id] < k
                 PROVE  /\ ~Reconciles(verdicts'[k].result) \/ verdicts'[k].result.overcounted > 0
                        /\ on_batch => verdicts'[k].shown = {verdicts'[k].result}
                        /\ on_error = "log" => verdicts'[k].logged
        BY <2>0 DEF LossIsReported, Reconciles
    <2>1. CASE k \in 1..committed
        BY <2>1, <1>3 DEF StreamInv, LossIsReported
    <2>2. CASE k = committed'
        <3>1. ~Reconciles(result) \/ result.overcounted > 0
            <4>1. ~(Reconciles(result) /\ result.overcounted = 0)
                BY <2>2, <1>1, <1>8
            <4> QED
                BY <4>1 DEF StreamInv, Shape, Result
        <3>2. on_error = "log" => Logs(result)
            BY <3>1 DEF Logs
        <3>3. Batch # {}
            BY <2>2, <1>7
        <3>4. on_error = "log" => logged = TRUE
            BY <3>2, <3>3 DEF StreamInv, PolicyKept
        <3>5. on_batch => shown = {result}
            BY DEF StreamInv, PolicyKept
        <3> QED
            BY <3>1, <3>4, <3>5, <2>2, <1>3
    <2> QED
        BY <2>1, <2>2, <1>6
<1> QED
    BY <1>4, <1>5, <1>9, <1>10 DEF StreamInv

LEMMA CrashInv == StreamInv /\ Crash => StreamInv'
<1> SUFFICES ASSUME StreamInv, Crash PROVE StreamInv'
    OBVIOUS
<1> USE DEF Crash, fixed, history
<1>1. Shape'
    BY ResultsTyped DEF StreamInv, Shape, InBatch, Length
<1>2. StrayRows'
    <2>1. CASE pc = "write"
        BY <2>1, StraysLeft
    <2>2. CASE pc # "write"
        BY <2>2 DEF StreamInv, StrayRows, InBatch, Now
    <2> QED
        BY <2>1, <2>2
<1>3. CleanLanded' /\ PolicyKept'
    BY DEF CleanLanded, PolicyKept
<1> QED
    BY <1>1, <1>2, <1>3, QuietStep

LEMMA RestartInv == StreamInv /\ Restart => StreamInv'
<1> SUFFICES ASSUME StreamInv, Restart PROVE StreamInv'
    OBVIOUS
<1> USE DEF Restart, fixed, history
<1>1. Shape'
    BY DEF StreamInv, Shape, InBatch, Length
<1>2. StrayRows' /\ CleanLanded' /\ PolicyKept'
    BY DEF StreamInv, StrayRows, CleanLanded, PolicyKept, InBatch, Now
<1> QED
    BY <1>1, <1>2, QuietStep

LEMMA StrayWritesInv == StreamInv /\ StrayWrites => StreamInv'
<1> SUFFICES ASSUME StreamInv, StrayWrites PROVE StreamInv'
    OBVIOUS
<1> USE DEF fixed, history
<1>1. PICK row \in stray : Takes(row) /\ stray' = stray \ {row}
    BY DEF StrayWrites
<1>2. row \in {committed, Now} \X Ids /\ (InBatch => row \in {Now} \X Ids)
    BY <1>1 DEF StreamInv, StrayRows
<1>3. Forward /\ from' \in [Ids -> Nat]
    BY <1>1, <1>2, TakesForward DEF StreamInv
<1>4. Shape'
    BY <1>3 DEF StreamInv, StrayWrites, Shape, InBatch, Length
<1>5. StrayRows' /\ PolicyKept'
    BY <1>1 DEF StreamInv, StrayWrites, StrayRows, PolicyKept, InBatch, Now, Batch, Reconciles, Logs
<1>6. CleanLanded'
    <2> SUFFICES ASSUME pc \in {"hook", "policy", "return"}, Reconciles(result),
                        result.overcounted = 0, NEW id \in Batch
                 PROVE  from'[id] = Now
        BY DEF CleanLanded, StrayWrites, Batch, Now, Reconciles
    <2>1. InBatch /\ from[id] = Now
        BY DEF StreamInv, CleanLanded, InBatch
    <2>2. row[1] = Now /\ id \in Ids
        BY <2>1, <1>2, BatchTyped DEF StreamInv
    <2> QED
        BY <2>1, <2>2, <1>1 DEF Takes, StreamInv, Shape
<1>7. CommittedRowsLanded' /\ LossIsReported'
    BY <1>3, <1>4, ReportsKept DEF StreamInv, StrayWrites
<1> QED
    BY <1>4, <1>5, <1>6, <1>7 DEF StreamInv

LEMMA StrayEndsInv == StreamInv /\ StrayEnds => StreamInv'
<1> SUFFICES ASSUME StreamInv, StrayEnds PROVE StreamInv'
    OBVIOUS
<1> USE DEF StrayEnds, fixed, history
<1>1. Shape'
    BY DEF StreamInv, Shape, InBatch, Length
<1>2. StrayRows' /\ CleanLanded' /\ PolicyKept'
    BY DEF StreamInv, StrayRows, CleanLanded, PolicyKept, InBatch, Now, Batch, Reconciles, Logs
<1> QED
    BY <1>1, <1>2, QuietStep

LEMMA StutterInv == StreamInv /\ UNCHANGED vars => StreamInv'
<1> SUFFICES ASSUME StreamInv, UNCHANGED vars PROVE StreamInv'
    OBVIOUS
<1> USE DEF vars, fixed, history
<1>1. Shape'
    BY DEF StreamInv, Shape, InBatch, Length
<1>2. StrayRows' /\ CleanLanded' /\ PolicyKept'
    BY DEF StreamInv, StrayRows, CleanLanded, PolicyKept, InBatch, Now, Batch, Reconciles, Logs
<1> QED
    BY <1>1, <1>2, QuietStep

LEMMA InvStep == StreamInv /\ [Next]_vars => StreamInv'
BY TriggerInv, WriteRowInv, WriteReturnsInv, WriteRaisesInv, HookReturnsInv, HookRaisesInv,
   PolicyInv, CommitInv, CrashInv, RestartInv, StrayWritesInv, StrayEndsInv, StutterInv
   DEF Next

LEMMA InvHolds == Spec => []StreamInv
BY InvInit, InvStep, PTL DEF Spec

-----------------------------------------------------------------------------
(* The type invariant: what the shape leaves open *)

Bounds ==
    /\ stream \in Streams /\ on_error \in Policies /\ on_batch \in BOOLEAN
    /\ from \in [Ids -> 0..Length]
    /\ stray \subseteq (1..Length) \X Ids
    /\ faults \in 0..MaxFaults

LEMMA BoundsInit == Init => Bounds
BY StreamAssumption DEF Init, Bounds, Length, Stream

LEMMA WritableTyped ==
    ASSUME Shape, InBatch
    PROVE  Writable \subseteq (1..Length) \X Ids
BY BatchTyped DEF Writable

LEMMA BoundsStep == StreamInv /\ Bounds /\ [Next]_vars => Bounds'
<1> SUFFICES ASSUME StreamInv, Bounds, [Next]_vars PROVE Bounds'
    OBVIOUS
<1> USE DEF Bounds, fixed, history
<1>1. Fault => faults' \in 0..MaxFaults
    BY StreamAssumption DEF Fault
<1>2. ASSUME NEW row \in (1..Length) \X Ids, Takes(row)
      PROVE  from' \in [Ids -> 0..Length]
    BY <1>2 DEF Takes
<1>3. pc = "write" => Writable \subseteq (1..Length) \X Ids
    BY WritableTyped DEF StreamInv, InBatch
<1>4. CASE WriteRow
    BY <1>2, <1>3, <1>4 DEF WriteRow, Length
<1>5. CASE WriteReturns
    BY <1>1, <1>5 DEF WriteReturns, Length
<1>6. CASE WriteRaises
    BY <1>1, <1>3, <1>6 DEF WriteRaises, Trouble, Length
<1>7. CASE HookRaises
    BY <1>1, <1>7 DEF HookRaises, Trouble, Length
<1>8. CASE Crash
    BY <1>1, <1>3, <1>8 DEF Crash, Length
<1>9. CASE StrayWrites
    BY <1>2, <1>9 DEF StrayWrites, Length
<1>10. CASE Trigger \/ HookReturns \/ Policy \/ Commit \/ Restart \/ StrayEnds \/ UNCHANGED vars
    BY <1>10 DEF Trigger, HookReturns, Policy, Commit, Restart, StrayEnds, vars, Length
<1> QED
    BY <1>4, <1>5, <1>6, <1>7, <1>8, <1>9, <1>10 DEF Next

(* The state of the stream keeps its shape: no row of a batch that does not *)
(* exist takes effect, and every committed batch has its verdict.           *)
THEOREM TypeCorrect == Spec => []TypeOK
<1>1. StreamInv /\ Bounds => TypeOK
    BY DEF StreamInv, Shape, Bounds, TypeOK, Verdict
<1> QED
    BY InvInit, InvStep, BoundsInit, BoundsStep, <1>1, PTL DEF Spec

-----------------------------------------------------------------------------
(* The theorems *)

(* The checkpoint passes no lost row under on_error="raise", and no row that *)
(* landed is taken back, however often the stream crashes and replays.       *)
THEOREM CommittedRowsHold == Spec => []CommittedRowsLanded
<1>1. StreamInv => CommittedRowsLanded
    BY DEF StreamInv
<1> QED
    BY <1>1, InvHolds, PTL

(* What is lost under any policy is in the result its batch ended with, the *)
(* hook saw that result, and on_error="log" logged it.                      *)
THEOREM LossReported == Spec => []LossIsReported
<1>1. StreamInv => LossIsReported
    BY DEF StreamInv
<1> QED
    BY <1>1, InvHolds, PTL

-----------------------------------------------------------------------------
(* No row is written over by a row of an earlier batch. Tasks of a failed   *)
(* attempt may still write; but either their rows are of the batch that is  *)
(* to come, or nothing of that batch has been written.                      *)

OneBatchAhead ==
    /\ \A id \in Ids : from[id] <= Now
    /\ \/ stray \subseteq {Now} \X Ids
       \/ stray \subseteq {committed} \X Ids /\ \A id \in Ids : from[id] <= committed

(* Whatever crashes, is replayed or outlives its attempt, the document of   *)
(* an id only ever moves on to the row of a later batch.                    *)
RowsMoveForward == [][\A id \in Ids : from'[id] >= from[id]]_vars

LEMMA AheadInit == Init => OneBatchAhead
BY DEF Init, OneBatchAhead, Now

LEMMA AheadStep ==
    ASSUME StreamInv, OneBatchAhead, Next
    PROVE  OneBatchAhead' /\ \A id \in Ids : from'[id] >= from[id]
<1>1. /\ committed \in Nat /\ Now = committed + 1 /\ from \in [Ids -> Nat]
      /\ \A id \in Ids : from[id] \in Nat /\ from[id] <= from[id]
      /\ InBatch => stray \subseteq {Now} \X Ids
    BY DEF StreamInv, Shape, StrayRows, Now, Length, Stream
<1>2. ASSUME UNCHANGED <<committed, from>>, stray' \subseteq {Now} \X Ids \/ stray' \subseteq stray
      PROVE  OneBatchAhead' /\ \A id \in Ids : from'[id] >= from[id]
    BY <1>1, <1>2 DEF OneBatchAhead, Now
<1>3. ASSUME NEW row, Takes(row), UNCHANGED committed, stray' \subseteq stray,
             \/ row \in {Now} \X Ids /\ stray \subseteq {Now} \X Ids
             \/ /\ row \in {committed} \X Ids /\ stray \subseteq {committed} \X Ids
                /\ \A id \in Ids : from[id] <= committed
      PROVE  OneBatchAhead' /\ \A id \in Ids : from'[id] >= from[id]
    <2>1. \A id \in Ids : from'[id] = IF id = row[2] THEN row[1] ELSE from[id]
        BY <1>1, <1>3 DEF Takes
    <2> QED BY <1>1, <1>3, <2>1 DEF OneBatchAhead, Now
<1>4. Writable \subseteq {Now} \X Ids \/ pc # "write"
    BY BatchTyped DEF StreamInv, InBatch, Writable
<1>5. CASE Trigger \/ WriteReturns \/ HookReturns \/ HookRaises \/ Policy \/ Restart \/ StrayEnds
    BY <1>2, <1>5 DEF Trigger, WriteReturns, HookReturns, HookRaises, Policy, Restart, StrayEnds
<1>6. CASE WriteRow
    <2>1. pc = "write" /\ InBatch /\ UNCHANGED <<committed, stray>>
        BY <1>6 DEF WriteRow, InBatch
    <2>2. PICK row \in Writable : Takes(row)
        BY <1>6 DEF WriteRow
    <2> QED BY <1>1, <1>3, <1>4, <2>1, <2>2
<1>7. CASE WriteRaises \/ Crash
    <2>1. /\ UNCHANGED <<committed, from>>
          /\ UNCHANGED stray \/ (pc = "write" /\ stray' \subseteq stray \cup Writable)
        BY <1>7 DEF WriteRaises, Crash
    <2>2. pc = "write" => stray \subseteq {Now} \X Ids
        BY <1>1 DEF InBatch
    <2> QED BY <1>2, <1>4, <2>1, <2>2
<1>8. CASE StrayWrites
    <2>1. PICK row \in stray : Takes(row) /\ stray' = stray \ {row}
        BY <1>8 DEF StrayWrites
    <2> QED BY <1>3, <1>8, <2>1 DEF StrayWrites, OneBatchAhead
<1>9. CASE Commit
    <2>1. committed' = Now /\ UNCHANGED <<from, stray>> /\ stray \subseteq {Now} \X Ids
        BY <1>1, <1>9 DEF Commit, InBatch
    <2>2. Now' = Now + 1
        BY <2>1 DEF Now
    <2>3. \A id \in Ids : from[id] <= Now /\ from[id] <= Now + 1
        BY <1>1 DEF OneBatchAhead
    <2> QED BY <1>1, <2>1, <2>2, <2>3 DEF OneBatchAhead
<1> QED BY <1>5, <1>6, <1>7, <1>8, <1>9 DEF Next

(* Under every policy replays and strays of an attempt bring no row of an   *)
(* earlier batch back: when a batch is tried, strays are rows of it only.   *)
THEOREM RowsMoveForwardHolds == Spec => RowsMoveForward
<1>1. StreamInv /\ OneBatchAhead /\ [Next]_vars => [\A id \in Ids : from'[id] >= from[id]]_vars
    BY AheadStep
<1>2. StreamInv /\ OneBatchAhead /\ [Next]_vars => OneBatchAhead'
    <2>1. OneBatchAhead /\ UNCHANGED vars => OneBatchAhead'
        BY DEF OneBatchAhead, vars, Now
    <2> QED BY <2>1, AheadStep
<1> QED BY <1>1, <1>2, AheadInit, InvInit, InvStep, PTL DEF Spec, RowsMoveForward

-----------------------------------------------------------------------------
(* The stream advances. Up to a batch that fails whenever it is tried, each *)
(* step but a row taking effect, and the end of a stray task, uses up a     *)
(* part of a batch or a fault.                                              *)

Unhindered == \A n \in 1..Length : n <= Now => Passable(n)

(* Steps that remain to the current batch; a result that will stop the      *)
(* stream has used up a fault already                                       *)
Stage ==
    CASE pc = "down"   -> 6
      [] pc = "idle"   -> 5
      [] pc = "write"  -> 4
      [] pc = "hook"   -> IF Raises(result) THEN 8 ELSE 3
      [] pc = "policy" -> IF Raises(result) THEN 7 ELSE 2
      [] pc = "return" -> 1

StreamWork == 5 * (Length - committed) + 6 * (MaxFaults - faults) + Stage

StreamWorkAllowed == 5 * Length + 6 * MaxFaults + 5

(* What is left to do is bounded by the batches and the faults.             *)
StreamWorkBound == Unhindered => StreamWork \in 0..StreamWorkAllowed

(* Each step does a part of it, unless a single row takes effect.           *)
StreamAdvances ==
    [][Unhindered => \/ StreamWork' < StreamWork
                     \/ StreamWork' = StreamWork /\ (WriteRow \/ StrayWrites \/ StrayEnds)]_vars

LEMMA WorkTyped ==
    ASSUME StreamInv, Bounds
    PROVE  /\ Length \in Nat /\ committed \in 0..Length /\ faults \in 0..MaxFaults /\ MaxFaults \in Nat
           /\ Stage \in 1..8
BY StreamAssumption DEF StreamInv, Shape, Bounds, Length, Stream, Stage

LEMMA WorkNat == StreamInv /\ Bounds => StreamWork \in Nat
BY WorkTyped DEF StreamWork

LEMMA WorkAdvances ==
    ASSUME StreamInv, Bounds, Unhindered, Next
    PROVE  \/ StreamWork' < StreamWork
           \/ StreamWork' = StreamWork /\ (WriteRow \/ StrayWrites \/ StrayEnds)
<1>1. /\ Length \in Nat /\ committed \in 0..Length /\ faults \in 0..MaxFaults /\ MaxFaults \in Nat
      /\ Stage \in 1..8
    BY WorkTyped
<1>0. committed < Length => Passable(Now)
    BY <1>1 DEF Unhindered, Now
<1>2. Length' = Length /\ UNCHANGED <<on_error, stream>>
    BY DEF Next, Trigger, WriteRow, WriteReturns, WriteRaises, HookReturns, HookRaises, Policy,
           Commit, Crash, Restart, StrayWrites, StrayEnds, fixed, Length
<1>3. ASSUME UNCHANGED <<committed, faults>>, NEW m \in Nat, Stage' = m, m < Stage
      PROVE  StreamWork' < StreamWork
    BY <1>1, <1>2, <1>3 DEF StreamWork
<1>4. ASSUME UNCHANGED committed, Fault, NEW m \in Nat, Stage' = m, m < Stage + 6
      PROVE  StreamWork' < StreamWork
    BY <1>1, <1>2, <1>4 DEF StreamWork, Fault
<1>5. CASE Trigger
    <2>1. pc = "idle" /\ UNCHANGED <<committed, faults>> /\ Stage = 5
        BY <1>5 DEF Trigger, Stage
    <2>2. pc' \in {"write", "return"} \/ (pc' = "hook" /\ result' = EmptyResult)
        BY <1>5 DEF Trigger
    <2>3. ~Raises(EmptyResult)
        BY ResultsTyped DEF Raises, Reconciles
    <2>4. Stage' \in {4, 1, 3}
        BY <1>2, <2>2, <2>3 DEF Stage, Raises
    <2> QED BY <1>3, <2>1, <2>4
<1>6. CASE WriteReturns
    <2>1. pc = "write" /\ UNCHANGED committed /\ Stage = 4 /\ InBatch
        BY <1>6 DEF WriteReturns, Stage, InBatch
    <2>2. /\ pc' \in {"hook", "policy"}
          /\ Reconciles(result') \/ Poisonous(Now) \/ Fault
          /\ UNCHANGED faults \/ Fault
        BY <1>6 DEF WriteReturns, AfterWrite
    <2>3. CASE Raises(result')
        <3>1. on_error = "raise" /\ ~Reconciles(result') /\ Now \in 1..Length
            BY <2>1, <2>3, BatchTyped DEF Raises, StreamInv
        <3>2. Fault
            <4>1. Passable(Now)
                BY <1>0, <2>1 DEF StreamInv, Shape
            <4> QED BY <2>2, <3>1, <4>1 DEF Passable
        <3>3. Stage' \in {8, 7}
            BY <1>2, <2>2, <2>3 DEF Stage, Raises
        <3> QED BY <1>4, <2>1, <3>2, <3>3
    <2>4. CASE ~Raises(result')
        <3>1. Stage' \in {3, 2}
            BY <1>2, <2>2, <2>4 DEF Stage, Raises
        <3> QED BY <1>3, <1>4, <2>1, <2>2, <3>1
    <2> QED BY <2>3, <2>4
<1>7. CASE WriteRaises \/ HookRaises \/ Crash
    <2>0. pc \in {"write", "hook"} =>
             Now \notin stream.doomed /\ (on_batch => Now \notin stream.balked)
        BY <1>0 DEF StreamInv, Shape, InBatch, Passable
    <2>1. UNCHANGED committed /\ Fault /\ pc' = "down"
        BY <1>7, <2>0 DEF WriteRaises, HookRaises, Crash, AfterException, Trouble,
                          StreamInv, PolicyKept
    <2>2. Stage' = 6
        BY <2>1 DEF Stage
    <2> QED BY <1>1, <1>4, <2>1, <2>2
<1>8. CASE HookReturns
    <2>1. pc = "hook" /\ UNCHANGED <<committed, faults, result>> /\ pc' \in {"return", "policy"}
        BY <1>8 DEF HookReturns
    <2>2. Stage' = 1 \/ Stage' = IF Raises(result) THEN 7 ELSE 2
        BY <1>2, <2>1 DEF Stage, Raises
    <2>3. Stage = IF Raises(result) THEN 8 ELSE 3
        BY <2>1 DEF Stage
    <2> QED BY <1>3, <2>1, <2>2, <2>3
<1>9. CASE Policy
    <2>1. pc = "policy" /\ UNCHANGED <<committed, faults>>
          /\ pc' = IF Raises(result) THEN "down" ELSE "return"
        BY <1>9 DEF Policy
    <2>2. Stage = (IF Raises(result) THEN 7 ELSE 2) /\ Stage' = IF Raises(result) THEN 6 ELSE 1
        BY <2>1 DEF Stage
    <2> QED BY <1>3, <2>1, <2>2
<1>10. CASE Commit
    <2>1. pc = "return" /\ pc' = "idle" /\ committed' = committed + 1 /\ UNCHANGED faults
        BY <1>10 DEF Commit, Now
    <2>2. Stage = 1 /\ Stage' = 5
        BY <2>1 DEF Stage
    <2> QED BY <1>1, <1>2, <2>1, <2>2 DEF StreamWork
<1>11. CASE Restart
    <2>1. pc = "down" /\ pc' = "idle" /\ UNCHANGED <<committed, faults>>
        BY <1>11 DEF Restart
    <2>2. Stage = 6 /\ Stage' = 5
        BY <2>1 DEF Stage
    <2> QED BY <1>3, <2>1, <2>2
<1>12. CASE WriteRow \/ StrayWrites \/ StrayEnds
    <2>1. UNCHANGED <<pc, result, committed, faults>>
        BY <1>12 DEF WriteRow, StrayWrites, StrayEnds
    <2>2. Stage' = Stage
        BY <1>2, <2>1 DEF Stage, Raises
    <2> QED BY <1>2, <1>12, <2>1, <2>2 DEF StreamWork
<1> QED BY <1>5, <1>6, <1>7, <1>8, <1>9, <1>10, <1>11, <1>12 DEF Next

(* Until a stream comes to a batch that fails whenever it is tried (because *)
(* bulk_write or the hook always raises on it, or because it has a row that *)
(* can never be written and the policy is to insist), it has a bounded      *)
(* number of attempts, however they end: five steps for each batch and six  *)
(* for each fault.                                                          *)
THEOREM StreamWorkBounded == Spec => []StreamWorkBound /\ StreamAdvances
<1>1. Init => StreamWorkBound
    <2> SUFFICES ASSUME Init PROVE StreamWork \in 0..StreamWorkAllowed
        BY DEF StreamWorkBound
    <2>1. Length \in Nat /\ MaxFaults \in Nat
        BY StreamAssumption DEF Init, Length, Stream
    <2>2. Stage = 5 /\ committed = 0 /\ faults = 0
        BY DEF Init, Stage
    <2> QED BY <2>1, <2>2 DEF StreamWork, StreamWorkAllowed
<1>2. StreamInv /\ Bounds /\ [Next]_vars =>
          [Unhindered => \/ StreamWork' < StreamWork
                         \/ StreamWork' = StreamWork /\ (WriteRow \/ StrayWrites \/ StrayEnds)]_vars
    BY WorkAdvances
<1>3. StreamInv /\ Bounds /\ StreamInv' /\ Bounds' /\ [Next]_vars /\ StreamWorkBound => StreamWorkBound'
    <2> SUFFICES ASSUME StreamInv, Bounds, StreamInv', Bounds', [Next]_vars, StreamWorkBound, Unhindered'
                 PROVE  StreamWork' \in 0..StreamWorkAllowed'
        BY DEF StreamWorkBound
    <2>1. UNCHANGED <<stream, on_error, on_batch>> /\ (UNCHANGED committed \/ committed' = Now)
        BY DEF Next, Trigger, WriteRow, WriteReturns, WriteRaises, HookReturns, HookRaises, Policy,
               Commit, Crash, Restart, StrayWrites, StrayEnds, fixed, vars
    <2>2. Unhindered /\ StreamWorkAllowed' = StreamWorkAllowed
        <3>1. /\ Length' = Length /\ Length \in Nat /\ Now \in Nat /\ Now' \in Nat /\ Now <= Now'
              /\ StreamWorkAllowed' = StreamWorkAllowed
            BY <2>1, WorkTyped DEF Length, Now, StreamWorkAllowed
        <3>2. ASSUME NEW n \in 1..Length, n <= Now PROVE Passable(n)
            <4>1. n <= Now' /\ n \in (1..Length)'
                BY <3>1, <3>2
            <4>2. Passable(n)'
                BY <4>1 DEF Unhindered
            <4> QED BY <2>1, <4>2 DEF Passable, Poisonous
        <3> QED BY <3>1, <3>2 DEF Unhindered
    <2>3. StreamWork \in 0..StreamWorkAllowed /\ StreamWorkAllowed \in Nat
        BY <2>2, WorkTyped DEF StreamWorkBound, StreamWorkAllowed
    <2>4. StreamWork' \in Nat
        <3>1. (StreamInv /\ Bounds => StreamWork \in Nat)'
            BY WorkNat, PTL
        <3> QED BY <3>1
    <2>5. StreamWork' < StreamWork \/ StreamWork' = StreamWork
        <3>1. CASE Next
            BY <2>2, <3>1, WorkAdvances
        <3>2. CASE UNCHANGED vars
            BY <3>2 DEF vars, fixed, StreamWork, Stage, Length, Raises
        <3> QED BY <3>1, <3>2
    <2> DEFINE N == StreamWork'
               A == StreamWorkAllowed
               O == StreamWork
    <2>6. N \in Nat /\ (N < O \/ N = O) /\ O \in 0..A /\ A \in Nat
        BY <2>3, <2>4, <2>5
    <2> HIDE DEF N, O, A
    <2>7. N \in 0..A
        BY <2>6
    <2> QED BY <2>2, <2>7 DEF N, A
<1> QED BY <1>1, <1>2, <1>3, InvInit, InvStep, BoundsInit, BoundsStep, PTL DEF Spec, StreamAdvances

=============================================================================
