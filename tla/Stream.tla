--------------------------------- MODULE Stream ---------------------------------
(***************************************************************************)
(* make_foreach_batch (stream.py): Structured Streaming hands the function *)
(* one micro-batch after the other and commits a batch in the checkpoint   *)
(* when the function returns. The function writes the batch with           *)
(* bulk_write, shows the result to the hook, and lets the on_error policy  *)
(* decide whether to raise.                                                *)
(*                                                                         *)
(* bulk_write does what BulkContract promises. Spark and the job are       *)
(* external: an exception or a crash of the driver stops the stream, and a *)
(* restart replays the batch after the last one committed, with the same   *)
(* rows. Tasks of a failed attempt may run on for a while (stray rows), but *)
(* not into the next batch. Ids come from id_field, each once per batch.    *)
(***************************************************************************)
EXTENDS Naturals, Sequences, FiniteSets

CONSTANTS
    Ids,         \* the ids of all rows
    Streams,     \* the streams considered: what arrives, and what is poison
    Policies,    \* on_error policies considered
    MaxFaults,   \* bound: crashes, exceptions and failures that pass
    Overcounts   \* may a result count more outcomes than rows?

(* on_error: make_foreach_batch raises ValueError for any other *)
OnErrorPolicies == {"raise", "log", "ignore"}

(* A stream: the ids of each batch; those of its rows (batch and id) that   *)
(* Elasticsearch rejects whenever they are sent, or that are never sent (a  *)
(* negative chunk_size); the batches bulk_write refuses with an exception   *)
(* whenever it is called, for a row with a null id (it has none of Ids), a  *)
(* failing preflight or a chunk_size of 0; and those whose result the hook  *)
(* always raises on.                                                        *)
Stream ==
    [batches : Seq(SUBSET Ids), poison : SUBSET (Nat \X Ids),
     doomed : SUBSET Nat, balked : SUBSET Nat]

ASSUME StreamAssumption ==
    /\ IsFiniteSet(Ids)
    /\ Streams \subseteq Stream
    /\ Policies \subseteq OnErrorPolicies
    /\ MaxFaults \in Nat
    /\ Overcounts \in BOOLEAN

VARIABLES
    stream, on_error, on_batch,   \* fixed; on_batch: is there a hook?
    pc,         \* "idle", "write", "hook", "policy", "return", or "down"
    result,     \* what bulk_write returned in this attempt
    committed,  \* batches in the checkpoint
    from,       \* per id, the batch whose row was the last to take effect
    stray,      \* rows that tasks of failed attempts may still write
    faults,
    shown,      \* history: the results the hook was shown in this attempt
    logged,     \* history: was a warning or an error logged in it?
    verdicts    \* history: how each committed batch ended

fixed   == <<stream, on_error, on_batch>>
history == <<shown, logged, verdicts>>
vars    == <<fixed, pc, result, committed, from, stray, faults, history>>

Length  == Len(stream.batches)
Now   == committed + 1
Batch == stream.batches[Now]

Poisonous(n) == \E id \in stream.batches[n] : <<n, id>> \in stream.poison

(* batch_df.isEmpty(): a doomed batch has a row at least, be its id null    *)
IsEmpty == Batch = {} /\ Now \notin stream.doomed

(* The rows of the current batch that can take effect *)
Writable == {<<Now, id>> : id \in Batch} \ stream.poison

(* The result dict; of its counts, whether they are positive *)
Result   == [errors : 0..1, unaccounted : 0..1, overcounted : 0..1, empty : BOOLEAN]
NoResult == [errors |-> 0, unaccounted |-> 0, overcounted |-> 0, empty |-> FALSE]

(* Mutant: the flag is missing *)
MutEmptyResult == [errors |-> 0, unaccounted |-> 0, overcounted |-> 0]

(* What the hook is shown of a batch without rows *)
EmptyResult == [errors |-> 0, unaccounted |-> 0, overcounted |-> 0, empty |-> TRUE]

Init ==
    /\ stream \in Streams /\ on_error \in Policies /\ on_batch \in BOOLEAN
    /\ pc = "idle"
    /\ result = NoResult
    /\ committed = 0
    /\ from = [id \in Ids |-> 0]
    /\ stray = {}
    /\ faults = 0
    /\ shown = {} /\ logged = FALSE /\ verdicts = <<>>

Fault == faults < MaxFaults /\ faults' = faults + 1

(* What the batches in B meet with whenever they are tried, others may meet *)
(* with once in a while.                                                    *)
Trouble(B) == IF Now \in B THEN UNCHANGED faults ELSE Fault

Takes(row) == from' = [from EXCEPT ![row[2]] = row[1]]

-----------------------------------------------------------------------------
(* One call of _foreach_batch *)

(* Spark calls the function with the next batch. Without rows there is      *)
(* nothing to write.                                                        *)
Trigger ==
    /\ pc = "idle" /\ committed < Length
    /\ \A row \in stray : row[1] = Now
    /\ IF IsEmpty
         THEN /\ result' = EmptyResult
              /\ pc' = IF on_batch THEN "hook" ELSE "return"
         ELSE /\ pc' = "write"
              /\ UNCHANGED result
    /\ shown' = {} /\ logged' = FALSE
    /\ UNCHANGED <<fixed, committed, from, stray, faults, verdicts>>

(* In a task of bulk_write: a row takes effect *)
WriteRow ==
    /\ pc = "write"
    /\ \E row \in Writable : Takes(row)
    /\ UNCHANGED <<fixed, pc, result, committed, stray, faults, history>>

Reconciles(res) == res.errors = 0 /\ res.unaccounted = 0

(* Mutant: a failed batch is spared the hook *)
MutAfterWrite(res) == IF on_batch /\ Reconciles(res) THEN "hook" ELSE "policy"

AfterWrite(res) == IF on_batch THEN "hook" ELSE "policy"

(* bulk_write returns: clean only if each row took effect. A failure that   *)
(* no row of the batch explains will pass.                                  *)
WriteReturns ==
    /\ pc = "write" /\ Now \notin stream.doomed
    /\ \E res \in {r \in Result : ~r.empty /\ (r.overcounted > 0 => Overcounts)} :
          /\ Reconciles(res) /\ res.overcounted = 0 => \A id \in Batch : from[id] = Now
          /\ IF Reconciles(res) \/ Poisonous(Now) THEN UNCHANGED faults ELSE Fault
          /\ result' = res
          /\ pc' = AfterWrite(res)
    /\ UNCHANGED <<fixed, committed, from, stray, history>>

(* An exception of bulk_write or of the hook is nobody's to catch *)
AfterException == "down"

(* bulk_write raises; of its tasks some may still be running *)
WriteRaises ==
    /\ pc = "write" /\ Trouble(stream.doomed)
    /\ pc' = AfterException
    /\ stray' \in SUBSET (stray \cup Writable) /\ stray \subseteq stray'
    /\ UNCHANGED <<fixed, result, committed, from, history>>

HookReturns ==
    /\ pc = "hook" /\ Now \notin stream.balked
    /\ shown' = {result}
    /\ pc' = IF result.empty THEN "return" ELSE "policy"
    /\ UNCHANGED <<fixed, result, committed, from, stray, faults, logged, verdicts>>

(* The hook may have done its work when it raises *)
HookRaises ==
    /\ pc = "hook" /\ Trouble(stream.balked)
    /\ shown' \in {{}, {result}}
    /\ pc' = AfterException
    /\ result' = NoResult
    /\ UNCHANGED <<fixed, committed, from, stray, logged, verdicts>>

(* Mutants: rows without an outcome are let pass; or too many outcomes are  *)
(* taken for a failure.                                                     *)
MutRaises(res)     == on_error = "raise" /\ res.errors > 0
MutRaisesOver(res) == on_error = "raise" /\ ~(Reconciles(res) /\ res.overcounted = 0)

Raises(res) == on_error = "raise" /\ ~Reconciles(res)

(* The warning, or the error, that too many outcomes are *)
Logs(res) ==
    \/ on_error = "log" /\ ~Reconciles(res)
    \/ on_error # "ignore" /\ res.overcounted > 0

Policy ==
    /\ pc = "policy"
    /\ logged' = Logs(result)
    /\ pc' = IF Raises(result) THEN "down" ELSE "return"
    /\ result' = IF Raises(result) THEN NoResult ELSE result
    /\ UNCHANGED <<fixed, committed, from, stray, faults, shown, verdicts>>

-----------------------------------------------------------------------------
(* Spark *)

(* The function has returned: the batch goes into the checkpoint *)
Commit ==
    /\ pc = "return"
    /\ committed' = Now
    /\ verdicts' = Append(verdicts, [result |-> result, shown |-> shown, logged |-> logged])
    /\ pc' = "idle"
    /\ result' = NoResult
    /\ UNCHANGED <<fixed, from, stray, faults, shown, logged>>

(* The driver dies, in the middle of anything *)
Crash ==
    /\ pc # "down" /\ Fault
    /\ pc' = "down"
    /\ result' = NoResult
    /\ IF pc = "write"
         THEN stray' \in SUBSET (stray \cup Writable) /\ stray \subseteq stray'
         ELSE UNCHANGED stray
    /\ UNCHANGED <<fixed, committed, from, history>>

(* The job runs the stream again, from the checkpoint *)
Restart ==
    /\ pc = "down"
    /\ pc' = "idle"
    /\ UNCHANGED <<fixed, result, committed, from, stray, faults, history>>

StrayWrites ==
    /\ \E row \in stray : Takes(row) /\ stray' = stray \ {row}
    /\ UNCHANGED <<fixed, pc, result, committed, faults, history>>

StrayEnds ==
    /\ stray # {} /\ stray' = {}
    /\ UNCHANGED <<fixed, pc, result, committed, from, faults, history>>

Program == Trigger \/ WriteRow \/ WriteReturns \/ HookReturns \/ Policy \/ Commit

Next ==
    \/ Trigger \/ WriteRow \/ WriteReturns \/ WriteRaises
    \/ HookReturns \/ HookRaises \/ Policy
    \/ Commit \/ Crash \/ Restart \/ StrayWrites \/ StrayEnds

Spec == Init /\ [][Next]_vars

(* The function runs as long as the stream does; bulk_write ends            *)
(* (BulkWrite's WriteEnds); the job restarts a stream that stopped, and     *)
(* tasks of a failed attempt end.                                           *)
FairSpec == Spec /\ WF_vars(Program) /\ WF_vars(Restart) /\ WF_vars(StrayEnds)

-----------------------------------------------------------------------------
(* Properties *)

(* The state has the shape the code gives it. *)
TypeOK ==
    /\ stream \in Streams /\ on_error \in Policies /\ on_batch \in BOOLEAN
    /\ pc \in {"idle", "write", "hook", "policy", "return", "down"}
    /\ result \in Result
    /\ committed \in 0..Length
    /\ from \in [Ids -> 0..Length]
    /\ stray \subseteq (1..Length) \X Ids
    /\ faults \in 0..MaxFaults
    /\ shown \subseteq Result /\ logged \in BOOLEAN
    /\ verdicts \in Seq([result : Result, shown : SUBSET Result, logged : BOOLEAN])

(* Under on_error="raise" the checkpoint never passes a row that has not    *)
(* landed, through crashes and replays, and what has landed is never taken  *)
(* back: an id holds the row of the last committed batch that has it, or    *)
(* that of the batch after it. The one exception is a batch whose outcomes  *)
(* outnumber its rows, which the policy lets pass.                          *)
CommittedRowsLanded ==
    on_error = "raise" =>
        \A k \in 1..committed : verdicts[k].result.overcounted = 0 =>
            \A id \in stream.batches[k] : from[id] >= k

(* Whatever the policy, a row that is lost below the checkpoint leaves a    *)
(* trace: its batch ended with a result that says so, the hook was shown    *)
(* that result, and on_error="log" logged it. A batch with a row that       *)
(* bulk_write refuses has no result, and never gets below the checkpoint.   *)
LossIsReported ==
    \A k \in 1..committed :
        /\ k \notin stream.doomed
        /\ (\E id \in stream.batches[k] : from[id] < k) =>
              /\ ~Reconciles(verdicts[k].result) \/ verdicts[k].result.overcounted > 0
              /\ on_batch => verdicts[k].shown = {verdicts[k].result}
              /\ on_error = "log" => verdicts[k].logged

(* A batch that can get below the checkpoint. No policy is asked about an   *)
(* exception of bulk_write or of the hook; only "raise" minds a row that    *)
(* can never be written.                                                    *)
Passable(n) ==
    /\ n \notin stream.doomed
    /\ on_batch => n \notin stream.balked
    /\ on_error = "raise" => ~Poisonous(n)

(* The stream reaches its end, or a batch that fails whenever it is tried.  *)
(* Failures that pass, and results with too many outcomes, do not wedge it. *)
StreamDrains == <>(committed = Length \/ ~Passable(Now))

=============================================================================
