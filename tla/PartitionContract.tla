--------------------------- MODULE PartitionContract ---------------------------
(***************************************************************************)
(* What writing one partition promises Spark and, through the summary row, *)
(* the driver: the writer ends once, with a summary or with an exception;  *)
(* it emits no summary of a partition with a null line; the summary counts *)
(* every row of the partition, each row once (fewer only if something may  *)
(* be missed), carries a sample if there were errors, and a clean one      *)
(* means that every row has landed. This is what a task of BulkWrite does. *)
(***************************************************************************)
EXTENDS Naturals, FiniteSets, Counts

CONSTANTS
    SampleCap    \* ERROR_SAMPLE_CAP

VARIABLES
    rows,      \* the rows of the partition, fixed
    may_miss,  \* may a summary leave rows out? fixed
    doomed,    \* has it a null line? fixed
    status,    \* "writing", then "emitted" or "failed"
    summary,   \* the counts, samples and total_input emitted
    landed     \* the rows known to have landed

vars == <<rows, may_miss, doomed, status, summary, landed>>

NoSummary == [counts |-> NoCount, samples |-> 0, total_input |-> 0]

Init ==
    /\ status = "writing"
    /\ summary = NoSummary
    /\ landed = {}

Write ==
    /\ status = "writing"
    /\ landed' \in SUBSET rows /\ landed \subseteq landed'
    /\ UNCHANGED <<rows, may_miss, doomed, status, summary>>

Emit ==
    /\ status = "writing" /\ ~doomed
    /\ status' = "emitted"
    /\ \E r \in Reports(Cardinality(rows), SampleCap, may_miss) :
          /\ summary' = [counts |-> r.counts, samples |-> r.samples,
                         total_input |-> Cardinality(rows)]
          /\ Clean(r, Cardinality(rows)) => landed = rows
    /\ UNCHANGED <<rows, may_miss, doomed, landed>>

Fail ==
    /\ status = "writing"
    /\ status' = "failed"
    /\ UNCHANGED <<rows, may_miss, doomed, summary, landed>>

Next == Write \/ Emit \/ Fail

Spec == Init /\ [][Next]_vars

=============================================================================
