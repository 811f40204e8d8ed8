------------------------------ MODULE BulkContract ------------------------------
(***************************************************************************)
(* What bulk_write promises its caller, the streaming sink among them. It  *)
(* ends once, with a result or with an exception, and always with an       *)
(* exception if a row has a null id. A result counts each row of the frame *)
(* once, and has samples if it has errors; one without errors, without     *)
(* unaccounted and without overcounted rows means that each row is where   *)
(* the caller wants it. Rows only ever move towards where he wants them;   *)
(* after an exception they may go on to.                                   *)
(***************************************************************************)
EXTENDS Counts, FiniteSets

CONSTANT
    SampleCap  \* ERROR_SAMPLE_CAP

VARIABLES
    rows,      \* the rows of the frame, fixed
    kept,      \* those the caller wants in the index; the others he wants gone
    doomed,    \* has some row a null id? fixed
    strict,    \* raise_on_error, fixed
    status,    \* "writing", then "returned" or "raised"
    result,    \* the result dict
    present    \* the rows that have a document in the index

fixed == <<rows, kept, doomed, strict>>
vars  == <<fixed, status, result, present>>

NoResult == [counts |-> NoCount, samples |-> 0, total_input |-> 0,
             unaccounted |-> 0, overcounted |-> 0]

Init ==
    /\ status = "writing"
    /\ result = NoResult

TowardsWish ==
    /\ present' \ present \subseteq kept
    /\ present \ present' \subseteq rows \ kept

(* reconcile_or_raise has nothing to say *)
Reconciled(res) == res.counts.errors = 0 /\ res.unaccounted = 0

Write ==
    /\ status \in {"writing", "raised"}
    /\ TowardsWish
    /\ UNCHANGED <<fixed, status, result>>

Return ==
    /\ status = "writing" /\ ~doomed
    /\ status' = "returned"
    /\ result'.total_input = Cardinality(rows)
    /\ Accounted(result'.counts) + result'.unaccounted
           = result'.total_input + result'.overcounted
    /\ result'.counts.errors > 0 <=> result'.samples > 0
    /\ result'.samples <= SampleCap
    /\ strict => Reconciled(result')
    /\ Reconciled(result') /\ result'.overcounted = 0 => present = kept
    /\ UNCHANGED <<fixed, present>>

Raise ==
    /\ status = "writing"
    /\ status' = "raised"
    /\ UNCHANGED <<fixed, present>>

Next == Write \/ Return \/ Raise

Spec == Init /\ [][Next]_vars

=============================================================================
