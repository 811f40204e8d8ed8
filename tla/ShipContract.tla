----------------------------- MODULE ShipContract -----------------------------
(***************************************************************************)
(* What shipping one chunk of N lines promises its caller, whatever        *)
(* Elasticsearch and the network do. A shipment ends once: it reports      *)
(* counts that account for the N lines and, if there were errors, show at  *)
(* least one sample; and a report without errors means that all N lines    *)
(* have landed in the index. Only a malformed response                     *)
(* (may_miss) may make it report less or abort.                            *)
(***************************************************************************)
EXTENDS Naturals, Counts

CONSTANTS
    N,                  \* lines in the chunk
    SampleCap           \* ERROR_SAMPLE_CAP

VARIABLES
    may_miss, \* may a report leave lines out, or the call raise? fixed
    status,   \* "shipping", then "reported" or "aborted"
    report,   \* the counts and number of samples reported
    landed    \* the lines whose effect is in the index

vars == <<may_miss, status, report, landed>>

Init ==
    /\ status = "shipping"
    /\ report = NoReport
    /\ landed \in SUBSET (1..N)

Ship ==
    /\ status = "shipping"
    /\ landed' \in SUBSET (1..N)
    /\ UNCHANGED <<may_miss, status, report>>

Finish ==
    /\ status = "shipping"
    /\ status' = "reported"
    /\ landed' \in SUBSET (1..N)
    /\ report' \in Reports(N, SampleCap, may_miss)
    /\ Clean(report', N) => landed' = 1..N
    /\ UNCHANGED may_miss

Abort ==
    /\ may_miss
    /\ status = "shipping"
    /\ status' = "aborted"
    /\ landed' \in SUBSET (1..N)
    /\ UNCHANGED <<may_miss, report>>

Next == Ship \/ Finish \/ Abort

Spec == Init /\ [][Next]_vars

=============================================================================
