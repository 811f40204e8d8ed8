------------------------------ MODULE ReadContract ------------------------------
(***************************************************************************)
(* What read_index promises its caller: a lazy DataFrame over one snapshot *)
(* of the index. Every evaluation of it gathers rows of that snapshot, no  *)
(* document twice; it returns when it has them all (unless some may be     *)
(* missed), or it raises.                                                  *)
(***************************************************************************)
EXTENDS Naturals

CONSTANTS
    Docs       \* every document there may be

VARIABLES
    may_miss,  \* may an evaluation return without a document? fixed
    status,    \* "planned", "lazy", "running" or "raised"
    snapshot,  \* the documents of the point in time
    out        \* the rows of the latest evaluation, counted per document

vars == <<may_miss, status, snapshot, out>>

NoRows   == [d \in Docs |-> 0]
OneRowOf(S) == [d \in Docs |-> IF d \in S THEN 1 ELSE 0]

Init ==
    /\ may_miss \in BOOLEAN
    /\ status = "planned"
    /\ snapshot = {}
    /\ out = NoRows

Open ==
    /\ status = "planned"
    /\ status' = "lazy"
    /\ snapshot' \in SUBSET Docs
    /\ UNCHANGED <<may_miss, out>>

Evaluate ==
    /\ status = "lazy"
    /\ status' = "running"
    /\ out' = NoRows
    /\ UNCHANGED <<may_miss, snapshot>>

Gather ==
    /\ status = "running"
    /\ \E S \in SUBSET snapshot :
          /\ \A d \in S : out[d] = 0
          /\ out' = [d \in Docs |-> IF d \in S THEN 1 ELSE out[d]]
    /\ UNCHANGED <<may_miss, status, snapshot>>

Return ==
    /\ status = "running"
    /\ may_miss \/ out = OneRowOf(snapshot)
    /\ status' = "lazy"
    /\ UNCHANGED <<may_miss, snapshot, out>>

Raise ==
    /\ status \in {"planned", "running"}
    /\ status' = "raised"
    /\ UNCHANGED <<may_miss, snapshot, out>>

Next == Open \/ Evaluate \/ Gather \/ Return \/ Raise

Spec == Init /\ [][Next]_vars

=============================================================================
