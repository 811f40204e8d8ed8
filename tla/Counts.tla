-------------------------------- MODULE Counts --------------------------------
(***************************************************************************)
(* The four outcome totals every layer of the write path keeps (the        *)
(* `counts` dict of bulk.py) and the bounded list of error samples, of     *)
(* which only the length is modelled.                                      *)
(***************************************************************************)
EXTENDS Naturals, Functions

Count == [written : Nat, deleted : Nat, ignored : Nat, errors : Nat]

NoCount == [written |-> 0, deleted |-> 0, ignored |-> 0, errors |-> 0]

(* Documents accounted for, whatever became of them *)
Accounted(c) == c.written + c.deleted + c.ignored + c.errors

AddCount(c, d) ==
    [written |-> c.written + d.written, deleted |-> c.deleted + d.deleted,
     ignored |-> c.ignored + d.ignored, errors  |-> c.errors + d.errors]

(* The totals of a family of counts *)
SumCounts(f) ==
    [written |-> SumFunction([x \in DOMAIN f |-> f[x].written]),
     deleted |-> SumFunction([x \in DOMAIN f |-> f[x].deleted]),
     ignored |-> SumFunction([x \in DOMAIN f |-> f[x].ignored]),
     errors  |-> SumFunction([x \in DOMAIN f |-> f[x].errors])]

(* Length of a sample list that stops growing at cap *)
Capped(n, cap) == IF n < cap THEN n ELSE cap

(* What shipping n lines may report: counts that add up to n (to less only  *)
(* if a response was malformed), and samples if there were errors.          *)
Reports(n, cap, malformed) ==
    {r \in [counts : [written : 0..n, deleted : 0..n, ignored : 0..n, errors : 0..n],
            samples : 0..cap] :
        /\ Accounted(r.counts) <= n
        /\ ~malformed => Accounted(r.counts) = n
        /\ r.counts.errors > 0 <=> r.samples > 0
        /\ r.samples <= r.counts.errors}

NoReport == [counts |-> NoCount, samples |-> 0]

(* All n lines accounted for, none as an error *)
Clean(r, n) == r.counts.errors = 0 /\ Accounted(r.counts) = n

=============================================================================
