------------------------------ MODULE BulkItems ------------------------------
(***************************************************************************)
(* What the connector reads in one item of a _bulk response (bulk.py): the *)
(* outcome of the document and, for a rejection, its statistics bucket.    *)
(***************************************************************************)
EXTENDS Integers

Ops      == {"index", "create", "delete"}
Outcomes == {"written", "deleted", "ignored", "errors"}
Buckets  == {"rejected_429", "rejected_409", "rejected_4xx_other", "rejected_5xx"}

Ok(status) == status \in 200..299

(* Mutant: any 404 or 409 is taken for a no-op *)
MutClassifyBroad(op, status) ==
    CASE Ok(status) /\ op = "delete"        -> "deleted"
      [] Ok(status) /\ op # "delete"        -> "written"
      [] status \in {404, 409}              -> "ignored"
      [] OTHER                              -> "errors"

(* classify_bulk_result. An item with no status, or the empty item {},      *)
(* reads as status 500 (iter_bulk_response_outcomes).                       *)
Classify(op, status) ==
    CASE Ok(status) /\ op = "delete"        -> "deleted"
      [] Ok(status) /\ op # "delete"        -> "written"
      [] op = "delete" /\ status = 404      -> "ignored"
      [] op = "create" /\ status = 409      -> "ignored"
      [] OTHER                              -> "errors"

(* Mutant: a no-op is not exempted *)
MutRejectedNoop(op, status) == ~Ok(status)

(* The test the shipping loop makes before it counts a rejection or retries *)
Rejected(op, status) == ~Ok(status) /\ Classify(op, status) # "ignored"

(* _reject_bucket *)
RejectBucket(status) ==
    CASE status = 429                                 -> "rejected_429"
      [] status = 409                                 -> "rejected_409"
      [] status \in (400..499) \ {409, 429}           -> "rejected_4xx_other"
      [] OTHER                                        -> "rejected_5xx"

=============================================================================
