------------------------------ MODULE ShipChunk ------------------------------
(***************************************************************************)
(* _ship_ndjson_chunk (bulk.py): one chunk of pre-built action lines is    *)
(* sent to Elasticsearch, first as a probe that only asks for the `errors` *)
(* flag, then, if the flag is not a positive "clean", in full, with the    *)
(* documents rejected with a retryable status sent again.                  *)
(*                                                                         *)
(* Lines are their positions 1..N in the chunk. The lines of a chunk have  *)
(* distinct ids (or none), and nobody else writes those ids meanwhile.     *)
(* Elasticsearch is external: for each line the index holds a number of    *)
(* documents (0 or 1 with an id; up to MaxDocs, where the count saturates, *)
(* when ids are generated). An HTTP attempt may be lost after any of its   *)
(* lines took effect.                                                      *)
(*                                                                         *)
(* Two layers below the per-document loop re-send a whole request: the     *)
(* client's transport (TransportResend) and _send_retrying                 *)
(* (ConnectorResend). Backoff sleeps are left out.                         *)
(***************************************************************************)
EXTENDS EsWriteConfig, BulkItems, Counts, FiniteSets

CONSTANTS
    N,                  \* number of lines in the chunk
    Configs,            \* the write configurations considered
    SampleCap,          \* ERROR_SAMPLE_CAP
    Refusals,           \* statuses with which Elasticsearch may refuse a document
    MalformedResponses, \* whether a proxy may drop the errors flag, items, or the items
                        \* array: the cases considered
    MaxDocs             \* where the number of documents of a line saturates

ASSUME ShipAssumption ==
    /\ N \in Nat \ {0}
    /\ Configs \subseteq {c \in WriteConfig : Accepted(c)}
    /\ SampleCap \in Nat \ {0}
    /\ Refusals \subseteq 400..599
    /\ MalformedResponses \subseteq BOOLEAN
    /\ MaxDocs \in Nat \ {0, 1}

Lines    == 1..N
Statuses == {200, 404, 409} \cup Refusals

(* How an HTTP attempt can end without a response: the client's timeout; a *)
(* reset connection or a 429/502/503/504 on the request as a whole; an     *)
(* error nothing re-sends (authentication, request too large, encoding).   *)
Losses == {"timeout", "dropped", "refused"}

VARIABLES
    cfg,        \* the configuration, fixed
    op,         \* the action of each line, fixed
    malformed,  \* may responses be malformed? fixed
    before,     \* documents the index held for each line when the chunk started, fixed
    docs,       \* documents the index holds for each line
    phase,      \* "probe", "full", then "done" (returned) or "raised"
    pending,    \* the lines still without an outcome
    attempt,    \* rounds of per-document retry
    resends,    \* _send_retrying: re-sends by the connector in this call
    http,       \* re-sends by the client's transport in this es.bulk call
    timeouts,   \* HTTP attempts of this _send_retrying call that timed out
    unknown,    \* did any line's effect ever become unknown to the sender?
    counts, samples,
    diag        \* the full-path diagnostics of bulk_stats

env     == <<cfg, op, malformed, before>>
tally   == <<counts, samples, diag>>
sending == <<resends, http, timeouts>>
vars    == <<cfg, op, malformed, before, docs, phase, pending, attempt, sending, unknown, tally>>

DiagKeys == Buckets \cup {"docs_retried", "docs_deduped"}

-----------------------------------------------------------------------------
(* Elasticsearch *)

(* Documents of line l once it has been executed, when there were n *)
After(l, n) ==
    IF op[l] = "delete" THEN 0
    ELSE IF cfg.id_field THEN 1 ELSE Capped(n + 1, MaxDocs)

Apply(E) == docs' = [l \in Lines |-> IF l \in E THEN After(l, docs[l]) ELSE docs[l]]

(* The status of an executed line, and those it may be refused with *)
Executed(l) ==
    IF op[l] = "delete" /\ docs[l] = 0 THEN 404
    ELSE IF op[l] = "create" /\ docs[l] > 0 THEN 409 ELSE 200

Refused(l) ==
    Refusals \ (IF op[l] = "create" THEN {409} ELSE IF op[l] = "delete" THEN {404} ELSE {})

(* Per-document statuses for a request of all pending lines. A 5xx item    *)
(* does not tell whether the line was executed (it also stands for an      *)
(* item whose status is missing).                                          *)
Answers == {st \in [pending -> Statuses] :
               \A l \in pending : st[l] = Executed(l) \/ st[l] \in Refused(l)}

Unclear(st) == {l \in pending : st[l] \in 500..599}

(* The lines an answered request executed: no 4xx line, some 5xx lines *)
Effects(st) == {{l \in pending : st[l] = Executed(l)} \cup U : U \in SUBSET Unclear(st)}

(* The top-level flag: some item failed. A 404 on a delete is no failure. *)
ErrorsFlag(st) == \E l \in pending : ~Ok(st[l]) /\ ~(op[l] = "delete" /\ st[l] = 404)

(* A response that carries items for these lines: all of them, or, when    *)
(* responses may be malformed, a prefix of them.                           *)
Itemized ==
    {D \in SUBSET pending :
        /\ malformed \/ D = pending
        /\ \A l \in D, m \in pending : m < l => m \in D}

-----------------------------------------------------------------------------

(* Mutant: bypass_fast_path is ignored *)
MutFirstPhase == IF cfg.has_deletes THEN "full" ELSE "probe"

FirstPhase == IF cfg.has_deletes \/ cfg.bypass_fast_path THEN "full" ELSE "probe"

Init ==
    /\ cfg \in Configs
    /\ op \in [Lines -> RowOps(cfg)]
    /\ malformed \in MalformedResponses
    /\ before \in [Lines -> IF cfg.id_field THEN {0, 1} ELSE {0}]
    /\ docs = before
    /\ phase = FirstPhase
    /\ pending = Lines
    /\ attempt = 0
    /\ resends = 0 /\ http = 0 /\ timeouts = 0
    /\ unknown = FALSE
    /\ counts = NoCount /\ samples = 0
    /\ diag = [k \in DiagKeys |-> 0]

Shipping == phase \in {"probe", "full"}

(* Mutant: a re-send carries the lines of the chunk, not those of the round *)
MutLose(loss) ==
    /\ \E E \in SUBSET Lines :
          /\ loss = "refused" => E = {}
          /\ Apply(E)
    /\ unknown' = (unknown \/ loss # "refused")

(* An attempt is lost; whatever it executed stays executed *)
Lose(loss) ==
    /\ \E E \in SUBSET pending :
          /\ loss = "refused" => E = {}
          /\ Apply(E)
    /\ unknown' = (unknown \/ loss # "refused")

(* The client gives up on the request and raises to _send *)
ClientRaises(loss) ==
    \/ loss = "refused"
    \/ loss = "timeout" /\ ~ClientRetriesTimeout(cfg)
    \/ http >= cfg.transport_max_retries

(* _send_retrying catches the exception: only a timeout, only when the     *)
(* connector owns timeout retries, and only within the budget.             *)
ConnectorCatches(loss) ==
    /\ loss = "timeout"
    /\ cfg.retry_transport_timeout
    /\ resends < cfg.transport_max_retries

TransportResend(loss) ==
    /\ Shipping
    /\ ~ClientRaises(loss)
    /\ Lose(loss)
    /\ http' = http + 1
    /\ timeouts' = timeouts + (IF loss = "timeout" THEN 1 ELSE 0)
    /\ UNCHANGED <<env, phase, pending, attempt, resends, tally>>

ConnectorResend(loss) ==
    /\ Shipping
    /\ ClientRaises(loss) /\ ConnectorCatches(loss)
    /\ Lose(loss)
    /\ resends' = resends + 1
    /\ http' = 0
    /\ timeouts' = timeouts + 1
    /\ UNCHANGED <<env, phase, pending, attempt, tally>>

(* Mutant: the whole chunk is counted, not the pending lines *)
MutCountPending ==
    /\ counts' = [counts EXCEPT !.errors = @ + N]
    /\ samples' = Capped(samples + 1, SampleCap)

(* Mutant: no sample for the chunk *)
MutNoSample ==
    /\ counts' = [counts EXCEPT !.errors = @ + Cardinality(pending)]
    /\ samples' = samples

(* Every pending line counts as an error, with one sample for all of them *)
CountPending ==
    /\ counts' = [counts EXCEPT !.errors = @ + Cardinality(pending)]
    /\ samples' = Capped(samples + 1, SampleCap)

(* Any other exception fails the pending lines closed, and returns. *)
FailClosed(loss) ==
    /\ Shipping
    /\ ClientRaises(loss) /\ ~ConnectorCatches(loss)
    /\ Lose(loss)
    /\ timeouts' = timeouts + (IF loss = "timeout" THEN 1 ELSE 0)
    /\ CountPending
    /\ phase' = "done"
    /\ UNCHANGED <<env, pending, attempt, resends, http, diag>>

(* A new call of _send_retrying *)
NewSend == resends' = 0 /\ http' = 0 /\ timeouts' = 0

(* A positive "clean": the flag is there, and false *)
ProbeClean(st, flagged) == flagged /\ ~ErrorsFlag(st)

(* Mutant: an unclean probe is probed again *)
MutReship == phase' = "probe" /\ NewSend /\ UNCHANGED <<counts, pending>>

(* The same chunk again, in full *)
Reship == phase' = "full" /\ NewSend /\ UNCHANGED <<counts, pending>>

(* The probe is answered: a clean chunk counts as written altogether. *)
ProbeAnswered ==
    /\ phase = "probe"
    /\ \E st \in Answers, flagged \in {TRUE} \cup {~malformed} :
          /\ \E E \in Effects(st) : Apply(E)
          /\ unknown' = (unknown \/ Unclear(st) # {})
          /\ IF ProbeClean(st, flagged)
             THEN /\ counts' = [counts EXCEPT !.written = @ + N]
                  /\ pending' = {}
                  /\ phase' = "done"
                  /\ UNCHANGED sending
             ELSE Reship
    /\ UNCHANGED <<env, attempt, samples, diag>>

(* Mutant: the per-document budget is not looked at *)
MutRetriesUnbounded(st, D) ==
    {l \in D : Rejected(op[l], st[l]) /\ st[l] \in cfg.retry_on_doc_status}

(* The lines to send again: rejected with a retryable status, within budget *)
Retries(st, D) ==
    {l \in D : /\ Rejected(op[l], st[l])
               /\ st[l] \in cfg.retry_on_doc_status
               /\ attempt < cfg.max_retries_per_doc}

Having(st, D, outcome) == {l \in D : Classify(op[l], st[l]) = outcome}

(* Counts of the lines in D, which are not sent again *)
TallyOf(st, D) ==
    [written |-> counts.written + Cardinality(Having(st, D, "written")),
     deleted |-> counts.deleted + Cardinality(Having(st, D, "deleted")),
     ignored |-> counts.ignored + Cardinality(Having(st, D, "ignored")),
     errors  |-> counts.errors  + Cardinality(Having(st, D, "errors"))]

(* The rejected lines of D in a statistics bucket, and the absorbed creates *)
InBucket(st, D, b) == {l \in D : Rejected(op[l], st[l]) /\ RejectBucket(st[l]) = b}
Deduped(st, D)     == {l \in D : op[l] = "create" /\ st[l] = 409}

(* Diagnostics of the items for D, of which the lines in R are sent again. *)
(* A 429 that later succeeds is counted all the same.                      *)
DiagOf(st, D, R) ==
    [k \in DiagKeys |->
        diag[k] + Cardinality(IF k = "docs_retried" THEN R
                              ELSE IF k = "docs_deduped" THEN Deduped(st, D \ R)
                              ELSE InBucket(st, D, k))]

(* Mutant: all pending lines go into the next round *)
MutRoundPending(R) ==
    /\ pending' = IF R = {} THEN {} ELSE pending
    /\ IF R = {}
       THEN phase' = "done" /\ UNCHANGED <<attempt, sending>>
       ELSE attempt' = attempt + 1 /\ NewSend /\ UNCHANGED phase

(* The loop after a round: over, or a further round for the lines in R *)
NextRound(R) ==
    /\ pending' = R
    /\ IF R = {}
       THEN phase' = "done" /\ UNCHANGED <<attempt, sending>>
       ELSE attempt' = attempt + 1 /\ NewSend /\ UNCHANGED phase

(* The full request is answered with items for the lines in D. A line      *)
(* without an item is forgotten: neither counted nor sent again.           *)
FullAnswered ==
    /\ phase = "full"
    /\ \E st \in Answers, D \in Itemized :
          LET R == Retries(st, D) IN
          /\ \E E \in Effects(st) : Apply(E)
          /\ unknown' = (unknown \/ Unclear(st) # {})
          /\ counts' = TallyOf(st, D \ R)
          /\ samples' = Capped(samples + Cardinality(Having(st, D \ R, "errors")), SampleCap)
          /\ diag' = DiagOf(st, D, R)
          /\ NextRound(R)
    /\ UNCHANGED env

(* A response without the items array: resp["items"] raises out of the     *)
(* function, past its exception handlers.                                  *)
FullUnreadable ==
    /\ malformed
    /\ phase = "full"
    /\ \E st \in Answers : \E E \in Effects(st) : Apply(E)
    /\ unknown' = TRUE
    /\ phase' = "raised"
    /\ UNCHANGED <<env, pending, attempt, sending, tally>>

Next ==
    \/ \E loss \in Losses : TransportResend(loss)
    \/ \E loss \in Losses : ConnectorResend(loss)
    \/ \E loss \in Losses : FailClosed(loss)
    \/ ProbeAnswered
    \/ FullAnswered
    \/ FullUnreadable

(* The call runs on: every request ends, if only by request_timeout *)
Spec == Init /\ [][Next]_vars

FairSpec == Spec /\ WF_vars(Next)

-----------------------------------------------------------------------------
(* Properties *)

(* The state has the shape the code gives it; retry budgets are respected. *)
TypeOK ==
    /\ cfg \in Configs
    /\ op \in [Lines -> RowOps(cfg)]
    /\ malformed \in BOOLEAN
    /\ before \in [Lines -> {0, 1}]
    /\ docs \in [Lines -> 0..MaxDocs]
    /\ phase \in {"probe", "full", "done", "raised"}
    /\ pending \in SUBSET Lines
    /\ attempt \in 0..cfg.max_retries_per_doc
    /\ resends \in 0..cfg.transport_max_retries
    /\ http \in 0..cfg.transport_max_retries
    /\ timeouts \in Nat
    /\ unknown \in BOOLEAN
    /\ counts \in Count
    /\ samples \in 0..SampleCap
    /\ diag \in [DiagKeys -> Nat]

(* Lines whose effect is in the index *)
Landed == {l \in Lines : IF op[l] = "delete" THEN docs[l] = 0 ELSE docs[l] > 0}

(* Every line is accounted for exactly once: while shipping the counted     *)
(* and the pending lines add up to the chunk, and what is returned adds up  *)
(* to the chunk. Across probe, full re-ship, per-document rounds and        *)
(* fail-closed returns; only a malformed response may leave lines out.      *)
Accounting ==
    LET total == Accounted(counts) + (IF Shipping THEN Cardinality(pending) ELSE 0) IN
    phase # "raised" => total <= N /\ (~malformed => total = N)

(* A chunk reported clean is in the index: if every line was counted and    *)
(* none as an error, each write is present and each delete gone, however    *)
(* many requests were lost, repeated or half executed on the way.           *)
NoSilentLoss ==
    (phase = "done" /\ counts.errors = 0 /\ Accounted(counts) = N) => Landed = Lines

(* Errors come with a sample, and samples with errors: the sample list is   *)
(* the only diagnostic a failed write carries.                              *)
SamplesExplainErrors ==
    (counts.errors > 0 <=> samples > 0) /\ samples <= counts.errors

Rejections == diag["rejected_429"] + diag["rejected_409"]
              + diag["rejected_4xx_other"] + diag["rejected_5xx"]

(* The bulk_stats diagnostics balance: each rejection was either sent again *)
(* or counted as an error, and nothing else was (but the lines failed       *)
(* closed with the whole request, which are still pending at the return).   *)
RejectionsBalance ==
    Rejections + (IF phase = "done" THEN Cardinality(pending) ELSE 0)
        = diag["docs_retried"] + counts.errors

(* The two layers that re-send timed-out requests do not stack: one call of *)
(* _send_retrying sits through at most 1 + transport_max_retries timeouts.  *)
TimeoutsDoNotStack == timeouts <= 1 + cfg.transport_max_retries

(* With generated ids, while no request or item left an unknown effect, the *)
(* probe can double a document once and, bypassed, nothing doubles it: the  *)
(* per-document rounds send again only what was refused.                    *)
BoundedDuplication ==
    ~cfg.id_field /\ ~unknown =>
        \A l \in Lines : docs[l] <= (IF cfg.bypass_fast_path THEN 1 ELSE 2)

(* `written` counts the documents this write created, and `docs_deduped`    *)
(* exactly the ones that were absorbed because they were already there.     *)
CreateCountsExact ==
    /\ counts.written = Cardinality({l \in Lines : docs[l] > before[l]})
    /\ diag["docs_deduped"] = counts.ignored

PreciseCreate == cfg.op_type = "create" /\ cfg.bypass_fast_path /\ ~malformed

(* config.py says of op_type = "create" that bypass_fast_path makes both    *)
(* counts exact. Of a write without errors, at least, one expects that.     *)
ExactCreateCounts ==
    (phase = "done" /\ PreciseCreate /\ counts.errors = 0) => CreateCountsExact

(* The claim holds, with errors or without, while no request was lost and   *)
(* no item left an unknown effect.                                          *)
ExactCreateCountsWhenKnown ==
    (phase = "done" /\ PreciseCreate /\ ~unknown) => CreateCountsExact

(* bulk_write says of `errors`: "docs ES rejected (exact count)". Then no    *)
(* document this write changed is among them: the changed documents and the *)
(* errors fit into the chunk together.                                      *)
ErrorsAreRejections ==
    phase = "done" => counts.errors + Cardinality({l \in Lines : docs[l] # before[l]}) <= N

(* A line with an outcome is not sent again: no later request of the chunk  *)
(* touches its document.                                                    *)
CountedLinesRest ==
    [][ /\ pending' \subseteq pending
        /\ \A l \in Lines \ pending : docs'[l] = docs[l] ]_vars

(* The call ends: retries at three layers leave no way to go on for ever    *)
Termination == <>(phase \in {"done", "raised"})

(* What the caller of the function sees of it *)
Status == IF Shipping THEN "shipping" ELSE IF phase = "done" THEN "reported" ELSE "aborted"
Report == [counts  |-> IF phase = "done" THEN counts ELSE NoCount,
           samples |-> IF phase = "done" THEN samples ELSE 0]

Contract == INSTANCE ShipContract WITH
    may_miss <- malformed, status <- Status, report <- Report, landed <- Landed

(* The chunk keeps its contract with the partition writer: it reports once, *)
(* what it reports accounts for the chunk, and a clean report means landed. *)
ImplementsContract == Contract!Spec

=============================================================================
