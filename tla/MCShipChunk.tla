----------------------------- MODULE MCShipChunk -----------------------------
(* Configurations for model-checking ShipChunk: each way of writing, with  *)
(* each of four ways of retrying.                                          *)
EXTENDS ShipChunk

Retrying(owns, client, t, r, statuses) ==
    [retry_transport_timeout |-> owns, retry_on_timeout |-> client,
     transport_max_retries |-> t, max_retries_per_doc |-> r,
     retry_on_doc_status |-> statuses]

MCRetrying ==
    {Retrying(FALSE, TRUE, 1, 1, {429}),                  \* the defaults, fewer retries
     Retrying(TRUE, TRUE, 1, 1, {429}),                   \* timeouts owned by the connector
     Retrying(FALSE, TRUE, 0, 0, {}),                     \* no retries
     Retrying(FALSE, FALSE, 1, 2, {404, 409, 429, 500})}  \* statuses the README warns against

WaysToWrite(retrying) ==
    {c \in {[id_field |-> id, op_type |-> type, has_deletes |-> deletes,
             delete_flag_column |-> deletes, strict_drop_fields |-> TRUE,
             require_existing_index |-> TRUE, chunk_size |-> N, write_concurrency |-> 1,
             transport_max_retries |-> r.transport_max_retries,
             retry_on_timeout |-> r.retry_on_timeout,
             retry_transport_timeout |-> r.retry_transport_timeout,
             max_retries_per_doc |-> r.max_retries_per_doc,
             retry_on_doc_status |-> r.retry_on_doc_status,
             bypass_fast_path |-> bypass, bulk_stats |-> TRUE] :
               id \in BOOLEAN, type \in {"index", "create"}, deletes \in BOOLEAN,
               bypass \in BOOLEAN, r \in retrying} :
        Accepted(c) /\ ~(c.has_deletes /\ c.bypass_fast_path)}

MCConfigs == WaysToWrite(MCRetrying)

=============================================================================
