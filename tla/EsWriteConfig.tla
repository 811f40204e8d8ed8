---------------------------- MODULE EsWriteConfig ----------------------------
(***************************************************************************)
(* The write configuration of the connector (config.py): the fields of     *)
(* EsConnection and EsWriteConfig that change what a write does, the       *)
(* validation done when one is built, and the one place where a field is   *)
(* overridden on its way to the Elasticsearch client.                      *)
(*                                                                         *)
(* id_field and delete_flag_column are optional column names; only their   *)
(* being set matters here, so they are Booleans.                           *)
(***************************************************************************)
EXTENDS Integers

WriteConfig ==
    [id_field               : BOOLEAN,
     op_type                : STRING,
     has_deletes            : BOOLEAN,
     delete_flag_column     : BOOLEAN,
     strict_drop_fields     : BOOLEAN,
     require_existing_index : BOOLEAN,
     chunk_size             : Int,
     write_concurrency      : Int,
     transport_max_retries  : Int,
     retry_on_timeout       : BOOLEAN,
     retry_transport_timeout: BOOLEAN,
     max_retries_per_doc    : Int,
     retry_on_doc_status    : SUBSET Int,
     bypass_fast_path       : BOOLEAN,
     bulk_stats             : BOOLEAN]

(* EsConnection.__post_init__ raises no ValueError *)
ConnectionAccepted(c) == c.transport_max_retries >= 0

(* EsWriteConfig.__post_init__ raises none either. chunk_size is not looked *)
(* at.                                                                      *)
Accepted(c) ==
    /\ ConnectionAccepted(c)
    /\ c.max_retries_per_doc >= 0
    /\ c.write_concurrency >= 1
    /\ c.max_retries_per_doc # 0 => c.retry_on_doc_status # {}
    /\ c.has_deletes => c.delete_flag_column /\ c.id_field
    /\ ~c.has_deletes => ~c.delete_flag_column
    /\ c.op_type \in {"index", "create"}
    /\ c.op_type = "create" => c.id_field /\ ~c.has_deletes

(* Mutant: the override is forgotten *)
MutClientKeepsTimeout(c) == c.retry_on_timeout

(* client_kwargs: whether the client built from c re-sends a timed-out      *)
(* request itself. retry_transport_timeout moves that into the connector.   *)
ClientRetriesTimeout(c) == c.retry_on_timeout /\ ~c.retry_transport_timeout

(* The action a row of a write may carry (spark_serialize.build_ndjson).    *)
RowOps(c) == {c.op_type} \cup (IF c.has_deletes THEN {"delete"} ELSE {})

=============================================================================
