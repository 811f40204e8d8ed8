-------------------------- MODULE MCPartitionWriter --------------------------
(* Small partitions for model-checking PartitionWriter.                    *)
EXTENDS PartitionWriter

MCConfig(concurrency, size, stats) ==
    [id_field |-> TRUE, op_type |-> "index", has_deletes |-> FALSE,
     delete_flag_column |-> FALSE, strict_drop_fields |-> TRUE,
     require_existing_index |-> TRUE, chunk_size |-> size, write_concurrency |-> concurrency,
     transport_max_retries |-> 3, retry_on_timeout |-> TRUE,
     retry_transport_timeout |-> FALSE, max_retries_per_doc |-> 3,
     retry_on_doc_status |-> {429}, bypass_fast_path |-> FALSE, bulk_stats |-> stats]

Rows(n) == [rows |-> n, null |-> FALSE]
Null(n) == [rows |-> n, null |-> TRUE]

(* chunk_size is not validated: 0 and negative values are possible.         *)
MCConfigs ==
    {MCConfig(concurrency, size, concurrency = 2) :
        concurrency \in 1..3, size \in {-1, 0, 1, 2}}

MCInputs == {<<>>, <<Rows(3)>>, <<Rows(2), Rows(0), Rows(1)>>, <<Rows(1), Null(2)>>,
             <<Rows(2), Rows(2)>>}

=============================================================================
