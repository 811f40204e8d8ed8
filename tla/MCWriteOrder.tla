----------------------------- MODULE MCWriteOrder -----------------------------
(* A small partition for model-checking WriteOrder.                        *)
EXTENDS WriteOrder, TLC

(* The ids are interchangeable.                                            *)
MCSymmetry == Permutations(Ids)

Base ==
    [id_field |-> TRUE, op_type |-> "index", has_deletes |-> FALSE,
     delete_flag_column |-> FALSE, strict_drop_fields |-> TRUE,
     require_existing_index |-> FALSE, chunk_size |-> 2, write_concurrency |-> 1,
     transport_max_retries |-> 1, retry_on_timeout |-> TRUE,
     retry_transport_timeout |-> FALSE, max_retries_per_doc |-> 1,
     retry_on_doc_status |-> {429}, bypass_fast_path |-> FALSE, bulk_stats |-> FALSE]

MCConcurrent ==
    {[Base EXCEPT !.write_concurrency = 2, !.chunk_size = 1]}

MCConfigs ==
    MCConcurrent
    \cup {Base, [Base EXCEPT !.has_deletes = TRUE, !.delete_flag_column = TRUE],
          [Base EXCEPT !.chunk_size = 3, !.max_retries_per_doc = 2]}

=============================================================================
