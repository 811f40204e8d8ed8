------------------------------ MODULE MCBulkWrite ------------------------------
(* Small frames for model-checking BulkWrite.                              *)
EXTENDS BulkWrite

CONSTANTS p1, p2

MCConfig(id, type, deletes, checks, size) ==
    [id_field |-> id, op_type |-> type, has_deletes |-> deletes,
     delete_flag_column |-> deletes, strict_drop_fields |-> checks,
     require_existing_index |-> checks, chunk_size |-> size, write_concurrency |-> 1,
     transport_max_retries |-> 3, retry_on_timeout |-> TRUE,
     retry_transport_timeout |-> FALSE, max_retries_per_doc |-> 3,
     retry_on_doc_status |-> {429}, bypass_fast_path |-> FALSE, bulk_stats |-> FALSE]

MCConfigs == {MCConfig(FALSE, "index", FALSE, FALSE, 500), MCConfig(TRUE, "index", TRUE, TRUE, 500),
              MCConfig(TRUE, "create", FALSE, TRUE, 500), MCConfig(TRUE, "create", FALSE, TRUE, -1)}

MCRow(p, n, flag, null) == [part |-> p, n |-> n, flag |-> flag, null_id |-> null]

MCRowSets ==
    {{},
     {MCRow(p1, 1, "true", FALSE), MCRow(p1, 2, "null", FALSE), MCRow(p2, 1, "false", FALSE)},
     {MCRow(p1, 1, "true", FALSE), MCRow(p2, 1, "false", TRUE)}}

MCFrame(rows, id, flag, stray, index) ==
    [rows |-> rows, id_column |-> id, flag_column |-> flag, stray_drop |-> stray,
     index_exists |-> index]

(* One row in each partition: enough for one to lose what the other counts *)
(* too much.                                                               *)
MCMiscounted ==
    {MCFrame({MCRow(p1, 1, "true", FALSE), MCRow(p2, 1, "false", FALSE)},
             TRUE, "boolean", FALSE, TRUE)}

MCFrames ==
    {MCFrame(rows, TRUE, flag, FALSE, TRUE) : rows \in MCRowSets, flag \in {"boolean", "other"}}
    \cup {MCFrame({MCRow(p1, 1, "true", FALSE)}, id, "absent", stray, index) :
             id \in BOOLEAN, stray \in BOOLEAN, index \in BOOLEAN}
    \cup MCMiscounted

=============================================================================
