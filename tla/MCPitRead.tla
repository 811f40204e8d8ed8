------------------------------- MODULE MCPitRead -------------------------------
(* Small indices and calls for model-checking PitRead.                     *)
EXTENDS PitRead

(* The _shard_doc order sorts by shard first.                              *)
MCDocs    == 1..3
MCShardOf == [d \in MCDocs |-> IF d < 3 THEN 1 ELSE 2]

(* Of two slices, slice 0 holds documents of both shards; of three, slice 1 *)
(* is empty.                                                                *)
MCSliceOf ==
    <<[d \in MCDocs |-> 0],
      [d \in MCDocs |-> IF d = 2 THEN 1 ELSE 0],
      [d \in MCDocs |-> IF d = 2 THEN 0 ELSE 2]>>

(* Of three slices, more than shards.                                       *)
MCConfigs ==
    {[valid |-> TRUE, num_slices |-> 0, strict_slices |-> st] : st \in BOOLEAN}
    \cup {[valid |-> TRUE, num_slices |-> k, strict_slices |-> FALSE] : k \in {1, 3}}
    \cup {[valid |-> FALSE, num_slices |-> 1, strict_slices |-> FALSE]}

(* Partial answers and refused values, with a PIT that may expire; an index *)
(* that changes, with new PIT ids; new PIT ids that replace the old ones.   *)
MCWorlds ==
    {[partial |-> TRUE, old_ids_work |-> TRUE, uncoercible |-> {2},
      max_gap |-> 2, refreshes |-> 0, writes |-> 0],
     [partial |-> FALSE, old_ids_work |-> TRUE, uncoercible |-> {},
      max_gap |-> 1, refreshes |-> 1, writes |-> 1],
     [partial |-> FALSE, old_ids_work |-> FALSE, uncoercible |-> {},
      max_gap |-> 1, refreshes |-> 1, writes |-> 0]}

=============================================================================
