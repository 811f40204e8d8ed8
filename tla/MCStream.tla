-------------------------------- MODULE MCStream --------------------------------
(* Small streams for model-checking Stream.                                *)
EXTENDS Stream

CONSTANTS a, b

Batches == <<{a, b}, {}, {a}>>

(* Ids that return in a later batch, with an empty batch in between: without *)
(* trouble, with a row that is always rejected, in the first or in the last  *)
(* batch, with a batch that bulk_write refuses, the second for its only row, *)
(* and with a hook that fails on the empty batch.                            *)
MCStreams ==
    {[batches |-> Batches, poison |-> {}, doomed |-> D, balked |-> H] :
        D \in {{}, {2}}, H \in {{}, {2}}}
    \cup {[batches |-> Batches, poison |-> {p}, doomed |-> D, balked |-> {}] :
        p \in {<<1, a>>, <<3, a>>}, D \in {{}, {3}}}

=============================================================================
