------------------------------ MODULE MCTuiRun ------------------------------
(* TuiRun with one worker, two shards, one scenario and one error kind.    *)
EXTENDS TuiRun, TLC

MCShardOf == [w \in Workers |-> 0]
MCOne == [w \in Workers |-> 1]
=============================================================================
