--------------------------- MODULE MCLiveSnapshot ---------------------------
(* LiveSnapshot with two workers on one shard, one with two calls and one  *)
(* with one, against two sweeps.                                           *)
EXTENDS LiveSnapshot, TLC

CONSTANTS w1, w2

MCShardOf == [w \in Workers |-> 0]
MCCalls == [w \in Workers |-> IF w = w1 THEN 2 ELSE 1]
=============================================================================
