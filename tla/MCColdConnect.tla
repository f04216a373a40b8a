---------------------------- MODULE MCColdConnect ----------------------------
(* ColdConnect with two workers, whose slots fit or do not fit in the cap of *)
(* a sleep.                                                                  *)
EXTENDS ColdConnect

CONSTANTS w1, w2

==============================================================================
