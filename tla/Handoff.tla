------------------------------ MODULE Handoff -------------------------------
(***************************************************************************)
(* What a live counter promises its consumer: producers put items, the     *)
(* consumer is handed, now and then, some of the items put and not handed  *)
(* over yet.  Nothing that was not put is handed over, and nothing handed  *)
(* over is taken back.                                                     *)
(***************************************************************************)
CONSTANT Items

VARIABLES put,   \* the items put so far
          got    \* the items handed over so far

Init == put = {} /\ got = {}

Put == /\ \E i \in Items \ put : put' = put \cup {i}
       /\ UNCHANGED got

HandOver == /\ \E S \in SUBSET (put \ got) : got' = got \cup S
            /\ UNCHANGED put

Next == Put \/ HandOver

Spec == Init /\ [][Next]_<<put, got>>

=============================================================================
