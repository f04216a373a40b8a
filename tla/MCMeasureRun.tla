---------------------------- MODULE MCMeasureRun -----------------------------
(* MeasureRun on one or two invocations, of different plans or of one.     *)
EXTENDS MeasureRun, TLC

CONSTANTS p1, p2, planA, planB

MCDifferentPlans == [p \in Procs |-> IF p = p1 THEN planA ELSE planB]
MCSamePlan == [p \in Procs |-> planA]
MCFirstAnyArgs ==
    [p \in Procs |-> IF p = p1 THEN SUBSET Flags ELSE {{}}]
MCPlainArgs == [p \in Procs |-> {{}}]
MCOverloadArgs == [p \in Procs |-> {{"no_calibrate"}, {"force_overload"}}]
=============================================================================
