---------------------------- MODULE MeasurementRun ----------------------------
(***************************************************************************)
(* What the measurement programs of 2026-08-20-part-runtime share in the   *)
(* model: a program is run again, and at most MaxFaults times one of its   *)
(* processes fails by itself.                                              *)
(***************************************************************************)
EXTENDS Integers

CONSTANTS MaxFaults, MaxInvocations

ASSUME RunAssumption == MaxFaults \in Nat /\ MaxInvocations \in Nat \ {0}

VARIABLES
    invocation,  \* which run of the program this is, from 1
    faults       \* the failures so far

Fails == faults < MaxFaults /\ faults' = faults + 1
=============================================================================
