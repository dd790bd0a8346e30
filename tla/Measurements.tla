----------------------------- MODULE Measurements -----------------------------
(***************************************************************************)
(* The measurement programs of measurements/2026-08-20-part-runtime, each  *)
(* run by hand and on its own: a behaviour is one program's.               *)
(*                                                                         *)
(* Fairness: the program as a whole goes on while one of its processes     *)
(* can, a harness that waits with a timeout among them.  Nothing is        *)
(* assumed of faults, or of whether the program is run again.              *)
(***************************************************************************)
EXTENDS StoreMeasurement, NumericStateMeasurement, PartMeasurement

VARIABLE program

vars == <<program, invocation, faults, appendVars, crashVars, storeVars, numericVars, partVars>>

PROGRAMS == {"measure_store", "measure_numeric_state", "measure_interpreter"}

Init ==
    /\ program \in PROGRAMS /\ invocation = 1 /\ faults = 0
    /\ StoreInit /\ NumericInit /\ PartMeasurementInit

Next ==
    /\ UNCHANGED program
    /\ \/ /\ program = "measure_store" /\ StoreNext /\ UNCHANGED <<numericVars, partVars>>
       \/ /\ program = "measure_numeric_state" /\ NumericNext
          /\ UNCHANGED <<appendVars, crashVars, storeVars, partVars>>
       \/ /\ program = "measure_interpreter" /\ PartMeasurementNext
          /\ UNCHANGED <<appendVars, crashVars, storeVars, numericVars>>

\* A step that is neither a fault nor the program's being run again.
GoesOn == Next /\ faults' = faults /\ invocation' = invocation
Fairness == WF_vars(GoesOn)
Spec == Init /\ [][Next]_vars /\ Fairness
=============================================================================
