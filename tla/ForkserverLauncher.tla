------------------------- MODULE ForkserverLauncher -------------------------
(***************************************************************************)
(* runtime/forkserver_launcher.py: the thread caps, the forkserver and the *)
(* refusal to fork.  Threads are counted as one or several.                *)
(***************************************************************************)
CONSTANT SINGLE_THREAD   \* what the caps set, and the ceiling in use

VARIABLES environ,       \* the value of the BLAS variables, "unset" when absent
          launching,     \* where the governor is in switching a part on
          serverThreads, \* threads of the forkserver, "none" before it runs
          alive,         \* the part's process exists
          forkedFrom     \* threads of the forkserver at the fork

launcherVars == <<environ, launching, serverThreads, alive, forkedFrom>>

Several == "several"
NotRunning == "none"
Counts == {SINGLE_THREAD, Several}

LauncherInit ==
  /\ environ \in {"unset"} \cup Counts
  /\ launching = "idle" /\ serverThreads = NotRunning
  /\ alive = FALSE /\ forkedFrom = NotRunning

StartForkserver_Slip ==
  /\ launching = "idle"
  /\ launching' = "context"
  /\ UNCHANGED <<environ, serverThreads, alive, forkedFrom>>

(* start_forkserver: a value already there is left alone.                  *)
StartForkserver ==
  /\ launching = "idle"
  /\ environ' = IF environ = "unset" THEN SINGLE_THREAD ELSE environ
  /\ launching' = "context"
  /\ UNCHANGED <<serverThreads, alive, forkedFrom>>

(* spawn_part: the governor reads its own count, whatever it is at that    *)
(* moment, and raises ForkRefused or goes on to start().                   *)
ReadKernelThreadCount(observed) ==
  /\ launching = "context" /\ ~alive
  /\ launching' = IF observed = SINGLE_THREAD THEN "checked" ELSE "refused"
  /\ UNCHANGED <<environ, serverThreads, alive, forkedFrom>>

ForkRefused ==
  /\ launching = "refused" /\ launching' = "context"
  /\ UNCHANGED <<environ, serverThreads, alive, forkedFrom>>

(* start() runs the forkserver first if it is not running.  Importing numpy*)
(* there makes as many threads as the environment says, or as there are    *)
(* processors.                                                             *)
ThreadsOfServer == IF environ = SINGLE_THREAD THEN SINGLE_THREAD ELSE Several

SpawnPart ==
  /\ launching = "checked"
  /\ serverThreads' = IF serverThreads = NotRunning THEN ThreadsOfServer ELSE serverThreads
  /\ forkedFrom' = serverThreads'
  /\ alive' = TRUE /\ launching' = "forked"
  /\ UNCHANGED environ

ForkserverDies ==
  /\ serverThreads # NotRunning /\ ~alive /\ launching = "context"
  /\ serverThreads' = NotRunning
  /\ UNCHANGED <<environ, launching, alive, forkedFrom>>

PartGone ==
  /\ alive' = FALSE /\ forkedFrom' = NotRunning /\ launching' = "context"
  /\ UNCHANGED <<environ, serverThreads>>
-----------------------------------------------------------------------------
LauncherTypeOK ==
  /\ environ \in {"unset"} \cup Counts /\ launching \in {"idle", "context", "refused", "checked", "forked"}
  /\ serverThreads \in Counts \cup {NotRunning}
  /\ alive \in BOOLEAN /\ forkedFrom \in Counts \cup {NotRunning}

(* A part is forked out of a process with several threads, where a mutex   *)
(* may be copied locked, only if the environment named that many before    *)
(* start_forkserver ran.  The check of spawn_part counts the threads of its*)
(* caller, while the fork happens in the forkserver, so it is the caps and *)
(* not the check that this rests on.                                       *)
ForkedFromSeveralByChoice == forkedFrom = Several => environ = Several
=============================================================================
