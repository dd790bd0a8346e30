--------------------------- MODULE ScopePlacement ---------------------------
(***************************************************************************)
(* runtime/scope_placer.py: a live process asked into a scope of its own by*)
(* a job systemd runs later, and the loop that believes only /proc.        *)
(*                                                                         *)
(* Time passes in the loop's sleeps alone, in ticks; a sleep is taken to   *)
(* last poll_interval and no longer.                                       *)
(***************************************************************************)
EXTENDS ForkserverLauncher, Naturals

CONSTANTS confirmation_deadline, poll_interval

ASSUME PlacementAssumption ==
  confirmation_deadline \in Nat /\ poll_interval \in Nat \ {0}

VARIABLES placing,    \* where in place_process_in_scope
          waited,     \* ticks since the deadline was set
          job,        \* systemd's: "none" or "queued"
          unit,       \* a scope of this name is loaded
          cgroup,     \* what /proc says of the process, "gone" when it has exited
          returned,   \* the path returned
          landedFor   \* ticks the process has been in the scope

placementVars == <<placing, waited, job, unit, cgroup, returned, landedFor>>

PlacementInit ==
  /\ placing = "idle" /\ waited = 0 /\ job = "none" /\ unit = FALSE
  /\ cgroup = "gone" /\ returned = "nothing" /\ landedFor = 0

(* systemd refuses the call at once (the name is taken, mode "fail"), or   *)
(* queues it; the code looks at neither answer.                            *)
StartTransientUnit ==
  /\ placing = "idle" /\ launching = "forked" /\ alive
  /\ job' \in IF unit THEN {"none"} ELSE {"none", "queued"}
  /\ placing' = "loop" /\ waited' = 0
  /\ UNCHANGED <<unit, cgroup, returned, landedFor>>

JobRuns ==
  /\ job = "queued" /\ job' = "none"
  /\ cgroup' = "scope" /\ unit' = TRUE /\ landedFor' = 0
  /\ UNCHANGED <<placing, waited, returned>>

UnitUnloads ==
  /\ unit /\ ~alive /\ unit' = FALSE
  /\ UNCHANGED <<placing, waited, job, cgroup, returned, landedFor>>

(* The call's return code taken for the answer.                            *)
HasProcessLandedInScope_Slip == job = "queued" \/ cgroup = "scope"

HasProcessLandedInScope == cgroup = "scope"

Poll ==
  /\ placing = "loop" /\ waited < confirmation_deadline
  /\ placing' = IF HasProcessLandedInScope THEN "path" ELSE "sleep"
  /\ UNCHANGED <<waited, job, unit, cgroup, returned, landedFor>>

(* One look before the wait and none after.                                *)
Sleep_Slip ==
  /\ placing = "sleep"
  /\ waited' = waited + 1
  /\ landedFor' = IF cgroup = "scope" THEN landedFor + 1 ELSE landedFor
  /\ placing' = IF waited' >= confirmation_deadline THEN "loop" ELSE "sleep"
  /\ UNCHANGED <<job, unit, cgroup, returned>>

Sleep ==
  /\ placing = "sleep"
  /\ waited' = waited + 1
  /\ landedFor' = IF cgroup = "scope" THEN landedFor + 1 ELSE landedFor
  /\ placing' = IF waited' % poll_interval = 0 THEN "loop" ELSE "sleep"
  /\ UNCHANGED <<job, unit, cgroup, returned>>

(* The path of a process that has exited, as it was.                       *)
ReturnPath_Slip ==
  /\ placing = "path"
  /\ placing' = "returned" /\ returned' = cgroup /\ waited' = 0 /\ landedFor' = 0
  /\ UNCHANGED <<job, unit, cgroup>>

(* The path is read again, from a process that may have exited meanwhile.  *)
ReturnPath ==
  /\ placing = "path"
  /\ IF cgroup = "gone" THEN placing' = "FileNotFoundError" /\ UNCHANGED returned
                        ELSE placing' = "returned" /\ returned' = cgroup
  /\ waited' = 0 /\ landedFor' = 0
  /\ UNCHANGED <<job, unit, cgroup>>

RaisePlacementNotConfirmed ==
  /\ placing = "loop" /\ waited >= confirmation_deadline
  /\ placing' = "PlacementNotConfirmed"
  /\ UNCHANGED <<waited, job, unit, cgroup, returned, landedFor>>

InCall == placing \in {"loop", "sleep", "path"}

ForkedOutsideScope ==
  /\ placing = "idle" /\ cgroup' = "launcher"
  /\ UNCHANGED <<placing, waited, job, unit, returned, landedFor>>

(* A process that exits, whoever ends it; a job still queued for it fails. *)
LeftScope ==
  /\ cgroup' = "gone" /\ landedFor' = 0 /\ job' = "none"
  /\ placing' = IF InCall THEN placing ELSE "idle"
  /\ waited' = IF InCall THEN waited ELSE 0
  /\ returned' = "nothing"
  /\ UNCHANGED unit

(* The governor is done with a call that ended for a process that is gone. *)
CallDropped ==
  /\ ~alive /\ placing \in {"returned", "FileNotFoundError", "PlacementNotConfirmed"}
  /\ placing' = "idle" /\ waited' = 0 /\ returned' = "nothing"
  /\ UNCHANGED <<job, unit, cgroup, landedFor>>
-----------------------------------------------------------------------------
PlacementTypeOK ==
  /\ placing \in {"idle", "loop", "sleep", "path", "returned", "FileNotFoundError",
                  "PlacementNotConfirmed"}
  /\ waited \in Nat /\ landedFor \in Nat /\ unit \in BOOLEAN /\ job \in {"none", "queued"}
  /\ cgroup \in {"gone", "launcher", "scope"}
  /\ returned \in {"nothing", "launcher", "scope"}

(* Whatever systemd answered and whenever its job ran, a path is returned  *)
(* only for a process that was in its scope, and one still living is there.*)
ReturnedIsInItsScope ==
  placing = "returned" => returned = "scope" /\ (alive => cgroup = "scope")

(* A living process that is reported as not placed is either not in its    *)
(* scope or came there since the last look, no longer than one poll ago:   *)
(* the loop does not look again at its deadline.                           *)
NotConfirmedOnlyIfJustLanded ==
  placing = "PlacementNotConfirmed" /\ cgroup = "scope" => landedFor <= poll_interval
=============================================================================
