------------------------- MODULE PartOnMachineProofs --------------------------
(***************************************************************************)
(* Theorems about a part on the machine: what NumericState and             *)
(* CacheReleasingWriter promise of their own steps holds of a part that is *)
(* launched, placed, killed and switched on again, because every step of   *)
(* the machine is a step of theirs or leaves their variables alone.        *)
(***************************************************************************)
EXTENDS PartOnMachineProperties, NumericStateProofs, CacheReleasingWriterProofs, Minimality

(* The machine takes the files of a part's state through NumericNext only. *)
LEMMA MachineStepsNumeric == [MachineNext]_machineVars => [NumericNext]_numericVars
<1> SUFFICES ASSUME [MachineNext]_machineVars PROVE [NumericNext]_numericVars
  OBVIOUS
<1> USE DEF machineVars, partVars
<1>1. CASE Launch \/ Spawn \/ Place \/ SwitchOnAgain
  BY <1>1 DEF Launch, Spawn, Place, SwitchOnAgain
<1>2. CASE CheckDirectory \/ Publish \/ AnotherPublishes \/ RecordSettingChange \/ StoreStep \/ WriteTape
  BY <1>2 DEF CheckDirectory, Publish, AnotherPublishes, RecordSettingChange, StoreStep, WriteTape
<1>3. CASE KeepState
  BY <1>3 DEF KeepState, NumericNext
<1>4. CASE Kill
  BY <1>4 DEF Kill, NumericNext
<1>5. CASE RemoveByHand
  BY <1>5 DEF RemoveByHand, NumericNext
<1>6. CASE UNCHANGED machineVars
  BY <1>6
<1> QED BY <1>1, <1>2, <1>3, <1>4, <1>5, <1>6 DEF MachineNext

(* And its tape through WriterNext only.                                   *)
LEMMA MachineStepsWriter == [MachineNext]_machineVars => [WriterNext]_writerVars
<1> SUFFICES ASSUME [MachineNext]_machineVars PROVE [WriterNext]_writerVars
  OBVIOUS
<1> USE DEF machineVars, partVars
<1>1. CASE Launch \/ Spawn \/ Place \/ SwitchOnAgain
  BY <1>1 DEF Launch, Spawn, Place, SwitchOnAgain
<1>2. CASE CheckDirectory \/ Publish \/ AnotherPublishes \/ RecordSettingChange \/ StoreStep \/ KeepState
  BY <1>2 DEF CheckDirectory, Publish, AnotherPublishes, RecordSettingChange, StoreStep, KeepState
<1>3. CASE WriteTape
  BY <1>3 DEF WriteTape, WriterNext
<1>4. CASE Kill
  BY <1>4 DEF Kill, WriterNext
<1>5. CASE RemoveByHand
  BY <1>5 DEF RemoveByHand
<1>6. CASE UNCHANGED machineVars
  BY <1>6
<1> QED BY <1>1, <1>2, <1>3, <1>4, <1>5, <1>6 DEF MachineNext

(* A part's life on the machine implements the life of its files: whatever *)
(* launches, placements and kills do, the files see opens, updates, kills  *)
(* and removals in an order NumericState allows.                           *)
THEOREM MachineImplementsNumericState == MachineSpec => NumericSpec
<1>1. MachineInit => NumericInit
  BY DEF MachineInit
<1> QED BY <1>1, MachineStepsNumeric, PTL DEF MachineSpec, NumericSpec

(* And the life of its tape.                                               *)
THEOREM MachineImplementsWriter == MachineSpec => WriterSpec
<1>1. MachineInit => WriterInit
  BY DEF MachineInit
<1> QED BY <1>1, MachineStepsWriter, PTL DEF MachineSpec, WriterSpec

(* No part on the machine is handed an array that was written under        *)
(* another specification and guarded ever since.                           *)
THEOREM MachineNeverReadAsAnother == MachineSpec => []NeverReadAsAnother
BY MachineImplementsNumericState, NumericNeverReadAsAnother, PTL

(* No part on the machine is refused its state without a reason.           *)
THEOREM MachineRefusedForAReason == MachineSpec => []RefusedForAReason
BY MachineImplementsNumericState, NumericRefusedForAReason, PTL

(* No part on the machine leaves more in the page cache than its interval. *)
THEOREM MachineUnreleasedBounded == MachineSpec => []UnreleasedBounded
BY MachineImplementsWriter, WriterUnreleasedBounded, PTL

(* No part on the machine gives up cache pages that are not on the disk.   *)
THEOREM MachineHandedBackIsOnDisk == MachineSpec => []HandedBackIsOnDisk
BY MachineImplementsWriter, WriterHandedBackIsOnDisk, PTL

(* The environment names a count once start_forkserver has run, and every  *)
(* count of threads after that follows from it.                            *)
LauncherInv ==
  /\ environ \in {"unset"} \cup Counts
  /\ launching # "idle" => environ \in Counts
  /\ launching = "idle" => serverThreads = NotRunning /\ forkedFrom = NotRunning /\ ~alive
  /\ serverThreads = Several => environ = Several
  /\ ForkedFromSeveralByChoice

(* Every step keeps it.                                                    *)
LEMMA LauncherStep == LauncherInv /\ [MachineNext]_machineVars => LauncherInv'
<1> SUFFICES ASSUME LauncherInv, [MachineNext]_machineVars PROVE LauncherInv'
  OBVIOUS
<1> USE DEF LauncherInv, ForkedFromSeveralByChoice, NotRunning, Several
<1>1. CASE Launch
  <2>1. CASE StartForkserver
    BY <2>1 DEF StartForkserver, Counts
  <2>2. CASE ForkRefused \/ ForkserverDies
    BY <2>2 DEF ForkRefused, ForkserverDies
  <2>3. ASSUME NEW observed \in Counts, ReadKernelThreadCount(observed) PROVE LauncherInv'
    BY <2>3 DEF ReadKernelThreadCount
  <2> QED BY <1>1, <2>1, <2>2, <2>3 DEF Launch
<1>2. CASE Spawn
  BY <1>2 DEF Spawn, SpawnPart, ThreadsOfServer, Counts
<1>3. CASE SwitchOnAgain
  BY <1>3 DEF SwitchOnAgain, ThreadsOfServer, Counts
<1>4. CASE Kill
  BY <1>4 DEF Kill, PartGone
<1>5. CASE UNCHANGED launcherVars
  BY <1>5 DEF launcherVars, Counts
<1>6. ASSUME Place \/ CheckDirectory \/ KeepState \/ Publish \/ AnotherPublishes \/ RecordSettingChange \/ StoreStep
             \/ WriteTape \/ RemoveByHand \/ UNCHANGED machineVars
      PROVE  UNCHANGED launcherVars
  BY <1>6 DEF Place, CheckDirectory, KeepState, Publish, AnotherPublishes, RecordSettingChange, StoreStep, WriteTape,
              RemoveByHand, governorVars, machineVars
<1> QED BY <1>1, <1>2, <1>3, <1>4, <1>5, <1>6 DEF MachineNext

(* A part is forked out of a process with several threads only where the   *)
(* environment named that many: the caps of start_forkserver, whatever the *)
(* check of spawn_part counted.                                            *)
THEOREM MachineForkedFromSeveralByChoice == MachineSpec => []ForkedFromSeveralByChoice
<1>1. MachineInit => LauncherInv
  BY DEF MachineInit, LauncherInit, LauncherInv, ForkedFromSeveralByChoice, NotRunning, Several
<1>2. LauncherInv => ForkedFromSeveralByChoice
  BY DEF LauncherInv
<1> QED BY <1>1, <1>2, LauncherStep, PTL DEF MachineSpec

-----------------------------------------------------------------------------
(* The placement loop leaves for the path only from a look that found the  *)
(* process in its scope, and a process leaves its scope only by exiting.   *)
PlacementInv ==
  /\ alive <=> cgroup # "gone"
  /\ job = "queued" => alive
  /\ placing = "path" => cgroup \in {"scope", "gone"}
  /\ ReturnedIsInItsScope

(* Every step keeps it.                                                    *)
LEMMA PlacementStep == PlacementInv /\ [MachineNext]_machineVars => PlacementInv'
<1> SUFFICES ASSUME PlacementInv, [MachineNext]_machineVars PROVE PlacementInv'
  OBVIOUS
<1> USE DEF PlacementInv, ReturnedIsInItsScope
<1>1. CASE Spawn
  BY <1>1 DEF Spawn, SpawnPart, ForkedOutsideScope
<1>2. CASE Place
  <2> USE DEF Place, launcherVars
  <2>1. CASE StartTransientUnit
    BY <1>2, <2>1 DEF StartTransientUnit
  <2>2. CASE JobRuns
    BY <1>2, <2>2 DEF JobRuns
  <2>3. CASE UnitUnloads \/ Sleep \/ RaisePlacementNotConfirmed \/ CallDropped
    BY <1>2, <2>3 DEF UnitUnloads, Sleep, RaisePlacementNotConfirmed, CallDropped
  <2>4. CASE Poll
    BY <1>2, <2>4 DEF Poll, HasProcessLandedInScope
  <2>5. CASE ReturnPath
    BY <1>2, <2>5 DEF ReturnPath
  <2> QED BY <1>2, <2>1, <2>2, <2>3, <2>4, <2>5
<1>3. CASE SwitchOnAgain
  BY <1>3 DEF SwitchOnAgain
<1>4. CASE Kill
  BY <1>4 DEF Kill, PartGone, LeftScope, InCall
<1>5. CASE UNCHANGED <<alive, placementVars>>
  BY <1>5 DEF placementVars
<1>6. ASSUME Launch \/ CheckDirectory \/ KeepState \/ Publish \/ AnotherPublishes \/ RecordSettingChange \/ StoreStep
             \/ WriteTape \/ RemoveByHand \/ UNCHANGED machineVars
      PROVE  UNCHANGED <<alive, placementVars>>
  <2>1. CASE Launch
    BY <2>1 DEF Launch, StartForkserver, ForkRefused, ForkserverDies, ReadKernelThreadCount
  <2> QED BY <1>6, <2>1 DEF CheckDirectory, KeepState, Publish, AnotherPublishes, RecordSettingChange, StoreStep, WriteTape,
              RemoveByHand, governorVars, launcherVars, machineVars
<1> QED BY <1>1, <1>2, <1>3, <1>4, <1>5, <1>6 DEF MachineNext

(* place_process_in_scope returns a path only for a process found in its   *)
(* own scope, whatever systemd answered and whenever its job ran.          *)
THEOREM MachineReturnedIsInItsScope == MachineSpec => []ReturnedIsInItsScope
<1>1. MachineInit => PlacementInv
  BY DEF MachineInit, LauncherInit, PlacementInit, PlacementInv, ReturnedIsInItsScope
<1>2. PlacementInv => ReturnedIsInItsScope
  BY DEF PlacementInv
<1> QED BY <1>1, <1>2, PlacementStep, PTL DEF MachineSpec

-----------------------------------------------------------------------------
(* A look of the loop comes every poll_interval ticks, so a process that   *)
(* landed since the last one has been there no longer than that.           *)
LandedInv ==
  /\ waited \in Nat /\ landedFor \in Nat
  /\ placing = "idle" => cgroup # "scope" /\ job # "queued"
  /\ placing = "sleep" /\ cgroup = "scope" => landedFor <= waited % poll_interval
  /\ placing \in {"loop", "PlacementNotConfirmed"} /\ cgroup = "scope" => landedFor <= poll_interval

(* A remainder is determined by its number, and one further on follows.    *)
LEMMA OneRemainder ==
  ASSUME NEW p \in Int, p > 0, NEW q1 \in Int, NEW r1 \in 0..(p - 1), NEW q2 \in Int, NEW r2 \in 0..(p - 1),
         p * q1 + r1 = p * q2 + r2
  PROVE  r1 = r2
OBVIOUS

(* The remainder of the next number is 0 or the next remainder.            *)
LEMMA NextRemainder ==
  ASSUME NEW p \in Int, p > 0, NEW t \in Int
  PROVE  /\ t % p \in 0..(p - 1)
         /\ (t + 1) % p # 0 => (t + 1) % p = (t % p) + 1
<1> DEFINE q1 == t \div p
           r1 == t % p
           q2 == (t + 1) \div p
           r2 == (t + 1) % p
<1>1. q1 \in Int /\ q2 \in Int /\ r1 \in 0..(p - 1) /\ r2 \in 0..(p - 1)
  OBVIOUS
<1>2. t = p * q1 + r1 /\ t + 1 = p * q2 + r2
  OBVIOUS
<1> SUFFICES r1 \in 0..(p - 1) /\ (r2 # 0 => r2 = r1 + 1)
  OBVIOUS
<1> HIDE DEF q1, r1, q2, r2
<1>3. CASE r1 + 1 < p
  <2>1. p * q1 + (r1 + 1) = p * q2 + r2 /\ r1 + 1 \in 0..(p - 1)
    BY <1>1, <1>2, <1>3
  <2> QED BY <1>1, <2>1, OneRemainder
<1>4. CASE r1 + 1 = p
  <2>1. p * (q1 + 1) + 0 = p * q2 + r2
    BY <1>1, <1>2, <1>4
  <2>2. r2 = 0
    BY <1>1, <2>1, OneRemainder
  <2> QED BY <1>1, <2>2
<1> QED BY <1>1, <1>3, <1>4

(* Every step keeps it.                                                    *)
LEMMA LandedStep == PlacementInv /\ LandedInv /\ [MachineNext]_machineVars => LandedInv'
<1> SUFFICES ASSUME PlacementInv, LandedInv, [MachineNext]_machineVars PROVE LandedInv'
  OBVIOUS
<1>p. poll_interval \in Int /\ poll_interval > 0
  BY PlacementAssumption
<1> DEFINE r == waited % poll_interval
<1>r. r \in 0..(poll_interval - 1) /\ ((waited + 1) % poll_interval # 0 => (waited + 1) % poll_interval = r + 1)
  BY <1>p, NextRemainder DEF LandedInv
<1>1. CASE Spawn
  BY <1>1 DEF Spawn, SpawnPart, ForkedOutsideScope, LandedInv
<1>2. CASE Place
  <2> USE DEF Place, launcherVars
  <2>1. CASE StartTransientUnit
    BY <1>2, <2>1 DEF StartTransientUnit, LandedInv
  <2>2. CASE JobRuns
    <3>1. landedFor' = 0 /\ UNCHANGED <<placing, waited>> /\ job' = "none" /\ placing # "idle"
      BY <2>2 DEF JobRuns, LandedInv
    <3>2. 0 <= waited' % poll_interval /\ 0 <= poll_interval
      BY <1>r, <3>1, <1>p
    <3> QED BY <3>1, <3>2 DEF LandedInv
  <2>3. CASE UnitUnloads \/ RaisePlacementNotConfirmed \/ ReturnPath
    BY <1>2, <2>3 DEF UnitUnloads, RaisePlacementNotConfirmed, ReturnPath, LandedInv
  <2>4. CASE CallDropped
    BY <1>2, <2>4 DEF CallDropped, LandedInv, PlacementInv
  <2>5. CASE Poll
    BY <1>2, <2>5 DEF Poll, HasProcessLandedInScope, LandedInv
  <2>6. CASE Sleep
    <3>1. /\ waited' = waited + 1 /\ waited' \in Nat /\ landedFor' \in Nat /\ UNCHANGED <<job, cgroup>>
          /\ cgroup = "scope" => landedFor' = landedFor + 1 /\ landedFor <= r
      BY <2>6 DEF Sleep, LandedInv
    <3>2. CASE waited' % poll_interval = 0
      <4>1. placing' = "loop"
        BY <2>6, <3>2 DEF Sleep
      <4>2. cgroup = "scope" => landedFor' <= poll_interval
        BY <3>1, <1>p, <1>r DEF LandedInv
      <4> QED BY <3>1, <4>1, <4>2 DEF LandedInv
    <3>3. CASE waited' % poll_interval # 0
      <4>1. placing' = "sleep"
        BY <2>6, <3>3 DEF Sleep
      <4>2. waited' % poll_interval = r + 1
        BY <3>1, <3>3, <1>r
      <4>3. cgroup = "scope" => landedFor' <= waited' % poll_interval
        BY <3>1, <4>2, <1>r DEF LandedInv
      <4> QED BY <3>1, <4>1, <4>3 DEF LandedInv
    <3> QED BY <3>2, <3>3
  <2> QED BY <1>2, <2>1, <2>2, <2>3, <2>4, <2>5, <2>6
<1>3. CASE SwitchOnAgain
  BY <1>3 DEF SwitchOnAgain, LandedInv
<1>4. CASE Kill
  BY <1>4 DEF Kill, PartGone, LeftScope, InCall, LandedInv
<1>5. CASE UNCHANGED placementVars
  BY <1>5, Zenon DEF placementVars, LandedInv
<1>6. ASSUME Launch \/ CheckDirectory \/ KeepState \/ Publish \/ AnotherPublishes \/ RecordSettingChange \/ StoreStep
             \/ WriteTape \/ RemoveByHand \/ UNCHANGED machineVars
      PROVE  UNCHANGED placementVars
  BY <1>6 DEF Launch, CheckDirectory, KeepState, Publish, AnotherPublishes, RecordSettingChange, StoreStep, WriteTape,
              RemoveByHand, governorVars, machineVars
<1> QED BY <1>1, <1>2, <1>3, <1>4, <1>5, <1>6 DEF MachineNext

(* PlacementNotConfirmed is raised for a process in its scope only if it   *)
(* landed there within the last poll_interval, for every interval and every*)
(* deadline.                                                               *)
THEOREM MachineNotConfirmedOnlyIfJustLanded == MachineSpec => []NotConfirmedOnlyIfJustLanded
<1>1. MachineInit => PlacementInv /\ LandedInv
  BY DEF MachineInit, LauncherInit, PlacementInit, PlacementInv, ReturnedIsInItsScope, LandedInv
<1>2. LandedInv => NotConfirmedOnlyIfJustLanded
  BY DEF LandedInv, NotConfirmedOnlyIfJustLanded
<1> QED BY <1>1, <1>2, PlacementStep, LandedStep, PTL DEF MachineSpec

-----------------------------------------------------------------------------
(* The rows of the store, and the steps the machine takes in it.           *)
Rows == [by : Writers \cup {Nobody}, holds : Int, at : Nat]

StoreNext ==
  \/ Tick
  \/ \E w \in Writers : \/ \E value \in Int : TakeTimestamp(w, value)
                        \/ TakeWriteLock(w) \/ LockedOut(w) \/ Commit(w) \/ WriterKilled(w)

(* Setting changes are committed in the order of their times, since one    *)
(* process records them and its clock does not run backwards.              *)
SettingInv ==
  /\ now \in Nat /\ appending \in [Writers -> {"idle", "waiting", "inserting"}]
  /\ row \in [Writers -> Rows] /\ setting_change \in Seq(Rows)
  /\ \A i, j \in 1..Len(setting_change) : i <= j => setting_change[i].at <= setting_change[j].at
  /\ \A i \in 1..Len(setting_change) : setting_change[i].at <= now
  /\ appending[Recorder] # "idle" =>
       /\ row[Recorder].at <= now
       /\ \A i \in 1..Len(setting_change) : setting_change[i].at <= row[Recorder].at

(* The machine takes the store through StoreNext only.                     *)
LEMMA MachineStepsStore == NumericTypeOK /\ SettingInv /\ [MachineNext]_machineVars => [StoreNext]_storeVars
<1> SUFFICES ASSUME NumericTypeOK, SettingInv, [MachineNext]_machineVars PROVE [StoreNext]_storeVars
  OBVIOUS
<1> USE DEF machineVars, partVars
<1>1. CASE Launch \/ Spawn \/ Place \/ SwitchOnAgain
  BY <1>1 DEF Launch, Spawn, Place, SwitchOnAgain
<1>2. CASE CheckDirectory \/ KeepState \/ WriteTape \/ RemoveByHand
  BY <1>2 DEF CheckDirectory, KeepState, WriteTape, RemoveByHand
<1>3. CASE Publish
  <2>1. stampFile \in Int
    BY DEF NumericTypeOK, Absent
  <2> QED BY <1>3, <2>1, MachineAssumption, Zenon DEF Publish, StoreNext
<1>8. CASE AnotherPublishes
  <2>1. PICK w \in Writers \ {Part, Recorder} : TakeTimestamp(w, 1)
    BY <1>8, Zenon DEF AnotherPublishes
  <2>2. w \in Writers /\ 1 \in Int
    OBVIOUS
  <2> QED BY <2>1, <2>2, Zenon DEF StoreNext
<1>4. CASE RecordSettingChange
  <2>1. Len(setting_change) + 1 \in Int
    BY DEF SettingInv
  <2> QED BY <1>4, <2>1, StoreAssumption, Zenon DEF RecordSettingChange, StoreNext
<1>5. CASE StoreStep
  BY <1>5, Zenon DEF StoreStep, StoreNext
<1>6. CASE Kill
  BY <1>6, MachineAssumption, Zenon DEF Kill, StoreNext
<1>7. CASE UNCHANGED machineVars
  BY <1>7
<1> QED BY <1>1, <1>2, <1>3, <1>4, <1>5, <1>6, <1>7, <1>8 DEF MachineNext

(* The times of rows are numbers.                                          *)
LEMMA RowTimes ==
  ASSUME NEW table \in Seq(Rows)
  PROVE  \A i \in 1..Len(table) : table[i].at \in Nat
<1>1. \A r \in Rows : r.at \in Nat
  BY DEF Rows
<1>2. \A i \in 1..Len(table) : table[i] \in Rows
  OBVIOUS
<1> QED BY <1>1, <1>2

(* A step of the store keeps the order.                                    *)
LEMMA SettingStep == SettingInv /\ [StoreNext]_storeVars => SettingInv'
<1> SUFFICES ASSUME SettingInv, [StoreNext]_storeVars PROVE SettingInv'
  OBVIOUS
<1> USE StoreAssumption DEF SettingInv
<1>1. CASE Tick
  <2>1. \A i \in 1..Len(setting_change) : setting_change[i].at \in Nat
    BY RowTimes
  <2>2. appending[Recorder] # "idle" => row[Recorder].at \in Nat
    BY DEF Rows
  <2> QED BY <1>1, <2>1, <2>2 DEF Tick
<1>2. ASSUME NEW w \in Writers, NEW value \in Int, TakeTimestamp(w, value) PROVE SettingInv'
  <2>1. [by |-> w, holds |-> value, at |-> now] \in Rows
    BY DEF Rows
  <2>2. row' \in [Writers -> Rows] /\ appending' \in [Writers -> {"idle", "waiting", "inserting"}]
    BY <1>2, <2>1 DEF TakeTimestamp
  <2>3. CASE w = Recorder
    <3>1. row'[Recorder].at = now
      BY <1>2, <2>3 DEF TakeTimestamp
    <3> QED BY <1>2, <2>2, <3>1 DEF TakeTimestamp
  <2>4. CASE w # Recorder
    <3>1. row'[Recorder] = row[Recorder] /\ appending'[Recorder] = appending[Recorder]
      BY <1>2, <2>4 DEF TakeTimestamp
    <3> QED BY <1>2, <2>2, <3>1 DEF TakeTimestamp
  <2> QED BY <2>3, <2>4
<1>3. ASSUME NEW w \in Writers, TakeWriteLock(w) PROVE SettingInv'
  <2>1. /\ appending' \in [Writers -> {"idle", "waiting", "inserting"}]
        /\ appending'[Recorder] # "idle" => appending[Recorder] # "idle"
    BY <1>3 DEF TakeWriteLock
  <2> QED BY <1>3, <2>1 DEF TakeWriteLock
<1>4. ASSUME NEW w \in Writers, LockedOut(w) \/ WriterKilled(w) PROVE SettingInv'
  <2>1. NoRow \in Rows
    BY DEF NoRow, Rows
  <2>2. /\ appending' \in [Writers -> {"idle", "waiting", "inserting"}] /\ row' \in [Writers -> Rows]
        /\ appending'[Recorder] # "idle" => appending[Recorder] # "idle" /\ row'[Recorder] = row[Recorder]
    BY <1>4, <2>1 DEF LockedOut, WriterKilled
  <2> QED BY <1>4, <2>2 DEF LockedOut, WriterKilled
<1>5. ASSUME NEW w \in Writers, Commit(w) PROVE SettingInv'
  <2>1. NoRow \in Rows /\ row[w] \in Rows
    BY DEF NoRow, Rows
  <2>2. /\ appending' \in [Writers -> {"idle", "waiting", "inserting"}] /\ row' \in [Writers -> Rows]
        /\ appending'[Recorder] # "idle" => w # Recorder /\ appending[Recorder] # "idle" /\ row'[Recorder] = row[Recorder]
    BY <1>5, <2>1 DEF Commit
  <2>3. CASE w # Recorder
    BY <1>5, <2>2, <2>3 DEF Commit
  <2>4. CASE w = Recorder
    <3>1. /\ setting_change' = Append(setting_change, row[Recorder]) /\ now' = now
          /\ appending'[Recorder] = "idle" /\ appending[Recorder] # "idle"
      BY <1>5, <2>4 DEF Commit
    <3>2. setting_change' \in Seq(Rows) /\ Len(setting_change') = Len(setting_change) + 1
      BY <2>1, <2>4, <3>1
    <3>3. \A i \in 1..Len(setting_change) : setting_change'[i] = setting_change[i]
      BY <2>1, <2>4, <3>1
    <3>4. setting_change'[Len(setting_change')] = row[Recorder]
      BY <2>1, <2>4, <3>1
    <3>5. row[Recorder].at \in Nat /\ \A i \in 1..Len(setting_change) : setting_change[i].at \in Nat
      <4>1. \A i \in 1..Len(setting_change) : setting_change[i].at \in Nat
        BY RowTimes
      <4> QED BY <2>1, <2>4, <4>1 DEF Rows
    <3>6. \A i \in 1..Len(setting_change') :
            i \in 1..Len(setting_change) \/ i = Len(setting_change')
      BY <3>2
    <3>7. \A i, j \in 1..Len(setting_change') : i <= j => setting_change'[i].at <= setting_change'[j].at
      <4> SUFFICES ASSUME NEW i \in 1..Len(setting_change'), NEW j \in 1..Len(setting_change'), i <= j
                   PROVE  setting_change'[i].at <= setting_change'[j].at
        OBVIOUS
      <4>1. CASE j \in 1..Len(setting_change)
        BY <4>1, <3>3, <3>2
      <4>2. CASE j = Len(setting_change') /\ i \in 1..Len(setting_change)
        BY <4>2, <3>1, <3>3, <3>4
      <4>3. CASE j = Len(setting_change') /\ i = Len(setting_change')
        BY <4>3, <3>4, <3>5
      <4> QED BY <3>6, <4>1, <4>2, <4>3
    <3>8. \A i \in 1..Len(setting_change') : setting_change'[i].at <= now'
      BY <3>1, <3>3, <3>4, <3>6
    <3> QED BY <2>2, <3>1, <3>2, <3>7, <3>8
  <2> QED BY <2>3, <2>4
<1>6. CASE UNCHANGED storeVars
  BY <1>6 DEF storeVars
<1> QED BY <1>1, <1>2, <1>3, <1>4, <1>5, <1>6 DEF StoreNext

(* In a table in the order of its times the last row is the current one.   *)
LEMMA LastIsCurrent == SettingInv => CurrentIsLastRecorded
<1> SUFFICES ASSUME SettingInv, setting_change # <<>> PROVE ReadCurrentSetting = Len(setting_change)
  BY DEF CurrentIsLastRecorded
<1> DEFINE IsLast(i) == \A j \in DOMAIN setting_change :
                        \/ setting_change[j].at < setting_change[i].at
                        \/ setting_change[j].at = setting_change[i].at /\ j <= i
<1>1. /\ DOMAIN setting_change = 1..Len(setting_change) /\ Len(setting_change) \in Nat \ {0}
      /\ \A i \in DOMAIN setting_change : setting_change[i].at \in Nat
  BY RowTimes DEF SettingInv
<1>2. Len(setting_change) \in DOMAIN setting_change /\ IsLast(Len(setting_change))
  BY <1>1 DEF SettingInv
<1>3. ASSUME NEW i \in DOMAIN setting_change, IsLast(i) PROVE i = Len(setting_change)
  BY <1>1, <1>2, <1>3 DEF SettingInv
<1> HIDE DEF IsLast
<1>4. (CHOOSE i \in DOMAIN setting_change : IsLast(i)) = Len(setting_change)
  BY <1>2, <1>3
<1> QED BY <1>4 DEF ReadCurrentSetting, IsLast

(* read_current_setting_and_change_time finds the change recorded last,    *)
(* also among changes of one instant.  One process records them; any number*)
(* of others take the same write lock before it, or fail at it.            *)
THEOREM MachineCurrentIsLastRecorded == MachineSpec => []CurrentIsLastRecorded
<1>1. MachineInit => SettingInv
  <2> SUFFICES ASSUME MachineInit PROVE SettingInv
    OBVIOUS
  <2>1. NoRow \in Rows
    BY DEF NoRow, Rows
  <2>2. setting_change = <<>> /\ now = 0
    BY DEF MachineInit, StoreInit
  <2> QED BY <2>1, <2>2, StoreAssumption DEF MachineInit, StoreInit, SettingInv
<1>2. MachineSpec => []NumericTypeOK
  BY MachineImplementsNumericState, NumericTypeCorrect, PTL
<1> QED BY <1>1, <1>2, SettingStep, MachineStepsStore, LastIsCurrent, PTL DEF MachineSpec

-----------------------------------------------------------------------------
(* The variables of a launch, a placement, the directory's check and the   *)
(* store.                                                                  *)
GovernorTypeOK ==
  /\ LauncherTypeOK /\ PlacementTypeOK
  /\ directory \in {"unchecked", "accepted", "refused"} /\ exists \in 0..Len(Directory)
  /\ now \in Nat /\ lock \in Writers \cup {Nobody}
  /\ appending \in [Writers -> {"idle", "waiting", "inserting"}]

(* The governor's own steps keep their types.                              *)
LEMMA LauncherTypeStep == LauncherTypeOK /\ [MachineNext]_machineVars => LauncherTypeOK'
<1> SUFFICES ASSUME LauncherTypeOK, [MachineNext]_machineVars PROVE LauncherTypeOK'
  OBVIOUS
<1> USE DEF LauncherTypeOK, Counts, NotRunning, Several
<1>1. CASE Launch
  <2>1. CASE StartForkserver
    BY <2>1 DEF StartForkserver
  <2>2. CASE ForkRefused \/ ForkserverDies
    BY <2>2 DEF ForkRefused, ForkserverDies
  <2>3. ASSUME NEW observed \in Counts, ReadKernelThreadCount(observed) PROVE LauncherTypeOK'
    BY <2>3 DEF ReadKernelThreadCount
  <2> QED BY <1>1, <2>1, <2>2, <2>3 DEF Launch
<1>2. CASE Spawn
  BY <1>2 DEF Spawn, SpawnPart, ThreadsOfServer
<1>3. CASE SwitchOnAgain
  BY <1>3 DEF SwitchOnAgain, ThreadsOfServer
<1>4. CASE Kill
  BY <1>4 DEF Kill, PartGone
<1>5. CASE UNCHANGED launcherVars
  BY <1>5 DEF launcherVars
<1>6. ASSUME Place \/ CheckDirectory \/ KeepState \/ Publish \/ AnotherPublishes \/ RecordSettingChange \/ StoreStep
             \/ WriteTape \/ RemoveByHand \/ UNCHANGED machineVars
      PROVE  UNCHANGED launcherVars
  BY <1>6 DEF Place, CheckDirectory, KeepState, Publish, AnotherPublishes, RecordSettingChange, StoreStep, WriteTape,
              RemoveByHand, governorVars, machineVars
<1> QED BY <1>1, <1>2, <1>3, <1>4, <1>5, <1>6 DEF MachineNext

(* A path read from /proc while the call lasts is one of a process in it.  *)
LEMMA PlacementTypeStep ==
  PlacementInv /\ PlacementTypeOK /\ [MachineNext]_machineVars => PlacementTypeOK'
<1> SUFFICES ASSUME PlacementInv, PlacementTypeOK, [MachineNext]_machineVars PROVE PlacementTypeOK'
  OBVIOUS
<1> USE DEF PlacementTypeOK
<1>1. CASE Spawn
  BY <1>1 DEF Spawn, SpawnPart, ForkedOutsideScope
<1>2. CASE Place
  <2>1. CASE StartTransientUnit
    <3>1. job' \in {"none", "queued"}
      BY <2>1 DEF StartTransientUnit
    <3> QED BY <2>1, <3>1 DEF StartTransientUnit
  <2>5. CASE JobRuns \/ UnitUnloads
    <3>1. unit' \in BOOLEAN
      BY <2>5, Zenon DEF JobRuns, UnitUnloads
    <3> QED BY <2>5, <3>1 DEF JobRuns, UnitUnloads
  <2>2. CASE Poll \/ Sleep
    BY <2>2 DEF Poll, Sleep
  <2>3. CASE ReturnPath
    BY <2>3 DEF ReturnPath, PlacementInv
  <2>4. CASE RaisePlacementNotConfirmed \/ CallDropped
    BY <2>4 DEF RaisePlacementNotConfirmed, CallDropped
  <2> QED BY <1>2, <2>1, <2>2, <2>3, <2>4, <2>5 DEF Place
<1>3. CASE SwitchOnAgain
  BY <1>3 DEF SwitchOnAgain
<1>4. CASE Kill
  BY <1>4 DEF Kill, LeftScope, InCall
<1>5. CASE UNCHANGED placementVars
  BY <1>5 DEF placementVars
<1>6. ASSUME Launch \/ CheckDirectory \/ KeepState \/ Publish \/ AnotherPublishes \/ RecordSettingChange \/ StoreStep
             \/ WriteTape \/ RemoveByHand \/ UNCHANGED machineVars
      PROVE  UNCHANGED placementVars
  BY <1>6 DEF Launch, CheckDirectory, KeepState, Publish, AnotherPublishes, RecordSettingChange, StoreStep, WriteTape,
              RemoveByHand, governorVars, machineVars
<1> QED BY <1>1, <1>2, <1>3, <1>4, <1>5, <1>6 DEF MachineNext

(* And so do the check of the directory and the lock of the store.         *)
LEMMA SharedTypeStep ==
  ASSUME GovernorTypeOK, NumericTypeOK, SettingInv, [MachineNext]_machineVars
  PROVE  /\ directory' \in {"unchecked", "accepted", "refused"} /\ exists' \in 0..Len(Directory)
         /\ lock' \in Writers \cup {Nobody}
<1>1. directory' \in {"unchecked", "accepted", "refused"} /\ exists' \in 0..Len(Directory)
  <2>1. CASE CheckDirectory
    BY <2>1, StorageAssumption DEF CheckDirectory, ReadMountTable, RequireDurableDirectory, GovernorTypeOK
  <2>2. CASE UNCHANGED storageVars
    BY <2>2 DEF storageVars, GovernorTypeOK
  <2>3. ASSUME ~CheckDirectory PROVE UNCHANGED storageVars
    BY <2>3 DEF MachineNext, Launch, Spawn, Place, SwitchOnAgain, KeepState, Publish, AnotherPublishes, RecordSettingChange,
                StoreStep, WriteTape, Kill, RemoveByHand, machineVars
  <2> QED BY <2>1, <2>2, <2>3
<1>2. lock' \in Writers \cup {Nobody}
  <2>1. [StoreNext]_storeVars
    BY MachineStepsStore
  <2>2. CASE Tick \/ UNCHANGED storeVars
    BY <2>2 DEF Tick, storeVars, GovernorTypeOK
  <2>3. ASSUME NEW w \in Writers,
               \/ \E value \in Int : TakeTimestamp(w, value)
               \/ TakeWriteLock(w) \/ LockedOut(w) \/ Commit(w) \/ WriterKilled(w)
        PROVE  lock' \in Writers \cup {Nobody}
    BY <2>3 DEF TakeTimestamp, TakeWriteLock, LockedOut, Commit, WriterKilled, GovernorTypeOK
  <2> QED BY <2>1, <2>2, <2>3 DEF StoreNext
<1> QED BY <1>1, <1>2

(* Every variable of a part's life on the machine keeps its type.          *)
THEOREM MachineTypeCorrect == MachineSpec => []MachineTypeOK
<1> DEFINE Inv == GovernorTypeOK /\ PlacementInv /\ SettingInv
<1>1. MachineInit => Inv
  <2> SUFFICES ASSUME MachineInit PROVE Inv
    OBVIOUS
  <2>1. NoRow \in Rows
    BY DEF NoRow, Rows
  <2>2. SettingInv
    BY <2>1, StoreAssumption DEF MachineInit, StoreInit, SettingInv
  <2>3. LauncherTypeOK /\ PlacementTypeOK /\ PlacementInv
    BY DEF MachineInit, LauncherInit, PlacementInit, LauncherTypeOK, PlacementTypeOK, PlacementInv,
           ReturnedIsInItsScope, NotRunning
  <2> QED BY <2>2, <2>3, StorageAssumption DEF MachineInit, StorageInit, StoreInit, GovernorTypeOK
<1>2. Inv /\ NumericTypeOK /\ [MachineNext]_machineVars => Inv'
  <2> SUFFICES ASSUME Inv, NumericTypeOK, [MachineNext]_machineVars PROVE Inv'
    OBVIOUS
  <2>1. SettingInv'
    BY MachineStepsStore, SettingStep
  <2>2. PlacementInv' /\ PlacementTypeOK' /\ LauncherTypeOK'
    BY PlacementStep, PlacementTypeStep, LauncherTypeStep DEF GovernorTypeOK
  <2>3. now' \in Nat /\ appending' \in [Writers -> {"idle", "waiting", "inserting"}]
    BY <2>1 DEF SettingInv
  <2> QED BY <2>1, <2>2, <2>3, SharedTypeStep, Zenon DEF GovernorTypeOK
<1>3. MachineSpec => [](NumericTypeOK /\ WriterTypeOK)
  BY MachineImplementsNumericState, NumericTypeCorrect, MachineImplementsWriter, WriterTypeCorrect, PTL
<1>4. Inv /\ NumericTypeOK /\ WriterTypeOK => MachineTypeOK
  BY Zenon DEF GovernorTypeOK, MachineTypeOK
<1> HIDE DEF Inv
<1> QED BY <1>1, <1>2, <1>3, <1>4, PTL DEF MachineSpec

-----------------------------------------------------------------------------
(* The rows found that come before one of them, and the place that gives   *)
(* it.                                                                     *)
EarlierIn(table, found, i) == {j \in found : Before(table, j, i)}
PlaceIn(table, found, i) == 1 + Cardinality(EarlierIn(table, found, i))

(* Time and then id order the rows of a table, whatever times they carry.  *)
LEMMA RowsAreOrdered ==
  ASSUME NEW table \in Seq(Rows), NEW i \in DOMAIN table, NEW j \in DOMAIN table
  PROVE  /\ i = j \/ Before(table, i, j) \/ Before(table, j, i)
         /\ ~(Before(table, i, j) /\ Before(table, j, i))
         /\ \A k \in DOMAIN table : Before(table, i, j) /\ Before(table, j, k) => Before(table, i, k)
<1>1. DOMAIN table = 1..Len(table) /\ \A k \in DOMAIN table : table[k].at \in Nat
  BY RowTimes
<1> QED BY <1>1 DEF Before

(* The rows found in a table take the places 1, 2, ... up to their number, *)
(* one each: a row has fewer before it than the next one.                  *)
LEMMA PlacesAreTaken ==
  ASSUME NEW table \in Seq(Rows), NEW found, found \subseteq DOMAIN table
  PROVE  /\ IsFiniteSet(found) /\ Cardinality(found) \in Nat
         /\ \A i, j \in found : Before(table, i, j) => PlaceIn(table, found, i) < PlaceIn(table, found, j)
         /\ \A i \in found : PlaceIn(table, found, i) \in 1..Cardinality(found)
         /\ \A n \in 1..Cardinality(found) : \E i \in found : PlaceIn(table, found, i) = n
<1> DEFINE N == Cardinality(found)
           place == [i \in found |-> PlaceIn(table, found, i)]
<1>1. IsFiniteSet(found) /\ N \in Nat
  <2>1. IsFiniteSet(1..Len(table))
    BY FS_Interval
  <2> QED BY <2>1, FS_Subset, FS_CardinalityType
<1>2. ASSUME NEW i \in found
      PROVE  /\ EarlierIn(table, found, i) \subseteq found \ {i}
             /\ IsFiniteSet(EarlierIn(table, found, i))
             /\ Cardinality(EarlierIn(table, found, i)) \in 0..(N - 1)
  <2>1. EarlierIn(table, found, i) \subseteq found \ {i}
    BY RowsAreOrdered DEF EarlierIn
  <2>2. IsFiniteSet(EarlierIn(table, found, i)) /\ Cardinality(EarlierIn(table, found, i)) <= N
        /\ Cardinality(EarlierIn(table, found, i)) # N /\ Cardinality(EarlierIn(table, found, i)) \in Nat
    BY <1>1, <2>1, FS_Subset, FS_CardinalityType
  <2> QED BY <1>1, <2>1, <2>2
<1>3. ASSUME NEW i \in found, NEW j \in found, Before(table, i, j)
      PROVE  PlaceIn(table, found, i) < PlaceIn(table, found, j)
  <2>1. EarlierIn(table, found, i) \subseteq EarlierIn(table, found, j)
    BY <1>3, RowsAreOrdered DEF EarlierIn
  <2>2. i \in EarlierIn(table, found, j) /\ i \notin EarlierIn(table, found, i)
    BY <1>2, <1>3 DEF EarlierIn
  <2>3. Cardinality(EarlierIn(table, found, i)) < Cardinality(EarlierIn(table, found, j))
    <3>1. /\ Cardinality(EarlierIn(table, found, i)) <= Cardinality(EarlierIn(table, found, j))
          /\ Cardinality(EarlierIn(table, found, i)) # Cardinality(EarlierIn(table, found, j))
      BY <1>2, <2>1, <2>2, FS_Subset
    <3> QED BY <1>2, <3>1
  <2> QED BY <1>2, <2>3 DEF PlaceIn
<1>4. \A i \in found : PlaceIn(table, found, i) \in 1..N
  BY <1>1, <1>2 DEF PlaceIn
<1>5. \A i, j \in found : i # j => place[i] # place[j]
  <2> SUFFICES ASSUME NEW i \in found, NEW j \in found, i # j PROVE place[i] # place[j]
    OBVIOUS
  <2>1. Before(table, i, j) \/ Before(table, j, i)
    BY RowsAreOrdered
  <2> QED BY <1>3, <1>4, <2>1
<1>6. place \in [found -> 1..N]
  BY <1>4
<1>7. place \in Injection(found, 1..N)
  BY <1>5, <1>6 DEF Injection, IsInjective
<1>8. IsFiniteSet(1..N) /\ Cardinality(1..N) = N
  BY <1>1, FS_Interval
<1>9. place \in Surjection(found, 1..N)
  BY <1>7, <1>8, FS_Injection
<1>10. \A n \in 1..N : \E i \in found : place[i] = n
  BY <1>9 DEF Surjection
<1> QED BY <1>1, <1>3, <1>4, <1>10

(* A function on 1..n is a sequence of length n.                           *)
LEMMA SequenceOf ==
  ASSUME NEW S, NEW n \in Nat, NEW f \in [1..n -> S]
  PROVE  f \in Seq(S) /\ Len(f) = n
OBVIOUS

(* An entry of an answer: the row and its id.                              *)
Entry == [row : Rows, id : Nat]

(* An entry is determined by its row and its id.                           *)
LEMMA EntryFields ==
  /\ \A e \in Entry : e.row \in Rows /\ e.id \in Nat
  /\ \A e, f \in Entry : e.row = f.row /\ e.id = f.id => e = f
  /\ \A r \in Rows, i \in Nat : [row |-> r, id |-> i] \in Entry
BY DEF Entry

(* The rows found, each in its place.                                      *)
Answers(entries, table, found) ==
  /\ found \subseteq DOMAIN table /\ Len(entries) = Cardinality(found)
  /\ entries \in Seq(Entry)
  /\ \A n \in 1..Len(entries) :
       /\ entries[n].id \in found /\ entries[n].row = table[entries[n].id]
       /\ PlaceIn(table, found, entries[n].id) = n

(* read_entries_in_window returns the rows found, each in its place.       *)
LEMMA EntriesAre ==
  ASSUME NEW table \in Seq(Rows), NEW part, NEW start \in Int, NEW end \in Int
  PROVE  Answers(ReadEntriesInWindow(table, part, start, end), table, InWindow(table, part, start, end))
<1>a. PICK entries : entries = ReadEntriesInWindow(table, part, start, end)
  OBVIOUS
<1>b. PICK found : found = InWindow(table, part, start, end)
  OBVIOUS
<1> DEFINE N == Cardinality(found)
           position(i) == 1 + Cardinality({j \in found : Before(table, j, i)})
           nth(n) == CHOOSE i \in found : position(i) = n
<1>1. found \subseteq DOMAIN table /\ DOMAIN table = 1..Len(table)
  BY <1>b DEF InWindow
<1>2. \A i : position(i) = PlaceIn(table, found, i)
  BY DEF PlaceIn, EarlierIn
<1>4. entries = [n \in 1..N |-> [row |-> table[nth(n)], id |-> nth(n)]]
  <2>1. ReadEntriesInWindow(table, part, start, end)
          = [n \in 1..N |-> [row |-> table[nth(n)], id |-> nth(n)]]
    BY <1>b, Zenon DEF ReadEntriesInWindow
  <2> QED BY <1>a, <2>1, Zenon
<1> HIDE DEF position
<1>5. N \in Nat /\ \A n \in 1..N : \E i \in found : position(i) = n
  BY <1>1, <1>2, PlacesAreTaken
<1>3. \A n \in 1..N : nth(n) \in found /\ position(nth(n)) = n
  BY <1>5
<1> HIDE DEF nth
<1>6. \A n \in 1..N : [row |-> table[nth(n)], id |-> nth(n)] \in Entry
  <2>1. \A n \in 1..N : nth(n) \in Nat /\ table[nth(n)] \in Rows
    BY <1>1, <1>3
  <2> QED BY <2>1, EntryFields
<1> HIDE DEF N
<1>7. entries \in Seq(Entry) /\ Len(entries) = N
  <2>1. entries \in [1..N -> Entry]
    BY <1>4, <1>6
  <2> QED BY <1>5, <2>1, SequenceOf
<1>8. \A n \in 1..N : entries[n].id = nth(n) /\ entries[n].row = table[nth(n)]
  BY <1>4
<1>9. \A n \in 1..N : nth(n) \in found /\ PlaceIn(table, found, nth(n)) = n
  BY <1>2, <1>3
<1>10. \A n \in 1..N : entries[n].id \in found /\ entries[n].row = table[entries[n].id]
                       /\ PlaceIn(table, found, entries[n].id) = n
  BY <1>8, <1>9
<1>11. Answers(entries, table, found)
  BY <1>1, <1>7, <1>10 DEF Answers, N
<1> QED BY <1>a, <1>b, <1>11

(* The rows of each writer are in the order of their times, no row is from *)
(* the future, and the row a writer is appending comes after those it      *)
(* appended.  Rows of different writers need not be in order: one may      *)
(* commit what it dated before the other's.                                *)
JournalInv ==
  /\ now \in Nat /\ appending \in [Writers -> {"idle", "waiting", "inserting"}]
  /\ row \in [Writers -> Rows] /\ journal_entry \in Seq(Rows)
  /\ \A i \in 1..Len(journal_entry) : journal_entry[i].at <= now
  /\ \A w \in Writers : appending[w] # "idle" =>
       /\ row[w].by = w /\ row[w].at <= now
       /\ \A i \in 1..Len(journal_entry) : journal_entry[i].by = w => journal_entry[i].at <= row[w].at

(* A step of the store keeps that order.                                   *)
LEMMA JournalStep == JournalInv /\ [StoreNext]_storeVars => JournalInv'
<1> SUFFICES ASSUME JournalInv, [StoreNext]_storeVars PROVE JournalInv'
  OBVIOUS
<1> USE DEF JournalInv
<1>t. /\ \A i \in 1..Len(journal_entry) : journal_entry[i].at \in Nat
      /\ \A w \in Writers : row[w].at \in Nat
      /\ NoRow \in Rows
  <2>1. \A i \in 1..Len(journal_entry) : journal_entry[i].at \in Nat
    BY RowTimes
  <2>2. NoRow \in Rows
    BY DEF Rows, NoRow
  <2>3. \A r \in Rows : r.at \in Nat
    BY DEF Rows
  <2> QED BY <2>1, <2>2, <2>3
<1>1. CASE Tick
  BY <1>1, <1>t DEF Tick
<1>2. ASSUME NEW w \in Writers, NEW value \in Int, TakeTimestamp(w, value) PROVE JournalInv'
  <2>1. [by |-> w, holds |-> value, at |-> now] \in Rows
    BY DEF Rows
  <2>2. row' \in [Writers -> Rows] /\ appending' \in [Writers -> {"idle", "waiting", "inserting"}]
    BY <1>2, <2>1 DEF TakeTimestamp
  <2>3. row'[w].by = w /\ row'[w].at = now
    BY <1>2 DEF TakeTimestamp
  <2>4. \A u \in Writers \ {w} : row'[u] = row[u] /\ appending'[u] = appending[u]
    BY <1>2 DEF TakeTimestamp
  <2> QED BY <1>2, <2>2, <2>3, <2>4 DEF TakeTimestamp
<1>3. ASSUME NEW w \in Writers, TakeWriteLock(w) PROVE JournalInv'
  <2>1. /\ appending' \in [Writers -> {"idle", "waiting", "inserting"}]
        /\ \A u \in Writers : appending'[u] # "idle" => appending[u] # "idle"
    BY <1>3 DEF TakeWriteLock
  <2> QED BY <1>3, <2>1 DEF TakeWriteLock
<1>4. ASSUME NEW w \in Writers, LockedOut(w) \/ WriterKilled(w) PROVE JournalInv'
  <2>2. /\ appending' \in [Writers -> {"idle", "waiting", "inserting"}] /\ row' \in [Writers -> Rows]
        /\ \A u \in Writers : appending'[u] # "idle" => appending[u] # "idle" /\ row'[u] = row[u]
    BY <1>4, <1>t DEF LockedOut, WriterKilled
  <2> QED BY <1>4, <2>2 DEF LockedOut, WriterKilled
<1>5. ASSUME NEW w \in Writers, Commit(w) PROVE JournalInv'
  <2>1. row[w] \in Rows /\ row[w].by = w /\ row[w].at <= now /\ now' = now
    BY <1>5 DEF Commit
  <2>2. /\ appending' \in [Writers -> {"idle", "waiting", "inserting"}] /\ row' \in [Writers -> Rows]
        /\ \A u \in Writers : appending'[u] # "idle" =>
             u # w /\ appending[u] # "idle" /\ row'[u] = row[u]
    BY <1>5, <1>t DEF Commit
  <2>3. CASE w = Recorder
    BY <1>5, <2>2, <2>3 DEF Commit
  <2>4. CASE w # Recorder
    <3>1. journal_entry' = Append(journal_entry, row[w])
      BY <1>5, <2>4 DEF Commit
    <3>2. journal_entry' \in Seq(Rows) /\ Len(journal_entry') = Len(journal_entry) + 1
      BY <2>1, <3>1
    <3>3. \A i \in 1..Len(journal_entry) : journal_entry'[i] = journal_entry[i]
      BY <2>1, <3>1
    <3>4. journal_entry'[Len(journal_entry')] = row[w]
      BY <2>1, <3>1
    <3>5. \A i \in 1..Len(journal_entry') : i \in 1..Len(journal_entry) \/ i = Len(journal_entry')
      BY <3>2
    <3>6. \A i \in 1..Len(journal_entry') : journal_entry'[i].at <= now'
      BY <2>1, <3>3, <3>4, <3>5
    <3>7. ASSUME NEW u \in Writers, appending'[u] # "idle"
          PROVE  /\ row'[u].by = u /\ row'[u].at <= now'
                 /\ \A i \in 1..Len(journal_entry') :
                      journal_entry'[i].by = u => journal_entry'[i].at <= row'[u].at
      <4>1. u # w /\ appending[u] # "idle" /\ row'[u] = row[u]
        BY <2>2, <3>7
      <4> QED BY <2>1, <3>3, <3>4, <3>5, <4>1
    <3> QED BY <2>1, <2>2, <3>2, <3>6, <3>7
  <2> QED BY <2>3, <2>4
<1>6. CASE UNCHANGED storeVars
  BY <1>6 DEF storeVars
<1> QED BY <1>1, <1>2, <1>3, <1>4, <1>5, <1>6 DEF StoreNext

(* A row no earlier than its writer's others goes to the end of the        *)
(* windows it falls in, and moves none of the entries there were.          *)
LEMMA LateRowComesLast ==
  ASSUME NEW table \in Seq(Rows), NEW new \in Rows, NEW part, NEW start \in Int, NEW end \in Int,
         \A i \in 1..Len(table) : table[i].by = new.by => table[i].at <= new.at
  PROVE  IsPrefix(ReadEntriesInWindow(table, part, start, end),
                  ReadEntriesInWindow(Append(table, new), part, start, end))
<1> DEFINE last == Len(table) + 1
<1>1. PICK later : later = Append(table, new)
  OBVIOUS
<1>2. /\ later \in Seq(Rows) /\ DOMAIN table = 1..Len(table) /\ DOMAIN later = 1..last
      /\ \A i \in DOMAIN table : later[i] = table[i]
      /\ later[last] = new /\ Len(table) \in Nat
  BY <1>1
<1>3. PICK found : found = InWindow(table, part, start, end)
  OBVIOUS
<1>4. PICK foundLater : foundLater = InWindow(later, part, start, end)
  OBVIOUS
<1>5. PICK entries : entries = ReadEntriesInWindow(table, part, start, end)
  OBVIOUS
<1>6. PICK entriesLater : entriesLater = ReadEntriesInWindow(later, part, start, end)
  OBVIOUS
<1>7. found \subseteq DOMAIN table /\ foundLater \subseteq found \cup {last} /\ found \subseteq foundLater
  BY <1>2, <1>3, <1>4 DEF InWindow
<1>8. ASSUME last \in foundLater, NEW i \in found PROVE Before(later, i, last)
  <2>1. table[i].by = part /\ new.by = part /\ i \in 1..Len(table)
    BY <1>2, <1>3, <1>4, <1>7, <1>8 DEF InWindow
  <2>2. table[i].at <= new.at /\ table[i].at \in Nat /\ new.at \in Nat
    BY <2>1, RowTimes DEF Rows
  <2> QED BY <1>2, <2>1, <2>2 DEF Before
<1>9. ASSUME NEW i \in found PROVE EarlierIn(later, foundLater, i) = EarlierIn(table, found, i)
  <2>1. \A j \in found : Before(later, j, i) <=> Before(table, j, i)
    BY <1>2, <1>7 DEF Before
  <2>2. last \in foundLater => ~Before(later, last, i)
    BY <1>2, <1>7, <1>8, RowsAreOrdered
  <2> QED BY <1>7, <2>1, <2>2 DEF EarlierIn
<1>10. ASSUME NEW i \in found PROVE PlaceIn(later, foundLater, i) = PlaceIn(table, found, i)
  BY <1>9 DEF PlaceIn
<1>11. /\ Len(entries) = Cardinality(found) /\ entries \in Seq(Entry)
       /\ \A n \in 1..Len(entries) :
            /\ entries[n].id \in found /\ entries[n].row = table[entries[n].id]
            /\ PlaceIn(table, found, entries[n].id) = n
  <2>1. Answers(entries, table, found)
    BY <1>3, <1>5, EntriesAre
  <2> QED BY <2>1, Zenon DEF Answers
<1>12. /\ Len(entriesLater) = Cardinality(foundLater) /\ entriesLater \in Seq(Entry)
       /\ \A n \in 1..Len(entriesLater) :
            /\ entriesLater[n].id \in foundLater /\ entriesLater[n].row = later[entriesLater[n].id]
            /\ PlaceIn(later, foundLater, entriesLater[n].id) = n
  <2>1. Answers(entriesLater, later, foundLater)
    BY <1>2, <1>4, <1>6, EntriesAre
  <2> QED BY <2>1, Zenon DEF Answers
<1>13. Len(entries) <= Len(entriesLater) /\ Len(entries) \in Nat /\ Len(entriesLater) \in Nat
  <2>1. IsFiniteSet(foundLater) /\ foundLater \subseteq DOMAIN later
    BY <1>2, <1>7, PlacesAreTaken
  <2> QED BY <1>7, <1>11, <1>12, <2>1, FS_Subset
<1>14. \A i, j \in foundLater : i # j =>
         PlaceIn(later, foundLater, i) # PlaceIn(later, foundLater, j)
  <2>1. foundLater \subseteq DOMAIN later
    BY <1>2, <1>7
  <2> SUFFICES ASSUME NEW i \in foundLater, NEW j \in foundLater, i # j
               PROVE  PlaceIn(later, foundLater, i) # PlaceIn(later, foundLater, j)
    OBVIOUS
  <2>2. Before(later, i, j) \/ Before(later, j, i)
    BY <1>2, <2>1, RowsAreOrdered
  <2>3. /\ \A a, b \in foundLater :
             Before(later, a, b) => PlaceIn(later, foundLater, a) < PlaceIn(later, foundLater, b)
        /\ \A a \in foundLater : PlaceIn(later, foundLater, a) \in 1..Cardinality(foundLater)
    BY <1>2, <2>1, PlacesAreTaken
  <2>4. PlaceIn(later, foundLater, i) \in Int /\ PlaceIn(later, foundLater, j) \in Int
    BY <2>3
  <2> QED BY <2>2, <2>3, <2>4
<1>15. ASSUME NEW n \in 1..Len(entries) PROVE entriesLater[n] = entries[n]
  <2>1. n \in 1..Len(entriesLater)
    BY <1>13
  <2>2. PICK i \in found : i = entries[n].id
    BY <1>11
  <2>3. PICK j \in foundLater : j = entriesLater[n].id
    BY <1>12, <2>1
  <2>4. PlaceIn(later, foundLater, i) = n /\ PlaceIn(later, foundLater, j) = n
    BY <1>10, <1>11, <1>12, <2>1, <2>2, <2>3
  <2>5. i = j
    BY <1>7, <1>14, <2>4
  <2>8. later[i] = table[i]
    BY <1>2, <1>7
  <2>6. entries[n].row = entriesLater[n].row /\ entries[n].id = entriesLater[n].id
    BY <1>11, <1>12, <2>1, <2>2, <2>3, <2>5, <2>8
  <2>7. entries[n] \in Entry /\ entriesLater[n] \in Entry
    BY <1>11, <1>12, <2>1
  <2> QED BY <2>6, <2>7, EntryFields
<1>16. IsPrefix(entries, entriesLater)
  <2>1. SubSeq(entries, 1, Len(entries)) = SubSeq(entriesLater, 1, Len(entries))
    BY <1>11, <1>12, <1>13, <1>15
  <2> QED BY <1>13, <2>1 DEF IsPrefix
<1> QED BY <1>1, <1>5, <1>6, <1>16

(* What the store says of the part is a number.                            *)
LEMMA PublishedIsANumber ==
  ASSUME JournalInv
  PROVE  Published \in Int
<1>1. PICK entries : entries = Entries
  OBVIOUS
<1>2. entries \in Seq(Entry)
  BY <1>1, EntriesAre DEF Answers, Entries, JournalInv
<1>3. CASE entries = <<>>
  BY <1>1, <1>3 DEF Published
<1>4. CASE entries # <<>>
  <2>1. Last(entries) \in Entry
    BY <1>2, <1>4 DEF Last
  <2>2. \A e \in Entry : e.row.holds \in Int
    BY EntryFields DEF Rows
  <2> QED BY <1>1, <1>4, <2>1, <2>2 DEF Published
<1> QED BY <1>3, <1>4

(* The stamp is never ahead of the array it dates, and there is none of an *)
(* array that is not there, unless the array was removed and its stamp     *)
(* left.  What was published plays no part in it: reading the stamp back   *)
(* is enough, because it is the only number on this side that may lag.     *)
StampInv ==
  ~stampKept => /\ stampFile <= held
                /\ dataBytes = Absent => stampFile = Absent

(* Every step of a part's files keeps it.                                  *)
LEMMA StampStep ==
  ASSUME NumericTypeOK, OpeningInv, LooksTrue, StampInv, [NumericNext]_numericVars
  PROVE  StampInv'
<1> USE NumericAssumption DEF files, local, removed, NumericTypeOK, Places, Absent, None, Torn, OpeningInv,
        LooksTrue, StampInv, Opening, NO_STAMP_RECORDED
<1>1. ASSUME NEW s \in Specs, LookAtData(s) \/ RefuseSpec(s) PROVE StampInv'
  BY <1>1 DEF LookAtData, RefuseSpec
<1>2. CASE VerifyDeclarationMatches \/ OpenTemporary \/ WriteTemporary \/ ReplaceSidecar \/ MapData
  BY <1>2 DEF VerifyDeclarationMatches, OpenTemporary, WriteTemporary, ReplaceSidecar, MapData
<1>3. CASE TruncateData
  <2>1. opening \in Opening /\ ~data_exists /\ stampKept' = stampKept
    BY <1>3, Zenon DEF TruncateData, Opening, removed
  <2>2. dataBytes = Absent
    BY <2>1, Zenon DEF LooksTrue
  <2>3. ~stampKept' => stampFile = Absent
    <3>1. ~stampKept' => ~stampKept
      BY <2>1, Zenon
    <3> QED BY <2>2, <3>1 DEF StampInv
  <2>4. dataBytes' = 0 /\ held' = 0 /\ stampFile' = stampFile
    BY <1>3 DEF TruncateData
  <2> QED BY <2>3, <2>4 DEF StampInv, Absent
<1>4. CASE ExtendData
  BY <1>4 DEF ExtendData
<1>5. CASE MapStamp
  BY <1>5 DEF MapStamp
<1>6. CASE UpdateArray \/ RecordSequenceStamp
  BY <1>6 DEF UpdateArray, RecordSequenceStamp
<1>7. CASE Unmapped
  BY <1>7 DEF Unmapped
<1>8. ASSUME NEW which \in SUBSET {"data", "declaration", "stamp"}, RemoveFiles(which) PROVE StampInv'
  <2>1. CASE "data" \in which
    <3>1. stampKept' = ("stamp" \notin which)
      BY <1>8, <2>1, Zenon DEF RemoveFiles
    <3>2. ~stampKept' => "stamp" \in which
      BY <3>1, Zenon
    <3>3. "stamp" \in which => stampFile' = Absent
      BY <1>8, Zenon DEF RemoveFiles
    <3>4. held' = 0
      BY <1>8, <2>1, Zenon DEF RemoveFiles
    <3> QED BY <3>2, <3>3, <3>4 DEF StampInv, Absent
  <2>2. CASE "data" \notin which
    BY <1>8, <2>2 DEF RemoveFiles
  <2> QED BY <2>1, <2>2
<1>9. CASE UNCHANGED numericVars
  BY <1>9 DEF numericVars
<1> QED BY <1>1, <1>2, <1>3, <1>4, <1>5, <1>6, <1>7, <1>8, <1>9 DEF NumericNext, OpenStep

(* A part switched on with less in its array than it had published finds   *)
(* the gap between its stamp and the journal, through every kill,          *)
(* reopening and removal of its files but the one that leaves the stamp of *)
(* an array taken away.                                                    *)
THEOREM MachineReseedIsReported == MachineSpec => []ReseedIsReported
<1> DEFINE Inv == NumericInv /\ StampInv /\ SettingInv /\ JournalInv
<1>1. MachineInit => Inv
  <2> SUFFICES ASSUME MachineInit PROVE Inv
    OBVIOUS
  <2>1. NumericInit /\ StoreInit
    BY DEF MachineInit
  <2>2. NoRow \in Rows
    BY DEF NoRow, Rows
  <2>3. SettingInv /\ JournalInv
    BY <2>1, <2>2, StoreAssumption DEF StoreInit, SettingInv, JournalInv
  <2>4. StampInv
    BY <2>1 DEF NumericInit, StampInv, Absent
  <2> QED BY <2>1, <2>3, <2>4, NumericInitial
<1>2. Inv /\ [MachineNext]_machineVars => Inv'
  <2> SUFFICES ASSUME Inv, [MachineNext]_machineVars PROVE Inv'
    OBVIOUS
  <2>1. [NumericNext]_numericVars /\ [StoreNext]_storeVars
    BY MachineStepsNumeric, MachineStepsStore DEF NumericInv
  <2> QED BY <2>1, NumericStep, StampStep, SettingStep, JournalStep DEF NumericInv
<1>3. Inv => ReseedIsReported
  <2> SUFFICES ASSUME Inv, Mapped, held < Published, ~stampKept PROVE HasStateGap(Published)
    BY DEF ReseedIsReported
  <2>1. stampFile <= held /\ stampFile \in Int /\ held \in Int /\ Published \in Int
    BY PublishedIsANumber DEF StampInv, NumericInv, NumericTypeOK, Absent
  <2> QED BY <2>1 DEF HasStateGap
<1> HIDE DEF Inv
<1> QED BY <1>1, <1>2, <1>3, PTL DEF MachineSpec

(* What read_entries_in_window returned for a part stays the beginning of  *)
(* what it returns later for the same window, for any number of other      *)
(* parts that append to the same table, whatever the order in which their  *)
(* rows are stamped and committed, and of processes that fail at it.       *)
THEOREM MachineWindowsGrowAtTheEnd == MachineSpec => WindowsGrowAtTheEnd
<1> DEFINE Inv == NumericTypeOK /\ SettingInv /\ JournalInv
           Grows == \A start \in 0..now, end \in 0..now :
                      IsPrefix(ReadEntriesInWindow(journal_entry, Part, start, end),
                               ReadEntriesInWindow(journal_entry', Part, start, end))
<1>1. MachineSpec => []Inv
  <2>1. MachineInit => SettingInv /\ JournalInv
    <3> SUFFICES ASSUME MachineInit PROVE SettingInv /\ JournalInv
      OBVIOUS
    <3>1. NoRow \in Rows
      BY DEF NoRow, Rows
    <3> QED BY <3>1, StoreAssumption DEF MachineInit, StoreInit, SettingInv, JournalInv
  <2>2. SettingInv /\ JournalInv /\ NumericTypeOK /\ [MachineNext]_machineVars => (SettingInv /\ JournalInv)'
    BY MachineStepsStore, SettingStep, JournalStep
  <2>3. MachineSpec => []NumericTypeOK
    BY MachineImplementsNumericState, NumericTypeCorrect, PTL
  <2> QED BY <2>1, <2>2, <2>3, PTL DEF MachineSpec
<1>2. Inv /\ [MachineNext]_machineVars => [Grows]_storeVars
  <2> SUFFICES ASSUME Inv, [MachineNext]_machineVars, NEW start \in 0..now, NEW end \in 0..now
               PROVE  IsPrefix(ReadEntriesInWindow(journal_entry, Part, start, end),
                               ReadEntriesInWindow(journal_entry', Part, start, end))
    OBVIOUS
  <2>1. [StoreNext]_storeVars
    BY MachineStepsStore
  <2>2. start \in Int /\ end \in Int /\ journal_entry \in Seq(Rows)
    BY DEF JournalInv
  <2>3. CASE journal_entry' = journal_entry
    <3>1. PICK entries : entries = ReadEntriesInWindow(journal_entry, Part, start, end)
      OBVIOUS
    <3>2. entries \in Seq(Entry)
      BY <2>2, <3>1, EntriesAre DEF Answers
    <3>3. IsPrefix(entries, entries)
      BY <3>2 DEF IsPrefix
    <3> QED BY <2>3, <3>1, <3>3
  <2>4. ASSUME NEW w \in Writers, Commit(w), w # Recorder
        PROVE  IsPrefix(ReadEntriesInWindow(journal_entry, Part, start, end),
                        ReadEntriesInWindow(journal_entry', Part, start, end))
    <3>1. /\ journal_entry' = Append(journal_entry, row[w])
          /\ row[w] \in Rows /\ row[w].by = w
          /\ \A i \in 1..Len(journal_entry) : journal_entry[i].by = w => journal_entry[i].at <= row[w].at
      BY <2>4 DEF Commit, JournalInv
    <3> QED BY <2>2, <3>1, LateRowComesLast
  <2>5. journal_entry' = journal_entry \/ \E w \in Writers : Commit(w) /\ w # Recorder
    BY <2>1 DEF StoreNext, storeVars, Tick, TakeTimestamp, TakeWriteLock, LockedOut, WriterKilled, Commit
  <2> QED BY <2>3, <2>4, <2>5
<1> HIDE DEF Inv
<1> QED BY <1>1, <1>2, PTL DEF MachineSpec, WindowsGrowAtTheEnd

-----------------------------------------------------------------------------
(* Where a mount is, is a path.                                            *)
LEMMA MountFields ==
  ASSUME NEW m \in Mounts
  PROVE  m.at \in Seq(STRING) /\ Len(m.at) \in Nat
<1>1. m.at \in Seq(STRING)
  BY DEF Mounts
<1> QED BY <1>1

(* A path that begins another is the other cut off, and begins itself.     *)
LEMMA PrefixIsCut ==
  ASSUME NEW s \in Seq(STRING), NEW p \in Seq(STRING)
  PROVE  /\ IsPrefix(s, p) => s = SubSeq(p, 1, Len(s))
         /\ IsPrefix(s, s)
<1>1. SubSeq(s, 1, Len(s)) = s
  OBVIOUS
<1> QED BY <1>1 DEF IsPrefix

(* The mount the loop keeps: the last of the longest.                      *)
Keeps(table, i) ==
  /\ i \in DOMAIN table
  /\ \A j \in DOMAIN table :
       \/ Len(table[j].at) < Len(table[i].at)
       \/ Len(table[j].at) = Len(table[i].at) /\ j <= i

(* There is one in every table that is not empty.                          *)
LEMMA OneIsKept ==
  ASSUME NEW table \in Seq(Mounts), table # <<>>
  PROVE  \E i \in DOMAIN table : Keeps(table, i)
<1> DEFINE length == [i \in DOMAIN table |-> Len(table[i].at)]
<1>1. DOMAIN table = 1..Len(table) /\ Len(table) \in Nat \ {0}
  OBVIOUS
<1>2. \A i \in DOMAIN table : length[i] \in Nat
  BY MountFields
<1> HIDE DEF length
<1>3. IsFiniteSet(DOMAIN table) /\ DOMAIN table # {}
  <2>1. IsFiniteSet(1..Len(table)) /\ 1 \in 1..Len(table)
    BY <1>1, FS_Interval
  <2> QED BY <1>1, <2>1
<1>4. PICK m \in DOMAIN table : \A i \in DOMAIN table : length[i] <= length[m]
  BY <1>2, <1>3, HighestRated
<1> DEFINE longest == {i \in DOMAIN table : length[i] = length[m]}
           place == [i \in longest |-> i]
<1>5. IsFiniteSet(longest) /\ longest # {}
  BY <1>3, <1>4, FS_Subset
<1>6. \A i \in longest : place[i] \in Int
  BY <1>1
<1> HIDE DEF longest
<1>8. \A i \in longest : place[i] = i
  OBVIOUS
<1> HIDE DEF place
<1>7. PICK k \in longest : \A i \in longest : place[i] <= place[k]
  BY <1>5, <1>6, HighestRated
<1>9. k \in DOMAIN table /\ length[k] = length[m]
  BY DEF longest
<1>10. ASSUME NEW j \in DOMAIN table
       PROVE  length[j] < length[k] \/ (length[j] = length[k] /\ j <= k)
  <2>1. length[j] <= length[k] /\ length[j] \in Nat /\ length[k] \in Nat
    BY <1>2, <1>4, <1>9
  <2>2. CASE length[j] = length[k]
    <3>1. j \in longest
      BY <1>9, <2>2 DEF longest
    <3> QED BY <1>7, <1>8, <2>2, <3>1
  <2> QED BY <2>1, <2>2
<1> QED BY <1>9, <1>10 DEF Keeps, length

(* A table read for a path: its mounts are at the path or above it.        *)
ReadFor(table, path) ==
  table \in Seq(Mounts) /\ path \in Seq(STRING) /\ \A i \in DOMAIN table : IsPrefix(table[i].at, path)

(* Where nothing is buried, the mount kept is the one the kernel takes.    *)
LEMMA KeptIsHeld ==
  ASSUME NEW table, NEW path, ReadFor(table, path), table # <<>>, \A i \in DOMAIN table : ~Buried(table, i)
  PROVE  ReadFilesystemType(table, path) = Holds(table, path)
<1> USE DEF ReadFor
<1>1. Holders(table, path) = DOMAIN table /\ DOMAIN table # {} /\ DOMAIN table = 1..Len(table)
  <2>1. DOMAIN table = 1..Len(table) /\ Len(table) \in Nat \ {0}
    OBVIOUS
  <2>2. 1 \in DOMAIN table
    BY <2>1
  <2>3. Holders(table, path) = DOMAIN table
    BY DEF Holders
  <2> QED BY <2>1, <2>2, <2>3
<1> DEFINE winner == CHOOSE i \in Holders(table, path) :
                       \A j \in Holders(table, path) :
                         \/ Len(table[j].at) < Len(table[i].at)
                         \/ Len(table[j].at) = Len(table[i].at) /\ j <= i
           held_by == CHOOSE i \in InReach(table, path) :
                        \A j \in InReach(table, path) : Len(table[j].at) <= Len(table[i].at)
<1>2. ReadFilesystemType(table, path) = table[winner].type
  BY <1>1 DEF ReadFilesystemType
<1>3. Holds(table, path) = table[held_by].type
  BY Zenon DEF Holds
<1>4. Keeps(table, winner)
  <2>1. \E i \in DOMAIN table : Keeps(table, i)
    BY OneIsKept
  <2> QED BY <1>1, <2>1 DEF Keeps
<1> HIDE DEF winner
<1>5. \A i \in DOMAIN table : table[i].at \in Seq(STRING) /\ Len(table[i].at) \in Nat
  BY MountFields
<1>6. \A i, j \in DOMAIN table : Hides(table, j, i) => table[j].at = table[i].at
  BY DEF Buried
<1>7. winner \in InReach(table, path)
  <2>1. ASSUME NEW j \in DOMAIN table PROVE ~Hides(table, j, winner)
    <3>1. SUFFICES ASSUME Hides(table, j, winner) PROVE FALSE
      OBVIOUS
    <3>2. winner \in DOMAIN table /\ j > winner /\ table[j].at = table[winner].at
      BY <1>4, <1>6, <2>1, <3>1 DEF Keeps, Hides
    <3>3. \/ Len(table[j].at) < Len(table[winner].at)
          \/ Len(table[j].at) = Len(table[winner].at) /\ j <= winner
      BY <1>4, <2>1 DEF Keeps
    <3>4. winner \in Int /\ j \in Int /\ Len(table[winner].at) \in Nat
      BY <1>1, <1>5, <2>1, <3>2
    <3> QED BY <3>2, <3>3, <3>4
  <2>2. winner \in Holders(table, path)
    BY <1>1, <1>4 DEF Keeps
  <2> QED BY <2>1, <2>2 DEF InReach
<1>8. InReach(table, path) \subseteq DOMAIN table
  BY <1>1 DEF InReach
<1>9. \A j \in InReach(table, path) : Len(table[j].at) <= Len(table[winner].at)
  BY <1>4, <1>5, <1>8 DEF Keeps
<1>10. /\ held_by \in InReach(table, path)
       /\ \A j \in InReach(table, path) : Len(table[j].at) <= Len(table[held_by].at)
  BY <1>7, <1>9
<1> HIDE DEF held_by
<1>11. winner \in DOMAIN table /\ held_by \in DOMAIN table
  BY <1>4, <1>8, <1>10 DEF Keeps
<1>12. Len(table[held_by].at) = Len(table[winner].at)
  BY <1>5, <1>7, <1>9, <1>10, <1>11
<1>13. table[held_by].at = table[winner].at
  <2>1. /\ table[held_by].at = SubSeq(path, 1, Len(table[held_by].at))
        /\ table[winner].at = SubSeq(path, 1, Len(table[winner].at))
    BY <1>5, <1>11, PrefixIsCut
  <2> QED BY <1>12, <2>1
<1>14. held_by <= winner
  BY <1>4, <1>11, <1>12, <1>5 DEF Keeps
<1>15. ~(held_by < winner)
  <2>1. IsPrefix(table[winner].at, table[held_by].at)
    BY <1>5, <1>11, <1>13, PrefixIsCut
  <2>2. ~Hides(table, winner, held_by)
    BY <1>10, <1>11 DEF InReach
  <2> QED BY <1>1, <1>11, <2>1, <2>2 DEF Hides
<1>16. held_by = winner
  BY <1>1, <1>11, <1>14, <1>15
<1> QED BY <1>2, <1>3, <1>16

(* The table being read is read for what there is of the directory.        *)
StorageInv == exists \in 0..Len(Directory) /\ ReadFor(mounts, NearestExistingAncestor)

(* Every step of the machine keeps that.                                   *)
LEMMA StorageStep == StorageInv /\ [MachineNext]_machineVars => StorageInv'
<1> SUFFICES ASSUME StorageInv, [MachineNext]_machineVars PROVE StorageInv'
  OBVIOUS
<1>1. \A depth \in 0..Len(Directory) : SubSeq(Directory, 1, depth) \in Seq(STRING)
  BY StorageAssumption
<1>2. ASSUME NEW table \in Tables, NEW depth \in 0..Len(Directory), ReadMountTable(table, depth)
      PROVE  StorageInv'
  <2>1. /\ mounts' = table /\ exists' = depth /\ table \in Seq(Mounts)
        /\ \A i \in DOMAIN table : IsPrefix(table[i].at, SubSeq(Directory, 1, depth))
    BY <1>2, StorageAssumption DEF ReadMountTable
  <2> QED BY <1>1, <2>1 DEF StorageInv, ReadFor, NearestExistingAncestor
<1>3. CASE RequireDurableDirectory
  <2>1. mounts' = <<>> /\ exists' = 0
    BY <1>3 DEF RequireDurableDirectory
  <2>2. <<>> \in Seq(Mounts) /\ DOMAIN <<>> = {} /\ 0 \in 0..Len(Directory)
    BY StorageAssumption
  <2> QED BY <1>1, <2>1, <2>2 DEF StorageInv, ReadFor, NearestExistingAncestor
<1>4. CASE UNCHANGED storageVars
  BY <1>4 DEF storageVars, StorageInv, ReadFor, NearestExistingAncestor
<1>5. ASSUME ~CheckDirectory PROVE UNCHANGED storageVars
  BY <1>5 DEF MachineNext, Launch, Spawn, Place, SwitchOnAgain, KeepState, Publish, AnotherPublishes, RecordSettingChange,
              StoreStep, WriteTape, Kill, RemoveByHand, machineVars
<1> QED BY <1>2, <1>3, <1>4, <1>5 DEF CheckDirectory

(* require_durable_directory accepts a directory on memory only where a    *)
(* mount below lies buried under a later one above it, for every table of  *)
(* mounts and every directory.                                             *)
THEOREM MachineAcceptedIsOnDisk == MachineSpec => AcceptedIsOnDisk
<1> DEFINE Sure == directory' = "accepted" /\ directory # "accepted" =>
                     \/ Holds(mounts, NearestExistingAncestor) \notin MEMORY_BACKED_FILESYSTEMS
                     \/ \E i \in DOMAIN mounts : Buried(mounts, i)
<1>1. MachineInit => StorageInv
  <2>1. SubSeq(Directory, 1, 0) \in Seq(STRING) /\ <<>> \in Seq(Mounts) /\ DOMAIN <<>> = {}
        /\ 0 \in 0..Len(Directory)
    BY StorageAssumption
  <2> QED BY <2>1 DEF MachineInit, StorageInit, StorageInv, ReadFor, NearestExistingAncestor
<1>2. StorageInv /\ [MachineNext]_machineVars => [Sure]_storageVars
  <2> SUFFICES ASSUME StorageInv, [MachineNext]_machineVars, directory' = "accepted", directory # "accepted",
                      \A i \in DOMAIN mounts : ~Buried(mounts, i)
               PROVE  Holds(mounts, NearestExistingAncestor) \notin MEMORY_BACKED_FILESYSTEMS
    OBVIOUS
  <2>1. RequireDurableDirectory
    BY DEF MachineNext, Launch, Spawn, Place, SwitchOnAgain, CheckDirectory, KeepState, Publish,
           AnotherPublishes, RecordSettingChange, StoreStep, WriteTape, Kill, RemoveByHand, machineVars, storageVars, ReadMountTable
  <2>2. mounts # <<>> /\ ~IsMemoryBacked(mounts, NearestExistingAncestor)
    BY <2>1 DEF RequireDurableDirectory
  <2> QED BY <2>2, KeptIsHeld DEF IsMemoryBacked, StorageInv
<1> QED BY <1>1, <1>2, StorageStep, PTL DEF MachineSpec, AcceptedIsOnDisk
=============================================================================
