--------------------------- MODULE PartOnMachine ----------------------------
(***************************************************************************)
(* One part's life on the machine: its directory accepted, its process     *)
(* forked and placed, its state opened and kept or its tape written, and a *)
(* kill, which is how a part is switched off, between any two steps.       *)
(*                                                                         *)
(* The parts themselves are not written yet.  What stands here for one is  *)
(* the order the runtime's documents and tests give its calls: update the  *)
(* array, record the stamp, publish it as a journal entry; on switch-on    *)
(* compare the two.  A part here keeps numeric state or writes a tape.     *)
(***************************************************************************)
EXTENDS ScopePlacement, StorageFacts, NumericState, StateStore, CacheReleasingWriter

CONSTANT Part   \* the name the part appends under

ASSUME MachineAssumption == Part \in Writers \ {Recorder}

governorVars == <<launcherVars, placementVars>>
partVars == <<numericVars, storeVars, writerVars>>
machineVars == <<governorVars, storageVars, partVars>>

MachineInit ==
  /\ LauncherInit /\ PlacementInit /\ StorageInit
  /\ NumericInit /\ StoreInit /\ WriterInit

-----------------------------------------------------------------------------
(* The steps of a launch and a placement read and write none of the part's *)
(* files, so they are taken one by one until there are some; from then on  *)
(* a part is switched on in one step.                                      *)
NoFilesYet == sidecar = None /\ temporary = None /\ stampFile = Absent /\ removals = 0

Launch ==
  /\ NoFilesYet
  /\ StartForkserver \/ ForkRefused \/ ForkserverDies
     \/ \E observed \in Counts : ReadKernelThreadCount(observed)
  /\ UNCHANGED <<placementVars, storageVars, partVars>>

Spawn == NoFilesYet /\ SpawnPart /\ ForkedOutsideScope /\ UNCHANGED <<storageVars, partVars>>

Place ==
  /\ NoFilesYet
  /\ \/ StartTransientUnit \/ JobRuns \/ UnitUnloads
     \/ Poll \/ Sleep \/ ReturnPath \/ RaisePlacementNotConfirmed \/ CallDropped
  /\ UNCHANGED <<launcherVars, storageVars, partVars>>

SwitchOnAgain ==
  /\ ~NoFilesYet /\ ~alive /\ launching = "context"
  /\ alive' = TRUE /\ launching' = "forked" /\ serverThreads' = ThreadsOfServer
  /\ forkedFrom' = serverThreads'
  /\ placing' = "returned" /\ returned' = "scope" /\ cgroup' = "scope" /\ unit' = TRUE
  /\ UNCHANGED <<environ, waited, job, landedFor, storageVars, partVars>>

CheckDirectory ==
  /\ alive /\ placing = "returned"
  /\ (\E table \in Tables, depth \in 0..Len(Directory) : ReadMountTable(table, depth))
     \/ RequireDurableDirectory
  /\ UNCHANGED <<governorVars, partVars>>

Running == alive /\ placing = "returned" /\ directory = "accepted"

KeepState ==
  /\ Running /\ tape = "closed"
  /\ OpenStep \/ UpdateArray \/ RecordSequenceStamp
  /\ UNCHANGED <<governorVars, storageVars, storeVars, writerVars>>

(* Nothing that launching, placing or opening does touches the store: other*)
(* processes are taken to use it while the state is mapped.                *)
(* What the store says of the part: the last entry it published.           *)
Entries == ReadEntriesInWindow(journal_entry, Part, 0, now)
Published == IF Entries = <<>> THEN 0 ELSE Last(Entries).row.holds

Publish ==
  /\ Running /\ Mapped /\ stampFile > Published
  /\ TakeTimestamp(Part, stampFile)
  /\ UNCHANGED <<governorVars, storageVars, numericVars, writerVars>>

(* Another part's entry, in a process of its own under its own name, into  *)
(* the table this part publishes in.                                       *)
AnotherPublishes ==
  /\ Mapped
  /\ \E w \in Writers \ {Part, Recorder} : TakeTimestamp(w, 1)
  /\ UNCHANGED <<governorVars, storageVars, numericVars, writerVars>>

RecordSettingChange ==
  /\ Mapped
  /\ TakeTimestamp(Recorder, Len(setting_change) + 1)
  /\ UNCHANGED <<governorVars, storageVars, numericVars, writerVars>>

StoreStep ==
  /\ Mapped
  /\ Tick \/ \E w \in Writers : TakeWriteLock(w) \/ LockedOut(w) \/ Commit(w)
  /\ UNCHANGED <<governorVars, storageVars, numericVars, writerVars>>

WriteTape ==
  /\ Running /\ opening = "off" /\ NoFilesYet
  /\ OpenTape \/ CloseTape \/ Fsync \/ FsyncFails \/ Release \/ \E n \in Blocks : AppendBlock(n)
  /\ UNCHANGED <<governorVars, storageVars, numericVars, storeVars>>

(* SIGKILL, or the exception that refused an open ending the process.      *)
Kill ==
  /\ alive
  /\ PartGone /\ LeftScope /\ Unmapped /\ WriterKilled(Part) /\ TapeKilled
  /\ UNCHANGED storageVars

RemoveByHand ==
  /\ ~alive /\ launching = "context" /\ placing = "idle"
  /\ \E which \in SUBSET {"data", "declaration", "stamp"} : RemoveFiles(which)
  /\ UNCHANGED <<governorVars, storageVars, storeVars, writerVars>>

MachineNext ==
  \/ Launch \/ Spawn \/ Place \/ SwitchOnAgain \/ CheckDirectory
  \/ KeepState \/ Publish \/ AnotherPublishes \/ RecordSettingChange \/ StoreStep \/ WriteTape
  \/ Kill \/ RemoveByHand

MachineSpec == MachineInit /\ [][MachineNext]_machineVars
=============================================================================
