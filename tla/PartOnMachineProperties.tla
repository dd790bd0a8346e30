---------------------- MODULE PartOnMachineProperties -----------------------
(* What a part may rely on while it is switched on and off.                *)
EXTENDS PartOnMachine

MachineTypeOK ==
  /\ LauncherTypeOK /\ PlacementTypeOK /\ NumericTypeOK /\ WriterTypeOK
  /\ directory \in {"unchecked", "accepted", "refused"} /\ exists \in 0..Len(Directory)
  /\ now \in Nat /\ lock \in Writers \cup {Nobody}
  /\ appending \in [Writers -> {"idle", "waiting", "inserting"}]

(* A directory that require_durable_directory accepts is on a disk, unless *)
(* a disk mounted below lies buried under a later mount above it: the      *)
(* longest mount point wins there, and it is out of reach.                 *)
AcceptedIsOnDisk ==
  [][directory' = "accepted" /\ directory # "accepted" =>
       \/ Holds(mounts, NearestExistingAncestor) \notin MEMORY_BACKED_FILESYSTEMS
       \/ \E i \in DOMAIN mounts : Buried(mounts, i)]_storageVars

(* A part whose array holds less than it had published says so on          *)
(* switch-on: a window that restarted from nothing is reported.  The one   *)
(* way to reseed it in silence is to remove the data and leave the stamp   *)
(* beside it, which dates the new array with the old one's progress.       *)
ReseedIsReported ==
  Mapped /\ held < Published => HasStateGap(Published) \/ stampKept

(* What was read of a part's past stays a beginning of what is read later. *)
(* The part's rows come in the order of their times; those of another part *)
(* in the same table, stamped earlier and committed later, do not come     *)
(* between them, since the window is one part's.                           *)
WindowsGrowAtTheEnd ==
  [][\A start \in 0..now, end \in 0..now :
       IsPrefix(ReadEntriesInWindow(journal_entry, Part, start, end),
                ReadEntriesInWindow(journal_entry', Part, start, end))]_storeVars

(* The current value of a field is the one recorded last, also when two    *)
(* changes carry the same time.                                            *)
CurrentIsLastRecorded ==
  setting_change # <<>> => ReadCurrentSetting = Len(setting_change)
=============================================================================
