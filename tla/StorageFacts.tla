--------------------------- MODULE StorageFacts -----------------------------
(***************************************************************************)
(* runtime/storage_facts.py: which filesystem a directory is on, read from *)
(* /proc/self/mountinfo, and the refusal of one that is memory.            *)
(*                                                                         *)
(* A path is the sequence of its names; a mount is [at |-> path, type |->  *)
(* filesystem]; a table is a sequence of mounts in the order they were     *)
(* made, which is the order of mountinfo.                                  *)
(***************************************************************************)
EXTENDS Naturals, Sequences, SequencesExt

CONSTANTS Directory,        \* the directory a part keeps its files in
          MEMORY_BACKED_FILESYSTEMS,
          Tables            \* the mount tables the machine may have

Mounts == [at : Seq(STRING), type : STRING]

ASSUME StorageAssumption == Directory \in Seq(STRING) /\ Tables \subseteq Seq(Mounts)

VARIABLES directory,        \* what require_durable_directory made of it
          mounts,           \* the table being read, <<>> when none is
          exists            \* how many names of Directory exist while it is read

storageVars == <<directory, mounts, exists>>

StorageInit == directory = "unchecked" /\ mounts = <<>> /\ exists = 0

(* read_filesystem_type: among the mounts at or above the nearest existing *)
(* ancestor the loop keeps the last of the longest, for sort is stable.    *)
NearestExistingAncestor == SubSeq(Directory, 1, exists)

Holders(table, path) == {i \in DOMAIN table : IsPrefix(table[i].at, path)}

(* The same with the stable sort taken for one that reverses equals.       *)
ReadFilesystemType_Slip(table, path) ==
  LET winner == CHOOSE i \in Holders(table, path) :
                  \A j \in Holders(table, path) :
                    \/ Len(table[j].at) < Len(table[i].at)
                    \/ Len(table[j].at) = Len(table[i].at) /\ j >= i
  IN  IF Holders(table, path) = {} THEN "unknown" ELSE table[winner].type

ReadFilesystemType(table, path) ==
  LET winner == CHOOSE i \in Holders(table, path) :
                  \A j \in Holders(table, path) :
                    \/ Len(table[j].at) < Len(table[i].at)
                    \/ Len(table[j].at) = Len(table[i].at) /\ j <= i
  IN  IF Holders(table, path) = {} THEN "unknown" ELSE table[winner].type

IsMemoryBacked(table, path) == ReadFilesystemType(table, path) \in MEMORY_BACKED_FILESYSTEMS

ReadMountTable(table, depth) ==
  /\ directory # "accepted" /\ mounts = <<>>
  /\ \A i \in DOMAIN table : IsPrefix(table[i].at, SubSeq(Directory, 1, depth))
  /\ mounts' = table /\ exists' = depth
  /\ UNCHANGED directory

RequireDurableDirectory ==
  /\ mounts # <<>>
  /\ directory' = IF IsMemoryBacked(mounts, NearestExistingAncestor) THEN "refused" ELSE "accepted"
  /\ mounts' = <<>> /\ exists' = 0

-----------------------------------------------------------------------------
(* What the kernel does with the same path.  A mount is out of reach when a*)
(* later one covers its mount point or an ancestor of it; a file is on the *)
(* longest mount that is still in reach.                                   *)
Hides(table, j, i) == j > i /\ IsPrefix(table[j].at, table[i].at)
InReach(table, path) == {i \in Holders(table, path) : \A j \in DOMAIN table : ~Hides(table, j, i)}
Holds(table, path) ==
  table[CHOOSE i \in InReach(table, path) :
          \A j \in InReach(table, path) : Len(table[j].at) <= Len(table[i].at)].type

(* A mount buried by a later one higher up.                                *)
Buried(table, i) == \E j \in DOMAIN table : Hides(table, j, i) /\ table[j].at # table[i].at
=============================================================================
