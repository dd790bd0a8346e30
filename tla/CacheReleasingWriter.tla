------------------------ MODULE CacheReleasingWriter ------------------------
(***************************************************************************)
(* runtime/page_cache_discipline.py: a tape written without piling up page *)
(* cache.  _bytes_written and _released_to enter only through their        *)
(* difference, which is what is kept (unreleased).                         *)
(*                                                                         *)
(* An fsync that fails raises out of append with the block counted and     *)
(* nothing released.  The kernel reports such a failure once and holds the *)
(* pages clean from then on, as if they had been written.                  *)
(***************************************************************************)
EXTENDS Integers

CONSTANTS interval,     \* writeback_interval_bytes
          Blocks,       \* sizes of the blocks appended
          MaxFailures   \* bound on the fsyncs that fail

ASSUME WriterAssumption ==
  /\ interval \in Nat \ {0} /\ Blocks \subseteq Nat /\ MaxFailures \in Nat

VARIABLES tape,         \* "closed", "open", or where in force_writeback
          closing,      \* force_writeback was called by close
          unreleased,   \* bytes_written - released_to
          dirty,        \* the last of them, not yet through an fsync
          (* an onlooker's record *)
          suspect,      \* some of the unreleased bytes were in an fsync that failed
          gone,         \* bytes were handed back that may not be on the disk
          failures      \* fsyncs of this tape that raised

writerVars == <<tape, closing, unreleased, dirty, suspect, gone, failures>>

WriterInit ==
  /\ tape = "closed" /\ closing = FALSE /\ unreleased = 0 /\ dirty = 0
  /\ suspect = FALSE /\ gone = FALSE /\ failures = 0

OpenTape ==
  /\ tape = "closed" /\ tape' = "open"
  /\ unreleased' = 0 /\ dirty' = 0 /\ closing' = FALSE
  /\ suspect' = FALSE /\ gone' = FALSE /\ failures' = 0

AppendBlock_Slip(n) ==
  /\ tape = "open"
  /\ unreleased' = unreleased + n /\ dirty' = dirty + n
  /\ tape' = IF unreleased + n > interval THEN "fsync" ELSE "open"
  /\ UNCHANGED <<closing, suspect, gone, failures>>

AppendBlock(n) ==
  /\ tape = "open"
  /\ unreleased' = unreleased + n /\ dirty' = dirty + n
  /\ tape' = IF unreleased + n >= interval THEN "fsync" ELSE "open"
  /\ UNCHANGED <<closing, suspect, gone, failures>>

CloseTape ==
  /\ tape = "open"
  /\ tape' = "fsync" /\ closing' = TRUE
  /\ UNCHANGED <<unreleased, dirty, suspect, gone, failures>>

(* flush without the fsync.                                                *)
Fsync_Slip ==
  /\ tape = "fsync"
  /\ tape' = "release"
  /\ UNCHANGED <<closing, unreleased, dirty, suspect, gone, failures>>

Fsync ==
  /\ tape = "fsync"
  /\ tape' = "release" /\ dirty' = 0
  /\ UNCHANGED <<closing, unreleased, suspect, gone, failures>>

FsyncFails ==
  /\ tape = "fsync" /\ failures < MaxFailures
  /\ tape' = "open" /\ closing' = FALSE /\ failures' = failures + 1
  /\ suspect' = TRUE /\ dirty' = 0
  /\ UNCHANGED <<unreleased, gone>>

(* posix_fadvise over the whole range since the last, then _released_to.   *)
Release ==
  /\ tape = "release"
  /\ gone' = (gone \/ dirty > 0 \/ suspect)
  /\ unreleased' = 0 /\ suspect' = FALSE
  /\ tape' = IF closing THEN "closed" ELSE "open"
  /\ UNCHANGED <<closing, dirty, failures>>

TapeKilled ==
  /\ tape' = "closed" /\ closing' = FALSE /\ unreleased' = 0 /\ dirty' = 0
  /\ suspect' = FALSE /\ gone' = FALSE /\ failures' = 0

WriterNext ==
  \/ OpenTape \/ CloseTape
  \/ \E n \in Blocks : AppendBlock(n)
  \/ Fsync \/ FsyncFails \/ Release
  \/ TapeKilled

WriterSpec == WriterInit /\ [][WriterNext]_writerVars

-----------------------------------------------------------------------------
WriterTypeOK ==
  /\ tape \in {"closed", "open", "fsync", "release"} /\ closing \in BOOLEAN
  /\ unreleased \in Nat /\ dirty \in Nat
  /\ suspect \in BOOLEAN /\ gone \in BOOLEAN /\ failures \in Nat

(* What the writer has in the page cache stays below one interval between  *)
(* two calls, and below one interval and one block inside them: the bound  *)
(* a part's memory limit is sized by.  Only an fsync that raised to the    *)
(* caller of append can leave more.                                        *)
UnreleasedBounded ==
  failures = 0 =>
    /\ tape = "open" => unreleased < interval
    /\ tape \in {"fsync", "release"} => \E n \in Blocks \cup {0} : unreleased < interval + n

(* No range is handed back to the kernel before it is on the disk.  The one*)
(* way round is a caller that goes on with the writer after an fsync raised*)
(* out of it: the next fsync succeeds over pages the kernel has given up.  *)
HandedBackIsOnDisk == gone => failures > 0
=============================================================================
