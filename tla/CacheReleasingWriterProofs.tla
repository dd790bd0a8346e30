---------------------- MODULE CacheReleasingWriterProofs ----------------------
(***************************************************************************)
(* Theorems about CacheReleasingWriter, for every interval, every set of   *)
(* block sizes and any number of failing fsyncs.                           *)
(***************************************************************************)
EXTENDS CacheReleasingWriter, TLAPS

(* What a release relies on: an fsync came before it, and whatever is left *)
(* of a failed one was counted.                                            *)
ReleaseInv ==
  /\ tape = "release" => dirty = 0
  /\ suspect => failures > 0
  /\ gone => failures > 0

WriterInv == WriterTypeOK /\ UnreleasedBounded /\ ReleaseInv

(* A writer not yet opened satisfies it all.                               *)
LEMMA WriterInitial == WriterInit => WriterInv
<1> SUFFICES ASSUME WriterInit PROVE WriterInv
  OBVIOUS
<1> QED BY WriterAssumption DEF WriterInit, WriterInv, WriterTypeOK, UnreleasedBounded, ReleaseInv

(* Every step keeps every variable in its type.                            *)
LEMMA WriterTypeStep ==
  ASSUME WriterTypeOK, [WriterNext]_writerVars
  PROVE  WriterTypeOK'
<1> USE WriterAssumption DEF WriterTypeOK
<1>1. CASE OpenTape
  BY <1>1 DEF OpenTape
<1>2. CASE CloseTape
  BY <1>2 DEF CloseTape
<1>3. ASSUME NEW n \in Blocks, AppendBlock(n) PROVE WriterTypeOK'
  BY <1>3 DEF AppendBlock
<1>4. CASE Fsync
  BY <1>4 DEF Fsync
<1>5. CASE FsyncFails
  <2>1. closing' \in BOOLEAN /\ suspect' \in BOOLEAN /\ gone' \in BOOLEAN
    BY <1>5, Zenon DEF FsyncFails
  <2> QED BY <1>5, <2>1 DEF FsyncFails
<1>6. CASE Release
  <2>1. gone' \in BOOLEAN
    BY <1>6, Zenon DEF Release
  <2> QED BY <1>6, <2>1 DEF Release
<1>7. CASE TapeKilled
  BY <1>7 DEF TapeKilled
<1>8. CASE UNCHANGED writerVars
  BY <1>8 DEF writerVars
<1> QED BY <1>1, <1>2, <1>3, <1>4, <1>5, <1>6, <1>7, <1>8 DEF WriterNext

(* A block that reaches the interval is followed by its fsync, and a block *)
(* that does not leaves the writer below it.                               *)
LEMMA BoundStep ==
  ASSUME WriterTypeOK, UnreleasedBounded, [WriterNext]_writerVars
  PROVE  UnreleasedBounded'
<1> USE WriterAssumption DEF WriterTypeOK, UnreleasedBounded
<1>1. CASE OpenTape
  BY <1>1 DEF OpenTape
<1>2. CASE CloseTape
  <2>1. failures = 0 => unreleased < interval + 0
    BY <1>2 DEF CloseTape
  <2> QED BY <1>2, <2>1 DEF CloseTape
<1>3. ASSUME NEW n \in Blocks, AppendBlock(n) PROVE UnreleasedBounded'
  <2>1. failures = 0 => unreleased' < interval + n
    BY <1>3 DEF AppendBlock
  <2>2. failures' = failures /\ tape' \in {"open", "fsync"}
    BY <1>3 DEF AppendBlock
  <2>3. tape' = "open" => unreleased' < interval
    BY <1>3 DEF AppendBlock
  <2> QED BY <2>1, <2>2, <2>3
<1>4. CASE Fsync
  BY <1>4 DEF Fsync
<1>5. CASE FsyncFails
  BY <1>5 DEF FsyncFails
<1>6. CASE Release
  BY <1>6 DEF Release
<1>7. CASE TapeKilled
  BY <1>7 DEF TapeKilled
<1>8. CASE UNCHANGED writerVars
  BY <1>8 DEF writerVars
<1> QED BY <1>1, <1>2, <1>3, <1>4, <1>5, <1>6, <1>7, <1>8 DEF WriterNext

(* Nothing but a failed fsync leaves bytes that may not be on the disk.    *)
LEMMA ReleaseStep ==
  ASSUME WriterTypeOK, ReleaseInv, [WriterNext]_writerVars
  PROVE  ReleaseInv'
<1> USE WriterAssumption DEF WriterTypeOK, ReleaseInv
<1>1. CASE OpenTape
  BY <1>1 DEF OpenTape
<1>2. CASE CloseTape
  BY <1>2 DEF CloseTape
<1>3. ASSUME NEW n \in Blocks, AppendBlock(n) PROVE ReleaseInv'
  BY <1>3 DEF AppendBlock
<1>4. CASE Fsync
  BY <1>4 DEF Fsync
<1>5. CASE FsyncFails
  BY <1>5 DEF FsyncFails
<1>6. CASE Release
  <2>1. dirty = 0
    BY <1>6 DEF Release
  <2>2. ~(dirty > 0)
    BY <2>1
  <2>3. gone' => gone \/ suspect
    BY <1>6, <2>2, Zenon DEF Release
  <2> QED BY <1>6, <2>3 DEF Release
<1>7. CASE TapeKilled
  BY <1>7 DEF TapeKilled
<1>8. CASE UNCHANGED writerVars
  BY <1>8 DEF writerVars
<1> QED BY <1>1, <1>2, <1>3, <1>4, <1>5, <1>6, <1>7, <1>8 DEF WriterNext

(* The invariant is inductive.                                             *)
LEMMA WriterStep == WriterInv /\ [WriterNext]_writerVars => WriterInv'
BY WriterTypeStep, BoundStep, ReleaseStep, Zenon DEF WriterInv

(* It holds of every life of a writer.                                     *)
LEMMA WriterInvHolds == WriterSpec => []WriterInv
BY WriterInitial, WriterStep, PTL DEF WriterSpec

(* Every variable of the writer keeps its type.                            *)
THEOREM WriterTypeCorrect == WriterSpec => []WriterTypeOK
<1>1. WriterInv => WriterTypeOK
  BY DEF WriterInv
<1> QED BY <1>1, WriterInvHolds, PTL

(* CacheReleasingWriter keeps less than one interval in the page cache     *)
(* between two calls of append, and less than one interval and one block   *)
(* inside one, whatever sizes it is given, until an fsync fails.           *)
THEOREM WriterUnreleasedBounded == WriterSpec => []UnreleasedBounded
<1>1. WriterInv => UnreleasedBounded
  BY DEF WriterInv
<1> QED BY <1>1, WriterInvHolds, PTL

(* posix_fadvise is never called over bytes that an fsync has not put on   *)
(* the disk, until an fsync fails.                                         *)
THEOREM WriterHandedBackIsOnDisk == WriterSpec => []HandedBackIsOnDisk
<1>1. WriterInv => HandedBackIsOnDisk
  BY DEF WriterInv, ReleaseInv, HandedBackIsOnDisk
<1> QED BY <1>1, WriterInvHolds, PTL
=============================================================================
