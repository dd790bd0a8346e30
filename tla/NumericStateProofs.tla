-------------------------- MODULE NumericStateProofs --------------------------
(***************************************************************************)
(* Theorems about NumericState, for every set of specifications, whatever  *)
(* sizes they give the data file, and any number of updates, kills and     *)
(* removals.                                                               *)
(***************************************************************************)
EXTENDS NumericState, TLAPS

(* How far open_numeric_state has come, and what it has found or made true *)
(* by then.                                                                *)
Opening == {"declare", "write", "replace", "verify", "data"}

OpeningInv ==
  /\ opening \in Opening => spec \in Specs /\ HasRoomFor(spec)
  /\ opening \in {"extend", "stamp", "mapped", "refused"} => spec \in Specs
  /\ opening \in {"declare", "write", "replace"} => sidecar = None
  /\ opening = "replace" => temporary = spec
  /\ opening = "verify" => sidecar # None
  /\ opening \in {"data", "extend", "stamp", "mapped"} => sidecar = spec
  /\ opening = "extend" => writtenUnder = spec
  /\ opening \in {"stamp", "mapped"} => dataBytes = ByteCount[spec]

LooksTrue == opening \in Opening => data_exists = (dataBytes # Absent)

(* The data file is as large as the specification it was made under says,  *)
(* or was cut short; and the sidecar beside it says which that was.        *)
FileInv ==
  /\ sidecar # Torn
  /\ dataBytes # Absent => writtenUnder \in Specs
  /\ dataBytes > 0 => dataBytes = ByteCount[writtenUnder]

CutInv == dataBytes = 0 /\ opening # "extend" => cut
GuardInv == dataBytes # Absent => unguarded \/ sidecar = writtenUnder

NumericInv ==
  NumericTypeOK /\ OpeningInv /\ LooksTrue /\ FileInv /\ CutInv /\ GuardInv /\ RefusedForAReason

(* Every action keeps every variable in its type.                          *)
LEMMA NumericTypeStep ==
  ASSUME NumericTypeOK, OpeningInv, [NumericNext]_numericVars
  PROVE  NumericTypeOK'
<1> USE NumericAssumption DEF files, local, removed, NumericTypeOK, Places, Absent, NO_STAMP_RECORDED, OpeningInv
<1>1. ASSUME NEW s \in Specs, LookAtData(s) PROVE NumericTypeOK'
  BY <1>1 DEF LookAtData
<1>2. ASSUME NEW s \in Specs, RefuseSpec(s) PROVE NumericTypeOK'
  BY <1>2 DEF RefuseSpec
<1>3. CASE VerifyDeclarationMatches
  BY <1>3 DEF VerifyDeclarationMatches
<1>4. CASE OpenTemporary
  BY <1>4 DEF OpenTemporary
<1>5. CASE WriteTemporary
  BY <1>5 DEF WriteTemporary
<1>6. CASE ReplaceSidecar
  BY <1>6 DEF ReplaceSidecar
<1>7. CASE MapData
  BY <1>7 DEF MapData
<1>8. CASE TruncateData
  BY <1>8 DEF TruncateData
<1>9. CASE ExtendData
  BY <1>9 DEF ExtendData
<1>10. CASE MapStamp
  BY <1>10 DEF MapStamp
<1>11. CASE UpdateArray
  BY <1>11 DEF UpdateArray
<1>12. CASE RecordSequenceStamp
  BY <1>12 DEF RecordSequenceStamp
<1>13. CASE Unmapped
  BY <1>13 DEF Unmapped
<1>14. ASSUME NEW which \in SUBSET {"data", "declaration", "stamp"}, RemoveFiles(which) PROVE NumericTypeOK'
  <2>1. unguarded' \in BOOLEAN /\ cut' \in BOOLEAN /\ stampKept' \in BOOLEAN
    BY <1>14, Zenon DEF RemoveFiles
  <2>2. /\ sidecar' \in Specs \cup {None, Torn} /\ temporary' \in Specs \cup {None, Torn}
        /\ dataBytes' \in Nat \cup {Absent} /\ stampFile' \in Nat \cup {Absent}
        /\ held' \in Nat /\ writtenUnder' \in Specs \cup {None} /\ removals' \in Nat
    BY <1>14, SMT DEF RemoveFiles
  <2> QED BY <1>14, <2>1, <2>2, Zenon DEF RemoveFiles
<1>15. CASE UNCHANGED numericVars
  BY <1>15 DEF numericVars
<1> QED BY <1>1, <1>2, <1>3, <1>4, <1>5, <1>6, <1>7, <1>8, <1>9, <1>10, <1>11, <1>12, <1>13, <1>14, <1>15 DEF NumericNext, OpenStep

(* Each place in the opening is entered with what the place before left.   *)
LEMMA OpeningStep ==
  ASSUME NumericTypeOK, OpeningInv, LooksTrue, [NumericNext]_numericVars
  PROVE  OpeningInv'
<1> USE NumericAssumption DEF files, local, removed, NumericTypeOK, OpeningInv, LooksTrue, Opening, HasRoomFor, Places
<1>1. ASSUME NEW s \in Specs, LookAtData(s) PROVE OpeningInv'
  BY <1>1 DEF LookAtData
<1>2. ASSUME NEW s \in Specs, RefuseSpec(s) PROVE OpeningInv'
  BY <1>2 DEF RefuseSpec
<1>3. CASE VerifyDeclarationMatches
  BY <1>3 DEF VerifyDeclarationMatches
<1>4. CASE OpenTemporary
  BY <1>4 DEF OpenTemporary
<1>5. CASE WriteTemporary
  BY <1>5 DEF WriteTemporary
<1>6. CASE ReplaceSidecar
  BY <1>6 DEF ReplaceSidecar
<1>7. CASE MapData
  BY <1>7 DEF MapData
<1>8. CASE TruncateData
  BY <1>8 DEF TruncateData
<1>9. CASE ExtendData
  BY <1>9 DEF ExtendData
<1>10. CASE MapStamp
  BY <1>10 DEF MapStamp
<1>11. CASE UpdateArray
  BY <1>11 DEF UpdateArray
<1>12. CASE RecordSequenceStamp
  BY <1>12 DEF RecordSequenceStamp
<1>13. CASE Unmapped
  BY <1>13 DEF Unmapped
<1>14. ASSUME NEW which \in SUBSET {"data", "declaration", "stamp"}, RemoveFiles(which) PROVE OpeningInv'
  BY <1>14 DEF RemoveFiles
<1>15. CASE UNCHANGED numericVars
  BY <1>15 DEF numericVars
<1> QED BY <1>1, <1>2, <1>3, <1>4, <1>5, <1>6, <1>7, <1>8, <1>9, <1>10, <1>11, <1>12, <1>13, <1>14, <1>15 DEF NumericNext, OpenStep

(* What open_numeric_state saw of the data file stays true while it opens. *)
LEMMA LooksTrueStep ==
  ASSUME NumericTypeOK, LooksTrue, [NumericNext]_numericVars
  PROVE  LooksTrue'
<1> USE NumericAssumption DEF files, local, removed, NumericTypeOK, Places, Absent, None, Torn, LooksTrue, Opening
<1>1. ASSUME NEW s \in Specs, LookAtData(s) PROVE LooksTrue'
  BY <1>1 DEF LookAtData
<1>2. ASSUME NEW s \in Specs, RefuseSpec(s) PROVE LooksTrue'
  BY <1>2 DEF RefuseSpec
<1>3. CASE VerifyDeclarationMatches
  BY <1>3 DEF VerifyDeclarationMatches
<1>4. CASE OpenTemporary
  BY <1>4 DEF OpenTemporary
<1>5. CASE WriteTemporary
  BY <1>5 DEF WriteTemporary
<1>6. CASE ReplaceSidecar
  BY <1>6 DEF ReplaceSidecar
<1>7. CASE MapData
  BY <1>7 DEF MapData
<1>8. CASE TruncateData
  BY <1>8 DEF TruncateData
<1>9. CASE ExtendData
  BY <1>9 DEF ExtendData
<1>10. CASE MapStamp
  BY <1>10 DEF MapStamp
<1>11. CASE UpdateArray
  BY <1>11 DEF UpdateArray
<1>12. CASE RecordSequenceStamp
  BY <1>12 DEF RecordSequenceStamp
<1>13. CASE Unmapped
  BY <1>13 DEF Unmapped
<1>14. ASSUME NEW which \in SUBSET {"data", "declaration", "stamp"}, RemoveFiles(which) PROVE LooksTrue'
  BY <1>14 DEF RemoveFiles
<1>15. CASE UNCHANGED numericVars
  BY <1>15 DEF numericVars
<1> QED BY <1>1, <1>2, <1>3, <1>4, <1>5, <1>6, <1>7, <1>8, <1>9, <1>10, <1>11, <1>12, <1>13, <1>14, <1>15 DEF NumericNext, OpenStep

(* The data file and its sidecar are whole, or the data file is empty.     *)
LEMMA FileStep ==
  ASSUME NumericTypeOK, OpeningInv, FileInv, [NumericNext]_numericVars
  PROVE  FileInv'
<1> USE NumericAssumption DEF files, local, removed, NumericTypeOK, Places, Absent, None, Torn, OpeningInv, FileInv, Opening
<1>1. ASSUME NEW s \in Specs, LookAtData(s) PROVE FileInv'
  BY <1>1 DEF LookAtData
<1>2. ASSUME NEW s \in Specs, RefuseSpec(s) PROVE FileInv'
  BY <1>2 DEF RefuseSpec
<1>3. CASE VerifyDeclarationMatches
  BY <1>3 DEF VerifyDeclarationMatches
<1>4. CASE OpenTemporary
  BY <1>4 DEF OpenTemporary
<1>5. CASE WriteTemporary
  BY <1>5 DEF WriteTemporary
<1>6. CASE ReplaceSidecar
  BY <1>6 DEF ReplaceSidecar
<1>7. CASE MapData
  BY <1>7 DEF MapData
<1>8. CASE TruncateData
  BY <1>8 DEF TruncateData
<1>9. CASE ExtendData
  BY <1>9 DEF ExtendData
<1>10. CASE MapStamp
  BY <1>10 DEF MapStamp
<1>11. CASE UpdateArray
  BY <1>11 DEF UpdateArray
<1>12. CASE RecordSequenceStamp
  BY <1>12 DEF RecordSequenceStamp
<1>13. CASE Unmapped
  BY <1>13 DEF Unmapped
<1>14. ASSUME NEW which \in SUBSET {"data", "declaration", "stamp"}, RemoveFiles(which) PROVE FileInv'
  BY <1>14 DEF RemoveFiles
<1>15. CASE UNCHANGED numericVars
  BY <1>15 DEF numericVars
<1> QED BY <1>1, <1>2, <1>3, <1>4, <1>5, <1>6, <1>7, <1>8, <1>9, <1>10, <1>11, <1>12, <1>13, <1>14, <1>15 DEF NumericNext, OpenStep

(* A data file without a byte is the work of a kill.                       *)
LEMMA CutStep ==
  ASSUME NumericTypeOK, OpeningInv, CutInv, [NumericNext]_numericVars
  PROVE  CutInv'
<1> USE NumericAssumption DEF files, local, removed, NumericTypeOK, Places, Absent, None, Torn, OpeningInv, CutInv, Opening
<1>1. ASSUME NEW s \in Specs, LookAtData(s) PROVE CutInv'
  BY <1>1 DEF LookAtData
<1>2. ASSUME NEW s \in Specs, RefuseSpec(s) PROVE CutInv'
  BY <1>2 DEF RefuseSpec
<1>3. CASE VerifyDeclarationMatches
  BY <1>3 DEF VerifyDeclarationMatches
<1>4. CASE OpenTemporary
  BY <1>4 DEF OpenTemporary
<1>5. CASE WriteTemporary
  BY <1>5 DEF WriteTemporary
<1>6. CASE ReplaceSidecar
  BY <1>6 DEF ReplaceSidecar
<1>7. CASE MapData
  BY <1>7 DEF MapData
<1>8. CASE TruncateData
  BY <1>8 DEF TruncateData
<1>9. CASE ExtendData
  BY <1>9 DEF ExtendData
<1>10. CASE MapStamp
  BY <1>10 DEF MapStamp
<1>11. CASE UpdateArray
  BY <1>11 DEF UpdateArray
<1>12. CASE RecordSequenceStamp
  BY <1>12 DEF RecordSequenceStamp
<1>13. CASE Unmapped
  BY <1>13 DEF Unmapped
<1>14. ASSUME NEW which \in SUBSET {"data", "declaration", "stamp"}, RemoveFiles(which) PROVE CutInv'
  BY <1>14 DEF RemoveFiles
<1>15. CASE UNCHANGED numericVars
  BY <1>15 DEF numericVars
<1> QED BY <1>1, <1>2, <1>3, <1>4, <1>5, <1>6, <1>7, <1>8, <1>9, <1>10, <1>11, <1>12, <1>13, <1>14, <1>15 DEF NumericNext, OpenStep

(* A data file never without its sidecar has the sidecar it was made under. *)
LEMMA GuardStep ==
  ASSUME NumericTypeOK, OpeningInv, LooksTrue, FileInv, GuardInv, [NumericNext]_numericVars
  PROVE  GuardInv'
<1> USE NumericAssumption DEF files, local, removed, NumericTypeOK, Places, Absent, None, Torn, OpeningInv, LooksTrue, FileInv, GuardInv, Opening
<1>1. ASSUME NEW s \in Specs, LookAtData(s) PROVE GuardInv'
  BY <1>1 DEF LookAtData
<1>2. ASSUME NEW s \in Specs, RefuseSpec(s) PROVE GuardInv'
  BY <1>2 DEF RefuseSpec
<1>3. CASE VerifyDeclarationMatches
  BY <1>3 DEF VerifyDeclarationMatches
<1>4. CASE OpenTemporary
  BY <1>4 DEF OpenTemporary
<1>5. CASE WriteTemporary
  BY <1>5 DEF WriteTemporary
<1>6. CASE ReplaceSidecar
  <2>1. dataBytes # Absent => unguarded
    <3>1. ASSUME dataBytes # Absent PROVE writtenUnder # None
      BY <3>1
    <3>2. opening = "replace" => sidecar = None
      BY DEF OpeningInv
    <3> QED BY <1>6, <3>1, <3>2, Zenon DEF ReplaceSidecar
  <2> QED BY <1>6, <2>1, Zenon DEF ReplaceSidecar
<1>7. CASE MapData
  BY <1>7 DEF MapData
<1>8. CASE TruncateData
  BY <1>8 DEF TruncateData, Zenon
<1>9. CASE ExtendData
  BY <1>9 DEF ExtendData
<1>10. CASE MapStamp
  BY <1>10 DEF MapStamp
<1>11. CASE UpdateArray
  BY <1>11 DEF UpdateArray
<1>12. CASE RecordSequenceStamp
  BY <1>12 DEF RecordSequenceStamp
<1>13. CASE Unmapped
  BY <1>13 DEF Unmapped
<1>14. ASSUME NEW which \in SUBSET {"data", "declaration", "stamp"}, RemoveFiles(which) PROVE GuardInv'
  BY <1>14 DEF RemoveFiles
<1>15. CASE UNCHANGED numericVars
  BY <1>15 DEF numericVars
<1> QED BY <1>1, <1>2, <1>3, <1>4, <1>5, <1>6, <1>7, <1>8, <1>9, <1>10, <1>11, <1>12, <1>13, <1>14, <1>15 DEF NumericNext, OpenStep

(* A refusal has its reason, and the reason stays with it.                 *)
LEMMA RefusedStep ==
  ASSUME NumericTypeOK, OpeningInv, FileInv, CutInv, RefusedForAReason, [NumericNext]_numericVars
  PROVE  RefusedForAReason'
<1> USE NumericAssumption DEF files, local, removed, NumericTypeOK, Places, Absent, None, Torn, OpeningInv, FileInv, CutInv, RefusedForAReason, Opening, HasRoomFor
<1>1. ASSUME NEW s \in Specs, LookAtData(s) PROVE RefusedForAReason'
  BY <1>1 DEF LookAtData
<1>2. ASSUME NEW s \in Specs, RefuseSpec(s) PROVE RefusedForAReason'
  BY <1>2 DEF RefuseSpec
<1>3. CASE VerifyDeclarationMatches
  BY <1>3 DEF VerifyDeclarationMatches
<1>4. CASE OpenTemporary
  BY <1>4 DEF OpenTemporary
<1>5. CASE WriteTemporary
  BY <1>5 DEF WriteTemporary
<1>6. CASE ReplaceSidecar
  BY <1>6 DEF ReplaceSidecar
<1>7. CASE MapData
  BY <1>7 DEF MapData
<1>8. CASE TruncateData
  BY <1>8 DEF TruncateData
<1>9. CASE ExtendData
  BY <1>9 DEF ExtendData
<1>10. CASE MapStamp
  BY <1>10 DEF MapStamp
<1>11. CASE UpdateArray
  BY <1>11 DEF UpdateArray
<1>12. CASE RecordSequenceStamp
  BY <1>12 DEF RecordSequenceStamp
<1>13. CASE Unmapped
  BY <1>13 DEF Unmapped
<1>14. ASSUME NEW which \in SUBSET {"data", "declaration", "stamp"}, RemoveFiles(which) PROVE RefusedForAReason'
  BY <1>14 DEF RemoveFiles
<1>15. CASE UNCHANGED numericVars
  BY <1>15 DEF numericVars
<1> QED BY <1>1, <1>2, <1>3, <1>4, <1>5, <1>6, <1>7, <1>8, <1>9, <1>10, <1>11, <1>12, <1>13, <1>14, <1>15 DEF NumericNext, OpenStep

(* What a directory holds before its first switch-on satisfies it all.    *)
LEMMA NumericInitial == NumericInit => NumericInv
<1> SUFFICES ASSUME NumericInit PROVE NumericInv
  OBVIOUS
<1> USE NumericAssumption DEF NumericInit, Absent, None, Torn, NO_STAMP_RECORDED
<1>1. unguarded \in BOOLEAN /\ cut \in BOOLEAN /\ stampKept \in BOOLEAN /\ data_exists \in BOOLEAN
  BY Zenon
<1>2. /\ sidecar \in Specs \cup {None, Torn} /\ temporary \in Specs \cup {None, Torn}
      /\ dataBytes \in Nat \cup {Absent} /\ stampFile \in Nat \cup {Absent}
      /\ opening \in Places /\ spec \in Specs \cup {None}
      /\ held \in Nat /\ writtenUnder \in Specs \cup {None} /\ removals \in Nat
  BY SMT DEF Places
<1>3. OpeningInv /\ LooksTrue /\ RefusedForAReason
  BY SMT DEF OpeningInv, LooksTrue, Opening, RefusedForAReason
<1>4. FileInv /\ CutInv
  BY SMT DEF FileInv, CutInv
<1>5. GuardInv
  BY Zenon DEF GuardInv
<1> QED BY <1>1, <1>2, <1>3, <1>4, <1>5, Zenon DEF NumericInv, NumericTypeOK

(* The invariant is inductive.                                             *)
LEMMA NumericStep == NumericInv /\ [NumericNext]_numericVars => NumericInv'
BY NumericTypeStep, OpeningStep, LooksTrueStep, FileStep, CutStep, GuardStep, RefusedStep, Zenon DEF NumericInv

(* It holds of every run of opens, updates, kills and removals.            *)
LEMMA NumericInvHolds == NumericSpec => []NumericInv
BY NumericInitial, NumericStep, PTL DEF NumericSpec

(* An array is only returned where the three files belong together.        *)
LEMMA NumericInvReads == NumericInv => NeverReadAsAnother
<1> SUFFICES ASSUME NumericInv, Mapped PROVE NeverReadAsAnother
  BY DEF NeverReadAsAnother
<1>1. opening = "mapped"
  BY DEF Mapped
<1>2. sidecar = spec /\ spec \in Specs /\ dataBytes = ByteCount[spec]
  BY <1>1 DEF NumericInv, OpeningInv
<1>3. dataBytes # Absent
  BY <1>2, NumericAssumption DEF Absent
<1>4. unguarded \/ writtenUnder = spec
  BY <1>2, <1>3, Zenon DEF NumericInv, GuardInv
<1> QED BY <1>2, <1>4, Zenon DEF NeverReadAsAnother

(* Every variable of the state's files keeps its type, in whatever order   *)
(* opens, updates, kills and removals come.                                *)
THEOREM NumericTypeCorrect == NumericSpec => []NumericTypeOK
<1>1. NumericInv => NumericTypeOK
  BY DEF NumericInv
<1> QED BY <1>1, NumericInvHolds, PTL

(* An array open_numeric_state returns has the size and the sidecar of the *)
(* specification it was asked for, and was made under it unless the data   *)
(* file was once without its sidecar.                                      *)
THEOREM NumericNeverReadAsAnother == NumericSpec => []NeverReadAsAnother
BY NumericInvReads, NumericInvHolds, PTL

(* open_numeric_state refuses only what it says: an object dtype, another  *)
(* specification, or the empty file a kill left behind.                    *)
THEOREM NumericRefusedForAReason == NumericSpec => []RefusedForAReason
<1>1. NumericInv => RefusedForAReason
  BY DEF NumericInv
<1> QED BY <1>1, NumericInvHolds, PTL

=============================================================================
