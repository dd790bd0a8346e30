---------------------------- MODULE NumericState ----------------------------
(***************************************************************************)
(* runtime/numeric_state.py: the three files of a part's numeric state, the*)
(* steps open_numeric_state makes them by, and what a kill between any two *)
(* of them leaves to the next open.                                        *)
(*                                                                         *)
(* A specification is a name; its shape and dtype matter only through the  *)
(* size they give the data file and through being equal or not.  The stamp *)
(* file is made in two steps as the data file is, but reads as zero, which *)
(* is NO_STAMP_RECORDED, after each of them.                               *)
(***************************************************************************)
EXTENDS Integers

CONSTANTS Specs,        \* the specifications a part is opened under
          ByteCount,    \* _expected_data_byte_count of each
          ObjectSpecs,  \* those whose dtype holds Python objects
          MaxUpdates,   \* bound on the updates of the array
          MaxRemovals   \* bound on the times an operator removes files

None == "none"
Torn == "torn"
Absent == -1
NO_STAMP_RECORDED == 0

ASSUME NumericAssumption ==
  /\ None \notin Specs /\ Torn \notin Specs /\ ObjectSpecs \subseteq Specs
  /\ ByteCount \in [Specs -> Nat \ {0}]
  /\ MaxUpdates \in Nat /\ MaxRemovals \in Nat

VARIABLES
  sidecar,      \* what .declared.json holds
  temporary,    \* what its temporary file holds
  dataBytes,    \* size of the data file
  stampFile,    \* the stamp, as a reader of the file finds it
  opening,      \* where in open_numeric_state, "mapped" once it has returned
  spec,         \* its argument
  data_exists,  \* its local variable
  held,         \* the updates the array holds
  (* an onlooker's record *)
  writtenUnder, \* the specification the data file was created under
  unguarded,    \* the data file was once there with no sidecar beside it
  cut,          \* a kill fell between truncating the data file and extending it
  stampKept,    \* the data file was removed and its stamp left
  removals

files == <<sidecar, temporary, dataBytes, stampFile, held, writtenUnder>>
local == <<opening, spec, data_exists>>
removed == <<unguarded, cut, stampKept, removals>>
numericVars == <<files, local, removed>>

(* Nothing yet, or a data file from before the sidecar was introduced.     *)
NumericInit ==
  /\ sidecar = None /\ temporary = None /\ stampFile = Absent
  /\ opening = "off" /\ spec = None /\ data_exists = FALSE /\ held = 0
  /\ cut = FALSE /\ stampKept = FALSE /\ removals = 0
  /\ \/ dataBytes = Absent /\ writtenUnder = None /\ unguarded = FALSE
     \/ /\ writtenUnder \in Specs \ ObjectSpecs
        /\ dataBytes = ByteCount[writtenUnder] /\ unguarded = TRUE

-----------------------------------------------------------------------------
HasRoomFor(s) == dataBytes = Absent \/ dataBytes = ByteCount[s]

LookAtData(s) ==
  /\ opening = "off" /\ s \notin ObjectSpecs /\ HasRoomFor(s)
  /\ data_exists' = (dataBytes # Absent)
  /\ opening' = IF sidecar = None THEN "declare" ELSE "verify"
  /\ spec' = s
  /\ UNCHANGED <<files, removed>>

RefuseSpec(s) ==
  /\ opening = "off" /\ (s \in ObjectSpecs \/ ~HasRoomFor(s))
  /\ opening' = "refused" /\ spec' = s
  /\ UNCHANGED <<files, data_exists, removed>>

(* The sidecar checked for what it declares only when there is no data.    *)
VerifyDeclarationMatches_Slip ==
  /\ opening = "verify"
  /\ opening' = IF sidecar = spec \/ data_exists THEN "data" ELSE "refused"
  /\ UNCHANGED <<files, spec, data_exists, removed>>

VerifyDeclarationMatches ==
  /\ opening = "verify"
  /\ opening' = IF sidecar = spec THEN "data" ELSE "refused"
  /\ UNCHANGED <<files, spec, data_exists, removed>>

(* The rename without the write before it.                                 *)
OpenTemporary_Slip ==
  /\ opening = "declare"
  /\ sidecar' = Torn /\ temporary' = Torn /\ opening' = "write"
  /\ UNCHANGED <<dataBytes, stampFile, held, writtenUnder, spec, data_exists, removed>>

(* _write_declaration_atomically: truncate, write, rename.                 *)
OpenTemporary ==
  /\ opening = "declare"
  /\ temporary' = Torn /\ opening' = "write"
  /\ UNCHANGED <<sidecar, dataBytes, stampFile, held, writtenUnder, spec, data_exists, removed>>

WriteTemporary ==
  /\ opening = "write"
  /\ temporary' = spec /\ opening' = "replace"
  /\ UNCHANGED <<sidecar, dataBytes, stampFile, held, writtenUnder, spec, data_exists, removed>>

ReplaceSidecar ==
  /\ opening = "replace"
  /\ sidecar' = temporary /\ temporary' = None /\ opening' = "data"
  /\ UNCHANGED <<dataBytes, stampFile, held, writtenUnder, spec, data_exists, removed>>

(* numpy.memmap: "r+" maps the file there is, "w+" truncates it, then      *)
(* extends it.                                                             *)
MapData ==
  /\ opening = "data" /\ data_exists
  /\ opening' = "stamp"
  /\ UNCHANGED <<files, spec, data_exists, removed>>

TruncateData ==
  /\ opening = "data" /\ ~data_exists
  /\ dataBytes' = 0 /\ held' = 0 /\ writtenUnder' = spec /\ opening' = "extend"
  /\ UNCHANGED <<sidecar, temporary, stampFile, spec, data_exists, removed>>

ExtendData ==
  /\ opening = "extend"
  /\ dataBytes' = ByteCount[spec] /\ opening' = "stamp"
  /\ UNCHANGED <<sidecar, temporary, stampFile, held, writtenUnder, spec, data_exists, removed>>

MapStamp ==
  /\ opening = "stamp"
  /\ stampFile' = IF stampFile = Absent THEN NO_STAMP_RECORDED ELSE stampFile
  /\ opening' = "mapped"
  /\ UNCHANGED <<sidecar, temporary, dataBytes, held, writtenUnder, spec, data_exists, removed>>

-----------------------------------------------------------------------------
(* The owner of the state: an update of the array, then the stamp.         *)
UpdateArray ==
  /\ opening = "mapped" /\ held < MaxUpdates
  /\ held' = held + 1
  /\ UNCHANGED <<sidecar, temporary, dataBytes, stampFile, writtenUnder, local, removed>>

RecordSequenceStamp ==
  /\ opening = "mapped"
  /\ stampFile' = held
  /\ UNCHANGED <<sidecar, temporary, dataBytes, held, writtenUnder, local, removed>>

HasStateGap_Slip(published) == stampFile > published
HasStateGap(published) == stampFile < published

(* A kill, and close(): the pages belong to the files and stay.            *)
Unmapped ==
  /\ opening' = "off" /\ spec' = None /\ data_exists' = FALSE
  /\ cut' = (cut \/ opening = "extend")
  /\ UNCHANGED <<files, unguarded, stampKept, removals>>

(* An operator takes some of the files away between two switch-ons.        *)
RemoveFiles(which) ==
  /\ opening = "off" /\ removals < MaxRemovals
  /\ removals' = removals + 1
  /\ sidecar' = IF "declaration" \in which THEN None ELSE sidecar
  /\ stampFile' = IF "stamp" \in which THEN Absent ELSE stampFile
  /\ IF "data" \in which
       THEN /\ dataBytes' = Absent /\ held' = 0 /\ writtenUnder' = None
            /\ unguarded' = FALSE /\ cut' = FALSE
            /\ stampKept' = ("stamp" \notin which)
       ELSE /\ unguarded' = (unguarded \/ ("declaration" \in which /\ dataBytes # Absent))
            /\ UNCHANGED <<dataBytes, held, writtenUnder, cut, stampKept>>
  /\ UNCHANGED <<temporary, local>>

OpenStep ==
  \/ \E s \in Specs : LookAtData(s) \/ RefuseSpec(s)
  \/ VerifyDeclarationMatches
  \/ OpenTemporary \/ WriteTemporary \/ ReplaceSidecar
  \/ MapData \/ TruncateData \/ ExtendData \/ MapStamp

NumericNext ==
  \/ OpenStep
  \/ UpdateArray \/ RecordSequenceStamp
  \/ Unmapped
  \/ \E which \in SUBSET {"data", "declaration", "stamp"} : RemoveFiles(which)

NumericSpec == NumericInit /\ [][NumericNext]_numericVars

-----------------------------------------------------------------------------
Mapped == opening = "mapped"

Places == {"off", "refused", "declare", "write", "replace", "verify", "data", "extend", "stamp", "mapped"}

NumericTypeOK ==
  /\ sidecar \in Specs \cup {None, Torn} /\ temporary \in Specs \cup {None, Torn}
  /\ dataBytes \in Nat \cup {Absent} /\ stampFile \in Nat \cup {Absent}
  /\ opening \in Places /\ spec \in Specs \cup {None} /\ data_exists \in BOOLEAN
  /\ held \in Nat /\ writtenUnder \in Specs \cup {None}
  /\ unguarded \in BOOLEAN /\ cut \in BOOLEAN /\ stampKept \in BOOLEAN /\ removals \in Nat

(* An array is never read under another shape or dtype than the one its    *)
(* file was written under, whatever kills and reopenings came before: the  *)
(* reinterpreted garbage the sidecar is there against.  Only a data file   *)
(* once found with no sidecar is taken at its reader's word, and from then *)
(* on the sidecar beside it says so.                                       *)
NeverReadAsAnother ==
  Mapped => /\ sidecar = spec /\ dataBytes = ByteCount[spec]
            /\ unguarded \/ writtenUnder = spec

(* An open is refused only for a reason the operator can see: the dtype    *)
(* cannot be mapped, the state was declared or written under another       *)
(* specification, or the data file is the empty one a kill left between its*)
(* truncation and its extension.  The last is refused for ever after; no   *)
(* other instant of a kill keeps a part from its own state.                *)
RefusedForAReason ==
  opening = "refused" =>
    \/ spec \in ObjectSpecs
    \/ sidecar \in Specs \ {spec}
    \/ dataBytes > 0 /\ writtenUnder # spec
    \/ dataBytes = 0 /\ cut
=============================================================================
