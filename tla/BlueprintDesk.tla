--------------------------- MODULE BlueprintDesk ----------------------------
(***************************************************************************)
(* The registry file and those who work on it: the edit scripts, which read*)
(* it and write it back whole, a hand that saves a part into it, and one   *)
(* reader: the pre-commit hook, the board a browser polls, the published   *)
(* snapshot, or one of the pages built on demand.                          *)
(*                                                                         *)
(* The readers never write the registry, so a behaviour has one of them.   *)
(***************************************************************************)
EXTENDS BlueprintEdits, PartMonitor

CONSTANTS HandParts,   \* the parts a hand may save, by id
          FilesOnDisk, \* the sets of source files a behaviour may have
          MaxChanges   \* for each reader, a bound on the scripts begun and
                       \* the saves by hand in a behaviour

Reads == [hook |-> 1, browser |-> 2, snapshot |-> 2, monitor |-> 2, status |-> 5, wiring |-> 1]

\* What a hand saves is a part, with whatever breaches of its own shape.
Part == [name : STRING, category : STRING, consumes : SUBSET STRING, produces : SUBSET STRING,
         faults : SUBSET {"T-1", "T-2", "T-3", "T-4", "T-5", "T-6"}, place : Nat,
         facts : [DOMAIN Undeclared -> STRING]]

ASSUME DeskAssumption == MaxChanges \in [DOMAIN Reads -> Nat]
ASSUME HandPartsAssumption == \A part \in DOMAIN HandParts : HandParts[part] \in Part

NoScript == [script |-> "none", at |-> "none"]

VARIABLES
  disk,     \* docs/features.json in the working tree
  edit,     \* the script running, what it read and what it truncated
  changes,
  index,    \* the registry as staged
  head,     \* the registry as committed
  reader,   \* who reads in this behaviour
  files,    \* the source files on disk
  tab,      \* the browser's tab: visible, hidden or closed
  reading,  \* the readings each reader or fetch under way has taken
  page,     \* what is shown
  shown,    \* an onlooker's note: the readings the page was made of
  live      \* the page at the public address

writerVars == <<disk, edit, changes>>
readerVars == <<reading, page, shown, live, tab>>
deskVars == <<writerVars, index, head, reader, files, readerVars>>

\* A browser may have two fetches in flight; any other reader is one.
Slots == IF reader = "browser" THEN {1, 2} ELSE {1}
Idle == [begun |-> FALSE, got |-> <<>>]

DeskInit ==
  /\ disk = ShippedBlueprint /\ index = disk /\ head = disk
  /\ edit = NoScript /\ changes = 0
  /\ reader \in DOMAIN Reads
  /\ files \in FilesOnDisk
  /\ tab = IF reader = "browser" THEN "visible" ELSE "closed"
  /\ reading = [slot \in {1, 2} |-> Idle]
  /\ page = NoPage /\ shown = <<>> /\ live = NoPage

----------------------------------------------------------------------------
(* Writers.                                                                *)

\* REG.read_text and json.loads: a torn file raises and nothing is written.
BeginScript(script) ==
  /\ edit = NoScript /\ changes < MaxChanges[reader]
  /\ disk # Torn /\ MayBeApplied(script, disk)
  /\ edit' = [script |-> script, at |-> "editing", read |-> disk]
  /\ changes' = changes + 1
  /\ UNCHANGED disk

\* REG.write_text opens the file for writing, which truncates it ...
OpenForWriting ==
  /\ edit.at = "editing"
  /\ edit' = [script |-> edit.script, at |-> "writing", read |-> edit.read, over |-> disk]
  /\ disk' = Torn
  /\ UNCHANGED changes

FinishWriting_Slip ==
  /\ edit.at = "writing"
  /\ disk' = [EditedBy(edit.script, edit.read) EXCEPT
                !.features = [p \in DOMAIN @ \cap DOMAIN ShippedBlueprint.features |-> @[p]]]
  /\ edit' = NoScript
  /\ UNCHANGED changes

\* ... and writes what the script made of the text it read.
FinishWriting ==
  /\ edit.at = "writing"
  /\ disk' = EditedBy(edit.script, edit.read)
  /\ edit' = NoScript
  /\ UNCHANGED changes

KillScript ==
  /\ edit # NoScript
  /\ edit' = NoScript
  /\ UNCHANGED <<disk, changes>>

\* A part added in an editor, saved at once.
SaveByHand(part) ==
  /\ disk # Torn /\ changes < MaxChanges[reader]
  /\ part \notin Parts(disk)
  /\ disk' = [disk EXCEPT !.features =
                [p \in DOMAIN @ \cup {part} |->
                   IF p = part THEN HandParts[part] ELSE @[p]]]
  /\ changes' = changes + 1
  /\ UNCHANGED edit

Write ==
  /\ \/ \E script \in {Scripts[i] : i \in DOMAIN Scripts} : BeginScript(script)
     \/ OpenForWriting \/ FinishWriting \/ KillScript
     \/ \E part \in DOMAIN HandParts : SaveByHand(part)
  /\ UNCHANGED <<index, head, reader, files, readerVars>>

----------------------------------------------------------------------------
(* The repository: git add, git commit with the hook, git checkout.        *)

Stage ==
  /\ reader = "hook"
  /\ index' = disk
  /\ UNCHANGED <<writerVars, head, reader, files, readerVars>>

Commit_Slip ==
  /\ reader = "hook"
  /\ head' = index
  /\ UNCHANGED <<writerVars, index, reader, files, readerVars>>

\* The hook runs the checker on the working tree; git commits the index.
Commit ==
  /\ reader = "hook"
  /\ CheckContractsPasses(LoadFeatureRegistry(disk))
  /\ head' = index
  /\ UNCHANGED <<writerVars, index, reader, files, readerVars>>

CheckOut ==
  /\ reader = "hook" /\ edit = NoScript
  /\ disk' = index
  /\ UNCHANGED <<edit, changes, index, head, reader, files, readerVars>>

----------------------------------------------------------------------------
(* Readers.                                                                *)

Begin_Slip(slot) ==
  /\ reader # "hook" /\ reading[slot] = Idle /\ page = NoPage
  /\ reader = "browser" => tab = "visible"
  /\ reading' = [reading EXCEPT ![slot].begun = TRUE]
  /\ UNCHANGED <<page, shown, live, tab>>

\* load(), at an interval: a hidden tab does not fetch.
Begin(slot) ==
  /\ reader # "hook" /\ reading[slot] = Idle
  /\ reader = "browser" => tab = "visible"
  /\ reading' = [reading EXCEPT ![slot].begun = TRUE]
  /\ UNCHANGED <<page, shown, live, tab>>

Read(slot) ==
  /\ reading[slot].begun /\ Len(reading[slot].got) < Reads[reader]
  /\ reading' = [reading EXCEPT ![slot].got = Append(@, LoadFeatureRegistry(disk))]
  /\ UNCHANGED <<page, shown, live, tab>>

\* A reading that raises ends with no answer: the page shown stays.
Raises(reads) == reader \in {"browser", "snapshot"} /\ PayloadRaises(reads[1], reads[2])

Rendered(reads) ==
  CASE reader = "browser" -> BuildBoardPayload("live", reads[1], reads[2], files)
    [] reader = "snapshot" -> BuildBoardPayload("snapshot", reads[1], reads[2], files)
    [] reader = "monitor" -> RenderPartMonitor(reads[1], reads[2], files)
    [] reader = "status" -> RenderStatusBoard(reads)
    [] reader = "wiring" -> BuildWiring(reads[1])

Answer(slot) ==
  /\ reading[slot].begun /\ Len(reading[slot].got) = Reads[reader]
  /\ reading' = [reading EXCEPT ![slot] = Idle]

\* The answer is shown as it comes, unless the tab has been closed.
Show(reads) ==
  IF Raises(reads) \/ (reader = "browser" /\ tab = "closed")
  THEN UNCHANGED <<page, shown>>
  ELSE page' = Rendered(reads) /\ shown' = reads

Finish(slot) ==
  /\ Answer(slot) /\ Show(reading[slot].got)
  /\ UNCHANGED <<live, tab>>

TurnTab ==
  /\ reader = "browser" /\ tab # "closed"
  /\ tab' \in {"visible", "hidden", "closed"} \ {tab}
  /\ UNCHANGED <<reading, page, shown, live>>

\* publish_board_to_pages.sh: nothing is pushed that render_check.mjs, which
\* clicks the first cell, could not draw, and nothing that is live already.
Publish ==
  /\ reader = "snapshot" /\ reading[1] = Idle
  /\ page # NoPage /\ DOMAIN page.cells # {}
  /\ page # live
  /\ live' = page
  /\ UNCHANGED <<reading, page, shown, tab>>

ReadOn == \E slot \in Slots : Read(slot) \/ Finish(slot)

Look ==
  /\ (\E slot \in Slots : Begin(slot)) \/ ReadOn \/ TurnTab \/ Publish
  /\ UNCHANGED <<writerVars, index, head, reader, files>>

DeskNext == Write \/ Stage \/ Commit \/ CheckOut \/ Look

\* setInterval polls for as long as the tab is there, and the threaded server
\* answers every request: no fetch waits for another.
DeskFairness ==
  \A slot \in {1, 2} :
    /\ WF_readerVars(slot \in Slots /\ Begin(slot))
    /\ WF_readerVars(slot \in Slots /\ Read(slot))
    /\ WF_reading(slot \in Slots /\ Answer(slot))

DeskSpec == DeskInit /\ [][DeskNext]_deskVars /\ DeskFairness
=============================================================================
