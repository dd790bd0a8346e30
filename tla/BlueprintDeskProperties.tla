---------------------- MODULE BlueprintDeskProperties -----------------------
(***************************************************************************)
(* What the edit scripts, the pre-commit hook and the pages may be relied  *)
(* on to do, and where that ends.                                          *)
(***************************************************************************)
EXTENDS BlueprintDesk

IsRegistry(reg) ==
  /\ DOMAIN reg = DOMAIN EmptyRegistry
  /\ Health \in reg.types \/ reg = EmptyRegistry
  /\ \A p \in Parts(reg) : DOMAIN reg.features[p].facts = DOMAIN Undeclared

\* Every registry kept anywhere is a registry or cut off, every reading is one
\* a reader can hold, and no more of the changes are made than the bound.
DeskTypeOK ==
  /\ \A reg \in {disk, index, head} : reg = Torn \/ IsRegistry(reg)
  /\ edit.at \in {"none", "editing", "writing"}
  /\ changes \in 0..MaxChanges[reader]
  /\ \A slot \in {1, 2} :
       /\ Len(reading[slot].got) <= IF reading[slot].begun THEN Reads[reader] ELSE 0
       /\ \A i \in DOMAIN reading[slot].got : IsRegistry(reading[slot].got[i])
  /\ tab \in {"visible", "hidden", "closed"}
  /\ page.mode \in {"none", "live", "snapshot", "page"}
  /\ live.mode \in {"none", "snapshot"}

----------------------------------------------------------------------------
(* The edits.                                                              *)

ReadersOf(reg, type) == {p \in Parts(reg) : type \in reg.features[p].consumes}
BoundsGateHolds(reg) == ReadersOf(reg, "sized-order") = {"trade-capital-bounds-gate"}
OnlyValidatedIsRead(reg) == ReadersOf(reg, "llm-response") = {"structured-output-enforcer"}
LabelsReachTheBots(reg) ==
  {Named(s, "conviction-model") : s \in Sides} \subseteq ReadersOf(reg, "training-label")
BotsApart(reg) ==
  LET blocks == {Bot[s] : s \in DOMAIN Bot}
      block(p) == reg.features[p].category
  IN  \A e \in DataEdges(DeriveEdges(reg)) :
        block(e[1]) \in blocks /\ block(e[2]) \in blocks => block(e[1]) = block(e[2])
FactsCorrected(reg) ==
  \A p \in CORRECTIONS \cap Parts(reg) : ~MayEnterRateLadder(reg.features[p].facts)

Finishes == edit.at = "writing" /\ disk' # Torn
Undone(Holds(_)) == Finishes /\ Holds(edit.over) /\ ~Holds(disk')
By(scripts) == edit.script \in {Scripts[i] : i \in scripts}

\* Each script says that re-running it changes nothing.  That is so of the
\* registry it left, not of the one later scripts made of that: a row written
\* again takes the part back to what it was in that script's day.  What a later
\* edit established is undone by the scripts that own a row it amended and by
\* no other, and a corrected fact by none, part_declarations included.
LaterEditUndoneOnlyByItsRow ==
  [][/\ Undone(BoundsGateHolds) => By({1, 3})
     /\ Undone(OnlyValidatedIsRead) => By({2, 3})
     /\ Undone(LabelsReachTheBots) => By({1})
     /\ Undone(BotsApart) => By({1})
     /\ ~Undone(FactsCorrected)]_deskVars

\* A script writes back the whole of what it read: a part saved in between is
\* gone.  No other part is, but those the harvest script retires.
PartLostOnlyToStaleRead ==
  [][Finishes =>
       Parts(edit.over) \ Parts(disk')
         \subseteq (Parts(edit.over) \ Parts(edit.read))
                   \cup IF By({1}) THEN RETIRED ELSE {}]_deskVars

\* The hook checks the working tree and git commits the index, and a registry
\* cut off in the tree reads as one that declares nothing.  A blueprint that
\* breaks a rule, with bots wired to each other say, gets past the hook through
\* one of the two and in no other way.
BreachCommittedOnlyUnseen ==
  [][head' # head =>
       \/ index # disk
       \/ disk = Torn
       \/ BotsApart(head') /\ FindContractViolations(head') = {}]_deskVars

----------------------------------------------------------------------------
(* The pages.                                                              *)

Steady == shown # <<>> /\ \A i \in DOMAIN shown : shown[i] = shown[1]
Red == {p \in DOMAIN page.cells : page.cells[p] = "FAILING"}
NameOf(p) == shown[1].features[p].name
Homes == {shown[1].features[p].category : p \in Red}

\* The wires between parts of two blocks that show in neither's deep dive.
Unseen(section, reg) ==
  {e \in DataEdges(DeriveEdges(reg)) :
     LET from == reg.features[e[1]].category
         to == reg.features[e[2]].category
     IN  /\ from # to /\ {from, to} \subseteq Blocks(reg)
         /\ ~(/\ e[3] \in section.dives[from].boundary.out
              /\ e[3] \in section.dives[to].boundary.in)}

\* Where no edit fell between the readings of one page, the page agrees with
\* itself.  Of the payload: the names of the red cells are the names the verdict
\* lists under any rule but R-03, one cell to a name, and a block is red exactly
\* if a cell of it is.  Of the status board: the flow tile is red exactly if the
\* section below it lists a breach, and over a registry cut off nothing is OK;
\* the diagrams have a box at each end of a wire, and no wire from one block to
\* another is left out but those of a part saved by hand, whose type its block's
\* contract does not list before a script has computed it again.  The monitor
\* leaves out no part but one whose block nobody declared, and the wiring page
\* draws every wire its verdict faults.
SteadyPageAgrees ==
  Steady =>
    /\ page.mode \in {"live", "snapshot"} =>
         /\ {NameOf(p) : p \in Red} = {NameOf(v.part) : v \in {w \in page.verdict : w.rule # "R-03"}}
         /\ \A p, q \in Red : NameOf(p) = NameOf(q) => p = q
         /\ {c \in DOMAIN page.blocks : page.blocks[c] = "FAILING"} = Homes \cap DOMAIN page.blocks
    /\ reader = "status" =>
         /\ (page.tiles.flow = "FAILING") <=> page.verdict # {}
         /\ shown[1] = EmptyRegistry =>
              /\ page.tiles.flow = "NOT MEASURED"
              /\ \A tile \in DOMAIN page.tiles : page.tiles[tile] # "OK"
         /\ EndsOf(page.section.wires) \subseteq page.section.boxes
         /\ shown[1] # EmptyRegistry =>
              \A e \in Unseen(page.section, shown[1]) : {e[1], e[2]} \cap DOMAIN HandParts # {}
    /\ reader = "monitor" =>
         \A p \in Parts(shown[1]) \ DOMAIN page.cells :
           shown[1].features[p].category \notin Blocks(shown[1])
    /\ reader = "wiring" =>
         \A v \in page.verdict : v.rule = "R-03" =>
           \E wire \in page.wires : wire[1] = v.part /\ wire[3] = v.type

\* A board left in view catches up with the registry: two fetches may be in
\* flight and the older answer come last, but the next poll puts that right.
BoardCatchesUp ==
  (reader = "browser" /\ <>[](tab = "visible"))
    => <>[](shown # <<>> /\ \A i \in DOMAIN shown : shown[i] = LoadFeatureRegistry(disk))
=============================================================================
