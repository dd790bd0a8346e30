---------------------------- MODULE PartMonitor -----------------------------
(***************************************************************************)
(* What the dashboard makes of one or several readings of the registry:    *)
(* build_part_monitor.py, part_health_api.py, build_status_board.py and    *)
(* build_wiring_explorer.py.                                               *)
(*                                                                         *)
(* A page is what a reader takes from it: the breaches listed, the rung of *)
(* every cell drawn, the state of every block and of every tile, the wires *)
(* and the blueprint section.  A page leaves empty what it does not show.  *)
(***************************************************************************)
EXTENDS BlueprintDiagrams, Integers

CONSTANTS NameHits(_)   \* the parts whose name a file named for a part contains

\* A source file is named for a part, and is a test by a "test" in its name
\* or its directory, or an implementation.
LooksLikeTest(file) == file.test

Hits(part, files) == {file \in files : part \in NameHits(file.of)}

ProbePartRung(part, files) ==
  LET impls == {file \in Hits(part, files) : ~LooksLikeTest(file)}
  IN  IF impls = {} THEN "DECLARED"
      ELSE IF Hits(part, files) = impls THEN "IMPLEMENTED" ELSE "TESTED"

\* by_name: of two parts with one name the one later in the file is meant.
NamedInBreach(reg, name) ==
  CHOOSE p \in Parts(reg) :
    /\ reg.features[p].name = name
    /\ \A q \in Parts(reg) : reg.features[q].name = name
                             => reg.features[q].place <= reg.features[p].place

\* An R-03 breach begins with a part's id and an arrow: it matches no name.
PartsInViolation_Slip(reg) ==
  {NamedInBreach(reg, reg.features[v.part].name) : v \in FindContractViolations(reg)}

PartsInViolation(reg) ==
  {NamedInBreach(reg, reg.features[v.part].name) :
     v \in {w \in FindContractViolations(reg) : w.rule # "R-03"}}

MeasureParts(reg, files) ==
  LET broken == PartsInViolation(reg)
  IN  [p \in Parts(reg) |-> IF p \in broken THEN "FAILING" ELSE ProbePartRung(p, files)]

SummariseBlockState(rungs) ==
  IF rungs = {} THEN "NOT MEASURED"
  ELSE IF "FAILING" \in rungs THEN "FAILING"
  ELSE IF rungs = {"RUNNING"} THEN "RUNNING"
  ELSE IF rungs = {"DECLARED"} THEN "DECLARED"
  ELSE "PARTIAL"

----------------------------------------------------------------------------
(* The pages.                                                              *)

NoPage == [mode |-> "none", verdict |-> {}, cells |-> Nothing, blocks |-> Nothing,
           tiles |-> Nothing, wires |-> {}, section |-> NoSection]

\* A verdict from one reading beside cells measured on another: a part only
\* the first had is a KeyError, and there is no payload.
PayloadRaises(first, second) == ~(Parts(first) \subseteq Parts(second))

BuildBoardPayload(mode, first, second, files) ==
  LET rungs == MeasureParts(second, files)
      cells == [p \in Parts(first) |-> rungs[p]]
  IN  [NoPage EXCEPT !.mode = mode,
                     !.verdict = FindContractViolations(first),
                     !.cells = cells,
                     !.blocks = [c \in Blocks(first) |->
                                   SummariseBlockState({cells[p] : p \in PartsOf(first, c)})]]

\* The cells of the first reading in the blocks of the second.
RenderPartMonitor(first, second, files) ==
  LET rungs == MeasureParts(first, files)
      drawn == UNION {PartsOf(first, c) : c \in Blocks(second)}
  IN  [NoPage EXCEPT !.mode = "page", !.cells = [p \in drawn |-> rungs[p]]]

BuildWiring(reg) ==
  [NoPage EXCEPT !.mode = "page", !.verdict = FindContractViolations(reg),
                 !.wires = DataEdges(DeriveEdges(reg))]

ArchitectureTile(reg) == IF HasFeatures(reg) THEN "OK" ELSE "NOT BUILT"
CategoriesTile(reg) == IF Blocks(reg) # {} THEN "OK" ELSE "NOT BUILT"
FeaturesTile(reg) == IF HasFeatures(reg) THEN "OK" ELSE "NOT BUILT"

FlowTile(reg) ==
  IF ~HasDeclaredFlow(reg) THEN "NOT MEASURED"
  ELSE IF FindContractViolations(reg) # {} THEN "FAILING"
  ELSE IF HasFeatures(reg) THEN "OK" ELSE "NOT BUILT"

\* Four probes and the blueprint section, each on a reading of its own.
RenderStatusBoard(reads) ==
  LET section == BlueprintSection(reads[5])
  IN  [NoPage EXCEPT
         !.mode = "page",
         !.tiles = [architecture |-> ArchitectureTile(reads[1]),
                    categories |-> CategoriesTile(reads[2]),
                    features |-> FeaturesTile(reads[3]),
                    flow |-> FlowTile(reads[4])],
         !.verdict = section.verdict,
         !.section = section]
=============================================================================
