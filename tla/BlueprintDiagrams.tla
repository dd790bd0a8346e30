------------------------- MODULE BlueprintDiagrams --------------------------
(***************************************************************************)
(* The blueprint section of the status board, render_blueprint.py: which   *)
(* blocks its diagrams place and which wires they draw.  Labels, mermaid's *)
(* syntax and the order of lines are left out; a box or a wire drawn twice *)
(* shows once.                                                             *)
(***************************************************************************)
EXTENDS Blueprint

RECORDER == "ledger"

BlockEdges(reg) == DataEdges(DeriveCategoryEdges(reg))
EndsOf(edges) == {e[1] : e \in edges} \cup {e[2] : e \in edges}

(* render_data_plane                                                       *)
DataPlaneEdges(reg) == {e \in BlockEdges(reg) : RECORDER \notin {e[1], e[2]}}

Children(reg, block) == {c \in Blocks(reg) : reg.categories[c].parent = block}
Nested(reg) == {c \in Blocks(reg) : reg.categories[c].parent # "none"}

\* The outer boxes: per segment or shared with a wire or a child, global with a wire.
Outer(reg, drawn) ==
  {c \in Blocks(reg) \ Nested(reg) :
     /\ IsDescribed(reg.categories[c])
     /\ \/ c \in drawn
        \/ reg.categories[c].scope # "global" /\ Children(reg, c) # {}}

\* A box is emitted with what is nested in it, wired or not.
Emitted(reg) ==
  LET outer == Outer(reg, EndsOf(DataPlaneEdges(reg)))
  IN  outer \cup UNION {Children(reg, c) : c \in outer}

\* What is not "proposed" counts as awaiting, an agreed block too.
Unplaced(reg) ==
  {c \in Blocks(reg) \ Nested(reg) : reg.categories[c].origin # "proposed"}

(* render_recording_plane, render_control_plane                            *)
RecordingEdges(reg) == {e \in BlockEdges(reg) : e[2] = RECORDER}
Emitters(reg) == {c \in Blocks(reg) : Health \in reg.categories[c].produces}

(* render_feature_diagram: the wires inside a block, and at its boundary   *)
(* the types of the contract the block declares, whatever its parts read.  *)
InsideEdges(reg, block) ==
  {e \in DataEdges(DeriveEdges(reg)) : {e[1], e[2]} \subseteq PartsOf(reg, block)}

Boundary(reg, block) ==
  [in |-> reg.categories[block].consumes, out |-> reg.categories[block].produces \ {Health}]

(* render_feature_table, render_deep_dives: each block with parts, opened. *)
DeepDives(reg) ==
  [c \in {b \in Blocks(reg) : PartsOf(reg, b) # {}} |->
     [rows |-> PartsOf(reg, c), wires |-> InsideEdges(reg, c), boundary |-> Boundary(reg, c)]]

(* render_blueprint_section: nothing, the blocks alone, or all of it.      *)
NoSection == [cards |-> {}, verdict |-> {}, gaps |-> {}, wires |-> {}, boxes |-> {},
              awaiting |-> {}, switched |-> {}, dives |-> Nothing]

BlueprintSection(reg) ==
  IF ~HasDeclaredFlow(reg) THEN [NoSection EXCEPT !.cards = Blocks(reg)]
  ELSE [cards |-> Blocks(reg),
        verdict |-> FindContractViolations(reg),
        gaps |-> FindFlowGaps(reg),
        wires |-> DataPlaneEdges(reg) \cup RecordingEdges(reg),
        boxes |-> Emitted(reg) \cup EndsOf(RecordingEdges(reg)),
        awaiting |-> Unplaced(reg),
        switched |-> Emitters(reg),
        dives |-> DeepDives(reg)]
=============================================================================
