--------------------------- MODULE BlueprintEdits ---------------------------
(***************************************************************************)
(* dashboard/blueprint_edits/*.py: what each script makes of the registry. *)
(*                                                                         *)
(* The scripts add some 250 parts.  The ones kept here are those that more *)
(* than one script writes, with the types between them and a part at the   *)
(* other end of each; a script does to every part it adds what it does to  *)
(* these.  Names, roles, evidence and dates are left out.                  *)
(***************************************************************************)
EXTENDS Blueprint, Naturals

Sides == {"bull", "bear"}
Bot == [bull |-> "bull-bot", bear |-> "bear-bot", tail |-> "profit-tailgating-bot"]
Named(side, what) == side \o "-" \o what

\* The types that flow inside one bot, and the bots that use each.
INTERNAL == [t \in {"feature-vector", "exit-plan"} |-> IF t = "exit-plan" THEN DOMAIN Bot ELSE Sides]
PredictionFlag == "forecast-out-of-distribution-flag"
OwnFlag(side) == Named(side, "feature-out-of-distribution-flag")

\* A name made of a side and one of these words is made in no other way, and is
\* none of the names written out.
SideWords == {"feature-builder", "outlier-rejector", "conviction-model", "exit-plan-proposer",
              "feature-vector", "exit-plan", "feature-out-of-distribution-flag"}
WrittenOut == {"position-sizer", "trade-capital-bounds-gate", "structured-output-enforcer",
               "sized-order", "llm-response", "training-label", "bounded-order",
               "validated-llm-output", "feature-vector", "exit-plan", "exit-counterfactual",
               "exit-counterfactual-replayer", "shortfall-decomposer", "trade-narrative-writer",
               "bull-bot", "bear-bot", "profit-tailgater", "exit-opinion-bot",
               Health, PredictionFlag}

ASSUME NamesAssumption ==
  \A s, u \in DOMAIN Bot, word, other \in SideWords :
    /\ Named(s, word) \notin WrittenOut
    /\ Named(s, word) = Named(u, other) => s = u /\ word = other

----------------------------------------------------------------------------
(* The helpers the scripts share, each with a copy of its own.             *)

Row(id, category, consumes, produces) ==
  [id |-> id, category |-> category, consumes |-> consumes,
   produces |-> produces \cup {Health}]

\* A part the script does not find is appended, one it finds is updated and
\* keeps the facts the row does not name: feats[pid].update(f).
FromRow(row, place, facts) ==
  [name |-> row.id, category |-> row.category, consumes |-> row.consumes,
   produces |-> row.produces, faults |-> {}, place |-> place, facts |-> facts]

UpdatedFrom(reg, row) ==
  IF row.id \in Parts(reg)
  THEN FromRow(row, reg.features[row.id].place, reg.features[row.id].facts)
  ELSE FromRow(row, Cardinality(Parts(reg)), Undeclared)

AddParts(reg, rows) ==
  LET ids == {row.id : row \in rows}
      rowOf(id) == CHOOSE row \in rows : row.id = id
  IN  [reg EXCEPT !.features = [p \in ids \cup Parts(reg) |->
                                  IF p \in ids THEN UpdatedFrom(reg, rowOf(p)) ELSE @[p]]]

AddTypes_Slip(reg, types) == [reg EXCEPT !.types = types]

AddTypes(reg, types) == [reg EXCEPT !.types = @ \cup types]

AddBlocks(reg, blocks, scope) ==
  LET block == [consumes |-> {}, produces |-> {}, peer |-> "none",
                origin |-> "agreed-provisional", scope |-> scope, parent |-> "none"]
  IN  [reg EXCEPT !.categories = [c \in DOMAIN @ \cup blocks |->
                                    IF c \in DOMAIN @ THEN @[c] ELSE block]]

ConsumeAlso(reg, parts, types) ==
  [reg EXCEPT !.features = [p \in Parts(reg) |->
     IF p \in parts THEN [reg.features[p] EXCEPT !.consumes = @ \cup types]
     ELSE reg.features[p]]]

Swap(types, old, new) == IF old \in types THEN (types \ {old}) \cup {new} ELSE types

\* A part that never read the old type reads the new one all the same.
Repoint(reg, parts, old, new) ==
  [reg EXCEPT !.features = [p \in Parts(reg) |->
     IF p \in parts THEN [reg.features[p] EXCEPT !.consumes = Swap(@, old, new) \cup {new}]
     ELSE reg.features[p]]]

Retire(reg, ids) ==
  [reg EXCEPT !.features = [p \in DOMAIN @ \ ids |-> @[p]]]

\* The block contracts of the blocks that have parts.
RecomputeContracts(reg) ==
  LET all(c, field) == UNION {reg.features[p][field] : p \in PartsOf(reg, c)}
  IN  [reg EXCEPT !.categories = [c \in Blocks(reg) |->
         IF PartsOf(reg, c) = {} THEN reg.categories[c]
         ELSE [reg.categories[c] EXCEPT !.consumes = all(c, "consumes"), !.produces = all(c, "produces")]]]

----------------------------------------------------------------------------
(* The scripts, in the order they were first run.                          *)

HarvestRows ==
  {Row("order-idempotency-stamper", "paper-live-trading", {"sized-order"}, {}),
   Row("forecast-distribution-gate", "prediction", {}, {PredictionFlag}),
   Row("tail-trailing-exit-planner", Bot.tail, {}, {"exit-plan"})}
  \cup UNION {{Row(Named(s, "feature-builder"), Bot[s], {}, {"feature-vector"}),
               Row(Named(s, "outlier-rejector"), Bot[s], {"feature-vector"}, {PredictionFlag}),
               Row(Named(s, "conviction-model"), Bot[s], {"feature-vector", PredictionFlag}, {}),
               Row(Named(s, "exit-plan-proposer"), Bot[s], {}, {"exit-plan"})} : s \in Sides}

RETIRED == {"bull-bot", "bear-bot", "profit-tailgater", "exit-opinion-bot"}

HarvestAndThreeBots(reg) ==
  LET types == AddTypes(reg, {PredictionFlag, "feature-vector", "exit-plan"})
      parts == AddParts(AddBlocks(types, {Bot[s] : s \in DOMAIN Bot}, "per-segment"), HarvestRows)
  IN  RecomputeContracts(ConsumeAlso(Retire(parts, RETIRED), {"stop-target-placer"}, {"exit-plan"}))

ThinkingRows ==
  {Row("label-builder", "learning-loop", {}, {"training-label"}),
   Row("sample-weight-assigner", "learning-loop", {"training-label"}, {}),
   Row("feature-attribution-tracker", "learning-loop", {"feature-vector"}, {}),
   Row("counterfactual-replayer", "intelligence", {}, {}),
   Row("premortem-writer", "ai-brain", {"llm-response"}, {})}

ThinkingBlocksAndFeed(reg) ==
  RecomputeContracts(ConsumeAlso(AddParts(AddTypes(reg, {"training-label"}), ThinkingRows),
                                 {Named(s, "conviction-model") : s \in Sides},
                                 {"training-label"}))

ClosedTradeRows ==
  LET block == "closed-trade-decoding"
  IN  {Row("exit-counterfactual-replayer", block, {"exit-plan"}, {"exit-counterfactual"}),
       Row("shortfall-decomposer", block, {"sized-order"}, {}),
       Row("trade-narrative-writer", block, {"llm-response", "journal-entry"}, {})}

ClosedTradeDecoding(reg) ==
  RecomputeContracts(ConsumeAlso(AddParts(AddTypes(reg, {"exit-counterfactual"}), ClosedTradeRows),
                                 {"tail-trailing-exit-planner", "exit-timing-learner"},
                                 {"exit-counterfactual"}))

\* One type, as a part of a bot reads or writes it once the bots are private.
Private(side, t) ==
  IF t \in DOMAIN INTERNAL /\ side \in INTERNAL[t] THEN Named(side, t) ELSE t

PrivatisedPart(reg, p) ==
  LET f == reg.features[p]
      private(side, types) == {Private(side, t) : t \in types}
      flagged(side, types) == IF p = Named(side, "outlier-rejector")
                              THEN Swap(types, PredictionFlag, OwnFlag(side)) ELSE types
      outside == UNION {IF t \in DOMAIN INTERNAL THEN {Named(s, t) : s \in INTERNAL[t]}
                        ELSE {t} : t \in f.consumes}
  IN  IF \E s \in DOMAIN Bot : f.category = Bot[s]
      THEN LET side == CHOOSE s \in DOMAIN Bot : f.category = Bot[s]
           IN  [f EXCEPT !.consumes = private(side, @)
                           \cup (IF side \in Sides /\ p = Named(side, "conviction-model")
                                 THEN {OwnFlag(side)} ELSE {}),
                         !.produces = private(side, flagged(side, @))]
      ELSE [f EXCEPT !.consumes = outside]

\* Only the three bots get a peer group; the generic types go when unused.
SidePrivateTypes(reg) ==
  LET variants == UNION {{Named(s, t) : s \in INTERNAL[t]} : t \in DOMAIN INTERNAL}
      swapped == [reg EXCEPT !.features = [p \in DOMAIN @ |-> PrivatisedPart(reg, p)]]
      used == UNION {swapped.features[p].consumes \cup swapped.features[p].produces :
                     p \in Parts(swapped)}
      peers == [c \in Blocks(reg) |-> IF \E s \in DOMAIN Bot : c = Bot[s]
                                      THEN [reg.categories[c] EXCEPT !.peer = "segment-bots"]
                                      ELSE reg.categories[c]]
  IN  RecomputeContracts(
        [swapped EXCEPT !.types = (@ \cup variants \cup {OwnFlag(s) : s \in Sides})
                                  \ (DOMAIN INTERNAL \ used),
                        !.categories = peers])

CapitalRows ==
  {Row("trade-capital-bounds-gate", "risk-capital-allocation", {"sized-order"}, {"bounded-order"}),
   Row("structured-output-enforcer", "llm-foundation", {"llm-response"}, {"validated-llm-output"})}

CapitalDeskAndLlmFoundation(reg) ==
  LET blocks == AddBlocks(reg, {"capital-desk", "llm-foundation"}, "shared")
      added == AddParts(AddTypes(blocks, {"bounded-order", "validated-llm-output"}), CapitalRows)
      bounded == Repoint(added, {"order-idempotency-stamper", "shortfall-decomposer",
                                 "trade-lifecycle-recorder"}, "sized-order", "bounded-order")
  IN  RecomputeContracts(Repoint(bounded, {"premortem-writer", "trade-narrative-writer"},
                                 "llm-response", "validated-llm-output"))

\* part_declarations: the facts by the first vocabulary a part's words meet.
Facts(class, risk, skipped) == [class |-> class, risk |-> risk, skipped |-> skipped]
CATCH_ALL == Facts("compute-bound", "changes-the-answer", "corrupts")

DefaultFor(p) ==
  CASE p = "trade-lifecycle-recorder" -> Facts("io-bound", "latency-only", "delays")
    [] p \in {"leverage-selector", "backtest-scorer", "tail-trailing-exit-planner",
              "forecast-distribution-gate", "exit-timing-learner"} \cup {Named(s, "conviction-model") : s \in Sides}
         -> Facts("compute-bound", "latency-only", "delays")
    [] p \in {Named(s, "feature-builder") : s \in Sides} \cup {"feature-attribution-tracker"}
         -> Facts("bandwidth-bound", "changes-the-answer", "corrupts")
    [] p = "metered-api-caller" -> Facts("io-bound", "changes-the-answer", "corrupts")
    [] OTHER -> CATCH_ALL

DeclaredFacts_Slip(p, facts) == DefaultFor(p)

DeclaredFacts(p, facts) ==
  [f \in DOMAIN facts |-> IF facts[f] = "absent" THEN DefaultFor(p)[f] ELSE facts[f]]

PartDeclarations(reg) ==
  [reg EXCEPT !.features =
     [p \in Parts(reg) |-> [reg.features[p] EXCEPT !.facts = DeclaredFacts(p, @)]]]

CORRECTIONS == {"leverage-selector", "tail-trailing-exit-planner", "forecast-distribution-gate"}

CorrectLiveDecisionParts(reg) ==
  [reg EXCEPT !.features = [p \in Parts(reg) |->
     IF p \in CORRECTIONS
     THEN [reg.features[p] EXCEPT !.facts.risk = "changes-the-answer", !.facts.skipped = "corrupts"]
     ELSE reg.features[p]]]

----------------------------------------------------------------------------

Scripts == <<"harvest_and_three_bots", "thinking_blocks_and_feed", "closed_trade_decoding",
             "side_private_types", "capital_desk_and_llm_foundation", "part_declarations",
             "correct_live_decision_parts">>

EditedBy(script, reg) ==
  CASE script = Scripts[1] -> HarvestAndThreeBots(reg)
    [] script = Scripts[2] -> ThinkingBlocksAndFeed(reg)
    [] script = Scripts[3] -> ClosedTradeDecoding(reg)
    [] script = Scripts[4] -> SidePrivateTypes(reg)
    [] script = Scripts[5] -> CapitalDeskAndLlmFoundation(reg)
    [] script = Scripts[6] -> PartDeclarations(reg)
    [] script = Scripts[7] -> CorrectLiveDecisionParts(reg)

\* A KeyError or a SystemExit before anything is written.
MayBeApplied(script, reg) ==
  CASE script = Scripts[1] -> "stop-target-placer" \in Parts(reg)
    [] script = Scripts[2] -> {Named(s, "conviction-model") : s \in Sides} \subseteq Parts(reg)
    [] script = Scripts[3] -> "tail-trailing-exit-planner" \in Parts(reg)
    [] script = Scripts[4] ->
         /\ {Bot[s] : s \in DOMAIN Bot} \subseteq Blocks(reg)
         /\ \A p \in Parts(reg) : \/ \E s \in DOMAIN Bot : reg.features[p].category = Bot[s]
                                  \/ reg.features[p].produces \cap DOMAIN INTERNAL = {}
    [] script = Scripts[5] -> {"order-idempotency-stamper", "shortfall-decomposer", "trade-lifecycle-recorder",
                               "premortem-writer", "trade-narrative-writer"} \subseteq Parts(reg)
    [] script = Scripts[6] -> TRUE
    [] script = Scripts[7] -> CORRECTIONS \subseteq Parts(reg)

\* The parts the scripts found, and the blueprint they left: the one shipped.
BaseRows ==
  {Row("position-sizer", "risk-capital-allocation", {}, {"sized-order"}),
   Row("stop-target-placer", "risk-capital-allocation", {}, {}),
   Row("leverage-selector", "risk-capital-allocation", {}, {}),
   Row("metered-api-caller", "llm-services", {}, {"llm-response"}),
   Row("heartbeat-collector", "resource-governor", {Health}, {}),
   Row("backtest-scorer", "backtesting", {}, {}),
   Row("exit-timing-learner", "learning-loop", {}, {}),
   Row("exit-opinion-bot", "ai-brain", {}, {}),
   Row("trade-lifecycle-recorder", "ledger", {"sized-order"}, {"journal-entry"})}

\* ai-brain and the scanner are the two blocks drawn inside another.
BaseBlueprint ==
  LET rows == BaseRows \cup ThinkingRows \cup ClosedTradeRows
      blocks == AddBlocks(EmptyRegistry, {row.category : row \in rows}
                            \cup {"paper-live-trading", "prediction", "segment-bot"}, "per-segment")
      placed == [c \in Blocks(blocks) |->
                   [blocks.categories[c] EXCEPT
                      !.origin = IF c \in {"learning-loop", "intelligence", "ai-brain", "backtesting"}
                                 THEN "proposed" ELSE @,
                      !.scope = IF c \in {"resource-governor", "intelligence"} THEN "global" ELSE @,
                      !.parent = IF c = "ai-brain" THEN "segment-bot" ELSE @]]
  IN  AddParts(AddTypes([blocks EXCEPT !.categories = placed],
                        {Health, "sized-order", "llm-response", "journal-entry"}), BaseRows)

AfterScripts[n \in 0..Len(Scripts)] ==
  IF n = 0 THEN BaseBlueprint ELSE EditedBy(Scripts[n], AfterScripts[n - 1])

ShippedBlueprint == AfterScripts[Len(Scripts)]
=============================================================================
