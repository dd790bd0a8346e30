-------------------------- MODULE MCBlueprintDesk ---------------------------
(***************************************************************************)
(* Four parts a hand may save: one with the name of another part and a     *)
(* shape that breaks a rule, one in a block nobody declared, a sound one   *)
(* that reads a type its block did not, and one in a bot's block that keeps*)
(* to that bot.  The readers of one page see one change; the hook's tree   *)
(* two.                                                                    *)
(***************************************************************************)
EXTENDS BlueprintDeskProperties, TLC

Sound == Facts("io-bound", "latency-only", "delays")

MCHandParts ==
  "leverage-selector-two" :>
    [name |-> "leverage-selector", category |-> "backtesting", consumes |-> {},
     produces |-> {Health}, faults |-> {"T-2"}, place |-> 99, facts |-> Sound]
  @@ "homeless" :>
    [name |-> "homeless", category |-> "nowhere", consumes |-> {},
     produces |-> {Health}, faults |-> {}, place |-> 99, facts |-> Undeclared]
  @@ "label-auditor" :>
    [name |-> "label-auditor", category |-> "risk-capital-allocation",
     consumes |-> {"training-label"}, produces |-> {Health}, faults |-> {}, place |-> 99,
     facts |-> Sound]
  @@ "bull-exit-timer" :>
    [name |-> "bull-exit-timer", category |-> Bot.bull,
     consumes |-> {"training-label", "bull-feature-vector"}, produces |-> {Health, "bull-exit-plan"},
     faults |-> {}, place |-> 99, facts |-> Sound]

\* A file named for one part hits every part whose name its own contains.
MCNameHits(part) ==
  IF part = "exit-counterfactual-replayer" THEN {part, "counterfactual-replayer"} ELSE {part}

MCFilesOnDisk ==
  {{}, {[of |-> "exit-counterfactual-replayer", test |-> FALSE],
        [of |-> "position-sizer", test |-> FALSE],
        [of |-> "position-sizer", test |-> TRUE]}}

MCMaxChanges ==
  [hook |-> 2, browser |-> 1, snapshot |-> 1, monitor |-> 1, status |-> 1, wiring |-> 1]
=============================================================================
