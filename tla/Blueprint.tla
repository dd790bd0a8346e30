----------------------------- MODULE Blueprint -----------------------------
(***************************************************************************)
(* The feature registry docs/features.json as dashboard/render_blueprint.py *)
(* reads it, the wires it derives and the contract rules it checks.         *)
(*                                                                         *)
(* A registry keeps each part by its id, the declared data types and the    *)
(* blocks.  Of a part the rules tell apart: its name, block, what it reads  *)
(* and writes, the breaches of its own shape (T-1 .. T-6, decided by fields *)
(* no other part touches), and the facts the governor and the throttle      *)
(* need.  place says which of two parts comes later in the file.  Of a block*)
(* it is its contract, its peer group and what the diagrams place it by.    *)
(***************************************************************************)
EXTENDS FiniteSets, Sequences

Health == "part-health"
Undeclared == [class |-> "absent", risk |-> "absent", skipped |-> "absent"]
Known == [class |-> {"io-bound", "compute-bound", "bandwidth-bound"},
          risk |-> {"latency-only", "changes-the-answer"},
          skipped |-> {"delays", "corrupts"}]

\* A registry file cut off by its writer: json.loads raises on it.
Torn == [torn |-> TRUE]

Nothing == [x \in {} |-> {}]
EmptyRegistry == [features |-> Nothing, types |-> {}, categories |-> Nothing]

\* What every reader of the dashboard gets: a malformed file reads as nothing.
LoadFeatureRegistry(file) == IF file = Torn THEN EmptyRegistry ELSE file

Parts(reg) == DOMAIN reg.features
Blocks(reg) == DOMAIN reg.categories
HasFeatures(reg) == Parts(reg) # {}
HasDeclaredFlow(reg) ==
  reg.types # {} /\ \E c \in Blocks(reg) : reg.categories[c].produces # {}

PartsOf(reg, block) == {p \in Parts(reg) : reg.features[p].category = block}

----------------------------------------------------------------------------

\* Every wire between the ends: a producer, a consumer that is another of them,
\* and the type.
Wires(ends) ==
  UNION {UNION {{<<p, c, t>> : t \in ends[p].produces \cap ends[c].consumes} :
                c \in DOMAIN ends \ {p}} : p \in DOMAIN ends}

DeriveEdges(reg) == Wires(reg.features)
DeriveCategoryEdges(reg) == Wires(reg.categories)

DataEdges(edges) == {e \in edges : e[3] # Health}

Breach(rule, part, type) == [rule |-> rule, part |-> part, type |-> type]

\* A block's declared contract counts as a producer and as a consumer.
Produced(reg) ==
  UNION ({reg.features[p].produces : p \in Parts(reg)}
         \cup {reg.categories[c].produces : c \in Blocks(reg)})
Consumed(reg) ==
  UNION ({reg.features[p].consumes : p \in Parts(reg)}
         \cup {reg.categories[c].consumes : c \in Blocks(reg)})

\* T-1 .. T-6 but for the block and the names, from the part's own fields.
ShapeBreaches(reg, p) ==
  {Breach(rule, p, "shape") : rule \in reg.features[p].faults}

\* A part that has not declared its facts may not be allocated or throttled.
FactBreaches(reg, p) ==
  {Breach("T-1", p, fact) : fact \in {f \in DOMAIN Known :
                                        reg.features[p].facts[f] \notin Known[f]}}

\* part_declaration.py: only a part whose late and skipped ticks both merely
\* delay may be slowed down.
MayEnterRateLadder(facts) == facts.risk = "latency-only" /\ facts.skipped = "delays"

\* T-4: a part sits in a declared block and names types, never parts.
CircuitBreaches(reg, p) ==
  LET f == reg.features[p]
  IN  {Breach("T-4", p, "category") : c \in {f.category} \ Blocks(reg)}
      \cup {Breach("T-4", p, t) : t \in (f.consumes \cup f.produces) \cap Parts(reg)}

\* R-01: dangling inputs, orphan outputs, undeclared types, isolated parts.
FlowBreaches(reg, p, produced, consumed) ==
  LET f == reg.features[p]
      broken == (f.consumes \ (reg.types \cap produced))
                \cup (f.produces \ (reg.types \cap consumed))
  IN  {Breach("R-01", p, t) : t \in broken}
      \cup (IF f.consumes \cup f.produces = {}
            THEN {Breach("R-01", p, "isolated")} ELSE {})

\* R-03: a part of one peer block feeds a part of a sibling.
PeerOf(reg, p) ==
  LET block == reg.features[p].category
  IN  IF block \in Blocks(reg) THEN reg.categories[block].peer ELSE "none"

PeerBreaches(reg) ==
  LET crosses(e) == /\ e[3] # Health
                    /\ reg.features[e[1]].category # reg.features[e[2]].category
                    /\ PeerOf(reg, e[1]) # "none"
                    /\ PeerOf(reg, e[1]) = PeerOf(reg, e[2])
  IN  {Breach("R-03", e[1], e[3]) : e \in {w \in DeriveEdges(reg) : crosses(w)}}

FindContractViolations(reg) ==
  LET produced == Produced(reg)
      consumed == Consumed(reg)
  IN  PeerBreaches(reg)
      \cup UNION {ShapeBreaches(reg, p) \cup FactBreaches(reg, p) \cup CircuitBreaches(reg, p)
                  \cup FlowBreaches(reg, p, produced, consumed) : p \in Parts(reg)}

\* check_contracts.py, run by the pre-commit hook: nothing declared passes.
CheckContractsPasses(reg) == ~HasFeatures(reg) \/ FindContractViolations(reg) = {}

DESCRIBED_FLOW_ORIGINS == {"proposed", "agreed-provisional"}
IsDescribed(block) == block.origin \in DESCRIBED_FLOW_ORIGINS

\* Where the flow between the blocks does not close; not a breach of a rule.
FindFlowGaps(reg) ==
  LET all(field) == UNION {reg.categories[c][field] : c \in Blocks(reg)}
      gaps(c) == (reg.categories[c].consumes \ all("produces"))
                 \cup (reg.categories[c].produces \ all("consumes"))
  IN  UNION {{<<c, t>> : t \in IF IsDescribed(reg.categories[c]) THEN gaps(c)
                               ELSE {"not described"}} : c \in Blocks(reg)}
=============================================================================
