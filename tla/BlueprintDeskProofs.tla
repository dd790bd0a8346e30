------------------------ MODULE BlueprintDeskProofs -------------------------
(***************************************************************************)
(* Theorems about the blueprint desk, for any parts saved by hand, any     *)
(* naming of the bots' parts that keeps them distinct, and any number of   *)
(* changes: what an edit script keeps of a registry, that the registry     *)
(* every file and every reader can hold is one those edits keep, and what  *)
(* the hook, the scripts and the pages then promise.                       *)
(***************************************************************************)
EXTENDS BlueprintDeskProperties, Minimality

----------------------------------------------------------------------------
(* A whole registry, and the operations that keep it whole.                *)

\* What a part and a block are written down with, and the findings on the shape
\* of a part alone.
PartFields == {"name", "category", "consumes", "produces", "faults", "place", "facts"}
BlockFields == {"consumes", "produces", "peer", "origin", "scope", "parent"}
ShapeRules == {"T-1", "T-2", "T-3", "T-4", "T-5", "T-6"}

\* A part with every field, at a place in the file, each declared fact present.
PartShape(f) ==
  /\ DOMAIN f = PartFields /\ f.place \in Nat /\ f.faults \subseteq ShapeRules
  /\ DOMAIN f.facts = DOMAIN Undeclared

\* A block is drawn at the top or in a box that is, and is no global block.
BlockShape(b) == DOMAIN b = BlockFields /\ IsDescribed(b)
PlacedIn(blocks, b) ==
  b.parent # "none" => /\ b.parent \in DOMAIN blocks
                       /\ blocks[b.parent].parent = "none" /\ blocks[b.parent].scope # "global"

\* The parts are finite in number and whole; so are the blocks, each drawn in its
\* place.
WholeParts(features) ==
  IsFiniteSet(DOMAIN features) /\ \A p \in DOMAIN features : PartShape(features[p])
WholeBlocks(blocks) == \A c \in DOMAIN blocks : BlockShape(blocks[c]) /\ PlacedIn(blocks, blocks[c])

\* What every operation of an edit needs of a registry and leaves of it.
Whole(reg) ==
  /\ DOMAIN reg = {"features", "types", "categories"}
  /\ Health \in reg.types
  /\ WholeParts(reg.features)
  /\ WholeBlocks(reg.categories)

\* Adding types leaves parts and blocks as they were.
LEMMA AddTypesKeeps ==
  ASSUME NEW reg, NEW types, NEW new, Whole(reg), new = AddTypes(reg, types)
  PROVE  Whole(new) /\ new.features = reg.features /\ new.categories = reg.categories
BY DEF Whole, AddTypes

\* Adding rows leaves every part the rows do not name, and makes each it names out
\* of a row of that name.
LEMMA AddPartsKeeps ==
  ASSUME NEW reg, NEW rows, NEW new, Whole(reg), IsFiniteSet({row.id : row \in rows}),
         new = AddParts(reg, rows)
  PROVE  /\ Whole(new) /\ new.categories = reg.categories /\ new.types = reg.types
         /\ Parts(new) = {row.id : row \in rows} \cup Parts(reg)
         /\ \A p \in Parts(reg) :
              p \notin {row.id : row \in rows} => new.features[p] = reg.features[p]
         /\ \A p \in {row.id : row \in rows} :
              \E row \in rows : row.id = p /\ new.features[p] = UpdatedFrom(reg, row)
<1> DEFINE ids == {row.id : row \in rows}
           rowOf(id) == CHOOSE row \in rows : row.id = id
           features == [p \in ids \cup Parts(reg) |->
                          IF p \in ids THEN UpdatedFrom(reg, rowOf(p)) ELSE reg.features[p]]
<1>1. /\ DOMAIN new = {"features", "types", "categories"} /\ new.features = features
      /\ new.categories = reg.categories /\ new.types = reg.types
  BY DEF Whole, AddParts
<1>2. \A p \in ids : rowOf(p) \in rows /\ rowOf(p).id = p
  OBVIOUS
<1>3. \A p \in ids : features[p] = UpdatedFrom(reg, rowOf(p))
  OBVIOUS
<1>4. \A p \in Parts(reg) : p \notin ids => features[p] = reg.features[p]
  OBVIOUS
<1>5. DOMAIN features = ids \cup Parts(reg) /\ Parts(new) = ids \cup Parts(reg)
  BY <1>1 DEF Parts
<1>6. IsFiniteSet(ids \cup Parts(reg)) /\ Cardinality(Parts(reg)) \in Nat
  <2>1. IsFiniteSet(Parts(reg)) BY DEF Whole, WholeParts, Parts
  <2> QED BY <2>1, FS_Union, FS_CardinalityType
<1>7. ASSUME NEW p \in ids PROVE PartShape(features[p])
  <2>1. \A row, place, facts :
          /\ DOMAIN FromRow(row, place, facts) = PartFields
          /\ FromRow(row, place, facts).place = place /\ FromRow(row, place, facts).faults = {}
          /\ FromRow(row, place, facts).facts = facts
    BY DEF FromRow, PartFields
  <2>2. CASE p \in Parts(reg)
    <3>1. features[p] = FromRow(rowOf(p), reg.features[p].place, reg.features[p].facts)
      BY <1>2, <1>3, <2>2 DEF UpdatedFrom
    <3>2. PartShape(reg.features[p])
      BY <2>2 DEF Whole, WholeParts, Parts
    <3> HIDE DEF features, rowOf
    <3> QED BY <2>1, <3>1, <3>2 DEF PartShape
  <2>3. CASE p \notin Parts(reg)
    <3>1. features[p] = FromRow(rowOf(p), Cardinality(Parts(reg)), Undeclared)
      BY <1>2, <1>3, <2>3 DEF UpdatedFrom
    <3> HIDE DEF features, rowOf
    <3> QED BY <2>1, <3>1, <1>6 DEF PartShape
  <2> QED BY <2>2, <2>3
<1>8. WholeParts(features)
  <2>1. \A p \in Parts(reg) : p \notin ids => PartShape(features[p])
    BY <1>4 DEF Whole, WholeParts, Parts
  <2> HIDE DEF features
  <2> QED BY <1>5, <1>6, <1>7, <2>1 DEF WholeParts
<1>9. Whole(new)
  BY <1>1, <1>8 DEF Whole
<1> HIDE DEF features, rowOf
<1> QED BY <1>1, <1>2, <1>3, <1>4, <1>5, <1>9

\* Adding blocks leaves those there were.
LEMMA AddBlocksKeeps ==
  ASSUME NEW reg, NEW blocks, NEW scope, NEW new, Whole(reg), new = AddBlocks(reg, blocks, scope)
  PROVE  /\ Whole(new) /\ new.features = reg.features /\ new.types = reg.types
         /\ Blocks(new) = Blocks(reg) \cup blocks
         /\ \A c \in Blocks(reg) : new.categories[c] = reg.categories[c]
<1> DEFINE block == [consumes |-> {}, produces |-> {}, peer |-> "none",
                     origin |-> "agreed-provisional", scope |-> scope, parent |-> "none"]
           cats == [c \in Blocks(reg) \cup blocks |->
                      IF c \in Blocks(reg) THEN reg.categories[c] ELSE block]
<1>1. /\ DOMAIN new = {"features", "types", "categories"} /\ new.features = reg.features
      /\ new.types = reg.types /\ new.categories = cats
  BY DEF Whole, AddBlocks, Blocks
<1>2. BlockShape(block) /\ block.parent = "none"
  BY DEF BlockShape, BlockFields, IsDescribed, DESCRIBED_FLOW_ORIGINS
<1>3. /\ DOMAIN cats = Blocks(reg) \cup blocks
      /\ \A c \in Blocks(reg) : cats[c] = reg.categories[c]
      /\ \A c \in blocks \ Blocks(reg) : cats[c] = block
  OBVIOUS
<1> HIDE DEF cats, block
<1>4. WholeBlocks(cats)
  BY <1>2, <1>3 DEF Whole, WholeBlocks, PlacedIn, Blocks
<1> QED BY <1>1, <1>3, <1>4 DEF Whole, Blocks

\* A part as it was but for what it reads, or but for what it reads and writes.
SameButFlow(f, g) ==
  /\ g.name = f.name /\ g.category = f.category /\ g.faults = f.faults
  /\ g.place = f.place /\ g.facts = f.facts
SameButReads(f, g) == SameButFlow(f, g) /\ g.produces = f.produces

\* The parts named read the types named as well, and nothing else changes.
LEMMA ConsumeAlsoKeeps ==
  ASSUME NEW reg, NEW parts, NEW types, NEW new, Whole(reg), new = ConsumeAlso(reg, parts, types)
  PROVE  /\ Whole(new) /\ new.categories = reg.categories /\ new.types = reg.types
         /\ Parts(new) = Parts(reg)
         /\ \A p \in Parts(reg) : SameButReads(reg.features[p], new.features[p])
         /\ \A p \in Parts(reg) : new.features[p].consumes =
              IF p \in parts THEN reg.features[p].consumes \cup types
              ELSE reg.features[p].consumes
<1> DEFINE f(p) == reg.features[p]
           again(p) == [f(p) EXCEPT !.consumes = @ \cup types]
           features == [p \in Parts(reg) |-> IF p \in parts THEN again(p) ELSE f(p)]
<1>1. /\ DOMAIN new = {"features", "types", "categories"} /\ new.features = features
      /\ new.categories = reg.categories /\ new.types = reg.types
  BY DEF Whole, ConsumeAlso, Parts
<1>2. DOMAIN features = Parts(reg) /\ Parts(new) = Parts(reg)
  BY <1>1 DEF Parts
<1>3. ASSUME NEW p \in Parts(reg)
      PROVE  /\ SameButReads(f(p), features[p])
             /\ features[p].consumes = IF p \in parts THEN f(p).consumes \cup types
                                                   ELSE f(p).consumes
             /\ DOMAIN features[p] = PartFields /\ DOMAIN f(p) = PartFields
  <2>1. DOMAIN f(p) = PartFields
    BY DEF Whole, WholeParts, PartShape, Parts
  <2>2. /\ SameButReads(f(p), again(p)) /\ DOMAIN again(p) = PartFields
        /\ again(p).consumes = f(p).consumes \cup types
    BY <2>1 DEF PartFields, SameButReads, SameButFlow
  <2>3. p \in parts => features[p] = again(p)
    OBVIOUS
  <2>4. p \notin parts => features[p] = f(p)
    OBVIOUS
  <2> HIDE DEF features, again
  <2> QED BY <2>1, <2>2, <2>3, <2>4 DEF SameButReads, SameButFlow
<1> HIDE DEF features
<1>4. WholeParts(features)
  BY <1>2, <1>3 DEF Whole, WholeParts, PartShape, SameButReads, SameButFlow, Parts
<1>5. Whole(new)
  BY <1>1, <1>4 DEF Whole
<1> QED BY <1>1, <1>2, <1>3, <1>5

\* The parts named read the new type for the old, and nothing else changes.
LEMMA RepointKeeps ==
  ASSUME NEW reg, NEW parts, NEW old, NEW type, NEW new, Whole(reg),
         new = Repoint(reg, parts, old, type)
  PROVE  /\ Whole(new) /\ new.categories = reg.categories /\ new.types = reg.types
         /\ Parts(new) = Parts(reg)
         /\ \A p \in Parts(reg) : SameButReads(reg.features[p], new.features[p])
         /\ \A p \in Parts(reg) : new.features[p].consumes =
              IF p \in parts THEN Swap(reg.features[p].consumes, old, type) \cup {type}
              ELSE reg.features[p].consumes
<1> DEFINE f(p) == reg.features[p]
           again(p) == [f(p) EXCEPT !.consumes = Swap(@, old, type) \cup {type}]
           features == [p \in Parts(reg) |-> IF p \in parts THEN again(p) ELSE f(p)]
<1>1. /\ DOMAIN new = {"features", "types", "categories"} /\ new.features = features
      /\ new.categories = reg.categories /\ new.types = reg.types
  BY DEF Whole, Repoint, Parts
<1>2. DOMAIN features = Parts(reg) /\ Parts(new) = Parts(reg)
  BY <1>1 DEF Parts
<1>3. ASSUME NEW p \in Parts(reg)
      PROVE  /\ SameButReads(f(p), features[p])
             /\ features[p].consumes = IF p \in parts THEN Swap(f(p).consumes, old, type) \cup {type}
                                                   ELSE f(p).consumes
             /\ DOMAIN features[p] = PartFields /\ DOMAIN f(p) = PartFields
  <2>1. DOMAIN f(p) = PartFields
    BY DEF Whole, WholeParts, PartShape, Parts
  <2>2. /\ SameButReads(f(p), again(p)) /\ DOMAIN again(p) = PartFields
        /\ again(p).consumes = Swap(f(p).consumes, old, type) \cup {type}
    BY <2>1 DEF PartFields, SameButReads, SameButFlow
  <2>3. p \in parts => features[p] = again(p)
    OBVIOUS
  <2>4. p \notin parts => features[p] = f(p)
    OBVIOUS
  <2> HIDE DEF features, again
  <2> QED BY <2>1, <2>2, <2>3, <2>4 DEF SameButReads, SameButFlow
<1> HIDE DEF features
<1>4. WholeParts(features)
  BY <1>2, <1>3 DEF Whole, WholeParts, PartShape, SameButReads, SameButFlow, Parts
<1>5. Whole(new)
  BY <1>1, <1>4 DEF Whole
<1> QED BY <1>1, <1>2, <1>3, <1>5

\* Retiring parts removes them and changes no other.
LEMMA RetireKeeps ==
  ASSUME NEW reg, NEW ids, NEW new, Whole(reg), new = Retire(reg, ids)
  PROVE  /\ Whole(new) /\ new.categories = reg.categories /\ new.types = reg.types
         /\ Parts(new) = Parts(reg) \ ids
         /\ \A p \in Parts(new) : new.features[p] = reg.features[p]
<1> DEFINE features == [p \in Parts(reg) \ ids |-> reg.features[p]]
<1>1. /\ DOMAIN new = {"features", "types", "categories"} /\ new.features = features
      /\ new.categories = reg.categories /\ new.types = reg.types
  BY DEF Whole, Retire, Parts
<1>2. IsFiniteSet(Parts(reg) \ ids)
  BY FS_Subset DEF Whole, WholeParts, Parts
<1>3. WholeParts(features)
  BY <1>2 DEF Whole, WholeParts, Parts
<1>4. Whole(new)
  BY <1>1, <1>3 DEF Whole
<1> QED BY <1>1, <1>4 DEF Parts

\* What the parts of a block read and write is in the block's contract.
Tight(reg, p) ==
  reg.features[p].category \in Blocks(reg) =>
    /\ reg.features[p].consumes \subseteq reg.categories[reg.features[p].category].consumes
    /\ reg.features[p].produces \subseteq reg.categories[reg.features[p].category].produces

\* Computing the contracts again makes every part's block list what it reads and
\* writes, and changes only what the blocks read and write.
LEMMA RecomputeKeeps ==
  ASSUME NEW reg, NEW new, Whole(reg), new = RecomputeContracts(reg)
  PROVE  /\ Whole(new) /\ new.features = reg.features /\ new.types = reg.types
         /\ Blocks(new) = Blocks(reg)
         /\ \A c \in Blocks(reg) : new.categories[c].peer = reg.categories[c].peer
         /\ \A p \in Parts(new) : Tight(new, p)
<1> DEFINE all(c, field) == UNION {reg.features[p][field] : p \in PartsOf(reg, c)}
           again(c) == [reg.categories[c] EXCEPT !.consumes = all(c, "consumes"),
                                                 !.produces = all(c, "produces")]
           cats == [c \in Blocks(reg) |->
                      IF PartsOf(reg, c) = {} THEN reg.categories[c] ELSE again(c)]
<1>1. /\ DOMAIN new = {"features", "types", "categories"} /\ new.features = reg.features
      /\ new.types = reg.types /\ new.categories = cats
  BY DEF Whole, RecomputeContracts, Blocks
<1>2. ASSUME NEW c \in Blocks(reg)
      PROVE  /\ cats[c].peer = reg.categories[c].peer /\ cats[c].scope = reg.categories[c].scope
             /\ cats[c].origin = reg.categories[c].origin /\ DOMAIN cats[c] = BlockFields
             /\ cats[c].parent = reg.categories[c].parent
             /\ PartsOf(reg, c) # {} => /\ cats[c].consumes = all(c, "consumes")
                                        /\ cats[c].produces = all(c, "produces")
  <2>1. DOMAIN reg.categories[c] = BlockFields
    BY DEF Whole, WholeBlocks, BlockShape, Blocks
  <2>2. cats[c] = reg.categories[c] \/ cats[c] = again(c)
    OBVIOUS
  <2>3. PartsOf(reg, c) # {} => cats[c] = again(c)
    OBVIOUS
  <2>4. /\ again(c).peer = reg.categories[c].peer /\ again(c).scope = reg.categories[c].scope
        /\ again(c).origin = reg.categories[c].origin /\ DOMAIN again(c) = BlockFields
        /\ again(c).parent = reg.categories[c].parent
        /\ again(c).consumes = all(c, "consumes") /\ again(c).produces = all(c, "produces")
    BY <2>1 DEF BlockFields
  <2> HIDE DEF cats, all, again
  <2> QED BY <2>1, <2>2, <2>3, <2>4
<1>3. DOMAIN cats = Blocks(reg) /\ Blocks(new) = Blocks(reg)
  BY <1>1 DEF Blocks
<1>4. WholeBlocks(cats)
  <2> HIDE DEF cats
  <2> QED BY <1>2, <1>3 DEF Whole, WholeBlocks, BlockShape, PlacedIn, IsDescribed, Blocks
<1>5. Whole(new)
  BY <1>1, <1>4 DEF Whole
<1>6. ASSUME NEW p \in Parts(new), new.features[p].category \in Blocks(new) PROVE Tight(new, p)
  <2> DEFINE c == new.features[p].category
  <2>1. p \in PartsOf(reg, c) /\ c \in Blocks(reg)
    BY <1>1, <1>3, <1>6 DEF Parts, PartsOf
  <2>2. /\ reg.features[p].consumes \subseteq all(c, "consumes")
        /\ reg.features[p].produces \subseteq all(c, "produces")
    BY <2>1
  <2>3. cats[c].consumes = all(c, "consumes") /\ cats[c].produces = all(c, "produces")
    BY <1>2, <2>1
  <2> HIDE DEF cats, all
  <2> QED BY <1>1, <2>2, <2>3 DEF Tight
<1>7. \A p \in Parts(new) : Tight(new, p)
  BY <1>6 DEF Tight
<1> HIDE DEF cats
<1> QED BY <1>1, <1>2, <1>3, <1>5, <1>7

----------------------------------------------------------------------------
(* The bots and the corrections.                                           *)

\* The blocks of the two bots and the arbiter.
BotBlocks == {Bot[s] : s \in DOMAIN Bot}

\* A bot's own part keeps its name, block, place, faults and facts.
LEMMA PrivatisedKeeps ==
  ASSUME NEW reg, NEW p, PartShape(reg.features[p])
  PROVE  /\ PartShape(PrivatisedPart(reg, p))
         /\ SameButFlow(reg.features[p], PrivatisedPart(reg, p))
         /\ reg.features[p].category \notin BotBlocks =>
              SameButReads(reg.features[p], PrivatisedPart(reg, p))
<1> DEFINE f == reg.features[p]
<1>1. \A reads : LET new == [f EXCEPT !.consumes = reads]
                 IN  PartShape(new) /\ SameButReads(f, new)
  BY DEF PartShape, PartFields, SameButFlow, SameButReads
<1>2. CASE f.category \in BotBlocks
  <2>1. \E s \in DOMAIN Bot : f.category = Bot[s]
    BY <1>2 DEF BotBlocks
  <2> DEFINE side == CHOOSE s \in DOMAIN Bot : f.category = Bot[s]
             private(types) == {Private(side, t) : t \in types}
             flagged(types) == IF p = Named(side, "outlier-rejector")
                               THEN Swap(types, PredictionFlag, OwnFlag(side)) ELSE types
             reads == private(f.consumes)
                        \cup (IF side \in Sides /\ p = Named(side, "conviction-model")
                              THEN {OwnFlag(side)} ELSE {})
             writes == private(flagged(f.produces))
  <2>2. PrivatisedPart(reg, p) = [f EXCEPT !.consumes = reads, !.produces = writes]
    BY <2>1 DEF PrivatisedPart
  <2> HIDE DEF reads, writes
  <2>3. /\ PartShape([f EXCEPT !.consumes = reads, !.produces = writes])
        /\ SameButFlow(f, [f EXCEPT !.consumes = reads, !.produces = writes])
    BY DEF PartShape, PartFields, SameButFlow
  <2> QED BY Zenon, <1>2, <2>2, <2>3
<1>3. CASE f.category \notin BotBlocks
  <2>1. ~ \E s \in DOMAIN Bot : f.category = Bot[s]
    BY <1>3 DEF BotBlocks
  <2>2. \E reads : PrivatisedPart(reg, p) = [f EXCEPT !.consumes = reads]
    BY <2>1 DEF PrivatisedPart
  <2> QED BY <1>1, <2>2 DEF SameButReads
<1> QED BY <1>2, <1>3

\* Giving each bot its own types leaves the registry whole and the blocks listed.
LEMMA SidePrivateKeeps ==
  ASSUME NEW reg, NEW new, Whole(reg), new = SidePrivateTypes(reg)
  PROVE  /\ Whole(new) /\ Parts(new) = Parts(reg) /\ Blocks(new) = Blocks(reg)
         /\ \A p \in Parts(reg) :
              /\ SameButFlow(reg.features[p], new.features[p])
              /\ reg.features[p].category \notin BotBlocks =>
                   SameButReads(reg.features[p], new.features[p])
         /\ \A p \in Parts(reg) : new.features[p] = PrivatisedPart(reg, p)
         /\ \A c \in Blocks(reg) \cap BotBlocks : new.categories[c].peer = "segment-bots"
         /\ \A c \in Blocks(reg) \ BotBlocks : new.categories[c].peer = reg.categories[c].peer
         /\ \A p \in Parts(new) : Tight(new, p)
<1> DEFINE variants == UNION {{Named(s, t) : s \in INTERNAL[t]} : t \in DOMAIN INTERNAL}
           features == [p \in Parts(reg) |-> PrivatisedPart(reg, p)]
           swapped == [reg EXCEPT !.features = features]
           used == UNION {swapped.features[p].consumes \cup swapped.features[p].produces :
                          p \in Parts(swapped)}
           peered(c) == [reg.categories[c] EXCEPT !.peer = "segment-bots"]
           peers == [c \in Blocks(reg) |-> IF \E s \in DOMAIN Bot : c = Bot[s] THEN peered(c)
                                           ELSE reg.categories[c]]
           types == (reg.types \cup variants \cup {OwnFlag(s) : s \in Sides}) \ (DOMAIN INTERNAL \ used)
           mid == [swapped EXCEPT !.types = types, !.categories = peers]
<1>1. new = RecomputeContracts(mid)
  <2>1. swapped.types = reg.types
    BY DEF Whole
  <2> QED BY <2>1 DEF SidePrivateTypes, Parts
<1>2. /\ DOMAIN mid = {"features", "types", "categories"} /\ mid.features = features
      /\ mid.types = types /\ mid.categories = peers
  BY DEF Whole
<1>3. Health \in types
  BY DEF Whole, INTERNAL, Health
<1>4. \A p \in Parts(reg) : features[p] = PrivatisedPart(reg, p)
  OBVIOUS
<1>5. DOMAIN features = Parts(reg) /\ DOMAIN peers = Blocks(reg)
  OBVIOUS
<1>6. WholeParts(features)
  BY <1>4, <1>5, PrivatisedKeeps DEF Whole, WholeParts, Parts
<1>7. ASSUME NEW c \in Blocks(reg)
      PROVE  /\ DOMAIN peers[c] = BlockFields /\ peers[c].origin = reg.categories[c].origin
             /\ peers[c].parent = reg.categories[c].parent
             /\ peers[c].scope = reg.categories[c].scope
             /\ c \in BotBlocks => peers[c].peer = "segment-bots"
             /\ c \notin BotBlocks => peers[c].peer = reg.categories[c].peer
  <2>1. DOMAIN reg.categories[c] = BlockFields
    BY DEF Whole, WholeBlocks, BlockShape, Blocks
  <2>2. c \in BotBlocks => peers[c] = peered(c)
    BY DEF BotBlocks
  <2>3. c \notin BotBlocks => peers[c] = reg.categories[c]
    BY DEF BotBlocks
  <2>4. /\ DOMAIN peered(c) = BlockFields /\ peered(c).origin = reg.categories[c].origin
        /\ peered(c).parent = reg.categories[c].parent /\ peered(c).scope = reg.categories[c].scope
        /\ peered(c).peer = "segment-bots"
    BY <2>1 DEF BlockFields
  <2> HIDE DEF peers, peered
  <2> QED BY <2>1, <2>2, <2>3, <2>4
<1> HIDE DEF features, peers, types, mid
<1>8. WholeBlocks(peers)
  BY <1>5, <1>7 DEF Whole, WholeBlocks, BlockShape, PlacedIn, IsDescribed, Blocks
<1>9. Whole(mid)
  BY <1>2, <1>3, <1>6, <1>8 DEF Whole
<1>10. /\ Whole(new) /\ new.features = features /\ Blocks(new) = Blocks(mid)
       /\ \A c \in Blocks(mid) : new.categories[c].peer = peers[c].peer
       /\ \A p \in Parts(new) : Tight(new, p)
  BY <1>1, <1>2, <1>9, RecomputeKeeps
<1>11. Parts(new) = Parts(reg) /\ Blocks(mid) = Blocks(reg)
  BY <1>2, <1>5, <1>10 DEF Parts, Blocks
<1>12. \A p \in Parts(reg) : PartShape(reg.features[p])
  BY DEF Whole, WholeParts, Parts
<1>13. \A p \in Parts(reg) :
         /\ SameButFlow(reg.features[p], new.features[p])
         /\ reg.features[p].category \notin BotBlocks =>
              SameButReads(reg.features[p], new.features[p])
  BY <1>4, <1>10, <1>12, PrivatisedKeeps
<1> QED BY <1>4, <1>7, <1>10, <1>11, <1>13

\* Writing the declarations down leaves each fact already declared.
LEMMA DeclarationsKeep ==
  ASSUME NEW reg, NEW new, Whole(reg), new = PartDeclarations(reg)
  PROVE  /\ Whole(new) /\ new.categories = reg.categories /\ new.types = reg.types
         /\ Parts(new) = Parts(reg)
         /\ \A p \in Parts(reg) :
              LET old == reg.features[p]
                  now == new.features[p]
              IN  /\ now.name = old.name /\ now.category = old.category
                  /\ now.consumes = old.consumes /\ now.produces = old.produces
                  /\ \A field \in DOMAIN Undeclared :
                       old.facts[field] # "absent" => now.facts[field] = old.facts[field]
<1> DEFINE f(p) == reg.features[p]
           again(p) == [f(p) EXCEPT !.facts = DeclaredFacts(p, @)]
           features == [p \in Parts(reg) |-> again(p)]
<1>1. /\ DOMAIN new = {"features", "types", "categories"} /\ new.features = features
      /\ new.categories = reg.categories /\ new.types = reg.types
  BY DEF Whole, PartDeclarations, Parts
<1>2. DOMAIN features = Parts(reg) /\ Parts(new) = Parts(reg)
  BY <1>1 DEF Parts
<1>3. ASSUME NEW p \in Parts(reg)
      PROVE  /\ PartShape(f(p))
             /\ DOMAIN features[p] = PartFields
             /\ features[p].name = f(p).name /\ features[p].category = f(p).category
             /\ features[p].consumes = f(p).consumes /\ features[p].produces = f(p).produces
             /\ features[p].faults = f(p).faults /\ features[p].place = f(p).place
             /\ features[p].facts = DeclaredFacts(p, f(p).facts)
  <2>1. PartShape(f(p)) /\ features[p] = again(p)
    BY DEF Whole, WholeParts, Parts
  <2> QED BY <2>1 DEF PartShape, PartFields
<1>4. ASSUME NEW p \in Parts(reg)
      PROVE  /\ DOMAIN DeclaredFacts(p, f(p).facts) = DOMAIN Undeclared
             /\ \A field \in DOMAIN Undeclared :
                  f(p).facts[field] # "absent" => DeclaredFacts(p, f(p).facts)[field] = f(p).facts[field]
  <2>1. DOMAIN f(p).facts = DOMAIN Undeclared
    BY <1>3 DEF PartShape
  <2> QED BY <2>1 DEF DeclaredFacts
<1> HIDE DEF features
<1>5. WholeParts(features)
  BY <1>2, <1>3, <1>4 DEF Whole, WholeParts, PartShape, Parts
<1>6. Whole(new)
  BY <1>1, <1>5 DEF Whole
<1> QED BY <1>1, <1>2, <1>3, <1>4, <1>6

\* The corrected facts are corrected, and every other part is as it was.
LEMMA CorrectionKeeps ==
  ASSUME NEW reg, NEW new, Whole(reg), new = CorrectLiveDecisionParts(reg)
  PROVE  /\ Whole(new) /\ new.categories = reg.categories /\ new.types = reg.types
         /\ Parts(new) = Parts(reg)
         /\ \A p \in Parts(reg) :
              LET old == reg.features[p]
                  now == new.features[p]
              IN  /\ now.name = old.name /\ now.category = old.category
                  /\ now.consumes = old.consumes /\ now.produces = old.produces
         /\ \A p \in Parts(reg) \cap CORRECTIONS :
              new.features[p].facts.risk = "changes-the-answer"
         /\ \A p \in Parts(reg) \ CORRECTIONS : new.features[p].facts = reg.features[p].facts
<1> DEFINE f(p) == reg.features[p]
           again(p) == [f(p) EXCEPT !.facts.risk = "changes-the-answer", !.facts.skipped = "corrupts"]
           features == [p \in Parts(reg) |-> IF p \in CORRECTIONS THEN again(p) ELSE f(p)]
<1>1. /\ DOMAIN new = {"features", "types", "categories"} /\ new.features = features
      /\ new.categories = reg.categories /\ new.types = reg.types
  BY DEF Whole, CorrectLiveDecisionParts, Parts
<1>2. DOMAIN features = Parts(reg) /\ Parts(new) = Parts(reg)
  BY <1>1 DEF Parts
<1>3. ASSUME NEW p \in Parts(reg)
      PROVE  /\ PartShape(f(p)) /\ PartShape(features[p])
             /\ features[p].name = f(p).name /\ features[p].category = f(p).category
             /\ features[p].consumes = f(p).consumes /\ features[p].produces = f(p).produces
             /\ p \in CORRECTIONS => features[p].facts.risk = "changes-the-answer"
             /\ p \notin CORRECTIONS => features[p].facts = f(p).facts
  <2>1. PartShape(f(p))
    BY DEF Whole, WholeParts, Parts
  <2>2. CASE p \in CORRECTIONS
    <3>1. features[p] = again(p)
      BY <2>2
    <3>2. /\ DOMAIN again(p) = PartFields /\ again(p).name = f(p).name
          /\ again(p).category = f(p).category /\ again(p).consumes = f(p).consumes
          /\ again(p).produces = f(p).produces /\ again(p).faults = f(p).faults
          /\ again(p).place = f(p).place /\ DOMAIN again(p).facts = DOMAIN f(p).facts
          /\ again(p).facts.risk = "changes-the-answer"
      BY <2>1 DEF PartShape, PartFields, Undeclared
    <3> HIDE DEF features, again
    <3> QED BY <2>1, <2>2, <3>1, <3>2 DEF PartShape
  <2>3. CASE p \notin CORRECTIONS
    BY <2>1, <2>3
  <2> QED BY <2>2, <2>3
<1> HIDE DEF features
<1>4. WholeParts(features)
  BY <1>2, <1>3 DEF Whole, WholeParts, Parts
<1>5. Whole(new)
  BY <1>1, <1>4 DEF Whole
<1> QED BY <1>1, <1>2, <1>3, <1>5

----------------------------------------------------------------------------
(* What a step of an edit keeps of the registry it found.                  *)

\* The part every script keeps in its block and writing: with it a registry is
\* never empty, nor without a declared flow.
AnchorPart(reg) ==
  /\ "position-sizer" \in Parts(reg) /\ "risk-capital-allocation" \in Blocks(reg)
  /\ reg.features["position-sizer"].category = "risk-capital-allocation"
  /\ Health \in reg.features["position-sizer"].produces

\* What an edit, and every step of one, leaves of the registry it found.
Keeps(old, new, lost) ==
  /\ Whole(new)
  /\ Parts(old) \ lost \subseteq Parts(new)
  /\ Blocks(old) \subseteq Blocks(new)
  /\ \A c \in Blocks(old) \cap BotBlocks :
       old.categories[c].peer = "segment-bots" => new.categories[c].peer = "segment-bots"
  /\ \A p \in Parts(old) \ lost :
       old.features[p].facts.risk = "changes-the-answer"
         => new.features[p].facts.risk = "changes-the-answer"
  /\ AnchorPart(old) /\ "position-sizer" \notin lost => AnchorPart(new)

\* One step after another.
LEMMA KeepsOnward ==
  ASSUME NEW a, NEW b, NEW c, NEW l, NEW m, Keeps(a, b, l), Keeps(b, c, m)
  PROVE  Keeps(a, c, l \cup m)
BY DEF Keeps

\* A step that changes only what parts read.
LEMMA KeepsWhenAlike ==
  ASSUME NEW reg, NEW new, NEW lost, Whole(new), Parts(reg) \ lost \subseteq Parts(new),
         Blocks(reg) \subseteq Blocks(new),
         \A c \in Blocks(reg) : new.categories[c].peer = reg.categories[c].peer,
         \A p \in Parts(reg) \ lost : SameButReads(reg.features[p], new.features[p])
  PROVE  Keeps(reg, new, lost)
BY DEF Keeps, SameButReads, SameButFlow, AnchorPart

\* Each kind of step.
LEMMA StepsKeep ==
  ASSUME NEW reg, NEW new, Whole(reg)
  PROVE  /\ \A types : new = AddTypes(reg, types) => Keeps(reg, new, {})
         /\ \A blocks, scope : new = AddBlocks(reg, blocks, scope) => Keeps(reg, new, {})
         /\ \A parts, types : new = ConsumeAlso(reg, parts, types) => Keeps(reg, new, {})
         /\ \A parts, old, type : new = Repoint(reg, parts, old, type) => Keeps(reg, new, {})
         /\ \A ids : new = Retire(reg, ids) => Keeps(reg, new, ids)
         /\ new = RecomputeContracts(reg) => Keeps(reg, new, {})
<1>1. ASSUME NEW types, new = AddTypes(reg, types) PROVE Keeps(reg, new, {})
  <2>1. Whole(new) /\ new.features = reg.features /\ new.categories = reg.categories
    BY <1>1, AddTypesKeeps
  <2> QED BY <2>1, KeepsWhenAlike DEF SameButReads, SameButFlow, Parts, Blocks
<1>2. ASSUME NEW blocks, NEW scope, new = AddBlocks(reg, blocks, scope) PROVE Keeps(reg, new, {})
  <2>1. /\ Whole(new) /\ new.features = reg.features /\ Blocks(reg) \subseteq Blocks(new)
        /\ \A c \in Blocks(reg) : new.categories[c] = reg.categories[c]
    BY <1>2, AddBlocksKeeps
  <2> QED BY <2>1, KeepsWhenAlike DEF SameButReads, SameButFlow, Parts
<1>3. ASSUME NEW parts, NEW types, new = ConsumeAlso(reg, parts, types) PROVE Keeps(reg, new, {})
  <2>1. /\ Whole(new) /\ new.categories = reg.categories /\ Parts(new) = Parts(reg)
        /\ \A p \in Parts(reg) : SameButReads(reg.features[p], new.features[p])
    BY <1>3, ConsumeAlsoKeeps
  <2> QED BY <2>1, KeepsWhenAlike DEF Blocks
<1>4. ASSUME NEW parts, NEW old, NEW type, new = Repoint(reg, parts, old, type)
      PROVE  Keeps(reg, new, {})
  <2>1. /\ Whole(new) /\ new.categories = reg.categories /\ Parts(new) = Parts(reg)
        /\ \A p \in Parts(reg) : SameButReads(reg.features[p], new.features[p])
    BY <1>4, RepointKeeps
  <2> QED BY <2>1, KeepsWhenAlike DEF Blocks
<1>5. ASSUME NEW ids, new = Retire(reg, ids) PROVE Keeps(reg, new, ids)
  <2>1. /\ Whole(new) /\ new.categories = reg.categories /\ Parts(new) = Parts(reg) \ ids
        /\ \A p \in Parts(new) : new.features[p] = reg.features[p]
    BY <1>5, RetireKeeps
  <2> QED BY <2>1, KeepsWhenAlike DEF SameButReads, SameButFlow, Blocks
<1>6. ASSUME new = RecomputeContracts(reg) PROVE Keeps(reg, new, {})
  <2>1. /\ Whole(new) /\ new.features = reg.features /\ Blocks(new) = Blocks(reg)
        /\ \A c \in Blocks(reg) : new.categories[c].peer = reg.categories[c].peer
    BY <1>6, RecomputeKeeps
  <2> QED BY <2>1, KeepsWhenAlike DEF SameButReads, SameButFlow, Parts
<1> QED BY <1>1, <1>2, <1>3, <1>4, <1>5, <1>6

Ids(rows) == {row.id : row \in rows}

\* A step that adds rows.
LEMMA AddPartsStepKeeps ==
  ASSUME NEW reg, NEW new, NEW rows, Whole(reg), IsFiniteSet(Ids(rows)),
         "position-sizer" \notin Ids(rows), new = AddParts(reg, rows)
  PROVE  Keeps(reg, new, {})
<1>1. /\ Whole(new) /\ new.categories = reg.categories /\ Parts(reg) \subseteq Parts(new)
      /\ \A p \in Parts(reg) : p \notin Ids(rows) => new.features[p] = reg.features[p]
      /\ \A p \in Ids(rows) :
           \E row \in rows : row.id = p /\ new.features[p] = UpdatedFrom(reg, row)
  BY AddPartsKeeps DEF Ids
<1>2. ASSUME NEW p \in Parts(reg) PROVE new.features[p].facts = reg.features[p].facts
  <2>1. CASE p \in Ids(rows)
    <3>1. PICK row \in rows : row.id = p /\ new.features[p] = UpdatedFrom(reg, row)
      BY <1>1, <2>1
    <3> QED BY <3>1 DEF UpdatedFrom, FromRow
  <2>2. CASE p \notin Ids(rows)
    BY <1>1, <2>2
  <2> QED BY <2>1, <2>2
<1> QED BY <1>1, <1>2 DEF Keeps, AnchorPart, Blocks

LEMMA FiveAreFinite ==
  ASSUME NEW a, NEW b, NEW c, NEW d, NEW e PROVE IsFiniteSet({a, b, c, d, e})
<1>1. IsFiniteSet({}) BY FS_EmptySet
<1>2. IsFiniteSet({} \cup {a}) BY <1>1, FS_AddElement
<1>3. IsFiniteSet(({} \cup {a}) \cup {b}) BY <1>2, FS_AddElement
<1>4. IsFiniteSet((({} \cup {a}) \cup {b}) \cup {c}) BY <1>3, FS_AddElement
<1>5. IsFiniteSet(((({} \cup {a}) \cup {b}) \cup {c}) \cup {d}) BY <1>4, FS_AddElement
<1>6. IsFiniteSet((((({} \cup {a}) \cup {b}) \cup {c}) \cup {d}) \cup {e}) BY <1>5, FS_AddElement
<1>7. (((({} \cup {a}) \cup {b}) \cup {c}) \cup {d}) \cup {e} = {a, b, c, d, e} OBVIOUS
<1> QED BY <1>6, <1>7

\* The rows of each script name finitely many parts, and which of these matter.
LEMMA RowIds ==
  /\ IsFiniteSet(Ids(HarvestRows)) /\ "position-sizer" \notin Ids(HarvestRows)
  /\ IsFiniteSet(Ids(ThinkingRows)) /\ "position-sizer" \notin Ids(ThinkingRows)
  /\ IsFiniteSet(Ids(ClosedTradeRows)) /\ "position-sizer" \notin Ids(ClosedTradeRows)
  /\ IsFiniteSet(Ids(CapitalRows)) /\ "position-sizer" \notin Ids(CapitalRows)
  /\ IsFiniteSet(Ids(BaseRows))
<1> DEFINE own(s) == {Named(s, "feature-builder"), Named(s, "outlier-rejector"),
                      Named(s, "conviction-model"), Named(s, "exit-plan-proposer")}
<1>1. \A a, b, c, d : Row(a, b, c, d).id = a
  BY DEF Row
<1>2. Ids(HarvestRows) = {"order-idempotency-stamper", "forecast-distribution-gate",
                          "tail-trailing-exit-planner"} \cup own("bull") \cup own("bear")
  BY <1>1 DEF Ids, HarvestRows, Sides
<1>3. Ids(ThinkingRows) = {"label-builder", "sample-weight-assigner", "feature-attribution-tracker",
                           "counterfactual-replayer", "premortem-writer"}
  BY <1>1 DEF Ids, ThinkingRows
<1>4. Ids(ClosedTradeRows) = {"exit-counterfactual-replayer", "shortfall-decomposer",
                              "trade-narrative-writer"}
  BY <1>1 DEF Ids, ClosedTradeRows
<1>5. Ids(CapitalRows) = {"trade-capital-bounds-gate", "structured-output-enforcer"}
  BY <1>1 DEF Ids, CapitalRows
<1>6. Ids(BaseRows) = {"position-sizer", "stop-target-placer", "leverage-selector",
                       "metered-api-caller", "heartbeat-collector"}
                      \cup {"backtest-scorer", "exit-timing-learner", "exit-opinion-bot",
                            "trade-lifecycle-recorder"}
  BY <1>1 DEF Ids, BaseRows
<1>7. \A a, b, c, d : IsFiniteSet({a, b}) /\ IsFiniteSet({a, b, c}) /\ IsFiniteSet({a, b, c, d})
  <2> TAKE a, b, c, d
  <2>1. /\ {a, b} = {a, b, b, b, b} /\ {a, b, c} = {a, b, c, c, c}
        /\ {a, b, c, d} = {a, b, c, d, d}
    OBVIOUS
  <2>2. IsFiniteSet({a, b, b, b, b}) /\ IsFiniteSet({a, b, c, c, c}) /\ IsFiniteSet({a, b, c, d, d})
    BY FiveAreFinite
  <2> QED BY <2>1, <2>2
<1>8. IsFiniteSet(own("bull")) /\ IsFiniteSet(own("bear"))
  BY <1>7
<1>9. "position-sizer" \notin own("bull") \cup own("bear")
  BY NamesAssumption DEF SideWords, WrittenOut, Bot
<1> HIDE DEF own
<1>10. IsFiniteSet(Ids(HarvestRows))
  <2> DEFINE three == {"order-idempotency-stamper", "forecast-distribution-gate",
                       "tail-trailing-exit-planner"}
  <2>1. IsFiniteSet(three)
    BY Zenon, <1>7
  <2> HIDE DEF three
  <2>2. IsFiniteSet(three \cup own("bull"))
    BY <1>8, <2>1, FS_Union
  <2>3. IsFiniteSet((three \cup own("bull")) \cup own("bear"))
    BY <1>8, <2>2, FS_Union
  <2> QED BY <1>2, <2>3 DEF three
<1>11. IsFiniteSet(Ids(BaseRows))
  <2> DEFINE five == {"position-sizer", "stop-target-placer", "leverage-selector",
                      "metered-api-caller", "heartbeat-collector"}
             four == {"backtest-scorer", "exit-timing-learner", "exit-opinion-bot",
                      "trade-lifecycle-recorder"}
  <2>1. IsFiniteSet(five) /\ IsFiniteSet(four)
    BY Zenon, <1>7, FiveAreFinite
  <2> HIDE DEF five, four
  <2>2. IsFiniteSet(five \cup four)
    BY <2>1, FS_Union
  <2> QED BY <1>6, <2>2 DEF five, four
<1>12. /\ IsFiniteSet(Ids(ThinkingRows)) /\ IsFiniteSet(Ids(ClosedTradeRows))
       /\ IsFiniteSet(Ids(CapitalRows))
  <2>1. IsFiniteSet(Ids(ThinkingRows))
    <3>1. IsFiniteSet({"label-builder", "sample-weight-assigner", "feature-attribution-tracker",
                       "counterfactual-replayer", "premortem-writer"})
      BY Zenon, FiveAreFinite
    <3> QED BY Zenon, <1>3, <3>1
  <2>2. IsFiniteSet(Ids(ClosedTradeRows))
    <3>1. IsFiniteSet({"exit-counterfactual-replayer", "shortfall-decomposer",
                       "trade-narrative-writer"})
      BY Zenon, <1>7
    <3> QED BY Zenon, <1>4, <3>1
  <2>3. IsFiniteSet(Ids(CapitalRows))
    <3>1. IsFiniteSet({"trade-capital-bounds-gate", "structured-output-enforcer"})
      BY Zenon, <1>7
    <3> QED BY Zenon, <1>5, <3>1
  <2> QED BY <2>1, <2>2, <2>3
<1>13. /\ "position-sizer" \notin Ids(HarvestRows) /\ "position-sizer" \notin Ids(ThinkingRows)
       /\ "position-sizer" \notin Ids(ClosedTradeRows) /\ "position-sizer" \notin Ids(CapitalRows)
  BY <1>2, <1>3, <1>4, <1>5, <1>9
<1> QED BY <1>10, <1>11, <1>12, <1>13

----------------------------------------------------------------------------
(* The flow edits.                                                         *)

AllTight(reg) == \A p \in Parts(reg) : Tight(reg, p)

\* The first script: it retires the parts it names and makes the bots.
LEMMA HarvestKeeps ==
  ASSUME NEW reg, NEW new, Whole(reg), new = HarvestAndThreeBots(reg)
  PROVE  /\ Keeps(reg, new, RETIRED) /\ AllTight(new) /\ BotBlocks \subseteq Blocks(new)
         /\ {"tail-trailing-exit-planner", "forecast-distribution-gate"} \subseteq Parts(new)
<1> DEFINE types == AddTypes(reg, {PredictionFlag, "feature-vector", "exit-plan"})
           blocks == AddBlocks(types, BotBlocks, "per-segment")
           parts == AddParts(blocks, HarvestRows)
           retired == Retire(parts, RETIRED)
           also == ConsumeAlso(retired, {"stop-target-placer"}, {"exit-plan"})
<1>1. new = RecomputeContracts(also)
  BY DEF HarvestAndThreeBots, BotBlocks
<1> HIDE DEF types, blocks, parts, retired, also
<1>2. Keeps(reg, types, {}) /\ Whole(types)
  <2> DEFINE added == {PredictionFlag, "feature-vector", "exit-plan"}
  <2>1. types = AddTypes(reg, added) BY DEF types
  <2> HIDE DEF added
  <2> QED BY <2>1, StepsKeep DEF Keeps
<1>3. Keeps(types, blocks, {}) /\ Whole(blocks) /\ BotBlocks \subseteq Blocks(blocks)
  <2>1. Blocks(blocks) = Blocks(types) \cup BotBlocks
    BY <1>2, AddBlocksKeeps DEF blocks
  <2> QED BY <1>2, <2>1, StepsKeep DEF Keeps, blocks
<1>4. Keeps(blocks, parts, {}) /\ Whole(parts)
  BY <1>3, AddPartsStepKeeps, RowIds DEF Keeps, parts
<1>5. Keeps(parts, retired, RETIRED) /\ Whole(retired)
  BY <1>4, StepsKeep DEF Keeps, retired
<1>6. Keeps(retired, also, {}) /\ Whole(also)
  BY <1>5, StepsKeep DEF Keeps, also
<1>7. Keeps(also, new, {}) /\ AllTight(new)
  BY <1>1, <1>6, StepsKeep, RecomputeKeeps DEF AllTight
<1>8. Keeps(reg, blocks, {})
  <2>1. Keeps(reg, blocks, {} \cup {}) BY <1>2, <1>3, KeepsOnward
  <2> QED BY <2>1
<1>9. Keeps(blocks, new, RETIRED)
  <2>1. Keeps(blocks, retired, {} \cup RETIRED) BY <1>4, <1>5, KeepsOnward
  <2>2. Keeps(retired, new, {} \cup {}) BY <1>6, <1>7, KeepsOnward
  <2>3. Keeps(blocks, new, ({} \cup RETIRED) \cup ({} \cup {})) BY <2>1, <2>2, KeepsOnward
  <2>4. ({} \cup RETIRED) \cup ({} \cup {}) = RETIRED OBVIOUS
  <2> QED BY <2>3, <2>4
<1>10. Keeps(reg, new, RETIRED)
  <2>1. Keeps(reg, new, {} \cup RETIRED) BY <1>8, <1>9, KeepsOnward
  <2>2. {} \cup RETIRED = RETIRED OBVIOUS
  <2> QED BY <2>1, <2>2
<1>11. BotBlocks \subseteq Blocks(new)
  BY <1>3, <1>9 DEF Keeps
<1>12. {"tail-trailing-exit-planner", "forecast-distribution-gate"} \subseteq Parts(new)
  <2> DEFINE planner == Row("tail-trailing-exit-planner", Bot.tail, {}, {"exit-plan"})
             gate == Row("forecast-distribution-gate", "prediction", {}, {PredictionFlag})
  <2>1. planner \in HarvestRows /\ gate \in HarvestRows
    BY DEF HarvestRows
  <2>2. planner.id = "tail-trailing-exit-planner" /\ gate.id = "forecast-distribution-gate"
    BY DEF Row
  <2> HIDE DEF planner, gate
  <2>3. {"tail-trailing-exit-planner", "forecast-distribution-gate"} \subseteq Ids(HarvestRows)
    BY <2>1, <2>2 DEF Ids
  <2>4. Ids(HarvestRows) \subseteq Parts(parts)
    BY <1>3, AddPartsKeeps, RowIds DEF Ids, parts
  <2>5. Keeps(parts, new, RETIRED)
    <3>1. Keeps(parts, also, RETIRED \cup {}) BY <1>5, <1>6, KeepsOnward
    <3>2. Keeps(parts, new, (RETIRED \cup {}) \cup {}) BY <1>7, <3>1, KeepsOnward
    <3>3. (RETIRED \cup {}) \cup {} = RETIRED OBVIOUS
    <3> QED BY <3>2, <3>3
  <2> QED BY <2>3, <2>4, <2>5 DEF Keeps, RETIRED
<1> QED BY <1>7, <1>10, <1>11, <1>12

LEMMA KeepsAll ==
  ASSUME NEW a, NEW b, NEW c, Keeps(a, b, {}), Keeps(b, c, {}) PROVE Keeps(a, c, {})
<1>1. Keeps(a, c, {} \cup {}) BY KeepsOnward
<1> QED BY <1>1

\* The three later flow edits retire nothing.
LEMMA ThinkingKeeps ==
  ASSUME NEW reg, NEW new, Whole(reg), new = ThinkingBlocksAndFeed(reg)
  PROVE  Keeps(reg, new, {}) /\ AllTight(new)
<1> DEFINE types == AddTypes(reg, {"training-label"})
           parts == AddParts(types, ThinkingRows)
           also == ConsumeAlso(parts, {Named(s, "conviction-model") : s \in Sides}, {"training-label"})
<1>1. new = RecomputeContracts(also)
  BY DEF ThinkingBlocksAndFeed
<1> HIDE DEF types, parts, also
<1>2. Keeps(reg, types, {}) /\ Whole(types)
  BY StepsKeep DEF Keeps, types
<1>3. Keeps(types, parts, {}) /\ Whole(parts)
  BY <1>2, AddPartsStepKeeps, RowIds DEF Keeps, parts
<1>4. Keeps(parts, also, {}) /\ Whole(also)
  <2> DEFINE models == {Named(s, "conviction-model") : s \in Sides}
  <2>1. also = ConsumeAlso(parts, models, {"training-label"}) BY DEF also
  <2> HIDE DEF models
  <2> QED BY <1>3, <2>1, StepsKeep DEF Keeps
<1>5. Keeps(also, new, {}) /\ AllTight(new)
  BY <1>1, <1>4, StepsKeep, RecomputeKeeps DEF AllTight
<1> QED BY <1>2, <1>3, <1>4, <1>5, KeepsAll

LEMMA ClosedTradeKeeps ==
  ASSUME NEW reg, NEW new, Whole(reg), new = ClosedTradeDecoding(reg)
  PROVE  Keeps(reg, new, {}) /\ AllTight(new)
<1> DEFINE types == AddTypes(reg, {"exit-counterfactual"})
           parts == AddParts(types, ClosedTradeRows)
           also == ConsumeAlso(parts, {"tail-trailing-exit-planner", "exit-timing-learner"},
                               {"exit-counterfactual"})
<1>1. new = RecomputeContracts(also)
  BY DEF ClosedTradeDecoding
<1> HIDE DEF types, parts, also
<1>2. Keeps(reg, types, {}) /\ Whole(types)
  BY StepsKeep DEF Keeps, types
<1>3. Keeps(types, parts, {}) /\ Whole(parts)
  BY <1>2, AddPartsStepKeeps, RowIds DEF Keeps, parts
<1>4. Keeps(parts, also, {}) /\ Whole(also)
  BY <1>3, StepsKeep DEF Keeps, also
<1>5. Keeps(also, new, {}) /\ AllTight(new)
  BY <1>1, <1>4, StepsKeep, RecomputeKeeps DEF AllTight
<1> QED BY <1>2, <1>3, <1>4, <1>5, KeepsAll

LEMMA CapitalKeeps ==
  ASSUME NEW reg, NEW new, Whole(reg), new = CapitalDeskAndLlmFoundation(reg)
  PROVE  Keeps(reg, new, {}) /\ AllTight(new)
<1> DEFINE blocks == AddBlocks(reg, {"capital-desk", "llm-foundation"}, "shared")
           types == AddTypes(blocks, {"bounded-order", "validated-llm-output"})
           parts == AddParts(types, CapitalRows)
           bounded == Repoint(parts, {"order-idempotency-stamper", "shortfall-decomposer",
                                      "trade-lifecycle-recorder"}, "sized-order", "bounded-order")
           checked == Repoint(bounded, {"premortem-writer", "trade-narrative-writer"},
                              "llm-response", "validated-llm-output")
<1>1. new = RecomputeContracts(checked)
  BY DEF CapitalDeskAndLlmFoundation
<1> HIDE DEF types, blocks, parts, bounded, checked
<1>2. Keeps(reg, blocks, {}) /\ Whole(blocks)
  BY StepsKeep DEF Keeps, blocks
<1>3. Keeps(blocks, types, {}) /\ Whole(types)
  BY <1>2, StepsKeep DEF Keeps, types
<1>4. Keeps(types, parts, {}) /\ Whole(parts)
  BY <1>3, AddPartsStepKeeps, RowIds DEF Keeps, parts
<1>5. Keeps(parts, bounded, {}) /\ Whole(bounded)
  BY <1>4, StepsKeep DEF Keeps, bounded
<1>6. Keeps(bounded, checked, {}) /\ Whole(checked)
  BY <1>5, StepsKeep DEF Keeps, checked
<1>7. Keeps(checked, new, {}) /\ AllTight(new)
  BY <1>1, <1>6, StepsKeep, RecomputeKeeps DEF AllTight
<1> QED BY <1>2, <1>3, <1>4, <1>5, <1>6, <1>7, KeepsAll

\* Whichever flow edit it is.
LEMMA FlowEditsKeep ==
  ASSUME NEW reg, NEW new, Whole(reg)
  PROVE  /\ new = SidePrivateTypes(reg) =>
              /\ Keeps(reg, new, {}) /\ AllTight(new)
              /\ \A c \in Blocks(reg) \cap BotBlocks : new.categories[c].peer = "segment-bots"
         /\ new \in {PartDeclarations(reg), CorrectLiveDecisionParts(reg)} =>
              Keeps(reg, new, {}) /\ new.categories = reg.categories
              /\ \A p \in Parts(new) : Tight(reg, p) => Tight(new, p)
<1>1. ASSUME new = SidePrivateTypes(reg)
      PROVE  /\ Keeps(reg, new, {}) /\ AllTight(new)
             /\ \A c \in Blocks(reg) \cap BotBlocks : new.categories[c].peer = "segment-bots"
  <2>1. /\ Whole(new) /\ Parts(new) = Parts(reg) /\ Blocks(new) = Blocks(reg)
        /\ \A c \in Blocks(reg) \cap BotBlocks : new.categories[c].peer = "segment-bots"
        /\ \A p \in Parts(reg) : SameButFlow(reg.features[p], new.features[p])
        /\ \A p \in Parts(reg) : reg.features[p].category \notin BotBlocks =>
                                   SameButReads(reg.features[p], new.features[p])
        /\ AllTight(new)
    BY <1>1, SidePrivateKeeps DEF AllTight
  <2>2. AnchorPart(reg) => AnchorPart(new)
    BY <2>1 DEF AnchorPart, SameButFlow, SameButReads, BotBlocks, Bot
  <2>3. \A p \in Parts(reg) : new.features[p].facts = reg.features[p].facts
    BY <2>1 DEF SameButFlow
  <2> QED BY <2>1, <2>2, <2>3 DEF Keeps
<1>2. ASSUME new = PartDeclarations(reg)
      PROVE  Keeps(reg, new, {}) /\ new.categories = reg.categories
              /\ \A p \in Parts(new) : Tight(reg, p) => Tight(new, p)
  <2>1. /\ Whole(new) /\ new.categories = reg.categories /\ Parts(new) = Parts(reg)
        /\ \A p \in Parts(reg) :
             /\ new.features[p].category = reg.features[p].category
             /\ new.features[p].consumes = reg.features[p].consumes
             /\ new.features[p].produces = reg.features[p].produces
             /\ reg.features[p].facts["risk"] # "absent" =>
                  new.features[p].facts["risk"] = reg.features[p].facts["risk"]
    BY <1>2, DeclarationsKeep DEF Undeclared
  <2> QED BY <2>1 DEF Keeps, AnchorPart, Tight, Blocks
<1>3. ASSUME new = CorrectLiveDecisionParts(reg)
      PROVE  Keeps(reg, new, {}) /\ new.categories = reg.categories
              /\ \A p \in Parts(new) : Tight(reg, p) => Tight(new, p)
  <2>1. /\ Whole(new) /\ new.categories = reg.categories /\ Parts(new) = Parts(reg)
        /\ \A p \in Parts(reg) :
             /\ new.features[p].category = reg.features[p].category
             /\ new.features[p].consumes = reg.features[p].consumes
             /\ new.features[p].produces = reg.features[p].produces
             /\ reg.features[p].facts.risk = "changes-the-answer" =>
                  new.features[p].facts.risk = "changes-the-answer"
    BY <1>3, CorrectionKeeps
  <2> QED BY <2>1 DEF Keeps, AnchorPart, Tight, Blocks
<1> QED BY <1>1, <1>2, <1>3

----------------------------------------------------------------------------
(* A sound registry: what every edit script keeps.                         *)

\* The parts of the registry invariant: the contract of the anchor, bots that are
\* peers, corrected facts, and contracts that list every part but those by hand.
AnchorContract(reg) == Health \in reg.categories["risk-capital-allocation"].produces
BotsArePeers(reg) ==
  BotBlocks \subseteq Blocks(reg) /\ \A c \in BotBlocks : reg.categories[c].peer = "segment-bots"
CorrectionsHold(reg) ==
  CORRECTIONS \subseteq Parts(reg)
  /\ \A p \in CORRECTIONS : reg.features[p].facts.risk = "changes-the-answer"
OnlyHandPartsLoose(reg) == \A p \in Parts(reg) \ DOMAIN HandParts : Tight(reg, p)

\* The registry invariant. Every script keeps it, and so does a save by hand.
Sound(reg) ==
  /\ Whole(reg) /\ AnchorPart(reg) /\ AnchorContract(reg) /\ BotsArePeers(reg)
  /\ CorrectionsHold(reg) /\ OnlyHandPartsLoose(reg)

\* Only the first script retires parts.
LostTo(script) == IF script = Scripts[1] THEN RETIRED ELSE {}

\* Each script is one of the five kinds of edit.
LEMMA ScriptKinds ==
  ASSUME NEW reg, NEW script \in {Scripts[i] : i \in DOMAIN Scripts}
  PROVE  \/ script = Scripts[1] /\ EditedBy(script, reg) = HarvestAndThreeBots(reg)
         \/ /\ script # Scripts[1]
            /\ \/ EditedBy(script, reg) = ThinkingBlocksAndFeed(reg)
               \/ EditedBy(script, reg) = ClosedTradeDecoding(reg)
               \/ EditedBy(script, reg) = SidePrivateTypes(reg)
               \/ EditedBy(script, reg) = CapitalDeskAndLlmFoundation(reg)
               \/ EditedBy(script, reg) = PartDeclarations(reg)
               \/ EditedBy(script, reg) = CorrectLiveDecisionParts(reg)
<1>1. DOMAIN Scripts = {1, 2, 3, 4, 5, 6, 7}
  BY DEF Scripts
<1>2. PICK i \in {1, 2, 3, 4, 5, 6, 7} : script = Scripts[i]
  BY <1>1
<1>3. \A k, l \in {1, 2, 3, 4, 5, 6, 7} : Scripts[k] = Scripts[l] => k = l
  BY DEF Scripts
<1>4. CASE i = 1 BY <1>2, <1>3, <1>4 DEF EditedBy
<1>5. CASE i = 2 BY <1>2, <1>3, <1>5 DEF EditedBy
<1>6. CASE i = 3 BY <1>2, <1>3, <1>6 DEF EditedBy
<1>7. CASE i = 4 BY <1>2, <1>3, <1>7 DEF EditedBy
<1>8. CASE i = 5 BY <1>2, <1>3, <1>8 DEF EditedBy
<1>9. CASE i = 6 BY <1>2, <1>3, <1>9 DEF EditedBy
<1>10. CASE i = 7 BY <1>2, <1>3, <1>10 DEF EditedBy
<1> QED BY <1>2, <1>4, <1>5, <1>6, <1>7, <1>8, <1>9, <1>10

\* A script loses the parts it retires and no other, and keeps the rest.
LEMMA EditKeeps ==
  ASSUME NEW reg, NEW script \in {Scripts[i] : i \in DOMAIN Scripts}, NEW new,
         new = EditedBy(script, reg), Whole(reg)
  PROVE  /\ Keeps(reg, new, LostTo(script))
         /\ \/ AllTight(new)
            \/ /\ new.categories = reg.categories
               /\ \A p \in Parts(new) : p \in Parts(reg) /\ (Tight(reg, p) => Tight(new, p))
<1>1. CASE script = Scripts[1] /\ new = HarvestAndThreeBots(reg)
  BY <1>1, HarvestKeeps DEF LostTo
<1>2. CASE script # Scripts[1]
  <2>1. Keeps(reg, new, {}) => Keeps(reg, new, LostTo(script))
    BY <1>2 DEF LostTo
  <2>2. CASE new = ThinkingBlocksAndFeed(reg) BY <2>1, <2>2, ThinkingKeeps
  <2>3. CASE new = ClosedTradeDecoding(reg) BY <2>1, <2>3, ClosedTradeKeeps
  <2>4. CASE new = SidePrivateTypes(reg) BY <2>1, <2>4, FlowEditsKeep
  <2>5. CASE new = CapitalDeskAndLlmFoundation(reg) BY <2>1, <2>5, CapitalKeeps
  <2>6. CASE new \in {PartDeclarations(reg), CorrectLiveDecisionParts(reg)}
    <3>1. Parts(new) = Parts(reg)
      BY <2>6, DeclarationsKeep, CorrectionKeeps
    <3> QED BY <2>1, <2>6, <3>1, FlowEditsKeep
  <2> QED BY <1>2, <2>2, <2>3, <2>4, <2>5, <2>6, ScriptKinds
<1> QED BY <1>1, <1>2, ScriptKinds

\* A sound registry stays sound.
LEMMA EditKeepsSound ==
  ASSUME NEW reg, NEW script \in {Scripts[i] : i \in DOMAIN Scripts}, Sound(reg)
  PROVE  /\ Sound(EditedBy(script, reg))
         /\ Parts(reg) \ LostTo(script) \subseteq Parts(EditedBy(script, reg))
<1> DEFINE new == EditedBy(script, reg)
<1>1. /\ Keeps(reg, new, LostTo(script))
      /\ \/ AllTight(new)
         \/ /\ new.categories = reg.categories
            /\ \A p \in Parts(new) : p \in Parts(reg) /\ (Tight(reg, p) => Tight(new, p))
  BY EditKeeps DEF Sound
<1> HIDE DEF new
<1>2. "position-sizer" \notin LostTo(script) /\ CORRECTIONS \cap LostTo(script) = {}
  BY DEF LostTo, RETIRED, CORRECTIONS
<1>3. Whole(new) /\ AnchorPart(new)
  BY <1>1, <1>2 DEF Keeps, Sound
<1>4. AnchorContract(new)
  BY <1>1, <1>3 DEF Sound, AnchorContract, AnchorPart, AllTight, Tight
<1>5. BotsArePeers(new)
  BY <1>1 DEF Sound, BotsArePeers, Keeps
<1>6. CorrectionsHold(new)
  BY <1>1, <1>2 DEF Sound, CorrectionsHold, Keeps
<1>7. OnlyHandPartsLoose(new)
  BY <1>1 DEF Sound, OnlyHandPartsLoose, AllTight
<1> QED BY <1>1, <1>3, <1>4, <1>5, <1>6, <1>7 DEF Sound, Keeps, new

\* The registry before the first script is whole.
LEMMA BaseIsWhole ==
  /\ Whole(BaseBlueprint) /\ AnchorPart(BaseBlueprint)
  /\ "leverage-selector" \in Parts(BaseBlueprint)
<1> DEFINE rows == BaseRows \cup ThinkingRows \cup ClosedTradeRows
           named == {row.category : row \in rows} \cup {"paper-live-trading", "prediction", "segment-bot"}
           blocks == AddBlocks(EmptyRegistry, named, "per-segment")
           again(c) == [blocks.categories[c] EXCEPT
                          !.origin = IF c \in {"learning-loop", "intelligence", "ai-brain", "backtesting"}
                                     THEN "proposed" ELSE @,
                          !.scope = IF c \in {"resource-governor", "intelligence"} THEN "global" ELSE @,
                          !.parent = IF c = "ai-brain" THEN "segment-bot" ELSE @]
           placed == [c \in Blocks(blocks) |-> again(c)]
           drawn == [blocks EXCEPT !.categories = placed]
           types == AddTypes(drawn, {Health, "sized-order", "llm-response", "journal-entry"})
<1>1. BaseBlueprint = AddParts(types, BaseRows)
  BY DEF BaseBlueprint
<1>2. /\ DOMAIN blocks = {"features", "types", "categories"} /\ blocks.features = Nothing
      /\ Blocks(blocks) = named
  BY DEF AddBlocks, EmptyRegistry, Nothing, Blocks
<1>3. ASSUME NEW c \in named
      PROVE  blocks.categories[c] = [consumes |-> {}, produces |-> {}, peer |-> "none",
               origin |-> "agreed-provisional", scope |-> "per-segment", parent |-> "none"]
  BY DEF AddBlocks, EmptyRegistry, Nothing
<1> HIDE DEF blocks
<1>4. ASSUME NEW c \in named
      PROVE  /\ DOMAIN again(c) = BlockFields
             /\ again(c).origin \in {"proposed", "agreed-provisional"}
             /\ again(c).parent = IF c = "ai-brain" THEN "segment-bot" ELSE "none"
             /\ c = "segment-bot" => again(c).scope = "per-segment"
  BY <1>3 DEF BlockFields
<1> HIDE DEF again
<1>5. "segment-bot" \in named /\ "risk-capital-allocation" \in named
  <2> DEFINE row == Row("position-sizer", "risk-capital-allocation", {}, {"sized-order"})
  <2>1. row \in rows BY DEF BaseRows
  <2>2. row.category = "risk-capital-allocation" BY DEF Row
  <2> QED BY <2>1, <2>2
<1> HIDE DEF named
<1>6. WholeBlocks(placed) /\ DOMAIN placed = named
  BY <1>2, <1>4, <1>5 DEF WholeBlocks, BlockShape, PlacedIn, IsDescribed, DESCRIBED_FLOW_ORIGINS
<1>7. /\ DOMAIN types = {"features", "types", "categories"} /\ types.features = Nothing
      /\ types.categories = placed /\ Health \in types.types
  <2> HIDE DEF placed
  <2>1. /\ DOMAIN drawn = {"features", "types", "categories"} /\ drawn.features = Nothing
        /\ drawn.categories = placed
    BY <1>2
  <2> HIDE DEF drawn
  <2> QED BY <2>1 DEF AddTypes
<1>8. Whole(types) /\ Parts(types) = {} /\ Blocks(types) = named
  <2>1. WholeParts(Nothing) /\ DOMAIN Nothing = {}
    BY FS_EmptySet DEF WholeParts, Nothing
  <2> HIDE DEF types, placed
  <2> QED BY <1>6, <1>7, <2>1 DEF Whole, Parts, Blocks
<1> HIDE DEF types
<1>9. /\ Whole(BaseBlueprint) /\ Blocks(BaseBlueprint) = named
      /\ Parts(BaseBlueprint) = Ids(BaseRows)
      /\ \A p \in Ids(BaseRows) :
           \E row \in BaseRows : row.id = p /\ BaseBlueprint.features[p] = UpdatedFrom(types, row)
  BY <1>1, <1>8, AddPartsKeeps, RowIds DEF Ids, Blocks
<1>10. /\ "position-sizer" \in Ids(BaseRows) /\ "leverage-selector" \in Ids(BaseRows)
       /\ \A row \in BaseRows : row.id = "position-sizer" =>
            row.category = "risk-capital-allocation" /\ Health \in row.produces
  BY DEF Ids, BaseRows, Row
<1>11. PICK row \in BaseRows : /\ row.id = "position-sizer"
                               /\ BaseBlueprint.features["position-sizer"] = UpdatedFrom(types, row)
  BY <1>9, <1>10
<1>12. /\ BaseBlueprint.features["position-sizer"].category = "risk-capital-allocation"
       /\ Health \in BaseBlueprint.features["position-sizer"].produces
  BY <1>10, <1>11 DEF UpdatedFrom, FromRow
<1> QED BY <1>5, <1>9, <1>10, <1>12 DEF AnchorPart

----------------------------------------------------------------------------
(* The registry the scripts shipped.                                       *)

\* The scripts in a row, as the recursion reads: the function it chooses exists.
LEMMA AfterScriptsUnfolds ==
  /\ AfterScripts[0] = BaseBlueprint
  /\ \A n \in 1 .. 7 : AfterScripts[n] = EditedBy(Scripts[n], AfterScripts[n - 1])
<1> DEFINE step(n, f) == IF n = 0 THEN BaseBlueprint ELSE EditedBy(Scripts[n], f[n - 1])
           Holds(f) == f = [n \in 0 .. Len(Scripts) |-> step(n, f)]
           b0 == BaseBlueprint
           b1 == EditedBy(Scripts[1], b0)
           b2 == EditedBy(Scripts[2], b1)
           b3 == EditedBy(Scripts[3], b2)
           b4 == EditedBy(Scripts[4], b3)
           b5 == EditedBy(Scripts[5], b4)
           b6 == EditedBy(Scripts[6], b5)
           b7 == EditedBy(Scripts[7], b6)
           f == [n \in 0 .. 7 |-> CASE n = 0 -> b0 [] n = 1 -> b1 [] n = 2 -> b2 [] n = 3 -> b3
                                    [] n = 4 -> b4 [] n = 5 -> b5 [] n = 6 -> b6 [] n = 7 -> b7]
<1>1. Len(Scripts) = 7
  BY DEF Scripts
<1>2. 0 .. 7 = {0, 1, 2, 3, 4, 5, 6, 7}
  OBVIOUS
<1>3. /\ f[0] = b0 /\ f[1] = b1 /\ f[2] = b2 /\ f[3] = b3
      /\ f[4] = b4 /\ f[5] = b5 /\ f[6] = b6 /\ f[7] = b7
  <2> HIDE DEF b0, b1, b2, b3, b4, b5, b6, b7
  <2> QED OBVIOUS
<1>4. \A n \in 0 .. 7 : f[n] = step(n, f)
  <2> SUFFICES ASSUME NEW n \in {0, 1, 2, 3, 4, 5, 6, 7} PROVE f[n] = step(n, f)
    BY <1>2
  <2> HIDE DEF f
  <2> QED BY <1>3
<1>5. Holds(f)
  <2>1. f = [n \in 0 .. 7 |-> f[n]]
    OBVIOUS
  <2> HIDE DEF f, step
  <2> QED BY <1>1, <1>4, <2>1
<1>6. AfterScripts = CHOOSE g : Holds(g)
  BY DEF AfterScripts
<1> HIDE DEF f
<1>7. Holds(AfterScripts)
  <2> HIDE DEF Holds
  <2> QED BY Zenon, <1>5, <1>6
<1>8. \A n \in 0 .. 7 : AfterScripts[n] = step(n, AfterScripts)
  <2> HIDE DEF step
  <2> QED BY <1>1, <1>7
<1> QED BY <1>8

\* Seven scripts later the registry is sound.
LEMMA ShippedIsSound == Sound(ShippedBlueprint)
<1> DEFINE r0 == AfterScripts[0]
           r1 == AfterScripts[1]
           r2 == AfterScripts[2]
           r3 == AfterScripts[3]
           r4 == AfterScripts[4]
           r5 == AfterScripts[5]
           r6 == AfterScripts[6]
           r7 == AfterScripts[7]
<1>1. /\ r0 = BaseBlueprint /\ r1 = EditedBy(Scripts[1], r0) /\ r2 = EditedBy(Scripts[2], r1)
      /\ r3 = EditedBy(Scripts[3], r2) /\ r4 = EditedBy(Scripts[4], r3)
      /\ r5 = EditedBy(Scripts[5], r4) /\ r6 = EditedBy(Scripts[6], r5)
      /\ r7 = EditedBy(Scripts[7], r6)
  BY AfterScriptsUnfolds
<1>2. ShippedBlueprint = r7
  BY DEF ShippedBlueprint, Scripts
<1> HIDE DEF r0, r1, r2, r3, r4, r5, r6, r7
<1>3. /\ EditedBy(Scripts[1], r0) = HarvestAndThreeBots(r0)
      /\ EditedBy(Scripts[4], r3) = SidePrivateTypes(r3)
      /\ EditedBy(Scripts[5], r4) = CapitalDeskAndLlmFoundation(r4)
      /\ EditedBy(Scripts[7], r6) = CorrectLiveDecisionParts(r6)
  BY DEF EditedBy, Scripts
<1>4. \A i \in 1 .. 7 : Scripts[i] \in {Scripts[j] : j \in DOMAIN Scripts}
  BY DEF Scripts
<1>5. /\ LostTo(Scripts[1]) = RETIRED /\ LostTo(Scripts[2]) = {} /\ LostTo(Scripts[3]) = {}
      /\ LostTo(Scripts[4]) = {} /\ LostTo(Scripts[5]) = {} /\ LostTo(Scripts[6]) = {}
      /\ LostTo(Scripts[7]) = {}
  BY DEF LostTo, Scripts
<1>6. Whole(r0) /\ AnchorPart(r0) /\ "leverage-selector" \in Parts(r0)
  BY <1>1, BaseIsWhole
<1>7. /\ Whole(r1) /\ AnchorPart(r1) /\ CORRECTIONS \subseteq Parts(r1) /\ BotBlocks \subseteq Blocks(r1)
  <2>1. /\ Keeps(r0, r1, RETIRED) /\ BotBlocks \subseteq Blocks(r1)
        /\ {"tail-trailing-exit-planner", "forecast-distribution-gate"} \subseteq Parts(r1)
    BY <1>1, <1>3, <1>6, HarvestKeeps
  <2> QED BY <1>6, <2>1 DEF Keeps, RETIRED, CORRECTIONS
<1>8. /\ Whole(r2) /\ AnchorPart(r2) /\ CORRECTIONS \subseteq Parts(r2) /\ BotBlocks \subseteq Blocks(r2)
  <2>1. Keeps(r1, r2, {})
    BY <1>1, <1>4, <1>5, <1>7, EditKeeps
  <2> QED BY <1>7, <2>1 DEF Keeps
<1>9. /\ Whole(r3) /\ AnchorPart(r3) /\ CORRECTIONS \subseteq Parts(r3) /\ BotBlocks \subseteq Blocks(r3)
  <2>1. Keeps(r2, r3, {})
    BY <1>1, <1>4, <1>5, <1>8, EditKeeps
  <2> QED BY <1>8, <2>1 DEF Keeps
<1>10. /\ Whole(r4) /\ AnchorPart(r4) /\ CORRECTIONS \subseteq Parts(r4) /\ BotsArePeers(r4)
  <2>1. /\ Keeps(r3, r4, {})
        /\ \A c \in Blocks(r3) \cap BotBlocks : r4.categories[c].peer = "segment-bots"
    BY <1>1, <1>3, <1>9, FlowEditsKeep
  <2> QED BY <1>9, <2>1 DEF Keeps, BotsArePeers
<1>11. /\ Whole(r5) /\ AnchorPart(r5) /\ CORRECTIONS \subseteq Parts(r5) /\ BotsArePeers(r5)
       /\ AllTight(r5)
  <2>1. Keeps(r4, r5, {}) /\ AllTight(r5)
    BY <1>1, <1>3, <1>10, CapitalKeeps
  <2> QED BY <1>10, <2>1 DEF Keeps, BotsArePeers
<1>12. /\ Whole(r6) /\ AnchorPart(r6) /\ CORRECTIONS \subseteq Parts(r6) /\ BotsArePeers(r6)
       /\ AllTight(r6)
  <2>1. /\ Keeps(r5, r6, {})
        /\ \/ AllTight(r6)
           \/ \A p \in Parts(r6) : p \in Parts(r5) /\ (Tight(r5, p) => Tight(r6, p))
    BY <1>1, <1>4, <1>5, <1>11, EditKeeps
  <2> QED BY <1>11, <2>1 DEF Keeps, BotsArePeers, AllTight
<1>13. /\ Whole(r7) /\ AnchorPart(r7) /\ CorrectionsHold(r7) /\ BotsArePeers(r7) /\ AllTight(r7)
  <2>1. /\ Keeps(r6, r7, {})
        /\ \/ AllTight(r7)
           \/ \A p \in Parts(r7) : p \in Parts(r6) /\ (Tight(r6, p) => Tight(r7, p))
    BY <1>1, <1>4, <1>5, <1>12, EditKeeps
  <2>2. \A p \in Parts(r6) \cap CORRECTIONS : r7.features[p].facts.risk = "changes-the-answer"
    BY <1>1, <1>3, <1>12, CorrectionKeeps
  <2> QED BY <1>12, <2>1, <2>2 DEF Keeps, BotsArePeers, AllTight, CorrectionsHold
<1>14. AnchorContract(r7) /\ OnlyHandPartsLoose(r7)
  BY <1>13 DEF AnchorContract, AnchorPart, AllTight, Tight, OnlyHandPartsLoose
<1> QED BY <1>2, <1>13, <1>14 DEF Sound

----------------------------------------------------------------------------
(* What is on disk, in the index and committed.                            *)

\* The scripts; what a reader can take for the registry; what a file can hold.
Names == {Scripts[i] : i \in DOMAIN Scripts}
Readable(reg) == reg = EmptyRegistry \/ Sound(reg)
Kept(reg) == reg = Torn \/ Sound(reg)

\* The state invariant of the writers: every file is cut off or sound, an edit
\* under way read a sound registry, and while it writes the file is cut off.
WriterInv ==
  /\ reader \in DOMAIN Reads
  /\ Kept(disk) /\ Kept(index) /\ Kept(head)
  /\ \/ edit = NoScript
     \/ /\ edit.script \in Names /\ edit.at \in {"editing", "writing"} /\ Sound(edit.read)
        /\ edit.at = "writing" => disk = Torn
  /\ changes \in 0 .. MaxChanges[reader]

LEMMA TornIsNoRegistry == \A reg : Sound(reg) => reg # Torn /\ reg # EmptyRegistry
  BY DEF Sound, Whole, Torn, AnchorPart, EmptyRegistry, Nothing, Parts

\* Saving a part by hand keeps a registry sound: its contracts leave out only
\* that part.
LEMMA SaveKeepsSound ==
  ASSUME NEW part \in DOMAIN HandParts, NEW reg, Sound(reg), part \notin Parts(reg), NEW new,
         new = [reg EXCEPT !.features = [p \in DOMAIN @ \cup {part} |->
                                           IF p = part THEN HandParts[part] ELSE @[p]]]
  PROVE  Sound(new)
<1> DEFINE features == [p \in Parts(reg) \cup {part} |->
                          IF p = part THEN HandParts[part] ELSE reg.features[p]]
<1>1. /\ DOMAIN new = {"features", "types", "categories"} /\ new.features = features
      /\ new.categories = reg.categories /\ new.types = reg.types
  BY DEF Sound, Whole, Parts
<1>2. /\ DOMAIN features = Parts(reg) \cup {part} /\ Parts(new) = Parts(reg) \cup {part}
      /\ features[part] = HandParts[part] /\ Blocks(new) = Blocks(reg)
      /\ \A p \in Parts(reg) : features[p] = reg.features[p]
  BY <1>1 DEF Parts, Blocks
<1>3. PartShape(HandParts[part])
  BY HandPartsAssumption DEF Part, PartShape, PartFields, ShapeRules
<1> HIDE DEF features
<1>4. IsFiniteSet(Parts(reg) \cup {part})
  BY FS_AddElement DEF Sound, Whole, WholeParts, Parts
<1>5. Whole(new)
  BY <1>1, <1>2, <1>3, <1>4 DEF Sound, Whole, WholeParts, Parts
<1>6. AnchorPart(new) /\ AnchorContract(new) /\ BotsArePeers(new) /\ CorrectionsHold(new)
  BY <1>1, <1>2 DEF Sound, AnchorPart, AnchorContract, BotsArePeers, CorrectionsHold
<1>7. OnlyHandPartsLoose(new)
  BY <1>1, <1>2 DEF Sound, OnlyHandPartsLoose, Tight
<1> QED BY <1>5, <1>6, <1>7 DEF Sound

LEMMA ReadsType == \A r \in DOMAIN Reads : Reads[r] \in 1 .. 5 /\ MaxChanges[r] \in Nat
  BY DeskAssumption DEF Reads

LEMMA WriterInvInit == DeskInit => WriterInv
  BY ShippedIsSound, ReadsType DEF DeskInit, WriterInv, Kept

LEMMA WriterInvStep == WriterInv /\ [DeskNext]_deskVars => WriterInv'
<1> SUFFICES ASSUME WriterInv, [DeskNext]_deskVars PROVE WriterInv'
  OBVIOUS
<1> USE DEF WriterInv
<1>1. reader' = reader
  BY DEF DeskNext, Write, Stage, Commit, CheckOut, Look, deskVars
<1>2. changes \in Nat /\ MaxChanges[reader] \in Nat
  BY ReadsType
<1>3. ASSUME NEW script \in Names, BeginScript(script), UNCHANGED <<index, head>> PROVE WriterInv'
  BY <1>1, <1>2, <1>3 DEF BeginScript, Kept
<1>4. ASSUME OpenForWriting, UNCHANGED <<index, head>> PROVE WriterInv'
  BY <1>1, <1>4 DEF OpenForWriting, Kept, NoScript
<1>5. ASSUME FinishWriting, UNCHANGED <<index, head>> PROVE WriterInv'
  <2>1. Sound(EditedBy(edit.script, edit.read))
    BY <1>5, EditKeepsSound DEF FinishWriting, NoScript, Names
  <2> QED BY <1>1, <1>5, <2>1 DEF FinishWriting, Kept
<1>6. ASSUME KillScript, UNCHANGED <<index, head>> PROVE WriterInv'
  BY <1>1, <1>6 DEF KillScript
<1>7. ASSUME NEW part \in DOMAIN HandParts, SaveByHand(part), UNCHANGED <<index, head>>
      PROVE  WriterInv'
  <2>1. Sound(disk')
    BY <1>7, SaveKeepsSound DEF SaveByHand, Kept
  <2>2. edit' = edit /\ disk # Torn /\ changes' \in 0 .. MaxChanges[reader]
    BY <1>2, <1>7 DEF SaveByHand
  <2> QED BY <1>1, <1>7, <2>1, <2>2 DEF Kept
<1>8. CASE Write
  BY <1>3, <1>4, <1>5, <1>6, <1>7, <1>8 DEF Write, Names
<1>9. CASE Stage
  BY <1>1, <1>9 DEF Stage, writerVars
<1>10. CASE Commit
  BY <1>1, <1>10 DEF Commit, writerVars
<1>11. CASE CheckOut
  BY <1>1, <1>11 DEF CheckOut
<1>12. CASE Look \/ UNCHANGED deskVars
  BY <1>1, <1>12 DEF Look, writerVars, deskVars
<1> QED BY <1>8, <1>9, <1>10, <1>11, <1>12 DEF DeskNext

LEMMA AlwaysWriterInv == DeskSpec => []WriterInv
BY WriterInvInit, WriterInvStep, PTL DEF DeskSpec

\* For any parts saved by hand and any number of changes: a script that writes
\* back what it read (the edit_*.py scripts: read, change, write whole) loses a
\* part only if that part was saved after the script read, or is one the harvest
\* script retires.
THEOREM PartsAreLostOnlyToStaleReads == DeskSpec => PartLostOnlyToStaleRead
<1> DEFINE Lost == Finishes => Parts(edit.over) \ Parts(disk')
                     \subseteq (Parts(edit.over) \ Parts(edit.read))
                               \cup IF By({1}) THEN RETIRED ELSE {}
<1>1. WriterInv /\ [DeskNext]_deskVars => [Lost]_deskVars
  <2> SUFFICES ASSUME WriterInv, DeskNext, Finishes
               PROVE  Parts(edit.over) \ Parts(disk')
                        \subseteq (Parts(edit.over) \ Parts(edit.read))
                                  \cup IF By({1}) THEN RETIRED ELSE {}
    BY DEF Lost
  <2>1. edit.at = "writing" /\ disk = Torn /\ disk' # Torn /\ edit # NoScript
    BY DEF Finishes, WriterInv, NoScript
  <2>2. FinishWriting
    BY <2>1 DEF DeskNext, Write, BeginScript, OpenForWriting, KillScript, SaveByHand, Stage, Commit,
                CheckOut, Look, writerVars
  <2>3. Sound(edit.read) /\ edit.script \in Names
    BY <2>1 DEF WriterInv
  <2>4. Parts(edit.read) \ LostTo(edit.script) \subseteq Parts(disk')
    BY <2>2, <2>3, EditKeepsSound DEF FinishWriting, Names
  <2>5. LostTo(edit.script) = IF By({1}) THEN RETIRED ELSE {}
    BY DEF LostTo, By
  <2> QED BY <2>4, <2>5
<1> QED BY <1>1, AlwaysWriterInv, PTL DEF DeskSpec, PartLostOnlyToStaleRead

\* What the rules find part by part.
OwnBreaches(reg, p) ==
  ShapeBreaches(reg, p) \cup FactBreaches(reg, p) \cup CircuitBreaches(reg, p)
  \cup FlowBreaches(reg, p, Produced(reg), Consumed(reg))

LEMMA ViolationsUnfold ==
  ASSUME NEW reg, NEW b
  PROVE  b \in FindContractViolations(reg)
           <=> (\E p \in Parts(reg) : b \in OwnBreaches(reg, p)) \/ b \in PeerBreaches(reg)
<1> DEFINE own == UNION {OwnBreaches(reg, p) : p \in Parts(reg)}
<1>1. FindContractViolations(reg) = PeerBreaches(reg) \cup own
  BY Zenon DEF FindContractViolations, OwnBreaches
<1>2. b \in own <=> \E p \in Parts(reg) : b \in OwnBreaches(reg, p)
  BY Zenon
<1> HIDE DEF own
<1> QED BY <1>1, <1>2

\* Bots wired to each other break the rule about peers.
LEMMA NoBreachKeepsBotsApart ==
  ASSUME NEW reg, Sound(reg), FindContractViolations(reg) = {}
  PROVE  BotsApart(reg)
<1> DEFINE block(p) == reg.features[p].category
<1> SUFFICES ASSUME NEW e \in DataEdges(DeriveEdges(reg)), block(e[1]) \in BotBlocks,
                    block(e[2]) \in BotBlocks, block(e[1]) # block(e[2])
             PROVE  FALSE
  BY DEF BotsApart, BotBlocks
<1>1. PeerOf(reg, e[1]) = "segment-bots" /\ PeerOf(reg, e[2]) = "segment-bots"
  BY DEF Sound, BotsArePeers, PeerOf
<1>2. Breach("R-03", e[1], e[3]) \in PeerBreaches(reg)
  BY <1>1 DEF PeerBreaches, DataEdges
<1> QED BY <1>2, ViolationsUnfold

\* The hook (.githooks/pre-commit) passes a registry with bots wired to each
\* other, or any other breach, only if what is committed differs from what is on
\* disk, or what is on disk is cut off and reads as declaring nothing.
THEOREM BreachesAreCommittedOnlyUnseen == DeskSpec => BreachCommittedOnlyUnseen
<1> DEFINE Seen == head' # head => \/ index # disk \/ disk = Torn
                                   \/ BotsApart(head') /\ FindContractViolations(head') = {}
<1>1. WriterInv /\ [DeskNext]_deskVars => [Seen]_deskVars
  <2> SUFFICES ASSUME WriterInv, DeskNext, head' # head, index = disk, disk # Torn
               PROVE  BotsApart(head') /\ FindContractViolations(head') = {}
    BY DEF Seen
  <2>1. Commit
    BY DEF DeskNext, Write, Stage, Commit, CheckOut, Look
  <2>2. head' = disk /\ Sound(disk) /\ LoadFeatureRegistry(disk) = disk
    BY <2>1 DEF Commit, WriterInv, Kept, LoadFeatureRegistry
  <2>3. HasFeatures(disk)
    BY <2>2 DEF Sound, AnchorPart, HasFeatures
  <2>4. FindContractViolations(disk) = {}
    BY <2>1, <2>2, <2>3 DEF Commit, CheckContractsPasses
  <2> QED BY <2>2, <2>4, NoBreachKeepsBotsApart
<1> QED BY <1>1, AlwaysWriterInv, PTL DEF DeskSpec, BreachCommittedOnlyUnseen

\* Once corrected, the facts of the parts the correction script names let none of
\* them into the rate ladder: no script run again, in any order, undoes that, and
\* no save by hand can.
THEOREM CorrectedFactsStay == DeskSpec => [](disk # Torn => FactsCorrected(disk))
<1>1. WriterInv => (disk # Torn => FactsCorrected(disk))
  BY DEF WriterInv, Kept, Sound, CorrectionsHold, FactsCorrected, MayEnterRateLadder
<1> QED BY <1>1, AlwaysWriterInv, PTL

----------------------------------------------------------------------------
(* What the readers hold, and the type invariant.                          *)

\* The readings a reader may hold.
ReadableAll(S) == \A reg \in S : Readable(reg)

\* Every reading taken, and every one the page was made of, is one of some set.
ReadFrom(S) ==
  /\ reading \in [{1, 2} -> [begun : BOOLEAN, got : Seq(S)]]
  /\ shown \in Seq(S)

\* The page is what the readings it was made of render to.
PageShown ==
  \/ shown = <<>> /\ page = NoPage
  \/ /\ reader # "hook" /\ Len(shown) = Reads[reader]
     /\ page = Rendered(shown) /\ ~Raises(shown)

\* The state invariant of the readers.
ReaderInv ==
  /\ \E S : ReadableAll(S) /\ ReadFrom(S)
  /\ \A slot \in {1, 2} : Len(reading[slot].got) <= IF reading[slot].begun THEN Reads[reader] ELSE 0
  /\ \A slot \in {1, 2} : reader = "hook" => ~reading[slot].begun
  /\ PageShown
  /\ live = NoPage \/ live.mode = "snapshot"
  /\ tab \in {"visible", "hidden", "closed"}

LEMMA ReaderInvInit == DeskInit => ReaderInv
<1> SUFFICES ASSUME DeskInit PROVE ReaderInv
  OBVIOUS
<1>1. ReadFrom({}) /\ ReadableAll({})
  BY DEF DeskInit, ReadFrom, ReadableAll, Idle
<1>2. \A slot \in {1, 2} : ~reading[slot].begun /\ Len(reading[slot].got) = 0
  BY DEF DeskInit, Idle
<1>3. \E S : ReadableAll(S) /\ ReadFrom(S)
  BY <1>1
<1> QED BY <1>2, <1>3 DEF DeskInit, ReaderInv, PageShown

LEMMA SeqGrows == ASSUME NEW S, NEW x, NEW s \in Seq(S) PROVE s \in Seq(S \cup {x})
  OBVIOUS

\* Each reader makes a page of its own mode.
LEMMA RenderedMode ==
  ASSUME NEW reads, reader \in DOMAIN Reads, reader # "hook"
  PROVE  Rendered(reads).mode = CASE reader = "browser" -> "live"
                                  [] reader = "snapshot" -> "snapshot"
                                  [] OTHER -> "page"
<1>1. reader \in {"browser", "snapshot", "monitor", "status", "wiring"}
  BY DEF Reads
<1>2. CASE reader = "browser"
  BY <1>2 DEF Rendered, BuildBoardPayload, NoPage
<1>3. CASE reader = "snapshot"
  BY <1>3 DEF Rendered, BuildBoardPayload, NoPage
<1>4. CASE reader = "monitor"
  BY <1>4 DEF Rendered, RenderPartMonitor, NoPage
<1>5. CASE reader = "status"
  BY <1>5 DEF Rendered, RenderStatusBoard, NoPage
<1>6. CASE reader = "wiring"
  BY <1>6 DEF Rendered, BuildWiring, NoPage
<1> QED BY <1>1, <1>2, <1>3, <1>4, <1>5, <1>6

LEMMA ReaderInvStep == WriterInv /\ ReaderInv /\ [DeskNext]_deskVars => ReaderInv'
<1> SUFFICES ASSUME WriterInv, ReaderInv, [DeskNext]_deskVars PROVE ReaderInv'
  OBVIOUS
<1>1. reader' = reader /\ files' = files /\ reader \in DOMAIN Reads /\ Reads[reader] \in 1 .. 5
  BY ReadsType DEF WriterInv, DeskNext, Write, Stage, Commit, CheckOut, Look, deskVars
<1>2. PICK S : ReadableAll(S) /\ ReadFrom(S)
  BY DEF ReaderInv
<1>3. \A slot \in {1, 2} : /\ reading[slot].begun \in BOOLEAN /\ reading[slot].got \in Seq(S)
                           /\ DOMAIN reading[slot] = {"begun", "got"}
  BY <1>2 DEF ReadFrom
<1>4. Slots \subseteq {1, 2}
  BY DEF Slots
<1>5. \A reads : Rendered(reads)' = Rendered(reads) /\ (Raises(reads)' <=> Raises(reads))
  BY <1>1 DEF Rendered, Raises
<1>6. ASSUME UNCHANGED readerVars PROVE ReaderInv'
  <2>1. ReadFrom(S)' /\ PageShown'
    BY <1>1, <1>2, <1>5, <1>6 DEF ReaderInv, ReadFrom, PageShown, readerVars
  <2>2. \E T : ReadableAll(T) /\ ReadFrom(T)'
    BY <1>2, <2>1
  <2> QED BY <1>1, <1>6, <2>1, <2>2 DEF ReaderInv, readerVars
<1>7. ASSUME NEW slot \in Slots, Begin(slot) PROVE ReaderInv'
  <2>1. /\ reading' = [reading EXCEPT ![slot].begun = TRUE] /\ reading[slot] = Idle
        /\ UNCHANGED <<page, shown, live, tab>> /\ reader # "hook"
    BY <1>7 DEF Begin
  <2>2. ReadFrom(S)'
    BY <1>2, <1>4, <2>1 DEF ReadFrom
  <2>3. \A other \in {1, 2} :
          /\ reading'[other].got = reading[other].got
          /\ other # slot => reading'[other].begun = reading[other].begun
          /\ other = slot => reading'[other].begun
    BY <1>2, <1>4, <2>1 DEF ReadFrom
  <2>4. Len(reading[slot].got) = 0
    BY <2>1 DEF Idle
  <2>5. PageShown'
    BY <1>1, <1>5, <2>1 DEF ReaderInv, PageShown
  <2>6. \E T : ReadableAll(T) /\ ReadFrom(T)'
    BY <1>2, <2>2
  <2> QED BY <1>1, <2>1, <2>3, <2>4, <2>5, <2>6 DEF ReaderInv
<1>8. ASSUME NEW slot \in Slots, Read(slot) PROVE ReaderInv'
  <2>0. PICK new : new = LoadFeatureRegistry(disk)
    OBVIOUS
  <2>1. /\ reading' = [reading EXCEPT ![slot].got = Append(@, new)]
        /\ reading[slot].begun /\ Len(reading[slot].got) < Reads[reader]
        /\ UNCHANGED <<page, shown, live, tab>>
    BY <1>8, <2>0 DEF Read
  <2>2. Readable(new)
    BY <2>0 DEF WriterInv, Kept, LoadFeatureRegistry, Readable
  <2>3. ReadableAll(S \cup {new})
    BY <1>2, <2>2 DEF ReadableAll
  <2>4. reading \in [{1, 2} -> [begun : BOOLEAN, got : Seq(S \cup {new})]] /\ shown \in Seq(S \cup {new})
    <3>1. \A s \in Seq(S) : s \in Seq(S \cup {new})
      BY SeqGrows
    <3> QED BY <1>2, <3>1 DEF ReadFrom
  <2>5. Append(reading[slot].got, new) \in Seq(S \cup {new})
    BY <1>4, <2>4
  <2>6. ReadFrom(S \cup {new})'
    BY <1>4, <2>1, <2>4, <2>5 DEF ReadFrom
  <2>7. \A other \in {1, 2} :
          /\ reading'[other].begun = reading[other].begun
          /\ other # slot => reading'[other].got = reading[other].got
          /\ other = slot => reading'[other].got = Append(reading[slot].got, new)
    BY <1>2, <1>4, <2>1 DEF ReadFrom
  <2>8. Len(Append(reading[slot].got, new)) = Len(reading[slot].got) + 1 /\ Len(reading[slot].got) \in Nat
    BY <1>4, <2>4
  <2>9. \A other \in {1, 2} : Len(reading'[other].got) <= IF reading'[other].begun THEN Reads[reader] ELSE 0
    <3> TAKE other \in {1, 2}
    <3>1. CASE other = slot
      BY <1>1, <1>4, <2>1, <2>7, <2>8, <3>1
    <3>2. CASE other # slot
      BY <2>7, <3>2 DEF ReaderInv
    <3> QED BY <3>1, <3>2
  <2>10. PageShown'
    BY <1>1, <1>5, <2>1 DEF ReaderInv, PageShown
  <2>11. \E T : ReadableAll(T) /\ ReadFrom(T)'
    BY <2>3, <2>6
  <2> QED BY <1>1, <2>1, <2>7, <2>9, <2>10, <2>11 DEF ReaderInv
<1>9. ASSUME NEW slot \in Slots, Finish(slot) PROVE ReaderInv'
  <2>1. /\ reading' = [reading EXCEPT ![slot] = Idle] /\ reading[slot].begun
        /\ Len(reading[slot].got) = Reads[reader] /\ UNCHANGED <<live, tab>>
        /\ Show(reading[slot].got)
    BY <1>9 DEF Finish, Answer
  <2>2. \A other \in {1, 2} :
          /\ other # slot => reading'[other] = reading[other]
          /\ other = slot => reading'[other] = Idle
    BY <1>2, <1>4, <2>1 DEF ReadFrom
  <2> PICK got : got = reading[slot].got
    OBVIOUS
  <2>3. \/ shown' = shown /\ page' = page
        \/ shown' = got /\ page' = Rendered(got) /\ ~Raises(got)
    BY <2>1 DEF Show
  <2>4. Idle \in [begun : BOOLEAN, got : Seq(S)] /\ ~Idle.begun /\ Len(Idle.got) = 0
    BY DEF Idle
  <2>5. ReadFrom(S)'
    BY <1>2, <1>3, <1>4, <2>1, <2>3, <2>4 DEF ReadFrom
  <2>6. reader # "hook"
    BY <1>4, <2>1 DEF ReaderInv
  <2>7. PageShown'
    <3>1. CASE shown' = shown /\ page' = page
      BY <1>1, <1>5, <3>1 DEF ReaderInv, PageShown
    <3>2. CASE shown' = got /\ page' = Rendered(got) /\ ~Raises(got)
      <4>1. Rendered(shown)' = Rendered(got) /\ (Raises(shown)' <=> Raises(got))
        BY <1>1, <3>2 DEF Rendered, Raises
      <4> QED BY <1>1, <2>1, <2>6, <3>2, <4>1 DEF PageShown
    <3> QED BY <2>3, <3>1, <3>2
  <2>8. \E T : ReadableAll(T) /\ ReadFrom(T)'
    BY <1>2, <2>5
  <2> QED BY <1>1, <2>1, <2>2, <2>4, <2>7, <2>8 DEF ReaderInv
<1>10. ASSUME TurnTab PROVE ReaderInv'
  <2>1. ReadFrom(S)' /\ PageShown'
    BY <1>1, <1>2, <1>5, <1>10 DEF ReaderInv, ReadFrom, PageShown, TurnTab
  <2>2. \E T : ReadableAll(T) /\ ReadFrom(T)'
    BY <1>2, <2>1
  <2> QED BY <1>1, <1>10, <2>1, <2>2 DEF ReaderInv, TurnTab
<1>11. ASSUME Publish PROVE ReaderInv'
  <2>1. ReadFrom(S)' /\ PageShown'
    BY <1>1, <1>2, <1>5, <1>11 DEF ReaderInv, ReadFrom, PageShown, Publish
  <2>2. \E T : ReadableAll(T) /\ ReadFrom(T)'
    BY <1>2, <2>1
  <2>3. page # NoPage /\ reader = "snapshot" /\ live' = page
    BY <1>11 DEF Publish
  <2>4. page.mode = "snapshot"
    BY <1>1, <2>3, RenderedMode DEF ReaderInv, PageShown
  <2> QED BY <1>1, <1>11, <2>1, <2>2, <2>3, <2>4 DEF ReaderInv, Publish
<1> QED
  BY <1>6, <1>7, <1>8, <1>9, <1>10, <1>11
     DEF DeskNext, Write, Stage, Commit, CheckOut, Look, ReadOn, readerVars, deskVars

LEMMA AlwaysReaderInv == DeskSpec => [](WriterInv /\ ReaderInv)
<1>1. DeskInit => ReaderInv BY ReaderInvInit
<1>2. WriterInv /\ ReaderInv /\ [DeskNext]_deskVars => ReaderInv' BY ReaderInvStep
<1> QED BY <1>1, <1>2, AlwaysWriterInv, PTL DEF DeskSpec

LEMMA ReadableIsRegistry == \A reg : Readable(reg) => IsRegistry(reg)
<1>1. IsRegistry(EmptyRegistry)
  BY DEF IsRegistry, EmptyRegistry, Parts, Nothing
<1>2. DOMAIN EmptyRegistry = {"features", "types", "categories"}
  BY DEF EmptyRegistry
<1> QED BY <1>1, <1>2 DEF Readable, Sound, Whole, WholeParts, PartShape, Parts, IsRegistry

\* Type correctness: every file is cut off or a registry, every reading one a
\* reader can hold, and a fetch takes no more readings than its page is made of.
THEOREM DeskTypeAlwaysOK == DeskSpec => []DeskTypeOK
<1>1. WriterInv /\ ReaderInv => DeskTypeOK
  <2> SUFFICES ASSUME WriterInv, ReaderInv PROVE DeskTypeOK
    OBVIOUS
  <2>1. \A reg \in {disk, index, head} : reg = Torn \/ IsRegistry(reg)
    BY ReadableIsRegistry DEF WriterInv, Kept, Readable
  <2>2. edit.at \in {"none", "editing", "writing"} /\ changes \in 0 .. MaxChanges[reader]
    BY DEF WriterInv, NoScript
  <2>3. \A slot \in {1, 2} : \A i \in DOMAIN reading[slot].got : IsRegistry(reading[slot].got[i])
    <3>1. PICK S : ReadableAll(S) /\ ReadFrom(S)
      BY DEF ReaderInv
    <3>2. \A slot \in {1, 2} : reading[slot].got \in Seq(S)
      BY <3>1 DEF ReadFrom
    <3>3. \A slot \in {1, 2} : \A i \in DOMAIN reading[slot].got : reading[slot].got[i] \in S
      BY <3>2
    <3> QED BY <3>1, <3>3, ReadableIsRegistry DEF ReadableAll
  <2>4. page.mode \in {"none", "live", "snapshot", "page"}
    <3>1. NoPage.mode = "none" BY DEF NoPage
    <3> QED BY <3>1, RenderedMode DEF WriterInv, ReaderInv, PageShown
  <2>5. live.mode \in {"none", "snapshot"}
    BY DEF ReaderInv, NoPage
  <2> QED BY <2>1, <2>2, <2>3, <2>4, <2>5 DEF ReaderInv, DeskTypeOK
<1> QED BY <1>1, AlwaysReaderInv, PTL

----------------------------------------------------------------------------
(* What the checker finds and the payload shows.                           *)

\* What the choice of the part a name stands for needs: finitely many parts, at
\* places that are numbers.
Ranked(reg) ==
  /\ IsFiniteSet(Parts(reg))
  /\ \A p \in Parts(reg) :
       reg.features[p].place \in Nat /\ reg.features[p].faults \subseteq ShapeRules

LEMMA ReadableIsRanked == \A reg : Readable(reg) => Ranked(reg)
<1>1. Ranked(EmptyRegistry)
  BY FS_EmptySet DEF Ranked, EmptyRegistry, Parts, Nothing
<1> QED BY <1>1 DEF Readable, Sound, Whole, WholeParts, PartShape, Parts, Ranked

\* A breach found part by part names a part, under a rule other than R-03; one
\* between peers is a wire.
LEMMA OwnBreachOf ==
  ASSUME NEW reg, Ranked(reg), NEW p \in Parts(reg), NEW b \in OwnBreaches(reg, p)
  PROVE  b.part = p /\ b.rule # "R-03"
<1>1. \A rule, type : Breach(rule, p, type).part = p /\ Breach(rule, p, type).rule = rule
  BY DEF Breach
<1>2. ASSUME b \in ShapeBreaches(reg, p) PROVE b.part = p /\ b.rule # "R-03"
  BY <1>1, <1>2 DEF ShapeBreaches, Ranked, ShapeRules
<1>3. ASSUME b \in FactBreaches(reg, p) PROVE b.part = p /\ b.rule # "R-03"
  BY <1>1, <1>3 DEF FactBreaches
<1>4. ASSUME b \in CircuitBreaches(reg, p) PROVE b.part = p /\ b.rule # "R-03"
  BY <1>1, <1>4 DEF CircuitBreaches
<1>5. ASSUME b \in FlowBreaches(reg, p, Produced(reg), Consumed(reg))
      PROVE  b.part = p /\ b.rule # "R-03"
  <2>1. \E type : b = Breach("R-01", p, type)
    BY <1>5 DEF FlowBreaches
  <2> QED BY <1>1, <2>1
<1> QED BY <1>2, <1>3, <1>4, <1>5 DEF OwnBreaches

LEMMA PeerBreachOf ==
  ASSUME NEW reg, NEW b \in PeerBreaches(reg)
  PROVE  /\ b.rule = "R-03"
         /\ \E e \in DataEdges(DeriveEdges(reg)) : e[1] = b.part /\ e[3] = b.type
<1>1. \E e \in DeriveEdges(reg) : e[3] # Health /\ b = Breach("R-03", e[1], e[3])
  BY DEF PeerBreaches
<1> QED BY <1>1 DEF DataEdges, Breach

\* The part a name in a breach is taken for.
LEMMA NamedInBreachIsThere ==
  ASSUME NEW reg, Ranked(reg), NEW p \in Parts(reg)
  PROVE  LET q == NamedInBreach(reg, reg.features[p].name)
         IN  q \in Parts(reg) /\ reg.features[q].name = reg.features[p].name
<1> DEFINE name == reg.features[p].name
           alike == {q \in Parts(reg) : reg.features[q].name = name}
           place == [q \in alike |-> reg.features[q].place]
<1>1. IsFiniteSet(alike) /\ alike # {}
  BY FS_Subset DEF Ranked
<1>2. \A q \in alike : place[q] \in Int /\ place[q] = reg.features[q].place
  BY DEF Ranked
<1> HIDE DEF place, alike
<1>3. PICK m \in alike : \A q \in alike : place[q] <= place[m]
  BY <1>1, <1>2, HighestRated
<1>4. \E q \in Parts(reg) :
         /\ reg.features[q].name = name
         /\ \A r \in Parts(reg) : reg.features[r].name = name
                                    => reg.features[r].place <= reg.features[q].place
  BY <1>2, <1>3 DEF alike
<1> QED BY <1>4 DEF NamedInBreach

\* What the cells of one reading show.
LEMMA RedCells ==
  ASSUME NEW reg, Ranked(reg)
  PROVE  /\ \A p \in Parts(reg) : MeasureParts(reg, files)[p] = "FAILING"
                                    <=> p \in PartsInViolation(reg)
         /\ PartsInViolation(reg) \subseteq Parts(reg)
         /\ \A p, q \in PartsInViolation(reg) :
              reg.features[p].name = reg.features[q].name => p = q
         /\ {reg.features[p].name : p \in PartsInViolation(reg)}
              = {reg.features[v.part].name : v \in {w \in FindContractViolations(reg) : w.rule # "R-03"}}
<1> DEFINE faulted == {w \in FindContractViolations(reg) : w.rule # "R-03"}
           nameOf(p) == reg.features[p].name
<1>1. \A v \in faulted : v.part \in Parts(reg)
  BY ViolationsUnfold, OwnBreachOf, PeerBreachOf
<1>2. PartsInViolation(reg) = {NamedInBreach(reg, nameOf(v.part)) : v \in faulted}
  BY DEF PartsInViolation
<1> HIDE DEF faulted
<1>3. \A v \in faulted : /\ NamedInBreach(reg, nameOf(v.part)) \in Parts(reg)
                         /\ nameOf(NamedInBreach(reg, nameOf(v.part))) = nameOf(v.part)
  BY <1>1, NamedInBreachIsThere
<1>4. \A p : ProbePartRung(p, files) # "FAILING"
  BY DEF ProbePartRung
<1>5. \A p \in Parts(reg) : MeasureParts(reg, files)[p] = "FAILING" <=> p \in PartsInViolation(reg)
  BY <1>4 DEF MeasureParts
<1>6. PartsInViolation(reg) \subseteq Parts(reg)
  BY <1>2, <1>3
<1>7. \A p \in PartsInViolation(reg) : p = NamedInBreach(reg, nameOf(p))
  BY <1>2, <1>3
<1>8. {nameOf(p) : p \in PartsInViolation(reg)} = {nameOf(v.part) : v \in faulted}
  BY <1>2, <1>3
<1>9. \A p, q \in PartsInViolation(reg) : nameOf(p) = nameOf(q) => p = q
  BY <1>7
<1> QED BY <1>5, <1>6, <1>8, <1>9 DEF faulted

\* The payload of one reading agrees with itself.
LEMMA PayloadAgrees ==
  ASSUME NEW reg, Ranked(reg), NEW mode,
         page = BuildBoardPayload(mode, reg, reg, files), shown[1] = reg
  PROVE  /\ {NameOf(p) : p \in Red} = {NameOf(v.part) : v \in {w \in page.verdict : w.rule # "R-03"}}
         /\ \A p, q \in Red : NameOf(p) = NameOf(q) => p = q
         /\ {c \in DOMAIN page.blocks : page.blocks[c] = "FAILING"} = Homes \cap DOMAIN page.blocks
<1> DEFINE rungs == MeasureParts(reg, files)
           cells == [p \in Parts(reg) |-> rungs[p]]
           state(c) == SummariseBlockState({cells[p] : p \in PartsOf(reg, c)})
           blocks == [c \in Blocks(reg) |-> state(c)]
<1>1. /\ page.verdict = FindContractViolations(reg) /\ page.cells = cells /\ page.blocks = blocks
  BY DEF BuildBoardPayload, NoPage
<1>2. \A p \in Parts(reg) : cells[p] = "FAILING" <=> p \in PartsInViolation(reg)
  BY RedCells
<1>3. DOMAIN cells = Parts(reg) /\ DOMAIN blocks = Blocks(reg)
  OBVIOUS
<1>4. Red = PartsInViolation(reg)
  <2> HIDE DEF cells
  <2> QED BY <1>1, <1>2, <1>3, RedCells DEF Red
<1>5. \A S : SummariseBlockState(S) = "FAILING" <=> "FAILING" \in S
  BY DEF SummariseBlockState
<1>6. \A c \in Blocks(reg) : blocks[c] = "FAILING" <=> \E p \in Red : reg.features[p].category = c
  <2> TAKE c \in Blocks(reg)
  <2>1. blocks[c] = "FAILING" <=> \E p \in PartsOf(reg, c) : cells[p] = "FAILING"
    <3> HIDE DEF cells
    <3> QED BY <1>5
  <2> HIDE DEF cells, blocks
  <2> QED BY <1>2, <1>4, <2>1, RedCells DEF PartsOf
<1> HIDE DEF cells, blocks
<1>7. {c \in DOMAIN page.blocks : page.blocks[c] = "FAILING"} = Homes \cap DOMAIN page.blocks
  BY <1>1, <1>3, <1>6 DEF Homes
<1>8. \A p, q \in Red : NameOf(p) = NameOf(q) => p = q
  BY <1>4, RedCells DEF NameOf
<1>9. {NameOf(p) : p \in Red} = {NameOf(v.part) : v \in {w \in page.verdict : w.rule # "R-03"}}
  BY <1>1, <1>4, RedCells DEF NameOf
<1> QED BY <1>7, <1>8, <1>9

----------------------------------------------------------------------------
(* The pages agree with themselves.                                        *)

\* A wire is from a part that writes its type to another that reads it.
LEMMA WireEnds ==
  ASSUME NEW ends, NEW e \in Wires(ends)
  PROVE  \E p, c \in DOMAIN ends : \E t :
           p # c /\ t \in ends[p].produces \cap ends[c].consumes /\ e = <<p, c, t>>
<1> DEFINE between(p, c) == {<<p, c, t>> : t \in ends[p].produces \cap ends[c].consumes}
           from(p) == UNION {between(p, c) : c \in DOMAIN ends \ {p}}
<1>1. PICK p \in DOMAIN ends : e \in from(p)
  BY Zenon DEF Wires
<1>2. PICK c \in DOMAIN ends \ {p} : e \in between(p, c)
  <2> HIDE DEF between
  <2> QED BY Zenon, <1>1
<1> QED BY <1>2

\* A block at an end of a wire of the data plane is drawn, in a box of its own or
\* inside its parent's.
LEMMA EndsAreBoxed ==
  ASSUME NEW reg, Whole(reg), NEW c \in EndsOf(DataPlaneEdges(reg))
  PROVE  c \in Emitted(reg)
<1> DEFINE drawn == EndsOf(DataPlaneEdges(reg))
<1>1. \A e \in DeriveCategoryEdges(reg) : e[1] \in Blocks(reg) /\ e[2] \in Blocks(reg)
  BY WireEnds DEF DeriveCategoryEdges, Blocks
<1>2. c \in Blocks(reg)
  BY <1>1 DEF EndsOf, DataPlaneEdges, BlockEdges, DataEdges
<1>3. \A b \in Blocks(reg) : IsDescribed(reg.categories[b]) /\ PlacedIn(reg.categories, reg.categories[b])
  BY DEF Whole, WholeBlocks, BlockShape, Blocks
<1>4. CASE reg.categories[c].parent = "none"
  <2>1. c \in Outer(reg, drawn)
    BY <1>2, <1>3, <1>4 DEF Outer, Nested
  <2> QED BY <2>1 DEF Emitted
<1>5. CASE reg.categories[c].parent # "none"
  <2> DEFINE b == reg.categories[c].parent
  <2>1. b \in Blocks(reg) /\ reg.categories[b].parent = "none" /\ reg.categories[b].scope # "global"
    BY <1>2, <1>3, <1>5 DEF PlacedIn, Blocks
  <2>2. c \in Children(reg, b)
    BY <1>2 DEF Children
  <2>3. b \in Outer(reg, drawn)
    BY <1>3, <2>1, <2>2 DEF Outer, Nested
  <2> HIDE DEF drawn, b
  <2> QED BY <2>2, <2>3 DEF Emitted, drawn
<1> QED BY <1>4, <1>5

LEMMA SoundHasFlow == \A reg : Sound(reg) => HasDeclaredFlow(reg)
  BY DEF Sound, Whole, AnchorPart, AnchorContract, HasDeclaredFlow

\* A wire between blocks that no deep dive shows is of a part saved by hand.
LEMMA UnseenAreHandMade ==
  ASSUME NEW reg, Sound(reg), NEW section, section = BlueprintSection(reg),
         NEW e \in Unseen(section, reg)
  PROVE  {e[1], e[2]} \cap DOMAIN HandParts # {}
<1> DEFINE from == reg.features[e[1]].category
           to == reg.features[e[2]].category
<1> SUFFICES ASSUME e[1] \notin DOMAIN HandParts, e[2] \notin DOMAIN HandParts PROVE FALSE
  OBVIOUS
<1>1. /\ e \in DeriveEdges(reg) /\ e[3] # Health /\ {from, to} \subseteq Blocks(reg)
      /\ ~(e[3] \in section.dives[from].boundary.out /\ e[3] \in section.dives[to].boundary.in)
  BY DEF Unseen, DataEdges
<1>2. /\ e[1] \in Parts(reg) /\ e[2] \in Parts(reg) /\ e[3] \in reg.features[e[1]].produces
      /\ e[3] \in reg.features[e[2]].consumes
  BY <1>1, WireEnds DEF DeriveEdges, Parts
<1>3. section.dives = DeepDives(reg)
  BY SoundHasFlow DEF BlueprintSection
<1>4. e[3] \in reg.categories[from].produces /\ e[3] \in reg.categories[to].consumes
  BY <1>1, <1>2 DEF Sound, OnlyHandPartsLoose, Tight
<1>5. PartsOf(reg, from) # {} /\ PartsOf(reg, to) # {}
  BY <1>2 DEF PartsOf
<1>6. /\ DeepDives(reg)[from].boundary = Boundary(reg, from)
      /\ DeepDives(reg)[to].boundary = Boundary(reg, to)
  BY <1>1, <1>5 DEF DeepDives
<1> HIDE DEF from, to
<1>7. e[3] \in Boundary(reg, from).out /\ e[3] \in Boundary(reg, to).in
  BY <1>1, <1>4 DEF Boundary
<1> QED BY <1>1, <1>3, <1>6, <1>7

\* So do the status board, the monitor and the wiring page, each of one reading.
LEMMA StatusBoardAgrees ==
  ASSUME NEW reg, Readable(reg), NEW reads, \A i \in 1 .. 5 : reads[i] = reg,
         page = RenderStatusBoard(reads), shown[1] = reg
  PROVE  /\ (page.tiles.flow = "FAILING") <=> page.verdict # {}
         /\ shown[1] = EmptyRegistry =>
              /\ page.tiles.flow = "NOT MEASURED"
              /\ \A tile \in DOMAIN page.tiles : page.tiles[tile] # "OK"
         /\ EndsOf(page.section.wires) \subseteq page.section.boxes
         /\ shown[1] # EmptyRegistry =>
              \A e \in Unseen(page.section, shown[1]) : {e[1], e[2]} \cap DOMAIN HandParts # {}
<1> DEFINE section == BlueprintSection(reg)
           tiles == [architecture |-> ArchitectureTile(reg), categories |-> CategoriesTile(reg),
                     features |-> FeaturesTile(reg), flow |-> FlowTile(reg)]
<1>1. page.section = section /\ page.verdict = section.verdict /\ page.tiles = tiles
  <2>1. /\ reads[1] = reg /\ reads[2] = reg /\ reads[3] = reg /\ reads[4] = reg /\ reads[5] = reg
    OBVIOUS
  <2> QED BY <2>1 DEF RenderStatusBoard, NoPage
<1>2. section.verdict = IF HasDeclaredFlow(reg) THEN FindContractViolations(reg) ELSE {}
  BY DEF BlueprintSection, NoSection
<1>3. (page.tiles.flow = "FAILING") <=> page.verdict # {}
  <2>1. page.tiles.flow = FlowTile(reg)
    BY <1>1
  <2> HIDE DEF section, tiles
  <2> QED BY <1>1, <1>2, <2>1 DEF FlowTile
<1>4. ASSUME reg = EmptyRegistry
      PROVE  /\ page.tiles.flow = "NOT MEASURED"
             /\ \A tile \in DOMAIN page.tiles : page.tiles[tile] # "OK"
  <2>1. ~HasDeclaredFlow(reg) /\ ~HasFeatures(reg) /\ Blocks(reg) = {}
    BY <1>4 DEF HasDeclaredFlow, HasFeatures, Blocks, Parts, EmptyRegistry, Nothing
  <2>2. /\ FlowTile(reg) = "NOT MEASURED" /\ ArchitectureTile(reg) = "NOT BUILT"
        /\ CategoriesTile(reg) = "NOT BUILT" /\ FeaturesTile(reg) = "NOT BUILT"
    BY <2>1 DEF FlowTile, ArchitectureTile, CategoriesTile, FeaturesTile
  <2>3. tiles.flow = "NOT MEASURED" /\ \A tile \in DOMAIN tiles : tiles[tile] # "OK"
    <3>1. DOMAIN tiles = {"architecture", "categories", "features", "flow"}
      OBVIOUS
    <3>2. /\ tiles["flow"] = "NOT MEASURED" /\ tiles["architecture"] = "NOT BUILT"
          /\ tiles["categories"] = "NOT BUILT" /\ tiles["features"] = "NOT BUILT"
      BY <2>2
    <3> HIDE DEF tiles
    <3> QED BY <3>1, <3>2
  <2> HIDE DEF tiles
  <2> QED BY <1>1, <2>3
<1>5. EndsOf(section.wires) \subseteq section.boxes
  <2>1. CASE ~HasDeclaredFlow(reg)
    BY <2>1 DEF BlueprintSection, NoSection, EndsOf
  <2>2. CASE HasDeclaredFlow(reg)
    <3>1. Whole(reg)
      <4>1. ~HasDeclaredFlow(EmptyRegistry) BY DEF HasDeclaredFlow, EmptyRegistry
      <4> QED BY <2>2, <4>1 DEF Readable, Sound
    <3>2. /\ section.wires = DataPlaneEdges(reg) \cup RecordingEdges(reg)
          /\ section.boxes = Emitted(reg) \cup EndsOf(RecordingEdges(reg))
      BY <2>2 DEF BlueprintSection
    <3>3. EndsOf(section.wires) = EndsOf(DataPlaneEdges(reg)) \cup EndsOf(RecordingEdges(reg))
      BY <3>2 DEF EndsOf
    <3> QED BY <3>1, <3>2, <3>3, EndsAreBoxed
  <2> QED BY <2>1, <2>2
<1>6. ASSUME reg # EmptyRegistry, NEW e \in Unseen(section, reg)
      PROVE  {e[1], e[2]} \cap DOMAIN HandParts # {}
  BY <1>6, UnseenAreHandMade DEF Readable
<1> HIDE DEF section
<1> QED BY <1>1, <1>3, <1>4, <1>5, <1>6

LEMMA MonitorAgrees ==
  ASSUME NEW reg, page = RenderPartMonitor(reg, reg, files), shown[1] = reg
  PROVE  \A p \in Parts(shown[1]) \ DOMAIN page.cells :
           shown[1].features[p].category \notin Blocks(shown[1])
<1>1. DOMAIN page.cells = UNION {PartsOf(reg, c) : c \in Blocks(reg)}
  BY DEF RenderPartMonitor, NoPage
<1>2. \A p \in Parts(reg) : reg.features[p].category \in Blocks(reg) =>
                              p \in UNION {PartsOf(reg, c) : c \in Blocks(reg)}
  BY DEF PartsOf
<1> QED BY <1>1, <1>2

LEMMA WiringAgrees ==
  ASSUME NEW reg, Ranked(reg), page = BuildWiring(reg)
  PROVE  \A v \in page.verdict : v.rule = "R-03" =>
           \E wire \in page.wires : wire[1] = v.part /\ wire[3] = v.type
<1>1. page.verdict = FindContractViolations(reg) /\ page.wires = DataEdges(DeriveEdges(reg))
  BY DEF BuildWiring, NoPage
<1>2. \A v \in FindContractViolations(reg) : v.rule = "R-03" => v \in PeerBreaches(reg)
  BY ViolationsUnfold, OwnBreachOf
<1> QED BY <1>1, <1>2, PeerBreachOf

\* A page whose readings are of one registry agrees with itself: cells, blocks
\* and verdict of the payload, tiles and diagrams of the status board, cells of
\* the monitor, wires and verdict of the wiring page.
THEOREM SteadyPagesAgree == DeskSpec => []SteadyPageAgrees
<1>1. WriterInv /\ ReaderInv => SteadyPageAgrees
  <2> SUFFICES ASSUME WriterInv, ReaderInv, Steady PROVE SteadyPageAgrees
    BY DEF SteadyPageAgrees
  <2>1. /\ reader \in {"browser", "snapshot", "monitor", "status", "wiring"}
        /\ Len(shown) = Reads[reader] /\ page = Rendered(shown)
    BY DEF WriterInv, ReaderInv, PageShown, Steady, Reads
  <2>2. PICK reg : reg = shown[1]
    OBVIOUS
  <2>3. PICK S : ReadableAll(S) /\ ReadFrom(S)
    BY DEF ReaderInv
  <2>4. shown \in Seq(S) /\ DOMAIN shown = 1 .. Len(shown) /\ Len(shown) \in 1 .. 5
    BY <2>1, <2>3, ReadsType DEF ReadFrom, Reads
  <2>5. Readable(reg) /\ Ranked(reg)
    BY <2>2, <2>3, <2>4, ReadableIsRanked DEF ReadableAll
  <2>6. \A i \in 1 .. Len(shown) : shown[i] = reg
    BY <2>2, <2>4 DEF Steady
  <2>7. CASE reader \in {"browser", "snapshot"}
    <3>1. shown[2] = reg
      BY <2>1, <2>6, <2>7 DEF Reads
    <3>2. \E mode : page = BuildBoardPayload(mode, reg, reg, files)
      BY <2>1, <2>2, <2>7, <3>1 DEF Rendered
    <3>3. /\ {NameOf(p) : p \in Red} = {NameOf(v.part) : v \in {w \in page.verdict : w.rule # "R-03"}}
          /\ \A p, q \in Red : NameOf(p) = NameOf(q) => p = q
          /\ {c \in DOMAIN page.blocks : page.blocks[c] = "FAILING"} = Homes \cap DOMAIN page.blocks
      BY <2>2, <2>5, <3>2, PayloadAgrees
    <3> QED BY <2>7, <3>3 DEF SteadyPageAgrees
  <2>8. CASE reader = "status"
    <3>1. page.mode = "page"
      BY <2>1, <2>8, RenderedMode DEF WriterInv
    <3>2. page = RenderStatusBoard(shown) /\ \A i \in 1 .. 5 : shown[i] = reg
      BY <2>1, <2>6, <2>8 DEF Rendered, Reads
    <3> QED BY <2>2, <2>5, <2>8, <3>1, <3>2, StatusBoardAgrees DEF SteadyPageAgrees
  <2>9. CASE reader = "monitor"
    <3>1. page.mode = "page"
      BY <2>1, <2>9, RenderedMode DEF WriterInv
    <3>2. shown[2] = reg
      BY <2>1, <2>6, <2>9 DEF Reads
    <3>3. page = RenderPartMonitor(reg, reg, files)
      BY <2>1, <2>2, <2>9, <3>2 DEF Rendered
    <3> QED BY <2>2, <2>9, <3>1, <3>3, MonitorAgrees DEF SteadyPageAgrees
  <2>10. CASE reader = "wiring"
    <3>1. page.mode = "page"
      BY <2>1, <2>10, RenderedMode DEF WriterInv
    <3>2. page = BuildWiring(reg)
      BY <2>1, <2>2, <2>10 DEF Rendered
    <3> QED BY <2>5, <2>10, <3>1, <3>2, WiringAgrees DEF SteadyPageAgrees
  <2> QED BY <2>1, <2>7, <2>8, <2>9, <2>10
<1> QED BY <1>1, AlwaysReaderInv, PTL

----------------------------------------------------------------------------
(* What an edit makes of the parts it finds: rows, reads and nothing else. *)

\* A part after an edit, g, against what it was or its row, f: it writes what f
\* writes and reads what f reads, with none but the types `more' added and none
\* but the readings listed in `gone' taken away.
ReadsOn(f, g, p, more, gone) ==
  /\ g.category = f.category /\ g.produces = f.produces
  /\ g.consumes \subseteq f.consumes \cup more
  /\ \A t \in f.consumes : t \in g.consumes \/ <<p, t>> \in gone

\* An edit that writes the rows, loses the parts `lost' and otherwise only moves
\* readings: each part comes of what it was, or of its row.
MadeOf(reg, new, rows, lost, more, gone) ==
  /\ Parts(new) = (Parts(reg) \cup Ids(rows)) \ lost
  /\ \A p \in Parts(new) :
       \/ p \notin Ids(rows) /\ ReadsOn(reg.features[p], new.features[p], p, more, gone)
       \/ \E row \in rows : row.id = p /\ ReadsOn(row, new.features[p], p, more, gone)

\* Adding rows is such an edit of any registry with the same parts.
LEMMA AddPartsMakes ==
  ASSUME NEW reg, NEW rows, NEW new, NEW more, NEW gone, NEW before, Whole(reg),
         before.features = reg.features, IsFiniteSet(Ids(rows)), new = AddParts(reg, rows)
  PROVE  Whole(new) /\ MadeOf(before, new, rows, {}, more, gone)
<1>1. /\ Whole(new) /\ Parts(new) = Ids(rows) \cup Parts(reg)
      /\ \A p \in Parts(reg) : p \notin Ids(rows) => new.features[p] = reg.features[p]
      /\ \A p \in Ids(rows) :
           \E row \in rows : row.id = p /\ new.features[p] = UpdatedFrom(reg, row)
  BY AddPartsKeeps DEF Ids
<1>2. Parts(before) = Parts(reg)
  BY DEF Parts
<1>3. ASSUME NEW p \in Parts(new), p \notin Ids(rows)
      PROVE  ReadsOn(before.features[p], new.features[p], p, more, gone)
  <2>1. new.features[p] = before.features[p]
    BY <1>1, <1>3
  <2> QED BY <2>1 DEF ReadsOn
<1>4. ASSUME NEW p \in Parts(new), p \in Ids(rows)
      PROVE  \E row \in rows : row.id = p /\ ReadsOn(row, new.features[p], p, more, gone)
  <2>1. PICK row \in rows : row.id = p /\ new.features[p] = UpdatedFrom(reg, row)
    BY <1>1, <1>4
  <2>2. /\ new.features[p].category = row.category /\ new.features[p].consumes = row.consumes
        /\ new.features[p].produces = row.produces
    BY <2>1 DEF UpdatedFrom, FromRow
  <2>3. ReadsOn(row, new.features[p], p, more, gone)
    BY <2>2 DEF ReadsOn
  <2> QED BY <2>1, <2>3
<1> QED BY <1>1, <1>2, <1>3, <1>4 DEF MadeOf

\* So is a step after one that only moves readings.
LEMMA MadeOnward ==
  ASSUME NEW reg, NEW rows, NEW lost, NEW more, NEW gone, NEW a, NEW b,
         MadeOf(reg, a, rows, lost, more, gone), Parts(b) = Parts(a),
         \A p \in Parts(a) : ReadsOn(a.features[p], b.features[p], p, more, gone)
  PROVE  MadeOf(reg, b, rows, lost, more, gone)
<1>1. ASSUME NEW f, NEW p \in Parts(a), ReadsOn(f, a.features[p], p, more, gone)
      PROVE  ReadsOn(f, b.features[p], p, more, gone)
  BY <1>1 DEF ReadsOn
<1> QED BY <1>1 DEF MadeOf

\* Reading the types added as well is such a step ...
LEMMA ConsumeAlsoMakes ==
  ASSUME NEW reg, NEW rows, NEW lost, NEW more, NEW gone, NEW a, NEW b, NEW parts, NEW types,
         MadeOf(reg, a, rows, lost, more, gone), Whole(a), types \subseteq more,
         b = ConsumeAlso(a, parts, types)
  PROVE  Whole(b) /\ MadeOf(reg, b, rows, lost, more, gone)
<1>1. /\ Whole(b) /\ Parts(b) = Parts(a)
      /\ \A p \in Parts(a) : SameButReads(a.features[p], b.features[p])
      /\ \A p \in Parts(a) : b.features[p].consumes =
           IF p \in parts THEN a.features[p].consumes \cup types ELSE a.features[p].consumes
  BY ConsumeAlsoKeeps
<1>2. ASSUME NEW p \in Parts(a) PROVE ReadsOn(a.features[p], b.features[p], p, more, gone)
  BY <1>1 DEF ReadsOn, SameButReads, SameButFlow
<1> QED BY <1>1, <1>2, MadeOnward

\* ... and so is reading the new type for the old ...
LEMMA RepointMakes ==
  ASSUME NEW reg, NEW rows, NEW lost, NEW more, NEW gone, NEW a, NEW b, NEW parts, NEW old, NEW type,
         MadeOf(reg, a, rows, lost, more, gone), Whole(a), type \in more, parts \X {old} \subseteq gone,
         b = Repoint(a, parts, old, type)
  PROVE  Whole(b) /\ MadeOf(reg, b, rows, lost, more, gone)
<1>1. /\ Whole(b) /\ Parts(b) = Parts(a)
      /\ \A p \in Parts(a) : SameButReads(a.features[p], b.features[p])
      /\ \A p \in Parts(a) : b.features[p].consumes =
           IF p \in parts THEN Swap(a.features[p].consumes, old, type) \cup {type}
           ELSE a.features[p].consumes
  BY RepointKeeps
<1>2. \A types : /\ Swap(types, old, type) \subseteq types \cup {type}
                 /\ \A t \in types : t # old => t \in Swap(types, old, type)
  BY DEF Swap
<1>3. ASSUME NEW p \in Parts(a) PROVE ReadsOn(a.features[p], b.features[p], p, more, gone)
  <2>1. p \in parts => <<p, old>> \in gone
    OBVIOUS
  <2>2. /\ b.features[p].category = a.features[p].category
        /\ b.features[p].produces = a.features[p].produces
    BY <1>1 DEF SameButReads, SameButFlow
  <2> DEFINE before == a.features[p].consumes
             after == b.features[p].consumes
  <2>3. p \notin parts => after = before
    BY <1>1
  <2>4. p \in parts => after = Swap(before, old, type) \cup {type}
    BY <1>1
  <2> HIDE DEF before, after
  <2>5. after \subseteq before \cup more
    BY <1>2, <2>3, <2>4
  <2>6. \A t \in before : t \in after \/ <<p, t>> \in gone
    BY <1>2, <2>1, <2>3, <2>4
  <2> QED BY <2>2, <2>5, <2>6 DEF ReadsOn, before, after
<1> QED BY <1>1, <1>3, MadeOnward

\* ... and computing the contracts again, which touches no part.
LEMMA RecomputeMakes ==
  ASSUME NEW reg, NEW rows, NEW lost, NEW more, NEW gone, NEW a, NEW b,
         MadeOf(reg, a, rows, lost, more, gone), Whole(a), b = RecomputeContracts(a)
  PROVE  MadeOf(reg, b, rows, lost, more, gone)
<1>1. b.features = a.features
  BY RecomputeKeeps
<1> QED BY <1>1 DEF MadeOf, Parts

\* What the first script makes of a registry.
LEMMA HarvestMakes ==
  ASSUME NEW reg, NEW new, Whole(reg), new = HarvestAndThreeBots(reg)
  PROVE  MadeOf(reg, new, HarvestRows, RETIRED, {"exit-plan"}, {})
<1> DEFINE types == AddTypes(reg, {PredictionFlag, "feature-vector", "exit-plan"})
           blocks == AddBlocks(types, BotBlocks, "per-segment")
           parts == AddParts(blocks, HarvestRows)
           retired == Retire(parts, RETIRED)
           also == ConsumeAlso(retired, {"stop-target-placer"}, {"exit-plan"})
<1>1. new = RecomputeContracts(also)
  BY DEF HarvestAndThreeBots, BotBlocks
<1> HIDE DEF types, blocks, parts, retired, also
<1>2. Whole(types) /\ types.features = reg.features
  <2> DEFINE added == {PredictionFlag, "feature-vector", "exit-plan"}
  <2>1. types = AddTypes(reg, added) BY DEF types
  <2> HIDE DEF added
  <2> QED BY <2>1, AddTypesKeeps
<1>3. Whole(blocks) /\ blocks.features = reg.features
  BY <1>2, AddBlocksKeeps DEF blocks
<1>4. Whole(parts) /\ MadeOf(reg, parts, HarvestRows, {}, {"exit-plan"}, {})
  BY <1>3, AddPartsMakes, RowIds DEF parts
<1>5. /\ Whole(retired) /\ Parts(retired) = Parts(parts) \ RETIRED
      /\ \A p \in Parts(retired) : retired.features[p] = parts.features[p]
  BY <1>4, RetireKeeps DEF retired
<1>6. MadeOf(reg, retired, HarvestRows, RETIRED, {"exit-plan"}, {})
  BY <1>4, <1>5 DEF MadeOf
<1>7. Whole(also) /\ MadeOf(reg, also, HarvestRows, RETIRED, {"exit-plan"}, {})
  BY <1>5, <1>6, ConsumeAlsoMakes DEF also
<1> QED BY <1>1, <1>7, RecomputeMakes

\* What the second does; the conviction models it leaves read the label.
LEMMA ThinkingMakes ==
  ASSUME NEW reg, NEW new, Whole(reg), new = ThinkingBlocksAndFeed(reg)
  PROVE  /\ MadeOf(reg, new, ThinkingRows, {}, {"training-label"}, {})
         /\ \A s \in Sides : Named(s, "conviction-model") \in Parts(new) =>
              "training-label" \in new.features[Named(s, "conviction-model")].consumes
<1> DEFINE types == AddTypes(reg, {"training-label"})
           parts == AddParts(types, ThinkingRows)
           models == {Named(s, "conviction-model") : s \in Sides}
           also == ConsumeAlso(parts, models, {"training-label"})
<1>1. new = RecomputeContracts(also)
  BY DEF ThinkingBlocksAndFeed
<1>s. \A s \in Sides : Named(s, "conviction-model") \in models
  OBVIOUS
<1> HIDE DEF types, parts, also, models
<1>2. Whole(types) /\ types.features = reg.features
  BY AddTypesKeeps DEF types
<1>3. Whole(parts) /\ MadeOf(reg, parts, ThinkingRows, {}, {"training-label"}, {})
  BY <1>2, AddPartsMakes, RowIds DEF parts
<1>4. Whole(also) /\ MadeOf(reg, also, ThinkingRows, {}, {"training-label"}, {})
  BY <1>3, ConsumeAlsoMakes DEF also
<1>5. \A p \in Parts(parts) : p \in models => "training-label" \in also.features[p].consumes
  <2>1. \A p \in Parts(parts) : also.features[p].consumes =
           IF p \in models THEN parts.features[p].consumes \cup {"training-label"}
           ELSE parts.features[p].consumes
    BY <1>3, ConsumeAlsoKeeps DEF also
  <2> QED BY <2>1
<1>6. Parts(also) = Parts(parts)
  BY <1>3, ConsumeAlsoKeeps DEF also
<1>7. new.features = also.features
  BY <1>1, <1>4, RecomputeKeeps
<1>8. MadeOf(reg, new, ThinkingRows, {}, {"training-label"}, {})
  BY <1>1, <1>4, RecomputeMakes
<1>9. Parts(new) = Parts(parts)
  BY <1>6, <1>7 DEF Parts
<1> QED BY <1>s, <1>5, <1>7, <1>8, <1>9

\* What the third does.
LEMMA ClosedTradeMakes ==
  ASSUME NEW reg, NEW new, Whole(reg), new = ClosedTradeDecoding(reg)
  PROVE  MadeOf(reg, new, ClosedTradeRows, {}, {"exit-counterfactual"}, {})
<1> DEFINE types == AddTypes(reg, {"exit-counterfactual"})
           parts == AddParts(types, ClosedTradeRows)
           also == ConsumeAlso(parts, {"tail-trailing-exit-planner", "exit-timing-learner"},
                               {"exit-counterfactual"})
<1>1. new = RecomputeContracts(also)
  BY DEF ClosedTradeDecoding
<1> HIDE DEF types, parts, also
<1>2. Whole(types) /\ types.features = reg.features
  BY AddTypesKeeps DEF types
<1>3. Whole(parts) /\ MadeOf(reg, parts, ClosedTradeRows, {}, {"exit-counterfactual"}, {})
  BY <1>2, AddPartsMakes, RowIds DEF parts
<1>4. Whole(also) /\ MadeOf(reg, also, ClosedTradeRows, {}, {"exit-counterfactual"}, {})
  BY <1>3, ConsumeAlsoMakes DEF also
<1> QED BY <1>1, <1>4, RecomputeMakes

\* The parts the fifth script points elsewhere, and the readings it takes away.
BoundedReaders == {"order-idempotency-stamper", "shortfall-decomposer", "trade-lifecycle-recorder"}
ValidatedReaders == {"premortem-writer", "trade-narrative-writer"}
Repointed == (BoundedReaders \X {"sized-order"}) \cup (ValidatedReaders \X {"llm-response"})

\* What the fifth does.
LEMMA CapitalMakes ==
  ASSUME NEW reg, NEW new, Whole(reg), new = CapitalDeskAndLlmFoundation(reg)
  PROVE  MadeOf(reg, new, CapitalRows, {}, {"bounded-order", "validated-llm-output"}, Repointed)
<1> DEFINE more == {"bounded-order", "validated-llm-output"}
           blocks == AddBlocks(reg, {"capital-desk", "llm-foundation"}, "shared")
           types == AddTypes(blocks, more)
           parts == AddParts(types, CapitalRows)
           bounded == Repoint(parts, BoundedReaders, "sized-order", "bounded-order")
           checked == Repoint(bounded, ValidatedReaders, "llm-response", "validated-llm-output")
<1>1. new = RecomputeContracts(checked)
  BY DEF CapitalDeskAndLlmFoundation, BoundedReaders, ValidatedReaders
<1>m. "bounded-order" \in more /\ "validated-llm-output" \in more
  OBVIOUS
<1> HIDE DEF blocks, types, parts, bounded, checked, more
<1>2. Whole(blocks) /\ blocks.features = reg.features
  BY AddBlocksKeeps DEF blocks
<1>3. Whole(types) /\ types.features = reg.features
  BY <1>2, AddTypesKeeps DEF types
<1>4. Whole(parts) /\ MadeOf(reg, parts, CapitalRows, {}, more, Repointed)
  BY <1>3, AddPartsMakes, RowIds DEF parts
<1>5. Whole(bounded) /\ MadeOf(reg, bounded, CapitalRows, {}, more, Repointed)
  <2>1. BoundedReaders \X {"sized-order"} \subseteq Repointed
    BY DEF Repointed
  <2> QED BY <1>m, <1>4, <2>1, RepointMakes DEF bounded
<1>6. Whole(checked) /\ MadeOf(reg, checked, CapitalRows, {}, more, Repointed)
  <2>1. ValidatedReaders \X {"llm-response"} \subseteq Repointed
    BY DEF Repointed
  <2> QED BY <1>m, <1>5, <2>1, RepointMakes DEF checked
<1>7. MadeOf(reg, new, CapitalRows, {}, more, Repointed)
  BY <1>1, <1>6, RecomputeMakes
<1> QED BY <1>7 DEF more

\* The last two move no reading at all.
LEMMA FactEditsMake ==
  ASSUME NEW reg, NEW new, Whole(reg), new \in {PartDeclarations(reg), CorrectLiveDecisionParts(reg)}
  PROVE  MadeOf(reg, new, {}, {}, {}, {})
<1>1. /\ Parts(new) = Parts(reg)
      /\ \A p \in Parts(reg) :
           /\ new.features[p].category = reg.features[p].category
           /\ new.features[p].consumes = reg.features[p].consumes
           /\ new.features[p].produces = reg.features[p].produces
  BY DeclarationsKeep, CorrectionKeeps
<1>2. Ids({}) = {}
  BY DEF Ids
<1> QED BY <1>1, <1>2 DEF MadeOf, ReadsOn

----------------------------------------------------------------------------
(* What such an edit leaves alone.                                         *)

\* Among the rows the type is read by the row of that part and by no other.
RowsRead(rows, type, reader_) == \A row \in rows : type \in row.consumes <=> row.id = reader_

\* The one reader of a type stays the only one, if the rows know no other, the
\* type is not among those added and this reading not among those taken away.
LEMMA OnlyReaderStays ==
  ASSUME NEW reg, NEW new, NEW rows, NEW lost, NEW more, NEW gone, NEW type, NEW one,
         MadeOf(reg, new, rows, lost, more, gone), RowsRead(rows, type, one), type \notin more,
         <<one, type>> \notin gone, one \in Parts(new), ReadersOf(reg, type) = {one}
  PROVE  ReadersOf(new, type) = {one}
<1>1. one \in Parts(reg) /\ type \in reg.features[one].consumes
  BY DEF ReadersOf
<1>2. ASSUME NEW p \in Parts(new), type \in new.features[p].consumes PROVE p = one
  <2>1. CASE p \notin Ids(rows) /\ ReadsOn(reg.features[p], new.features[p], p, more, gone)
    <3>1. p \in Parts(reg) /\ type \in reg.features[p].consumes
      BY <1>2, <2>1 DEF MadeOf, ReadsOn
    <3> QED BY <3>1 DEF ReadersOf
  <2>2. ASSUME NEW row \in rows, row.id = p, ReadsOn(row, new.features[p], p, more, gone)
        PROVE  p = one
    <3>1. type \in row.consumes
      BY <1>2, <2>2 DEF ReadsOn
    <3> QED BY <2>2, <3>1 DEF RowsRead
  <2> QED BY <2>1, <2>2 DEF MadeOf
<1>3. type \in new.features[one].consumes
  <2>1. CASE ReadsOn(reg.features[one], new.features[one], one, more, gone)
    BY <1>1, <2>1 DEF ReadsOn
  <2>2. ASSUME NEW row \in rows, row.id = one, ReadsOn(row, new.features[one], one, more, gone)
        PROVE  type \in new.features[one].consumes
    BY <2>2 DEF ReadsOn, RowsRead
  <2> QED BY <2>1, <2>2 DEF MadeOf
<1> QED BY <1>2, <1>3 DEF ReadersOf

\* A part no row names goes on reading what is not taken from it.
LEMMA ReaderStays ==
  ASSUME NEW reg, NEW new, NEW rows, NEW lost, NEW more, NEW gone, NEW type, NEW one,
         MadeOf(reg, new, rows, lost, more, gone), one \notin Ids(rows),
         <<one, type>> \notin gone, one \in Parts(new), one \in ReadersOf(reg, type)
  PROVE  one \in ReadersOf(new, type)
BY DEF MadeOf, ReadsOn, ReadersOf, Ids

\* The types a bot's own parts may write, and the private types of the others.
BotWords == {"feature-vector", "exit-plan", "feature-out-of-distribution-flag"}
BotTypes(side) ==
  {Health, PredictionFlag, "feature-vector", "exit-plan"} \cup {Named(side, word) : word \in BotWords}
Foreign(side) == {Named(other, word) : other \in DOMAIN Bot \ {side}, word \in BotWords}

\* A part in a bot's block writes only types of its own bot or of all of them,
\* and reads no private type of another bot.
KeepsToItself(f) ==
  \A side \in DOMAIN Bot : f.category = Bot[side] =>
    f.produces \subseteq BotTypes(side) /\ f.consumes \cap Foreign(side) = {}
BotsKeepToThemselves(reg) == \A p \in Parts(reg) : KeepsToItself(reg.features[p])

\* An edit keeps the bots to themselves if its rows do and the types it has read
\* are no bot's.
LEMMA BotsStayPrivate ==
  ASSUME NEW reg, NEW new, NEW rows, NEW lost, NEW more, NEW gone,
         MadeOf(reg, new, rows, lost, more, gone), BotsKeepToThemselves(reg),
         \A row \in rows : KeepsToItself(row), \A side \in DOMAIN Bot : more \cap Foreign(side) = {}
  PROVE  BotsKeepToThemselves(new)
<1>1. ASSUME NEW f, NEW g, NEW p, KeepsToItself(f), ReadsOn(f, g, p, more, gone)
      PROVE  KeepsToItself(g)
  <2>1. /\ g.category = f.category /\ g.produces = f.produces
        /\ g.consumes \subseteq f.consumes \cup more
    BY <1>1 DEF ReadsOn
  <2> QED BY <1>1, <2>1 DEF KeepsToItself
<1>2. ASSUME NEW p \in Parts(new) PROVE KeepsToItself(new.features[p])
  <2>1. CASE p \notin Ids(rows) /\ ReadsOn(reg.features[p], new.features[p], p, more, gone)
    <3>1. p \in Parts(reg)
      BY <2>1 DEF MadeOf
    <3>2. KeepsToItself(reg.features[p])
      BY <3>1 DEF BotsKeepToThemselves
    <3> QED BY <1>1, <2>1, <3>2
  <2>2. ASSUME NEW row \in rows, row.id = p, ReadsOn(row, new.features[p], p, more, gone)
        PROVE  KeepsToItself(new.features[p])
    BY <1>1, <2>2
  <2> QED BY <2>1, <2>2 DEF MadeOf
<1> QED BY <1>2 DEF BotsKeepToThemselves

\* One part feeds another with a type of the data plane.
Feeds(reg, p, c, t) ==
  /\ p \in Parts(reg) /\ c \in Parts(reg) /\ p # c /\ t # Health
  /\ t \in reg.features[p].produces /\ t \in reg.features[c].consumes

\* The bots are apart when nothing feeds a part of one from a part of another.
LEMMA ApartIs ==
  ASSUME NEW reg
  PROVE  BotsApart(reg) <=>
           \A p, c \in Parts(reg) : \A t : Feeds(reg, p, c, t)
               /\ reg.features[p].category \in BotBlocks /\ reg.features[c].category \in BotBlocks
             => reg.features[p].category = reg.features[c].category
<1>1. \A e : e \in DataEdges(DeriveEdges(reg)) <=>
               \E p, c \in Parts(reg) : \E t : e = <<p, c, t>> /\ Feeds(reg, p, c, t)
  <2> DEFINE ends == reg.features
             from(p) == UNION {{<<p, c, t>> : t \in ends[p].produces \cap ends[c].consumes} :
                                 c \in DOMAIN ends \ {p}}
  <2>1. DeriveEdges(reg) = UNION {from(p) : p \in DOMAIN ends}
    BY Zenon DEF DeriveEdges, Wires
  <2>2. \A p : \A e : e \in from(p) <=>
          \E c \in DOMAIN ends \ {p} : \E t \in ends[p].produces \cap ends[c].consumes : e = <<p, c, t>>
    OBVIOUS
  <2> HIDE DEF from
  <2>3. \A e : e \in DeriveEdges(reg) <=> \E p \in DOMAIN ends : e \in from(p)
    BY <2>1
  <2> QED BY <2>2, <2>3 DEF DataEdges, Feeds, Parts
<1> DEFINE Edges == DataEdges(DeriveEdges(reg))
           same(e) == reg.features[e[1]].category \in BotBlocks
                        /\ reg.features[e[2]].category \in BotBlocks
                      => reg.features[e[1]].category = reg.features[e[2]].category
<1>2. BotsApart(reg) <=> \A e \in Edges : same(e)
  BY Zenon DEF BotsApart, BotBlocks
<1>3. \A p, c, t : <<p, c, t>>[1] = p /\ <<p, c, t>>[2] = c
  OBVIOUS
<1>4. ASSUME NEW p \in Parts(reg), NEW c \in Parts(reg), NEW t, Feeds(reg, p, c, t),
             \A e \in Edges : same(e), reg.features[p].category \in BotBlocks,
             reg.features[c].category \in BotBlocks
      PROVE  reg.features[p].category = reg.features[c].category
  <2>1. <<p, c, t>> \in Edges
    BY <1>1, <1>4
  <2> QED BY <1>3, <1>4, <2>1
<1>5. ASSUME NEW e \in Edges,
             \A p, c \in Parts(reg) : \A t : Feeds(reg, p, c, t)
                 /\ reg.features[p].category \in BotBlocks /\ reg.features[c].category \in BotBlocks
               => reg.features[p].category = reg.features[c].category
      PROVE  same(e)
  <2>1. PICK p \in Parts(reg), c \in Parts(reg) : \E t : e = <<p, c, t>> /\ Feeds(reg, p, c, t)
    BY <1>1, <1>5
  <2> QED BY <1>3, <1>5, <2>1
<1> HIDE DEF Edges, same
<1> QED BY <1>2, <1>4, <1>5

\* An edit that writes no row into a bot's block and adds no type a bot writes
\* wires no bot to another.
LEMMA BotsStayApart ==
  ASSUME NEW reg, NEW new, NEW rows, NEW lost, NEW more, NEW gone,
         MadeOf(reg, new, rows, lost, more, gone), BotsKeepToThemselves(reg),
         \A row \in rows : row.category \notin BotBlocks,
         \A side \in DOMAIN Bot : more \cap BotTypes(side) = {}, BotsApart(reg)
  PROVE  BotsApart(new)
<1> DEFINE InBot(r, p) == r.features[p].category \in BotBlocks
<1>1. ASSUME NEW p \in Parts(new), InBot(new, p)
      PROVE  p \in Parts(reg) /\ ReadsOn(reg.features[p], new.features[p], p, more, gone)
  <2>1. ASSUME NEW row \in rows, ReadsOn(row, new.features[p], p, more, gone) PROVE FALSE
    BY <1>1, <2>1 DEF ReadsOn
  <2> QED BY <2>1 DEF MadeOf
<1>2. SUFFICES ASSUME NEW p \in Parts(new), NEW c \in Parts(new), NEW t, Feeds(new, p, c, t),
                      InBot(new, p), InBot(new, c)
               PROVE  new.features[p].category = new.features[c].category
  BY ApartIs
<1>3. /\ p \in Parts(reg) /\ c \in Parts(reg) /\ InBot(reg, p) /\ InBot(reg, c)
      /\ new.features[p].category = reg.features[p].category
      /\ new.features[c].category = reg.features[c].category
      /\ t \in reg.features[p].produces /\ t \in reg.features[c].consumes \cup more
  BY <1>1, <1>2 DEF ReadsOn, Feeds
<1>4. t \notin more
  <2>1. PICK side \in DOMAIN Bot : reg.features[p].category = Bot[side]
    BY <1>3 DEF BotBlocks
  <2>2. t \in BotTypes(side)
    BY <1>3, <2>1 DEF BotsKeepToThemselves, KeepsToItself
  <2> QED BY <2>2
<1>5. Feeds(reg, p, c, t)
  BY <1>2, <1>3, <1>4 DEF Feeds
<1> QED BY <1>3, <1>5, ApartIs

----------------------------------------------------------------------------
(* The names of the private types, and the script that hands them out.    *)

\* The naming assumption, as the proofs use it.
LEMMA NamesApart ==
  /\ DOMAIN Bot = {"bull", "bear", "tail"} /\ Sides \subseteq DOMAIN Bot
  /\ \A s, u \in DOMAIN Bot : Bot[s] = Bot[u] => s = u
  /\ \A s \in DOMAIN Bot, word \in SideWords : Named(s, word) \notin WrittenOut
  /\ \A s, u \in DOMAIN Bot, word, other \in SideWords :
       Named(s, word) = Named(u, other) => s = u /\ word = other
  /\ BotWords \subseteq SideWords /\ "conviction-model" \in SideWords
BY NamesAssumption DEF Bot, Sides, BotWords, SideWords

\* A part of one bot's block as the fourth script leaves it, g, and found it, f.
Privatised(f, g, p, side) ==
  /\ g.produces = {Private(side, t) : t \in IF p = Named(side, "outlier-rejector")
                                            THEN Swap(f.produces, PredictionFlag, OwnFlag(side))
                                            ELSE f.produces}
  /\ g.consumes = {Private(side, t) : t \in f.consumes}
                    \cup (IF side \in Sides /\ p = Named(side, "conviction-model")
                          THEN {OwnFlag(side)} ELSE {})

\* What the fourth script makes of a part, in a bot's block and outside.
LEMMA PrivatisedIs ==
  ASSUME NEW reg, NEW p, PartShape(reg.features[p])
  PROVE  LET f == reg.features[p]
             g == PrivatisedPart(reg, p)
         IN  /\ g.category = f.category
             /\ \A side \in DOMAIN Bot : f.category = Bot[side] => Privatised(f, g, p, side)
             /\ f.category \notin BotBlocks =>
                  /\ g.produces = f.produces
                  /\ g.consumes = UNION {IF t \in DOMAIN INTERNAL THEN {Named(s, t) : s \in INTERNAL[t]}
                                         ELSE {t} : t \in f.consumes}
<1> DEFINE f == reg.features[p]
           g == PrivatisedPart(reg, p)
<1>1. g.category = f.category
  BY PrivatisedKeeps DEF SameButFlow
<1>2. DOMAIN f = PartFields
  BY DEF PartShape
<1>3. ASSUME NEW side \in DOMAIN Bot, f.category = Bot[side] PROVE Privatised(f, g, p, side)
  <2>1. (CHOOSE s \in DOMAIN Bot : f.category = Bot[s]) = side
    BY <1>3, NamesApart
  <2> DEFINE private(types) == {Private(side, t) : t \in types}
             flagged(types) == IF p = Named(side, "outlier-rejector")
                               THEN Swap(types, PredictionFlag, OwnFlag(side)) ELSE types
             reads == private(f.consumes) \cup (IF side \in Sides /\ p = Named(side, "conviction-model")
                                                THEN {OwnFlag(side)} ELSE {})
             writes == private(flagged(f.produces))
  <2>2. g = [f EXCEPT !.consumes = reads, !.produces = writes]
    BY <1>3, <2>1 DEF PrivatisedPart
  <2>3. \A a, b : LET new == [f EXCEPT !.consumes = a, !.produces = b]
                  IN  new.consumes = a /\ new.produces = b
    BY <1>2 DEF PartFields
  <2>4. g.consumes = reads /\ g.produces = writes
    <3> HIDE DEF reads, writes, f, g
    <3> QED BY <2>2, <2>3
  <2> QED BY <2>4 DEF Privatised
<1>4. ASSUME f.category \notin BotBlocks
      PROVE  /\ g.produces = f.produces
             /\ g.consumes = UNION {IF t \in DOMAIN INTERNAL THEN {Named(s, t) : s \in INTERNAL[t]}
                                    ELSE {t} : t \in f.consumes}
  <2> DEFINE outside == UNION {IF t \in DOMAIN INTERNAL THEN {Named(s, t) : s \in INTERNAL[t]}
                               ELSE {t} : t \in f.consumes}
  <2>1. ~ \E s \in DOMAIN Bot : f.category = Bot[s]
    BY <1>4 DEF BotBlocks
  <2>2. g = [f EXCEPT !.consumes = outside]
    BY Zenon, <2>1 DEF PrivatisedPart
  <2>3. \A a : LET new == [f EXCEPT !.consumes = a]
               IN  new.consumes = a /\ new.produces = f.produces
    BY <1>2 DEF PartFields
  <2>4. g.consumes = outside /\ g.produces = f.produces
    <3> HIDE DEF outside, f, g
    <3> QED BY <2>2, <2>3
  <2> QED BY <2>4
<1> QED BY <1>1, <1>3, <1>4

\* The types that become private.
PrivateWords == {"feature-vector", "exit-plan"}

\* A type becomes private under its bot's name or stays as it was; no bot is left
\* with the shared exit plan, and only the third with the shared feature vector.
LEMMA PrivateIs ==
  ASSUME NEW side \in DOMAIN Bot, NEW t
  PROVE  /\ t \notin PrivateWords => Private(side, t) = t
         /\ Private(side, t) = t \/ (t \in PrivateWords /\ Private(side, t) = Named(side, t))
         /\ Private(side, t) # "exit-plan"
         /\ Private(side, t) = "feature-vector" => side = "tail"
<1>1. /\ DOMAIN INTERNAL = PrivateWords /\ INTERNAL["exit-plan"] = DOMAIN Bot
      /\ INTERNAL["feature-vector"] = Sides
  BY DEF INTERNAL, PrivateWords
<1>2. \A word \in PrivateWords : Named(side, word) \notin WrittenOut
  BY NamesApart DEF PrivateWords, SideWords
<1> QED BY <1>1, <1>2, NamesApart DEF Private, PrivateWords, WrittenOut, Sides

\* The fourth script keeps a part to itself ...
LEMMA PrivateTypesKeepTo ==
  ASSUME NEW f, NEW g, NEW p, g.category = f.category, KeepsToItself(f),
         \A side \in DOMAIN Bot : f.category = Bot[side] => Privatised(f, g, p, side)
  PROVE  KeepsToItself(g)
<1> SUFFICES ASSUME NEW side \in DOMAIN Bot, f.category = Bot[side]
             PROVE  g.produces \subseteq BotTypes(side) /\ g.consumes \cap Foreign(side) = {}
  BY DEF KeepsToItself
<1>1. Privatised(f, g, p, side) /\ f.produces \subseteq BotTypes(side)
      /\ f.consumes \cap Foreign(side) = {}
  BY DEF KeepsToItself
<1>2. \A word \in BotWords : Named(side, word) \in BotTypes(side) /\ Named(side, word) \notin Foreign(side)
  BY NamesApart DEF BotTypes, Foreign
<1>3. OwnFlag(side) \in BotTypes(side) /\ OwnFlag(side) \notin Foreign(side)
  BY <1>2 DEF OwnFlag, BotWords
<1>4. \A t : t \in BotTypes(side) => Private(side, t) \in BotTypes(side)
  BY <1>2, PrivateIs DEF PrivateWords, BotWords
<1>5. \A t : t \notin Foreign(side) => Private(side, t) \notin Foreign(side)
  BY <1>2, PrivateIs DEF PrivateWords, BotWords
<1>6. ASSUME NEW t \in g.produces PROVE t \in BotTypes(side)
  <2>1. PICK t0 : t = Private(side, t0) /\ t0 \in f.produces \cup {OwnFlag(side)}
    BY <1>1 DEF Privatised, Swap
  <2> QED BY <1>1, <1>3, <1>4, <2>1
<1>7. ASSUME NEW t \in g.consumes PROVE t \notin Foreign(side)
  <2>1. t = OwnFlag(side) \/ \E t0 \in f.consumes : t = Private(side, t0)
    BY <1>1 DEF Privatised
  <2> QED BY <1>1, <1>3, <1>5, <2>1
<1> QED BY <1>6, <1>7

\* The types it leaves as they are.
Outside == {"sized-order", "llm-response", "training-label", PredictionFlag}

\* ... and takes and gives none of the types it leaves as they are.
LEMMA PrivateTypesLeave ==
  ASSUME NEW f, NEW g, NEW p, NEW side \in DOMAIN Bot, Privatised(f, g, p, side), NEW t \in Outside
  PROVE  /\ t \in g.consumes <=> t \in f.consumes
         /\ t \in g.produces => t \in f.produces
<1>1. t \in WrittenOut /\ t \notin PrivateWords
  BY DEF Outside, WrittenOut, PrivateWords, PredictionFlag
<1>2. \A t0 : Private(side, t0) = t <=> t0 = t
  <2>1. \A word \in PrivateWords : Named(side, word) # t
    BY <1>1, NamesApart DEF PrivateWords, SideWords
  <2> QED BY <1>1, <2>1, PrivateIs
<1>3. OwnFlag(side) # t
  BY <1>1, NamesApart DEF OwnFlag, SideWords
<1>4. t \in g.produces => t \in f.produces \cup {OwnFlag(side)}
  BY <1>2 DEF Privatised, Swap
<1>5. t \in g.consumes <=> t \in f.consumes
  BY <1>2, <1>3 DEF Privatised
<1> QED BY <1>3, <1>4, <1>5

----------------------------------------------------------------------------
(* The fourth script, and the rows of the others.                          *)

\* The fourth script leaves the readers of those types as they are ...
LEMMA SidePrivateReads ==
  ASSUME NEW reg, NEW new, Whole(reg), new = SidePrivateTypes(reg), NEW t \in Outside
  PROVE  Parts(new) = Parts(reg) /\ ReadersOf(new, t) = ReadersOf(reg, t)
<1>1. /\ Parts(new) = Parts(reg)
      /\ \A p \in Parts(reg) : new.features[p] = PrivatisedPart(reg, p) /\ PartShape(reg.features[p])
  BY SidePrivateKeeps DEF Whole, WholeParts, Parts
<1>2. ASSUME NEW p \in Parts(reg)
      PROVE  t \in new.features[p].consumes <=> t \in reg.features[p].consumes
  <2> DEFINE f == reg.features[p]
             g == new.features[p]
  <2>1. CASE \E side \in DOMAIN Bot : f.category = Bot[side]
    <3>1. PICK side \in DOMAIN Bot : f.category = Bot[side]
      BY <2>1
    <3>2. Privatised(f, g, p, side)
      BY <1>1, <3>1, PrivatisedIs
    <3> HIDE DEF f, g
    <3>3. t \in g.consumes <=> t \in f.consumes
      BY <3>2, PrivateTypesLeave
    <3> QED BY <3>3 DEF f, g
  <2>2. CASE ~ \E side \in DOMAIN Bot : f.category = Bot[side]
    <3>1. f.category \notin BotBlocks
      BY <2>2 DEF BotBlocks
    <3>2. g.consumes = UNION {IF type \in DOMAIN INTERNAL THEN {Named(s, type) : s \in INTERNAL[type]}
                              ELSE {type} : type \in f.consumes}
      BY <1>1, <3>1, PrivatisedIs
    <3>3. /\ DOMAIN INTERNAL = PrivateWords /\ t \notin PrivateWords
          /\ \A type \in PrivateWords : INTERNAL[type] \subseteq DOMAIN Bot
          /\ t \in WrittenOut /\ PrivateWords \subseteq SideWords
      BY NamesApart DEF INTERNAL, PrivateWords, Outside, WrittenOut, PredictionFlag, SideWords
    <3>4. \A type \in PrivateWords : t \notin {Named(s, type) : s \in INTERNAL[type]}
      BY <3>3, NamesApart
    <3> HIDE DEF f, g
    <3>5. t \in g.consumes <=> t \in f.consumes
      BY <3>2, <3>3, <3>4
    <3> QED BY <3>5 DEF f, g
  <2> QED BY <2>1, <2>2
<1> QED BY <1>1, <1>2 DEF ReadersOf

\* ... and the bots to themselves, and apart if they were.
LEMMA SidePrivateBots ==
  ASSUME NEW reg, NEW new, Whole(reg), new = SidePrivateTypes(reg), BotsKeepToThemselves(reg)
  PROVE  BotsKeepToThemselves(new) /\ (BotsApart(reg) => BotsApart(new))
<1>1. /\ Parts(new) = Parts(reg)
      /\ \A p \in Parts(reg) : new.features[p] = PrivatisedPart(reg, p) /\ PartShape(reg.features[p])
  BY SidePrivateKeeps DEF Whole, WholeParts, Parts
<1>2. ASSUME NEW p \in Parts(reg)
      PROVE  /\ new.features[p].category = reg.features[p].category
             /\ \A side \in DOMAIN Bot : reg.features[p].category = Bot[side] =>
                  Privatised(reg.features[p], new.features[p], p, side)
             /\ KeepsToItself(reg.features[p]) /\ KeepsToItself(new.features[p])
  <2>1. /\ new.features[p].category = reg.features[p].category
        /\ \A side \in DOMAIN Bot : reg.features[p].category = Bot[side] =>
             Privatised(reg.features[p], new.features[p], p, side)
    BY <1>1, PrivatisedIs
  <2>2. KeepsToItself(reg.features[p])
    BY DEF BotsKeepToThemselves
  <2>3. KeepsToItself(new.features[p])
    BY <2>1, <2>2, PrivateTypesKeepTo
  <2> QED BY <2>1, <2>2, <2>3
<1>3. BotsKeepToThemselves(new)
  BY <1>1, <1>2 DEF BotsKeepToThemselves
<1>4. ASSUME BotsApart(reg) PROVE BotsApart(new)
  <2>1. SUFFICES ASSUME NEW p \in Parts(new), NEW c \in Parts(new), NEW t, Feeds(new, p, c, t),
                        new.features[p].category \in BotBlocks, new.features[c].category \in BotBlocks,
                        new.features[p].category # new.features[c].category
                 PROVE  FALSE
    BY ApartIs
  <2>2. PICK s \in DOMAIN Bot, u \in DOMAIN Bot :
          new.features[p].category = Bot[s] /\ new.features[c].category = Bot[u]
    BY <2>1 DEF BotBlocks
  <2>3. s # u
    BY <2>1, <2>2
  <2> DEFINE fp == reg.features[p]
             gp == new.features[p]
             fc == reg.features[c]
             gc == new.features[c]
  <2>4. /\ Privatised(fp, gp, p, s) /\ Privatised(fc, gc, c, u)
        /\ gp.produces \subseteq BotTypes(s) /\ gc.consumes \cap Foreign(u) = {}
        /\ fp.category = gp.category /\ fc.category = gc.category
    BY <1>1, <1>2, <2>2 DEF KeepsToItself
  <2>5. t \in gp.produces /\ t \in gc.consumes /\ t # Health
    BY <2>1 DEF Feeds
  <2>6. t \in {PredictionFlag, "feature-vector", "exit-plan"}
    <3>1. \A word \in BotWords : Named(s, word) \in Foreign(u)
      BY <2>3 DEF Foreign
    <3> HIDE DEF gp, gc
    <3> QED BY <2>4, <2>5, <3>1 DEF BotTypes
  <2>7. CASE t = PredictionFlag
    <3>1. t \in fp.produces /\ t \in fc.consumes
      <4>1. t \in Outside
        BY <2>7 DEF Outside
      <4> HIDE DEF fp, gp, fc, gc
      <4> QED BY <2>4, <2>5, <4>1, PrivateTypesLeave
    <3>2. Feeds(reg, p, c, t)
      BY <1>1, <2>1, <3>1 DEF Feeds
    <3> QED BY <1>1, <1>4, <2>1, <2>4, <3>2, ApartIs
  <2>8. CASE t = "feature-vector" \/ t = "exit-plan"
    <3>f. \A side \in DOMAIN Bot : t # OwnFlag(side)
      BY <2>8, NamesApart DEF OwnFlag, SideWords, WrittenOut
    <3> HIDE DEF fp, gp, fc, gc
    <3>1. /\ \E t0 : t = Private(s, t0)
          /\ t = OwnFlag(u) \/ \E t0 : t = Private(u, t0)
      BY <2>4, <2>5 DEF Privatised
    <3> QED BY <2>3, <2>8, <3>f, <3>1, PrivateIs
  <2> QED BY <2>6, <2>7, <2>8
<1> QED BY <1>3, <1>4

\* The parts the later edits set up: the gate, the enforcer, the conviction models.
Gate == "trade-capital-bounds-gate"
Enforcer == "structured-output-enforcer"
Models == {Named(s, "conviction-model") : s \in Sides}

\* A conviction model is none of the parts named in the scripts outright.
LEMMA ModelsAre ==
  \A model \in Models : model \notin WrittenOut
BY NamesApart DEF Models

\* What the rows of the scripts read, and where they stand.
LEMMA RowsAre ==
  /\ RowsRead(ThinkingRows, "sized-order", Gate)
  /\ RowsRead(CapitalRows, "sized-order", Gate) /\ RowsRead(CapitalRows, "llm-response", Enforcer)
  /\ RowsRead(HarvestRows, "llm-response", Enforcer)
  /\ \A row \in ThinkingRows \cup ClosedTradeRows \cup CapitalRows : row.category \notin BotBlocks
  /\ \A row \in HarvestRows \cup ThinkingRows \cup ClosedTradeRows \cup CapitalRows : KeepsToItself(row)
  /\ Models \subseteq Ids(HarvestRows) /\ {Gate, Enforcer} \subseteq Ids(CapitalRows)
  /\ Models \cap (Ids(ClosedTradeRows) \cup Ids(CapitalRows)) = {}
  /\ (Models \cup {Gate, Enforcer}) \cap RETIRED = {}
<1>1. \A a, b, c, d : LET row == Row(a, b, c, d)
                      IN  /\ row.id = a /\ row.category = b /\ row.consumes = c
                          /\ row.produces = d \cup {Health}
  BY DEF Row
<1>2. BotBlocks = {"bull-bot", "bear-bot", "profit-tailgating-bot"}
  BY DEF BotBlocks, Bot
<1>3. \A row \in ThinkingRows :
         /\ row.category \in {"learning-loop", "intelligence", "ai-brain"}
         /\ "sized-order" \notin row.consumes /\ row.id # Gate
  BY <1>1 DEF ThinkingRows, Gate
<1>4. \A row \in ClosedTradeRows :
         row.category = "closed-trade-decoding"
         /\ row.id \in {"exit-counterfactual-replayer", "shortfall-decomposer", "trade-narrative-writer"}
  BY <1>1 DEF ClosedTradeRows
<1>5. \A row \in CapitalRows :
         /\ row.category \in {"risk-capital-allocation", "llm-foundation"}
         /\ row.id \in {Gate, Enforcer}
         /\ "sized-order" \in row.consumes <=> row.id = Gate
         /\ "llm-response" \in row.consumes <=> row.id = Enforcer
  BY <1>1 DEF CapitalRows, Gate, Enforcer
<1>6. \A row \in ThinkingRows \cup ClosedTradeRows \cup CapitalRows : row.category \notin BotBlocks
  BY <1>2, <1>3, <1>4, <1>5
<1>7. ASSUME NEW row \in HarvestRows
      PROVE  /\ "llm-response" \notin row.consumes /\ row.id # Enforcer /\ KeepsToItself(row)
  <2>1. /\ "llm-response" \notin row.consumes /\ row.id # Enforcer
        /\ row.consumes \subseteq {"sized-order", "feature-vector", PredictionFlag}
        /\ row.produces \subseteq {"exit-plan", "feature-vector", PredictionFlag, Health}
    <3>1. Enforcer \in WrittenOut
      BY DEF Enforcer, WrittenOut
    <3> QED BY <1>1, <3>1, NamesApart DEF HarvestRows, Sides, SideWords, Enforcer, PredictionFlag
  <2>2. \A side \in DOMAIN Bot : row.produces \subseteq BotTypes(side)
    BY <2>1 DEF BotTypes
  <2>3. \A side \in DOMAIN Bot : row.consumes \cap Foreign(side) = {}
    BY <2>1, NamesApart DEF Foreign, WrittenOut
  <2> QED BY <2>1, <2>2, <2>3 DEF KeepsToItself
<1>8. \A row \in ThinkingRows \cup ClosedTradeRows \cup CapitalRows : KeepsToItself(row)
  BY <1>6 DEF KeepsToItself, BotBlocks
<1>9. Models \subseteq Ids(HarvestRows)
  <2>1. ASSUME NEW s \in Sides PROVE Named(s, "conviction-model") \in Ids(HarvestRows)
    <3> DEFINE row == Row(Named(s, "conviction-model"), Bot[s], {"feature-vector", PredictionFlag}, {})
    <3>1. row \in HarvestRows
      BY DEF HarvestRows
    <3>2. row.id = Named(s, "conviction-model")
      BY <1>1
    <3> HIDE DEF row
    <3> QED BY <3>1, <3>2 DEF Ids
  <2> QED BY <2>1 DEF Models
<1>10. {Gate, Enforcer} \subseteq Ids(CapitalRows)
  BY <1>1 DEF Ids, CapitalRows, Gate, Enforcer
<1>11. Models \cap (Ids(ClosedTradeRows) \cup Ids(CapitalRows)) = {}
  BY <1>4, <1>5, ModelsAre DEF Ids, WrittenOut, Gate, Enforcer
<1>12. (Models \cup {Gate, Enforcer}) \cap RETIRED = {}
  BY ModelsAre DEF RETIRED, WrittenOut, Gate, Enforcer
<1> QED BY <1>3, <1>5, <1>6, <1>7, <1>8, <1>9, <1>10, <1>11, <1>12 DEF RowsRead

----------------------------------------------------------------------------
(* What every script keeps: the parts in place, the bots to themselves.    *)

\* The gate, the enforcer and the conviction models are there.
Standing(reg) == Models \cup {Gate, Enforcer} \subseteq Parts(reg)

\* The edit each script makes, and the scripts there are.
LEMMA EditedByIs ==
  ASSUME NEW reg
  PROVE  /\ EditedBy(Scripts[1], reg) = HarvestAndThreeBots(reg)
         /\ EditedBy(Scripts[2], reg) = ThinkingBlocksAndFeed(reg)
         /\ EditedBy(Scripts[3], reg) = ClosedTradeDecoding(reg)
         /\ EditedBy(Scripts[4], reg) = SidePrivateTypes(reg)
         /\ EditedBy(Scripts[5], reg) = CapitalDeskAndLlmFoundation(reg)
         /\ EditedBy(Scripts[6], reg) = PartDeclarations(reg)
         /\ EditedBy(Scripts[7], reg) = CorrectLiveDecisionParts(reg)
         /\ Names = {Scripts[1], Scripts[2], Scripts[3], Scripts[4], Scripts[5], Scripts[6], Scripts[7]}
<1>1. DOMAIN Scripts = {1, 2, 3, 4, 5, 6, 7}
  BY DEF Scripts
<1>2. Names = {Scripts[1], Scripts[2], Scripts[3], Scripts[4], Scripts[5], Scripts[6], Scripts[7]}
  BY <1>1 DEF Names
<1> QED BY <1>2 DEF EditedBy, Scripts

\* The types the scripts have read are no bot's private types, and but for the exit
\* plan none that a bot writes.
LEMMA TypesAdded ==
  ASSUME NEW more \in {{}, {"exit-plan"}, {"training-label"}, {"exit-counterfactual"},
                       {"bounded-order", "validated-llm-output"}},
         NEW side \in DOMAIN Bot
  PROVE  /\ more \cap Foreign(side) = {}
         /\ more # {"exit-plan"} => more \cap BotTypes(side) = {}
<1>1. \A t \in more : t \in WrittenOut
  BY DEF WrittenOut
<1>2. more \cap Foreign(side) = {}
  BY <1>1, NamesApart DEF Foreign
<1>3. \A word \in BotWords : Named(side, word) \notin more
  BY <1>1, NamesApart
<1>4. more # {"exit-plan"} =>
        more \cap {Health, PredictionFlag, "feature-vector", "exit-plan"} = {}
  BY DEF Health, PredictionFlag
<1> QED BY <1>2, <1>3, <1>4 DEF BotTypes

\* Every script keeps the bots to themselves ...
LEMMA EditKeepsBots ==
  ASSUME NEW reg, NEW script \in Names, NEW new, new = EditedBy(script, reg), Whole(reg),
         BotsKeepToThemselves(reg)
  PROVE  BotsKeepToThemselves(new)
<1>1. /\ \A row \in HarvestRows : KeepsToItself(row)
      /\ \A row \in ThinkingRows : KeepsToItself(row)
      /\ \A row \in ClosedTradeRows : KeepsToItself(row)
      /\ \A row \in CapitalRows : KeepsToItself(row)
  BY RowsAre
<1>2. CASE new = HarvestAndThreeBots(reg)
  BY <1>1, <1>2, HarvestMakes, TypesAdded, BotsStayPrivate
<1>3. CASE new = ThinkingBlocksAndFeed(reg)
  BY <1>1, <1>3, ThinkingMakes, TypesAdded, BotsStayPrivate
<1>4. CASE new = ClosedTradeDecoding(reg)
  BY <1>1, <1>4, ClosedTradeMakes, TypesAdded, BotsStayPrivate
<1>5. CASE new = SidePrivateTypes(reg)
  BY <1>5, SidePrivateBots
<1>6. CASE new = CapitalDeskAndLlmFoundation(reg)
  BY <1>1, <1>6, CapitalMakes, TypesAdded, BotsStayPrivate
<1>7. CASE new \in {PartDeclarations(reg), CorrectLiveDecisionParts(reg)}
  <2>1. MadeOf(reg, new, {}, {}, {}, {})
    BY <1>7, FactEditsMake
  <2> QED BY <2>1, TypesAdded, BotsStayPrivate
<1> QED BY <1>2, <1>3, <1>4, <1>5, <1>6, <1>7, EditedByIs

\* ... and the gate, the enforcer and the models where they were.
LEMMA EditKeepsStanding ==
  ASSUME NEW reg, NEW script \in Names, NEW new, new = EditedBy(script, reg), Whole(reg)
  PROVE  \A p \in Models \cup {Gate, Enforcer} : p \in Parts(reg) => p \in Parts(new)
<1>1. Parts(reg) \ LostTo(script) \subseteq Parts(new)
  BY EditKeeps DEF Keeps, Names
<1>2. LostTo(script) \subseteq RETIRED
  BY DEF LostTo
<1> QED BY <1>1, <1>2, RowsAre

----------------------------------------------------------------------------
(* Which script leaves which of the later edits standing.                  *)

\* The bounds gate stays the one reader of sized orders under every script but the
\* first and the third, which write a reader of sized orders again.
LEMMA GateEdits ==
  ASSUME NEW reg, NEW script \in Names \ {Scripts[1], Scripts[3]}, NEW new, new = EditedBy(script, reg),
         Whole(reg), Gate \in Parts(new), BoundsGateHolds(reg)
  PROVE  BoundsGateHolds(new)
<1>1. ReadersOf(reg, "sized-order") = {Gate}
  BY DEF BoundsGateHolds, Gate
<1> DEFINE none == {}
           more == {"training-label"}
<1>n. /\ <<Gate, "sized-order">> \notin none /\ "sized-order" \notin none /\ "sized-order" \notin more
      /\ RowsRead(none, "sized-order", Gate)
  BY DEF RowsRead
<1>h. new = ThinkingBlocksAndFeed(reg) => MadeOf(reg, new, ThinkingRows, {}, more, none)
  BY ThinkingMakes
<1>f. new \in {PartDeclarations(reg), CorrectLiveDecisionParts(reg)} =>
        MadeOf(reg, new, none, none, none, none)
  BY FactEditsMake
<1> HIDE DEF none, more
<1>q. ReadersOf(new, "sized-order") = {Gate} => BoundsGateHolds(new)
  BY DEF BoundsGateHolds, Gate
<1>2. CASE new = ThinkingBlocksAndFeed(reg)
  BY <1>1, <1>2, <1>h, <1>n, <1>q, RowsAre, OnlyReaderStays
<1>3. CASE new = SidePrivateTypes(reg)
  BY <1>1, <1>3, SidePrivateReads DEF Outside, BoundsGateHolds, Gate
<1>4. CASE new = CapitalDeskAndLlmFoundation(reg)
  <2>1. <<Gate, "sized-order">> \notin Repointed
    BY DEF Repointed, BoundedReaders, ValidatedReaders, Gate
  <2> QED BY <1>1, <1>4, <2>1, CapitalMakes, RowsAre, OnlyReaderStays DEF BoundsGateHolds, Gate
<1>5. CASE new \in {PartDeclarations(reg), CorrectLiveDecisionParts(reg)}
  BY <1>1, <1>5, <1>f, <1>n, <1>q, OnlyReaderStays
<1> QED BY <1>2, <1>3, <1>4, <1>5, EditedByIs

\* The enforcer stays the one reader of raw answers under every script but the
\* second and the third.
LEMMA EnforcerEdits ==
  ASSUME NEW reg, NEW script \in Names \ {Scripts[2], Scripts[3]}, NEW new, new = EditedBy(script, reg),
         Whole(reg), Enforcer \in Parts(new), OnlyValidatedIsRead(reg)
  PROVE  OnlyValidatedIsRead(new)
<1>1. ReadersOf(reg, "llm-response") = {Enforcer}
  BY DEF OnlyValidatedIsRead, Enforcer
<1> DEFINE none == {}
           more == {"exit-plan"}
<1>n. /\ <<Enforcer, "llm-response">> \notin none /\ "llm-response" \notin none /\ "llm-response" \notin more
      /\ RowsRead(none, "llm-response", Enforcer)
  BY DEF RowsRead
<1>h. new = HarvestAndThreeBots(reg) => MadeOf(reg, new, HarvestRows, RETIRED, more, none)
  BY HarvestMakes
<1>f. new \in {PartDeclarations(reg), CorrectLiveDecisionParts(reg)} =>
        MadeOf(reg, new, none, none, none, none)
  BY FactEditsMake
<1> HIDE DEF none, more
<1>q. ReadersOf(new, "llm-response") = {Enforcer} => OnlyValidatedIsRead(new)
  BY DEF OnlyValidatedIsRead, Enforcer
<1>2. CASE new = HarvestAndThreeBots(reg)
  BY <1>1, <1>2, <1>h, <1>n, <1>q, RowsAre, OnlyReaderStays
<1>3. CASE new = SidePrivateTypes(reg)
  BY <1>1, <1>3, SidePrivateReads DEF Outside, OnlyValidatedIsRead, Enforcer
<1>4. CASE new = CapitalDeskAndLlmFoundation(reg)
  <2>1. <<Enforcer, "llm-response">> \notin Repointed
    BY DEF Repointed, BoundedReaders, ValidatedReaders, Enforcer
  <2> QED BY <1>1, <1>4, <2>1, CapitalMakes, RowsAre, OnlyReaderStays DEF OnlyValidatedIsRead, Enforcer
<1>5. CASE new \in {PartDeclarations(reg), CorrectLiveDecisionParts(reg)}
  BY <1>1, <1>5, <1>f, <1>n, <1>q, OnlyReaderStays
<1> QED BY <1>2, <1>3, <1>4, <1>5, EditedByIs

\* The labels go on reaching the conviction models under every script but the first,
\* which alone writes the models again.
LEMMA LabelEdits ==
  ASSUME NEW reg, NEW script \in Names \ {Scripts[1]}, NEW new, new = EditedBy(script, reg),
         Whole(reg), Models \subseteq Parts(new), LabelsReachTheBots(reg)
  PROVE  LabelsReachTheBots(new)
<1>1. Models \subseteq ReadersOf(reg, "training-label")
  BY DEF LabelsReachTheBots, Models
<1> SUFFICES ASSUME NEW model \in Models PROVE model \in ReadersOf(new, "training-label")
  BY DEF LabelsReachTheBots, Models
<1>2. \A p : <<p, "training-label">> \notin Repointed
  BY DEF Repointed
<1>3. CASE new = ThinkingBlocksAndFeed(reg)
  BY <1>3, ThinkingMakes DEF Models, ReadersOf
<1>4. CASE new = ClosedTradeDecoding(reg)
  BY <1>1, <1>4, ClosedTradeMakes, RowsAre, ReaderStays
<1>5. CASE new = SidePrivateTypes(reg)
  BY <1>1, <1>5, SidePrivateReads DEF Outside
<1>6. CASE new = CapitalDeskAndLlmFoundation(reg)
  BY <1>1, <1>2, <1>6, CapitalMakes, RowsAre, ReaderStays
<1>7. CASE new \in {PartDeclarations(reg), CorrectLiveDecisionParts(reg)}
  <2>1. MadeOf(reg, new, {}, {}, {}, {})
    BY <1>7, FactEditsMake
  <2>2. Ids({}) = {}
    BY DEF Ids
  <2> QED BY <1>1, <2>1, <2>2, ReaderStays
<1> QED BY <1>3, <1>4, <1>5, <1>6, <1>7, EditedByIs

\* Bots that are apart stay apart under every script but the first.
LEMMA ApartEdits ==
  ASSUME NEW reg, NEW script \in Names \ {Scripts[1]}, NEW new, new = EditedBy(script, reg),
         Whole(reg), BotsKeepToThemselves(reg), BotsApart(reg)
  PROVE  BotsApart(new)
<1>1. /\ \A row \in ThinkingRows : row.category \notin BotBlocks
      /\ \A row \in ClosedTradeRows : row.category \notin BotBlocks
      /\ \A row \in CapitalRows : row.category \notin BotBlocks
  BY RowsAre
<1>2. ASSUME NEW more \in {{}, {"training-label"}, {"exit-counterfactual"},
                           {"bounded-order", "validated-llm-output"}}
      PROVE  \A side \in DOMAIN Bot : more \cap BotTypes(side) = {}
  <2>1. more # {"exit-plan"}
    OBVIOUS
  <2> QED BY <2>1, TypesAdded
<1>3. CASE new = ThinkingBlocksAndFeed(reg)
  BY <1>1, <1>2, <1>3, ThinkingMakes, BotsStayApart
<1>4. CASE new = ClosedTradeDecoding(reg)
  BY <1>1, <1>2, <1>4, ClosedTradeMakes, BotsStayApart
<1>5. CASE new = SidePrivateTypes(reg)
  BY <1>5, SidePrivateBots
<1>6. CASE new = CapitalDeskAndLlmFoundation(reg)
  BY <1>1, <1>2, <1>6, CapitalMakes, BotsStayApart
<1>7. CASE new \in {PartDeclarations(reg), CorrectLiveDecisionParts(reg)}
  <2>1. MadeOf(reg, new, {}, {}, {}, {})
    BY <1>7, FactEditsMake
  <2> QED BY <1>2, <2>1, BotsStayApart
<1> QED BY <1>3, <1>4, <1>5, <1>6, <1>7, EditedByIs

\* The parts there were before the scripts are those of the base rows.
LEMMA BasePartsAre ==
  ASSUME NEW p \in Parts(BaseBlueprint)
  PROVE  \E row \in BaseRows : BaseBlueprint.features[p].category = row.category
<1> DEFINE rows == BaseRows \cup ThinkingRows \cup ClosedTradeRows
           rowOf(id) == CHOOSE row \in BaseRows : row.id = id
<1>1. PICK reg : BaseBlueprint = AddParts(reg, BaseRows) /\ reg.features = Nothing
                 /\ "features" \in DOMAIN reg
  <2> DEFINE blocks == AddBlocks(EmptyRegistry, {row.category : row \in rows}
                         \cup {"paper-live-trading", "prediction", "segment-bot"}, "per-segment")
             placed == [c \in Blocks(blocks) |->
                          [blocks.categories[c] EXCEPT
                             !.origin = IF c \in {"learning-loop", "intelligence", "ai-brain", "backtesting"}
                                        THEN "proposed" ELSE @,
                             !.scope = IF c \in {"resource-governor", "intelligence"} THEN "global" ELSE @,
                             !.parent = IF c = "ai-brain" THEN "segment-bot" ELSE @]]
             drawn == [blocks EXCEPT !.categories = placed]
             types == AddTypes(drawn, {Health, "sized-order", "llm-response", "journal-entry"})
  <2>1. BaseBlueprint = AddParts(types, BaseRows)
    BY DEF BaseBlueprint
  <2>2. blocks.features = Nothing /\ DOMAIN blocks = {"features", "types", "categories"}
    BY DEF AddBlocks, EmptyRegistry
  <2> HIDE DEF blocks, placed
  <2>3. drawn.features = Nothing /\ DOMAIN drawn = {"features", "types", "categories"}
    BY <2>2
  <2> HIDE DEF drawn
  <2>4. types.features = Nothing /\ DOMAIN types = {"features", "types", "categories"}
    BY <2>3 DEF AddTypes
  <2> HIDE DEF types
  <2> QED BY <2>1, <2>4
<1>2. Parts(reg) = {}
  BY <1>1 DEF Parts, Nothing
<1>3. BaseBlueprint.features = [q \in Ids(BaseRows) \cup Parts(reg) |->
         IF q \in Ids(BaseRows) THEN UpdatedFrom(reg, rowOf(q)) ELSE reg.features[q]]
  BY <1>1 DEF AddParts, Ids
<1>4. p \in Ids(BaseRows) /\ BaseBlueprint.features[p] = UpdatedFrom(reg, rowOf(p))
  BY <1>2, <1>3 DEF Parts
<1>5. rowOf(p) \in BaseRows /\ rowOf(p).id = p
  BY <1>4 DEF Ids
<1> HIDE DEF rowOf
<1>6. BaseBlueprint.features[p].category = rowOf(p).category
  BY <1>4 DEF UpdatedFrom, FromRow
<1> QED BY <1>5, <1>6

\* The registry shipped has the parts in place and its bots keep to themselves.
LEMMA ShippedStands == Standing(ShippedBlueprint) /\ BotsKeepToThemselves(ShippedBlueprint)
<1> DEFINE r0 == AfterScripts[0]
           r1 == AfterScripts[1]
           r2 == AfterScripts[2]
           r3 == AfterScripts[3]
           r4 == AfterScripts[4]
           r5 == AfterScripts[5]
           r6 == AfterScripts[6]
           r7 == AfterScripts[7]
<1>1. /\ r0 = BaseBlueprint /\ r1 = EditedBy(Scripts[1], r0) /\ r2 = EditedBy(Scripts[2], r1)
      /\ r3 = EditedBy(Scripts[3], r2) /\ r4 = EditedBy(Scripts[4], r3)
      /\ r5 = EditedBy(Scripts[5], r4) /\ r6 = EditedBy(Scripts[6], r5)
      /\ r7 = EditedBy(Scripts[7], r6)
  BY AfterScriptsUnfolds
<1>2. ShippedBlueprint = r7
  BY DEF ShippedBlueprint, Scripts
<1> HIDE DEF r0, r1, r2, r3, r4, r5, r6, r7
<1>3. \A i \in 1 .. 7 : Scripts[i] \in Names
  BY EditedByIs
<1>4. \A reg, new : \A script \in Names :
        Whole(reg) /\ BotsKeepToThemselves(reg) /\ new = EditedBy(script, reg) =>
          /\ Whole(new) /\ BotsKeepToThemselves(new)
          /\ \A p \in Models \cup {Gate, Enforcer} : p \in Parts(reg) => p \in Parts(new)
  <2> TAKE reg, new
  <2> TAKE script \in Names
  <2> HAVE Whole(reg) /\ BotsKeepToThemselves(reg) /\ new = EditedBy(script, reg)
  <2>1. Whole(new)
    BY EditKeeps DEF Keeps, Names
  <2> QED BY <2>1, EditKeepsBots, EditKeepsStanding
<1>5. Whole(r0) /\ BotsKeepToThemselves(r0)
  <2>1. \A row \in BaseRows : row.category \notin BotBlocks
    BY DEF BaseRows, Row, BotBlocks, Bot
  <2>2. \A p \in Parts(r0) : \E row \in BaseRows : r0.features[p].category = row.category
    BY <1>1, BasePartsAre
  <2>3. \A p \in Parts(r0) : r0.features[p].category \notin BotBlocks
    BY <2>1, <2>2
  <2> QED BY <1>1, <2>3, BaseIsWhole DEF BotsKeepToThemselves, KeepsToItself, BotBlocks
<1>6. Whole(r1) /\ BotsKeepToThemselves(r1)
  BY <1>1, <1>3, <1>4, <1>5
<1>7. Models \subseteq Parts(r1)
  <2>1. MadeOf(r0, r1, HarvestRows, RETIRED, {"exit-plan"}, {})
    BY <1>1, <1>5, EditedByIs, HarvestMakes
  <2> QED BY <2>1, RowsAre DEF MadeOf
<1>8. /\ Whole(r4) /\ BotsKeepToThemselves(r4) /\ Models \subseteq Parts(r4)
  <2>1. /\ Whole(r2) /\ BotsKeepToThemselves(r2) /\ Models \subseteq Parts(r2)
    BY <1>1, <1>3, <1>4, <1>6, <1>7
  <2>2. /\ Whole(r3) /\ BotsKeepToThemselves(r3) /\ Models \subseteq Parts(r3)
    BY <1>1, <1>3, <1>4, <2>1
  <2> QED BY <1>1, <1>3, <1>4, <2>2
<1>9. Whole(r5) /\ BotsKeepToThemselves(r5) /\ Standing(r5)
  <2>1. MadeOf(r4, r5, CapitalRows, {}, {"bounded-order", "validated-llm-output"}, Repointed)
    BY <1>1, <1>8, EditedByIs, CapitalMakes
  <2>2. {Gate, Enforcer} \subseteq Parts(r5)
    BY <2>1, RowsAre DEF MadeOf
  <2> QED BY <1>1, <1>3, <1>4, <1>8, <2>2 DEF Standing
<1>10. Whole(r6) /\ BotsKeepToThemselves(r6) /\ Standing(r6)
  BY <1>1, <1>3, <1>4, <1>9 DEF Standing
<1>11. BotsKeepToThemselves(r7) /\ Standing(r7)
  BY <1>1, <1>3, <1>4, <1>10 DEF Standing
<1> QED BY <1>2, <1>11

----------------------------------------------------------------------------
(* The later edits stand.                                                  *)

\* What the invariant adds of a registry to its being sound.
Stands(reg) == Standing(reg) /\ BotsKeepToThemselves(reg)

\* A registry with parts added and none changed.
Grown(old, new) ==
  Parts(old) \subseteq Parts(new) /\ \A p \in Parts(old) : new.features[p] = old.features[p]

\* The invariant: every file not cut off has the parts in place and its bots keep
\* to themselves; what a script under way read has only grown since, until it opened
\* the file.
EditsInv ==
  /\ \A reg \in {disk, index, head} : reg = Torn \/ Stands(reg)
  /\ edit.at = "editing" => Stands(edit.read) /\ disk # Torn /\ Grown(edit.read, disk)
  /\ edit.at = "writing" => Stands(edit.read) /\ Grown(edit.read, edit.over)

\* The hypothesis: what a hand saves into a bot's block keeps to that bot.  A part
\* of one bot that wrote the training label would be wired to the other bot's model
\* the next time the second script is run.
HandsKeepApart == \A part \in DOMAIN HandParts : KeepsToItself(HandParts[part])

LEMMA EditsInvInit == DeskInit => EditsInv
  BY ShippedStands DEF DeskInit, EditsInv, Stands, NoScript

\* A save by hand adds a part and changes none.
LEMMA SaveGrows ==
  ASSUME NEW part \in DOMAIN HandParts, NEW reg, Sound(reg), part \notin Parts(reg), NEW new,
         new = [reg EXCEPT !.features = [p \in DOMAIN @ \cup {part} |->
                                           IF p = part THEN HandParts[part] ELSE @[p]]]
  PROVE  /\ Grown(reg, new)
         /\ HandsKeepApart /\ Stands(reg) => Stands(new)
<1>1. new.features = [p \in Parts(reg) \cup {part} |->
                        IF p = part THEN HandParts[part] ELSE reg.features[p]]
  BY DEF Sound, Whole, Parts
<1>2. /\ Parts(new) = Parts(reg) \cup {part} /\ new.features[part] = HandParts[part]
      /\ \A p \in Parts(reg) : new.features[p] = reg.features[p]
  BY <1>1 DEF Parts
<1> QED BY <1>2 DEF Grown, Stands, Standing, BotsKeepToThemselves, HandsKeepApart

LEMMA EditsInvStep ==
  ASSUME HandsKeepApart
  PROVE  WriterInv /\ EditsInv /\ [DeskNext]_deskVars => EditsInv'
<1> SUFFICES ASSUME WriterInv, EditsInv, [DeskNext]_deskVars PROVE EditsInv'
  OBVIOUS
<1> USE DEF EditsInv
<1>1. ASSUME NEW script \in Names, BeginScript(script), UNCHANGED <<index, head>> PROVE EditsInv'
  <2>1. Grown(disk, disk)
    BY DEF Grown
  <2> QED BY <1>1, <2>1 DEF BeginScript
<1>2. ASSUME OpenForWriting, UNCHANGED <<index, head>> PROVE EditsInv'
  BY <1>2 DEF OpenForWriting
<1>3. ASSUME FinishWriting, UNCHANGED <<index, head>> PROVE EditsInv'
  <2>1. Stands(edit.read) /\ Whole(edit.read) /\ edit.script \in Names
    BY <1>3 DEF FinishWriting, WriterInv, NoScript, Sound
  <2>2. Stands(EditedBy(edit.script, edit.read))
    BY <2>1, EditKeepsBots, EditKeepsStanding DEF Stands, Standing
  <2> QED BY <1>3, <2>2 DEF FinishWriting, NoScript
<1>4. ASSUME KillScript, UNCHANGED <<index, head>> PROVE EditsInv'
  BY <1>4 DEF KillScript, NoScript
<1>5. ASSUME NEW part \in DOMAIN HandParts, SaveByHand(part), UNCHANGED <<index, head>>
      PROVE  EditsInv'
  <2>1. Sound(disk) /\ Stands(disk)
    BY <1>5 DEF SaveByHand, WriterInv, Kept
  <2>2. Grown(disk, disk') /\ Stands(disk') /\ Sound(disk')
    BY <1>5, <2>1, SaveGrows, SaveKeepsSound DEF SaveByHand
  <2>3. disk' # Torn
    BY <2>2, TornIsNoRegistry
  <2>4. ASSUME edit.at = "editing" PROVE Grown(edit.read, disk')
    BY <2>2, <2>4 DEF Grown
  <2> QED BY <1>5, <2>2, <2>3, <2>4 DEF SaveByHand
<1>6. CASE Write
  BY <1>1, <1>2, <1>3, <1>4, <1>5, <1>6 DEF Write, Names
<1>7. CASE Stage
  BY <1>7 DEF Stage, writerVars
<1>8. CASE Commit
  BY <1>8 DEF Commit, writerVars
<1>9. CASE CheckOut
  BY <1>9 DEF CheckOut, NoScript
<1>10. CASE Look \/ UNCHANGED deskVars
  BY <1>10 DEF Look, writerVars, deskVars
<1> QED BY <1>6, <1>7, <1>8, <1>9, <1>10 DEF DeskNext

\* What an edit established and holds in the grown registry held before it grew.
LEMMA HeldBefore ==
  ASSUME NEW old, NEW new, Standing(old), Grown(old, new)
  PROVE  /\ BoundsGateHolds(new) => BoundsGateHolds(old)
         /\ OnlyValidatedIsRead(new) => OnlyValidatedIsRead(old)
         /\ LabelsReachTheBots(new) => LabelsReachTheBots(old)
         /\ BotsApart(new) => BotsApart(old)
<1>1. \A type : ReadersOf(old, type) = ReadersOf(new, type) \cap Parts(old)
  BY DEF ReadersOf, Grown
<1>2. Gate \in Parts(old) /\ Enforcer \in Parts(old) /\ Models \subseteq Parts(old)
  BY DEF Standing
<1>3. ASSUME BoundsGateHolds(new) PROVE BoundsGateHolds(old)
  BY <1>1, <1>2, <1>3 DEF BoundsGateHolds, Gate
<1>4. ASSUME OnlyValidatedIsRead(new) PROVE OnlyValidatedIsRead(old)
  BY <1>1, <1>2, <1>4 DEF OnlyValidatedIsRead, Enforcer
<1>5. ASSUME LabelsReachTheBots(new) PROVE LabelsReachTheBots(old)
  BY <1>1, <1>2, <1>5 DEF LabelsReachTheBots, Models
<1>6. ASSUME BotsApart(new) PROVE BotsApart(old)
  <2>1. \A p, c, t : Feeds(old, p, c, t) => Feeds(new, p, c, t)
    BY DEF Feeds, Grown
  <2>2. \A p \in Parts(old) : p \in Parts(new) /\ new.features[p] = old.features[p]
    BY DEF Grown
  <2>3. \A p, c \in Parts(new) : \A t : Feeds(new, p, c, t)
               /\ new.features[p].category \in BotBlocks /\ new.features[c].category \in BotBlocks
             => new.features[p].category = new.features[c].category
    BY <1>6, ApartIs
  <2>4. \A p, c \in Parts(old) : \A t : Feeds(old, p, c, t)
               /\ old.features[p].category \in BotBlocks /\ old.features[c].category \in BotBlocks
             => old.features[p].category = old.features[c].category
    BY <2>1, <2>2, <2>3
  <2> QED BY <2>4, ApartIs
<1> QED BY <1>3, <1>4, <1>5, <1>6

\* In a sound registry the facts are corrected.
LEMMA CorrectedIs == \A reg : Sound(reg) => FactsCorrected(reg)
  BY DEF Sound, CorrectionsHold, FactsCorrected, MayEnterRateLadder

\* For any naming, any number of changes and any parts saved by hand that keep to
\* their bot: a script run again (dashboard/blueprint_edits, each said to change
\* nothing when run twice) undoes what a later one established only if it owns a row
\* that edit amended.
THEOREM LaterEditsStand ==
  ASSUME HandsKeepApart
  PROVE  DeskSpec => LaterEditUndoneOnlyByItsRow
<1> DEFINE Stand == /\ Undone(BoundsGateHolds) => By({1, 3})
                    /\ Undone(OnlyValidatedIsRead) => By({2, 3})
                    /\ Undone(LabelsReachTheBots) => By({1})
                    /\ Undone(BotsApart) => By({1})
                    /\ ~Undone(FactsCorrected)
<1>1. WriterInv /\ EditsInv /\ [DeskNext]_deskVars => [Stand]_deskVars
  <2> SUFFICES ASSUME WriterInv, EditsInv, DeskNext, Finishes PROVE Stand
    BY DEF Undone
  <2>1. edit.at = "writing" /\ disk = Torn /\ disk' # Torn /\ edit # NoScript
    BY DEF Finishes, WriterInv, NoScript
  <2>2. FinishWriting
    BY <2>1 DEF DeskNext, Write, BeginScript, OpenForWriting, KillScript, SaveByHand, Stage, Commit,
                CheckOut, Look, writerVars
  <2>3. PICK reg, script, new, over :
          /\ reg = edit.read /\ script = edit.script /\ new = disk' /\ over = edit.over
    OBVIOUS
  <2>4. /\ Sound(reg) /\ Whole(reg) /\ script \in Names /\ new = EditedBy(script, reg)
        /\ Stands(reg) /\ Grown(reg, over)
    BY <2>1, <2>2, <2>3 DEF WriterInv, EditsInv, FinishWriting, Sound
  <2>5. Standing(new) /\ Sound(new)
    BY <2>4, EditKeepsStanding, EditKeepsSound DEF Stands, Standing, Names
  <2>6. Gate \in Parts(new) /\ Enforcer \in Parts(new) /\ Models \subseteq Parts(new)
    BY <2>5 DEF Standing
  <2>8. /\ By({1, 3}) <=> script \in {Scripts[1], Scripts[3]}
        /\ By({2, 3}) <=> script \in {Scripts[2], Scripts[3]}
        /\ By({1}) <=> script \in {Scripts[1]}
    BY <2>3 DEF By
  <2>9. /\ BoundsGateHolds(over) => BoundsGateHolds(reg)
        /\ OnlyValidatedIsRead(over) => OnlyValidatedIsRead(reg)
        /\ LabelsReachTheBots(over) => LabelsReachTheBots(reg)
        /\ BotsApart(over) => BotsApart(reg)
    BY <2>4, HeldBefore DEF Stands
  <2>10. BoundsGateHolds(over) /\ ~By({1, 3}) => BoundsGateHolds(new)
    BY <2>4, <2>6, <2>8, <2>9, GateEdits
  <2>11. OnlyValidatedIsRead(over) /\ ~By({2, 3}) => OnlyValidatedIsRead(new)
    BY <2>4, <2>6, <2>8, <2>9, EnforcerEdits
  <2>12. LabelsReachTheBots(over) /\ ~By({1}) => LabelsReachTheBots(new)
    BY <2>4, <2>6, <2>8, <2>9, LabelEdits
  <2>13. BotsApart(over) /\ ~By({1}) => BotsApart(new)
    BY <2>4, <2>8, <2>9, ApartEdits DEF Stands
  <2>14. FactsCorrected(new)
    BY <2>5, CorrectedIs
  <2> QED BY <2>3, <2>10, <2>11, <2>12, <2>13, <2>14 DEF Undone
<1>2. DeskSpec => [](WriterInv /\ EditsInv)
  BY WriterInvInit, WriterInvStep, EditsInvInit, EditsInvStep, PTL DEF DeskSpec
<1> QED BY <1>1, <1>2, PTL DEF DeskSpec, LaterEditUndoneOnlyByItsRow
=============================================================================
