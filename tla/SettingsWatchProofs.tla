------------------------- MODULE SettingsWatchProofs -------------------------
(***************************************************************************)
(* Theorems about SettingsWatch, for every directory size, every set of    *)
(* contents and any number of edits.                                       *)
(***************************************************************************)
EXTENDS SettingsWatchProperties, TLAPS

-----------------------------------------------------------------------------
(* Documents and the changes between them, for any contents.               *)

(* Every document, the empty stand-in included, is a function from some of *)
(* the fields to values (load_settings_document, settings_reader 97-132).  *)
LEMMA DocumentShape ==
  ASSUME NEW d \in Documents
  PROVE  /\ DOMAIN d.entries \subseteq Fields
         /\ \A f \in DOMAIN d.entries : d.entries[f] \in Values
<1>1. CASE d = EmptyDocument
  BY <1>1 DEF EmptyDocument
<1>2. CASE \E c \in Contents : Parses(c) /\ d = Document(c)
  <2>1. PICK c \in Contents : Parses(c) /\ d = Document(c)
    BY <1>2
  <2>2. d.entries = [f \in DOMAIN c |-> c[f]["value"]]
    BY <2>1 DEF Document
  <2> QED BY <2>1, <2>2, ContentsAssumption
<1> QED BY <1>1, <1>2 DEF Documents

(* What a listener can know of a document is a value for every field.      *)
LEMMA ReadingType ==
  ASSUME NEW d \in Documents
  PROVE  Reading(d) \in [Fields -> Values]
<1>1. \A f \in Fields : Text(d, f) \in Values
  BY DocumentShape, ContentsAssumption DEF Text
<1> QED BY <1>1 DEF Reading

(* Recording the changes between two parses, from the first one's reading, *)
(* gives the second one's (compare_settings_documents loses nothing).      *)
LEMMA ApplyChanges ==
  ASSUME NEW d \in Documents, NEW e \in Documents
  PROVE  Apply(Reading(d), Changes(d, e)) = Reading(e)
<1> DEFINE D == Changes(d, e)
<1>1. \A c \in D : c.new_value = Text(e, c.field)
  BY DEF Changes
<1>2. ASSUME NEW f \in Fields
      PROVE  Apply(Reading(d), D)[f] = Text(e, f)
  <2>0. Apply(Reading(d), D)[f] = IF \E c \in D : c.field = f
                                  THEN (CHOOSE c \in D : c.field = f).new_value
                                  ELSE Reading(d)[f]
    BY <1>2 DEF Apply
  <2>1. CASE \E c \in D : c.field = f
    <3> DEFINE w == CHOOSE c \in D : c.field = f
    <3>1. w \in D /\ w.field = f
      BY <2>1
    <3>2. w.new_value = Text(e, f)
      BY <3>1, <1>1
    <3> QED BY <2>0, <2>1, <3>2
  <2>2. CASE ~ \E c \in D : c.field = f
    <3> DEFINE c0 == [field |-> f, old_value |-> Text(d, f), new_value |-> Text(e, f)]
    <3>1. Text(d, f) = Text(e, f)
      <4>1. SUFFICES ASSUME Text(d, f) # Text(e, f)
                     PROVE  FALSE
        OBVIOUS
      <4>2. f \in DOMAIN d.entries \cup DOMAIN e.entries
        BY <4>1 DEF Text
      <4>3. c0 \in D
        BY <4>1, <4>2 DEF Changes
      <4> QED BY <2>2, <4>3
    <3>2. Reading(d)[f] = Text(d, f)
      BY DEF Reading
    <3> QED BY <2>0, <2>2, <3>1, <3>2
  <2> QED BY <2>1, <2>2
<1>3. Reading(e) = [f \in Fields |-> Text(e, f)]
  BY DEF Reading
<1>4. Apply(Reading(d), D) = [f \in Fields |-> Apply(Reading(d), D)[f]]
  BY DEF Apply
<1>5. [f \in Fields |-> Apply(Reading(d), D)[f]] = [f \in Fields |-> Text(e, f)]
  BY <1>2
<1> QED BY <1>3, <1>4, <1>5

(* There is something to report exactly when the readings differ.          *)
LEMMA NoChangesSameReading ==
  ASSUME NEW d \in Documents, NEW e \in Documents
  PROVE  Changes(d, e) = {} <=> Reading(d) = Reading(e)
<1> DEFINE moved == {g \in DOMAIN d.entries \cup DOMAIN e.entries : Text(d, g) # Text(e, g)}
<1>1. Changes(d, e) = {} <=> moved = {}
  BY DEF Changes
<1>2. moved = {} <=> \A f \in Fields : Text(d, f) = Text(e, f)
  <2>1. DOMAIN d.entries \cup DOMAIN e.entries \subseteq Fields
    BY DocumentShape
  <2>2. \A f \in Fields : Text(d, f) # Text(e, f) => f \in DOMAIN d.entries \cup DOMAIN e.entries
    BY DEF Text
  <2> QED BY <2>1, <2>2
<1>3. Reading(d) = Reading(e) <=> \A f \in Fields : Text(d, f) = Text(e, f)
  <2>1. \A f \in Fields : Reading(d)[f] = Text(d, f) /\ Reading(e)[f] = Text(e, f)
    BY DEF Reading
  <2>2. /\ Reading(d) = [f \in Fields |-> Text(d, f)]
        /\ Reading(e) = [f \in Fields |-> Text(e, f)]
    BY DEF Reading
  <2> QED BY <2>1, <2>2
<1> QED BY <1>1, <1>2, <1>3

-----------------------------------------------------------------------------
(* The types of what the watcher keeps.                                    *)

(* A content that parses is a content, and its document a document.        *)
LEMMA ParsedDocument ==
  ASSUME NEW c \in Contents \cup {NoFile}, Parses(c)
  PROVE  c \in Contents /\ Document(c) \in Documents
BY DEF Parses, Documents

LEMMA EmptyIsDocument == EmptyDocument \in Documents
BY DEF Documents

LEMMA BaselineType ==
  ASSUME TypeOK, NEW p \in Paths
  PROVE  Baseline(p) \in Documents
BY EmptyIsDocument DEF TypeOK, Baseline

LEMMA HeadTail ==
  ASSUME NEW S, NEW s \in Seq(S), s # <<>>
  PROVE  Head(s) \in S /\ Tail(s) \in Seq(S)
OBVIOUS

LEMMA RangeOfSeq ==
  ASSUME NEW S, NEW s \in Seq(S)
  PROVE  Range(s) \subseteq S
BY DEF Range

LEMMA DedupKeyType ==
  ASSUME TypeOK, NEW p \in Paths
  PROVE  DedupKey(p) \in DedupKeys
BY DEF TypeOK, DedupKey, DedupKeys

-----------------------------------------------------------------------------
(* Every action keeps every variable in its type.                          *)
LEMMA TypeInit == Init => TypeOK
<1> SUFFICES ASSUME Init PROVE TypeOK
  OBVIOUS
<1>1. \A p \in Paths : Parses(file[p]) => Document(file[p]) \in Documents
  BY ParsedDocument DEF Init
<1>2. /\ known \in [Paths -> Documents \cup {NotKnown}]
      /\ lastDelivered \in [Paths -> Documents \cup {NotDelivered}]
  BY <1>1 DEF Init
<1>3. \A p \in Paths : Baseline(p) \in Documents
  BY <1>2, EmptyIsDocument DEF Baseline
<1>4. replica \in [Paths -> [Fields -> Values]]
  BY <1>3, ReadingType DEF Init
<1>5. queue \in Seq(Seq(Paths)) /\ toMark \in Seq(Paths)
  BY DEF Init
<1>6. reports \in [Paths -> 0 .. 3] /\ edits \in 0 .. MaxEdits /\ at \in Paths \cup {NoPath}
  BY WatchAssumption DEF Init
<1>7. /\ reportedDigest \in [Paths -> DedupKeys \cup {NoDedup}]
      /\ told \in [Paths -> SUBSET (Contents \cup {NoFile})]
      /\ sinceStart \subseteq Paths
      /\ missed \in [Paths -> {"no", "dropped", "seen"}]
      /\ undelivered \in [Paths -> {"no", "owed", "alarmed"}]
  BY DEF Init
<1>8. previous \in Documents /\ candidate \in Documents
  BY EmptyIsDocument DEF Init
<1> QED BY <1>2, <1>4, <1>5, <1>6, <1>7, <1>8 DEF Init, TypeOK

(* The operator's edits.                                                   *)
LEMMA TypeOperator == TypeOK /\ Operator => TypeOK'
<1> SUFFICES ASSUME TypeOK, NEW announced \in BOOLEAN, NEW p \in Paths,
                    \/ \E c \in Contents \cup {NoFile} : Save(p, c, announced)
                    \/ \E q \in Paths : Rename(p, q, announced)
             PROVE  TypeOK'
  BY DEF Operator
<1>1. ASSUME file' \in [Paths -> Contents \cup {NoFile}],
             NEW ps \in Seq(Paths), Announce(ps, announced)
      PROVE  TypeOK'
  <2>1. queue' \in Seq(Seq(Paths)) /\ edits' \in 0 .. MaxEdits
    BY <1>1, WatchAssumption DEF TypeOK, Announce
  <2>2. missed' \in [Paths -> {"no", "dropped", "seen"}]
    BY <1>1 DEF TypeOK, Announce
  <2>3. reports' \in [Paths -> 0 .. 3]
    BY <1>1 DEF TypeOK, Announce
  <2>4. undelivered' \in [Paths -> {"no", "owed", "alarmed"}]
    BY <1>1 DEF TypeOK, Announce
  <2> QED BY <1>1, <2>1, <2>2, <2>3, <2>4
          DEF TypeOK, Announce, dispatch, catalog, pass, visit
<1>2. CASE \E c \in Contents \cup {NoFile} : Save(p, c, announced)
  <2>1. PICK c \in Contents \cup {NoFile} : Save(p, c, announced)
    BY <1>2
  <2>2. file' \in [Paths -> Contents \cup {NoFile}] /\ <<p>> \in Seq(Paths)
    BY <2>1 DEF Save, TypeOK
  <2> QED BY <1>1, <2>1, <2>2 DEF Save
<1>3. CASE \E q \in Paths : Rename(p, q, announced)
  <2>1. PICK q \in Paths : Rename(p, q, announced)
    BY <1>3
  <2>2. file' \in [Paths -> Contents \cup {NoFile}]
    BY <2>1 DEF Rename, TypeOK
  <2>3. <<p, q>> \in Seq(Paths)
    OBVIOUS
  <2> QED BY <1>1, <2>1, <2>2, <2>3 DEF Rename
<1> QED BY <1>2, <1>3

(* The dispatcher's steps, and the three ways a recheck begins.            *)
LEMMA TypeDispatch ==
  TypeOK /\ (PullEvent \/ MarkInFlight \/ BeginEventRecheck \/ BeginPeriodicRecheck
             \/ BeginCallerRecheck) => TypeOK'
<1> USE DEF outside, dispatch, catalog, pass, visit, seenBy
<1>1. ASSUME TypeOK, PullEvent PROVE TypeOK'
  <2>1. Head(queue) \in Seq(Paths) /\ Tail(queue) \in Seq(Seq(Paths))
    BY <1>1, HeadTail DEF TypeOK, PullEvent
  <2>2. Range(Head(queue)) \subseteq Paths
    BY <2>1, RangeOfSeq
  <2> QED BY <1>1, <2>1, <2>2 DEF TypeOK, PullEvent
<1>2. ASSUME TypeOK, MarkInFlight PROVE TypeOK'
  <2>1. Head(toMark) \in Paths /\ Tail(toMark) \in Seq(Paths)
    BY <1>2, HeadTail DEF TypeOK, MarkInFlight
  <2> QED BY <1>2, <2>1 DEF TypeOK, MarkInFlight
<1>3. ASSUME TypeOK, NEW who \in {"observer", "periodic", "caller"}, BeginRecheck(who),
             dispatcher' \in {"idle", "marking", "waiting", "rechecking"}
      PROVE  TypeOK'
  <2>1. missed' \in [Paths -> {"no", "dropped", "seen"}]
    BY <1>3 DEF TypeOK, BeginRecheck
  <2> QED BY <1>3, <2>1 DEF TypeOK, BeginRecheck
<1>4. ASSUME TypeOK, BeginEventRecheck PROVE TypeOK'
  BY <1>3, <1>4 DEF BeginEventRecheck
<1>5. ASSUME TypeOK, BeginPeriodicRecheck PROVE TypeOK'
  <2>1. dispatcher' = dispatcher /\ dispatcher \in {"idle", "marking", "waiting", "rechecking"}
    BY <1>5 DEF BeginPeriodicRecheck, TypeOK
  <2> QED BY <1>3, <1>5, <2>1 DEF BeginPeriodicRecheck
<1>6. ASSUME TypeOK, BeginCallerRecheck PROVE TypeOK'
  <2>1. dispatcher' = dispatcher /\ dispatcher \in {"idle", "marking", "waiting", "rechecking"}
    BY <1>6 DEF BeginCallerRecheck, TypeOK
  <2> QED BY <1>3, <1>6, <2>1 DEF BeginCallerRecheck
<1> QED BY <1>1, <1>2, <1>4, <1>5, <1>6

(* The steps of one visit.                                                 *)
LEMMA TypeVisit ==
  ASSUME TypeOK, NEW p \in Paths, Visit(p)
  PROVE  TypeOK'
<1> USE DEF outside, dispatch, catalog, pass, visit, seenBy
<1>0. Baseline(p) \in Documents
  BY BaselineType
<1>1. CASE OfferCandidate(p)
  <2>1. Document(file[p]) \in Documents
    BY <1>1, ParsedDocument DEF OfferCandidate, TypeOK
  <2>2. known' \in [Paths -> Documents \cup {NotKnown}] /\ Offered(p) \in Documents
    BY <1>1, <2>1 DEF OfferCandidate, Offered, TypeOK
  <2>3. reportedDigest' \in [Paths -> DedupKeys \cup {NoDedup}]
    BY <1>1 DEF OfferCandidate, TypeOK
  <2>4. /\ missed' \in [Paths -> {"no", "dropped", "seen"}]
        /\ told' \in [Paths -> SUBSET (Contents \cup {NoFile})]
    BY <1>1 DEF OfferCandidate, LookedAt, TypeOK
  <2> QED BY <1>0, <1>1, <2>2, <2>3, <2>4 DEF OfferCandidate, VisitWith, LookedAt, TypeOK
<1>2. CASE DiscoverNewPath(p)
  <2>1. Document(file[p]) \in Documents
    BY <1>2, ParsedDocument DEF DiscoverNewPath, TypeOK
  <2>2. known' \in [Paths -> Documents \cup {NotKnown}]
    BY <1>2, <2>1 DEF DiscoverNewPath, TypeOK
  <2>3. /\ missed' \in [Paths -> {"no", "dropped", "seen"}]
        /\ told' \in [Paths -> SUBSET (Contents \cup {NoFile})]
    BY <1>2 DEF DiscoverNewPath, LookedAt, TypeOK
  <2> QED BY <1>0, <1>2, <2>1, <2>2, <2>3 DEF DiscoverNewPath, VisitWith, LookedAt, TypeOK
<1>3. CASE RefuseCandidate(p)
  BY <1>3 DEF RefuseCandidate, TypeOK
<1>4. CASE SkipKnownRejection(p)
  BY <1>4 DEF SkipKnownRejection, TypeOK
<1>5. CASE OnRejection(p)
  <2>1. DedupKey(p) \in DedupKeys
    BY DedupKeyType
  <2>2. reportedDigest' \in [Paths -> DedupKeys \cup {NoDedup}]
    BY <1>5, <2>1 DEF OnRejection, TypeOK
  <2>3. reports' \in [Paths -> 0 .. 3]
    BY <1>5 DEF OnRejection, TypeOK
  <2>4. told' \in [Paths -> SUBSET (Contents \cup {NoFile})]
    BY <1>5, <2>1 DEF OnRejection, TypeOK
  <2> QED BY <1>5, <2>2, <2>3, <2>4 DEF OnRejection, TypeOK
<1>6. CASE OnRejectionRaises(p)
  BY <1>6 DEF OnRejectionRaises, TypeOK
<1>7. CASE VisitVanished(p)
  BY <1>0, <1>7, EmptyIsDocument DEF VisitVanished, VisitWith, TypeOK
<1>8. CASE NothingChanged(p)
  BY <1>8 DEF NothingChanged, TypeOK
<1>9. CASE OnChange(p)
  <2>1. Apply(replica[p], Delta) \in [Fields -> Values]
    <3>1. \A f \in Fields : replica[p][f] \in Values
      BY DEF TypeOK
    <3>2. \A c \in Delta : c.new_value \in Values
      <4>1. \A f : Text(candidate, f) \in Values
        BY DocumentShape, ContentsAssumption DEF Text, TypeOK
      <4> QED BY <4>1 DEF Delta, Changes
    <3>3. \A f \in Fields : Apply(replica[p], Delta)[f] \in Values
      BY <3>1, <3>2 DEF Apply
    <3> QED BY <3>3 DEF Apply
  <2>2. replica' \in [Paths -> [Fields -> Values]]
    BY <1>9, <2>1 DEF OnChange, TypeOK
  <2>3. lastDelivered' \in [Paths -> Documents \cup {NotDelivered}]
    BY <1>9 DEF OnChange, TypeOK
  <2> QED BY <1>9, <2>2, <2>3 DEF OnChange, TypeOK
<1>10. CASE OnChangeRaises(p)
  BY <1>10 DEF OnChangeRaises, TypeOK
<1>11. ASSUME NEW taken \in BOOLEAN, OverflowStep(p, taken), pendingOverflow' \subseteq Paths
       PROVE  TypeOK'
  <2>1. undelivered' \in [Paths -> {"no", "owed", "alarmed"}]
    BY <1>11 DEF OverflowStep, TypeOK
  <2> QED BY <1>11, <2>1 DEF OverflowStep, TypeOK
<1>12. CASE OverflowNotOwed(p) \/ OnOverflow(p) \/ OnOverflowRaises(p)
  <2>1. pendingOverflow' \subseteq Paths
    BY <1>12 DEF OverflowNotOwed, OnOverflow, OnOverflowRaises, TypeOK
  <2> QED BY <1>11, <1>12, <2>1 DEF OverflowNotOwed, OnOverflow, OnOverflowRaises
<1>13. CASE Settle(p)
  <2>1. /\ known' \in [Paths -> Documents \cup {NotKnown}]
        /\ lastDelivered' \in [Paths -> Documents \cup {NotDelivered}]
        /\ reportedDigest' \in [Paths -> DedupKeys \cup {NoDedup}]
        /\ told' \in [Paths -> SUBSET (Contents \cup {NoFile})]
    BY <1>13 DEF Settle, TypeOK
  <2>2. missed' \in [Paths -> {"no", "dropped", "seen"}]
    BY <1>13 DEF Settle, TypeOK
  <2>3. inFlight' \subseteq Paths
    BY <1>13 DEF Settle, MarksAfterVisit, TypeOK
  <2> QED BY <1>13, <2>1, <2>2, <2>3, EmptyIsDocument DEF Settle, TypeOK
<1> QED BY <1>1, <1>2, <1>3, <1>4, <1>5, <1>6, <1>7, <1>8, <1>9, <1>10, <1>12, <1>13
        DEF Visit, Deliver

(* The steps between visits.                                               *)
LEMMA TypePass == TypeOK /\ (TurnToVanished \/ EndRecheck) => TypeOK'
<1> USE DEF outside, dispatch, catalog, pass, visit, seenBy
<1>1. ASSUME TypeOK, TurnToVanished PROVE TypeOK'
  BY <1>1 DEF TurnToVanished, TypeOK, Known
<1>2. ASSUME TypeOK, EndRecheck PROVE TypeOK'
  <2>1. missed' \in [Paths -> {"no", "dropped", "seen"}]
    BY <1>2 DEF EndRecheck, TypeOK
  <2>2. inFlight' \subseteq Paths
    BY <1>2 DEF EndRecheck, SweptMarks, TypeOK
  <2> QED BY <1>2, <2>1, <2>2 DEF EndRecheck, TypeOK
<1> QED BY <1>1, <1>2

LEMMA TypeStep == TypeOK /\ [Next]_vars => TypeOK'
<1>1. ASSUME TypeOK, UNCHANGED vars PROVE TypeOK'
  BY <1>1 DEF TypeOK, vars, outside, dispatch, catalog, pass, visit, seenBy
<1> QED BY <1>1, TypeOperator, TypeDispatch, TypeVisit, TypePass DEF Next, RecheckStep

(* The watch's state keeps its types whatever the operator, the kernel and *)
(* the callbacks do.                                                       *)
THEOREM TypeCorrect == Spec => []TypeOK
<1> QED BY TypeInit, TypeStep, PTL DEF Spec

-----------------------------------------------------------------------------
(* The catalog and the listener: the inductive invariant is the three      *)
(* safety invariants together with CatalogBookkeeping, which says what a   *)
(* visit under way has in hand.                                            *)
CatalogInv == /\ TypeOK
              /\ CatalogBookkeeping
              /\ ReplicaMatchesBaseline
              /\ OwedOverflowStaysReachable

LEMMA CatalogInit == Init => CatalogInv
<1> SUFFICES ASSUME Init PROVE CatalogInv
  OBVIOUS
<1>1. TypeOK
  BY TypeInit
<1>2. \A p \in Paths : known[p] = NotKnown => lastDelivered[p] = NotDelivered
  BY <1>1, ParsedDocument, WatchAssumption DEF Init, TypeOK
<1>3. CatalogBookkeeping
  BY <1>2 DEF Init, CatalogBookkeeping
<1>4. ReplicaMatchesBaseline
  BY DEF Init, ReplicaMatchesBaseline
<1> QED BY <1>1, <1>3, <1>4 DEF CatalogInv, OwedOverflowStaysReachable, Init

(* A step that touches neither the catalog nor the visit changes nothing   *)
(* the invariant speaks of.                                                *)
LEMMA CatalogUntouched ==
  ASSUME CatalogInv, TypeOK',
         UNCHANGED <<catalog, holder, stage, listed, todo, step, visit, replica>>
  PROVE  CatalogInv'
<1>1. CatalogBookkeeping'
  BY DEF CatalogInv, CatalogBookkeeping, catalog, visit, Known, Baseline
<1>2. ReplicaMatchesBaseline' /\ OwedOverflowStaysReachable'
  BY DEF CatalogInv, ReplicaMatchesBaseline, OwedOverflowStaysReachable, catalog, visit,
         Known, Baseline
<1> QED BY <1>1, <1>2 DEF CatalogInv

(* The diff a visit is about to hand out starts from what the listener     *)
(* holds and ends at the candidate.                                        *)
LEMMA DeltaFromReplica ==
  ASSUME CatalogInv, step = "change", NEW p \in Paths, at = p
  PROVE  /\ replica[p] = Reading(previous)
         /\ Apply(replica[p], Delta) = Reading(candidate)
         /\ Delta = {} <=> replica[p] = Reading(candidate)
<1>1. previous = Baseline(p) /\ previous \in Documents /\ candidate \in Documents
  BY DEF CatalogInv, CatalogBookkeeping, TypeOK
<1>2. replica[p] = Reading(previous)
  BY <1>1 DEF CatalogInv, ReplicaMatchesBaseline
<1> QED BY <1>1, <1>2, ApplyChanges, NoChangesSameReading DEF Delta

LEMMA CatalogVisit ==
  ASSUME CatalogInv, NEW p \in Paths, Visit(p)
  PROVE  CatalogInv'
<1> USE DEF catalog, pass, visit, seenBy
<1>t. TypeOK /\ TypeOK'
  BY TypeVisit DEF CatalogInv
<1>1. CASE OfferCandidate(p) \/ DiscoverNewPath(p)
  <2>1. /\ Document(file[p]) \in Documents
        /\ stage = "present" /\ stage' = "present" /\ step = "loop" /\ step' = "change"
        /\ at' = p /\ holder' = holder
        /\ lastDelivered' = lastDelivered /\ replica' = replica
        /\ p \in todo /\ UNCHANGED <<todo, listed>>
        /\ pendingOverflow' = pendingOverflow /\ previous' = Baseline(p)
    BY <1>1, <1>t, ParsedDocument
       DEF OfferCandidate, DiscoverNewPath, VisitWith, LookedAt, IsNext, TypeOK
  <2>2. \A q \in Paths : q # p => known'[q] = known[q]
    BY <1>1, <1>t DEF OfferCandidate, DiscoverNewPath, TypeOK
  <2>3. known'[p] # NotKnown
    BY <1>1, <1>t, <2>1, WatchAssumption DEF OfferCandidate, Offered, DiscoverNewPath, TypeOK
  <2>4. Known \subseteq Known' /\ p \in Known'
    BY <2>2, <2>3 DEF Known
  <2>5. CatalogBookkeeping'
    BY <2>1, <2>2, <2>3, <2>4 DEF CatalogBookkeeping, CatalogInv, Baseline
  <2> QED BY <1>t, <2>1, <2>4, <2>5
          DEF CatalogInv, ReplicaMatchesBaseline, OwedOverflowStaysReachable, Baseline
<1>2. CASE RefuseCandidate(p) \/ SkipKnownRejection(p) \/ OnRejectionRaises(p)
           \/ OnRejection(p)
  <2>1. /\ UNCHANGED <<known, lastDelivered, pendingOverflow, holder, stage, listed, todo, replica>>
        /\ step \in {"loop", "refused"} /\ stage = "present"
        /\ step' \in {"refused", "settle"} /\ at' = p /\ p \in todo
    BY <1>2 DEF RefuseCandidate, SkipKnownRejection, OnRejectionRaises, OnRejection,
                IsNext, CatalogInv, CatalogBookkeeping, TypeOK
  <2>2. CatalogBookkeeping'
    BY <2>1 DEF CatalogBookkeeping, CatalogInv, Known
  <2> QED BY <1>t, <2>1, <2>2
          DEF CatalogInv, ReplicaMatchesBaseline, OwedOverflowStaysReachable, Baseline, Known
<1>3. CASE VisitVanished(p)
  <2>1. /\ UNCHANGED <<known, lastDelivered, pendingOverflow, holder, stage, listed, todo, replica>>
        /\ step = "loop" /\ stage = "vanished" /\ step' = "change" /\ at' = p /\ p \in todo
        /\ previous' = Baseline(p) /\ candidate' = EmptyDocument
    BY <1>3 DEF VisitVanished, VisitWith, IsNext
  <2>2. CatalogBookkeeping'
    BY <2>1 DEF CatalogBookkeeping, CatalogInv, Known, Baseline
  <2> QED BY <1>t, <2>1, <2>2
          DEF CatalogInv, ReplicaMatchesBaseline, OwedOverflowStaysReachable, Baseline, Known
<1>4. CASE NothingChanged(p)
  <2>1. /\ UNCHANGED <<catalog, holder, stage, listed, todo, at, replica, candidate>>
        /\ step = "change" /\ step' = "overflow" /\ at = p /\ Delta = {}
    BY <1>4 DEF NothingChanged
  <2>2. replica[p] = Reading(candidate) /\ replica[p] = Reading(Baseline(p))
    BY <2>1, DeltaFromReplica DEF CatalogInv, ReplicaMatchesBaseline
  <2>3. CatalogBookkeeping'
    BY <2>1, <2>2 DEF CatalogBookkeeping, CatalogInv, Known, Baseline
  <2> QED BY <1>t, <2>1, <2>3
          DEF CatalogInv, ReplicaMatchesBaseline, OwedOverflowStaysReachable, Baseline, Known
<1>5. CASE OnChange(p)
  <2>1. /\ UNCHANGED <<known, pendingOverflow, holder, stage, listed, todo, at, candidate>>
        /\ step = "change" /\ step' = "overflow" /\ at = p
        /\ replica' = [replica EXCEPT ![p] = Apply(@, Delta)]
        /\ lastDelivered' = [lastDelivered EXCEPT ![p] = candidate]
    BY <1>5 DEF OnChange
  <2>2. candidate \in Documents /\ candidate # NotDelivered
    BY <1>t, WatchAssumption DEF TypeOK
  <2>3. /\ lastDelivered'[p] = candidate
        /\ \A q \in Paths : q # p => lastDelivered'[q] = lastDelivered[q]
    BY <1>t, <2>1 DEF TypeOK
  <2>4. replica'[p] = Reading(candidate) /\ \A q \in Paths : q # p => replica'[q] = replica[q]
    BY <1>t, <2>1, DeltaFromReplica DEF TypeOK
  <2>5. Baseline(p)' = candidate /\ \A q \in Paths : q # p => Baseline(q)' = Baseline(q)
    BY <2>2, <2>3 DEF Baseline
  <2>6. ReplicaMatchesBaseline'
    BY <2>4, <2>5 DEF ReplicaMatchesBaseline, CatalogInv
  <2>7. p \in Known
    BY <2>1 DEF CatalogInv, CatalogBookkeeping
  <2>8. CatalogBookkeeping'
    <3>1. \A q \in Paths : known'[q] = NotKnown => lastDelivered'[q] = NotDelivered
      BY <2>1, <2>3, <2>7 DEF CatalogInv, CatalogBookkeeping, Known
    <3>2. stage = "vanished" => Baseline(p)' = EmptyDocument
      BY <2>1, <2>5 DEF CatalogInv, CatalogBookkeeping
    <3>3. Known' = Known /\ at' = p
      BY <2>1 DEF Known
    <3>4. stage' = "vanished" => Reading(Baseline(at)') = Reading(EmptyDocument)
      BY <2>1, <3>2
    <3> QED BY <2>1, <2>7, <3>1, <3>3, <3>4 DEF CatalogBookkeeping, CatalogInv, Baseline
  <2> QED BY <1>t, <2>1, <2>6, <2>8 DEF CatalogInv, OwedOverflowStaysReachable, Known
<1>6. CASE OnChangeRaises(p)
  <2>1. /\ UNCHANGED <<catalog, holder, stage, listed, todo, at, replica, candidate>>
        /\ step = "change" /\ step' = "overflow" /\ at = p /\ delivered' = FALSE
    BY <1>6 DEF OnChangeRaises
  <2>2. CatalogBookkeeping'
    BY <2>1 DEF CatalogBookkeeping, CatalogInv, Known, Baseline
  <2> QED BY <1>t, <2>1, <2>2
          DEF CatalogInv, ReplicaMatchesBaseline, OwedOverflowStaysReachable, Baseline, Known
<1>7. CASE OverflowNotOwed(p) \/ OnOverflow(p) \/ OnOverflowRaises(p)
  <2>1. /\ UNCHANGED <<known, lastDelivered, holder, stage, listed, todo, visit, replica>>
        /\ step = "overflow" /\ step' = "settle" /\ at = p
        /\ pendingOverflow' \subseteq pendingOverflow \cup {p}
    BY <1>7 DEF OverflowNotOwed, OnOverflow, OnOverflowRaises, OverflowStep
  <2>2. p \in Known
    BY <2>1 DEF CatalogInv, CatalogBookkeeping
  <2>3. CatalogBookkeeping'
    BY <2>1 DEF CatalogBookkeeping, CatalogInv, Known, Baseline
  <2> QED BY <1>t, <2>1, <2>2, <2>3
          DEF CatalogInv, ReplicaMatchesBaseline, OwedOverflowStaysReachable, Baseline, Known
<1>8. CASE Settle(p)
  <2>1. /\ UNCHANGED <<pendingOverflow, holder, stage, listed, replica>>
        /\ step = "settle" /\ step' = "loop" /\ at = p /\ todo' = todo \ {p}
    BY <1>8 DEF Settle
  <2>2. CASE Forgettable(p)
    <3>1. /\ known' = [known EXCEPT ![p] = NotKnown]
          /\ lastDelivered' = [lastDelivered EXCEPT ![p] = NotDelivered]
      BY <1>8, <2>2 DEF Settle
    <3>2. Baseline(p)' = EmptyDocument /\ \A q \in Paths : q # p => Baseline(q)' = Baseline(q)
      BY <1>t, <3>1 DEF Baseline, TypeOK
    <3>3. replica[p] = Reading(EmptyDocument)
      BY <2>1, <2>2 DEF Forgettable, CatalogInv, CatalogBookkeeping, ReplicaMatchesBaseline
    <3>4. ReplicaMatchesBaseline'
      BY <2>1, <3>2, <3>3 DEF ReplicaMatchesBaseline, CatalogInv
    <3>5. Known' = Known \ {p} /\ p \notin pendingOverflow
      BY <1>t, <2>2, <3>1 DEF Known, Forgettable, TypeOK
    <3>6. \A q \in Paths : known'[q] = NotKnown => lastDelivered'[q] = NotDelivered
      BY <1>t, <3>1 DEF CatalogInv, CatalogBookkeeping, TypeOK
    <3>7. CatalogBookkeeping'
      BY <2>1, <3>5, <3>6 DEF CatalogBookkeeping, CatalogInv
    <3> QED BY <1>t, <2>1, <3>4, <3>5, <3>7 DEF CatalogInv, OwedOverflowStaysReachable
  <2>3. CASE ~Forgettable(p)
    <3>1. UNCHANGED <<known, lastDelivered>>
      BY <1>8, <2>3 DEF Settle
    <3>2. CatalogBookkeeping'
      BY <2>1, <3>1 DEF CatalogBookkeeping, CatalogInv, Known
    <3> QED BY <1>t, <2>1, <3>1, <3>2
            DEF CatalogInv, ReplicaMatchesBaseline, OwedOverflowStaysReachable, Baseline, Known
  <2> QED BY <2>2, <2>3
<1> QED BY <1>1, <1>2, <1>3, <1>4, <1>5, <1>6, <1>7, <1>8 DEF Visit, Deliver

LEMMA CatalogStep == CatalogInv /\ [Next]_vars => CatalogInv'
<1> SUFFICES ASSUME CatalogInv, [Next]_vars PROVE CatalogInv'
  OBVIOUS
<1> USE DEF catalog, visit, pass, outside, dispatch, seenBy
<1>t. TypeOK'
  BY TypeStep DEF CatalogInv
<1>1. CASE Operator
  <2>1. UNCHANGED <<catalog, holder, stage, listed, todo, step, visit, replica>>
    BY <1>1 DEF Operator, Save, Rename, Announce
  <2> QED BY <1>t, <2>1, CatalogUntouched
<1>2. CASE PullEvent \/ MarkInFlight
  <2>1. UNCHANGED <<catalog, holder, stage, listed, todo, step, visit, replica>>
    BY <1>2 DEF PullEvent, MarkInFlight
  <2> QED BY <1>t, <2>1, CatalogUntouched
<1>3. CASE BeginEventRecheck \/ BeginPeriodicRecheck \/ BeginCallerRecheck
  <2>1. /\ UNCHANGED <<catalog, stage, visit, replica>>
        /\ step' = "loop" /\ holder = "none" /\ holder' # "none" /\ todo' = listed'
    BY <1>3 DEF BeginEventRecheck, BeginPeriodicRecheck, BeginCallerRecheck, BeginRecheck
  <2> QED BY <1>t, <2>1
          DEF CatalogInv, CatalogBookkeeping, ReplicaMatchesBaseline,
              OwedOverflowStaysReachable, Baseline, Known
<1>4. CASE TurnToVanished
  <2>1. /\ UNCHANGED <<catalog, holder, step, visit, replica>>
        /\ step = "loop" /\ stage' = "vanished" /\ todo' \subseteq Known
    BY <1>4 DEF TurnToVanished
  <2> QED BY <1>t, <2>1
          DEF CatalogInv, CatalogBookkeeping, ReplicaMatchesBaseline,
              OwedOverflowStaysReachable, Baseline, Known
<1>5. CASE EndRecheck
  <2>1. /\ UNCHANGED <<catalog, visit, replica>>
        /\ step' = "released" /\ stage' = "present" /\ holder' = "none"
        /\ todo' = {}
    BY <1>5 DEF EndRecheck
  <2> QED BY <1>t, <2>1
          DEF CatalogInv, CatalogBookkeeping, ReplicaMatchesBaseline,
              OwedOverflowStaysReachable, Baseline, Known
<1>6. CASE \E p \in Paths : Visit(p)
  BY <1>6, CatalogVisit
<1>7. CASE UNCHANGED vars
  BY <1>7, <1>t, CatalogUntouched DEF vars
<1> QED BY <1>1, <1>2, <1>3, <1>4, <1>5, <1>6, <1>7 DEF Next, RecheckStep

LEMMA CatalogAlways == Spec => []CatalogInv
<1> QED BY CatalogInit, CatalogStep, PTL DEF Spec

(* What the listener has been told is what the watch believes it told it.  *)
THEOREM ReplicaCorrect == Spec => []ReplicaMatchesBaseline
<1>1. CatalogInv => ReplicaMatchesBaseline
  BY DEF CatalogInv
<1> QED BY <1>1, CatalogAlways, PTL

(* No path is forgotten before its removal has been told.                  *)
THEOREM ForgottenTold == Spec => []ForgottenOnlyOnceTold
<1>1. CatalogInv => ForgottenOnlyOnceTold
  BY DEF CatalogInv, CatalogBookkeeping, ReplicaMatchesBaseline, ForgottenOnlyOnceTold,
         Baseline
<1> QED BY <1>1, CatalogAlways, PTL

(* An overflow signal still owed is never on a path no pass would visit.   *)
THEOREM OwedReachable == Spec => []OwedOverflowStaysReachable
<1>1. CatalogInv => OwedOverflowStaysReachable
  BY DEF CatalogInv
<1> QED BY <1>1, CatalogAlways, PTL

(* Every change starts from the value the listener holds.                  *)
THEOREM ChangesAlwaysChain == Spec => []ChangesChain
<1>1. CatalogInv => ChangesChain
  <2> SUFFICES ASSUME CatalogInv, step = "change", NEW c \in Delta
               PROVE  c.old_value = replica[at][c.field]
    BY DEF ChangesChain
  <2>1. at \in Paths /\ previous \in Documents /\ candidate \in Documents
    BY DEF CatalogInv, CatalogBookkeeping, TypeOK
  <2>2. replica[at] = Reading(previous)
    BY <2>1, DeltaFromReplica
  <2>3. c.old_value = Text(previous, c.field) /\ c.field \in Fields
    BY <2>1, DocumentShape DEF Delta, Changes
  <2> QED BY <2>2, <2>3 DEF Reading
<1> QED BY <1>1, CatalogAlways, PTL

-----------------------------------------------------------------------------
(* The marks.                                                              *)
MarkInv == TypeOK /\ MarkBookkeeping

(* The head of a sequence without repeats is not in its tail.              *)
LEMMA InjectiveTail ==
  ASSUME NEW S, NEW s \in Seq(S), s # <<>>, IsInjective(s)
  PROVE  /\ IsInjective(Tail(s))
         /\ Range(Tail(s)) = Range(s) \ {Head(s)}
<1>1. /\ Len(s) \in Nat \ {0} /\ DOMAIN s = 1 .. Len(s) /\ Head(s) = s[1]
      /\ DOMAIN Tail(s) = 1 .. (Len(s) - 1)
      /\ \A i \in 1 .. (Len(s) - 1) : Tail(s)[i] = s[i + 1]
  OBVIOUS
<1>2. IsInjective(Tail(s))
  <2> SUFFICES ASSUME NEW i \in 1 .. (Len(s) - 1), NEW j \in 1 .. (Len(s) - 1),
                      Tail(s)[i] = Tail(s)[j]
               PROVE  i = j
    BY <1>1 DEF IsInjective
  <2>1. s[i + 1] = s[j + 1] /\ i + 1 \in 1 .. Len(s) /\ j + 1 \in 1 .. Len(s)
    BY <1>1
  <2>2. i + 1 = j + 1
    BY <2>1, <1>1 DEF IsInjective
  <2> QED BY <2>2
<1>3. ASSUME NEW x \in Range(Tail(s)) PROVE x \in Range(s) \ {Head(s)}
  <2>1. PICK i \in 1 .. (Len(s) - 1) : x = s[i + 1]
    BY <1>1, <1>3 DEF Range
  <2>2. i + 1 \in 1 .. Len(s) /\ 1 \in 1 .. Len(s) /\ i + 1 # 1
    BY <1>1
  <2>3. s[i + 1] # s[1]
    BY <1>1, <2>2 DEF IsInjective
  <2> QED BY <1>1, <2>1, <2>2, <2>3 DEF Range
<1>4. ASSUME NEW x \in Range(s) \ {Head(s)} PROVE x \in Range(Tail(s))
  <2>1. PICK i \in 1 .. Len(s) : x = s[i]
    BY <1>1, <1>4 DEF Range
  <2>2. i # 1
    BY <1>1, <1>4, <2>1
  <2>3. i - 1 \in 1 .. (Len(s) - 1) /\ (i - 1) + 1 = i
    BY <1>1, <2>2
  <2>4. Tail(s)[i - 1] = x
    BY <1>1, <2>1, <2>3
  <2> QED BY <1>1, <2>3, <2>4 DEF Range
<1> QED BY <1>2, <1>3, <1>4

LEMMA MarkInit == Init => MarkInv
<1> SUFFICES ASSUME Init PROVE MarkInv
  OBVIOUS
<1>1. TypeOK
  BY TypeInit
<1>2. IsInjective(toMark) /\ Range(toMark) = {}
  BY DEF Init, IsInjective, Range
<1>3. \A i \in 1 .. Len(queue) : IsInjective(queue[i])
  BY DEF Init
<1> QED BY <1>1, <1>2, <1>3 DEF Init, MarkInv, MarkBookkeeping

LEMMA MarkStep == MarkInv /\ [Next]_vars => MarkInv'
<1> SUFFICES ASSUME MarkInv, [Next]_vars PROVE MarkBookkeeping'
  BY TypeStep DEF MarkInv
<1> USE DEF outside, dispatch, catalog, pass, visit, seenBy
<1>t. TypeOK /\ TypeOK'
  BY TypeStep DEF MarkInv
<1>0. ASSUME UNCHANGED <<queue, dispatch, inFlight, holder, listed, todo>>
      PROVE  MarkBookkeeping'
  BY <1>0 DEF MarkInv, MarkBookkeeping
<1>1. CASE Operator
  <2>1. PICK paths \in Seq(Paths), announced \in BOOLEAN :
            Announce(paths, announced) /\ IsInjective(paths)
    <3>1. PICK announced \in BOOLEAN, p \in Paths :
              \/ \E c \in Contents \cup {NoFile} : Save(p, c, announced)
              \/ \E q \in Paths : Rename(p, q, announced)
      BY <1>1 DEF Operator
    <3>2. CASE \E c \in Contents \cup {NoFile} : Save(p, c, announced)
      <4>1. <<p>> \in Seq(Paths) /\ IsInjective(<<p>>)
        BY DEF IsInjective
      <4> QED BY <3>2, <4>1 DEF Save
    <3>3. CASE \E q \in Paths : Rename(p, q, announced)
      <4>1. PICK q \in Paths : Rename(p, q, announced)
        BY <3>3
      <4>2. <<p, q>> \in Seq(Paths)
        OBVIOUS
      <4>3. IsInjective(<<p, q>>)
        BY <4>1 DEF IsInjective, Rename
      <4> QED BY <4>1, <4>2, <4>3 DEF Rename
    <3> QED BY <3>1, <3>2, <3>3
  <2>2. \A i \in 1 .. Len(queue') : IsInjective(queue'[i])
    <3>1. queue \in Seq(Seq(Paths)) /\ \A i \in 1 .. Len(queue) : IsInjective(queue[i])
      BY <1>t DEF TypeOK, MarkInv, MarkBookkeeping
    <3>2. CASE announced
      <4>1. queue' = Append(queue, paths)
        BY <2>1, <3>2 DEF Announce
      <4> QED BY <2>1, <3>1, <4>1
    <3>3. CASE ~announced
      <4>1. queue' = queue
        BY <2>1, <3>3 DEF Announce
      <4> QED BY <3>1, <4>1
    <3> QED BY <3>2, <3>3
  <2>3. UNCHANGED <<dispatch, inFlight, holder, listed, todo>>
    BY <2>1 DEF Announce
  <2> QED BY <2>2, <2>3 DEF MarkInv, MarkBookkeeping
<1>2. CASE PullEvent
  <2>1. queue \in Seq(Seq(Paths)) /\ queue # <<>> /\ queue' = Tail(queue)
    BY <1>2, <1>t DEF PullEvent, TypeOK
  <2>2. Head(queue) = queue[1] /\ 1 \in 1 .. Len(queue)
    BY <2>1
  <2>3. \A i \in 1 .. Len(queue') : queue'[i] = queue[i + 1] /\ i + 1 \in 1 .. Len(queue)
    BY <2>1
  <2>4. /\ IsInjective(toMark') /\ Range(toMark') = event'
        /\ \A i \in 1 .. Len(queue') : IsInjective(queue'[i])
    BY <1>2, <2>2, <2>3 DEF PullEvent, MarkInv, MarkBookkeeping
  <2>5. inFlight' = {} /\ holder' = holder /\ holder # "observer" /\ dispatcher' = "marking"
    BY <1>2 DEF PullEvent, MarkInv, MarkBookkeeping
  <2> QED BY <2>4, <2>5 DEF MarkBookkeeping
<1>3. CASE MarkInFlight
  <2>1. toMark \in Seq(Paths) /\ toMark # <<>> /\ IsInjective(toMark) /\ toMark' = Tail(toMark)
    BY <1>3, <1>t DEF MarkInFlight, TypeOK, MarkInv, MarkBookkeeping
  <2>2. IsInjective(toMark') /\ Range(toMark') = Range(toMark) \ {Head(toMark)}
    BY <2>1, InjectiveTail
  <2>3. Head(toMark) \in Range(toMark)
    BY <2>1 DEF Range
  <2>4. /\ UNCHANGED <<queue, event, holder>> /\ holder # "observer"
        /\ inFlight' = inFlight \cup {Head(toMark)}
        /\ dispatcher' \in {"waiting", "marking"}
        /\ dispatcher' = "waiting" => toMark' = <<>>
    BY <1>3 DEF MarkInFlight, MarkInv, MarkBookkeeping
  <2> QED BY <2>2, <2>3, <2>4 DEF MarkInv, MarkBookkeeping
<1>4. CASE BeginEventRecheck
  <2>1. /\ UNCHANGED <<queue, event, toMark, inFlight>>
        /\ dispatcher = "waiting" /\ dispatcher' = "rechecking" /\ todo' = listed'
    BY <1>4 DEF BeginEventRecheck, BeginRecheck
  <2> QED BY <2>1 DEF MarkInv, MarkBookkeeping
<1>5. CASE BeginPeriodicRecheck \/ BeginCallerRecheck
  <2>1. UNCHANGED <<queue, dispatch, inFlight>> /\ holder' \in {"periodic", "caller"}
    BY <1>5 DEF BeginPeriodicRecheck, BeginCallerRecheck, BeginRecheck
  <2> QED BY <2>1 DEF MarkInv, MarkBookkeeping
<1>6. CASE TurnToVanished
  <2>1. /\ UNCHANGED <<queue, dispatch, inFlight, holder>>
        /\ todo = {} /\ todo' = Known \ listed /\ listed' = listed \cup Known
    BY <1>6 DEF TurnToVanished
  <2> QED BY <2>1 DEF MarkInv, MarkBookkeeping
<1>7. CASE EndRecheck
  <2>1. /\ UNCHANGED <<queue, toMark>> /\ todo = {} /\ holder' = "none"
        /\ inFlight' \subseteq inFlight
    BY <1>7 DEF EndRecheck, SweptMarks
  <2>2. CASE holder = "observer"
    <3>1. inFlight' = {} /\ event' = {} /\ dispatcher' = "idle" /\ dispatcher = "rechecking"
      BY <1>7, <2>2 DEF EndRecheck, SweptMarks, Periodic, MarkInv, MarkBookkeeping
    <3> QED BY <2>1, <3>1 DEF MarkInv, MarkBookkeeping, Range
  <2>3. CASE holder # "observer"
    <3>1. UNCHANGED <<event, dispatcher>>
      BY <1>7, <2>3 DEF EndRecheck
    <3> QED BY <2>1, <3>1 DEF MarkInv, MarkBookkeeping
  <2> QED BY <2>2, <2>3
<1>8. CASE \E p \in Paths : Visit(p)
  <2>1. PICK p \in Paths : Visit(p)
    BY <1>8
  <2>2. CASE Settle(p)
    <3>1. /\ UNCHANGED <<queue, dispatch, holder, listed>>
          /\ todo' = todo \ {p}
          /\ inFlight' = IF Periodic THEN inFlight ELSE inFlight \ {p}
      BY <2>2 DEF Settle, MarksAfterVisit
    <3> QED BY <3>1 DEF MarkInv, MarkBookkeeping, Periodic
  <2>3. CASE ~Settle(p)
    <3>1. UNCHANGED <<queue, dispatch, inFlight, holder, listed, todo>>
      BY <2>1, <2>3 DEF Visit, Deliver, OfferCandidate, DiscoverNewPath, RefuseCandidate,
           SkipKnownRejection, OnRejection, OnRejectionRaises, VisitVanished, VisitWith,
           NothingChanged, OnChange, OnChangeRaises, OverflowNotOwed, OnOverflow,
           OnOverflowRaises, OverflowStep
    <3> QED BY <3>1, <1>0
  <2> QED BY <2>2, <2>3
<1>9. CASE UNCHANGED vars
  BY <1>9, <1>0 DEF vars
<1> QED BY <1>1, <1>2, <1>3, <1>4, <1>5, <1>6, <1>7, <1>8, <1>9 DEF Next, RecheckStep

(* No in-flight mark outlives the event that set it.                       *)
THEOREM MarksAreTheEvents == Spec => []NoMarkOutlivesItsEvent
<1>1. MarkInv => NoMarkOutlivesItsEvent
  BY DEF MarkInv, MarkBookkeeping, NoMarkOutlivesItsEvent
<1> QED BY <1>1, MarkInit, MarkStep, PTL DEF Spec

(* Whose recheck clears a mark, for the two threads alone.                 *)
OwnBookkeeping ==
  /\ holder \in {"none", "observer", "periodic"}
  /\ holder = "observer" <=> dispatcher = "rechecking"
  /\ dispatcher # "rechecking" => event \ Range(toMark) \subseteq inFlight

OwnInv == CatalogInv /\ MarkInv /\ (~CallerRechecks => OwnBookkeeping)

LEMMA OwnInit == Init => OwnInv
BY CatalogInit, MarkInit DEF Init, OwnInv, OwnBookkeeping

LEMMA OwnStep == OwnInv /\ [Next]_vars => OwnInv'
<1> SUFFICES ASSUME OwnInv, [Next]_vars, ~CallerRechecks PROVE OwnBookkeeping'
  BY CatalogStep, MarkStep DEF OwnInv
<1> USE DEF outside, dispatch, catalog, pass, visit, seenBy
<1>0. CatalogInv /\ MarkInv /\ OwnBookkeeping
  BY DEF OwnInv
<1>t. TypeOK
  BY <1>0 DEF MarkInv
<1>1. CASE Operator
  <2>1. UNCHANGED <<dispatch, inFlight, holder>>
    BY <1>1 DEF Operator, Save, Rename, Announce
  <2> QED BY <1>0, <2>1 DEF OwnBookkeeping
<1>2. CASE PullEvent
  <2>1. /\ event' = Range(toMark') /\ UNCHANGED holder
        /\ dispatcher = "idle" /\ dispatcher' = "marking"
    BY <1>2 DEF PullEvent
  <2> QED BY <1>0, <2>1 DEF OwnBookkeeping
<1>3. CASE MarkInFlight
  <2>1. toMark \in Seq(Paths) /\ toMark # <<>> /\ IsInjective(toMark) /\ toMark' = Tail(toMark)
    BY <1>0, <1>3, <1>t DEF MarkInFlight, TypeOK, MarkInv, MarkBookkeeping
  <2>2. Range(toMark') = Range(toMark) \ {Head(toMark)}
    BY <2>1, InjectiveTail
  <2>3. /\ UNCHANGED <<event, holder>>
        /\ inFlight' = inFlight \cup {Head(toMark)}
        /\ dispatcher = "marking" /\ dispatcher' \in {"waiting", "marking"}
    BY <1>3 DEF MarkInFlight
  <2> QED BY <1>0, <2>2, <2>3 DEF OwnBookkeeping
<1>4. CASE BeginEventRecheck \/ BeginPeriodicRecheck \/ BeginCallerRecheck
  <2>1. /\ UNCHANGED <<event, toMark, inFlight>> /\ holder = "none"
        /\ \/ dispatcher' = "rechecking" /\ holder' = "observer"
           \/ UNCHANGED dispatcher /\ holder' = "periodic"
    BY <1>4 DEF BeginEventRecheck, BeginPeriodicRecheck, BeginCallerRecheck, BeginRecheck
  <2> QED BY <1>0, <2>1 DEF OwnBookkeeping
<1>5. CASE TurnToVanished
  <2>1. UNCHANGED <<dispatch, inFlight, holder>>
    BY <1>5 DEF TurnToVanished
  <2> QED BY <1>0, <2>1 DEF OwnBookkeeping
<1>6. CASE EndRecheck
  <2>1. holder' = "none" /\ UNCHANGED toMark
    BY <1>6 DEF EndRecheck
  <2>2. CASE holder = "observer"
    <3>1. event' = {} /\ dispatcher' = "idle"
      BY <1>6, <2>2 DEF EndRecheck
    <3> QED BY <2>1, <3>1 DEF OwnBookkeeping
  <2>3. CASE holder # "observer"
    <3>1. UNCHANGED <<event, dispatcher>>
      BY <1>6, <2>3 DEF EndRecheck
    <3>2. CASE holder = "periodic"
      <4>1. inFlight' = inFlight
        BY <1>6, <3>2 DEF EndRecheck, Periodic
      <4> QED BY <1>0, <2>1, <2>3, <3>1, <4>1 DEF OwnBookkeeping
    <3>3. CASE holder = "none"
      <4>1. step = "loop"
        BY <1>6 DEF EndRecheck
      <4> QED BY <1>0, <3>3, <4>1 DEF CatalogInv, CatalogBookkeeping
    <3> QED BY <1>0, <2>3, <3>2, <3>3 DEF OwnBookkeeping
  <2> QED BY <2>2, <2>3
<1>7. CASE \E p \in Paths : Visit(p)
  <2>1. PICK p \in Paths : Visit(p)
    BY <1>7
  <2>2. CASE Settle(p)
    <3>1. /\ UNCHANGED <<dispatch, holder>>
          /\ inFlight' = IF Periodic THEN inFlight ELSE inFlight \ {p}
      BY <2>2 DEF Settle, MarksAfterVisit
    <3>2. holder # "none"
      BY <1>0, <2>2 DEF Settle, CatalogInv, CatalogBookkeeping
    <3> QED BY <1>0, <3>1, <3>2 DEF OwnBookkeeping, Periodic
  <2>3. CASE ~Settle(p)
    <3>1. UNCHANGED <<dispatch, inFlight, holder>>
      BY <2>1, <2>3 DEF Visit, Deliver, OfferCandidate, DiscoverNewPath, RefuseCandidate,
           SkipKnownRejection, OnRejection, OnRejectionRaises, VisitVanished, VisitWith,
           NothingChanged, OnChange, OnChangeRaises, OverflowNotOwed, OnOverflow,
           OnOverflowRaises, OverflowStep
    <3> QED BY <1>0, <3>1 DEF OwnBookkeeping
  <2> QED BY <2>2, <2>3
<1>8. CASE UNCHANGED vars
  BY <1>0, <1>8 DEF vars, OwnBookkeeping
<1> QED BY <1>1, <1>2, <1>3, <1>4, <1>5, <1>6, <1>7, <1>8 DEF Next, RecheckStep

(* Only the event's own recheck clears the mark.                           *)
THEOREM OwnRecheckClears == Spec => []OnlyOwnRecheckClearsMark
<1>1. OwnInv => OnlyOwnRecheckClearsMark
  BY DEF OwnInv, OwnBookkeeping, OnlyOwnRecheckClearsMark
<1> QED BY <1>1, OwnInit, OwnStep, PTL DEF Spec

-----------------------------------------------------------------------------
(* Rejections: what the constructor reported apart, content that has been  *)
(* reported stands under its path and is refused; its digest is the last one recorded, unless the file has gone  *)
(* since, and a path seen to have gone is not read a second time.          *)
ByConstructor(p) == IF p \in sinceStart THEN 1 ELSE 0

ReportedOnce(p) ==
  /\ reports[p] = ByConstructor(p) + 1
  /\ ~Parses(file[p])
  /\ file[p] # NoFile => reportedDigest[p] = DedupKey(p)
  /\ stage = "present" /\ holder # "none" =>
       /\ p \notin listed => file[p] = NoFile
       /\ p \in todo /\ file[p] = NoFile => at = p /\ step = "settle"
  /\ stage = "vanished" /\ p \in todo => file[p] = NoFile

ReportBookkeeping ==
  /\ step = "refused" => ~Parses(refused)
  /\ \A p \in Paths : reports[p] # ByConstructor(p) => ReportedOnce(p)

ReportInv == CatalogInv /\ ReportBookkeeping

LEMMA ReportInit == Init => ReportInv
BY CatalogInit DEF Init, ReportInv, ReportBookkeeping, ByConstructor

(* What a visit reports, and what it leaves as reported.                   *)
LEMMA ReportVisit ==
  ASSUME ReportInv, NEW p \in Paths, Visit(p)
  PROVE  ReportBookkeeping'
<1> USE DEF outside, dispatch, catalog, pass, visit, seenBy
<1>t. TypeOK /\ CatalogBookkeeping
  BY DEF ReportInv, CatalogInv
<1>s. step # "refused" \/ stage = "present"
  BY <1>t DEF TypeOK, CatalogBookkeeping
<1>1. CASE OfferCandidate(p) \/ DiscoverNewPath(p)
  <2>1. /\ UNCHANGED <<file, reports, sinceStart, pass>>
        /\ step = "loop" /\ step' = "change" /\ Parses(file[p])
        /\ \A q \in Paths : q # p => reportedDigest'[q] = reportedDigest[q]
    BY <1>1, <1>t DEF OfferCandidate, DiscoverNewPath, VisitWith, LookedAt, TypeOK
  <2>2. reports[p] = ByConstructor(p)
    BY <2>1 DEF ReportInv, ReportBookkeeping, ReportedOnce
  <2> QED BY <2>1, <2>2 DEF ReportInv, ReportBookkeeping, ReportedOnce, ByConstructor, DedupKey
<1>2. CASE RefuseCandidate(p)
  <2>1. /\ UNCHANGED <<file, reports, sinceStart, pass, reportedDigest>>
        /\ step = "loop" /\ step' = "refused" /\ ~Parses(file[p]) /\ refused' = file[p]
    BY <1>2 DEF RefuseCandidate
  <2> QED BY <2>1 DEF ReportInv, ReportBookkeeping, ReportedOnce, ByConstructor, DedupKey
<1>3. CASE SkipKnownRejection(p) \/ OnRejectionRaises(p)
  <2>1. /\ UNCHANGED <<file, reports, sinceStart, pass, reportedDigest>>
        /\ step = "refused" /\ step' = "settle"
    BY <1>3 DEF SkipKnownRejection, OnRejectionRaises
  <2> QED BY <2>1 DEF ReportInv, ReportBookkeeping, ReportedOnce, ByConstructor, DedupKey
<1>4. CASE OnRejection(p)
  <2>1. /\ UNCHANGED <<file, sinceStart, pass, at>>
        /\ step = "refused" /\ step' = "settle" /\ at = p
        /\ reportedDigest[p] # DedupKey(p)
        /\ reportedDigest' = [reportedDigest EXCEPT ![p] = DedupKey(p)]
        /\ reports' = [reports EXCEPT ![p] = IF file[p] = refused /\ @ < 3 THEN @ + 1 ELSE @]
    BY <1>4 DEF OnRejection
  <2>2. /\ stage = "present" /\ holder # "none" /\ p \in todo /\ p \in listed
    BY <1>s, <1>t, <2>1 DEF CatalogBookkeeping
  <2>3. reports[p] = ByConstructor(p)
    BY <2>1, <2>2 DEF ReportInv, ReportBookkeeping, ReportedOnce
  <2>4. /\ reports'[p] = ByConstructor(p) + (IF file[p] = refused THEN 1 ELSE 0)
        /\ reportedDigest'[p] = DedupKey(p)
    BY <1>t, <2>1, <2>3 DEF TypeOK, ByConstructor
  <2>5. ~Parses(refused)
    BY <2>1 DEF ReportInv, ReportBookkeeping
  <2>6. ASSUME reports'[p] # ByConstructor(p)' PROVE ReportedOnce(p)'
    <3>1. reports'[p] = ByConstructor(p)' + 1 /\ file[p] = refused
      BY <2>1, <2>4, <2>6 DEF ByConstructor
    <3>2. DedupKey(p)' = DedupKey(p)
      BY <2>1, <1>4 DEF OnRejection, DedupKey
    <3> QED BY <2>1, <2>2, <2>4, <2>5, <3>1, <3>2 DEF ReportedOnce
  <2>7. ASSUME NEW q \in Paths, q # p, reports'[q] # ByConstructor(q)' PROVE ReportedOnce(q)'
    <3>1. reports'[q] = reports[q] /\ reportedDigest'[q] = reportedDigest[q]
      BY <1>t, <2>1, <2>7 DEF TypeOK
    <3>2. ReportedOnce(q)
      BY <2>1, <2>7, <3>1 DEF ReportInv, ReportBookkeeping, ByConstructor
    <3> QED BY <2>1, <3>1, <3>2 DEF ReportedOnce, ByConstructor, DedupKey
  <2> QED BY <2>1, <2>6, <2>7 DEF ReportBookkeeping
<1>5. CASE VisitVanished(p) \/ Deliver(p)
  <2>1. /\ UNCHANGED <<file, reports, sinceStart, pass, reportedDigest>>
        /\ step # "refused" /\ step' # "refused" /\ step # "settle"
    BY <1>5 DEF VisitVanished, VisitWith, Deliver, NothingChanged, OnChange,
         OnChangeRaises, OverflowNotOwed, OnOverflow, OnOverflowRaises, OverflowStep
  <2> QED BY <2>1 DEF ReportInv, ReportBookkeeping, ReportedOnce, ByConstructor, DedupKey
<1>6. CASE Settle(p)
  <2>1. /\ UNCHANGED <<file, reports, sinceStart, holder, stage, listed>>
        /\ step = "settle" /\ step' = "loop" /\ at = p /\ todo' = todo \ {p}
        /\ \A q \in Paths : q # p => reportedDigest'[q] = reportedDigest[q]
        /\ stage = "present" => reportedDigest' = reportedDigest
    BY <1>6, <1>t DEF Settle, Forgettable, TypeOK
  <2>2. p \in todo
    BY <1>t, <2>1 DEF CatalogBookkeeping
  <2>3. ASSUME NEW q \in Paths, reports'[q] # ByConstructor(q)' PROVE ReportedOnce(q)'
    <3>1. ReportedOnce(q) /\ p \notin todo'
      BY <2>1, <2>3 DEF ReportInv, ReportBookkeeping, ByConstructor
    <3>2. file'[q] # NoFile => reportedDigest'[q] = DedupKey(q)'
      BY <1>t, <2>1, <2>2, <3>1 DEF ReportedOnce, ByConstructor, DedupKey, TypeOK
    <3> QED BY <1>t, <2>1, <3>1, <3>2 DEF ReportedOnce, ByConstructor
  <2> QED BY <2>1, <2>3 DEF ReportBookkeeping
<1> QED BY <1>1, <1>2, <1>3, <1>4, <1>5, <1>6 DEF Visit

LEMMA ReportStep == ReportInv /\ [Next]_vars => ReportInv'
<1> SUFFICES ASSUME ReportInv, [Next]_vars PROVE ReportBookkeeping'
  BY CatalogStep DEF ReportInv
<1> USE DEF outside, dispatch, catalog, pass, visit, seenBy
<1>t. TypeOK /\ CatalogBookkeeping
  BY DEF ReportInv, CatalogInv
<1>1. CASE Operator
  <2>1. /\ UNCHANGED <<pass, step, at, refused, reportedDigest>>
        /\ reports' = [p \in Paths |-> IF file'[p] # file[p] THEN 0 ELSE reports[p]]
        /\ sinceStart' = {p \in sinceStart : file'[p] = file[p]}
    BY <1>1 DEF Operator, Save, Rename, Announce
  <2>2. ASSUME NEW p \in Paths, reports'[p] # ByConstructor(p)'
        PROVE  /\ reports'[p] = reports[p] /\ file'[p] = file[p]
               /\ ByConstructor(p)' = ByConstructor(p)
    BY <2>1, <2>2 DEF ByConstructor
  <2> QED BY <2>1, <2>2 DEF ReportInv, ReportBookkeeping, ReportedOnce, ByConstructor, DedupKey
<1>2. CASE PullEvent \/ MarkInFlight \/ UNCHANGED vars
  <2>1. UNCHANGED <<file, pass, step, at, refused, reportedDigest, reports, sinceStart>>
    BY <1>2 DEF PullEvent, MarkInFlight, vars
  <2> QED BY <2>1 DEF ReportInv, ReportBookkeeping, ReportedOnce, ByConstructor, DedupKey
<1>3. CASE BeginEventRecheck \/ BeginPeriodicRecheck \/ BeginCallerRecheck
  <2>1. /\ UNCHANGED <<file, stage, reportedDigest, reports, sinceStart>>
        /\ holder = "none" /\ step' = "loop"
        /\ listed' = {p \in Paths : file[p] # NoFile} /\ todo' = listed'
    BY <1>3 DEF BeginEventRecheck, BeginPeriodicRecheck, BeginCallerRecheck, BeginRecheck
  <2>2. stage = "present"
    BY <1>t, <2>1 DEF CatalogBookkeeping
  <2> QED BY <2>1, <2>2 DEF ReportInv, ReportBookkeeping, ReportedOnce, ByConstructor, DedupKey
<1>4. CASE TurnToVanished
  <2>1. /\ UNCHANGED <<file, holder, step, reportedDigest, reports, sinceStart>>
        /\ step = "loop" /\ stage = "present" /\ stage' = "vanished"
        /\ todo' = Known \ listed
    BY <1>4 DEF TurnToVanished
  <2>2. holder # "none"
    BY <1>t, <2>1 DEF CatalogBookkeeping
  <2> QED BY <2>1, <2>2 DEF ReportInv, ReportBookkeeping, ReportedOnce, ByConstructor, DedupKey
<1>5. CASE EndRecheck
  <2>1. /\ UNCHANGED <<file, reportedDigest, reports, sinceStart>>
        /\ holder' = "none" /\ stage' = "present" /\ step' = "released"
    BY <1>5 DEF EndRecheck
  <2> QED BY <2>1 DEF ReportInv, ReportBookkeeping, ReportedOnce, ByConstructor, DedupKey
<1>6. CASE \E p \in Paths : Visit(p)
  BY <1>6, ReportVisit
<1> QED BY <1>1, <1>2, <1>3, <1>4, <1>5, <1>6 DEF Next, RecheckStep

(* Broken content that stands unchanged is reported once, or twice if the  *)
(* constructor met it.                                                     *)
THEOREM RepeatedOnlyFromStart == Spec => []RejectionRepeatedOnlyFromStart
<1>1. ReportInv => RejectionRepeatedOnlyFromStart
  BY DEF ReportInv, ReportBookkeeping, ReportedOnce, ByConstructor,
         RejectionRepeatedOnlyFromStart
<1> QED BY <1>1, ReportInit, ReportStep, PTL DEF Spec

-----------------------------------------------------------------------------
(* Alarms, for the two threads alone.  A document agrees with what lies    *)
(* under a path unless what lies there does not parse.                     *)
Agrees(document, p) ==
  /\ file[p] = NoFile => Reading(document) = Reading(EmptyDocument)
  /\ Parses(file[p]) => Reading(document) = Reading(Document(file[p]))

(* What earns p an alarm, its mark included.                               *)
Noticed(p) == missed[p] # "no" \/ Unmarked(p) \/ p \in inFlight \/ undelivered[p] # "no"

(* An edit of p that the pass under way has not read.                      *)
OnItsWay(p) == missed[p] = "dropped" \/ Unmarked(p) \/ (p \in inFlight /\ holder # "observer")

(* What the pass under way knows of p: read, refused, still to be visited, *)
(* absent, or settled.                                                     *)
Taken(p) ==
  /\ at = p /\ step \in {"change", "overflow"} => Agrees(candidate, p)
  /\ at = p /\ step = "refused" => file[p] # NoFile /\ ~Parses(file[p])
  /\ p \in todo /\ (at = p => step = "loop") => (file[p] = NoFile <=> stage = "vanished")
  /\ p \notin listed => file[p] = NoFile /\ (stage = "vanished" => p \notin Known)
  /\ p \in listed /\ (p \in todo => at = p /\ step = "settle") =>
       undelivered[p] # "no" \/ Agrees(Baseline(p), p)

(* What the listener was told of p agrees with the file, or something of p *)
(* is still to be noticed; and the pass under way is not behind the file,  *)
(* or the edit it is behind of is on its way.                              *)
Earned(p) == /\ Noticed(p) \/ Agrees(Baseline(p), p)
             /\ holder # "none" => OnItsWay(p) \/ Taken(p)

EarnedBookkeeping ==
  /\ todo \subseteq listed
  /\ step = "overflow" /\ delivered => Reading(Baseline(at)) = Reading(candidate)
  /\ holder = "periodic" /\ step \in {"change", "overflow"}
        /\ Reading(previous) # Reading(candidate) => Noticed(at)
  /\ \A p \in Paths : Earned(p)

EarnedInv == OwnInv /\ (~CallerRechecks => EarnedBookkeeping)

LEMMA EarnedInit == Init => EarnedInv
<1> SUFFICES ASSUME Init PROVE EarnedBookkeeping
  BY OwnInit DEF EarnedInv
<1>1. ASSUME NEW p \in Paths PROVE Agrees(Baseline(p), p)
  <2>1. Parses(file[p]) => Baseline(p) = Document(file[p])
    BY ParsedDocument, WatchAssumption DEF Init, Baseline
  <2>2. file[p] = NoFile => Baseline(p) = EmptyDocument
    BY DEF Init, Baseline, Parses
  <2> QED BY <2>1, <2>2 DEF Agrees
<1> QED BY <1>1 DEF Init, EarnedBookkeeping, Earned

(* An edit of a path is announced or dropped, and an event pulled from the *)
(* queue names its paths until each of them is marked.                     *)
LEMMA EditIsOnItsWay ==
  ASSUME TypeOK, Operator, NEW p \in Paths
  PROVE  /\ Unmarked(p) => Unmarked(p)'
         /\ missed[p] # "no" => missed'[p] # "no"
         /\ missed[p] = "dropped" => missed'[p] = "dropped"
         /\ file'[p] # file[p] => Unmarked(p)' \/ missed'[p] = "dropped"
<1> USE DEF dispatch
<1>1. ASSUME NEW paths \in Seq(Paths), NEW announced \in BOOLEAN, Announce(paths, announced),
             file'[p] # file[p] => p \in Range(paths)
      PROVE  /\ Unmarked(p) => Unmarked(p)'
             /\ missed[p] # "no" => missed'[p] # "no"
             /\ missed[p] = "dropped" => missed'[p] = "dropped"
             /\ file'[p] # file[p] => Unmarked(p)' \/ missed'[p] = "dropped"
  <2>1. UNCHANGED toMark /\ queue \in Seq(Seq(Paths))
    BY <1>1 DEF Announce, TypeOK
  <2>2. CASE announced
    <3>1. queue' = Append(queue, paths) /\ missed'[p] = missed[p]
      BY <1>1, <2>2 DEF Announce, TypeOK
    <3>2. /\ Len(queue') = Len(queue) + 1 /\ queue'[Len(queue) + 1] = paths
          /\ \A i \in 1 .. Len(queue) : queue'[i] = queue[i] /\ i \in 1 .. Len(queue')
          /\ Len(queue) + 1 \in 1 .. Len(queue')
      BY <2>1, <3>1
    <3> QED BY <1>1, <2>1, <3>1, <3>2 DEF Unmarked
  <2>3. CASE ~announced
    <3>1. queue' = queue /\ missed'[p] = IF p \in Range(paths) THEN "dropped" ELSE missed[p]
      BY <1>1, <2>3 DEF Announce, TypeOK
    <3> QED BY <1>1, <2>1, <3>1 DEF Unmarked
  <2> QED BY <2>2, <2>3
<1>2. PICK announced \in BOOLEAN, q \in Paths :
         \/ \E c \in Contents \cup {NoFile} : Save(q, c, announced)
         \/ \E r \in Paths : Rename(q, r, announced)
  BY DEF Operator
<1>3. CASE \E c \in Contents \cup {NoFile} : Save(q, c, announced)
  <2>1. Announce(<<q>>, announced) /\ (file'[p] # file[p] => p = q)
    BY <1>3 DEF Save, TypeOK
  <2>2. <<q>> \in Seq(Paths) /\ q \in Range(<<q>>)
    BY DEF Range
  <2> QED BY <1>1, <2>1, <2>2
<1>4. CASE \E r \in Paths : Rename(q, r, announced)
  <2>1. PICK r \in Paths : Rename(q, r, announced)
    BY <1>4
  <2>2. Announce(<<q, r>>, announced) /\ (file'[p] # file[p] => p \in {q, r})
    BY <2>1 DEF Rename, TypeOK
  <2>3. <<q, r>> \in Seq(Paths) /\ q \in Range(<<q, r>>) /\ r \in Range(<<q, r>>)
    <3>1. DOMAIN <<q, r>> = {1, 2} /\ <<q, r>>[1] = q /\ <<q, r>>[2] = r
      OBVIOUS
    <3> QED BY <3>1 DEF Range
  <2> QED BY <1>1, <2>2, <2>3
<1> QED BY <1>2, <1>3, <1>4

LEMMA PulledIsUnmarked ==
  ASSUME TypeOK, MarkBookkeeping, PullEvent, NEW p \in Paths
  PROVE  Unmarked(p) => Unmarked(p)'
<1> SUFFICES ASSUME Unmarked(p) PROVE Unmarked(p)'
  OBVIOUS
<1>1. /\ toMark = <<>> /\ queue \in Seq(Seq(Paths)) /\ queue # <<>>
      /\ toMark' = Head(queue) /\ queue' = Tail(queue)
  BY DEF PullEvent, TypeOK, MarkBookkeeping
<1>2. PICK i \in 1 .. Len(queue) : p \in Range(queue[i])
  BY <1>1 DEF Unmarked, Range
<1>3. CASE i = 1
  BY <1>1, <1>2, <1>3 DEF Unmarked
<1>4. CASE i # 1
  <2>1. i - 1 \in 1 .. Len(queue') /\ queue'[i - 1] = queue[i]
    BY <1>1, <1>4
  <2> QED BY <1>2, <2>1 DEF Unmarked
<1> QED BY <1>3, <1>4

LEMMA MarkedIsInFlight ==
  ASSUME TypeOK, MarkBookkeeping, MarkInFlight, NEW p \in Paths
  PROVE  Unmarked(p) => Unmarked(p)' \/ p \in inFlight'
<1>1. /\ toMark \in Seq(Paths) /\ toMark # <<>> /\ IsInjective(toMark)
      /\ toMark' = Tail(toMark) /\ inFlight' = inFlight \cup {Head(toMark)}
      /\ UNCHANGED queue
  BY DEF MarkInFlight, TypeOK, MarkBookkeeping, outside
<1>2. Range(toMark') = Range(toMark) \ {Head(toMark)}
  BY <1>1, InjectiveTail
<1> QED BY <1>1, <1>2 DEF Unmarked

-----------------------------------------------------------------------------
(* A visit leaves every other path as it was.                              *)
LEMMA EarnedOther ==
  ASSUME OwnInv, NEW p \in Paths, Visit(p), NEW q \in Paths, q # p, Earned(q)
  PROVE  Earned(q)'
<1> USE DEF outside, dispatch, catalog, pass, visit, seenBy
<1>t. TypeOK /\ CatalogBookkeeping
  BY DEF OwnInv, CatalogInv
<1>1. /\ UNCHANGED <<file, queue, toMark, holder, stage, listed>>
      /\ known'[q] = known[q] /\ lastDelivered'[q] = lastDelivered[q]
      /\ undelivered'[q] = undelivered[q] /\ missed'[q] = missed[q]
      /\ q \in inFlight' <=> q \in inFlight
      /\ q \in todo' <=> q \in todo
      /\ step = "loop" \/ at = p
      /\ at' # q
  <2>1. NoPath # q
    BY DEF NoPath, Paths
  <2>2. CASE OfferCandidate(p) \/ DiscoverNewPath(p)
    BY <2>2, <1>t DEF OfferCandidate, DiscoverNewPath, VisitWith, LookedAt, TypeOK
  <2>3. CASE RefuseCandidate(p) \/ SkipKnownRejection(p) \/ OnRejectionRaises(p)
    BY <2>3 DEF RefuseCandidate, SkipKnownRejection, OnRejectionRaises
  <2>4. CASE OnRejection(p)
    BY <2>4 DEF OnRejection
  <2>5. CASE VisitVanished(p) \/ NothingChanged(p) \/ OnChangeRaises(p)
    BY <2>5 DEF VisitVanished, VisitWith, NothingChanged, OnChangeRaises
  <2>6. CASE OnChange(p)
    BY <2>6, <1>t DEF OnChange, TypeOK
  <2>7. CASE OverflowNotOwed(p) \/ OnOverflow(p) \/ OnOverflowRaises(p)
    BY <2>7, <1>t DEF OverflowNotOwed, OnOverflow, OnOverflowRaises, OverflowStep, TypeOK
  <2>8. CASE Settle(p)
    BY <2>8, <1>t, <2>1 DEF Settle, MarksAfterVisit, TypeOK
  <2> QED BY <2>2, <2>3, <2>4, <2>5, <2>6, <2>7, <2>8 DEF Visit, Deliver
<1>2. /\ Noticed(q)' <=> Noticed(q)
      /\ OnItsWay(q)' <=> OnItsWay(q)
      /\ Baseline(q)' = Baseline(q)
      /\ Agrees(Baseline(q), q)' <=> Agrees(Baseline(q), q)
  BY <1>1 DEF Noticed, OnItsWay, Unmarked, Baseline, Agrees
<1>3. ASSUME holder # "none", Taken(q) PROVE Taken(q)'
  <2>1. q \in Known' <=> q \in Known
    BY <1>1 DEF Known
  <2> QED BY <1>1, <1>2, <1>3, <2>1 DEF Taken
<1> QED BY <1>1, <1>2, <1>3 DEF Earned

(* offer_candidate keeps the document it has only when the bytes are the   *)
(* same, so either way it serves what the file says.                       *)
LEMMA OfferedIsRead ==
  ASSUME TypeOK, NEW p \in Paths, OfferCandidate(p)
  PROVE  Offered(p) = Document(file[p])
<1>1. known[p] \in Documents /\ file[p] \in Contents
  BY ParsedDocument DEF TypeOK, OfferCandidate
<1>2. known[p].digest = file[p] => known[p] = Document(file[p])
  <2>1. EmptyDocument.digest = NoDigest
    BY DEF EmptyDocument
  <2>2. \A c \in Contents : Document(c).digest = c
    BY DEF Document
  <2> QED BY <1>1, <2>1, <2>2, ContentsAssumption DEF Documents
<1> QED BY <1>2 DEF OfferCandidate, Offered, TypeOK

(* What a visit makes of the path it visits.                               *)
LEMMA EarnedVisited ==
  ASSUME OwnInv, OwnBookkeeping, EarnedBookkeeping, NEW p \in Paths, Visit(p)
  PROVE  /\ Earned(p)' /\ todo' \subseteq listed'
         /\ step' = "overflow" /\ delivered' =>
              Reading(Baseline(p)') = Reading(candidate')
         /\ holder' = "periodic" /\ step' \in {"change", "overflow"}
              /\ Reading(previous') # Reading(candidate') => Noticed(p)'
<1> USE DEF outside, dispatch, catalog, pass, visit, seenBy
<1>t. TypeOK /\ TypeOK' /\ CatalogBookkeeping /\ CatalogInv
  BY TypeVisit DEF OwnInv, CatalogInv
<1>e. Earned(p) /\ todo \subseteq listed
  BY DEF EarnedBookkeeping
<1>n. ~Parses(NoFile) /\ p # NoPath
  BY DEF Parses, NoPath, Paths
<1>o. OnItsWay(p) => Noticed(p)
  BY DEF OnItsWay, Noticed
<1>1. CASE OfferCandidate(p) \/ DiscoverNewPath(p)
  <2>1. /\ step = "loop" /\ stage = "present" /\ p \in todo /\ Parses(file[p])
        /\ UNCHANGED <<file, queue, toMark, inFlight, lastDelivered, undelivered, pass>>
        /\ step' = "change" /\ at' = p /\ candidate' = Document(file[p])
        /\ previous' = Baseline(p)
        /\ missed'[p] = IF missed[p] = "dropped" THEN "seen" ELSE missed[p]
    BY <1>1, <1>t, OfferedIsRead
       DEF OfferCandidate, DiscoverNewPath, VisitWith, LookedAt, IsNext, TypeOK
  <2>2. (Noticed(p)' <=> Noticed(p)) /\ Baseline(p)' = Baseline(p)
    BY <2>1 DEF Noticed, Unmarked, Baseline
  <2>3. Taken(p)'
    BY <1>e, <1>n, <2>1 DEF Taken, Agrees
  <2>4. Noticed(p) \/ Reading(Baseline(p)) = Reading(Document(file[p]))
    BY <1>e, <2>1 DEF Earned, Agrees
  <2> QED BY <1>e, <2>1, <2>2, <2>3, <2>4 DEF Earned, Agrees
<1>2. CASE RefuseCandidate(p)
  <2>1. /\ step = "loop" /\ stage = "present" /\ p \in todo /\ ~Parses(file[p])
        /\ UNCHANGED <<file, queue, toMark, inFlight, lastDelivered, undelivered, missed,
                       pass>>
        /\ step' = "refused" /\ at' = p
    BY <1>2 DEF RefuseCandidate, IsNext
  <2>2. (Noticed(p)' <=> Noticed(p)) /\ (OnItsWay(p)' <=> OnItsWay(p))
          /\ Baseline(p)' = Baseline(p)
    BY <2>1 DEF Noticed, OnItsWay, Unmarked, Baseline
  <2>3. ASSUME Taken(p) PROVE Taken(p)'
    BY <1>e, <2>1, <2>3 DEF Taken
  <2> QED BY <1>e, <2>1, <2>2, <2>3 DEF Earned, Agrees
<1>3. CASE SkipKnownRejection(p) \/ OnRejection(p) \/ OnRejectionRaises(p)
  <2>1. /\ step = "refused" /\ step' = "settle" /\ at = p /\ at' = p
        /\ UNCHANGED <<file, queue, toMark, inFlight, lastDelivered, undelivered, missed,
                       pass>>
    BY <1>3 DEF SkipKnownRejection, OnRejection, OnRejectionRaises
  <2>2. (Noticed(p)' <=> Noticed(p)) /\ (OnItsWay(p)' <=> OnItsWay(p))
          /\ Baseline(p)' = Baseline(p)
    BY <2>1 DEF Noticed, OnItsWay, Unmarked, Baseline
  <2>3. p \in todo
    BY <1>t, <2>1 DEF CatalogBookkeeping
  <2>4. ASSUME Taken(p) PROVE Taken(p)'
    BY <1>e, <2>1, <2>3, <2>4 DEF Taken, Agrees
  <2> QED BY <1>e, <2>1, <2>2, <2>4 DEF Earned, Agrees
<1>4. CASE VisitVanished(p)
  <2>1. /\ step = "loop" /\ stage = "vanished" /\ p \in todo
        /\ UNCHANGED <<file, queue, toMark, inFlight, lastDelivered, undelivered, missed,
                       pass>>
        /\ step' = "change" /\ at' = p
        /\ previous' = Baseline(p) /\ candidate' = EmptyDocument
    BY <1>4 DEF VisitVanished, VisitWith, IsNext
  <2>2. (Noticed(p)' <=> Noticed(p)) /\ (OnItsWay(p)' <=> OnItsWay(p))
          /\ Baseline(p)' = Baseline(p)
    BY <2>1 DEF Noticed, OnItsWay, Unmarked, Baseline
  <2>3. holder # "none"
    BY <1>t, <2>1 DEF CatalogBookkeeping
  <2>4. OnItsWay(p) \/ file[p] = NoFile
    BY <1>e, <2>1, <2>3 DEF Earned, Taken
  <2>5. ASSUME file[p] = NoFile PROVE Taken(p)'
    BY <1>e, <1>n, <2>1, <2>5 DEF Taken, Agrees
  <2>6. ASSUME file[p] = NoFile, ~Noticed(p)
        PROVE  Reading(Baseline(p)) = Reading(EmptyDocument)
    BY <1>e, <2>6 DEF Earned, Agrees
  <2> QED BY <1>e, <1>o, <2>1, <2>2, <2>4, <2>5, <2>6 DEF Earned, Agrees
<1>5. CASE NothingChanged(p) \/ OnChangeRaises(p)
  <2>1. /\ step = "change" /\ step' = "overflow" /\ at = p
        /\ UNCHANGED <<file, queue, toMark, inFlight, lastDelivered, undelivered, missed,
                       pass, at, previous, candidate>>
    BY <1>5 DEF NothingChanged, OnChangeRaises
  <2>2. (Noticed(p)' <=> Noticed(p)) /\ (OnItsWay(p)' <=> OnItsWay(p))
          /\ Baseline(p)' = Baseline(p)
    BY <2>1 DEF Noticed, OnItsWay, Unmarked, Baseline
  <2>3. Taken(p) => Taken(p)'
    <3>1. p \in todo /\ p \in listed
      BY <1>t, <1>e, <2>1 DEF CatalogBookkeeping
    <3> QED BY <2>1, <3>1 DEF Taken, Agrees
  <2>4. delivered' => Reading(Baseline(p)') = Reading(candidate')
    <3>1. CASE NothingChanged(p)
      <4>1. replica[p] = Reading(candidate) /\ replica[p] = Reading(Baseline(p))
        BY <1>t, <2>1, <3>1, DeltaFromReplica
           DEF NothingChanged, CatalogInv, ReplicaMatchesBaseline
      <4> QED BY <2>1, <2>2, <4>1
    <3>2. CASE OnChangeRaises(p)
      BY <3>2 DEF OnChangeRaises
    <3> QED BY <1>5, <3>1, <3>2
  <2>5. Agrees(Baseline(p), p)' <=> Agrees(Baseline(p), p)
    BY <2>1, <2>2 DEF Agrees
  <2> QED BY <1>e, <2>1, <2>2, <2>3, <2>4, <2>5 DEF Earned, EarnedBookkeeping
<1>6. CASE OnChange(p)
  <2>1. /\ step = "change" /\ step' = "overflow" /\ at = p
        /\ UNCHANGED <<file, queue, toMark, inFlight, undelivered, missed,
                       pass, at, previous, candidate, known>>
        /\ lastDelivered' = [lastDelivered EXCEPT ![p] = candidate]
    BY <1>6 DEF OnChange
  <2>2. (Noticed(p)' <=> Noticed(p)) /\ (OnItsWay(p)' <=> OnItsWay(p))
    BY <2>1 DEF Noticed, OnItsWay, Unmarked
  <2>3. Baseline(p)' = candidate
    <3>1. candidate # NotDelivered /\ lastDelivered'[p] = candidate
      BY <1>t, <2>1, WatchAssumption DEF TypeOK
    <3> QED BY <3>1 DEF Baseline
  <2>4. p \in todo /\ p \in listed /\ holder # "none"
    BY <1>t, <1>e, <2>1 DEF CatalogBookkeeping
  <2>5. Taken(p) => Taken(p)' /\ Agrees(candidate, p)
    BY <2>1, <2>4 DEF Taken, Agrees
  <2>6. Agrees(Baseline(p), p)' <=> Agrees(candidate, p)
    BY <2>1, <2>3 DEF Agrees
  <2> QED BY <1>e, <1>o, <2>1, <2>2, <2>3, <2>4, <2>5, <2>6 DEF Earned, EarnedBookkeeping
<1>7. CASE OverflowNotOwed(p) \/ OnOverflow(p) \/ OnOverflowRaises(p)
  <2>1. /\ step = "overflow" /\ step' = "settle" /\ at = p
        /\ UNCHANGED <<file, queue, toMark, inFlight, lastDelivered, missed, pass, visit,
                       known>>
        /\ undelivered'[p] = "no" => delivered
    BY <1>7, <1>t DEF OverflowNotOwed, OnOverflow, OnOverflowRaises, OverflowStep, TypeOK
  <2>2. (OnItsWay(p)' <=> OnItsWay(p)) /\ Baseline(p)' = Baseline(p)
    BY <2>1 DEF OnItsWay, Unmarked, Baseline
  <2>3. p \in todo /\ holder # "none"
    BY <1>t, <2>1 DEF CatalogBookkeeping
  <2>4. delivered => Reading(Baseline(p)) = Reading(candidate)
    BY <2>1 DEF EarnedBookkeeping
  <2>5. Taken(p) => undelivered'[p] # "no" \/ Agrees(Baseline(p), p)'
    BY <2>1, <2>2, <2>4 DEF Taken, Agrees
  <2>6. Taken(p) => Taken(p)'
    BY <1>e, <2>1, <2>3, <2>5 DEF Taken
  <2>7. OnItsWay(p)' => Noticed(p)'
    BY DEF OnItsWay, Noticed
  <2>8. Noticed(p)' \/ Agrees(Baseline(p), p)'
    BY <1>e, <2>2, <2>3, <2>5, <2>7 DEF Earned, Noticed
  <2> QED BY <1>e, <2>1, <2>2, <2>6, <2>8 DEF Earned
<1>8. CASE Settle(p)
  <2>1. /\ step = "settle" /\ step' = "loop" /\ at = p /\ at' = NoPath
        /\ todo' = todo \ {p}
        /\ UNCHANGED <<file, queue, toMark, undelivered, holder, stage, listed>>
        /\ missed'[p] = IF missed[p] = "seen" THEN "no" ELSE missed[p]
        /\ holder = "periodic" => inFlight' = inFlight
    BY <1>8, <1>t DEF Settle, MarksAfterVisit, Periodic, TypeOK
  <2>2. p \in todo /\ holder # "none"
    BY <1>t, <2>1 DEF CatalogBookkeeping
  <2>3. Reading(Baseline(p)') = Reading(Baseline(p))
    <3>1. CASE Forgettable(p)
      <4>1. lastDelivered'[p] = NotDelivered
        BY <1>8, <1>t, <3>1 DEF Settle, TypeOK
      <4>2. Reading(Baseline(p)) = Reading(EmptyDocument)
        BY <1>t, <2>1, <3>1 DEF Forgettable, CatalogBookkeeping
      <4> QED BY <4>1, <4>2 DEF Baseline
    <3>2. CASE ~Forgettable(p)
      <4>1. UNCHANGED lastDelivered
        BY <1>8, <3>2 DEF Settle
      <4> QED BY <4>1 DEF Baseline
    <3> QED BY <3>1, <3>2
  <2>4. Agrees(Baseline(p), p)' <=> Agrees(Baseline(p), p)
    BY <2>1, <2>3 DEF Agrees
  <2>5. p \in listed /\ p \notin todo'
    BY <1>e, <2>1, <2>2
  <2>6. Taken(p) => Taken(p)' /\ (Noticed(p)' \/ Agrees(Baseline(p), p)')
    <3>1. Taken(p) => undelivered[p] # "no" \/ Agrees(Baseline(p), p)
      BY <2>1, <2>5 DEF Taken
    <3>2. undelivered[p] # "no" \/ Agrees(Baseline(p), p)
             => Taken(p)' /\ (Noticed(p)' \/ Agrees(Baseline(p), p)')
      BY <1>n, <2>1, <2>4, <2>5 DEF Taken, Noticed
    <3> QED BY <3>1, <3>2
  <2>7. OnItsWay(p) => OnItsWay(p)' /\ Noticed(p)'
    BY <2>1, <2>2 DEF OnItsWay, Noticed, Unmarked, OwnBookkeeping
  <2> QED BY <1>e, <2>1, <2>2, <2>6, <2>7 DEF Earned
<1> QED BY <1>1, <1>2, <1>3, <1>4, <1>5, <1>6, <1>7, <1>8 DEF Visit, Deliver

LEMMA EarnedStep == EarnedInv /\ [Next]_vars => EarnedInv'
<1> SUFFICES ASSUME EarnedInv, [Next]_vars, ~CallerRechecks PROVE EarnedBookkeeping'
  BY OwnStep DEF EarnedInv
<1> USE DEF outside, dispatch, catalog, pass, visit, seenBy
<1>0. OwnInv /\ OwnBookkeeping /\ EarnedBookkeeping
  BY DEF EarnedInv, OwnInv
<1>t. TypeOK /\ CatalogBookkeeping /\ MarkBookkeeping
  BY <1>0 DEF OwnInv, CatalogInv, MarkInv
<1>1. CASE Operator
  <2>1. /\ UNCHANGED <<inFlight, holder, stage, listed, todo, step, at, candidate, previous,
                       delivered, known, lastDelivered>>
        /\ \A p \in Paths : undelivered[p] # "no" => undelivered'[p] # "no"
    BY <1>1, <1>t DEF Operator, Save, Rename, Announce, TypeOK
  <2>2. ASSUME NEW p \in Paths
        PROVE  /\ Noticed(p) => Noticed(p)'
               /\ OnItsWay(p) => OnItsWay(p)'
               /\ file'[p] # file[p] => OnItsWay(p)' /\ Noticed(p)'
    BY <1>1, <1>t, <2>1, EditIsOnItsWay DEF Noticed, OnItsWay
  <2>3. ASSUME NEW p \in Paths, file'[p] = file[p]
        PROVE  /\ Agrees(Baseline(p), p)' <=> Agrees(Baseline(p), p)
               /\ Taken(p) => Taken(p)'
    <3>1. /\ Agrees(Baseline(p), p)' <=> Agrees(Baseline(p), p)
          /\ Agrees(candidate, p)' <=> Agrees(candidate, p)
      BY <2>1, <2>3 DEF Agrees, Baseline
    <3>2. Known' = Known
      BY <2>1 DEF Known
    <3> QED BY <2>1, <2>3, <3>1, <3>2 DEF Taken
  <2>4. ASSUME NEW p \in Paths PROVE Earned(p)'
    BY <1>0, <2>1, <2>2, <2>3 DEF Earned, EarnedBookkeeping
  <2>5. step \in {"change", "overflow"} => at \in Paths
    BY <1>t DEF CatalogBookkeeping, TypeOK
  <2>6. Noticed(at) /\ at \in Paths => Noticed(at)'
    BY <2>1, <2>2
  <2> QED BY <1>0, <2>1, <2>4, <2>5, <2>6 DEF EarnedBookkeeping, Baseline
<1>2. CASE PullEvent \/ MarkInFlight \/ UNCHANGED vars
  <2>1. UNCHANGED <<file, holder, stage, listed, todo, step, at, candidate, previous,
                    delivered, known, lastDelivered, undelivered, missed>>
    BY <1>2 DEF PullEvent, MarkInFlight, vars
  <2>2. ASSUME NEW p \in Paths
        PROVE  /\ Unmarked(p) => Unmarked(p)' \/ p \in inFlight'
               /\ p \in inFlight => p \in inFlight'
    <3>1. CASE PullEvent
      BY <1>t, <3>1, PulledIsUnmarked DEF PullEvent
    <3>2. CASE MarkInFlight
      BY <1>t, <3>2, MarkedIsInFlight DEF MarkInFlight
    <3>3. CASE UNCHANGED vars
      BY <3>3 DEF vars, Unmarked
    <3> QED BY <1>2, <3>1, <3>2, <3>3
  <2>3. holder = "observer" => \A p \in Paths : Unmarked(p) => Unmarked(p)'
    <3>1. holder = "observer" => UNCHANGED vars
      BY <1>2, <1>t DEF PullEvent, MarkInFlight, MarkBookkeeping
    <3> QED BY <3>1 DEF vars, Unmarked
  <2>4. ASSUME NEW p \in Paths
        PROVE  (Noticed(p) => Noticed(p)') /\ (OnItsWay(p) => OnItsWay(p)')
    BY <2>1, <2>2, <2>3 DEF Noticed, OnItsWay
  <2>5. ASSUME NEW p \in Paths PROVE Earned(p)'
    <3>1. Agrees(Baseline(p), p)' <=> Agrees(Baseline(p), p)
      BY <2>1 DEF Agrees, Baseline
    <3>2. Taken(p) => Taken(p)'
      BY <2>1, <3>1 DEF Taken, Agrees, Known
    <3> QED BY <1>0, <2>1, <2>4, <3>1, <3>2 DEF Earned, EarnedBookkeeping
  <2>6. step \in {"change", "overflow"} => at \in Paths
    BY <1>t DEF CatalogBookkeeping, TypeOK
  <2>7. Noticed(at) /\ at \in Paths => Noticed(at)'
    BY <2>1, <2>4
  <2> QED BY <1>0, <2>1, <2>5, <2>6, <2>7 DEF EarnedBookkeeping, Baseline
<1>3. CASE BeginEventRecheck \/ BeginPeriodicRecheck \/ BeginCallerRecheck
  <2>1. /\ UNCHANGED <<file, queue, toMark, inFlight, stage, lastDelivered, undelivered>>
        /\ holder = "none" /\ step' = "loop"
        /\ listed' = {p \in Paths : file[p] # NoFile} /\ todo' = listed'
        /\ \A p \in Paths : missed'[p] # "no" <=> missed[p] # "no"
    BY <1>3, <1>t
       DEF BeginEventRecheck, BeginPeriodicRecheck, BeginCallerRecheck, BeginRecheck, TypeOK
  <2>2. stage = "present"
    BY <1>t, <2>1 DEF CatalogBookkeeping
  <2>3. ASSUME NEW p \in Paths PROVE Earned(p)'
    <3>1. Noticed(p)' <=> Noticed(p)
      BY <2>1 DEF Noticed, Unmarked
    <3>2. Agrees(Baseline(p), p)' <=> Agrees(Baseline(p), p)
      BY <2>1 DEF Agrees, Baseline
    <3>3. Taken(p)'
      BY <2>1, <2>2 DEF Taken
    <3> QED BY <1>0, <3>1, <3>2, <3>3 DEF Earned, EarnedBookkeeping
  <2> QED BY <2>1, <2>3 DEF EarnedBookkeeping
<1>4. CASE TurnToVanished
  <2>1. /\ UNCHANGED <<file, queue, toMark, inFlight, holder, step, known, lastDelivered,
                       undelivered, missed>>
        /\ step = "loop" /\ stage = "present" /\ todo = {} /\ stage' = "vanished"
        /\ todo' = Known \ listed /\ listed' = listed \cup Known
    BY <1>4 DEF TurnToVanished
  <2>2. ASSUME NEW p \in Paths PROVE Earned(p)'
    <3>1. (Noticed(p)' <=> Noticed(p)) /\ (OnItsWay(p)' <=> OnItsWay(p))
      BY <2>1 DEF Noticed, OnItsWay, Unmarked
    <3>2. Agrees(Baseline(p), p)' <=> Agrees(Baseline(p), p)
      BY <2>1 DEF Agrees, Baseline
    <3>3. Taken(p) => Taken(p)'
      BY <2>1, <3>2 DEF Taken, Known
    <3> QED BY <1>0, <2>1, <3>1, <3>2, <3>3 DEF Earned, EarnedBookkeeping
  <2> QED BY <2>1, <2>2 DEF EarnedBookkeeping
<1>5. CASE EndRecheck
  <2>1. /\ UNCHANGED <<file, queue, toMark, todo, lastDelivered, undelivered>>
        /\ step = "loop" /\ stage = "vanished" /\ todo = {}
        /\ holder' = "none" /\ step' = "released"
        /\ holder = "periodic" => inFlight' = inFlight
        /\ \A p \in Paths : missed[p] = "dropped" => missed'[p] = "dropped"
    BY <1>5, <1>t DEF EndRecheck, Periodic, TypeOK
  <2>2. holder # "none"
    BY <1>t, <2>1 DEF CatalogBookkeeping
  <2>3. ASSUME NEW p \in Paths PROVE Earned(p)'
    <3>1. Agrees(Baseline(p), p)' <=> Agrees(Baseline(p), p)
      BY <2>1 DEF Agrees, Baseline
    <3>2. OnItsWay(p) => Noticed(p)'
      BY <1>0, <2>1, <2>2 DEF OnItsWay, Noticed, Unmarked, OwnBookkeeping
    <3>3. ASSUME Taken(p), p \in listed PROVE Noticed(p)' \/ Agrees(Baseline(p), p)
      BY <2>1, <3>3 DEF Taken, Noticed
    <3>4. ASSUME Taken(p), p \notin listed PROVE Agrees(Baseline(p), p)
      <4>1. file[p] = NoFile /\ p \notin Known
        BY <2>1, <3>4 DEF Taken
      <4>2. Baseline(p) = EmptyDocument
        BY <1>t, <4>1 DEF CatalogBookkeeping, Known, Baseline
      <4> QED BY <4>1, <4>2 DEF Agrees, Parses
    <3> QED BY <1>0, <2>1, <2>2, <3>1, <3>2, <3>3, <3>4 DEF Earned, EarnedBookkeeping
  <2> QED BY <2>1, <2>3 DEF EarnedBookkeeping
<1>6. CASE \E p \in Paths : Visit(p)
  <2>1. PICK p \in Paths : Visit(p)
    BY <1>6
  <2>2. \A q \in Paths : Earned(q)'
    BY <1>0, <2>1, EarnedOther, EarnedVisited DEF EarnedBookkeeping
  <2>3. step' \in {"change", "overflow"} => at' = p
    BY <2>1 DEF Visit, Deliver, OfferCandidate, DiscoverNewPath, RefuseCandidate,
         SkipKnownRejection, OnRejection, OnRejectionRaises, VisitVanished, VisitWith,
         NothingChanged, OnChange, OnChangeRaises, OverflowNotOwed, OnOverflow,
         OnOverflowRaises, OverflowStep, Settle
  <2> QED BY <1>0, <2>1, <2>2, <2>3, EarnedVisited DEF EarnedBookkeeping, Baseline
<1> QED BY <1>1, <1>2, <1>3, <1>4, <1>5, <1>6 DEF Next, RecheckStep

(* As long as nobody but the two threads rechecks, a first on_overflow is  *)
(* taken only for a path one of whose events was dropped or is still on    *)
(* its way to its mark, or whose on_change raised.                         *)
THEOREM AlarmsAreEarned == ~CallerRechecks => (Spec => AlarmIsEarned)
<1> SUFFICES ASSUME ~CallerRechecks PROVE Spec => AlarmIsEarned
  OBVIOUS
<1> DEFINE earned == \A p \in Paths : Alarm(p) => missed[p] # "no" \/ Unmarked(p)
                                                \/ undelivered[p] # "no"
<1>1. ASSUME EarnedInv, [Next]_vars PROVE [earned]_vars
  <2> SUFFICES ASSUME NEW p \in Paths, Alarm(p), ~(UNCHANGED vars)
               PROVE  missed[p] # "no" \/ Unmarked(p) \/ undelivered[p] # "no"
    OBVIOUS
  <2>1. EarnedBookkeeping /\ CatalogInv
    BY <1>1 DEF EarnedInv, OwnInv
  <2>2. step = "overflow" /\ at = p /\ holder = "periodic" /\ Delta # {} /\ p \notin inFlight
    BY DEF Alarm, OnOverflow, OnOverflowRaises, OverflowStep, OverflowOwed, BackstopFoundIt,
           Periodic
  <2>3. previous \in Documents /\ candidate \in Documents
    BY <2>1 DEF CatalogInv, TypeOK
  <2>4. Reading(previous) # Reading(candidate)
    BY <2>2, <2>3, NoChangesSameReading DEF Delta
  <2> QED BY <2>1, <2>2, <2>4 DEF EarnedBookkeeping, Noticed
<1> QED BY <1>1, EarnedInit, EarnedStep, PTL DEF Spec, AlarmIsEarned

-----------------------------------------------------------------------------
(* The refinement: every step of the watch is a step of the feed.  The     *)
(* feed's notion of a document is the watch's.                             *)
LEMMA FeedDocuments ==
  /\ Feed!EmptyDocument = EmptyDocument
  /\ \A c : (Feed!Parses(c) <=> Parses(c)) /\ Feed!Document(c) = Document(c)
  /\ \A d : Feed!Reading(d) = Reading(d)
<1>1. Feed!EmptyDocument = EmptyDocument
  BY DEF Feed!EmptyDocument, EmptyDocument, Feed!ABSENT_VALUE, ABSENT_VALUE
<1>2. ASSUME NEW c PROVE (Feed!Parses(c) <=> Parses(c)) /\ Feed!Document(c) = Document(c)
  BY DEF Feed!Parses, Parses, Feed!Document, Document, Feed!REQUIRED_ENTRY_KEYS,
         REQUIRED_ENTRY_KEYS
<1>3. ASSUME NEW d PROVE Feed!Reading(d) = Reading(d)
  <2>1. \A f : Feed!Text(d, f) = Text(d, f)
    BY DEF Feed!Text, Text, Feed!ABSENT_VALUE, ABSENT_VALUE
  <2> QED BY <2>1 DEF Feed!Reading, Reading
<1> QED BY <1>1, <1>2, <1>3

LEMMA FeedInitially == Init => Feed!FeedInit
<1> SUFFICES ASSUME Init PROVE Feed!FeedInit
  OBVIOUS
<1>1. Seen = [p \in Paths |-> NotLooked]
  BY DEF Init, Seen
<1>2. \A p \in Paths : Baseline(p) = IF Parses(file[p]) THEN Document(file[p]) ELSE EmptyDocument
  BY TypeInit, ParsedDocument, WatchAssumption DEF Init, Baseline
<1>3. \A p \in Paths : Reading(Baseline(p)) = IF Parses(file[p]) THEN Reading(Document(file[p]))
                                                         ELSE Reading(EmptyDocument)
  BY <1>2
<1>4. replica = [p \in Paths |-> IF Parses(file[p]) THEN Reading(Document(file[p]))
                                                   ELSE Reading(EmptyDocument)]
  BY <1>3 DEF Init
<1> QED BY <1>1, <1>4, FeedDocuments DEF Feed!FeedInit, Init

(* A step after which the watch holds the same looks and the listener the  *)
(* same view is a step of the feed if the files keep their type.           *)
LEMMA FeedUnmoved ==
  ASSUME TypeOK', Seen' = Seen, replica' = replica
  PROVE  [Feed!FeedNext]_Feed!feedVars
<1>1. file' \in [Paths -> Contents \cup {NoFile}]
  BY DEF TypeOK
<1> QED BY <1>1 DEF Feed!FeedNext, Feed!Change

LEMMA FeedVisit ==
  ASSUME CatalogInv, TypeOK', NEW p \in Paths, Visit(p)
  PROVE  [Feed!FeedNext]_Feed!feedVars
<1> USE DEF outside, dispatch, catalog, pass, visit, seenBy
<1>t. TypeOK
  BY DEF CatalogInv
<1>1. CASE OfferCandidate(p) \/ DiscoverNewPath(p)
  <2>1. /\ step = "loop" /\ stage = "present" /\ p \in todo /\ Parses(file[p])
        /\ UNCHANGED <<file, replica, holder, stage, listed, todo>>
        /\ step' = "change" /\ at' = p /\ candidate' = Document(file[p])
    BY <1>1, <1>t, OfferedIsRead
       DEF OfferCandidate, DiscoverNewPath, VisitWith, LookedAt, IsNext
  <2>2. file[p] # NoFile
    BY <2>1 DEF Parses
  <2>3. Seen' = [q \in Paths |-> IF q \in {p} THEN Feed!Sight(file[q]) ELSE Seen[q]]
    BY <2>1, <2>2, FeedDocuments DEF Seen, Feed!Sight
  <2>4. Feed!Look({p})
    BY <2>1, <2>3, FeedDocuments DEF Feed!Look
  <2> QED BY <2>4 DEF Feed!FeedNext
<1>2. CASE RefuseCandidate(p) \/ SkipKnownRejection(p) \/ OnRejection(p)
           \/ OnRejectionRaises(p)
  <2>1. /\ UNCHANGED <<replica, holder, stage, listed, todo>>
        /\ step \in {"loop", "refused"} /\ step' \in {"refused", "settle"}
    BY <1>2 DEF RefuseCandidate, SkipKnownRejection, OnRejection, OnRejectionRaises
  <2>2. Seen' = Seen
    BY <2>1 DEF Seen
  <2> QED BY <2>1, <2>2, FeedUnmoved
<1>3. CASE VisitVanished(p)
  <2>1. /\ UNCHANGED <<replica, holder, stage, listed, todo>>
        /\ stage = "vanished" /\ p \in todo
        /\ step = "loop" /\ step' = "change" /\ at' = p /\ candidate' = EmptyDocument
    BY <1>3 DEF VisitVanished, VisitWith, IsNext
  <2>2. Seen' = Seen
    BY <2>1 DEF Seen
  <2> QED BY <2>1, <2>2, FeedUnmoved
<1>4. CASE NothingChanged(p) \/ OnChangeRaises(p)
  <2>1. /\ UNCHANGED <<replica, holder, stage, listed, todo, at, candidate>>
        /\ step = "change" /\ step' = "overflow"
    BY <1>4 DEF NothingChanged, OnChangeRaises
  <2>2. Seen' = Seen
    BY <2>1 DEF Seen
  <2> QED BY <2>1, <2>2, FeedUnmoved
<1>5. CASE OnChange(p)
  <2>1. /\ UNCHANGED <<file, holder, stage, listed, todo, at, candidate>>
        /\ step = "change" /\ step' = "overflow" /\ at = p /\ Delta # {}
        /\ replica' = [replica EXCEPT ![p] = Apply(@, Delta)]
    BY <1>5 DEF OnChange
  <2>2. Seen' = Seen /\ Seen[p] = candidate
    BY <2>1 DEF Seen
  <2>3. candidate # NotLooked
    BY <1>t, WatchAssumption DEF TypeOK, NotLooked
  <2>4. Apply(replica[p], Delta) = Reading(candidate) /\ replica[p] # Reading(candidate)
    BY <2>1, DeltaFromReplica
  <2>5. Feed!Publish(p)
    BY <2>1, <2>2, <2>3, <2>4, FeedDocuments DEF Feed!Publish
  <2> QED BY <2>5 DEF Feed!FeedNext
<1>6. CASE OverflowNotOwed(p) \/ OnOverflow(p) \/ OnOverflowRaises(p)
  <2>1. /\ UNCHANGED <<file, replica, holder, stage, listed, todo, at, candidate>>
        /\ step = "overflow" /\ step' = "settle" /\ at = p
    BY <1>6 DEF OverflowNotOwed, OnOverflow, OnOverflowRaises, OverflowStep
  <2>2. p \in todo
    BY <2>1 DEF CatalogInv, CatalogBookkeeping
  <2>3. CASE stage = "present"
    <3>1. p \in listed
      BY <2>2, <2>3 DEF CatalogInv, CatalogBookkeeping
    <3>2. Seen' = [q \in Paths |-> IF q \in {p} THEN NotLooked ELSE Seen[q]]
      BY <2>1, <2>3, <3>1 DEF Seen
    <3>3. Feed!Drop({p})
      BY <2>1, <3>2 DEF Feed!Drop
    <3> QED BY <3>3 DEF Feed!FeedNext
  <2>4. CASE stage = "vanished"
    <3>1. candidate = EmptyDocument
      BY <2>1, <2>4 DEF CatalogInv, CatalogBookkeeping
    <3>2. Seen' = Seen
      BY <2>1, <2>2, <2>4, <3>1 DEF Seen
    <3> QED BY <2>1, <3>2, FeedUnmoved
  <2> QED BY <1>t, <2>3, <2>4 DEF TypeOK
<1>7. CASE Settle(p)
  <2>1. /\ UNCHANGED <<file, replica, holder, stage, listed>>
        /\ step = "settle" /\ step' = "loop" /\ todo' = todo \ {p}
    BY <1>7 DEF Settle
  <2>2. CASE stage = "present"
    <3>1. Seen' = Seen
      BY <2>1, <2>2 DEF Seen
    <3> QED BY <2>1, <3>1, FeedUnmoved
  <2>3. CASE stage = "vanished"
    <3>1. Seen' = [q \in Paths |-> IF q \in {p} THEN NotLooked ELSE Seen[q]]
      BY <2>1, <2>3 DEF Seen
    <3>2. Feed!Drop({p})
      BY <2>1, <3>1 DEF Feed!Drop
    <3> QED BY <3>2 DEF Feed!FeedNext
  <2> QED BY <1>t, <2>2, <2>3 DEF TypeOK
<1> QED BY <1>1, <1>2, <1>3, <1>4, <1>5, <1>6, <1>7 DEF Visit, Deliver

LEMMA FeedStep ==
  ASSUME CatalogInv, CatalogInv', [Next]_vars
  PROVE  [Feed!FeedNext]_Feed!feedVars
<1> USE DEF outside, dispatch, catalog, pass, visit, seenBy
<1>t. TypeOK /\ TypeOK'
  BY DEF CatalogInv
<1>1. CASE Operator \/ PullEvent \/ MarkInFlight \/ UNCHANGED vars
  <2>1. UNCHANGED <<pass, step, at, candidate, replica>>
    BY <1>1 DEF Operator, Save, Rename, Announce, PullEvent, MarkInFlight, vars
  <2>2. Seen' = Seen
    BY <2>1 DEF Seen
  <2> QED BY <1>t, <2>1, <2>2, FeedUnmoved
<1>2. CASE BeginEventRecheck \/ BeginPeriodicRecheck \/ BeginCallerRecheck
  <2> DEFINE absent == {p \in Paths : file[p] = NoFile}
  <2>1. /\ UNCHANGED <<file, replica, stage>>
        /\ holder = "none" /\ holder' # "none" /\ step' = "loop"
        /\ listed' = {p \in Paths : file[p] # NoFile}
    BY <1>2 DEF BeginEventRecheck, BeginPeriodicRecheck, BeginCallerRecheck, BeginRecheck
  <2>2. stage = "present" /\ step = "released"
    BY <2>1 DEF CatalogInv, CatalogBookkeeping
  <2>3. Seen' = [p \in Paths |-> IF p \in absent THEN Feed!Sight(file[p]) ELSE Seen[p]]
    BY <2>1, <2>2, FeedDocuments DEF Seen, Feed!Sight
  <2>4. Feed!Look(absent)
    BY <2>1, <2>3, FeedDocuments DEF Feed!Look
  <2> QED BY <2>4 DEF Feed!FeedNext
<1>3. CASE TurnToVanished
  <2> DEFINE present == Paths \ todo'
  <2>1. /\ UNCHANGED <<file, replica, holder, step>>
        /\ step = "loop" /\ stage = "present" /\ stage' = "vanished"
        /\ todo' = Known \ listed
    BY <1>3 DEF TurnToVanished
  <2>2. holder # "none"
    BY <2>1 DEF CatalogInv, CatalogBookkeeping
  <2>3. Seen' = [p \in Paths |-> IF p \in present THEN NotLooked ELSE Seen[p]]
    BY <2>1, <2>2 DEF Seen
  <2>4. Feed!Drop(present)
    BY <2>1, <2>3 DEF Feed!Drop
  <2> QED BY <2>4 DEF Feed!FeedNext
<1>4. CASE EndRecheck
  <2>1. /\ replica' = replica /\ stage = "vanished" /\ todo = {} /\ step = "loop"
        /\ holder' = "none" /\ stage' = "present" /\ step' = "released"
    BY <1>4 DEF EndRecheck
  <2>2. Seen' = Seen
    BY <2>1 DEF Seen
  <2> QED BY <1>t, <2>1, <2>2, FeedUnmoved
<1>5. CASE \E p \in Paths : Visit(p)
  BY <1>5, <1>t, FeedVisit
<1> QED BY <1>1, <1>2, <1>3, <1>4, <1>5 DEF Next, RecheckStep

(* The watch implements SettingsFeed: its listeners are told only what the *)
(* files held, in the order they held it, and never nothing.               *)
THEOREM WatchImplementsFeed == Spec => ImplementsFeed
<1> QED BY FeedInitially, FeedStep, CatalogAlways, PTL DEF Spec, ImplementsFeed, Feed!FeedSpec
=============================================================================
