---------------------- MODULE SettingsWatchProperties -----------------------
(***************************************************************************)
(* What SettingsWatch is checked for.  Line numbers are those of           *)
(* runtime/settings_watcher.py.                                            *)
(***************************************************************************)
EXTENDS SettingsWatch

(***************************************************************************)
(* Fairness.  The backstop's thread waits recheck_interval_seconds and     *)
(* then takes the lock, and whoever holds the lock runs to its end.  A     *)
(* callback that is tried again and again succeeds in the end: it is a     *)
(* transient failure of the store, the one the module provides for.  The   *)
(* lock is free between two ticks of the backstop, so a dispatcher that    *)
(* waits for it gets it.  Nothing is assumed of the operator or the        *)
(* kernel: every event may be dropped.                                     *)
(***************************************************************************)
Fairness == /\ WF_vars(BeginPeriodicRecheck)
            /\ WF_vars(RecheckStep)
            /\ WF_vars(PullEvent) /\ WF_vars(MarkInFlight)
            /\ SF_vars(BeginEventRecheck)
            /\ \A p \in Paths : /\ SF_vars(OnChange(p))
                               /\ SF_vars(OnOverflow(p))
                               /\ SF_vars(OnRejection(p))

FairSpec == Spec /\ Fairness

-----------------------------------------------------------------------------
(* Every variable keeps its type, and the visit's variables are at rest    *)
(* whenever no visit is under way.                                         *)
TypeOK ==
  /\ file \in [Paths -> Contents \cup {NoFile}]
  /\ edits \in 0 .. MaxEdits
  /\ queue \in Seq(Seq(Paths))
  /\ dispatcher \in {"idle", "marking", "waiting", "rechecking"}
  /\ event \in SUBSET Paths
  /\ toMark \in Seq(Paths)
  /\ known \in [Paths -> Documents \cup {NotKnown}]
  /\ lastDelivered \in [Paths -> Documents \cup {NotDelivered}]
  /\ pendingOverflow \in SUBSET Paths
  /\ reportedDigest \in [Paths -> DedupKeys \cup {NoDedup}]
  /\ inFlight \in SUBSET Paths
  /\ holder \in {"none", "observer", "periodic", "caller"}
  /\ step \in {"released", "loop", "refused", "change", "overflow", "settle"}
  /\ stage \in {"present", "vanished"}
  /\ listed \in SUBSET Paths
  /\ todo \in SUBSET Paths
  /\ at \in Paths \cup {NoPath}
  /\ previous \in Documents
  /\ candidate \in Documents
  /\ refused \in Contents \cup {NoFile}
  /\ delivered \in BOOLEAN
  /\ replica \in [Paths -> [Fields -> Values]]
  /\ missed \in [Paths -> {"no", "dropped", "seen"}]
  /\ undelivered \in [Paths -> {"no", "owed", "alarmed"}]
  /\ reports \in [Paths -> 0 .. 3]
  /\ sinceStart \in SUBSET Paths
  /\ told \in [Paths -> SUBSET (Contents \cup {NoFile})]

(* What the listener has been told of a path, change by change, is what    *)
(* the watch believes it delivered: no change lost, repeated or reordered, *)
(* whichever thread found it and whichever callbacks raised (374-458).     *)
ReplicaMatchesBaseline == \A p \in Paths : replica[p] = Reading(Baseline(p))

(* The old side of every change about to be handed out is the value the    *)
(* listener holds, so the journal's changes chain (compare_settings_       *)
(* documents against _delivered_baseline_for, never against current).      *)
ChangesChain == step = "change" => \A c \in Delta : c.old_value = replica[at][c.field]

(* A path the catalog has dropped is one whose removal the listener has    *)
(* been told of: forgetting is gated on delivery (374-386).                *)
ForgottenOnlyOnceTold ==
  \A p \in Paths : known[p] = NotKnown => replica[p] = Reading(EmptyDocument)

(* A path whose on_overflow is owed stays in the catalog, where some later *)
(* pass can still reach it (379-386).                                      *)
OwedOverflowStaysReachable == pendingOverflow \subseteq Known

(* No in-flight mark outlives the event that set it: a leaked mark would   *)
(* silence on_overflow for that path for good (307-317, 331-338).          *)
NoMarkOutlivesItsEvent == inFlight \subseteq event \ Range(toMark)

(* "Only the event's own recheck clears the mark" (39-40): as long as      *)
(* nobody but the two threads rechecks, a marked path stays marked until   *)
(* the dispatcher holds the lock, whatever passes of the backstop end in   *)
(* between.                                                                *)
OnlyOwnRecheckClearsMark ==
  ~CallerRechecks /\ dispatcher # "rechecking" => event \ Range(toMark) \subseteq inFlight

(* The bookkeeping of a recheck under way that the four invariants above   *)
(* rest on: a visit diffs against the baseline of the path it visits, only *)
(* catalogued paths reach _deliver_diff, and a vanished path whose removal *)
(* was delivered reads as empty before it is forgotten (319-458).          *)
CatalogBookkeeping ==
  /\ holder = "none" <=> step = "released"
  /\ holder = "none" => stage = "present"
  /\ \A p \in Paths : known[p] = NotKnown => lastDelivered[p] = NotDelivered
  /\ step \in {"refused", "change", "overflow", "settle"} => at \in todo
  /\ stage = "present" => todo \subseteq listed
  /\ step \in {"change", "overflow"} => at \in Known
  /\ step = "change" => previous = Baseline(at)
  /\ stage = "vanished" =>
       /\ todo \subseteq Known
       /\ step # "refused"
       /\ step \in {"change", "overflow"} => candidate = EmptyDocument
       /\ step \in {"overflow", "settle"} /\ delivered =>
            Reading(Baseline(at)) = Reading(EmptyDocument)

(* The dispatcher and the marks it sets: it marks every path of its event  *)
(* once, holds the lock only while it rechecks, and its own pass has left  *)
(* no mark on a path it has listed and settled (153-163, 295-338).         *)
MarkBookkeeping ==
  /\ \A i \in 1 .. Len(queue) : IsInjective(queue[i])
  /\ IsInjective(toMark)
  /\ Range(toMark) \subseteq event
  /\ inFlight \subseteq event \ Range(toMark)
  /\ dispatcher = "idle" => event = {}
  /\ dispatcher \in {"idle", "waiting", "rechecking"} => toMark = <<>>
  /\ holder = "observer" => /\ dispatcher = "rechecking"
                            /\ inFlight \cap listed \subseteq todo

(* An event naming p that the dispatcher has not yet marked: the window in *)
(* which the module documents a false alarm.                               *)
Unmarked(p) == \/ \E i \in 1 .. Len(queue) : p \in Range(queue[i])
               \/ p \in Range(toMark)

Alarm(p) == (OnOverflow(p) \/ OnOverflowRaises(p)) /\ p \notin pendingOverflow

(* A first on_overflow for p means an event of p was dropped, is still on  *)
(* its way to its mark, or an earlier on_change for p raised (28-49).      *)
AlarmIsEarned ==
  [][\A p \in Paths : Alarm(p) => missed[p] # "no" \/ Unmarked(p)
                                \/ undelivered[p] # "no"]_vars

(* "a failure of one must never cause the other, which may already have    *)
(* succeeded, to be redelivered" (418-420): on_overflow, taken for a diff  *)
(* whose on_change raised, is not called again for that diff.              *)
OverflowNotRedelivered ==
  [][\A p \in Paths : Alarm(p) => undelivered[p] # "alarmed"]_vars

(* "so a standing broken file is reported once, not once per recheck"      *)
(* (199-200): however many passes of either thread look at it, content that*)
(* stands unchanged is reported once, unless it stood there when the watch *)
(* was built.  The constructor's report (232) records no digest, so that   *)
(* content is reported twice: by the constructor and by one recheck.       *)
RejectionRepeatedOnlyFromStart ==
  \A p \in Paths : reports[p] <= IF p \in sinceStart THEN 2 ELSE 1

(* "a file edited into a different broken state is reported again" (61):   *)
(* broken content is passed over only if the listener was told of it.      *)
SkippedRejectionWasTold ==
  [][\A p \in Paths : SkipKnownRejection(p) /\ file[p] = refused =>
                            refused \in told[p]]_vars

(* The watch implements the feed it promises its listeners.                *)
NotLooked == NotDelivered
Seen == [p \in Paths |->
           IF step \in {"change", "overflow"} /\ at = p THEN candidate
           ELSE IF \/ holder # "none" /\ stage = "present" /\ p \notin listed
                   \/ stage = "vanished" /\ p \in todo
                THEN EmptyDocument ELSE NotLooked]
Feed == INSTANCE SettingsFeed WITH seen <- Seen, view <- replica
ImplementsFeed == Feed!FeedSpec

(* A file left alone, valid or absent, is what the listener ends up with,  *)
(* whatever events the kernel dropped (23-35).                             *)
EventuallyInSync ==
  \A p \in Paths, c \in Contents \cup {NoFile} :
    (c = NoFile \/ Parses(c)) =>
       (<>[](file[p] = c) => <>[](replica[p] = Reading(Feed!Sight(c))))

(* An on_overflow that raised is tried again until it is taken, once the   *)
(* file is one the watch can read or has gone (427-428).                   *)
OwedOverflowIsServed ==
  \A p \in Paths : <>[](file[p] = NoFile \/ Parses(file[p])) => []<>(p \notin pendingOverflow)

(* Every mark is cleared in the end.                                       *)
MarksAreCleared == \A p \in Paths : p \in inFlight ~> p \notin inFlight

(* "a broken consumer causes the identical diff to be recomputed and       *)
(* retried on the next pass, on either thread" (56-58): a diff whose       *)
(* on_change raised is delivered in the end.                               *)
UndeliveredIsRetried == \A p \in Paths : []<>(undelivered[p] = "no")
=============================================================================
