--------------------------- MODULE SettingsWatch ----------------------------
(***************************************************************************)
(* runtime/settings_watcher.py: SettingsDirectoryWatch, its event handler, *)
(* its periodic backstop and the callers of recheck_now, over a directory  *)
(* an operator edits while they run.                                       *)
(*                                                                         *)
(* A recheck holds one lock from its glob to its return, so at most one is *)
(* under way.  It is modelled step by step all the same: the operator, the *)
(* kernel's event queue and the observer's dispatcher (which marks paths   *)
(* in flight under a lock of its own) all move between its steps.          *)
(***************************************************************************)
EXTENDS SettingsDocument, Sequences, Functions

CONSTANTS NPaths,          \* settings files are the paths 1..NPaths, in sorted order
          NotKnown,        \* a path absent from _known
          NotDelivered,    \* a path absent from _last_delivered
          NoDedup,         \* a path absent from _last_reported_rejection_digest
          CallerRechecks,  \* whether anyone but the two threads calls recheck_now
          CallbacksRaise,  \* whether a callback may raise
          MaxEdits         \* bound on the operator's edits

ASSUME WatchAssumption ==
  /\ NPaths \in Nat \ {0}
  /\ MaxEdits \in Nat
  /\ CallerRechecks \in BOOLEAN
  /\ CallbacksRaise \in BOOLEAN
  /\ NotKnown \notin Documents
  /\ NotDelivered \notin Documents

Paths == 1 .. NPaths
NoPath == 0

VARIABLES
  (* the world outside the watch *)
  file,           \* what is under each path
  edits,          \* edits the operator has made
  queue,          \* raw events not yet pulled by the dispatcher, each the .toml
                  \* paths (src, dest) it names
  (* the observer's dispatcher thread *)
  dispatcher,     \* idle, marking, waiting for the lock, or rechecking
  event,          \* the paths of the event being handled
  toMark,         \* those of them not yet marked in flight
  (* SettingsDirectoryWatch *)
  known,             \* _known: the document LastKnownGoodSettings.current serves
  lastDelivered,     \* _last_delivered
  pendingOverflow,   \* _pending_overflow
  reportedDigest,    \* _last_reported_rejection_digest
  inFlight,          \* _in_flight
  (* the recheck that holds _lock *)
  holder,         \* none, observer, periodic or caller
  step,           \* where in the recheck
  stage,          \* which of _recheck's two loops
  listed,         \* current_paths, later current_paths | known_paths
  todo,           \* paths the current loop has still to visit
  at,             \* the path being visited
  previous,       \* the two sides of the diff _deliver_diff was handed
  candidate,
  refused,        \* the content whose parse was refused
  delivered,      \* change_delivered
  (* what a listener and an onlooker would see; the code holds none of it *)
  replica,        \* the text of every field as on_change has told it
  missed,         \* dropped: the last edit of a path was never announced;
                  \* seen: and a visit now under way has read it
  undelivered,    \* owed: the last on_change for a path raised; alarmed: and
                  \* on_overflow has been taken for the same diff already
  reports,        \* rejections reported for the content now under a path
  sinceStart,     \* paths whose content the constructor reported, never edited since
  told            \* the refused contents on_rejection took since the path last parsed

outside  == <<file, edits, queue>>
dispatch == <<dispatcher, event, toMark>>
catalog  == <<known, lastDelivered, pendingOverflow, reportedDigest>>
pass     == <<holder, stage, listed, todo>>
visit    == <<at, previous, candidate, refused, delivered>>
seenBy   == <<replica, missed, undelivered, reports, sinceStart, told>>
vars == <<outside, dispatch, catalog, inFlight, pass, step, visit, seenBy>>

-----------------------------------------------------------------------------
Known == {p \in Paths : known[p] # NotKnown}
Periodic == holder = "periodic"

(* _delivered_baseline_for: nothing delivered yet is an empty document.    *)
Baseline(p) == IF lastDelivered[p] = NotDelivered THEN EmptyDocument ELSE lastDelivered[p]

(* Slip: the reason of a refusal and the digest of a file told apart by    *)
(* nothing.                                                                *)
DedupKey_Slip(p) == IF file[p] = NoFile THEN refused ELSE file[p]

(* _digest_for_rejection_dedup: the digest of the bytes there NOW, or the  *)
(* reason of the refusal when the file has gone since.                     *)
DedupKey(p) == IF file[p] = NoFile THEN <<"reason", refused>> ELSE <<"bytes", file[p]>>

DedupKeys == {"reason", "bytes"} \X (Contents \cup {NoFile})

(* for path in sorted(...): the next path of the loop.                     *)
IsNext(p) == p \in todo /\ \A q \in todo : p <= q

-----------------------------------------------------------------------------
(* Construction: what parses is catalogued and counts as delivered; what   *)
(* does not is reported at once, and its digest is not recorded.           *)
Init ==
  /\ file \in [Paths -> Contents \cup {NoFile}]
  /\ known = [p \in Paths |-> IF Parses(file[p]) THEN Document(file[p]) ELSE NotKnown]
  /\ lastDelivered =
       [p \in Paths |-> IF Parses(file[p]) THEN Document(file[p]) ELSE NotDelivered]
  /\ reportedDigest = [p \in Paths |-> NoDedup]
  /\ pendingOverflow = {} /\ inFlight = {}
  /\ edits = 0 /\ queue = <<>>
  /\ dispatcher = "idle" /\ event = {} /\ toMark = <<>>
  /\ holder = "none" /\ step = "released" /\ stage = "present"
  /\ listed = {} /\ todo = {}
  /\ at = NoPath /\ previous = EmptyDocument /\ candidate = EmptyDocument
  /\ refused = NoFile /\ delivered = TRUE
  /\ replica = [p \in Paths |-> Reading(Baseline(p))]
  /\ missed = [p \in Paths |-> "no"] /\ undelivered = [p \in Paths |-> "no"]
  /\ sinceStart = {p \in Paths : file[p] # NoFile /\ ~Parses(file[p])}
  /\ reports = [p \in Paths |-> IF p \in sinceStart THEN 1 ELSE 0]
  /\ told = [p \in Paths |-> IF p \in sinceStart THEN {file[p]} ELSE {}]

-----------------------------------------------------------------------------
(* The operator, and the kernel's queue: an edit is announced by an event  *)
(* naming its paths, or the event is dropped (IN_Q_OVERFLOW, or an edit    *)
(* made before the observer started).                                      *)
Announce(paths, announced) ==
  /\ edits < MaxEdits
  /\ edits' = edits + 1
  /\ queue' = IF announced THEN Append(queue, paths) ELSE queue
  /\ missed' = [p \in Paths |-> IF ~announced /\ p \in Range(paths) THEN "dropped"
                                                                    ELSE missed[p]]
  /\ reports' = [p \in Paths |-> IF file'[p] # file[p] THEN 0 ELSE reports[p]]
  /\ sinceStart' = {p \in sinceStart : file'[p] = file[p]}
  /\ undelivered' = [p \in Paths |-> IF file'[p] # file[p] /\ undelivered[p] = "alarmed"
                                     THEN "owed" ELSE undelivered[p]]
  /\ UNCHANGED <<dispatch, catalog, inFlight, pass, step, visit, replica, told>>

(* Save, create, delete, or a temp file renamed onto p: dest_path alone is *)
(* a settings file.  Saving what is already there is an event too.         *)
Save(p, c, announced) ==
  /\ ~(file[p] = NoFile /\ c = NoFile)
  /\ file' = [file EXCEPT ![p] = c]
  /\ Announce(<<p>>, announced)

(* mv p q: both sides of the moved event are settings files.               *)
Rename(p, q, announced) ==
  /\ p # q /\ file[p] # NoFile
  /\ file' = [file EXCEPT ![p] = NoFile, ![q] = file[p]]
  /\ Announce(<<p, q>>, announced)

Operator == \E announced \in BOOLEAN, p \in Paths :
              \/ \E c \in Contents \cup {NoFile} : Save(p, c, announced)
              \/ \E q \in Paths : Rename(p, q, announced)

-----------------------------------------------------------------------------
(* The observer thread: _SettingsFileHandler.on_any_event.                 *)
PullEvent ==
  /\ dispatcher = "idle" /\ queue # <<>>
  /\ event' = Range(Head(queue)) /\ toMark' = Head(queue)
  /\ queue' = Tail(queue)
  /\ dispatcher' = "marking"
  /\ UNCHANGED <<file, edits, catalog, inFlight, pass, step, visit, seenBy>>

MarkInFlight ==
  /\ dispatcher = "marking" /\ toMark # <<>>
  /\ inFlight' = inFlight \cup {Head(toMark)}
  /\ toMark' = Tail(toMark)
  /\ dispatcher' = IF Tail(toMark) = <<>> THEN "waiting" ELSE "marking"
  /\ UNCHANGED <<outside, event, catalog, pass, step, visit, seenBy>>

-----------------------------------------------------------------------------
(* _recheck: take the lock and list the directory.                         *)
BeginRecheck(who) ==
  /\ holder = "none"
  /\ holder' = who
  /\ listed' = {p \in Paths : file[p] # NoFile}
  /\ todo' = {p \in Paths : file[p] # NoFile}
  /\ step' = "loop"
  /\ missed' = [p \in Paths |-> IF file[p] = NoFile /\ missed[p] = "dropped"
                                THEN "seen" ELSE missed[p]]
  /\ UNCHANGED <<outside, event, toMark, catalog, inFlight, stage, visit,
                 replica, undelivered, reports, sinceStart, told>>

BeginEventRecheck ==
  /\ dispatcher = "waiting"
  /\ dispatcher' = "rechecking"
  /\ BeginRecheck("observer")

BeginPeriodicRecheck == BeginRecheck("periodic") /\ UNCHANGED dispatcher

BeginCallerRecheck ==
  /\ CallerRechecks
  /\ BeginRecheck("caller")
  /\ UNCHANGED dispatcher

(* Slip: the diff is taken against the document served, not the last one   *)
(* delivered.                                                              *)
VisitWith_Slip(p, document) ==
  /\ at' = p
  /\ previous' = IF known[p] = NotKnown THEN EmptyDocument ELSE known[p]
  /\ candidate' = document
  /\ step' = "change"
  /\ UNCHANGED <<refused, delivered>>

(* The visit of p has the two sides of a diff to hand to _deliver_diff.    *)
VisitWith(p, document) ==
  /\ at' = p
  /\ previous' = Baseline(p)
  /\ candidate' = document
  /\ step' = "change"
  /\ UNCHANGED <<refused, delivered>>

(* For the onlooker: p has been read and parsed.                           *)
LookedAt(p) ==
  /\ missed' = [missed EXCEPT ![p] = IF @ = "dropped" THEN "seen" ELSE @]
  /\ told' = [told EXCEPT ![p] = {}]
  /\ UNCHANGED <<replica, undelivered, reports, sinceStart>>

(* Slip: a candidate that parses is not swapped in.                        *)
Offered_Slip(p) == known[p]

(* offer_candidate, the file parses: swap unless the bytes are those loaded *)
Offered(p) == IF known[p].digest = file[p] THEN known[p] ELSE Document(file[p])

(* _recheck_present_path, path known and the candidate accepted.           *)
OfferCandidate(p) ==
  /\ step = "loop" /\ stage = "present" /\ IsNext(p)
  /\ Parses(file[p]) /\ known[p] # NotKnown
  /\ known' = [known EXCEPT ![p] = Offered(p)]
  /\ reportedDigest' = [reportedDigest EXCEPT ![p] = NoDedup]
  /\ VisitWith(p, Offered(p))
  /\ LookedAt(p)
  /\ UNCHANGED <<outside, dispatch, lastDelivered, pendingOverflow, inFlight, pass>>

(* _discover_new_path, the file parses.                                    *)
DiscoverNewPath(p) ==
  /\ step = "loop" /\ stage = "present" /\ IsNext(p)
  /\ Parses(file[p]) /\ known[p] = NotKnown
  /\ known' = [known EXCEPT ![p] = Document(file[p])]
  /\ VisitWith(p, Document(file[p]))
  /\ LookedAt(p)
  /\ UNCHANGED <<outside, dispatch, lastDelivered, pendingOverflow, reportedDigest,
                 inFlight, pass>>

(* Either of them, the file refused (or gone since the glob).              *)
RefuseCandidate(p) ==
  /\ step = "loop" /\ stage = "present" /\ IsNext(p)
  /\ ~Parses(file[p])
  /\ at' = p /\ refused' = file[p]
  /\ step' = "refused"
  /\ UNCHANGED <<outside, dispatch, catalog, inFlight, pass,
                 previous, candidate, delivered, seenBy>>

(* _report_rejection_if_new: on_rejection, unless its key is the last one. *)
SkipKnownRejection(p) ==
  /\ step = "refused" /\ at = p
  /\ reportedDigest[p] = DedupKey(p)
  /\ step' = "settle"
  /\ UNCHANGED <<outside, dispatch, catalog, inFlight, pass, visit, seenBy>>

(* Slip: the digest of a reported rejection is not recorded.               *)
OnRejection_Slip(p) ==
  /\ step = "refused" /\ at = p
  /\ reportedDigest[p] # DedupKey(p)
  /\ reports' = [reports EXCEPT ![p] = IF file[p] = refused /\ @ < 3 THEN @ + 1 ELSE @]
  /\ step' = "settle"
  /\ UNCHANGED <<outside, dispatch, catalog, inFlight, pass, visit, replica, missed,
                 undelivered, sinceStart, told>>

OnRejection(p) ==
  /\ step = "refused" /\ at = p
  /\ reportedDigest[p] # DedupKey(p)
  /\ reportedDigest' = [reportedDigest EXCEPT ![p] = DedupKey(p)]
  /\ reports' = [reports EXCEPT ![p] = IF file[p] = refused /\ @ < 3 THEN @ + 1 ELSE @]
  /\ told' = [told EXCEPT ![p] = @ \cup {refused}]
  /\ step' = "settle"
  /\ UNCHANGED <<outside, dispatch, known, lastDelivered, pendingOverflow, inFlight,
                 pass, visit, replica, missed, undelivered, sinceStart>>

OnRejectionRaises(p) ==
  /\ step = "refused" /\ at = p
  /\ reportedDigest[p] # DedupKey(p) /\ CallbacksRaise
  /\ step' = "settle"
  /\ UNCHANGED <<outside, dispatch, catalog, inFlight, pass, visit, seenBy>>

-----------------------------------------------------------------------------
(* _deliver_diff, first half: on_change.                                   *)
Delta == Changes(previous, candidate)

NothingChanged(p) ==
  /\ step = "change" /\ at = p
  /\ Delta = {}
  /\ delivered' = TRUE
  /\ step' = "overflow"
  /\ UNCHANGED <<outside, dispatch, catalog, inFlight, pass,
                 at, previous, candidate, refused, seenBy>>

OnChange(p) ==
  /\ step = "change" /\ at = p
  /\ Delta # {}
  /\ replica' = [replica EXCEPT ![p] = Apply(@, Delta)]
  /\ lastDelivered' = [lastDelivered EXCEPT ![p] = candidate]
  /\ delivered' = TRUE
  /\ step' = "overflow"
  /\ UNCHANGED <<outside, dispatch, known, pendingOverflow, reportedDigest, inFlight,
                 pass, at, previous, candidate, refused, missed, undelivered, reports,
                 sinceStart, told>>

(* Slip: the bookkeeping advances although the callback raised.            *)
OnChangeRaises_Slip(p) ==
  /\ step = "change" /\ at = p
  /\ Delta # {} /\ CallbacksRaise
  /\ delivered' = FALSE
  /\ lastDelivered' = [lastDelivered EXCEPT ![p] = candidate]
  /\ step' = "overflow"
  /\ UNCHANGED <<outside, dispatch, known, pendingOverflow, reportedDigest, inFlight,
                 pass, at, previous, candidate, refused, seenBy>>

OnChangeRaises(p) ==
  /\ step = "change" /\ at = p
  /\ Delta # {} /\ CallbacksRaise
  /\ delivered' = FALSE
  /\ step' = "overflow"
  /\ UNCHANGED <<outside, dispatch, catalog, inFlight, pass,
                 at, previous, candidate, refused, seenBy>>

(* Slips: the in-flight mark is not consulted; a signal whose callback     *)
(* raised is not owed any more.                                            *)
BackstopFoundIt_Slip(p) == Periodic /\ Delta # {}
OverflowOwed_Slip(p) == Periodic /\ Delta # {} /\ p \notin inFlight

(* _deliver_diff, second half: on_overflow.                                *)
BackstopFoundIt(p) == Periodic /\ Delta # {} /\ p \notin inFlight
OverflowOwed(p) == BackstopFoundIt(p) \/ p \in pendingOverflow

OverflowStep(p, taken) ==
  /\ step = "overflow" /\ at = p
  /\ step' = "settle"
  /\ undelivered' = [undelivered EXCEPT ![p] =
                       IF delivered THEN "no" ELSE IF taken THEN "alarmed"
                       ELSE IF @ = "no" THEN "owed" ELSE @]
  /\ UNCHANGED <<outside, dispatch, known, lastDelivered, reportedDigest, inFlight,
                 pass, visit, replica, missed, reports, sinceStart, told>>

OverflowNotOwed(p) == /\ OverflowStep(p, FALSE)
                      /\ ~OverflowOwed(p)
                      /\ UNCHANGED pendingOverflow

OnOverflow(p) == /\ OverflowStep(p, TRUE)
                 /\ OverflowOwed(p)
                 /\ pendingOverflow' = pendingOverflow \ {p}

OnOverflowRaises(p) == /\ OverflowStep(p, FALSE)
                       /\ OverflowOwed(p) /\ CallbacksRaise
                       /\ pendingOverflow' = pendingOverflow \cup {p}

(* Slips: a path is forgotten although its removal was not delivered, or   *)
(* although its overflow is still owed.                                    *)
ForgettableUntold_Slip(p) == stage = "vanished" /\ p \notin pendingOverflow
ForgettableOwed_Slip(p) == stage = "vanished" /\ delivered

(* Slip: the backstop's pass clears marks too.                             *)
MarksAfterVisit_Slip(p) == inFlight \ {p}

MarksAfterVisit(p) == IF Periodic THEN inFlight ELSE inFlight \ {p}

(* The end of a visit: a pass that is not the clock's clears the mark, and *)
(* a vanished path both of whose callbacks have been served is forgotten.  *)
Forgettable(p) == stage = "vanished" /\ delivered /\ p \notin pendingOverflow

Settle(p) ==
  /\ step = "settle" /\ at = p
  /\ inFlight' = MarksAfterVisit(p)
  /\ IF Forgettable(p)
     THEN /\ known' = [known EXCEPT ![p] = NotKnown]
          /\ lastDelivered' = [lastDelivered EXCEPT ![p] = NotDelivered]
          /\ reportedDigest' = [reportedDigest EXCEPT ![p] = NoDedup]
          /\ told' = [told EXCEPT ![p] = {}]
     ELSE UNCHANGED <<known, lastDelivered, reportedDigest, told>>
  /\ todo' = todo \ {p}
  /\ step' = "loop"
  /\ at' = NoPath /\ previous' = EmptyDocument /\ candidate' = EmptyDocument
  /\ refused' = NoFile /\ delivered' = TRUE
  /\ missed' = [missed EXCEPT ![p] = IF @ = "seen" THEN "no" ELSE @]
  /\ UNCHANGED <<outside, dispatch, pendingOverflow, holder, stage, listed,
                 replica, undelivered, reports, sinceStart>>

-----------------------------------------------------------------------------
(* The second loop of _recheck: known paths the listing did not show.      *)
TurnToVanished ==
  /\ step = "loop" /\ stage = "present" /\ todo = {}
  /\ stage' = "vanished"
  /\ todo' = Known \ listed
  /\ listed' = listed \cup Known
  /\ UNCHANGED <<outside, dispatch, catalog, inFlight, holder, step, visit, seenBy>>

(* _recheck_vanished_path                                                  *)
VisitVanished(p) ==
  /\ step = "loop" /\ stage = "vanished" /\ IsNext(p)
  /\ VisitWith(p, EmptyDocument)
  /\ UNCHANGED <<outside, dispatch, catalog, inFlight, pass, seenBy>>

(* Slip: marks of paths neither loop visited are left behind.              *)
SweptMarks_Slip == inFlight

(* _clear_in_flight_not_among                                              *)
SweptMarks == inFlight \cap listed

(* The sweep, and the lock is released.                                    *)
EndRecheck ==
  /\ step = "loop" /\ stage = "vanished" /\ todo = {}
  /\ inFlight' = IF Periodic THEN inFlight ELSE SweptMarks
  /\ dispatcher' = IF holder = "observer" THEN "idle" ELSE dispatcher
  /\ event' = IF holder = "observer" THEN {} ELSE event
  /\ holder' = "none" /\ step' = "released" /\ stage' = "present" /\ listed' = {}
  /\ missed' = [p \in Paths |-> IF missed[p] = "seen" THEN "no" ELSE missed[p]]
  /\ UNCHANGED <<outside, toMark, catalog, todo, visit, replica, undelivered, reports,
                 sinceStart, told>>

-----------------------------------------------------------------------------
Deliver(p) == \/ NothingChanged(p) \/ OnChange(p) \/ OnChangeRaises(p)
              \/ OverflowNotOwed(p) \/ OnOverflow(p) \/ OnOverflowRaises(p)

Visit(p) == \/ OfferCandidate(p) \/ DiscoverNewPath(p) \/ RefuseCandidate(p)
            \/ SkipKnownRejection(p) \/ OnRejection(p) \/ OnRejectionRaises(p)
            \/ VisitVanished(p) \/ Deliver(p) \/ Settle(p)

RecheckStep == TurnToVanished \/ EndRecheck \/ \E p \in Paths : Visit(p)

Next == \/ Operator
        \/ PullEvent \/ MarkInFlight
        \/ BeginEventRecheck \/ BeginPeriodicRecheck \/ BeginCallerRecheck
        \/ RecheckStep

Spec == Init /\ [][Next]_vars
=============================================================================
