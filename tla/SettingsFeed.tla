---------------------------- MODULE SettingsFeed ----------------------------
(***************************************************************************)
(* What the settings watch promises to whoever listens to it, without its  *)
(* threads, catalog or event queue.  Files change under the watch; it      *)
(* looks at some of them; while it holds what it saw of a path it may      *)
(* publish that, once, if it differs from what the listener already has.   *)
(* The listener's view therefore never holds anything but what a file      *)
(* really held, in the order the file held it, and is never handed a       *)
(* change that changes nothing.                                            *)
(***************************************************************************)
EXTENDS SettingsDocument

CONSTANTS Paths, NotLooked

VARIABLES file,   \* what is under each path
          seen,   \* the document the watch holds of a path, if it has just looked
          view    \* the text of every field as the listener has been told it

feedVars == <<file, seen, view>>

(* A file that is absent reads as a document with no entries.              *)
Sight(c) == IF c = NoFile THEN EmptyDocument ELSE Document(c)

FeedInit == /\ file \in [Paths -> Contents \cup {NoFile}]
            /\ seen = [p \in Paths |-> NotLooked]
            /\ view = [p \in Paths |-> IF Parses(file[p]) THEN Reading(Document(file[p]))
                                                          ELSE Reading(EmptyDocument)]

Change == /\ file' \in [Paths -> Contents \cup {NoFile}]
          /\ UNCHANGED <<seen, view>>

(* A file that does not parse is never looked at: it cannot take effect.   *)
Look(S) == /\ \A p \in S : file[p] = NoFile \/ Parses(file[p])
           /\ seen' = [p \in Paths |-> IF p \in S THEN Sight(file[p]) ELSE seen[p]]
           /\ UNCHANGED <<file, view>>

Publish(p) == /\ seen[p] # NotLooked
              /\ Reading(seen[p]) # view[p]
              /\ view' = [view EXCEPT ![p] = Reading(seen[p])]
              /\ UNCHANGED <<file, seen>>

Drop(S) == /\ seen' = [p \in Paths |-> IF p \in S THEN NotLooked ELSE seen[p]]
           /\ UNCHANGED <<file, view>>

FeedNext == \/ Change
            \/ \E S \in SUBSET Paths : Look(S) \/ Drop(S)
            \/ \E p \in Paths : Publish(p)

FeedSpec == FeedInit /\ [][FeedNext]_feedVars
=============================================================================
