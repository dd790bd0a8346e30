-------------------------- MODULE SettingsDocument --------------------------
(***************************************************************************)
(* What one settings file says: runtime/settings_reader.py's parse of a    *)
(* TOML file and runtime/settings_watcher.py's comparison of two parses.   *)
(* The bytes of a file are a member of Contents.  Bytes that decode and    *)
(* parse as TOML are a function from the names they define to what follows *)
(* each name: a table (a function from keys to text) or a bare value.      *)
(***************************************************************************)
EXTENDS Integers, FiniteSets

CONSTANTS Fields,      \* names a settings file may define
          Values,      \* what str(value) of an entry can be
          Contents,    \* the byte strings the operator may save
          Garbage,     \* the members of Contents that are not UTF-8 TOML
          BareValue,   \* a name bound to something that is not a table
          NoFile,      \* there is no file under the path
          NoDigest     \* the content_digest "" of a stand-in document

REQUIRED_ENTRY_KEYS == {"value", "unit", "note"}
ABSENT_VALUE == ""

(* load_settings_document accepts: readable, TOML, every entry a table     *)
(* that carries value, unit and note.                                      *)
Parses(c) == /\ c \notin Garbage \cup {NoFile}
             /\ \A f \in DOMAIN c : /\ c[f] # BareValue
                                    /\ REQUIRED_ENTRY_KEYS \subseteq DOMAIN c[f]

(* The document load_settings_document returns.  Unit and note are carried *)
(* by the code and compared by nothing, so only the value is kept.         *)
Document(c) == [digest  |-> c,
                entries |-> [f \in DOMAIN c |-> c[f]["value"]]]

(* _empty_document_sharing_identity_with                                   *)
EmptyDocument == [digest |-> NoDigest, entries |-> [f \in {} |-> ABSENT_VALUE]]

Documents == {Document(c) : c \in {b \in Contents : Parses(b)}} \cup {EmptyDocument}

(* str(entry.value), or ABSENT_VALUE for an entry the document lacks.      *)
Text(doc, f) == IF f \in DOMAIN doc.entries THEN doc.entries[f] ELSE ABSENT_VALUE

(* Slip: only the candidate's entries are compared, so a removed one goes  *)
(* unreported.                                                             *)
Changes_Slip(previous, candidate) ==
  {[field |-> f, old_value |-> Text(previous, f), new_value |-> Text(candidate, f)] :
     f \in {g \in DOMAIN candidate.entries : Text(previous, g) # Text(candidate, g)}}

(* compare_settings_documents: one change per field whose text moved.      *)
Changes(previous, candidate) ==
  {[field |-> f, old_value |-> Text(previous, f), new_value |-> Text(candidate, f)] :
     f \in {g \in DOMAIN previous.entries \cup DOMAIN candidate.entries :
              Text(previous, g) # Text(candidate, g)}}

(* All a consumer can know of a document: the text of every field.         *)
Reading(doc) == [f \in Fields |-> Text(doc, f)]

(* A consumer that records every change it is handed.                      *)
Apply(view, changes) ==
  [f \in Fields |-> IF \E c \in changes : c.field = f
                    THEN (CHOOSE c \in changes : c.field = f).new_value
                    ELSE view[f]]

ASSUME ContentsAssumption ==
  /\ NoFile \notin Contents
  /\ NoDigest \notin Contents
  /\ Garbage \subseteq Contents
  /\ ABSENT_VALUE \in Values
  /\ \A c \in Contents : Parses(c) => /\ DOMAIN c \subseteq Fields
                                      /\ \A f \in DOMAIN c : c[f]["value"] \in Values
=============================================================================
