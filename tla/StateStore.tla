----------------------------- MODULE StateStore -----------------------------
(***************************************************************************)
(* runtime/state_store.py: two append-only tables in one SQLite file that  *)
(* several processes write.  Every append is one autocommitted INSERT: its *)
(* timestamp is taken by Python, then SQLite waits for the one write lock  *)
(* of the file, for as long as the busy timeout, and commits.              *)
(***************************************************************************)
EXTENDS Integers, Sequences, FiniteSets

CONSTANTS Writers,        \* processes, each appending under its own name
          Recorder,       \* the one that records setting changes
          busy_timeout,   \* in clock ticks
          MaxClock,       \* bound on the clock
          MaxRows         \* bound on the rows committed or being appended

ASSUME StoreAssumption == Recorder \in Writers

VARIABLES now,            \* time.time_ns()
          appending,      \* [Writers -> where its append is]
          row,            \* [Writers -> the values bound to its INSERT]
          lock,           \* the holder of the write lock
          journal_entry,  \* the committed rows, in the order of their ids
          setting_change

storeVars == <<now, appending, row, lock, journal_entry, setting_change>>

Nobody == "nobody"
NoRow == [by |-> Nobody, holds |-> 0, at |-> 0]

StoreInit ==
  /\ now = 0 /\ appending = [w \in Writers |-> "idle"] /\ row = [w \in Writers |-> NoRow]
  /\ lock = Nobody /\ journal_entry = <<>> /\ setting_change = <<>>

Tick ==
  /\ now < MaxClock /\ now' = now + 1
  /\ UNCHANGED <<appending, row, lock, journal_entry, setting_change>>

RowsBegun == Len(journal_entry) + Len(setting_change)
             + Cardinality({w \in Writers : appending[w] # "idle"})

(* append_journal_entry, record_setting_change *)
TakeTimestamp(w, value) ==
  /\ appending[w] = "idle" /\ RowsBegun < MaxRows
  /\ appending' = [appending EXCEPT ![w] = "waiting"]
  /\ row' = [row EXCEPT ![w] = [by |-> w, holds |-> value, at |-> now]]
  /\ UNCHANGED <<now, lock, journal_entry, setting_change>>

TakeWriteLock(w) ==
  /\ appending[w] = "waiting" /\ lock = Nobody
  /\ lock' = w /\ appending' = [appending EXCEPT ![w] = "inserting"]
  /\ UNCHANGED <<now, row, journal_entry, setting_change>>

(* "database is locked": the append raises and leaves no row.              *)
LockedOut(w) ==
  /\ appending[w] = "waiting" /\ lock # Nobody /\ now - row[w].at >= busy_timeout
  /\ appending' = [appending EXCEPT ![w] = "idle"]
  /\ row' = [row EXCEPT ![w] = NoRow]
  /\ UNCHANGED <<now, lock, journal_entry, setting_change>>

Commit(w) ==
  /\ appending[w] = "inserting"
  /\ IF w = Recorder
       THEN setting_change' = Append(setting_change, row[w]) /\ UNCHANGED journal_entry
       ELSE journal_entry' = Append(journal_entry, row[w]) /\ UNCHANGED setting_change
  /\ lock' = Nobody /\ appending' = [appending EXCEPT ![w] = "idle"]
  /\ row' = [row EXCEPT ![w] = NoRow]
  /\ UNCHANGED now

(* A killed writer: what it had not committed is rolled back, the lock is  *)
(* free, and every row committed stays.                                    *)
WriterKilled(w) ==
  /\ appending' = [appending EXCEPT ![w] = "idle"]
  /\ row' = [row EXCEPT ![w] = NoRow]
  /\ lock' = IF lock = w THEN Nobody ELSE lock
  /\ UNCHANGED <<now, journal_entry, setting_change>>

-----------------------------------------------------------------------------
(* Slip: the rows of every part.                                           *)
InWindow_Slip(table, part, start, end) == {i \in DOMAIN table : table[i].at \in start..end}

(* read_entries_in_window: the rows of one part between two times, by time *)
(* and then by id.                                                         *)
InWindow(table, part, start, end) ==
  {i \in DOMAIN table : table[i].by = part /\ table[i].at \in start..end}

(* The order of the answer.                                                *)
Before(table, i, j) ==
  table[i].at < table[j].at \/ (table[i].at = table[j].at /\ i < j)

ReadEntriesInWindow(table, part, start, end) ==
  LET found == InWindow(table, part, start, end)
      position(i) == 1 + Cardinality({j \in found : Before(table, j, i)})
      nth(n) == CHOOSE i \in found : position(i) = n
  IN  [n \in 1..Cardinality(found) |-> [row |-> table[nth(n)], id |-> nth(n)]]

ReadCurrentSetting_Slip ==
  CHOOSE i \in DOMAIN setting_change :
    \A j \in DOMAIN setting_change :
      \/ setting_change[j].at < setting_change[i].at
      \/ setting_change[j].at = setting_change[i].at /\ j >= i

(* read_current_setting_and_change_time *)
ReadCurrentSetting ==
  CHOOSE i \in DOMAIN setting_change :
    \A j \in DOMAIN setting_change :
      \/ setting_change[j].at < setting_change[i].at
      \/ setting_change[j].at = setting_change[i].at /\ j <= i
=============================================================================
