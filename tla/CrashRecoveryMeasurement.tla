----------------------- MODULE CrashRecoveryMeasurement -----------------------
(***************************************************************************)
(* measure_store.py 609-926: a process commits a baseline, opens a second  *)
(* transaction, writes into it, notes the baseline's checksums in a file,  *)
(* raises an event and sleeps; the harness kills it on the event, and a    *)
(* fresh process opens the store and looks each record up.                 *)
(*                                                                         *)
(* With --dir and --keep-dir the store, and the files the processes answer *)
(* through, are those of the earlier invocations as well: a row is a       *)
(* sequence number and the invocation it was written in, whose payload no  *)
(* other row has.  A process's own failure is one of the run's faults; the *)
(* stores themselves are taken to keep what was committed and nothing else *)
(* when a process dies (they are what the measurement is about).           *)
(***************************************************************************)
EXTENDS MeasurementRun, FiniteSets

CONSTANTS BaselineRecords, HoldRecords, \* --crash-baseline-records, --crash-hold-records
          NoFile

\* NoFile is none of the files a reopening process writes.
ASSUME CrashAssumption ==
    /\ BaselineRecords \in Nat \ {0} /\ HoldRecords \in Nat
    /\ NoFile \notin [of : Nat, opened : {FALSE}]
    /\ NoFile \notin [of : Nat, opened : {TRUE}, total : Nat, present : Nat,
                      torn : SUBSET (0 .. BaselineRecords - 1), uncommitted : Nat]

VARIABLES
    crashing,      \* the engine measured, or "none"
    crasher,       \* where its writer is
    crashExit,     \* its exit code as the harness reads it
    event,         \* event.is_set()
    store,         \* store[engine]: the rows committed
    baselineFile,  \* baselineFile[engine]: the invocation it speaks of, 0: no file
    reopener,      \* where the reopening process is
    reopenFile     \* reopenFile[engine]: the result in it, or NoFile

crashVars == <<crashing, crasher, crashExit, event, store, baselineFile, reopener,
               reopenFile>>

ENGINES == {"sqlite", "lmdb"}

CrashInit ==
    /\ crashing = "none" /\ crasher = "none" /\ reopener = "none" /\ event = FALSE
    /\ crashExit = 0
    /\ store = [e \in ENGINES |-> {}]
    /\ baselineFile = [e \in ENGINES |-> 0] /\ reopenFile = [e \in ENGINES |-> NoFile]

CrashStarts(e) ==
    /\ crashing = "none" /\ crashing' = e
    /\ crasher' = "starting" /\ crashExit' = 0 /\ event' = FALSE /\ reopener' = "none"
    /\ UNCHANGED <<store, baselineFile, reopenFile, faults>>

-----------------------------------------------------------------------------

BaselineSeqs == 0 .. BaselineRecords - 1
HeldSeqs == BaselineRecords .. BaselineRecords + HoldRecords - 1

CommitsBaseline ==
    /\ crasher = "starting" /\ crasher' = "committed"
    /\ store' = [store EXCEPT ![crashing] = @ \union (BaselineSeqs \X {invocation})]
    /\ UNCHANGED <<crashing, crashExit, event, baselineFile, reopener, reopenFile, faults>>

\* The held rows are in the open transaction; the checksums are in the file.
NotesBaseline ==
    /\ crasher = "committed" /\ crasher' = "noted"
    /\ baselineFile' = [baselineFile EXCEPT ![crashing] = invocation]
    /\ UNCHANGED <<crashing, crashExit, event, store, reopener, reopenFile, faults>>

\* The event raised before the checksums are noted.
Signals_Slip ==
    /\ crasher = "committed" /\ crasher' = "holding" /\ event' = TRUE
    /\ UNCHANGED <<crashing, crashExit, store, baselineFile, reopener, reopenFile, faults>>

Signals ==
    /\ crasher = "noted" /\ crasher' = "holding" /\ event' = TRUE
    /\ UNCHANGED <<crashing, crashExit, store, baselineFile, reopener, reopenFile, faults>>

\* The sleep ends before the kill: the transaction is rolled back, the exit
\* code is 0.
HoldElapses ==
    /\ crasher = "holding" /\ crasher' = "gone"
    /\ UNCHANGED <<crashing, crashExit, event, store, baselineFile, reopener, reopenFile, faults>>

\* It raises: a locked store, a full map, a full disk.
CrasherFails ==
    /\ Fails
    /\ crasher \in {"starting", "committed"} /\ crasher' = "gone" /\ crashExit' = 1
    /\ UNCHANGED <<crashing, event, store, baselineFile, reopener, reopenFile>>

-----------------------------------------------------------------------------

\* The event waited for without a timeout.
GivesUpWaiting_Slip == FALSE /\ UNCHANGED crashVars

\* event.wait timed out: the writer is killed and nothing is reopened.
GivesUpWaiting ==
    /\ crashing # "none" /\ ~event /\ reopener = "none"
    /\ crasher' = "gone" /\ reopener' = "not_tried"
    /\ UNCHANGED <<crashing, crashExit, event, store, baselineFile, reopenFile, faults>>

\* The event: SIGKILL, which finds a process or one that has exited and not
\* been joined; the baseline is read and the reopening process started.
KillsAndReopens ==
    /\ event /\ reopener = "none" /\ reopener' = "running"
    /\ crasher' = "gone"
    /\ crashExit' = IF crasher = "gone" THEN crashExit ELSE -9
    /\ UNCHANGED <<crashing, event, store, baselineFile, reopenFile, faults>>

\* A row of a sequence number.  SQLite's query returns the first of the primary
\* key's order, the oldest; LMDB's dictionary keeps the last one the cursor
\* passes.
RowsOf(e, seq) == {row \in store[e] : row[1] = seq}
RowFound(e, seq) ==
    CHOOSE row \in RowsOf(e, seq) : \A other \in RowsOf(e, seq) :
        IF e = "sqlite" THEN row[2] <= other[2] ELSE row[2] >= other[2]

\* What the reopening process writes of a store it could open, given the
\* baseline it was started with.
Reopened(e, baseline) ==
    LET found == {seq \in BaselineSeqs : RowsOf(e, seq) # {}}
    IN  [of |-> invocation, opened |-> TRUE,
         total |-> IF e = "sqlite" THEN Cardinality(store[e])
                   ELSE Cardinality({row[1] : row \in store[e]}),
         present |-> Cardinality(found),
         torn |-> {seq \in found : RowFound(e, seq)[2] # baseline},
         uncommitted |-> Cardinality({seq \in HeldSeqs : RowsOf(e, seq) # {}})]

NotOpened == [of |-> invocation, opened |-> FALSE]

Reopens ==
    /\ reopener = "running" /\ reopener' = "joined"
    /\ reopenFile' = [reopenFile EXCEPT ![crashing] = Reopened(crashing, baselineFile[crashing])]
    /\ UNCHANGED <<crashing, crasher, crashExit, event, store, baselineFile, faults>>

\* It cannot open the store, and says so; or it dies without a word.
ReopenerFails ==
    /\ Fails
    /\ reopener = "running"
    /\ \/ /\ reopenFile' = [reopenFile EXCEPT ![crashing] = NotOpened]
          /\ reopener' = "joined"
       \/ /\ reopener' = "died" /\ UNCHANGED reopenFile
    /\ UNCHANGED <<crashing, crasher, crashExit, event, store, baselineFile>>

CrasherStep == CommitsBaseline \/ NotesBaseline \/ Signals \/ HoldElapses

CrashStep ==
    \/ CrasherStep \/ CrasherFails
    \/ GivesUpWaiting \/ KillsAndReopens \/ Reopens \/ ReopenerFails

-----------------------------------------------------------------------------

\* What measure_sqlite_crash_recovery, measure_lmdb_crash_recovery return: an
\* error, the result file's content if there is one, or that there is none.
CrashMeasured == reopener \in {"not_tried", "joined", "died"}
CrashReport ==
    IF reopener = "not_tried" THEN [signalled |-> FALSE]
    ELSE [signalled |-> TRUE,
          exitcode |-> crashExit,
          result |-> IF reopenFile[crashing] = NoFile THEN NotOpened ELSE reopenFile[crashing]]
=============================================================================
