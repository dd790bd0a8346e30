-------------------------- MODULE AppendMeasurement --------------------------
(***************************************************************************)
(* measure_store.py 243-463: processes append records to one store at the  *)
(* same time.  Each connects and waits at a barrier for the others and for *)
(* the harness, then appends its records one transaction each, under the   *)
(* store's single write lock, writes its result file and exits.  A SQLite  *)
(* writer that finds the lock taken until its busy timeout ends tries      *)
(* again, at most MaxRetries times; an LMDB writer blocks.  The harness    *)
(* waits at the barrier and joins without a timeout.                       *)
(*                                                                         *)
(* A writer may raise where it connects and where it writes (a fault).     *)
(***************************************************************************)
EXTENDS MeasurementRun, FiniteSets, FiniteSetsExt

CONSTANTS Writers,     \* 0 .. n-1, in the order the harness starts them
          Records,     \* --records
          MaxRetries,  \* --sqlite-max-retries
          Nobody

ASSUME AppendAssumption ==
    /\ IsFiniteSet(Writers) /\ Writers = 0 .. Cardinality(Writers) - 1 /\ Writers # {}
    /\ Records \in Nat \ {0} /\ MaxRetries \in Nat
    /\ Nobody \notin Writers
    /\ Nobody \notin {"synchronous_full", "synchronous_normal", "default", "writemap"}

VARIABLES
    variant,   \* the store being appended to, or Nobody
    stage,     \* stage[w]: where writer process w is
    appended,  \* appended[w]: the records it has committed
    attempts,  \* attempts[w]: the times it found the lock taken
    holder,    \* who holds the store's write lock
    exitcode,  \* exitcode[w]: 0, 1, or Nobody while it runs
    results,   \* results[w]: the records its result file speaks of, 0: no file
    rows       \* the records of this run in the store

appendVars == <<variant, stage, appended, attempts, holder, exitcode, results, rows>>

SQLITE_VARIANTS == {"synchronous_full", "synchronous_normal"}
LMDB_VARIANTS == {"default", "writemap"}

AppendInit ==
    /\ variant = Nobody /\ holder = Nobody /\ rows = {}
    /\ stage = [w \in Writers |-> "unstarted"]
    /\ appended = [w \in Writers |-> 0] /\ attempts = [w \in Writers |-> 0]
    /\ exitcode = [w \in Writers |-> Nobody] /\ results = [w \in Writers |-> 0]

\* run_sqlite_append_variant, run_lmdb_append_variant up to the first start():
\* the store is created and nobody has it open.
StartVariant(v) ==
    /\ variant = Nobody /\ variant' = v
    /\ holder' = Nobody /\ rows' = {}
    /\ stage' = [w \in Writers |-> "unstarted"]
    /\ appended' = [w \in Writers |-> 0] /\ attempts' = [w \in Writers |-> 0]
    /\ exitcode' = [w \in Writers |-> Nobody]
    /\ UNCHANGED <<results, faults>>

\* The processes are started one after the other; the first may reach the
\* barrier before the last exists.
StartWriter(w) ==
    /\ variant # Nobody /\ stage[w] = "unstarted"
    /\ \A u \in Writers : u < w => stage[u] # "unstarted"
    /\ stage' = [stage EXCEPT ![w] = "connecting"]
    /\ UNCHANGED <<variant, appended, attempts, holder, exitcode, results, rows, faults>>

Connects(w) ==
    /\ stage[w] = "connecting"
    /\ stage' = [stage EXCEPT ![w] = "at_barrier"]
    /\ UNCHANGED <<variant, appended, attempts, holder, exitcode, results, rows, faults>>

\* Every party of the barrier has come: the writers, and the harness, which
\* comes when it has started the last of them.
BarrierOpens ==
    /\ \A w \in Writers : stage[w] = "at_barrier"
    /\ stage' = [w \in Writers |-> "appending"]
    /\ UNCHANGED <<variant, appended, attempts, holder, exitcode, results, rows, faults>>

TakesTheLock(w) ==
    /\ stage[w] = "appending" /\ appended[w] < Records /\ holder = Nobody
    /\ holder' = w /\ stage' = [stage EXCEPT ![w] = "holding"]
    /\ UNCHANGED <<variant, appended, attempts, exitcode, results, rows, faults>>

\* What is left of a writer that raises: its transaction is rolled back, and
\* there is no result file of this run.
Raises(w) ==
    /\ stage' = [stage EXCEPT ![w] = "exited"]
    /\ exitcode' = [exitcode EXCEPT ![w] = 1]
    /\ holder' = IF holder = w THEN Nobody ELSE holder
    /\ UNCHANGED <<variant, appended, results, rows>>

\* The retry counted after the limit is looked at: one more than allowed.
FindsItLocked_Slip(w) ==
    /\ variant \in SQLITE_VARIANTS
    /\ stage[w] = "appending" /\ appended[w] < Records /\ holder \notin {Nobody, w}
    /\ attempts' = [attempts EXCEPT ![w] = @ + 1]
    /\ IF attempts[w] > MaxRetries
       THEN Raises(w)
       ELSE UNCHANGED <<variant, stage, appended, holder, exitcode, results, rows>>
    /\ UNCHANGED faults

\* BEGIN IMMEDIATE raised "locked" after the busy timeout.
FindsItLocked(w) ==
    /\ variant \in SQLITE_VARIANTS
    /\ stage[w] = "appending" /\ appended[w] < Records /\ holder \notin {Nobody, w}
    /\ attempts' = [attempts EXCEPT ![w] = @ + 1]
    /\ IF attempts[w] + 1 > MaxRetries
       THEN Raises(w)
       ELSE UNCHANGED <<variant, stage, appended, holder, exitcode, results, rows>>
    /\ UNCHANGED faults

Commits(w) ==
    /\ stage[w] = "holding"
    /\ rows' = rows \union {<<w, appended[w]>>}
    /\ appended' = [appended EXCEPT ![w] = @ + 1]
    /\ attempts' = [attempts EXCEPT ![w] = 0]
    /\ holder' = Nobody /\ stage' = [stage EXCEPT ![w] = "appending"]
    /\ UNCHANGED <<variant, exitcode, results, faults>>

WritesItsResult(w) ==
    /\ stage[w] = "appending" /\ appended[w] = Records
    /\ results' = [results EXCEPT ![w] = Records]
    /\ exitcode' = [exitcode EXCEPT ![w] = 0]
    /\ stage' = [stage EXCEPT ![w] = "exited"]
    /\ UNCHANGED <<variant, appended, attempts, holder, rows, faults>>

WriterFails(w) ==
    /\ Fails
    /\ stage[w] \in {"connecting", "holding"}
    /\ Raises(w) /\ UNCHANGED attempts

\* A writer's own step.
WriterStep(w) ==
    \/ Connects(w) \/ TakesTheLock(w) \/ FindsItLocked(w) \/ Commits(w) \/ WritesItsResult(w)

AppendStep ==
    \/ \E w \in Writers : StartWriter(w) \/ WriterStep(w) \/ WriterFails(w)
    \/ BarrierOpens

-----------------------------------------------------------------------------

\* What the harness makes of the variant once every writer has been joined: an
\* error when one did not exit with 0, else what the result files add up to.
AllJoined == variant # Nobody /\ \A w \in Writers : stage[w] = "exited"
AppendReport ==
    IF \E w \in Writers : exitcode[w] # 0
    THEN [failed |-> TRUE, records |-> 0]
    ELSE [failed |-> FALSE, records |-> MapThenSumSet(LAMBDA w : results[w], Writers)]

\* A writer that raised before the barrier: nobody will ever open it.
NobodyWillCome ==
    /\ variant # Nobody
    /\ \E w \in Writers : stage[w] = "exited"
    /\ \E w \in Writers : stage[w] = "at_barrier"
=============================================================================
