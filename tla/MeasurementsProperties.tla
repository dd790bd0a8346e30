------------------------ MODULE MeasurementsProperties ------------------------
(***************************************************************************)
(* What a reader of a measurement's output takes it to say, and what is    *)
(* left behind by the program that printed it.                             *)
(***************************************************************************)
EXTENDS Measurements

\* The variables of the three programs keep to their types.
MeasurementsTypeOK ==
    /\ program \in PROGRAMS /\ invocation \in 1 .. MaxInvocations /\ faults \in 0 .. MaxFaults
    /\ variant \in SQLITE_VARIANTS \union LMDB_VARIANTS \union {Nobody}
    /\ stage \in [Writers -> {"unstarted", "connecting", "at_barrier", "appending", "holding", "exited"}]
    /\ appended \in [Writers -> 0 .. Records] /\ attempts \in [Writers -> 0 .. MaxRetries + 1]
    /\ holder \in Writers \union {Nobody} /\ exitcode \in [Writers -> {0, 1, Nobody}]
    /\ results \in [Writers -> {0, Records}] /\ rows \subseteq Writers \X (0 .. Records - 1)
    /\ crashing \in ENGINES \union {"none"} /\ event \in BOOLEAN /\ crashExit \in {0, 1, -9}
    /\ crasher \in {"none", "starting", "committed", "noted", "holding", "gone"}
    /\ reopener \in {"none", "not_tried", "running", "joined", "died"}
    /\ store \in [ENGINES -> SUBSET ((BaselineSeqs \union HeldSeqs) \X (1 .. MaxInvocations))]
    /\ baselineFile \in [ENGINES -> 0 .. MaxInvocations]
    /\ args \in Arguments /\ section \in 1 .. Len(SECTIONS) + 1
    /\ settings \in [ENGINES -> {"absent", "empty", "populated"}]
    /\ numericSection \in 1 .. Len(NUMERIC_SECTIONS) + 2
    /\ child \in {"none", "starting", "writing", "waiting", "gone"}
    /\ data \in 0 .. Elements /\ ready \in BOOLEAN /\ cycle \in 0 .. Cycles
    /\ driver \in {"none", "running", "exited", "killed"}
    /\ segments \subseteq {NUMERIC_SECTIONS[s] : s \in 1 .. Len(NUMERIC_SECTIONS)}
    /\ partSection \in 1 .. Len(PART_SECTIONS) + 1
    /\ part \in [Parts -> {"none", "starting", "spoken", "exited", "hung"}]

-----------------------------------------------------------------------------

ReportOn(kind) == report # NoFile /\ report.section[1] = kind /\ "importable" \notin DOMAIN report.answer

\* The throughput is that of all the records, each of them in the store; the
\* one reason to answer nothing is a writer that raised.
AppendReportIsTrue ==
    ReportOn("append") /\ variant = Nobody =>
        IF report.answer.failed
        THEN \E w \in Writers : exitcode[w] = 1
        ELSE /\ rows = Writers \X (0 .. Records - 1)
             /\ report.answer.records = Cardinality(rows)

\* A store that lost nothing, tore nothing and shows nothing uncommitted is
\* reported so, of this run.  Only a directory kept from an earlier run can make
\* it otherwise: SQLite's rows of that run are found first and taken for torn, and
\* that run's result file answers for a reopening process that died.
CrashReportIsTrue ==
    ReportOn("crash") /\ report.answer.signalled =>
        LET engine  == report.section[2]
            result  == report.answer.result
            earlier == \E row \in store[engine] : row[2] < report.in
        IN  /\ report.answer.exitcode \in {-9, 0}
            /\ result.of # report.in => DirectoryIsKept /\ faults > 0 /\ report.in > 1
            /\ result.of = report.in /\ result.opened =>
                  /\ result.present = BaselineRecords /\ result.uncommitted = 0
                  /\ result.torn = IF engine = "sqlite" /\ earlier THEN BaselineSeqs ELSE {}
                  /\ (engine = "lmdb" \/ ~earlier) => result.total = BaselineRecords
            /\ ~result.opened => faults > 0

\* The range query returns the records the part was given in the window, and no
\* other part's as long as the key's width holds the part's id; the setting looked
\* up is there, for the section that makes it has run.
QueryReportIsTrue ==
    ReportOn("query") =>
        /\ (report.section[2] = "sqlite" \/ args.wide) =>
              report.answer.rows =
                Cardinality({i \in 0 .. QueryRecords - 1 : i % QueryParts = 0 /\ i <= QueryWindow})
        /\ report.answer.lookup # "found" => faults > 0

\* A child that signalled had written all of its state, and all of it is there
\* after the kill, flushed or not, in a file or in a segment; a segment seen
\* later was seen earlier, and none is left when the section has unlinked it.
NumericReportIsTrue ==
    \A s \in DOMAIN numericReport : numericReport[s] # NoReport =>
        LET r == numericReport[s]
        IN  /\ s \in OnMemmap \ {"leak_across_cycles"} => (r.ready => r.matched = Elements)
            /\ s = "ram_shared_memory" => (r.ready => r.attached)
            /\ s = "sigkill_specifics" =>
                  /\ r.attached => r.settled
                  /\ r.settled => r.at_once
                  /\ r.ready /\ r.attached => r.matches
                  /\ r.unlinked => r.settled
                  /\ ~r.left

\* After the sweep no segment of the run is in /dev/shm, but one: a child whose
\* driver was killed at its timeout is nobody's to kill, and may create its
\* segment after the sweep.
OnlyAnOrphanLeavesASegment ==
    Swept /\ segments # {} => segments = {"sigkill_specifics"} /\ driver = "killed"

\* Every part started is accounted for, a part that is still there was reported
\* not to have exited, and the three ways of the glue workload process the same
\* items, in no more threads than asked for.
PartReportIsTrue ==
    /\ partReport.section = "forkserver_viability" =>
          /\ Len(partReport.children) = Cardinality(Parts)
          /\ \A p \in lingering : p[1] \in Parts /\ ~partReport.children[p[1] + 1].exited
    /\ partReport.section = "glue_workload" =>
          /\ partReport.threads = partReport.single /\ partReport.processes = partReport.single
          /\ partReport.n_threads <= GlueWorkers
    /\ partReport.section \in {"idle_part_memory", "memory_return"} =>
          partReport.exits \union partReport.terminated = PartsOf(partReport.section)

\* What a measurement program reports is what happened, and what it leaves
\* behind is what it says, but for five things.  In a directory kept from an
\* earlier run an intact SQLite store is called torn, and that run's result file
\* answers for a reopening process that died; a child whose driver was killed
\* creates its segment after the last sweep; LMDB's range query returns other
\* parts' rows when the key's width does not hold the part's id; and a part may
\* outlive the program that reported it as not exited.
ReportSaysWhatHappened ==
    /\ AppendReportIsTrue /\ CrashReportIsTrue /\ QueryReportIsTrue
    /\ NumericReportIsTrue /\ OnlyAnOrphanLeavesASegment
    /\ PartReportIsTrue

\* Every program prints its output and exits, although most of its waits have no
\* timeout.  In measure_store.py these are the barriers (359, 419) and the joins of
\* the writers (362, 422), of the process that looks a setting up (539), of one
\* killed (743, 888) and of the one that reopens (760, 906); in
\* measure_interpreter.py the threads and the pool of the glue workload (400, 419)
\* and the interpreter's own join of its children at exit.  Only two can last for
\* ever: the barrier, when a writer raised before it, and the join at exit of a
\* part that hangs and that nobody terminates.
EveryProgramEnds ==
    <>(CASE program = "measure_store"         -> Printed \/ NobodyWillCome
         [] program = "measure_numeric_state" -> Swept
         [] program = "measure_interpreter"   -> Ended \/ \E p \in lingering : p[2] = "hung")
=============================================================================
