----------------------- MODULE NumericStateMeasurement -----------------------
(***************************************************************************)
(* measure_numeric_state.py: what of a part's numeric state survives       *)
(* SIGKILL.  A child maps a file, or creates a shared-memory segment,      *)
(* writes a pattern into it, signals and waits to be killed; the harness   *)
(* kills it when it signals or when it has waited long enough, and looks.  *)
(* The sigkill_specifics section does so through a driver, a process of    *)
(* its own that has its own resource tracker; only the driver is killed    *)
(* when it takes too long.                                                 *)
(***************************************************************************)
EXTENDS MeasurementRun, FiniteSets, Sequences

CONSTANTS Elements,  \* of the array a child writes
          Cycles     \* --cycles

ASSUME NumericAssumption == Elements \in Nat \ {0} /\ Cycles \in Nat \ {0}

VARIABLES
    numericSection,  \* the section main() is at, an index of NUMERIC_SECTIONS
    child,           \* "none", "starting", "writing", "waiting" or "gone"
    data,            \* elements of the pattern in the file or the segment
    ready,           \* ready.is_set()
    cycle,           \* off/on cycles done
    driver,          \* "none", "running", "exited" or "killed"
    segments,        \* the sections whose segment is in /dev/shm
    seen,            \* what sigkill_specifics has seen so far
    numericReport    \* numericReport[s]: what section s returned, or NoReport

numericVars == <<numericSection, child, data, ready, cycle, driver, segments, seen, numericReport>>

NUMERIC_SECTIONS ==
    << "no_flush", "with_flush", "leak_across_cycles", "ram_memmap", "ram_shared_memory",
       "sigkill_specifics", "write_throughput", "cgroup_accounting" >>

NoReport == [error |-> TRUE]
Here == IF numericSection \in DOMAIN NUMERIC_SECTIONS
        THEN NUMERIC_SECTIONS[numericSection] ELSE "swept"
OnMemmap == {"no_flush", "with_flush", "leak_across_cycles", "ram_memmap"}
OnSharedMemory == {"ram_shared_memory", "sigkill_specifics"}
ChildRuns == child \in {"starting", "writing", "waiting"}

NumericInit ==
    /\ numericSection = 1 /\ child = "none" /\ data = 0 /\ ready = FALSE /\ cycle = 0
    /\ driver = "none" /\ segments = {} /\ seen = <<>>
    /\ numericReport = [s \in {} |-> NoReport]

-----------------------------------------------------------------------------
\* The child.

\* It maps the file the harness left full of zeros, or creates the segment.
ChildOpens ==
    /\ child = "starting" /\ child' = "writing" /\ data' = 0
    /\ segments' = IF driver # "none" \/ Here = "ram_shared_memory"
                   THEN segments \union {IF driver # "none" THEN "sigkill_specifics" ELSE Here}
                   ELSE segments
    /\ UNCHANGED <<numericSection, ready, cycle, driver, seen, numericReport, faults>>

ChildWrites ==
    /\ child = "writing" /\ data < Elements /\ data' = data + 1
    /\ UNCHANGED <<numericSection, child, ready, cycle, driver, segments, seen, numericReport, faults>>

\* Flushed or not: a flush changes nothing a kill of the process can show.
ChildSignals ==
    /\ child = "writing" /\ data = Elements
    /\ child' = "waiting" /\ ready' = TRUE
    /\ UNCHANGED <<numericSection, data, cycle, driver, segments, seen, numericReport, faults>>

\* Five minutes have passed and nobody has killed it.
ChildLeaves ==
    /\ child = "waiting" /\ driver = "killed" /\ child' = "gone"
    /\ UNCHANGED <<numericSection, data, ready, cycle, driver, segments, seen, numericReport, faults>>

ChildStep == ChildOpens \/ ChildWrites \/ ChildSignals \/ ChildLeaves

\* A section has returned, or raised.
Returns(what) ==
    /\ numericSection' = numericSection + 1
    /\ numericReport' = [s \in DOMAIN numericReport \union {Here} |->
                            IF s = Here THEN what ELSE numericReport[s]]

-----------------------------------------------------------------------------
\* The sections that kill the child themselves.

StartsChild ==
    /\ Here \in OnMemmap \union {"ram_shared_memory"} /\ child = "none"
    /\ child' = "starting" /\ ready' = FALSE /\ data' = 0
    /\ UNCHANGED <<numericSection, cycle, driver, segments, seen, numericReport, faults>>

\* _start_child_and_kill, and the harness's own mapping of the file: the wait
\* for the signal has ended, with it or without, the child is killed and the
\* elements that match are counted.
KillsAndReads ==
    /\ Here \in OnMemmap \ {"leak_across_cycles"} /\ ChildRuns
    /\ child' = "none"
    /\ Returns([ready |-> ready, matched |-> data])
    /\ UNCHANGED <<data, ready, cycle, driver, segments, seen, faults>>

\* One more off/on cycle over the same file, which the harness maps and lets go.
KillsAndCounts ==
    /\ Here = "leak_across_cycles" /\ ChildRuns
    /\ child' = "none"
    /\ IF cycle + 1 = Cycles
       THEN Returns([cycles |-> Cycles]) /\ cycle' = 0
       ELSE cycle' = cycle + 1 /\ UNCHANGED <<numericSection, numericReport>>
    /\ UNCHANGED <<data, ready, driver, segments, seen, faults>>

\* The segment outlives the child; the harness attaches to it if it is there,
\* and unlinks it.
KillsAndAttaches ==
    /\ Here = "ram_shared_memory" /\ ChildRuns
    /\ child' = "none"
    /\ Returns([ready |-> ready, attached |-> Here \in segments])
    /\ segments' = segments \ {Here}
    /\ UNCHANGED <<data, ready, cycle, driver, seen, faults>>

-----------------------------------------------------------------------------
\* sigkill_specifics.

StartsDriver ==
    /\ Here = "sigkill_specifics" /\ driver = "none"
    /\ driver' = "running" /\ child' = "starting" /\ ready' = FALSE /\ data' = 0
    /\ UNCHANGED <<numericSection, cycle, segments, seen, numericReport, faults>>

\* It kills its child, signalled or not, and exits.
DriverKills ==
    /\ driver = "running" /\ ChildRuns
    /\ driver' = "exited" /\ child' = "gone"
    /\ UNCHANGED <<numericSection, data, ready, cycle, segments, seen, numericReport, faults>>

\* subprocess.run's timeout: the driver is killed, its child is not.
DriverTimesOut ==
    /\ driver = "running" /\ driver' = "killed"
    /\ Returns(NoReport)
    /\ UNCHANGED <<child, data, ready, cycle, segments, seen, faults>>

\* The driver's resource tracker ends when no process holds its pipe any more,
\* and unlinks what they left.
TrackerUnlinks ==
    /\ driver \in {"exited", "killed"} /\ ~ChildRuns
    /\ "sigkill_specifics" \in segments
    /\ segments' = segments \ {"sigkill_specifics"}
    /\ UNCHANGED <<numericSection, child, data, ready, cycle, driver, seen, numericReport, faults>>

\* The four looks at the segment, in their order: at once, after the settle
\* wait, by attaching (when the second found it), by unlinking.
Looks ==
    /\ Here = "sigkill_specifics" /\ driver = "exited"
    /\ LET there == "sigkill_specifics" \in segments
       IN  \/ /\ Len(seen) < 2
              /\ seen' = Append(seen, there)
              /\ UNCHANGED <<numericSection, numericReport, segments, driver, child>>
           \/ /\ Len(seen) = 2
              /\ seen' = Append(seen, seen[2] /\ there)
              /\ UNCHANGED <<numericSection, numericReport, segments, driver, child>>
           \/ /\ Len(seen) = 3
              /\ segments' = segments \ {"sigkill_specifics"}
              /\ Returns([ready |-> ready, at_once |-> seen[1], settled |-> seen[2],
                          attached |-> seen[3],
                          matches |-> seen[3] /\ data = Elements,
                          unlinked |-> there,
                          left |-> "sigkill_specifics" \in segments'])
              /\ seen' = <<>> /\ UNCHANGED driver /\ child' = "none"
    /\ UNCHANGED <<data, ready, cycle, faults>>

-----------------------------------------------------------------------------

\* measure_write_throughput, measure_cgroup_accounting: a segment is created
\* and unlinked in the harness itself, unless something raises in between.
MeasuresInPlace ==
    /\ Here \in {"write_throughput", "cgroup_accounting"}
    /\ \/ Returns([measured |-> TRUE]) /\ UNCHANGED <<segments, faults>>
       \/ Returns(NoReport) /\ segments' = segments \union {Here} /\ Fails
    /\ UNCHANGED <<child, data, ready, cycle, driver, seen>>

\* finally: every segment with the run's prefix is removed.
Sweeps ==
    /\ numericSection = Len(NUMERIC_SECTIONS) + 1
    /\ numericSection' = numericSection + 1
    /\ segments' = {}
    /\ UNCHANGED <<child, data, ready, cycle, driver, seen, numericReport, faults>>

Swept == numericSection = Len(NUMERIC_SECTIONS) + 2

NumericHarnessStep ==
    \/ StartsChild \/ KillsAndReads \/ KillsAndCounts \/ KillsAndAttaches
    \/ StartsDriver \/ DriverKills \/ DriverTimesOut \/ Looks \/ MeasuresInPlace \/ Sweeps

NumericNext ==
    /\ ChildStep \/ NumericHarnessStep \/ TrackerUnlinks
    /\ UNCHANGED invocation
=============================================================================
