--------------------------- MODULE PartMeasurement ---------------------------
(***************************************************************************)
(* measure_interpreter.py: parts forked from a forkserver.  forkserver_    *)
(* viability starts them one after the other and waits for each one's      *)
(* report, then for its exit, both with a timeout; idle_part_memory and    *)
(* memory_return start parts that wait for a stop event, and end with      *)
(* terminate() for the ones still alive.  A part may hang (a fault).  When *)
(* main() has returned, multiprocessing joins every child still there,     *)
(* without a timeout.                                                      *)
(***************************************************************************)
EXTENDS MeasurementRun, FiniteSets, FiniteSetsExt, Sequences

CONSTANTS Parts,        \* 0 .. n-1: --parts
          StreamItems,  \* --items
          GlueWorkers   \* --threads

ASSUME PartMeasurementAssumption ==
    /\ IsFiniteSet(Parts) /\ Parts = 0 .. Cardinality(Parts) - 1 /\ Parts # {}
    /\ StreamItems \in Nat \ {0} /\ GlueWorkers \in Nat \ {0}

VARIABLES
    partSection,  \* the section of run_all, an index of PART_SECTIONS
    part,         \* part[p]: where the part p of this section is
    parent,       \* where the section is: "starting", "waiting", "stopping" or "joining"
    outcomes,     \* viability: the parts done with, what each reported and its exit code
    lingering,    \* parts of an earlier section that have not exited: hung or slow
    partReport    \* what the last section returned

partVars == <<partSection, part, parent, outcomes, lingering, partReport>>

PART_SECTIONS == <<"forkserver_viability", "glue_workload", "idle_part_memory", "memory_return">>
Now == IF partSection \in DOMAIN PART_SECTIONS THEN PART_SECTIONS[partSection] ELSE "returned"

\* The parts of the section: the idle part is one.
PartsOf(s) == IF s = "idle_part_memory" THEN {0} ELSE Parts
IdleSection == Now \in {"idle_part_memory", "memory_return"}

PartMeasurementInit ==
    /\ partSection = 1 /\ parent = "starting" /\ outcomes = <<>> /\ lingering = {}
    /\ part = [p \in Parts |-> "none"]
    /\ partReport = [section |-> "none"]

Alive(p) == part[p] \in {"starting", "spoken", "hung"}
PartIs(p, where) == part' = [part EXCEPT ![p] = where]

-----------------------------------------------------------------------------
\* A part: _forkserver_part_worker reports and exits, _idle_numpy_part_worker
\* imports, signals, waits for its stop event and exits.

Speaks(p) ==
    /\ part[p] = "starting" /\ PartIs(p, "spoken")
    /\ UNCHANGED <<partSection, parent, outcomes, lingering, partReport, faults>>

Exits(p) ==
    /\ part[p] = "spoken" /\ (IdleSection => parent \in {"stopping", "joining"})
    /\ PartIs(p, "exited")
    /\ UNCHANGED <<partSection, parent, outcomes, lingering, partReport, faults>>

Hangs(p) ==
    /\ part[p] \in {"starting", "spoken"} /\ Fails /\ PartIs(p, "hung")
    /\ UNCHANGED <<partSection, parent, outcomes, lingering, partReport>>

\* A part an earlier section stopped waiting for exits after all.
LateExit(p) ==
    /\ p \in lingering /\ p[2] # "hung" /\ lingering' = lingering \ {p}
    /\ UNCHANGED <<partSection, part, parent, outcomes, partReport, faults>>

PartSteps == \E p \in Parts : Speaks(p) \/ Exits(p)

Answered(what) ==
    /\ partSection' = partSection + 1 /\ partReport' = what
    /\ parent' = "starting" /\ outcomes' = <<>>
    /\ part' = [p \in Parts |-> "none"]

-----------------------------------------------------------------------------
\* measure_forkserver_viability: the part whose turn it is.

Turn == Len(outcomes)

StartsPart ==
    /\ Now = "forkserver_viability" /\ parent = "starting"
    /\ PartIs(Turn, "starting") /\ parent' = "waiting"
    /\ UNCHANGED <<partSection, outcomes, lingering, partReport, faults>>

\* q.get: the report, or the timeout's error.
GetsReport ==
    /\ Now = "forkserver_viability" /\ parent = "waiting"
    /\ parent' = IF part[Turn] \in {"spoken", "exited"} THEN "joining" ELSE "joining_unheard"
    /\ UNCHANGED <<partSection, part, outcomes, lingering, partReport, faults>>

\* p.join(timeout): the part has exited or is left behind.  A part that was
\* not heard in time may speak and exit meanwhile.
JoinsPart ==
    /\ Now = "forkserver_viability" /\ parent \in {"joining", "joining_unheard"}
    /\ LET done == Append(outcomes, [heard |-> parent = "joining", exited |-> part[Turn] = "exited"])
       IN  /\ lingering' = IF Alive(Turn) THEN lingering \union {<<Turn, part[Turn]>>} ELSE lingering
           /\ IF Len(done) = Cardinality(Parts)
              THEN Answered([section |-> Now, children |-> done])
              ELSE /\ outcomes' = done /\ parent' = "starting"
                   /\ PartIs(Turn, "none") /\ UNCHANGED <<partSection, partReport>>
    /\ UNCHANGED faults

-----------------------------------------------------------------------------

\* _chunk_list: pieces of ceil(n / k) items, the last one what is left.
ChunkSize == (StreamItems + GlueWorkers - 1) \div GlueWorkers
Chunks == {<<i, i + ChunkSize - 1>> : i \in {j \in 0 .. StreamItems - 1 : j % ChunkSize = 0}}
ItemsOf(chunk) == Cardinality({i \in 0 .. StreamItems - 1 : i \in chunk[1] .. chunk[2]})

\* measure_glue_workload: the stream by one thread, its chunks by as many threads
\* and by a pool's processes; what each says it processed.
RunsGlue ==
    /\ Now = "glue_workload"
    /\ LET processed == MapThenSumSet(ItemsOf, Chunks)
       IN  Answered([section |-> Now, single |-> StreamItems, threads |-> processed,
                     n_threads |-> Cardinality(Chunks), processes |-> processed])
    /\ UNCHANGED <<lingering, faults>>

-----------------------------------------------------------------------------
\* measure_idle_part_rss_pss, measure_memory_return.

StartsIdleParts ==
    /\ IdleSection /\ parent = "starting" /\ parent' = "waiting"
    /\ part' = [p \in Parts |-> IF p \in PartsOf(Now) THEN "starting" ELSE "none"]
    /\ UNCHANGED <<partSection, outcomes, lingering, partReport, faults>>

\* Each ready event was waited for, seen or timed out; the stop events are set.
StopsThem ==
    /\ IdleSection /\ parent = "waiting" /\ parent' = "stopping"
    /\ UNCHANGED <<partSection, part, outcomes, lingering, partReport, faults>>

\* The joins have returned, with the exits or at their timeouts; what is still
\* alive is terminated.
Terminates ==
    /\ IdleSection /\ parent = "stopping"
    /\ Answered([section |-> Now,
                 exits |-> {p \in PartsOf(Now) : part[p] = "exited"},
                 terminated |-> {p \in PartsOf(Now) : Alive(p)}])
    /\ UNCHANGED <<lingering, faults>>

Returned == Now = "returned"
\* The interpreter exits when every child it did not see exit has gone.
Ended == Returned /\ lingering = {}

PartParentStep ==
    StartsPart \/ GetsReport \/ JoinsPart \/ RunsGlue \/ StartsIdleParts \/ StopsThem \/ Terminates

PartMeasurementNext ==
    /\ \/ PartParentStep \/ PartSteps
       \/ \E p \in Parts : Hangs(p)
       \/ \E p \in lingering : LateExit(p)
    /\ UNCHANGED invocation
=============================================================================
