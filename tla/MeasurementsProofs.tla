------------------------- MODULE MeasurementsProofs -------------------------
(***************************************************************************)
(* Theorems about the measurement programs: what they print is what        *)
(* happened, whatever fails, however often they are run in a directory and *)
(* whatever their arguments.  The invariant is one conjunct for each       *)
(* program's own state; its longest part says what the two engines' stores *)
(* hold between a kill and the next reopening.                             *)
(***************************************************************************)
EXTENDS MeasurementsProperties, Minimality, SequenceTheorems

(* Which program runs, how often it has been started in the directory, and *)
(* how much has failed.                                                    *)
RunOK ==
    program \in PROGRAMS /\ invocation \in 1 .. MaxInvocations /\ faults \in 0 .. MaxFaults

(* The append measurement: the rows in the store are exactly those the     *)
(* writers have counted as appended, and a writer that exited with 0       *)
(* appended and reported all of its records.                               *)
AppendOK ==
    /\ variant \in SQLITE_VARIANTS \union LMDB_VARIANTS \union {Nobody}
    /\ stage \in [Writers -> {"unstarted", "connecting", "at_barrier", "appending", "holding", "exited"}]
    /\ appended \in [Writers -> 0 .. Records]
    /\ attempts \in [Writers -> 0 .. MaxRetries + 1]
    /\ holder \in Writers \union {Nobody}
    /\ exitcode \in [Writers -> {0, 1, Nobody}]
    /\ results \in [Writers -> {0, Records}]
    /\ rows = {r \in Writers \X (0 .. Records - 1) : r[2] < appended[r[1]]}
    /\ \A w \in Writers :
          /\ stage[w] = "holding" => appended[w] < Records
          /\ stage[w] # "exited" => attempts[w] <= MaxRetries
          /\ stage[w] = "exited" => exitcode[w] \in {0, 1}
          /\ variant = Nobody => stage[w] \in {"unstarted", "exited"}
          /\ variant # Nobody /\ exitcode[w] = 0 => appended[w] = Records /\ results[w] = Records

(* The section an engine's store is killed and reopened in.                *)
CrashSection(e) == IF e = "sqlite" THEN 7 ELSE 8

(* An engine's store has not been reopened in this invocation yet.         *)
NotReopened(e) ==
    section <= CrashSection(e) /\ (section = CrashSection(e) => reopener # "joined")

(* A result of the reopening process says what happened: every baseline    *)
(* row is there and none of the uncommitted ones, and SQLite's are taken   *)
(* for torn when an earlier invocation left its own.                       *)
ResultIsTrue(e, result) ==
    LET earlier == \E row \in store[e] : row[2] < invocation
    IN  /\ result.present = BaselineRecords /\ result.uncommitted = 0
        /\ result.torn = IF e = "sqlite" /\ earlier THEN BaselineSeqs ELSE {}
        /\ (e = "lmdb" \/ ~earlier) => result.total = BaselineRecords

(* A result file is of this invocation only once the store has been        *)
(* reopened in it, and then says what happened; one of an earlier          *)
(* invocation is only found in a kept directory.                           *)
FileOK(e, file) ==
    /\ file.of \in 1 .. invocation /\ file.opened \in BOOLEAN
    /\ file.of < invocation => DirectoryIsKept
    /\ ~file.opened => faults > 0
    /\ file.of = invocation => ~NotReopened(e)
    /\ file.of = invocation /\ file.opened => ResultIsTrue(e, file)

(* This invocation's baseline is in the engine's store.                    *)
Committed(e) == BaselineSeqs \X {invocation} \subseteq store[e]

(* The crash measurement: an engine's store holds whole baselines, one of  *)
(* each invocation that committed, and what the two processes have done    *)
(* bounds what is in the store, on the event and in the files.             *)
CrashOK ==
    /\ crashing \in ENGINES \union {"none"} /\ event \in BOOLEAN /\ crashExit \in {0, 1, -9}
    /\ crasher \in {"none", "starting", "committed", "noted", "holding", "gone"}
    /\ reopener \in {"none", "not_tried", "running", "joined", "died"}
    /\ store \in [ENGINES -> SUBSET (BaselineSeqs \X (1 .. invocation))]
    /\ baselineFile \in [ENGINES -> 0 .. invocation]
    /\ DOMAIN reopenFile = ENGINES
    /\ crashing = "none" => crasher \in {"none", "gone"} /\ reopener = "none" /\ ~event
    /\ crashing # "none" => section = CrashSection(crashing)
    /\ crashing = "lmdb" => args.lmdb
    /\ reopener # "none" => crasher = "gone"
    /\ crasher \in {"starting", "committed", "noted"} => ~event /\ crashExit = 0
    /\ crasher = "holding" => event
    /\ event => crashExit \in {0, -9}
    /\ reopener \in {"running", "joined", "died"} => event
    /\ event \/ crasher \in {"committed", "noted"} => Committed(crashing)
    /\ event \/ crasher = "noted" => baselineFile[crashing] = invocation
    /\ reopener = "joined" => reopenFile[crashing] # NoFile /\ reopenFile[crashing].of = invocation
    /\ reopener = "died" => faults > 0
    /\ \A e \in ENGINES :
          /\ \A row \in store[e] : BaselineSeqs \X {row[2]} \subseteq store[e]
          /\ reopenFile[e] # NoFile => FileOK(e, reopenFile[e])

(* The sections of the store measurement: a variant runs only in the       *)
(* append sections, and past a cold read its settings are in the store     *)
(* unless something failed.                                                *)
StoreOK ==
    /\ args \in Arguments /\ section \in 1 .. 12
    /\ settings \in [ENGINES -> {"absent", "empty", "populated"}]
    /\ variant # Nobody => section \in 1 .. 4 /\ (section \in {3, 4} => args.lmdb)
    /\ section \notin {5, 6} => cold = NoFile
    /\ section = 6 /\ cold # NoFile => args.lmdb
    /\ section > 5 \/ (section = 5 /\ cold # NoFile) => settings["sqlite"] = "populated" \/ faults > 0
    /\ (section > 6 /\ args.lmdb) \/ (section = 6 /\ cold # NoFile) =>
          settings["lmdb"] = "populated" \/ faults > 0

(* The numeric-state measurement: a child waits only with all of its state *)
(* written, a segment seen at a look was seen at every look before, and    *)
(* past the end only an orphan's segment can be there.                     *)
NumericOK ==
    /\ numericSection \in 1 .. 10
    /\ child \in {"none", "starting", "writing", "waiting", "gone"}
    /\ data \in 0 .. Elements /\ ready \in BOOLEAN /\ cycle \in 0 .. Cycles - 1
    /\ driver \in {"none", "running", "exited", "killed"}
    /\ segments \subseteq {NUMERIC_SECTIONS[s] : s \in 1 .. 8}
    /\ seen \in Seq(BOOLEAN) /\ Len(seen) <= 3
    /\ driver = "running" => numericSection = 6
    /\ numericSection < 6 => driver = "none"
    /\ numericSection > 6 => driver \in {"exited", "killed"}
    /\ numericSection = 6 => driver # "killed"
    /\ driver = "exited" => child \in {"gone", "none"}
    /\ numericSection = 6 /\ driver = "none" => child = "none"
    /\ numericSection = 5 /\ child \in {"writing", "waiting"} => "ram_shared_memory" \in segments
    /\ child = "waiting" => data = Elements
    /\ ready => data = Elements /\ child \notin {"starting", "writing"}
    /\ seen # <<>> => driver = "exited" /\ numericSection = 6
    /\ \A i \in 1 .. Len(seen) :
          /\ seen[i] => (\A j \in 1 .. i : seen[j])
          /\ ~seen[i] => "sigkill_specifics" \notin segments
    /\ numericSection = 10 /\ segments # {} => segments = {"sigkill_specifics"} /\ driver = "killed"
    /\ "sigkill_specifics" \in segments => driver # "none"

(* The interpreter measurement: every part whose outcome is known was      *)
(* started, and one that lingers was found not to have exited.             *)
PartOK ==
    /\ partSection \in 1 .. 5
    /\ part \in [Parts -> {"none", "starting", "spoken", "exited", "hung"}]
    /\ parent \in {"starting", "waiting", "joining", "joining_unheard", "stopping"}
    /\ outcomes \in Seq([heard : BOOLEAN, exited : BOOLEAN])
    /\ partSection # 1 => outcomes = <<>>
    /\ partSection = 1 => partReport.section = "none"
    /\ Len(outcomes) < Cardinality(Parts)
    /\ partSection = 1 /\ parent # "starting" => part[Len(outcomes)] # "none"
    /\ partSection \in {3, 4} /\ parent # "starting" => \A p \in PartsOf(Now) : part[p] # "none"
    /\ partSection = 1 => \A p \in lingering : p[1] \in 0 .. Len(outcomes) - 1 /\ ~outcomes[p[1] + 1].exited
    /\ PartReportIsTrue

-----------------------------------------------------------------------------

(* The store measurement's sections, in their order.                       *)
LEMMA SectionsAre ==
    /\ Len(SECTIONS) = 11
    /\ SECTIONS[1] = <<"append", "synchronous_full">> /\ SECTIONS[2] = <<"append", "synchronous_normal">>
    /\ SECTIONS[3] = <<"append", "default">> /\ SECTIONS[4] = <<"append", "writemap">>
    /\ SECTIONS[5] = <<"cold", "sqlite">> /\ SECTIONS[6] = <<"cold", "lmdb">>
    /\ SECTIONS[7] = <<"crash", "sqlite">> /\ SECTIONS[8] = <<"crash", "lmdb">>
    /\ SECTIONS[9] = <<"query", "sqlite">> /\ SECTIONS[10] = <<"query", "lmdb">>
    /\ SECTIONS[11] = <<"sizes", "both">>
BY DEF SECTIONS

(* The writers are numbered from 0.                                        *)
LEMMA WritersAre ==
    /\ IsFiniteSet(Writers) /\ Writers # {} /\ Writers \subseteq Nat /\ 0 \in Writers
    /\ Cardinality(Writers) \in Nat /\ Writers = 0 .. Cardinality(Writers) - 1
BY AppendAssumption, FS_CardinalityType

(* A variant begins with an empty store and no writer started.             *)
LEMMA AppendStarts ==
  ASSUME AppendOK, NEW v \in SQLITE_VARIANTS \union LMDB_VARIANTS, StartVariant(v)
  PROVE  AppendOK'
<1> USE AppendAssumption, WritersAre DEF SQLITE_VARIANTS, LMDB_VARIANTS
<1>1. /\ stage' = [w \in Writers |-> "unstarted"] /\ appended' = [w \in Writers |-> 0]
      /\ attempts' = [w \in Writers |-> 0] /\ exitcode' = [w \in Writers |-> Nobody]
      /\ variant' = v /\ holder' = Nobody /\ results' = results /\ rows' = {}
  BY DEF StartVariant
<1>2. Nobody \notin {0} /\ v # Nobody
  OBVIOUS
<1>3. rows' = {r \in Writers \X (0 .. Records - 1) : r[2] < appended'[r[1]]}
  BY <1>1
<1> QED BY <1>1, <1>2, <1>3 DEF AppendOK

(* Every step of the writers, and of the harness that starts and joins     *)
(* them, keeps the rows those that were appended.                          *)
LEMMA AppendGoesOn ==
  ASSUME AppendOK, AppendStep
  PROVE  AppendOK'
<1>a. Records \in Nat \ {0} /\ MaxRetries \in Nat /\ Nobody \notin Writers /\ Nobody # 0
  BY AppendAssumption, WritersAre
<1>b. \E w \in Writers : TRUE
  BY WritersAre
<1> USE <1>a
<1>t. /\ stage \in [Writers -> {"unstarted", "connecting", "at_barrier", "appending", "holding", "exited"}]
      /\ appended \in [Writers -> 0 .. Records]
      /\ attempts \in [Writers -> 0 .. MaxRetries + 1]
      /\ exitcode \in [Writers -> {0, 1, Nobody}]
  BY DEF AppendOK
<1>1. ASSUME NEW w \in Writers, StartWriter(w) PROVE AppendOK'
  BY <1>1 DEF AppendOK, StartWriter
<1>2. ASSUME NEW w \in Writers, Connects(w) PROVE AppendOK'
  BY <1>2 DEF AppendOK, Connects
<1>3. ASSUME NEW w \in Writers, TakesTheLock(w) PROVE AppendOK'
  BY <1>3 DEF AppendOK, TakesTheLock
<1>4. ASSUME NEW w \in Writers, Raises(w), attempts' \in [Writers -> 0 .. MaxRetries + 1],
             \A u \in Writers : u # w => attempts'[u] = attempts[u],
             stage[w] \in {"connecting", "holding", "appending"}
      PROVE  AppendOK'
  <2>1. /\ stage' = [stage EXCEPT ![w] = "exited"] /\ exitcode' = [exitcode EXCEPT ![w] = 1]
        /\ UNCHANGED <<variant, appended, results, rows>>
    BY <1>4 DEF Raises
  <2>2. holder' \in Writers \union {Nobody}
    BY <1>4 DEF Raises, AppendOK
  <2>3. variant # Nobody
    BY <1>4 DEF AppendOK
  <2>4. /\ stage' \in [Writers -> {"unstarted", "connecting", "at_barrier", "appending", "holding", "exited"}]
        /\ exitcode' \in [Writers -> {0, 1, Nobody}]
    BY <1>t, <2>1
  <2>5. \A u \in Writers :
          /\ stage'[u] # "exited" => u # w /\ stage[u] = stage'[u]
          /\ stage'[u] = "exited" => exitcode'[u] \in {0, 1}
          /\ exitcode'[u] = 0 => exitcode[u] = 0
    BY <1>t, <2>1 DEF AppendOK
  <2> QED BY <1>4, <2>1, <2>2, <2>3, <2>4, <2>5 DEF AppendOK
<1>5. ASSUME NEW w \in Writers, FindsItLocked(w) PROVE AppendOK'
  <2>1. attempts' = [attempts EXCEPT ![w] = attempts[w] + 1] /\ stage[w] = "appending"
    BY <1>5 DEF FindsItLocked
  <2>2. attempts[w] \in 0 .. MaxRetries
    BY <2>1 DEF AppendOK
  <2>3. CASE attempts[w] + 1 > MaxRetries
    <3>1. Raises(w)
      BY <1>5, <2>3 DEF FindsItLocked
    <3>2. attempts' \in [Writers -> 0 .. MaxRetries + 1]
      BY <1>t, <2>1, <2>2
    <3>3. \A u \in Writers : u # w => attempts'[u] = attempts[u]
      BY <2>1 DEF AppendOK
    <3> QED BY <1>4, <2>1, <3>1, <3>2, <3>3
  <2>4. CASE ~(attempts[w] + 1 > MaxRetries)
    <3>1. UNCHANGED <<variant, stage, appended, holder, exitcode, results, rows>>
      BY <1>5, <2>4 DEF FindsItLocked
    <3>2. attempts' \in [Writers -> 0 .. MaxRetries + 1]
      BY <1>t, <2>1, <2>2
    <3>3. \A u \in Writers : stage[u] # "exited" => attempts'[u] <= MaxRetries
      BY <2>1, <2>2, <2>4 DEF AppendOK
    <3> QED BY <2>1, <3>1, <3>2, <3>3 DEF AppendOK
  <2> QED BY <2>3, <2>4
<1>6. ASSUME NEW w \in Writers, Commits(w) PROVE AppendOK'
  <2>1. /\ stage[w] = "holding" /\ rows' = rows \union {<<w, appended[w]>>}
        /\ appended' = [appended EXCEPT ![w] = appended[w] + 1]
        /\ attempts' = [attempts EXCEPT ![w] = 0]
        /\ holder' = Nobody /\ stage' = [stage EXCEPT ![w] = "appending"]
        /\ UNCHANGED <<variant, exitcode, results>>
    BY <1>6 DEF Commits
  <2>2. appended[w] \in 0 .. Records - 1 /\ appended \in [Writers -> 0 .. Records]
    BY <2>1 DEF AppendOK
  <2>3. rows' = {r \in Writers \X (0 .. Records - 1) : r[2] < appended'[r[1]]}
    <3>1. rows = {r \in Writers \X (0 .. Records - 1) : r[2] < appended[r[1]]}
      BY DEF AppendOK
    <3>2. \A u \in Writers, k \in 0 .. Records - 1 :
            k < appended'[u] <=> k < appended[u] \/ (u = w /\ k = appended[w])
      BY <2>1, <2>2
    <3>3. \A r \in Writers \X (0 .. Records - 1) : r = <<r[1], r[2]>>
      OBVIOUS
    <3> QED BY <2>1, <2>2, <3>1, <3>2, <3>3
  <2>4. appended' \in [Writers -> 0 .. Records]
    BY <2>1, <2>2
  <2>5. \A u \in Writers : exitcode[u] = 0 /\ variant # Nobody => appended'[u] = Records
    BY <2>1, <2>2 DEF AppendOK
  <2>6. /\ stage' \in [Writers -> {"unstarted", "connecting", "at_barrier", "appending", "holding", "exited"}]
        /\ attempts' \in [Writers -> 0 .. MaxRetries + 1]
    BY <1>t, <2>1
  <2>7. \A u \in Writers :
          /\ stage'[u] = "holding" => appended'[u] < Records
          /\ stage'[u] # "exited" => attempts'[u] <= MaxRetries
          /\ stage'[u] = "exited" => exitcode[u] \in {0, 1}
    <3> TAKE u \in Writers
    <3>1. CASE u = w
      BY <2>1, <2>2, <3>1 DEF AppendOK
    <3>2. CASE u # w
      BY <2>1, <2>2, <3>2 DEF AppendOK
    <3> QED BY <3>1, <3>2
  <2>8. variant # Nobody
    BY <2>1 DEF AppendOK
  <2> QED BY <2>1, <2>2, <2>3, <2>4, <2>5, <2>6, <2>7, <2>8 DEF AppendOK
<1>7. ASSUME NEW w \in Writers, WritesItsResult(w) PROVE AppendOK'
  BY <1>7 DEF AppendOK, WritesItsResult
<1>8. ASSUME NEW w \in Writers, WriterFails(w) PROVE AppendOK'
  BY <1>4, <1>8 DEF AppendOK, WriterFails
<1>9. ASSUME BarrierOpens PROVE AppendOK'
  BY <1>9, <1>b DEF AppendOK, BarrierOpens
<1> QED
  BY <1>1, <1>2, <1>3, <1>5, <1>6, <1>7, <1>8, <1>9 DEF AppendStep, WriterStep

-----------------------------------------------------------------------------

(* The baseline is numbered from 0, and held apart from the rows that are  *)
(* never committed.                                                        *)
LEMMA BaselineIs ==
  /\ BaselineRecords \in Nat \ {0} /\ IsFiniteSet(BaselineSeqs)
  /\ Cardinality(BaselineSeqs) = BaselineRecords /\ BaselineSeqs \subseteq Nat /\ 0 \in BaselineSeqs
  /\ BaselineSeqs \cap HeldSeqs = {}
<1>1. BaselineRecords \in Nat \ {0} /\ BaselineSeqs = 0 .. BaselineRecords - 1
  BY CrashAssumption DEF BaselineSeqs
<1>2. IsFiniteSet(BaselineSeqs) /\ Cardinality(BaselineSeqs) = BaselineRecords
  BY <1>1, FS_Interval
<1>3. BaselineSeqs \subseteq Nat /\ 0 \in BaselineSeqs
  BY <1>1
<1>4. BaselineSeqs \cap HeldSeqs = {}
  BY <1>1, CrashAssumption DEF HeldSeqs
<1> QED BY <1>1, <1>2, <1>3, <1>4

(* Which row of a sequence number the reopening process finds: this        *)
(* invocation's, unless it reads SQLite and an earlier invocation left     *)
(* one.                                                                    *)
LEMMA RowFoundIs ==
  ASSUME CrashOK, RunOK, NEW e \in ENGINES, Committed(e), NEW seq \in BaselineSeqs
  PROVE  /\ RowsOf(e, seq) # {}
         /\ RowFound(e, seq)[2] = invocation <=>
              (e = "lmdb" \/ ~ \E row \in store[e] : row[2] < invocation)
<1>1. /\ store[e] \subseteq BaselineSeqs \X (1 .. invocation)
      /\ \A row \in store[e] : BaselineSeqs \X {row[2]} \subseteq store[e]
      /\ invocation \in Nat
  BY DEF CrashOK, RunOK
<1> DEFINE here == <<seq, invocation>>
<1>2. here \in RowsOf(e, seq) /\ here[2] = invocation
  BY DEF Committed, RowsOf
<1>3. \A row \in RowsOf(e, seq) : row \in store[e] /\ row[2] \in 1 .. invocation
  BY <1>1 DEF RowsOf
<1> DEFINE Best(row) == \A other \in RowsOf(e, seq) :
                           IF e = "sqlite" THEN row[2] <= other[2] ELSE row[2] >= other[2]
<1>4. \E row \in RowsOf(e, seq) : Best(row)
  <2>1. CASE e = "sqlite"
    <3> DEFINE T == {row[2] : row \in RowsOf(e, seq)}
    <3>1. T \in SUBSET Nat /\ T # {}
      BY <1>1, <1>2, <1>3
    <3>2. PICK m \in T : \A n \in T : m <= n
      <4> HIDE DEF T
      <4> QED BY <3>1, LeastNatural
    <3> QED BY <2>1, <3>2
  <2>2. CASE e # "sqlite"
    BY <1>1, <1>2, <1>3, <2>2
  <2> QED BY <2>1, <2>2
<1>5. RowFound(e, seq) = CHOOSE row \in RowsOf(e, seq) : Best(row)
  BY DEF RowFound
<1>6. RowFound(e, seq) \in RowsOf(e, seq) /\ Best(RowFound(e, seq))
  <2> HIDE DEF Best
  <2> QED BY <1>4, <1>5
<1>7. CASE e = "lmdb"
  <2>1. RowFound(e, seq)[2] >= invocation
    BY <1>2, <1>6, <1>7
  <2> QED BY <1>1, <1>2, <1>3, <1>6, <1>7, <2>1
<1>8. CASE e = "sqlite"
  <2>1. \A other \in RowsOf(e, seq) : RowFound(e, seq)[2] <= other[2]
    BY <1>6, <1>8
  <2>2. ASSUME NEW row \in store[e], row[2] < invocation PROVE RowFound(e, seq)[2] # invocation
    <3>1. <<seq, row[2]>> \in RowsOf(e, seq) /\ <<seq, row[2]>>[2] = row[2]
      BY <1>1, <2>2 DEF RowsOf
    <3>2. RowFound(e, seq)[2] <= row[2] /\ row[2] \in Nat
      BY <1>1, <1>3, <2>1, <3>1
    <3> QED BY <1>1, <1>3, <1>6, <2>2, <3>2
  <2>3. ASSUME ~ \E row \in store[e] : row[2] < invocation PROVE RowFound(e, seq)[2] = invocation
    BY <1>1, <1>3, <1>6, <2>3
  <2> QED BY <1>2, <1>8, <2>2, <2>3
<1> QED BY <1>7, <1>8 DEF ENGINES

(* A store this invocation committed its baseline to is read as it is.     *)
LEMMA ReopenedIsTrue ==
  ASSUME CrashOK, RunOK, NEW e \in ENGINES, Committed(e)
  PROVE  /\ Reopened(e, invocation).of = invocation
         /\ Reopened(e, invocation).opened
         /\ Reopened(e, invocation).opened \in BOOLEAN
         /\ Reopened(e, invocation) # NoFile
         /\ ResultIsTrue(e, Reopened(e, invocation))
<1> DEFINE found == {seq \in BaselineSeqs : RowsOf(e, seq) # {}}
           earlier == \E row \in store[e] : row[2] < invocation
           held == {seq \in HeldSeqs : RowsOf(e, seq) # {}}
           total == IF e = "sqlite" THEN Cardinality(store[e])
                    ELSE Cardinality({row[1] : row \in store[e]})
           torn == {seq \in found : RowFound(e, seq)[2] # invocation}
           r == Reopened(e, invocation)
<1>1. r = [of |-> invocation, opened |-> TRUE, total |-> total, present |-> Cardinality(found),
           torn |-> torn, uncommitted |-> Cardinality(held)]
  BY DEF Reopened
<1>2. /\ store[e] \subseteq BaselineSeqs \X (1 .. invocation)
      /\ invocation \in Nat \ {0}
      /\ BaselineSeqs \X {invocation} \subseteq store[e]
  BY DEF CrashOK, RunOK, Committed
<1>3. found = BaselineSeqs
  BY RowFoundIs
<1>4. held = {}
  BY <1>2, BaselineIs DEF RowsOf
<1>5. torn = IF e = "sqlite" /\ earlier THEN BaselineSeqs ELSE {}
  <2>1. \A seq \in BaselineSeqs : RowFound(e, seq)[2] = invocation <=> (e = "lmdb" \/ ~earlier)
    BY RowFoundIs
  <2>2. CASE e = "sqlite" /\ earlier
    <3>1. \A seq \in BaselineSeqs : RowFound(e, seq)[2] # invocation
      BY <2>1, <2>2
    <3> QED BY <1>3, <2>2, <3>1
  <2>3. CASE ~(e = "sqlite" /\ earlier)
    <3>1. \A seq \in BaselineSeqs : RowFound(e, seq)[2] = invocation
      BY <2>1, <2>3 DEF ENGINES
    <3>2. torn = {}
      BY <1>3, <3>1
    <3> QED BY <2>3, <3>2
  <2> QED BY <2>2, <2>3
<1>6. Cardinality(found) = BaselineRecords /\ Cardinality(held) = 0
  BY <1>3, <1>4, BaselineIs, FS_EmptySet
<1>7. {row[1] : row \in store[e]} = BaselineSeqs
  <2>1. \A seq \in BaselineSeqs : <<seq, invocation>> \in store[e] /\ <<seq, invocation>>[1] = seq
    BY <1>2
  <2>2. \A row \in store[e] : row[1] \in BaselineSeqs
    BY <1>2
  <2> QED BY <2>1, <2>2
<1>8. IsFiniteSet(store[e])
  <2>1. IsFiniteSet(1 .. invocation)
    BY <1>2, FS_Interval
  <2>2. IsFiniteSet(BaselineSeqs \X (1 .. invocation))
    BY <2>1, BaselineIs, FS_Product
  <2> QED BY <1>2, <2>2, FS_Subset
<1>9. total \in Nat
  <2>1. Cardinality(store[e]) \in Nat
    BY <1>8, FS_CardinalityType
  <2> QED BY <1>7, <2>1, BaselineIs
<1>10. e = "lmdb" \/ ~earlier => total = BaselineRecords
  <2>1. CASE e = "lmdb"
    BY <1>7, <2>1, BaselineIs
  <2>2. CASE e = "sqlite" /\ ~earlier
    <3>1. \A row \in store[e] : row[2] = invocation /\ row = <<row[1], row[2]>> /\ row[1] \in BaselineSeqs
      BY <1>2, <2>2
    <3>2. store[e] = BaselineSeqs \X {invocation}
      BY <1>2, <3>1
    <3>3. IsFiniteSet({invocation}) /\ Cardinality({invocation}) = 1
      BY FS_Singleton
    <3>4. Cardinality(BaselineSeqs \X {invocation}) = BaselineRecords * 1
      BY <3>3, BaselineIs, FS_Product
    <3> QED BY <2>2, <3>2, <3>4, BaselineIs
  <2> QED BY <2>1, <2>2 DEF ENGINES
<1>11. torn \in SUBSET BaselineSeqs
  BY <1>5
<1> HIDE DEF found, held, total, torn, r, earlier
<1>12. r \in [of : Nat, opened : {TRUE}, total : Nat, present : Nat,
              torn : SUBSET (0 .. BaselineRecords - 1), uncommitted : Nat]
  BY <1>1, <1>2, <1>6, <1>9, <1>11, BaselineIs DEF BaselineSeqs
<1>13. r # NoFile
  BY <1>12, CrashAssumption
<1>14. /\ r.of = invocation /\ r.opened = TRUE /\ r.total = total /\ r.present = BaselineRecords
       /\ r.torn = torn /\ r.uncommitted = 0
  BY <1>1, <1>6
<1>15. r.opened /\ r.opened \in BOOLEAN
  BY <1>14, Zenon
<1>16. ResultIsTrue(e, r)
  BY <1>5, <1>10, <1>14 DEF ResultIsTrue, earlier
<1> QED BY <1>13, <1>14, <1>15, <1>16 DEF r

(* Every step of the killed and of the reopening process.                  *)
LEMMA CrashGoesOn ==
  ASSUME CrashOK, RunOK, crashing # "none", CrashStep, faults' >= faults, faults' \in Nat,
         UNCHANGED <<invocation, args, section>>
  PROVE  CrashOK'
<1> DEFINE Stages == {"none", "starting", "committed", "noted", "holding", "gone"}
           Reopenings == {"none", "not_tried", "running", "joined", "died"}
<1>c. crashing \in ENGINES /\ crashing # "none" /\ section = CrashSection(crashing)
  BY DEF CrashOK
<1>e. ENGINES = {"sqlite", "lmdb"} /\ CrashSection("sqlite") = 7 /\ CrashSection("lmdb") = 8
  BY DEF ENGINES, CrashSection
<1>f. faults > 0 => faults' > 0
  BY DEF RunOK
<1>i. invocation \in Nat \ {0}
  BY DEF RunOK
<1>o. ASSUME NEW e \in ENGINES, store'[e] = store[e], reopenFile'[e] = reopenFile[e],
             NotReopened(e)' => NotReopened(e), reopenFile[e] # NoFile
      PROVE  FileOK(e, reopenFile[e])'
  <2>1. FileOK(e, reopenFile[e])
    BY <1>o DEF CrashOK
  <2> QED BY <1>f, <1>o, <2>1 DEF FileOK, ResultIsTrue, DirectoryIsKept
<1>r. ASSUME reopener' = "joined" => reopener = "joined", NEW e \in ENGINES
      PROVE  NotReopened(e)' => NotReopened(e) \/ reopener = "joined"
  BY <1>r DEF NotReopened, CrashSection
<1>1. CASE CommitsBaseline
  <2>1. /\ crasher = "starting" /\ crasher' = "committed"
        /\ store' = [store EXCEPT ![crashing] = store[crashing] \union (BaselineSeqs \X {invocation})]
        /\ UNCHANGED <<crashing, crashExit, event, baselineFile, reopener, reopenFile>>
    BY <1>1 DEF CommitsBaseline
  <2>2. reopener = "none"
    BY <2>1 DEF CrashOK
  <2>3. store' \in [ENGINES -> SUBSET (BaselineSeqs \X (1 .. invocation))]
    <3>1. BaselineSeqs \X {invocation} \subseteq BaselineSeqs \X (1 .. invocation)
      BY <1>i
    <3> QED BY <1>c, <2>1, <3>1 DEF CrashOK
  <2>4. /\ \A e \in ENGINES \ {crashing} : store'[e] = store[e]
        /\ store'[crashing] = store[crashing] \union (BaselineSeqs \X {invocation})
    BY <1>c, <2>1 DEF CrashOK
  <2>5. ASSUME NEW e \in ENGINES, NEW row \in store'[e]
        PROVE  BaselineSeqs \X {row[2]} \subseteq store'[e]
    <3>1. row \in store[e] => BaselineSeqs \X {row[2]} \subseteq store[e]
      BY DEF CrashOK
    <3>2. row \notin store[e] => e = crashing /\ row[2] = invocation
      BY <2>4, <2>5
    <3> QED BY <2>4, <2>5, <3>1, <3>2
  <2>6. ASSUME NEW e \in ENGINES, reopenFile[e] # NoFile PROVE FileOK(e, reopenFile[e])'
    <3>1. CASE e # crashing
      <4>1. NotReopened(e)' <=> NotReopened(e)
        BY <2>1 DEF NotReopened
      <4> QED BY <1>o, <2>1, <2>4, <2>6, <3>1, <4>1
    <3>2. CASE e = crashing
      <4>1. NotReopened(e) /\ NotReopened(e)'
        BY <1>c, <1>e, <2>1, <2>2, <3>2 DEF NotReopened
      <4>2. FileOK(e, reopenFile[e])
        BY <2>6 DEF CrashOK
      <4>3. reopenFile[e].of # invocation
        BY <4>1, <4>2 DEF FileOK
      <4> QED BY <1>f, <2>1, <4>2, <4>3 DEF FileOK, DirectoryIsKept
    <3> QED BY <3>1, <3>2
  <2>7. Committed(crashing)'
    BY <2>1, <2>4 DEF Committed
  <2> QED BY <2>1, <2>2, <2>3, <2>5, <2>6, <2>7, <1>c, <1>f DEF CrashOK
<1>2. ASSUME UNCHANGED <<crashing, store, reopenFile>>, reopener' = "joined" => reopener = "joined",
             reopener = "joined" => reopener' = "joined",
             crasher' \in Stages, event' \in BOOLEAN, crashExit' \in {0, 1, -9},
             baselineFile' \in [ENGINES -> 0 .. invocation],
             reopener' \in Reopenings,
             reopener' # "none" => crasher' = "gone",
             crasher' \in {"starting", "committed", "noted"} => ~event' /\ crashExit' = 0,
             crasher' = "holding" => event',
             event' => crashExit' \in {0, -9},
             reopener' \in {"running", "joined", "died"} => event',
             event' \/ crasher' \in {"committed", "noted"} => Committed(crashing),
             event' \/ crasher' = "noted" => baselineFile'[crashing] = invocation,
             reopener' = "died" => faults' > 0
      PROVE  CrashOK'
  <2>1. ASSUME NEW e \in ENGINES, reopenFile[e] # NoFile PROVE FileOK(e, reopenFile[e])'
    <3>1. NotReopened(e)' => NotReopened(e)
      BY <1>2 DEF NotReopened
    <3> QED BY <1>2, <1>o, <2>1, <3>1
  <2>2. \A e \in ENGINES : /\ \A row \in store'[e] : BaselineSeqs \X {row[2]} \subseteq store'[e]
                           /\ reopenFile'[e] # NoFile => FileOK(e, reopenFile[e])'
    BY <1>2, <2>1 DEF CrashOK
  <2>3. Committed(crashing)' <=> Committed(crashing)
    BY <1>2 DEF Committed
  <2> QED BY <1>2, <1>c, <2>2, <2>3 DEF CrashOK
<1>3. CASE NotesBaseline
  <2>1. /\ crasher = "committed" /\ crasher' = "noted"
        /\ baselineFile' = [baselineFile EXCEPT ![crashing] = invocation]
        /\ UNCHANGED <<crashing, crashExit, event, store, reopener, reopenFile>>
    BY <1>3 DEF NotesBaseline
  <2>2. baselineFile' \in [ENGINES -> 0 .. invocation] /\ baselineFile'[crashing] = invocation
    BY <1>c, <1>i, <2>1 DEF CrashOK
  <2> QED BY <1>2, <2>1, <2>2 DEF CrashOK
<1>4. CASE Signals
  <2>1. /\ crasher = "noted" /\ crasher' = "holding" /\ event' = TRUE
        /\ UNCHANGED <<crashing, crashExit, store, baselineFile, reopener, reopenFile>>
    BY <1>4 DEF Signals
  <2>2. event' /\ event' \in BOOLEAN
    BY <2>1, Zenon
  <2>3. /\ crasher' = "holding" /\ crasher = "noted"
        /\ UNCHANGED <<crashing, crashExit, store, baselineFile, reopener, reopenFile>>
    BY <2>1
  <2> HIDE <1>4
  <2> QED BY <1>2, <2>2, <2>3 DEF CrashOK
<1>5. CASE HoldElapses
  BY <1>2, <1>5 DEF CrashOK, HoldElapses
<1>6. CASE CrasherFails
  BY <1>2, <1>6 DEF CrashOK, CrasherFails
<1>7. CASE GivesUpWaiting
  BY <1>2, <1>7 DEF CrashOK, GivesUpWaiting
<1>8. CASE KillsAndReopens
  BY <1>2, <1>8 DEF CrashOK, KillsAndReopens
<1>9. ASSUME NEW file, reopenFile' = [reopenFile EXCEPT ![crashing] = file],
             file # NoFile, file.of = invocation, file.opened \in BOOLEAN,
             ~file.opened => faults' > 0,
             file.opened => ResultIsTrue(crashing, file),
             reopener = "running", reopener' = "joined",
             UNCHANGED <<crashing, crasher, crashExit, event, store, baselineFile>>
      PROVE  CrashOK'
  <2>1. DOMAIN reopenFile' = ENGINES /\ reopenFile'[crashing] = file
        /\ \A e \in ENGINES \ {crashing} : reopenFile'[e] = reopenFile[e]
    BY <1>9, <1>c DEF CrashOK
  <2>2. ASSUME NEW e \in ENGINES, reopenFile'[e] # NoFile PROVE FileOK(e, reopenFile[e])'
    <3>1. CASE e # crashing
      <4>1. NotReopened(e)' => NotReopened(e)
        BY <1>9 DEF NotReopened
      <4>2. reopenFile[e] # NoFile /\ reopenFile'[e] = reopenFile[e] /\ store'[e] = store[e]
        BY <1>9, <2>1, <2>2, <3>1
      <4>3. FileOK(e, reopenFile[e])
        BY <4>2 DEF CrashOK
      <4> QED BY <1>f, <4>1, <4>2, <4>3 DEF FileOK, ResultIsTrue, DirectoryIsKept
    <3>2. CASE e = crashing
      <4>1. ~NotReopened(crashing)'
        BY <1>9, <1>c DEF NotReopened, CrashSection
      <4>2. ResultIsTrue(crashing, file) => ResultIsTrue(crashing, file)'
        BY <1>9 DEF ResultIsTrue
      <4>3. FileOK(crashing, file)'
        BY <1>9, <1>i, <4>1, <4>2 DEF FileOK
      <4> QED BY <1>9, <2>1, <3>2, <4>3 DEF FileOK, ResultIsTrue
    <3> QED BY <3>1, <3>2
  <2>3. Committed(crashing)' <=> Committed(crashing)
    BY <1>9 DEF Committed
  <2> QED BY <1>9, <1>c, <2>1, <2>2, <2>3 DEF CrashOK
<1>10. CASE Reopens
  <2>1. /\ reopener = "running" /\ reopener' = "joined"
        /\ reopenFile' = [reopenFile EXCEPT ![crashing] = Reopened(crashing, baselineFile[crashing])]
        /\ UNCHANGED <<crashing, crasher, crashExit, event, store, baselineFile>>
    BY <1>10 DEF Reopens
  <2>2. Committed(crashing) /\ baselineFile[crashing] = invocation
    BY <2>1 DEF CrashOK
  <2> DEFINE file == Reopened(crashing, invocation)
  <2>3. reopenFile' = [reopenFile EXCEPT ![crashing] = file]
    BY <2>1, <2>2
  <2>4. file.of = invocation /\ file.opened /\ file.opened \in BOOLEAN /\ file # NoFile
        /\ ResultIsTrue(crashing, file)
    BY <1>c, <2>2, ReopenedIsTrue
  <2> HIDE DEF file
  <2> QED BY <1>9, <2>1, <2>3, <2>4
<1>11. CASE ReopenerFails
  <2>1. reopener = "running" /\ UNCHANGED <<crashing, crasher, crashExit, event, store, baselineFile>>
        /\ faults' > 0
    BY <1>11, RunAssumption DEF ReopenerFails, Fails, RunOK
  <2>2. CASE reopenFile' = [reopenFile EXCEPT ![crashing] = NotOpened] /\ reopener' = "joined"
    <3> DEFINE file == NotOpened
    <3>1. file \in [of : Nat, opened : {FALSE}] /\ file.of = invocation /\ file.opened = FALSE
      BY <1>i DEF NotOpened
    <3>2. file # NoFile
      BY <3>1, CrashAssumption
    <3>3. ~file.opened /\ file.opened \in BOOLEAN
      BY <3>1, Zenon
    <3> HIDE DEF file
    <3>4. reopenFile' = [reopenFile EXCEPT ![crashing] = file]
      BY <2>2 DEF file
    <3> QED BY <1>9, <2>1, <2>2, <3>1, <3>2, <3>3, <3>4
  <2>3. CASE reopener' = "died" /\ UNCHANGED reopenFile
    BY <1>2, <2>1, <2>3 DEF CrashOK
  <2> QED BY <1>11, <2>2, <2>3 DEF ReopenerFails
<1> QED
  BY <1>1, <1>3, <1>4, <1>5, <1>6, <1>7, <1>8, <1>10, <1>11 DEF CrashStep, CrasherStep

(* Which sections are of which kind, and on which engine.                  *)
LEMMA AtIs ==
  ASSUME section \in 1 .. 12
  PROVE  /\ AtSection("append") <=> section \in 1 .. 4
         /\ AtSection("cold") <=> section \in {5, 6}
         /\ AtSection("crash") <=> section \in {7, 8}
         /\ AtSection("query") <=> section \in {9, 10}
         /\ AtSection("sizes") <=> section = 11
         /\ section \in 1 .. 4 => Subject \in SQLITE_VARIANTS \union LMDB_VARIANTS
         /\ section \in {5, 7, 9} => Subject = "sqlite"
         /\ section \in {6, 8, 10} => Subject = "lmdb"
         /\ section <= 11 => (CanMeasure <=> (section \in {3, 4, 6, 8, 10} => args.lmdb))
         /\ Printed <=> section = 12
         /\ Len(SECTIONS) = 11
<1> USE SectionsAre
<1> HIDE DEF SECTIONS
<1>1. CASE section = 12
  BY <1>1 DEF AtSection, Printed
<1>2. CASE section \in 1 .. 11
  BY <1>2 DEF AtSection, Printed, Subject, CanMeasure, NeedsLmdb, SQLITE_VARIANTS, LMDB_VARIANTS
<1> QED BY <1>1, <1>2

(* A failure is counted.                                                   *)
LEMMA FaultsCount ==
  ASSUME RunOK, Fails
  PROVE  faults' \in 0 .. MaxFaults /\ faults' > 0 /\ faults' >= faults
BY RunAssumption DEF RunOK, Fails

(* The crash section of an engine begins with its processes not started.   *)
LEMMA CrashStartsOver ==
  ASSUME CrashOK, RunOK, NEW e \in ENGINES, section = CrashSection(e), e = "lmdb" => args.lmdb,
         CrashStarts(e), UNCHANGED <<invocation, args, section>>
  PROVE  CrashOK'
<1>1. /\ crashing = "none" /\ crashing' = e
      /\ crasher' = "starting" /\ crashExit' = 0 /\ event' = FALSE /\ reopener' = "none"
      /\ UNCHANGED <<store, baselineFile, reopenFile, faults>>
  BY DEF CrashStarts
<1>2. ~event' /\ event' \in BOOLEAN
  BY <1>1, Zenon
<1>3. /\ crashing' = e /\ crasher' = "starting" /\ crashExit' = 0 /\ reopener' = "none"
      /\ reopener = "none" /\ e # "none"
      /\ UNCHANGED <<store, baselineFile, reopenFile, faults>>
  BY <1>1 DEF ENGINES, CrashOK
<1>4. ASSUME NEW x \in ENGINES, reopenFile[x] # NoFile PROVE FileOK(x, reopenFile[x])'
  <2>1. FileOK(x, reopenFile[x])
    BY <1>4 DEF CrashOK
  <2> QED BY <1>3, <2>1 DEF FileOK, ResultIsTrue, DirectoryIsKept, NotReopened
<1> HIDE DEF ENGINES
<1> QED BY <1>2, <1>3, <1>4 DEF CrashOK

(* The crash section of an engine ends with its result file of this        *)
(* invocation, or without one.                                             *)
LEMMA CrashIsOver ==
  ASSUME CrashOK, RunOK, crashing # "none", crashing' = "none", reopener' = "none", event' = FALSE,
         reopener # "none", section' = section + 1,
         UNCHANGED <<invocation, args, crasher, crashExit, store, baselineFile, reopenFile, faults>>
  PROVE  CrashOK'
<1>1. ~event' /\ event' \in BOOLEAN
  BY Zenon
<1>2. crasher = "gone" /\ section = CrashSection(crashing) /\ crashing \in ENGINES
  BY DEF CrashOK
<1>3. ASSUME NEW x \in ENGINES, reopenFile[x] # NoFile PROVE FileOK(x, reopenFile[x])'
  <2>1. FileOK(x, reopenFile[x])
    BY <1>3 DEF CrashOK
  <2>2. NotReopened(x)' => NotReopened(x)
    BY <1>2 DEF NotReopened, CrashSection, ENGINES
  <2> QED BY <2>1, <2>2 DEF FileOK, ResultIsTrue, DirectoryIsKept
<1> QED BY <1>1, <1>2, <1>3 DEF CrashOK

(* The other sections leave the stores and the files as they are.          *)
LEMMA CrashLeftAlone ==
  ASSUME CrashOK, RunOK, section \in Nat, section' \in Nat, section' >= section,
         section' # section => crashing = "none",
         faults' >= faults, faults' \in Nat, UNCHANGED <<crashVars, invocation, args>>
  PROVE  CrashOK'
<1>1. UNCHANGED <<crashing, crasher, crashExit, event, store, baselineFile, reopener, reopenFile,
                  invocation, args>>
  BY DEF crashVars
<1>2. faults > 0 => faults' > 0
  BY DEF RunOK
<1>3. ASSUME NEW x \in ENGINES, reopenFile[x] # NoFile PROVE FileOK(x, reopenFile[x])'
  <2>1. FileOK(x, reopenFile[x])
    BY <1>3 DEF CrashOK
  <2>2. NotReopened(x)' => NotReopened(x)
    <3>1. section' # section => reopener # "joined"
      BY DEF CrashOK
    <3> QED BY <1>1, <3>1 DEF NotReopened, CrashSection, ENGINES
  <2> QED BY <1>1, <1>2, <2>1, <2>2 DEF FileOK, ResultIsTrue, DirectoryIsKept
<1> QED BY <1>1, <1>2, <1>3 DEF CrashOK, Committed

(* A second invocation finds what the first left, or an empty directory.   *)
LEMMA CrashRunsAgain ==
  ASSUME CrashOK, RunOK, section \in 1 .. 12, RunsAgain
  PROVE  CrashOK'
<1>1. /\ section = 12 /\ invocation' = invocation + 1 /\ section' = 1
      /\ UNCHANGED <<args, faults, crashing, crasher, crashExit, event, reopener>>
  BY AtIs DEF RunsAgain
<1>2. crashing = "none" /\ reopener = "none" /\ ~event /\ crasher \in {"none", "gone"}
  BY <1>1 DEF CrashOK, CrashSection
<1>3. invocation \in Nat \ {0}
  BY DEF RunOK
<1>4. CASE DirectoryIsKept
  <2>1. UNCHANGED <<store, baselineFile, reopenFile>>
    BY <1>4 DEF RunsAgain
  <2>2. ASSUME NEW x \in ENGINES, reopenFile[x] # NoFile PROVE FileOK(x, reopenFile[x])'
    <3>1. FileOK(x, reopenFile[x])
      BY <2>2 DEF CrashOK
    <3> QED BY <1>1, <1>3, <1>4, <2>1, <3>1 DEF FileOK, DirectoryIsKept
  <2>3. /\ store \in [ENGINES -> SUBSET (BaselineSeqs \X (1 .. invocation + 1))]
        /\ baselineFile \in [ENGINES -> 0 .. invocation + 1]
    <3>1. 1 .. invocation \subseteq 1 .. invocation + 1 /\ 0 .. invocation \subseteq 0 .. invocation + 1
      BY <1>3
    <3>2. /\ store \in [ENGINES -> SUBSET (BaselineSeqs \X (1 .. invocation))]
          /\ baselineFile \in [ENGINES -> 0 .. invocation]
      BY DEF CrashOK
    <3> QED BY <3>1, <3>2
  <2> QED BY <1>1, <1>2, <1>3, <2>1, <2>2, <2>3 DEF CrashOK
<1>5. CASE ~DirectoryIsKept
  <2>1. /\ store' = [e \in ENGINES |-> {}] /\ baselineFile' = [e \in ENGINES |-> 0]
        /\ reopenFile' = [e \in ENGINES |-> NoFile]
    BY <1>5 DEF RunsAgain
  <2>2. \A e \in ENGINES : store'[e] = {} /\ reopenFile'[e] = NoFile
    BY <2>1
  <2>3. /\ store' \in [ENGINES -> SUBSET (BaselineSeqs \X (1 .. invocation'))]
        /\ baselineFile' \in [ENGINES -> 0 .. invocation'] /\ DOMAIN reopenFile' = ENGINES
    BY <1>1, <1>3, <2>1
  <2> QED BY <1>1, <1>2, <2>2, <2>3 DEF CrashOK
<1> QED BY <1>4, <1>5

-----------------------------------------------------------------------------

(* A function that sums the results of a set of writers as MapThenSumSet   *)
(* does, one chosen member after the other.                                *)
Tallies(f) ==
    f = [s \in SUBSET Writers |->
            IF s = {} THEN 0
            ELSE results[CHOOSE w \in s : TRUE] + f[s \ {CHOOSE w \in s : TRUE}]]

(* MapThenSumSet is one such function, chosen.                             *)
LEMMA TallyIsChosen ==
  MapThenSumSet(LAMBDA w : results[w], Writers) = (CHOOSE f : Tallies(f))[Writers]
BY DEF MapThenSumSet, MapThenFoldSet, Tallies

(* A writer more is its records more.                                      *)
LEMMA OneMore ==
  ASSUME NEW s \in SUBSET Writers, NEW w \in s
  PROVE  Cardinality(s) * Records = Records + Cardinality(s \ {w}) * Records
<1>1. IsFiniteSet(s)
  BY WritersAre, FS_Subset
<1>2. Cardinality(s) \in Nat /\ Cardinality(s \ {w}) = Cardinality(s) - 1 /\ Cardinality(s \ {w}) \in Nat
  <2>1. IsFiniteSet(s \ {w}) /\ Cardinality(s \ {w}) = Cardinality(s) - 1
    BY <1>1, FS_RemoveElement
  <2> QED BY <1>1, <2>1, FS_CardinalityType
<1> DEFINE n == Cardinality(s)
           m == Cardinality(s \ {w})
<1>3. n \in Nat /\ m \in Nat /\ n = m + 1 /\ Records \in Nat
  BY <1>2, AppendAssumption
<1> HIDE DEF n, m
<1>4. (m + 1) * Records = Records + m * Records
  BY <1>3
<1> QED BY <1>3, <1>4 DEF n, m

(* No writer, no record.                                                   *)
LEMMA NoneIsNothing == Cardinality({}) * Records = 0
BY FS_EmptySet, AppendAssumption

(* There is one, so the one chosen is one.                                 *)
LEMMA SomethingTallies ==
  ASSUME \A w \in Writers : results[w] = Records
  PROVE  \E f : Tallies(f)
<1> DEFINE f == [s \in SUBSET Writers |-> Cardinality(s) * Records]
<1>1. ASSUME NEW s \in SUBSET Writers
      PROVE  f[s] = IF s = {} THEN 0
                    ELSE results[CHOOSE w \in s : TRUE] + f[s \ {CHOOSE w \in s : TRUE}]
  <2>1. CASE s = {}
    BY <2>1, NoneIsNothing
  <2>2. CASE s # {}
    <3> DEFINE w == CHOOSE u \in s : TRUE
    <3>1. w \in s
      BY <2>2
    <3> HIDE DEF w
    <3>2. f[s] = results[w] + f[s \ {w}]
      BY <3>1, OneMore
    <3> QED BY <2>2, <3>2 DEF w
  <2> QED BY <2>1, <2>2
<1>2. f = [s \in SUBSET Writers |->
            IF s = {} THEN 0
            ELSE results[CHOOSE w \in s : TRUE] + f[s \ {CHOOSE w \in s : TRUE}]]
  BY <1>1
<1>3. Tallies(f)
  BY <1>2 DEF Tallies
<1> QED BY <1>3

(* By induction over the finite sets of writers, it gives every set its    *)
(* writers' records.                                                       *)
LEMMA AllTally ==
  ASSUME NEW f, Tallies(f), \A w \in Writers : results[w] = Records
  PROVE  f[Writers] = Cardinality(Writers) * Records
<1> DEFINE T == {A \in SUBSET Writers : f[A] # Cardinality(A) * Records}
<1>1. SUFFICES ASSUME T # {} PROVE FALSE
  <2>1. Writers \notin T
    BY <1>1
  <2> QED BY <2>1
<1>2. \A A \in T : IsFiniteSet(A)
  BY WritersAre, FS_Subset
<1> HIDE DEF T
<1>3. PICK A \in T : \A B \in T : B \subseteq A => B = A
  BY <1>1, <1>2, SmallestFiniteSet
<1>4. A \in SUBSET Writers /\ f[A] # Cardinality(A) * Records
  BY <1>3 DEF T
<1>5. f[A] = IF A = {} THEN 0 ELSE results[CHOOSE w \in A : TRUE] + f[A \ {CHOOSE w \in A : TRUE}]
  BY <1>4 DEF Tallies
<1>6. CASE A = {}
  BY <1>4, <1>5, <1>6, NoneIsNothing
<1>7. CASE A # {}
  <2> DEFINE w == CHOOSE u \in A : TRUE
  <2>1. w \in A /\ f[A] = results[w] + f[A \ {w}]
    BY <1>5, <1>7
  <2> HIDE DEF w
  <2>2. A \ {w} \notin T
    BY <1>3, <2>1
  <2>3. f[A \ {w}] = Cardinality(A \ {w}) * Records
    BY <1>4, <2>2 DEF T
  <2>4. results[w] = Records
    BY <1>4, <2>1
  <2>5. Cardinality(A) * Records = Records + Cardinality(A \ {w}) * Records
    BY <1>4, <2>1, OneMore
  <2> QED BY <1>4, <2>1, <2>3, <2>4, <2>5
<1> QED BY <1>6, <1>7

(* Writers that all wrote their result files: their sum is all the         *)
(* records.                                                                *)
LEMMA ResultsAddUp ==
  ASSUME \A w \in Writers : results[w] = Records
  PROVE  /\ MapThenSumSet(LAMBDA w : results[w], Writers)
              = Cardinality(Writers \X (0 .. Records - 1))
<1>1. Tallies(CHOOSE f : Tallies(f))
  BY SomethingTallies
<1>2. (CHOOSE f : Tallies(f))[Writers] = Cardinality(Writers) * Records
  BY <1>1, AllTally
<1>3. IsFiniteSet(0 .. Records - 1) /\ Cardinality(0 .. Records - 1) = Records
  BY FS_Interval, AppendAssumption
<1>4. Cardinality(Writers \X (0 .. Records - 1)) = Cardinality(Writers) * Records
  BY <1>3, WritersAre, FS_Product
<1> QED BY <1>2, <1>4, TallyIsChosen

(* What every writer joined leaves: a failure, or all of the rows in the   *)
(* store and their number in the report.                                   *)
LEMMA AppendReportTold ==
  ASSUME AppendOK, AllJoined
  PROVE  \/ /\ \E w \in Writers : exitcode[w] = 1
            /\ AppendReport = [failed |-> TRUE, records |-> 0]
         \/ /\ rows = Writers \X (0 .. Records - 1)
            /\ AppendReport = [failed |-> FALSE, records |-> Cardinality(rows)]
<1>1. variant # Nobody /\ \A w \in Writers : exitcode[w] \in {0, 1}
  BY DEF AllJoined, AppendOK
<1>2. CASE \E w \in Writers : exitcode[w] # 0
  BY <1>1, <1>2 DEF AppendReport
<1>3. CASE \A w \in Writers : exitcode[w] = 0
  <2>1. \A w \in Writers : appended[w] = Records /\ results[w] = Records
    BY <1>1, <1>3 DEF AppendOK
  <2>2. rows = Writers \X (0 .. Records - 1)
    <3>1. \A r \in Writers \X (0 .. Records - 1) : r[2] < appended[r[1]]
      BY <2>1, AppendAssumption
    <3> QED BY <3>1 DEF AppendOK
  <2>3. MapThenSumSet(LAMBDA w : results[w], Writers) = Cardinality(rows)
    BY <2>1, <2>2, ResultsAddUp
  <2>4. AppendReport = [failed |-> FALSE, records |-> MapThenSumSet(LAMBDA w : results[w], Writers)]
    BY <1>3 DEF AppendReport
  <2> QED BY <2>2, <2>3, <2>4
<1> QED BY <1>2, <1>3

(* What the crash measurement tells of an engine: its result file if it is *)
(* there, which is of this invocation and true, or of an earlier one       *)
(* because the reopening process failed.                                   *)
LEMMA CrashReportTold ==
  ASSUME CrashOK, RunOK, CrashMeasured, reopener # "not_tried"
  PROVE  LET result == IF reopenFile[crashing] = NoFile THEN NotOpened ELSE reopenFile[crashing]
         IN  /\ CrashReport = [signalled |-> TRUE, exitcode |-> crashExit, result |-> result]
             /\ crashExit \in {-9, 0}
             /\ result.of # invocation => DirectoryIsKept /\ faults > 0 /\ invocation > 1
             /\ result.of = invocation /\ result.opened => ResultIsTrue(crashing, result)
             /\ ~result.opened => faults > 0
<1> DEFINE result == IF reopenFile[crashing] = NoFile THEN NotOpened ELSE reopenFile[crashing]
<1>1. CrashReport = [signalled |-> TRUE, exitcode |-> crashExit, result |-> result]
  BY DEF CrashReport
<1>2. reopener \in {"joined", "died"} /\ crashing \in ENGINES /\ crashExit \in {-9, 0}
  BY DEF CrashMeasured, CrashOK
<1>3. CASE reopenFile[crashing] = NoFile
  <2>1. reopener = "died" /\ faults > 0
    BY <1>2, <1>3 DEF CrashOK
  <2>2. result = NotOpened
    BY <1>3
  <2>3. result.of = invocation /\ result.opened = FALSE
    BY <2>2 DEF NotOpened
  <2>4. ~result.opened
    BY <2>3, Zenon
  <2> HIDE DEF result
  <2>5. /\ result.of # invocation => DirectoryIsKept /\ faults > 0 /\ invocation > 1
        /\ result.of = invocation /\ result.opened => ResultIsTrue(crashing, result)
        /\ ~result.opened => faults > 0
    BY <2>1, <2>3, <2>4
  <2> QED BY <1>1, <1>2, <2>5 DEF result
<1>4. CASE reopenFile[crashing] # NoFile
  <2>1. result = reopenFile[crashing]
    BY <1>4
  <2>2. FileOK(crashing, result)
    BY <1>2, <1>4, <2>1 DEF CrashOK
  <2>3. result.of # invocation => reopener = "died" /\ faults > 0
    BY <1>2, <2>1 DEF CrashOK
  <2> HIDE DEF result
  <2>4. result.of \in 1 .. invocation /\ invocation \in Nat
    BY <2>2 DEF FileOK, RunOK
  <2>5. /\ result.of # invocation => DirectoryIsKept /\ faults > 0 /\ invocation > 1
        /\ result.of = invocation /\ result.opened => ResultIsTrue(crashing, result)
        /\ ~result.opened => faults > 0
    BY <2>2, <2>3, <2>4 DEF FileOK
  <2> QED BY <1>1, <1>2, <2>5 DEF result
<1> QED BY <1>3, <1>4

-----------------------------------------------------------------------------

(* The interpreter measurement's sections, in their order.                 *)
LEMMA NowIs ==
  ASSUME partSection \in 1 .. 5
  PROVE  /\ Len(PART_SECTIONS) = 4
         /\ Now = "forkserver_viability" <=> partSection = 1
         /\ Now = "glue_workload" <=> partSection = 2
         /\ Now = "idle_part_memory" <=> partSection = 3
         /\ Now = "memory_return" <=> partSection = 4
         /\ IdleSection <=> partSection \in {3, 4}
BY DEF Now, PART_SECTIONS, IdleSection

(* The parts are numbered from 0.                                          *)
LEMMA PartsAre ==
  /\ IsFiniteSet(Parts) /\ 0 \in Parts /\ Cardinality(Parts) \in Nat \ {0}
  /\ Parts = 0 .. Cardinality(Parts) - 1
<1>1. IsFiniteSet(Parts) /\ Parts = 0 .. Cardinality(Parts) - 1 /\ Parts # {}
  BY PartMeasurementAssumption
<1>2. Cardinality(Parts) \in Nat
  BY <1>1, FS_CardinalityType
<1> QED BY <1>1, <1>2

(* The three ways of the glue workload process the same items, in no more  *)
(* threads than there are workers (proved below as GlueIsWhole).           *)
GlueAddsUp ==
    MapThenSumSet(ItemsOf, Chunks) = StreamItems /\ Cardinality(Chunks) <= GlueWorkers

(* Every step of the parts and of the program that starts them.            *)
LEMMA PartGoesOn ==
  ASSUME PartOK, PartMeasurementNext, GlueAddsUp
  PROVE  PartOK'
<1> DEFINE Names == {"none", "starting", "spoken", "exited", "hung"}
           Outcomes == [heard : BOOLEAN, exited : BOOLEAN]
           Left(out) == \A p \in lingering : p[1] \in 0 .. Len(out) - 1 /\ ~out[p[1] + 1].exited
<1>h. /\ partSection \in 1 .. 5
      /\ Now = "forkserver_viability" <=> partSection = 1
      /\ Now = "glue_workload" <=> partSection = 2
      /\ Now = "idle_part_memory" <=> partSection = 3
      /\ Now = "memory_return" <=> partSection = 4
      /\ IdleSection <=> partSection \in {3, 4}
  BY NowIs DEF PartOK
<1>t. part \in [Parts -> Names] /\ outcomes \in Seq(Outcomes) /\ Len(outcomes) \in Nat
  BY DEF PartOK
<1>p. PartsOf(Now) \subseteq Parts
  BY PartsAre DEF PartsOf
<1> HIDE DEF Names, Outcomes
<1>1. ASSUME NEW p \in Parts, NEW where \in {"spoken", "exited", "hung"}, PartIs(p, where),
             UNCHANGED <<partSection, parent, outcomes, lingering, partReport>>
      PROVE  PartOK'
  <2>1. part' \in [Parts -> Names] /\ part'[p] = where /\ \A q \in Parts \ {p} : part'[q] = part[q]
    BY <1>1, <1>t DEF PartIs, Names
  <2>2. \A q \in Parts : part[q] # "none" => part'[q] # "none"
    BY <2>1
  <2>3. partSection = 1 => Len(outcomes) \in Parts
    BY <1>t, PartsAre DEF PartOK
  <2> QED BY <1>1, <1>h, <1>p, <2>1, <2>2, <2>3 DEF PartOK, Names, PartsOf, Now, PartReportIsTrue
<1>2. ASSUME NEW p \in lingering, LateExit(p) PROVE PartOK'
  BY <1>2 DEF PartOK, LateExit, PartReportIsTrue, PartsOf, Now
<1>3. CASE StartsPart
  <2>1. Turn \in Parts /\ partSection = 1
    BY <1>3, <1>h, <1>t, PartsAre DEF PartOK, StartsPart, Turn
  <2>2. part' \in [Parts -> Names] /\ part'[Turn] = "starting"
    BY <1>3, <1>t, <2>1 DEF StartsPart, PartIs, Names
  <2> QED BY <1>3, <2>1, <2>2 DEF PartOK, StartsPart, Names, PartReportIsTrue, Turn
<1>4. CASE GetsReport
  BY <1>4, <1>h DEF PartOK, GetsReport, PartReportIsTrue
<1>5. CASE JoinsPart
  <2> DEFINE last == [heard |-> parent = "joining", exited |-> part[Turn] = "exited"]
             done == Append(outcomes, last)
  <2>1. partSection = 1 /\ Turn \in Parts /\ parent # "starting" /\ part[Turn] # "none" /\ Turn = Len(outcomes)
    BY <1>5, <1>h, <1>t, PartsAre DEF PartOK, JoinsPart, Turn
  <2>2. last \in Outcomes
    BY DEF Outcomes
  <2>3. /\ lingering' = IF Alive(Turn) THEN lingering \union {<<Turn, part[Turn]>>} ELSE lingering
        /\ IF Len(done) = Cardinality(Parts)
           THEN Answered([section |-> Now, children |-> done])
           ELSE /\ outcomes' = done /\ parent' = "starting"
                /\ PartIs(Turn, "none") /\ UNCHANGED <<partSection, partReport>>
    BY <1>5 DEF JoinsPart
  <2>4. Alive(Turn) <=> ~last.exited
    BY <1>t, <2>1 DEF Alive, Names
  <2> HIDE DEF last
  <2>5. /\ done \in Seq(Outcomes) /\ Len(done) = Len(outcomes) + 1
        /\ \A i \in 1 .. Len(outcomes) : done[i] = outcomes[i]
        /\ done[Turn + 1] = last
    BY <1>t, <2>1, <2>2
  <2> HIDE DEF done
  <2>6. \A p \in lingering' : p[1] \in 0 .. Len(done) - 1 /\ ~done[p[1] + 1].exited
    <3> TAKE p \in lingering'
    <3>1. CASE p \in lingering
      <4>1. p[1] \in 0 .. Len(outcomes) - 1 /\ ~outcomes[p[1] + 1].exited
        BY <2>1, <3>1 DEF PartOK
      <4> QED BY <1>t, <2>5, <4>1
    <3>2. CASE p \notin lingering
      <4>1. p = <<Turn, part[Turn]>> /\ Alive(Turn)
        BY <2>3, <3>2
      <4>2. p[1] = Turn
        BY <4>1
      <4> QED BY <1>t, <2>1, <2>4, <2>5, <4>1, <4>2
    <3> QED BY <3>1, <3>2
  <2>7. CASE Len(done) = Cardinality(Parts)
    <3>1. /\ partSection' = 2 /\ partReport' = [section |-> "forkserver_viability", children |-> done]
          /\ parent' = "starting" /\ outcomes' = <<>> /\ part' = [p \in Parts |-> "none"]
      BY <1>h, <2>1, <2>3, <2>7 DEF Answered
    <3>2. \A p \in lingering' : p[1] \in Parts /\ ~done[p[1] + 1].exited
      BY <2>6, <2>7, PartsAre
    <3>3. partReport'.section = "forkserver_viability" /\ partReport'.children = done
      BY <3>1
    <3>4. PartReportIsTrue'
      BY <2>7, <3>2, <3>3 DEF PartReportIsTrue
    <3>5. outcomes' \in Seq(Outcomes) /\ Len(outcomes') = 0
      BY <3>1
    <3>6. part' \in [Parts -> Names]
      BY <3>1 DEF Names
    <3> QED BY <3>1, <3>4, <3>5, <3>6, PartsAre DEF PartOK, Names, Outcomes
  <2>8. CASE Len(done) # Cardinality(Parts)
    <3>1. /\ outcomes' = done /\ parent' = "starting"
          /\ PartIs(Turn, "none") /\ UNCHANGED <<partSection, partReport>>
      BY <2>3, <2>8
    <3>2. part' \in [Parts -> Names]
      BY <1>t, <3>1 DEF PartIs, Names
    <3>3. Len(done) < Cardinality(Parts)
      BY <1>t, <2>5, <2>8, PartsAre DEF PartOK
    <3>4. PartReportIsTrue'
      BY <2>1, <3>1 DEF PartOK, PartReportIsTrue
    <3> QED BY <2>1, <2>5, <2>6, <3>1, <3>2, <3>3, <3>4 DEF PartOK, Names, Outcomes
  <2> QED BY <2>7, <2>8
<1>6. ASSUME NEW what, Answered(what), partSection \in 2 .. 4, PartReportIsTrue',
             what.section # "none", UNCHANGED lingering
      PROVE  PartOK'
  <2>1. /\ partSection' = partSection + 1 /\ parent' = "starting" /\ outcomes' = <<>>
        /\ part' = [p \in Parts |-> "none"]
    BY <1>6 DEF Answered
  <2>2. outcomes' \in Seq(Outcomes) /\ Len(outcomes') = 0 /\ part' \in [Parts -> Names]
    BY <2>1 DEF Names
  <2> QED BY <1>6, <2>1, <2>2, PartsAre DEF PartOK, Names, Outcomes
<1>7. CASE RunsGlue
  <2> DEFINE processed == MapThenSumSet(ItemsOf, Chunks)
             what == [section |-> Now, single |-> StreamItems, threads |-> processed,
                      n_threads |-> Cardinality(Chunks), processes |-> processed]
  <2>1. Answered(what) /\ partSection = 2 /\ UNCHANGED lingering
    BY <1>7, <1>h DEF RunsGlue
  <2>2. processed = StreamItems /\ Cardinality(Chunks) <= GlueWorkers
    BY DEF GlueAddsUp
  <2> HIDE DEF processed
  <2>3. /\ what.section = "glue_workload" /\ what.single = StreamItems /\ what.threads = StreamItems
        /\ what.processes = StreamItems /\ what.n_threads <= GlueWorkers
    BY <1>h, <2>1, <2>2
  <2>4. partReport' = what
    BY <2>1 DEF Answered
  <2> HIDE DEF what
  <2>5. PartReportIsTrue'
    BY <2>3, <2>4 DEF PartReportIsTrue
  <2> QED BY <1>6, <2>1, <2>3, <2>5
<1>8. CASE StartsIdleParts
  <2>1. /\ part' = [p \in Parts |-> IF p \in PartsOf(Now) THEN "starting" ELSE "none"]
        /\ partSection \in {3, 4} /\ parent' = "waiting"
        /\ UNCHANGED <<partSection, outcomes, lingering, partReport>>
    BY <1>8, <1>h DEF StartsIdleParts
  <2>2. part' \in [Parts -> Names]
    BY <2>1 DEF Names
  <2>3. \A p \in PartsOf(Now) : part'[p] # "none"
    BY <1>p, <2>1
  <2> QED BY <2>1, <2>2, <2>3 DEF PartOK, Names, PartsOf, Now, PartReportIsTrue
<1>9. CASE StopsThem
  BY <1>9, <1>h DEF PartOK, StopsThem, PartReportIsTrue, PartsOf, Now
<1>10. CASE Terminates
  <2> DEFINE exits == {p \in PartsOf(Now) : part[p] = "exited"}
             terminated == {p \in PartsOf(Now) : Alive(p)}
             what == [section |-> Now, exits |-> exits, terminated |-> terminated]
  <2>1. Answered(what) /\ partSection \in {3, 4} /\ parent = "stopping" /\ UNCHANGED lingering
    BY <1>10, <1>h DEF Terminates
  <2>2. \A p \in PartsOf(Now) : part[p] # "none" /\ part[p] \in Names
    BY <1>p, <1>t, <2>1 DEF PartOK
  <2>3. exits \union terminated = PartsOf(Now)
    BY <2>2 DEF Alive, Names
  <2> HIDE DEF exits, terminated
  <2>4. what.section = Now /\ what.exits = exits /\ what.terminated = terminated
    OBVIOUS
  <2>5. partReport' = what
    BY <2>1 DEF Answered
  <2> HIDE DEF what
  <2>6. Now \in {"idle_part_memory", "memory_return"}
    BY <1>h, <2>1
  <2>7. PartReportIsTrue'
    BY <2>3, <2>4, <2>5, <2>6 DEF PartReportIsTrue, PartsOf
  <2> QED BY <1>6, <2>1, <2>4, <2>6, <2>7
<1> QED
  <2>1. CASE PartSteps
    BY <1>1, <2>1 DEF PartSteps, Speaks, Exits
  <2>2. CASE \E p \in Parts : Hangs(p)
    BY <1>1, <2>2 DEF Hangs
  <2> QED
    BY <1>2, <1>3, <1>4, <1>5, <1>7, <1>8, <1>9, <1>10, <2>1, <2>2
    DEF PartMeasurementNext, PartParentStep

-----------------------------------------------------------------------------

(* Dividing gives a quotient and a remainder.                              *)
LEMMA Division ==
  ASSUME NEW c \in Nat \ {0}, NEW a \in Nat
  PROVE  a \div c \in Nat /\ a = (a \div c) * c + (a % c) /\ a % c \in 0 .. c - 1
OBVIOUS

(* Of two multiples the larger is at least one multiple further.           *)
LEMMA Multiplied ==
  ASSUME NEW c \in Nat \ {0}, NEW p \in Nat, NEW q \in Nat, p < q
  PROVE  p * c + c <= q * c
OBVIOUS

(* A product of natural numbers is one.                                    *)
LEMMA ProductIsNat ==
  ASSUME NEW c \in Nat, NEW p \in Nat
  PROVE  p * c \in Nat
OBVIOUS

(* The chunk size, the items over the workers rounded up, leaves no item   *)
(* over.                                                                   *)
LEMMA ChunkSizeIs ==
  ChunkSize \in Nat \ {0} /\ StreamItems <= GlueWorkers * ChunkSize
<1> DEFINE a == StreamItems + GlueWorkers - 1
<1>1. StreamItems \in Nat \ {0} /\ GlueWorkers \in Nat \ {0} /\ a \in Nat
  BY PartMeasurementAssumption
<1>2. ChunkSize = a \div GlueWorkers
  BY DEF ChunkSize
<1>3. a \div GlueWorkers \in Nat /\ a = (a \div GlueWorkers) * GlueWorkers + (a % GlueWorkers)
      /\ a % GlueWorkers \in 0 .. GlueWorkers - 1
  BY <1>1, Division
<1>4. ChunkSize \in Nat
  BY <1>2, <1>3
<1>5. a = ChunkSize * GlueWorkers + (a % GlueWorkers)
  BY <1>2, <1>3
<1>6. ChunkSize * GlueWorkers \in Nat /\ ChunkSize * GlueWorkers = GlueWorkers * ChunkSize
  BY <1>1, <1>4
<1>7. ChunkSize # 0
  <2>1. SUFFICES ASSUME ChunkSize = 0 PROVE FALSE
    OBVIOUS
  <2>2. ChunkSize * GlueWorkers = 0
    BY <1>1, <2>1
  <2> QED BY <1>1, <1>3, <1>5, <2>2
<1>8. StreamItems <= ChunkSize * GlueWorkers
  <2> DEFINE m == ChunkSize * GlueWorkers
             r == a % GlueWorkers
  <2>1. a = m + r /\ m \in Nat /\ r \in 0 .. GlueWorkers - 1
    BY <1>3, <1>5, <1>6
  <2> HIDE DEF m, r
  <2>2. StreamItems <= m
    BY <1>1, <2>1
  <2> QED BY <2>2 DEF m
<1> QED BY <1>4, <1>6, <1>7, <1>8

(* Where the chunks start.                                                 *)
Starts == {j \in 0 .. StreamItems - 1 : j % ChunkSize = 0}

(* The items of a chunk: the last chunk's end may lie past the last item.  *)
Piece(x) == {i \in 0 .. StreamItems - 1 : i \in x[1] .. x[2]}

(* The items of a set of chunks.                                           *)
Covered(s) == {i \in 0 .. StreamItems - 1 : \E x \in s : i \in Piece(x)}

(* A chunk is its start and the end a chunk size further.                  *)
LEMMA ChunkIs ==
  ASSUME NEW x \in Chunks
  PROVE  x[1] \in Starts /\ x = <<x[1], x[1] + ChunkSize - 1>> /\ x[2] = x[1] + ChunkSize - 1
<1> PICK i \in Starts : x = <<i, i + ChunkSize - 1>>
  BY DEF Chunks, Starts
<1> QED OBVIOUS

(* No item is in two chunks: an item is at a distance of less than the     *)
(* chunk size from the start of its own.                                   *)
LEMMA ChunksApart ==
  ASSUME NEW x \in Chunks, NEW y \in Chunks, x # y
  PROVE  Piece(x) \cap Piece(y) = {}
<1> DEFINE C == ChunkSize
<1>1. C \in Nat \ {0}
  BY ChunkSizeIs
<1>2. /\ x[1] \in Starts /\ x[2] = x[1] + C - 1
      /\ y[1] \in Starts /\ y[2] = y[1] + C - 1 /\ x[1] # y[1]
  BY ChunkIs
<1>3. x[1] \in Nat /\ y[1] \in Nat /\ x[1] % C = 0 /\ y[1] % C = 0
  BY <1>2, PartMeasurementAssumption DEF Starts
<1> HIDE DEF C
<1> DEFINE p == x[1] \div C
           q == y[1] \div C
<1>4. p \in Nat /\ q \in Nat /\ x[1] = p * C + 0 /\ y[1] = q * C + 0
  <2>1. p \in Nat /\ x[1] = p * C + (x[1] % C)
    BY <1>1, <1>3, Division
  <2>2. q \in Nat /\ y[1] = q * C + (y[1] % C)
    BY <1>1, <1>3, Division
  <2> QED BY <1>3, <2>1, <2>2
<1>5. p * C \in Nat /\ q * C \in Nat
  BY <1>1, <1>4, ProductIsNat
<1> HIDE DEF p, q
<1>6. x[1] = p * C /\ y[1] = q * C
  BY <1>4, <1>5
<1>7. p # q
  BY <1>2, <1>6
<1>8. x[1] + C <= y[1] \/ y[1] + C <= x[1]
  <2>1. CASE p < q
    BY <1>1, <1>4, <1>6, <2>1, Multiplied
  <2>2. CASE q < p
    BY <1>1, <1>4, <1>6, <2>2, Multiplied
  <2> QED BY <1>4, <1>7, <2>1, <2>2
<1>9. SUFFICES ASSUME NEW i \in Piece(x), i \in Piece(y) PROVE FALSE
  OBVIOUS
<1>10. i \in x[1] .. x[2] /\ i \in y[1] .. y[2]
  BY <1>9 DEF Piece
<1> QED BY <1>1, <1>2, <1>3, <1>8, <1>10

(* Every item is in a chunk.                                               *)
LEMMA ChunksCover ==
  Covered(Chunks) = 0 .. StreamItems - 1
<1> DEFINE C == ChunkSize
<1>1. C \in Nat \ {0} /\ StreamItems \in Nat \ {0}
  BY ChunkSizeIs, PartMeasurementAssumption
<1>2. ASSUME NEW i \in 0 .. StreamItems - 1 PROVE i \in Covered(Chunks)
  <2> DEFINE j == (i \div C) * C
             x == <<j, j + C - 1>>
  <2>0. i \in Nat
    BY <1>1
  <2> HIDE DEF C
  <2>1. i \div C \in Nat /\ i = j + (i % C) /\ i % C \in 0 .. C - 1
    BY <1>1, <2>0, Division
  <2>2. j \in Nat
    BY <1>1, <2>1, ProductIsNat
  <2>3. j % C = 0
    BY <1>1, <2>1
  <2> HIDE DEF j
  <2>4. i \in j .. j + C - 1 /\ j \in 0 .. StreamItems - 1
    BY <1>1, <2>0, <2>1, <2>2
  <2>5. x \in Chunks
    BY <2>3, <2>4 DEF C, Chunks
  <2>6. x[1] = j /\ x[2] = j + C - 1
    OBVIOUS
  <2>7. i \in Piece(x)
    BY <1>2, <2>4, <2>6 DEF Piece
  <2> QED BY <1>2, <2>5, <2>7 DEF Covered
<1> QED BY <1>2 DEF Covered

(* There are no more chunks than workers: each starts at another multiple  *)
(* of the chunk size.                                                      *)
LEMMA ChunksAreFew ==
  IsFiniteSet(Chunks) /\ Cardinality(Chunks) <= GlueWorkers
<1> DEFINE C == ChunkSize
           f == [x \in Chunks |-> x[1] \div C]
           W == 0 .. GlueWorkers - 1
<1>1. C \in Nat \ {0} /\ StreamItems \in Nat \ {0} /\ GlueWorkers \in Nat \ {0}
      /\ StreamItems <= GlueWorkers * C
  BY ChunkSizeIs, PartMeasurementAssumption
<1>2. \A x \in Chunks : /\ x[1] \in 0 .. StreamItems - 1 /\ x[1] % C = 0
                        /\ x = <<x[1], x[1] + C - 1>>
  BY ChunkIs DEF Starts
<1> HIDE DEF C
<1>3. \A x \in Chunks : f[x] \in W /\ x[1] = f[x] * C
  <2> TAKE x \in Chunks
  <2>0. x[1] \in Nat /\ x[1] < StreamItems /\ x[1] % C = 0
    BY <1>1, <1>2
  <2> DEFINE q == x[1] \div C
  <2>1. q \in Nat /\ x[1] = q * C + (x[1] % C)
    BY <1>1, <2>0, Division
  <2>2. q * C \in Nat
    BY <1>1, <2>1, ProductIsNat
  <2>3. f[x] = q
    OBVIOUS
  <2> HIDE DEF q, f
  <2>4. x[1] = q * C
    BY <2>0, <2>1, <2>2
  <2>5. q < GlueWorkers
    <3>1. SUFFICES ASSUME ~(q < GlueWorkers) PROVE FALSE
      OBVIOUS
    <3>2. GlueWorkers * C <= q * C
      <4>1. CASE q = GlueWorkers
        BY <1>1, <2>2, <4>1
      <4>2. CASE GlueWorkers < q
        <5>1. GlueWorkers * C + C <= q * C
          BY <1>1, <2>1, <4>2, Multiplied
        <5>2. GlueWorkers * C \in Nat
          BY <1>1, ProductIsNat
        <5> QED BY <1>1, <2>2, <5>1, <5>2
      <4> QED BY <1>1, <2>1, <3>1, <4>1, <4>2
    <3>3. GlueWorkers * C \in Nat
      BY <1>1, ProductIsNat
    <3> QED BY <1>1, <2>0, <2>2, <2>4, <3>2, <3>3
  <2> QED BY <1>1, <2>1, <2>3, <2>4, <2>5
<1> HIDE DEF f, W
<1>4. f \in [Chunks -> W]
  BY <1>3 DEF f
<1>5. \A x, y \in Chunks : f[x] = f[y] => x = y
  BY <1>2, <1>3
<1>6. f \in Injection(Chunks, W)
  BY <1>4, <1>5 DEF Injection, IsInjective
<1>8. IsFiniteSet(W) /\ Cardinality(W) = GlueWorkers
  BY <1>1, FS_Interval DEF W
<1>9. IsFiniteSet(Chunks) /\ Cardinality(Chunks) <= Cardinality(W)
  BY <1>6, <1>8, FS_Injection
<1> QED BY <1>8, <1>9

(* A function that sums the items of a set of chunks as MapThenSumSet      *)
(* does.                                                                   *)
AddsUp(f) ==
    f = [s \in SUBSET Chunks |->
            IF s = {} THEN 0
            ELSE ItemsOf(CHOOSE x \in s : TRUE) + f[s \ {CHOOSE x \in s : TRUE}]]

(* MapThenSumSet is one such function, chosen.                             *)
LEMMA SumIsChosen == MapThenSumSet(ItemsOf, Chunks) = (CHOOSE f : AddsUp(f))[Chunks]
BY DEF MapThenSumSet, MapThenFoldSet, AddsUp

(* The items of a set of chunks are those of one of them and those of the  *)
(* rest.                                                                   *)
LEMMA CoveredBy ==
  ASSUME NEW s \in SUBSET Chunks, NEW x \in s
  PROVE  /\ IsFiniteSet(Covered(s)) /\ Cardinality(Covered(s)) \in Nat
         /\ Cardinality(Covered(s)) = ItemsOf(x) + Cardinality(Covered(s \ {x}))
<1> DEFINE rest == Covered(s \ {x})
<1>1. IsFiniteSet(0 .. StreamItems - 1)
  BY FS_Interval, PartMeasurementAssumption
<1>2. Covered(s) = Piece(x) \cup rest
  <2>1. \A y \in s : y = x \/ y \in s \ {x}
    OBVIOUS
  <2>2. \A i \in Piece(x) : i \in 0 .. StreamItems - 1
    BY DEF Piece
  <2>3. Covered(s) \subseteq Piece(x) \cup rest
    BY <2>1 DEF Covered
  <2>4. Piece(x) \cup rest \subseteq Covered(s)
    BY <2>2 DEF Covered
  <2> QED BY <2>3, <2>4
<1>3. Piece(x) \cap rest = {}
  <2>1. SUFFICES ASSUME NEW i \in Piece(x), i \in rest PROVE FALSE
    OBVIOUS
  <2>2. PICK y \in s \ {x} : i \in Piece(y)
    BY <2>1 DEF Covered
  <2> QED BY <2>1, <2>2, ChunksApart
<1>4. IsFiniteSet(Piece(x)) /\ IsFiniteSet(rest) /\ IsFiniteSet(Covered(s))
  <2>1. \A T \in SUBSET (0 .. StreamItems - 1) : IsFiniteSet(T)
    BY <1>1, FS_Subset
  <2> QED BY <2>1 DEF Piece, Covered
<1>5. Cardinality(Piece(x) \cup rest) = Cardinality(Piece(x)) + Cardinality(rest) - Cardinality(Piece(x) \cap rest)
  BY <1>4, FS_Union
<1>6. Cardinality({}) = 0
  BY FS_EmptySet
<1>7. Cardinality(Piece(x)) \in Nat /\ Cardinality(rest) \in Nat /\ Cardinality(Covered(s)) \in Nat
  BY <1>4, FS_CardinalityType
<1>8. ItemsOf(x) = Cardinality(Piece(x))
  BY DEF ItemsOf, Piece
<1>9. Cardinality(Covered(s)) = Cardinality(Piece(x)) + Cardinality(rest) - 0
  BY <1>2, <1>3, <1>5, <1>6
<1> HIDE DEF rest
<1>10. Cardinality(Covered(s)) = ItemsOf(x) + Cardinality(rest)
  BY <1>7, <1>8, <1>9
<1> QED BY <1>4, <1>7, <1>10 DEF rest

(* No chunk, no item.                                                      *)
LEMMA CoveredByNone == Cardinality(Covered({})) = 0
<1>1. Covered({}) = {}
  BY DEF Covered
<1> QED BY <1>1, FS_EmptySet

(* There is one, so the one chosen is one.                                 *)
LEMMA SomethingAddsUp == \E f : AddsUp(f)
<1> DEFINE f == [s \in SUBSET Chunks |-> Cardinality(Covered(s))]
<1>1. ASSUME NEW s \in SUBSET Chunks
      PROVE  f[s] = IF s = {} THEN 0
                    ELSE ItemsOf(CHOOSE x \in s : TRUE) + f[s \ {CHOOSE x \in s : TRUE}]
  <2>1. CASE s = {}
    BY <2>1, CoveredByNone
  <2>2. CASE s # {}
    <3> DEFINE x == CHOOSE y \in s : TRUE
    <3>1. x \in s
      BY <2>2
    <3> HIDE DEF x
    <3>2. Cardinality(Covered(s)) = ItemsOf(x) + Cardinality(Covered(s \ {x}))
      BY <3>1, CoveredBy
    <3>3. f[s] = ItemsOf(x) + f[s \ {x}]
      BY <3>2
    <3> QED BY <2>2, <3>3 DEF x
  <2> QED BY <2>1, <2>2
<1>2. f = [s \in SUBSET Chunks |->
            IF s = {} THEN 0
            ELSE ItemsOf(CHOOSE x \in s : TRUE) + f[s \ {CHOOSE x \in s : TRUE}]]
  BY <1>1
<1>3. AddsUp(f)
  BY <1>2 DEF AddsUp
<1> QED BY <1>3

(* By induction over the finite sets of chunks, it gives every set the     *)
(* number of its items.                                                    *)
LEMMA AllAddsUp ==
  ASSUME NEW f, AddsUp(f), NEW S \in SUBSET Chunks, IsFiniteSet(S)
  PROVE  f[S] = Cardinality(Covered(S))
<1> DEFINE T == {A \in SUBSET S : f[A] # Cardinality(Covered(A))}
<1>1. SUFFICES ASSUME T # {} PROVE FALSE
  <2>1. S \notin T
    BY <1>1
  <2> QED BY <2>1
<1>2. \A A \in T : IsFiniteSet(A)
  BY FS_Subset
<1> HIDE DEF T
<1>3. PICK A \in T : \A B \in T : B \subseteq A => B = A
  BY <1>1, <1>2, SmallestFiniteSet
<1>4. A \in SUBSET Chunks /\ A \in SUBSET S /\ f[A] # Cardinality(Covered(A))
  BY <1>3 DEF T
<1>5. f[A] = IF A = {} THEN 0 ELSE ItemsOf(CHOOSE x \in A : TRUE) + f[A \ {CHOOSE x \in A : TRUE}]
  BY <1>4 DEF AddsUp
<1>6. CASE A = {}
  BY <1>4, <1>5, <1>6, CoveredByNone
<1>7. CASE A # {}
  <2> DEFINE x == CHOOSE y \in A : TRUE
  <2>1. x \in A /\ f[A] = ItemsOf(x) + f[A \ {x}]
    BY <1>5, <1>7
  <2> HIDE DEF x
  <2>2. A \ {x} \notin T
    BY <1>3, <2>1
  <2>3. f[A \ {x}] = Cardinality(Covered(A \ {x}))
    BY <1>4, <2>2 DEF T
  <2>4. Cardinality(Covered(A)) = ItemsOf(x) + Cardinality(Covered(A \ {x}))
    BY <1>4, <2>1, CoveredBy
  <2> QED BY <1>4, <2>1, <2>3, <2>4
<1> QED BY <1>6, <1>7

(* All three ways of the glue workload process every item once, whatever   *)
(* the number of items and of workers and however they divide, in no more  *)
(* threads than workers (measure_interpreter.py, the chunking of the       *)
(* thread and process pools).                                              *)
LEMMA GlueIsWhole == GlueAddsUp
<1>1. AddsUp(CHOOSE f : AddsUp(f))
  BY SomethingAddsUp
<1>2. (CHOOSE f : AddsUp(f))[Chunks] = Cardinality(Covered(Chunks))
  BY <1>1, AllAddsUp, ChunksAreFew
<1>3. Cardinality(0 .. StreamItems - 1) = StreamItems
  BY FS_Interval, PartMeasurementAssumption
<1> QED BY <1>2, <1>3, ChunksCover, ChunksAreFew, SumIsChosen DEF GlueAddsUp

-----------------------------------------------------------------------------

(* The indices of the records the range query asks for: the first part's,  *)
(* in the window.                                                          *)
Wanted == {i \in 0 .. QueryRecords - 1 : i % QueryParts = 0 /\ i <= QueryWindow}

(* The record written at an index.                                         *)
RecordAt(i) == [part |-> i % QueryParts, ts |-> Base(invocation) + i]

(* The rows in range are the records at those indices, when the key's      *)
(* width holds the part's id.                                              *)
LEMMA RangeIs ==
  ASSUME invocation \in Nat \ {0}, NEW engine, engine = "sqlite" \/ args.wide
  PROVE  RangeOf(engine) = {RecordAt(i) : i \in Wanted}
<1> DEFINE t0 == Base(invocation)
<1>1. QueryRecords \in Nat \ {0} /\ QueryParts \in Nat \ {0} /\ QueryWindow \in Nat
  BY StoreAssumption
<1>2. t0 \in Nat
  <2>1. invocation - 1 \in Nat
    OBVIOUS
  <2> QED BY <1>1, <2>1, ProductIsNat DEF Base
<1>3. RangeOf(engine) = {row \in QueryRows : row.part = 0 /\ row.ts \in t0 .. t0 + QueryWindow}
  BY DEF RangeOf, SqliteRange, LmdbRange, PartInKey
<1>4. InTheDirectory \subseteq 1 .. invocation /\ invocation \in InTheDirectory
  BY DEF InTheDirectory
<1>5. ASSUME NEW k \in InTheDirectory, k # invocation, NEW i \in 0 .. QueryRecords - 1
      PROVE  Base(k) + i < t0
  <2>1. k - 1 \in Nat /\ invocation - 1 \in Nat /\ k - 1 < invocation - 1
    BY <1>4, <1>5
  <2>2. (k - 1) * QueryRecords + QueryRecords <= (invocation - 1) * QueryRecords
    BY <1>1, <2>1, Multiplied
  <2>3. (k - 1) * QueryRecords \in Nat
    BY <1>1, <2>1, ProductIsNat
  <2>4. Base(k) = (k - 1) * QueryRecords /\ t0 = (invocation - 1) * QueryRecords
    BY DEF Base
  <2> HIDE DEF t0
  <2> QED BY <1>1, <1>2, <2>2, <2>3, <2>4
<1> HIDE DEF t0
<1>6. ASSUME NEW row \in RangeOf(engine) PROVE row \in {RecordAt(i) : i \in Wanted}
  <2>1. row \in QueryRows /\ row.part = 0 /\ row.ts \in t0 .. t0 + QueryWindow
    BY <1>3, <1>6
  <2>2. PICK i \in 0 .. QueryRecords - 1, k \in InTheDirectory :
                row = [part |-> i % QueryParts, ts |-> Base(k) + i]
    BY <2>1 DEF QueryRows
  <2>3. row.part = i % QueryParts /\ row.ts = Base(k) + i
    BY <2>2
  <2>4. k = invocation
    BY <1>1, <1>2, <1>5, <2>1, <2>2, <2>3
  <2>5. row.ts = t0 + i
    BY <2>3, <2>4 DEF t0
  <2>6. i <= QueryWindow
    BY <1>1, <1>2, <2>1, <2>2, <2>5
  <2>7. i \in Wanted
    BY <2>1, <2>2, <2>3, <2>6 DEF Wanted
  <2>8. row = RecordAt(i)
    BY <2>2, <2>4 DEF RecordAt
  <2> QED BY <2>7, <2>8
<1>7. ASSUME NEW i \in Wanted PROVE RecordAt(i) \in RangeOf(engine)
  <2>1. i \in 0 .. QueryRecords - 1 /\ i % QueryParts = 0 /\ i <= QueryWindow
    BY <1>7 DEF Wanted
  <2>2. RecordAt(i).part = 0 /\ RecordAt(i).ts = t0 + i
    BY <2>1 DEF RecordAt, t0
  <2>3. t0 + i \in t0 .. t0 + QueryWindow
    BY <1>1, <1>2, <2>1
  <2>4. RecordAt(i) \in QueryRows
    BY <1>4, <2>1 DEF RecordAt, QueryRows
  <2> QED BY <1>3, <2>2, <2>3, <2>4
<1> QED BY <1>6, <1>7

(* So the query returns as many rows: no two indices make the same record. *)
LEMMA QueryReportTold ==
  ASSUME invocation \in Nat \ {0}, NEW engine, engine = "sqlite" \/ args.wide
  PROVE  Cardinality(RangeOf(engine))
           = Cardinality({i \in 0 .. QueryRecords - 1 : i % QueryParts = 0 /\ i <= QueryWindow})
<1> DEFINE R == {RecordAt(i) : i \in Wanted}
           g == [i \in Wanted |-> RecordAt(i)]
<1>1. Base(invocation) \in Nat /\ Wanted \subseteq Nat /\ IsFiniteSet(Wanted)
  <2>1. QueryRecords \in Nat \ {0} /\ invocation - 1 \in Nat
    BY StoreAssumption
  <2>2. Base(invocation) \in Nat
    BY <2>1, ProductIsNat DEF Base
  <2>3. IsFiniteSet(0 .. QueryRecords - 1)
    BY <2>1, FS_Interval
  <2>4. Wanted \subseteq 0 .. QueryRecords - 1
    BY DEF Wanted
  <2>5. IsFiniteSet(Wanted)
    BY <2>3, <2>4, FS_Subset
  <2>6. Wanted \subseteq Nat
    BY <2>1, <2>4
  <2> QED BY <2>2, <2>5, <2>6
<1>2. \A i \in Wanted : RecordAt(i).ts = Base(invocation) + i
  BY DEF RecordAt
<1>3. \A i, j \in Wanted : RecordAt(i) = RecordAt(j) => i = j
  <2> TAKE i, j \in Wanted
  <2> HAVE RecordAt(i) = RecordAt(j)
  <2>1. Base(invocation) + i = Base(invocation) + j
    BY <1>2
  <2> QED BY <1>1, <2>1
<1>4. g \in Bijection(Wanted, R)
  <2>1. g \in [Wanted -> R]
    OBVIOUS
  <2>2. \A i, j \in Wanted : g[i] = g[j] => i = j
    BY <1>3
  <2>3. \A r \in R : \E i \in Wanted : g[i] = r
    OBVIOUS
  <2> QED BY <2>1, <2>2, <2>3 DEF Bijection, Injection, Surjection, IsInjective
<1>5. ExistsBijection(Wanted, R)
  BY <1>4 DEF ExistsBijection
<1>6. Cardinality(R) = Cardinality(Wanted)
  BY <1>1, <1>5, FS_Bijection
<1> QED BY <1>6, RangeIs DEF Wanted

-----------------------------------------------------------------------------

(* The numeric-state measurement's sections, in their order.               *)
LEMMA HereIs ==
  ASSUME numericSection \in 1 .. 10
  PROVE  /\ Len(NUMERIC_SECTIONS) = 8
         /\ Here = "no_flush" <=> numericSection = 1
         /\ Here = "with_flush" <=> numericSection = 2
         /\ Here = "leak_across_cycles" <=> numericSection = 3
         /\ Here = "ram_memmap" <=> numericSection = 4
         /\ Here = "ram_shared_memory" <=> numericSection = 5
         /\ Here = "sigkill_specifics" <=> numericSection = 6
         /\ Here = "write_throughput" <=> numericSection = 7
         /\ Here = "cgroup_accounting" <=> numericSection = 8
         /\ numericSection \in 1 .. 8 => Here \in {NUMERIC_SECTIONS[s] : s \in 1 .. 8}
BY DEF Here, NUMERIC_SECTIONS

(* Every step of a child, of its driver and of the program that starts and *)
(* sweeps.                                                                 *)
LEMMA NumericGoesOn ==
  ASSUME NumericOK, NumericNext
  PROVE  NumericOK'
<1>a. Elements \in Nat \ {0} /\ Cycles \in Nat \ {0}
  BY NumericAssumption
<1>h. /\ numericSection \in 1 .. 10 /\ Len(NUMERIC_SECTIONS) = 8
      /\ Here = "no_flush" <=> numericSection = 1
      /\ Here = "with_flush" <=> numericSection = 2
      /\ Here = "leak_across_cycles" <=> numericSection = 3
      /\ Here = "ram_memmap" <=> numericSection = 4
      /\ Here = "ram_shared_memory" <=> numericSection = 5
      /\ Here = "sigkill_specifics" <=> numericSection = 6
      /\ Here = "write_throughput" <=> numericSection = 7
      /\ Here = "cgroup_accounting" <=> numericSection = 8
      /\ numericSection \in 1 .. 8 => Here \in {NUMERIC_SECTIONS[s] : s \in 1 .. 8}
  BY HereIs DEF NumericOK
<1>k. {"ram_shared_memory", "sigkill_specifics"} \subseteq {NUMERIC_SECTIONS[s] : s \in 1 .. 8}
  BY DEF NUMERIC_SECTIONS
<1> DEFINE Names == {NUMERIC_SECTIONS[s] : s \in 1 .. 8}
<1> USE <1>a
<1>n. /\ segments \subseteq Names /\ {"ram_shared_memory", "sigkill_specifics"} \subseteq Names
      /\ numericSection \in 1 .. 8 => Here \in Names
  BY <1>h, <1>k DEF NumericOK
<1>0. NumericOK <=> NumericOK /\ segments \subseteq Names
  BY DEF NumericOK
<1>1. CASE ChildOpens
  <2>1. segments' \subseteq Names
    BY <1>1, <1>n, <1>h DEF ChildOpens
  <2>2. segments' = segments \/ segments' = segments \union {"sigkill_specifics"}
          \/ segments' = segments \union {"ram_shared_memory"}
    BY <1>1, <1>h DEF ChildOpens
  <2>3. /\ child = "starting" /\ child' = "writing" /\ data' = 0
        /\ UNCHANGED <<numericSection, ready, cycle, driver, seen>>
    BY <1>1 DEF ChildOpens
  <2>4. numericSection = 5 => "ram_shared_memory" \in segments'
    BY <1>1, <1>h DEF ChildOpens, NumericOK
  <2>5. driver = "none" => segments' = segments \/ numericSection = 5
    BY <1>1, <1>h DEF ChildOpens
  <2>6. numericSection = 10 /\ segments' # {} => segments' = {"sigkill_specifics"} /\ driver = "killed"
    BY <1>1, <1>h DEF ChildOpens, NumericOK
  <2>7. "sigkill_specifics" \in segments' => driver # "none"
    BY <1>1, <1>h DEF ChildOpens, NumericOK
  <2>8. seen = <<>>
    BY <2>3 DEF NumericOK
  <2> QED BY <2>1, <2>3, <2>4, <2>6, <2>7, <2>8 DEF NumericOK
<1>2. CASE ChildWrites
  BY <1>2 DEF NumericOK, ChildWrites
<1>3. CASE ChildSignals
  BY <1>3, <1>h DEF NumericOK, ChildSignals
<1>4. CASE ChildLeaves
  BY <1>4, <1>h DEF NumericOK, ChildLeaves
<1>5. CASE StartsChild
  <2>1. numericSection \in 1 .. 5
    BY <1>5, <1>h DEF StartsChild, OnMemmap
  <2>2. child' = "starting" /\ ready' = FALSE /\ data' = 0
        /\ UNCHANGED <<numericSection, cycle, driver, segments, seen>>
    BY <1>5 DEF StartsChild
  <2>3. ready' \in BOOLEAN /\ ~ready'
    BY <2>2, Zenon
  <2>4. child' = "starting" /\ data' = 0 /\ UNCHANGED <<numericSection, cycle, driver, segments, seen>>
    BY <2>2
  <2> QED BY <2>1, <2>3, <2>4 DEF NumericOK
<1>6. CASE KillsAndReads
  BY <1>6, <1>h DEF NumericOK, KillsAndReads, Returns, OnMemmap, ChildRuns
<1>7. CASE KillsAndCounts
  BY <1>7, <1>h DEF NumericOK, KillsAndCounts, Returns, ChildRuns
<1>8. CASE KillsAndAttaches
  BY <1>8, <1>h DEF NumericOK, KillsAndAttaches, Returns, ChildRuns
<1>9. CASE StartsDriver
  <2>1. numericSection = 6 /\ driver = "none"
    BY <1>9, <1>h DEF StartsDriver
  <2>2. driver' = "running" /\ child' = "starting" /\ ready' = FALSE /\ data' = 0
        /\ UNCHANGED <<numericSection, cycle, segments, seen>>
    BY <1>9 DEF StartsDriver
  <2>3. ready' \in BOOLEAN /\ ~ready'
    BY <2>2, Zenon
  <2>4. /\ driver' = "running" /\ child' = "starting" /\ data' = 0
        /\ UNCHANGED <<numericSection, cycle, segments, seen>>
    BY <2>2
  <2> QED BY <2>1, <2>3, <2>4 DEF NumericOK
<1>10. CASE DriverKills
  BY <1>10, <1>h DEF NumericOK, DriverKills, ChildRuns
<1>11. CASE DriverTimesOut
  BY <1>11, <1>h DEF NumericOK, DriverTimesOut, Returns
<1>12. CASE TrackerUnlinks
  BY <1>12, <1>h DEF NumericOK, TrackerUnlinks, ChildRuns
<1>13. CASE Looks
  <2> DEFINE there == "sigkill_specifics" \in segments
  <2>1. numericSection = 6 /\ driver = "exited"
    BY <1>13, <1>h DEF Looks
  <2>2. UNCHANGED <<data, ready, cycle, faults>>
    BY <1>13, ZenonT(30) DEF Looks
  <2>3. seen \in Seq(BOOLEAN) /\ Len(seen) \in 0 .. 3
    <3>1. seen \in Seq(BOOLEAN)
      BY DEF NumericOK
    <3>2. Len(seen) <= 3
      BY DEF NumericOK
    <3>3. Len(seen) \in Nat
      BY <3>1, LenProperties
    <3>4. \A n \in Nat : n <= 3 => n \in 0 .. 3
      OBVIOUS
    <3>5. Len(seen) \in 0 .. 3
      BY <3>2, <3>3, <3>4, Zenon
    <3> QED BY <3>1, <3>5, Zenon
  <2>4. ASSUME NEW b \in BOOLEAN, seen' = Append(seen, b), Len(seen) < 3,
               b => there /\ \A j \in 1 .. Len(seen) : seen[j],
               ~b => ~there,
               UNCHANGED <<numericSection, segments, driver, child>>
        PROVE  NumericOK'
    <3>1. /\ seen' \in Seq(BOOLEAN) /\ Len(seen') = Len(seen) + 1
          /\ \A i \in 1 .. Len(seen) : seen'[i] = seen[i]
          /\ seen'[Len(seen) + 1] = b
      BY <2>3, <2>4
    <3>2. \A i \in 1 .. Len(seen') : seen'[i] => \A j \in 1 .. i : seen'[j]
      <4> TAKE i \in 1 .. Len(seen')
      <4>1. CASE i \in 1 .. Len(seen)
        <5>1. seen[i] => \A j \in 1 .. i : seen[j]
          BY <4>1 DEF NumericOK
        <5> QED BY <2>3, <3>1, <4>1, <5>1
      <4>2. CASE i = Len(seen) + 1
        BY <2>3, <2>4, <3>1, <4>2
      <4> QED BY <2>3, <3>1, <4>1, <4>2
    <3>3. \A i \in 1 .. Len(seen') : ~seen'[i] => "sigkill_specifics" \notin segments
      BY <2>3, <2>4, <3>1 DEF NumericOK
    <3> QED BY <2>1, <2>2, <2>3, <2>4, <3>1, <3>2, <3>3 DEF NumericOK
  <2>5. there \in BOOLEAN
    OBVIOUS
  <2>6. CASE Len(seen) < 2 /\ seen' = Append(seen, there) /\ UNCHANGED <<numericSection, segments, driver, child>>
    <3>1. there => \A j \in 1 .. Len(seen) : seen[j]
      BY DEF NumericOK
    <3> HIDE DEF there
    <3> QED BY <2>3, <2>4, <2>5, <2>6, <3>1
  <2>7. CASE Len(seen) = 2 /\ seen' = Append(seen, seen[2] /\ there)
             /\ UNCHANGED <<numericSection, segments, driver, child>>
    <3> DEFINE b == seen[2] /\ there
    <3>1. b \in BOOLEAN
      OBVIOUS
    <3>2. b => there /\ \A j \in 1 .. Len(seen) : seen[j]
      BY <2>3, <2>7 DEF NumericOK
    <3>3. ~b => ~there
      BY <2>3, <2>7 DEF NumericOK
    <3>4. seen' = Append(seen, b)
      BY <2>7
    <3> HIDE DEF b, there
    <3> QED BY <2>3, <2>4, <2>7, <3>1, <3>2, <3>3, <3>4
  <2>8. CASE Len(seen) = 3 /\ seen' = <<>> /\ segments' = segments \ {"sigkill_specifics"}
             /\ numericSection' = 7 /\ driver' = driver /\ child' = "none"
    BY <2>1, <2>2, <2>8 DEF NumericOK
  <2> QED BY <1>13, <2>1, <2>6, <2>7, <2>8 DEF Looks, Returns
<1>14. CASE MeasuresInPlace
  BY <1>14, <1>h, <1>n DEF NumericOK, MeasuresInPlace, Returns
<1>15. CASE Sweeps
  BY <1>15, <1>h DEF NumericOK, Sweeps
<1> QED
  BY <1>1, <1>2, <1>3, <1>4, <1>5, <1>6, <1>7, <1>8, <1>9, <1>10, <1>11, <1>12, <1>13, <1>14, <1>15
  DEF NumericNext, ChildStep, NumericHarnessStep

(* What a section's report r says of the section s.                        *)
SaysWhatHappened(s, r) ==
    /\ s \in OnMemmap \ {"leak_across_cycles"} => (r.ready => r.matched = Elements)
    /\ s = "ram_shared_memory" => (r.ready => r.attached)
    /\ s = "sigkill_specifics" =>
          /\ r.attached => r.settled
          /\ r.settled => r.at_once
          /\ r.ready /\ r.attached => r.matches
          /\ r.unlinked => r.settled
          /\ ~r.left

(* A section that returns a true report keeps the reports true.            *)
LEMMA NumericReportKept ==
  ASSUME NumericReportIsTrue, NEW what, Returns(what),
         what # NoReport => SaysWhatHappened(Here, what)
  PROVE  NumericReportIsTrue'
<1>1. \A s \in DOMAIN numericReport : numericReport[s] # NoReport => SaysWhatHappened(s, numericReport[s])
  BY DEF NumericReportIsTrue, SaysWhatHappened
<1>2. numericReport' = [s \in DOMAIN numericReport \union {Here} |->
                            IF s = Here THEN what ELSE numericReport[s]]
  BY DEF Returns
<1>3. \A s \in DOMAIN numericReport' : numericReport'[s] # NoReport => SaysWhatHappened(s, numericReport'[s])
  <2> TAKE s \in DOMAIN numericReport'
  <2>1. CASE s = Here
    <3>1. numericReport'[s] = what
      BY <1>2, <2>1
    <3> QED BY <2>1, <3>1
  <2>2. CASE s # Here
    <3>1. s \in DOMAIN numericReport /\ numericReport'[s] = numericReport[s]
      BY <1>2, <2>2
    <3> QED BY <1>1, <3>1
  <2> QED BY <2>1, <2>2
<1> QED BY <1>3 DEF NumericReportIsTrue, SaysWhatHappened

(* Every report of the numeric-state measurement is true when it is        *)
(* returned.                                                               *)
LEMMA NumericReportsStayTrue ==
  ASSUME NumericOK, NumericReportIsTrue, NumericNext
  PROVE  NumericReportIsTrue'
<1>h. /\ numericSection \in 1 .. 10 /\ Len(NUMERIC_SECTIONS) = 8
      /\ Here = "no_flush" <=> numericSection = 1
      /\ Here = "with_flush" <=> numericSection = 2
      /\ Here = "leak_across_cycles" <=> numericSection = 3
      /\ Here = "ram_memmap" <=> numericSection = 4
      /\ Here = "ram_shared_memory" <=> numericSection = 5
      /\ Here = "sigkill_specifics" <=> numericSection = 6
      /\ Here = "write_throughput" <=> numericSection = 7
      /\ Here = "cgroup_accounting" <=> numericSection = 8
  BY HereIs DEF NumericOK
<1>1. ASSUME UNCHANGED numericReport PROVE NumericReportIsTrue'
  BY <1>1 DEF NumericReportIsTrue
<1>2. CASE KillsAndReads
  <2>1. Returns([ready |-> ready, matched |-> data]) /\ Here \in OnMemmap \ {"leak_across_cycles"}
    BY <1>2 DEF KillsAndReads
  <2>2. ready => data = Elements
    BY DEF NumericOK
  <2>3. SaysWhatHappened(Here, [ready |-> ready, matched |-> data])
    BY <2>1, <2>2 DEF SaysWhatHappened, OnMemmap
  <2> QED BY <2>1, <2>3, NumericReportKept
<1>3. CASE KillsAndCounts
  <2>1. CASE cycle + 1 = Cycles
    <3>1. Returns([cycles |-> Cycles]) /\ Here = "leak_across_cycles"
      BY <1>3, <2>1 DEF KillsAndCounts
    <3>2. SaysWhatHappened(Here, [cycles |-> Cycles])
      BY <3>1 DEF SaysWhatHappened
    <3> QED BY <3>1, <3>2, NumericReportKept
  <2>2. CASE cycle + 1 # Cycles
    BY <1>1, <1>3, <2>2 DEF KillsAndCounts
  <2> QED BY <2>1, <2>2
<1>4. CASE KillsAndAttaches
  <2> DEFINE what == [ready |-> ready, attached |-> Here \in segments]
  <2>1. Returns(what) /\ Here = "ram_shared_memory" /\ ChildRuns
    BY <1>4 DEF KillsAndAttaches
  <2>2. ready => Here \in segments
    BY <1>h, <2>1 DEF NumericOK, ChildRuns
  <2>3. what.ready = ready /\ what.attached = (Here \in segments)
    OBVIOUS
  <2>4. SaysWhatHappened(Here, what)
    BY <2>1, <2>2, <2>3 DEF SaysWhatHappened, OnMemmap
  <2> HIDE DEF what
  <2> QED BY <2>1, <2>4, NumericReportKept
<1>5. CASE DriverTimesOut
  BY <1>5, NumericReportKept DEF DriverTimesOut
<1>6. CASE Looks
  <2>1. CASE UNCHANGED numericReport
    BY <1>1, <2>1
  <2> DEFINE what == [ready |-> ready, at_once |-> seen[1], settled |-> seen[2],
                      attached |-> seen[3],
                      matches |-> seen[3] /\ data = Elements,
                      unlinked |-> "sigkill_specifics" \in segments,
                      left |-> "sigkill_specifics" \in segments']
  <2>2. CASE Len(seen) = 3 /\ segments' = segments \ {"sigkill_specifics"} /\ Returns(what)
    <3>1. Here = "sigkill_specifics"
      BY <1>6 DEF Looks
    <3>2. /\ seen[3] => seen[2]
          /\ seen[2] => seen[1]
          /\ ready => data = Elements
          /\ "sigkill_specifics" \in segments => seen[2]
      BY <2>2 DEF NumericOK
    <3>3. "sigkill_specifics" \notin segments'
      BY <2>2
    <3>4. /\ what.ready = ready /\ what.at_once = seen[1] /\ what.settled = seen[2]
          /\ what.attached = seen[3] /\ what.matches = (seen[3] /\ data = Elements)
          /\ what.unlinked = ("sigkill_specifics" \in segments)
          /\ what.left = ("sigkill_specifics" \in segments')
      OBVIOUS
    <3>5. Returns(what)
      BY <2>2
    <3> HIDE DEF what
    <3>6. SaysWhatHappened(Here, what)
      BY <3>1, <3>2, <3>3, <3>4 DEF SaysWhatHappened, OnMemmap
    <3> QED BY <3>5, <3>6, NumericReportKept
  <2> QED BY <1>6, <2>1, <2>2 DEF Looks
<1>7. CASE MeasuresInPlace
  <2>1. Here \notin OnMemmap \union {"ram_shared_memory", "sigkill_specifics"}
    BY <1>7 DEF MeasuresInPlace, OnMemmap
  <2>2. \A what : SaysWhatHappened(Here, what)
    BY <2>1 DEF SaysWhatHappened
  <2>3. Returns([measured |-> TRUE]) \/ Returns(NoReport)
    BY <1>7 DEF MeasuresInPlace
  <2> QED BY <2>2, <2>3, NumericReportKept
<1>8. CASE ChildStep \/ StartsChild \/ StartsDriver \/ DriverKills \/ TrackerUnlinks \/ Sweeps
  BY <1>1, <1>8 DEF ChildStep, ChildOpens, ChildWrites, ChildSignals, ChildLeaves, StartsChild,
       StartsDriver, DriverKills, TrackerUnlinks, Sweeps
<1> QED
  BY <1>2, <1>3, <1>4, <1>5, <1>6, <1>7, <1>8 DEF NumericNext, NumericHarnessStep

-----------------------------------------------------------------------------

(* What the store measurement keeps of itself.                             *)
StoreInv == RunOK /\ AppendOK /\ CrashOK /\ StoreOK

(* A step of the store measurement goes on in its invocation, section      *)
(* after section, or starts the next one.                                  *)
LEMMA StoreStepIs ==
  ASSUME StoreInv, StoreNext
  PROVE  /\ args' = args /\ faults' \in 0 .. MaxFaults /\ faults' >= faults
         /\ \/ RunsAgain
            \/ invocation' = invocation /\ section' \in section .. 12
<1>s. section \in 1 .. 12 /\ faults \in 0 .. MaxFaults /\ MaxFaults \in Nat
  BY RunAssumption DEF StoreInv, StoreOK, RunOK
<1>f. Fails => faults' \in 0 .. MaxFaults /\ faults' >= faults
  BY FaultsCount DEF StoreInv
<1>l. Len(SECTIONS) = 11
  BY SectionsAre
<1> HIDE DEF SECTIONS
<1>a. \A what : section <= 11 /\ Answers(what) => section' \in section .. 12
  BY <1>s DEF Answers
<1>1. CASE Skips
  BY <1>1, <1>a, <1>l, <1>s DEF Skips
<1>2. CASE Appending
  <2>1. section <= 11
    BY <1>2, <1>l DEF Appending, AtSection
  <2>2. AppendStep => faults' = faults \/ Fails
    BY DEF AppendStep, WriterStep, StartWriter, Connects, TakesTheLock, FindsItLocked, Commits,
           WritesItsResult, WriterFails, BarrierOpens
  <2> QED BY <1>2, <1>a, <1>f, <1>s, <2>1, <2>2 DEF Appending, StartVariant
<1>3. CASE Crashing
  <2>1. section <= 11
    BY <1>3, <1>l DEF Crashing, AtSection
  <2>2. CrashStep => faults' = faults \/ Fails
    BY DEF CrashStep, CrasherStep, CommitsBaseline, NotesBaseline, Signals, HoldElapses,
           CrasherFails, GivesUpWaiting, KillsAndReopens, Reopens, ReopenerFails
  <2> QED BY <1>3, <1>a, <1>f, <1>s, <2>1, <2>2 DEF Crashing, CrashStarts
<1>4. CASE ReadingCold
  <2>1. section \in {5, 6}
    BY <1>4, <1>s, AtIs DEF ReadingCold
  <2>2. (1 + CHOOSE s \in DOMAIN SECTIONS : SECTIONS[s] = <<"cold", "lmdb">>) = 7
    BY DEF SECTIONS
  <2>3. CASE Populates
    BY <1>4, <1>s, <2>3 DEF Populates, ReadingCold
  <2>4. CASE PopulateFails
    BY <1>4, <1>f, <1>s, <2>1, <2>2, <2>4 DEF PopulateFails, ReadingCold
  <2>5. CASE ReadsCold
    BY <1>4, <1>f, <1>s, <2>5 DEF ReadsCold, ReadingCold
  <2>6. CASE AnswersCold
    BY <1>4, <1>a, <1>s, <2>1, <2>6 DEF AnswersCold, ReadingCold
  <2> QED BY <1>4, <2>3, <2>4, <2>5, <2>6 DEF ReadingCold
<1>5. CASE Queries
  BY <1>5, <1>a, <1>l, <1>s DEF Queries, AtSection
<1>6. CASE MeasuresSizes
  BY <1>6, <1>a, <1>l, <1>s DEF MeasuresSizes, AtSection
<1>7. CASE RunsAgain
  BY <1>7, <1>s DEF RunsAgain
<1> QED BY <1>1, <1>2, <1>3, <1>4, <1>5, <1>6, <1>7 DEF StoreNext

(* It keeps the count of the invocations and of the failures.              *)
LEMMA StoreKeepsRun ==
  ASSUME StoreInv, StoreNext, program \in PROGRAMS, program' = program
  PROVE  RunOK'
<1>1. CASE RunsAgain
  BY <1>1, StoreStepIs, RunAssumption DEF StoreInv, RunOK, RunsAgain
<1>2. CASE ~RunsAgain
  BY <1>2, StoreStepIs DEF StoreInv, RunOK
<1> QED BY <1>1, <1>2

(* What does not touch the writers keeps their rows.                       *)
LEMMA AppendLeftAlone ==
  ASSUME AppendOK, UNCHANGED appendVars
  PROVE  AppendOK'
BY DEF AppendOK, appendVars

(* Every step of the store measurement keeps the rows those that were      *)
(* appended.                                                               *)
LEMMA StoreKeepsAppend ==
  ASSUME StoreInv, StoreNext
  PROVE  AppendOK'
<1>s. section \in 1 .. 12 /\ AppendOK
  BY DEF StoreInv, StoreOK
<1>1. CASE UNCHANGED appendVars
  BY <1>1, <1>s, AppendLeftAlone
<1>2. CASE Appending
  <2>1. Subject \in SQLITE_VARIANTS \union LMDB_VARIANTS
    BY <1>2, <1>s, AtIs DEF Appending
  <2>2. CASE StartVariant(Subject)
    BY <1>s, <2>1, <2>2, AppendStarts
  <2>3. CASE AppendStep
    BY <1>s, <2>3, AppendGoesOn
  <2>4. CASE /\ AllJoined /\ variant' = Nobody
             /\ UNCHANGED <<stage, appended, attempts, holder, exitcode, results, rows>>
    BY <1>s, <2>4 DEF AppendOK, AllJoined
  <2> QED BY <1>2, <2>2, <2>3, <2>4 DEF Appending
<1>3. CASE RunsAgain
  <2>1. variant = Nobody /\ UNCHANGED <<variant, stage, appended, attempts, holder, exitcode, rows>>
    BY <1>3, <1>s, AtIs DEF RunsAgain, StoreInv, StoreOK
  <2>2. results' = results \/ results' = [w \in Writers |-> 0]
    BY <1>3 DEF RunsAgain
  <2>3. results' \in [Writers -> {0, Records}]
    BY <1>s, <2>2 DEF AppendOK
  <2> QED BY <1>s, <2>1, <2>3 DEF AppendOK
<1> QED
  BY <1>1, <1>2, <1>3
  DEF StoreNext, Skips, ReadingCold, Crashing, Queries, MeasuresSizes

(* And the stores whole baselines.                                         *)
LEMMA StoreKeepsCrash ==
  ASSUME StoreInv, StoreNext
  PROVE  CrashOK'
<1>s. section \in 1 .. 12 /\ CrashOK /\ RunOK
  BY DEF StoreInv, StoreOK
<1>f. faults' \in Nat /\ faults' >= faults /\ args' = args
  BY StoreStepIs, RunAssumption
<1>1. CASE RunsAgain
  BY <1>1, <1>s, CrashRunsAgain
<1>2. CASE Crashing
  <2>1. /\ section \in {7, 8} /\ Subject \in ENGINES /\ section = CrashSection(Subject)
        /\ Subject = "lmdb" => args.lmdb
        /\ UNCHANGED invocation
    BY <1>2, <1>s, AtIs DEF Crashing, ENGINES, CrashSection
  <2>2. CASE CrashStarts(Subject) /\ UNCHANGED section
    BY <1>s, <1>f, <2>1, <2>2, CrashStartsOver
  <2>3. CASE CrashStep /\ UNCHANGED section
    <3>1. CASE crashing # "none"
      BY <1>s, <1>f, <2>1, <2>3, <3>1, CrashGoesOn
    <3>2. CASE crashing = "none"
      <4>1. crasher \in {"none", "gone"} /\ reopener = "none" /\ ~event
        BY <1>s, <3>2 DEF CrashOK
      <4> QED BY <2>3, <3>2, <4>1
              DEF CrashStep, CrasherStep, CommitsBaseline, NotesBaseline, Signals, HoldElapses,
                  CrasherFails, GivesUpWaiting, KillsAndReopens, Reopens, ReopenerFails
    <3> QED BY <3>1, <3>2
  <2>4. CASE /\ CrashMeasured /\ crashing # "none" /\ Answers(CrashReport)
             /\ crashing' = "none" /\ reopener' = "none" /\ event' = FALSE
             /\ UNCHANGED <<made, crasher, crashExit, store, baselineFile, reopenFile, faults>>
    <3>1. section' = section + 1 /\ reopener # "none"
      BY <2>4 DEF Answers, CrashMeasured
    <3> QED BY <1>s, <1>f, <2>1, <2>4, <3>1, CrashIsOver
  <2> QED BY <1>2, <2>2, <2>3, <2>4 DEF Crashing
<1>3. CASE ~RunsAgain /\ ~Crashing
  <2>1. UNCHANGED <<crashVars, invocation>> /\ section' \in section .. 12
    BY <1>3, StoreStepIs
    DEF StoreNext, Skips, Appending, ReadingCold, Queries, MeasuresSizes
  <2>2. section' # section => crashing = "none"
    <3>1. SUFFICES ASSUME crashing # "none" PROVE section' = section
      OBVIOUS
    <3>2. section \in {7, 8} /\ CanMeasure
      BY <1>s, <3>1, AtIs DEF CrashOK, ENGINES, CrashSection
    <3> QED BY <1>3, <1>s, <3>2, AtIs
            DEF StoreNext, Skips, Appending, ReadingCold, Queries, MeasuresSizes
  <2>3. section \in Nat /\ section' \in Nat /\ section' >= section
    BY <1>s, <2>1
  <2> QED BY <1>s, <1>f, <2>1, <2>2, <2>3, CrashLeftAlone
<1> QED BY <1>1, <1>2, <1>3

(* And the settings in the store past their section.                       *)
LEMMA StoreKeepsStore ==
  ASSUME StoreInv, StoreNext
  PROVE  StoreOK'
<1>s. section \in 1 .. 12 /\ StoreOK /\ RunOK /\ AppendOK /\ CrashOK
  BY DEF StoreInv, StoreOK
<1>f. faults' \in Nat /\ faults \in Nat /\ faults' >= faults /\ args' = args
  BY StoreStepIs, RunAssumption DEF StoreInv, RunOK
<1>i. section' \in 1 .. 12
  BY <1>s, StoreStepIs DEF RunsAgain
<1>a. ASSUME NEW what, Answers(what) PROVE section' = section + 1
  BY <1>a DEF Answers
<1>1. CASE Skips
  <2>1. section \in {3, 4, 6, 8, 10} /\ ~args.lmdb /\ section' = section + 1
    <3>1. Len(SECTIONS) = 11 /\ section \in 1 .. Len(SECTIONS) /\ ~CanMeasure
      BY <1>1, SectionsAre DEF Skips
    <3>2. section <= 11 => (CanMeasure <=> (section \in {3, 4, 6, 8, 10} => args.lmdb))
      BY <1>s, AtIs
    <3>3. section' = section + 1
      BY <1>1, <1>a DEF Skips
    <3> HIDE DEF SECTIONS
    <3>4. section <= 11
      BY <1>s, <3>1
    <3> QED BY <3>1, <3>2, <3>3, <3>4
  <2>2. UNCHANGED <<args, settings, cold, faults, variant>>
    BY <1>1 DEF Skips, appendVars
  <2> QED BY <1>s, <1>i, <2>1, <2>2 DEF StoreOK
<1>2. CASE Appending
  <2>1. section \in 1 .. 4 /\ (section \in {3, 4} => args.lmdb) /\ UNCHANGED <<args, settings, cold>>
    BY <1>2, <1>s, AtIs DEF Appending
  <2>2. UNCHANGED section \/ (section' = section + 1 /\ variant' = Nobody)
    BY <1>2, <1>a DEF Appending
  <2> QED BY <1>s, <1>f, <1>i, <2>1, <2>2 DEF StoreOK
<1>3. CASE Crashing
  <2>1. section \in {7, 8} /\ UNCHANGED <<args, settings, cold, variant>>
    BY <1>3, <1>s, AtIs DEF Crashing, appendVars
  <2>2. UNCHANGED section \/ section' = section + 1
    BY <1>3, <1>a DEF Crashing
  <2> QED BY <1>s, <1>f, <1>i, <2>1, <2>2 DEF StoreOK
<1>4. CASE ReadingCold
  <2>1. /\ section \in {5, 6} /\ (section = 6 => args.lmdb) /\ UNCHANGED <<args, variant>>
        /\ section = 5 => Subject = "sqlite"
        /\ section = 6 => Subject = "lmdb"
    BY <1>4, <1>s, AtIs DEF ReadingCold, appendVars
  <2>2. CASE Populates
    <3>1. /\ settings' = [settings EXCEPT ![Subject] = "populated"]
          /\ UNCHANGED <<section, faults>>
      BY <2>2 DEF Populates
    <3>2. settings' \in [ENGINES -> {"absent", "empty", "populated"}] /\ settings'[Subject] = "populated"
          /\ \A e \in ENGINES : e # Subject => settings'[e] = settings[e]
      BY <1>s, <2>1, <3>1 DEF StoreOK, ENGINES
    <3> QED BY <1>s, <1>i, <2>1, <3>1, <3>2 DEF StoreOK, ENGINES
  <2>3. CASE PopulateFails
    <3>1. (1 + CHOOSE s \in DOMAIN SECTIONS : SECTIONS[s] = <<"cold", "lmdb">>) = 7
      BY DEF SECTIONS
    <3>2. section' = 7 /\ cold = NoFile /\ UNCHANGED cold /\ faults' > 0
      BY <1>s, <2>3, <3>1, FaultsCount DEF PopulateFails
    <3>3. settings' \in [ENGINES -> {"absent", "empty", "populated"}]
      <4>1. settings' = [settings EXCEPT ![Subject] = IF settings[Subject] = "absent" THEN "empty"
                                                      ELSE settings[Subject]]
        BY <2>3 DEF PopulateFails
      <4> DEFINE left == IF settings[Subject] = "absent" THEN "empty" ELSE settings[Subject]
      <4>2. left \in {"absent", "empty", "populated"}
        BY <1>s, <2>1 DEF StoreOK, ENGINES
      <4>3. settings' = [settings EXCEPT ![Subject] = left]
        BY <4>1
      <4> HIDE DEF left
      <4> QED BY <1>s, <2>1, <4>2, <4>3 DEF StoreOK, ENGINES
    <3> QED BY <1>s, <1>f, <2>1, <3>2, <3>3 DEF StoreOK
  <2>4. CASE ReadsCold
    <3>1. cold # NoFile /\ UNCHANGED <<settings, section>>
      BY <2>4 DEF ReadsCold
    <3> QED BY <1>s, <1>f, <1>i, <2>1, <3>1 DEF StoreOK
  <2>5. CASE AnswersCold
    <3>1. cold # NoFile /\ cold' = NoFile /\ UNCHANGED <<settings, faults>> /\ section' = section + 1
      BY <1>a, <2>5 DEF AnswersCold
    <3> QED BY <1>s, <1>i, <2>1, <3>1 DEF StoreOK
  <2> QED BY <1>4, <2>2, <2>3, <2>4, <2>5 DEF ReadingCold
<1>5. CASE Queries
  <2>1. section \in {9, 10} /\ section' = section + 1 /\ UNCHANGED <<args, settings, cold, faults, variant>>
    BY <1>5, <1>a, <1>s, AtIs DEF Queries, appendVars
  <2> QED BY <1>s, <1>i, <2>1 DEF StoreOK
<1>6. CASE MeasuresSizes
  <2>1. section = 11 /\ section' = section + 1 /\ UNCHANGED <<args, settings, cold, faults, variant>>
    BY <1>6, <1>a, <1>s, AtIs DEF MeasuresSizes, appendVars
  <2> QED BY <1>s, <1>i, <2>1 DEF StoreOK
<1>7. CASE RunsAgain
  <2>1. section = 12 /\ section' = 1 /\ UNCHANGED <<args, cold, faults, variant>>
    BY <1>7, <1>s, AtIs DEF RunsAgain
  <2>2. settings' = settings \/ settings' = [e \in ENGINES |-> "absent"]
    BY <1>7 DEF RunsAgain
  <2>3. settings' \in [ENGINES -> {"absent", "empty", "populated"}]
    BY <1>s, <2>2 DEF StoreOK
  <2> QED BY <1>s, <2>1, <2>3 DEF StoreOK
<1> QED BY <1>1, <1>2, <1>3, <1>4, <1>5, <1>6, <1>7 DEF StoreNext

(* The report is the last section's; the LMDB cold read may be passed over *)
(* without one.                                                            *)
ReportIsLast ==
    report # NoFile =>
        /\ report.in = invocation /\ section > 1
        /\ \/ report.section = SECTIONS[section - 1]
           \/ section = 7 /\ report.section = SECTIONS[5]

(* A section that answers goes on to the next and reports its own kind     *)
(* only.                                                                   *)
LEMMA AnswerIs ==
  ASSUME section \in 1 .. 11, NEW what, Answers(what), invocation' = invocation
  PROVE  /\ section' = section + 1
         /\ report'.section = SECTIONS[section] /\ report'.in = invocation /\ report'.answer = what
         /\ \A kind : kind # SECTIONS[section][1] => ~ReportOn(kind)'
         /\ "importable" \in DOMAIN what => \A kind : ~ReportOn(kind)'
         /\ ReportIsLast'
<1>1. section' = section + 1 /\ report' = [section |-> SECTIONS[section], in |-> invocation, answer |-> what]
  BY DEF Answers
<1>2. report'.section = SECTIONS[section] /\ report'.in = invocation /\ report'.answer = what
  BY <1>1
<1>3. section' - 1 = section /\ section' > 1
  BY <1>1
<1> HIDE DEF SECTIONS
<1> QED BY <1>1, <1>2, <1>3 DEF ReportOn, ReportIsLast

(* What was true of a report stays true while the section goes on.         *)
LEMMA ReportsStayTrue ==
  ASSUME StoreInv, ReportIsLast, AppendReportIsTrue, CrashReportIsTrue, QueryReportIsTrue,
         UNCHANGED <<report, section, invocation, args>>, faults' >= faults, faults' \in Nat,
         variant' = Nobody => UNCHANGED <<variant, exitcode, rows>>,
         \A e \in ENGINES : store'[e] = store[e] \/ section = CrashSection(e)
  PROVE  ReportIsLast' /\ AppendReportIsTrue' /\ CrashReportIsTrue' /\ QueryReportIsTrue'
<1>1. \A kind : ReportOn(kind)' <=> ReportOn(kind)
  BY DEF ReportOn
<1>2. faults > 0 => faults' > 0
  BY DEF StoreInv, RunOK
<1>3. AppendReportIsTrue'
  <2>1. SUFFICES ASSUME ReportOn("append")', variant' = Nobody
        PROVE  (IF report.answer.failed
                THEN \E w \in Writers : exitcode[w] = 1
                ELSE /\ rows = Writers \X (0 .. Records - 1)
                     /\ report.answer.records = Cardinality(rows))'
    BY DEF AppendReportIsTrue
  <2> QED BY <1>1, <2>1 DEF AppendReportIsTrue
<1>4. QueryReportIsTrue'
  BY <1>1, <1>2 DEF QueryReportIsTrue
<1>5. ASSUME ReportOn("crash") PROVE report.section[2] \in ENGINES /\ section # CrashSection(report.section[2])
  <2>1. section \in 1 .. 12
    BY DEF StoreInv, StoreOK
  <2>2. report.section = SECTIONS[section - 1] /\ section - 1 \in 1 .. 11 /\ SECTIONS[section - 1][1] = "crash"
    BY <1>5, <2>1, SectionsAre DEF ReportOn, ReportIsLast
  <2>3. section - 1 \in {7, 8}
    BY <2>1, <2>2, SectionsAre
  <2> QED BY <2>1, <2>2, <2>3, SectionsAre DEF ENGINES, CrashSection
<1>6. CrashReportIsTrue'
  <2>1. SUFFICES ASSUME ReportOn("crash"), report.answer.signalled PROVE CrashReportIsTrue'
    BY <1>1 DEF CrashReportIsTrue
  <2>2. store'[report.section[2]] = store[report.section[2]]
    BY <1>5, <2>1
  <2> QED BY <1>1, <1>2, <2>1, <2>2 DEF CrashReportIsTrue, DirectoryIsKept
<1> QED BY <1>3, <1>4, <1>6 DEF ReportIsLast

(* Where nothing was measured there is nothing to be true of.              *)
LEMMA NothingReported ==
  ASSUME \A kind : ~ReportOn(kind)'
  PROVE  AppendReportIsTrue' /\ CrashReportIsTrue' /\ QueryReportIsTrue'
BY DEF AppendReportIsTrue, CrashReportIsTrue, QueryReportIsTrue

(* Every section of the store measurement reports what happened.           *)
LEMMA StoreReportsAreTrue ==
  ASSUME StoreInv, ReportIsLast, AppendReportIsTrue, CrashReportIsTrue, QueryReportIsTrue, StoreNext
  PROVE  ReportIsLast' /\ AppendReportIsTrue' /\ CrashReportIsTrue' /\ QueryReportIsTrue'
<1>s. section \in 1 .. 12 /\ StoreOK /\ RunOK /\ AppendOK /\ CrashOK
  BY DEF StoreInv, StoreOK
<1>f. faults' \in Nat /\ faults \in Nat /\ faults' >= faults /\ args' = args
  BY StoreStepIs, RunAssumption DEF StoreInv, RunOK
<1>1. CASE Skips
  <2>1. section \in 1 .. 11 /\ Answers([importable |-> FALSE]) /\ invocation' = invocation
    BY <1>1, SectionsAre DEF Skips
  <2>2. "importable" \in DOMAIN [importable |-> FALSE]
    OBVIOUS
  <2> QED BY <2>1, <2>2, AnswerIs, NothingReported
<1>2. CASE Appending
  <2>1. section \in 1 .. 4 /\ UNCHANGED <<args, invocation, crashVars>>
    BY <1>2, <1>s, AtIs DEF Appending
  <2>2. UNCHANGED store
    BY <2>1 DEF crashVars
  <2>3. CASE StartVariant(Subject) /\ UNCHANGED <<section, report>>
    <3>1. Subject \in SQLITE_VARIANTS \union LMDB_VARIANTS
      BY <1>s, <2>1, AtIs
    <3>2. variant' # Nobody
      BY <2>3, <3>1, AppendAssumption DEF StartVariant, SQLITE_VARIANTS, LMDB_VARIANTS
    <3> QED BY <1>f, <2>1, <2>2, <2>3, <3>2, ReportsStayTrue
  <2>4. CASE AppendStep /\ UNCHANGED <<section, report>>
    <3>1. variant # Nobody
      <4>1. SUFFICES ASSUME variant = Nobody PROVE FALSE
        OBVIOUS
      <4>2. \A w \in Writers : stage[w] \in {"unstarted", "exited"}
        BY <1>s, <4>1 DEF AppendOK
      <4> QED BY <2>4, <4>1, <4>2, WritersAre
              DEF AppendStep, WriterStep, StartWriter, Connects, TakesTheLock, FindsItLocked, Commits,
                  WritesItsResult, WriterFails, BarrierOpens
    <3>2. variant' = variant
      BY <2>4 DEF AppendStep, WriterStep, StartWriter, Connects, TakesTheLock, FindsItLocked,
                  Raises, Commits, WritesItsResult, WriterFails, BarrierOpens
    <3> QED BY <1>f, <2>1, <2>2, <2>4, <3>1, <3>2, ReportsStayTrue
  <2>5. CASE AllJoined /\ Answers(AppendReport) /\ UNCHANGED <<exitcode, rows>>
    <3>1. /\ report'.answer = AppendReport /\ ReportIsLast'
          /\ ~ReportOn("crash")' /\ ~ReportOn("query")'
      <4>1. SECTIONS[section][1] = "append"
        BY <2>1, SectionsAre
      <4>2. section \in 1 .. 11
        BY <2>1
      <4> HIDE DEF SECTIONS
      <4> QED BY <2>1, <2>5, <4>1, <4>2, AnswerIs
    <3>2. CASE (\E w \in Writers : exitcode[w] = 1) /\ AppendReport = [failed |-> TRUE, records |-> 0]
      <4>1. report'.answer.failed = TRUE /\ \E w \in Writers : exitcode'[w] = 1
        BY <2>5, <3>1, <3>2
      <4>2. report'.answer.failed
        BY <4>1, Zenon
      <4>3. AppendReportIsTrue'
        BY <4>1, <4>2 DEF AppendReportIsTrue
      <4> QED BY <3>1, <4>3 DEF CrashReportIsTrue, QueryReportIsTrue
    <3>3. CASE /\ rows = Writers \X (0 .. Records - 1)
               /\ AppendReport = [failed |-> FALSE, records |-> Cardinality(rows)]
      <4>1. report'.answer.failed = FALSE /\ report'.answer.records = Cardinality(rows')
            /\ rows' = Writers \X (0 .. Records - 1)
        BY <2>5, <3>1, <3>3
      <4>2. ~report'.answer.failed
        BY <4>1, Zenon
      <4>3. AppendReportIsTrue'
        BY <4>1, <4>2 DEF AppendReportIsTrue
      <4> QED BY <3>1, <4>3 DEF CrashReportIsTrue, QueryReportIsTrue
    <3> QED BY <1>s, <2>5, <3>2, <3>3, AppendReportTold
  <2> QED BY <1>2, <2>3, <2>4, <2>5 DEF Appending
<1>3. CASE Crashing
  <2>1. section \in {7, 8} /\ section = CrashSection(Subject) /\ Subject \in ENGINES
        /\ SECTIONS[section] = <<"crash", Subject>> /\ UNCHANGED <<args, invocation, appendVars>>
    <3>1. section \in {7, 8} /\ UNCHANGED <<args, invocation, appendVars>>
      BY <1>3, <1>s, AtIs DEF Crashing
    <3> QED BY <3>1, SectionsAre DEF Subject, CrashSection, ENGINES
  <2>2. UNCHANGED <<variant, exitcode, rows>>
    BY <2>1 DEF appendVars
  <2>3. CASE CrashStarts(Subject) /\ UNCHANGED <<section, report>>
    <3>1. UNCHANGED store
      BY <2>3 DEF CrashStarts
    <3> QED BY <1>f, <2>1, <2>2, <2>3, <3>1, ReportsStayTrue
  <2>4. CASE CrashStep /\ UNCHANGED <<section, report>>
    <3>1. ASSUME NEW e \in ENGINES PROVE store'[e] = store[e] \/ section = CrashSection(e)
      <4>1. CASE CommitsBaseline
        <5>1. store' = [store EXCEPT ![crashing] = store[crashing] \union (BaselineSeqs \X {invocation})]
              /\ crasher = "starting"
          BY <4>1 DEF CommitsBaseline
        <5>2. crashing # "none" => section = CrashSection(crashing)
          BY <1>s DEF CrashOK
        <5>3. crashing # "none" /\ DOMAIN store = ENGINES
          BY <1>s, <5>1 DEF CrashOK
        <5> QED BY <5>1, <5>2, <5>3
      <4>2. CASE ~CommitsBaseline
        BY <2>4, <4>2
        DEF CrashStep, CrasherStep, NotesBaseline, Signals, HoldElapses,
            CrasherFails, GivesUpWaiting, KillsAndReopens, Reopens, ReopenerFails
      <4> QED BY <4>1, <4>2
    <3> QED BY <1>f, <2>1, <2>2, <2>4, <3>1, ReportsStayTrue
  <2>5. CASE CrashMeasured /\ crashing # "none" /\ Answers(CrashReport) /\ UNCHANGED <<store, faults>>
    <3>1. /\ report'.answer = CrashReport /\ ReportIsLast' /\ report'.section = <<"crash", Subject>>
          /\ report'.in = invocation /\ ~ReportOn("append")' /\ ~ReportOn("query")'
      <4>1. SECTIONS[section][1] = "crash" /\ section \in 1 .. 11
        BY <2>1
      <4> HIDE DEF SECTIONS
      <4> QED BY <2>1, <2>5, <4>1, AnswerIs
    <3>2. crashing = Subject
      BY <1>s, <2>1, <2>5 DEF CrashOK, ENGINES, CrashSection
    <3>3. CASE reopener = "not_tried"
      <4>1. report'.answer.signalled = FALSE
        BY <3>1, <3>3 DEF CrashReport
      <4>2. ~report'.answer.signalled
        BY <4>1, Zenon
      <4> QED BY <3>1, <4>2 DEF AppendReportIsTrue, CrashReportIsTrue, QueryReportIsTrue
    <3>4. CASE reopener # "not_tried"
      <4> DEFINE result == IF reopenFile[crashing] = NoFile THEN NotOpened ELSE reopenFile[crashing]
                 earlier == \E row \in store[Subject] : row[2] < invocation
      <4>1. /\ CrashReport = [signalled |-> TRUE, exitcode |-> crashExit, result |-> result]
            /\ crashExit \in {-9, 0}
            /\ result.of # invocation => DirectoryIsKept /\ faults > 0 /\ invocation > 1
            /\ result.of = invocation /\ result.opened => ResultIsTrue(crashing, result)
            /\ ~result.opened => faults > 0
        BY <1>s, <2>5, <3>4, CrashReportTold
      <4> HIDE DEF result
      <4>2. report'.answer.exitcode = crashExit /\ report'.answer.result = result
        BY <3>1, <4>1
      <4>3. report'.section[2] = Subject
        BY <3>1
      <4>4. store'[Subject] = store[Subject] /\ faults' = faults /\ DirectoryIsKept' = DirectoryIsKept
        BY <2>1, <2>5 DEF DirectoryIsKept
      <4>5. result.of = invocation /\ result.opened =>
               /\ result.present = BaselineRecords /\ result.uncommitted = 0
               /\ result.torn = IF Subject = "sqlite" /\ earlier THEN BaselineSeqs ELSE {}
               /\ (Subject = "lmdb" \/ ~earlier) => result.total = BaselineRecords
        BY <3>2, <4>1 DEF ResultIsTrue
      <4>6. CrashReportIsTrue'
        BY <3>1, <4>1, <4>2, <4>3, <4>4, <4>5 DEF CrashReportIsTrue
      <4> QED BY <3>1, <4>6 DEF AppendReportIsTrue, QueryReportIsTrue
    <3> QED BY <3>3, <3>4
  <2> QED BY <1>3, <2>3, <2>4, <2>5 DEF Crashing
<1>4. CASE ReadingCold
  <2>1. section \in {5, 6} /\ UNCHANGED <<args, invocation, appendVars, crashVars>>
    BY <1>4, <1>s, AtIs DEF ReadingCold
  <2>2. UNCHANGED <<variant, exitcode, rows, store>>
    BY <2>1 DEF appendVars, crashVars
  <2>3. CASE UNCHANGED <<section, report>>
    BY <1>f, <2>1, <2>2, <2>3, ReportsStayTrue
  <2>4. CASE PopulateFails
    <3>1. (1 + CHOOSE s \in DOMAIN SECTIONS : SECTIONS[s] = <<"cold", "lmdb">>) = 7
      BY DEF SECTIONS
    <3>2. section' = 7
          /\ report' = [section |-> SECTIONS[section], in |-> invocation, answer |-> [failed |-> TRUE]]
      BY <2>4, <3>1 DEF PopulateFails
    <3>3. report'.section = SECTIONS[section] /\ report'.in = invocation
      BY <3>2
    <3>4. ReportIsLast'
      BY <2>1, <3>2, <3>3 DEF ReportIsLast
    <3>5. report'.section[1] = "cold"
      BY <2>1, <3>3, SectionsAre
    <3> QED BY <3>4, <3>5 DEF ReportOn, AppendReportIsTrue, CrashReportIsTrue, QueryReportIsTrue
  <2>5. CASE AnswersCold
    <3>1. SECTIONS[section][1] = "cold" /\ section \in 1 .. 11
      BY <2>1, SectionsAre
    <3>2. Answers(cold)
      BY <2>5 DEF AnswersCold
    <3> HIDE DEF SECTIONS
    <3> QED BY <2>1, <3>1, <3>2, AnswerIs DEF AppendReportIsTrue, CrashReportIsTrue, QueryReportIsTrue
  <2> QED BY <1>4, <2>3, <2>4, <2>5 DEF ReadingCold, Populates, ReadsCold
<1>5. CASE Queries
  <2> DEFINE what == [rows |-> Cardinality(RangeOf(Subject)), lookup |-> PointLookup(Subject)]
  <2>1. section \in {9, 10} /\ CanMeasure /\ Answers(what) /\ UNCHANGED <<args, invocation, faults>>
    BY <1>5, <1>s, AtIs DEF Queries
  <2>2. /\ section = 9 => Subject = "sqlite"
        /\ section = 10 => Subject = "lmdb" /\ args.lmdb
        /\ SECTIONS[section] = <<"query", Subject>>
    BY <1>s, <2>1, AtIs, SectionsAre DEF Subject
  <2>3. what.rows = Cardinality(RangeOf(Subject)) /\ what.lookup = PointLookup(Subject)
    OBVIOUS
  <2> HIDE DEF what
  <2>4. /\ report'.answer = what /\ ReportIsLast' /\ report'.section = <<"query", Subject>>
        /\ ~ReportOn("append")' /\ ~ReportOn("crash")'
    <3>1. SECTIONS[section][1] = "query" /\ section \in 1 .. 11
      BY <2>1, <2>2
    <3> HIDE DEF SECTIONS
    <3> QED BY <2>1, <2>2, <3>1, AnswerIs
  <2>5. PointLookup(Subject) # "found" => faults > 0
    BY <1>s, <2>1, <2>2 DEF StoreOK, PointLookup, ENGINES
  <2>6. Subject = "sqlite" \/ args.wide =>
            what.rows = Cardinality({i \in 0 .. QueryRecords - 1 : i % QueryParts = 0 /\ i <= QueryWindow})
    <3>1. invocation \in Nat \ {0}
      BY <1>s DEF RunOK
    <3> QED BY <2>3, <3>1, QueryReportTold
  <2>7. report'.section[2] = Subject
    BY <2>4
  <2>8. QueryReportIsTrue'
    BY <2>1, <2>3, <2>4, <2>5, <2>6, <2>7 DEF QueryReportIsTrue
  <2> QED BY <2>4, <2>8 DEF AppendReportIsTrue, CrashReportIsTrue
<1>6. CASE MeasuresSizes
  <2>1. section = 11 /\ Answers([stores |-> made]) /\ UNCHANGED invocation
    BY <1>6, <1>s, AtIs DEF MeasuresSizes
  <2>2. SECTIONS[section][1] = "sizes" /\ section \in 1 .. 11
    BY <2>1, SectionsAre
  <2> HIDE DEF SECTIONS
  <2> QED BY <2>1, <2>2, AnswerIs DEF AppendReportIsTrue, CrashReportIsTrue, QueryReportIsTrue
<1>7. CASE RunsAgain
  <2>1. report' = NoFile
    BY <1>7 DEF RunsAgain
  <2> QED BY <2>1, NothingReported DEF ReportOn, ReportIsLast
<1> QED BY <1>1, <1>2, <1>3, <1>4, <1>5, <1>6, <1>7 DEF StoreNext

-----------------------------------------------------------------------------

(* The inductive invariant: what each of the three programs keeps, and     *)
(* that its reports are true.                                              *)
MeasurementsInv ==
    /\ StoreInv /\ ReportIsLast
    /\ AppendReportIsTrue /\ CrashReportIsTrue /\ QueryReportIsTrue
    /\ NumericOK /\ NumericReportIsTrue /\ PartOK

(* It holds of every program before its first section.                     *)
LEMMA StartsRight == Init => MeasurementsInv
<1> SUFFICES ASSUME Init PROVE MeasurementsInv
  OBVIOUS
<1>1. RunOK
  BY RunAssumption DEF Init, RunOK
<1>2. AppendOK
  <2>1. AppendInit
    BY DEF Init, StoreInit
  <2>2. \A w \in Writers : stage[w] = "unstarted" /\ appended[w] = 0 /\ attempts[w] = 0
                           /\ exitcode[w] = Nobody /\ results[w] = 0
    BY <2>1 DEF AppendInit
  <2>3. Nobody # 0 /\ Records \in Nat \ {0} /\ MaxRetries \in Nat
    BY AppendAssumption, WritersAre
  <2>4. rows = {r \in Writers \X (0 .. Records - 1) : r[2] < appended[r[1]]}
    BY <2>1, <2>3 DEF AppendInit
  <2>5. /\ stage \in [Writers -> {"unstarted", "connecting", "at_barrier", "appending", "holding", "exited"}]
        /\ appended \in [Writers -> 0 .. Records] /\ attempts \in [Writers -> 0 .. MaxRetries + 1]
        /\ exitcode \in [Writers -> {0, 1, Nobody}] /\ results \in [Writers -> {0, Records}]
        /\ variant = Nobody /\ holder = Nobody
    BY <2>1, <2>3 DEF AppendInit
  <2> QED BY <2>2, <2>3, <2>4, <2>5 DEF AppendOK
<1>3. CrashOK
  <2>1. CrashInit /\ invocation = 1
    BY DEF Init, StoreInit
  <2>2. ~event /\ event \in BOOLEAN
    BY <2>1, Zenon DEF CrashInit
  <2>3. \A e \in ENGINES : store[e] = {} /\ reopenFile[e] = NoFile
    BY <2>1 DEF CrashInit
  <2>4. /\ crashing = "none" /\ crasher = "none" /\ reopener = "none" /\ crashExit = 0
        /\ store \in [ENGINES -> SUBSET (BaselineSeqs \X (1 .. invocation))]
        /\ baselineFile \in [ENGINES -> 0 .. invocation] /\ DOMAIN reopenFile = ENGINES
    BY <2>1 DEF CrashInit
  <2> QED BY <2>2, <2>3, <2>4 DEF CrashOK
<1>4. StoreOK
  BY DEF Init, StoreInit, StoreOK, AppendInit
<1>5. ReportIsLast /\ AppendReportIsTrue /\ CrashReportIsTrue /\ QueryReportIsTrue
  BY DEF Init, StoreInit, ReportIsLast, AppendReportIsTrue, CrashReportIsTrue, QueryReportIsTrue, ReportOn
<1>6. NumericOK
  <2>1. NumericInit
    BY DEF Init
  <2>2. ~ready /\ ready \in BOOLEAN
    BY <2>1, Zenon DEF NumericInit
  <2>3. /\ numericSection = 1 /\ child = "none" /\ data = 0 /\ cycle = 0
        /\ driver = "none" /\ segments = {} /\ seen = <<>>
    BY <2>1 DEF NumericInit
  <2>4. seen \in Seq(BOOLEAN) /\ Len(seen) = 0
    BY <2>3
  <2> QED BY <2>2, <2>3, <2>4, NumericAssumption DEF NumericOK
<1>7. NumericReportIsTrue
  BY DEF Init, NumericInit, NumericReportIsTrue
<1>8. PartOK
  <2>1. PartMeasurementInit
    BY DEF Init
  <2>2. outcomes \in Seq([heard : BOOLEAN, exited : BOOLEAN]) /\ Len(outcomes) = 0
    BY <2>1 DEF PartMeasurementInit
  <2>3. partReport.section = "none"
    BY <2>1 DEF PartMeasurementInit
  <2> QED BY <2>1, <2>2, <2>3, PartsAre DEF PartMeasurementInit, PartOK, PartReportIsTrue
<1> QED BY <1>1, <1>2, <1>3, <1>4, <1>5, <1>6, <1>7, <1>8 DEF MeasurementsInv, StoreInv

(* The other programs' steps leave the store measurement as it is.         *)
LEMMA StoreLeftAlone ==
  ASSUME MeasurementsInv, UNCHANGED <<program, invocation, appendVars, crashVars, storeVars>>,
         faults' >= faults, faults' \in 0 .. MaxFaults
  PROVE  /\ StoreInv' /\ ReportIsLast'
         /\ AppendReportIsTrue' /\ CrashReportIsTrue' /\ QueryReportIsTrue'
<1>1. RunOK /\ AppendOK /\ CrashOK /\ StoreOK /\ section \in 1 .. 12 /\ faults' \in Nat
  BY RunAssumption DEF MeasurementsInv, StoreInv, StoreOK
<1>2. UNCHANGED <<args, section, settings, cold, made, report, variant, exitcode, rows, store>>
  BY DEF storeVars, appendVars, crashVars
<1>3. RunOK'
  BY <1>1 DEF RunOK
<1>4. AppendOK'
  BY <1>1, AppendLeftAlone
<1>5. CrashOK'
  BY <1>1, <1>2, CrashLeftAlone
<1>6. StoreOK'
  BY <1>1, <1>2 DEF StoreOK, RunOK
<1>7. ReportIsLast' /\ AppendReportIsTrue' /\ CrashReportIsTrue' /\ QueryReportIsTrue'
  BY <1>1, <1>2, ReportsStayTrue DEF MeasurementsInv
<1> QED BY <1>3, <1>4, <1>5, <1>6, <1>7 DEF StoreInv

(* The other programs' steps leave the numeric-state measurement as it is. *)
LEMMA NumericLeftAlone ==
  ASSUME MeasurementsInv, UNCHANGED numericVars
  PROVE  NumericOK' /\ NumericReportIsTrue'
<1>1. NumericOK /\ NumericReportIsTrue
  BY DEF MeasurementsInv
<1>2. UNCHANGED <<numericSection, child, data, ready, cycle, driver, segments, seen, numericReport>>
  BY DEF numericVars
<1>3. NumericOK'
  BY <1>1, <1>2 DEF NumericOK
<1>4. NumericReportIsTrue'
  BY <1>1, <1>2 DEF NumericReportIsTrue
<1> QED BY <1>3, <1>4

(* The other programs' steps leave the interpreter measurement as it is.   *)
LEMMA PartLeftAlone ==
  ASSUME MeasurementsInv, UNCHANGED partVars
  PROVE  PartOK'
BY DEF MeasurementsInv, partVars, PartOK, PartReportIsTrue, PartsOf, Now

(* Every step of the program that runs keeps it.                           *)
LEMMA MeasurementsStayRight ==
  ASSUME MeasurementsInv, [Next]_vars
  PROVE  MeasurementsInv'
<1>1. RunOK /\ MaxFaults \in Nat /\ faults \in 0 .. MaxFaults
  BY RunAssumption DEF MeasurementsInv, StoreInv, RunOK
<1>2. CASE UNCHANGED vars
  <2>1. UNCHANGED <<program, invocation, faults, appendVars, crashVars, storeVars, numericVars, partVars>>
    BY <1>2 DEF vars
  <2>2. faults' >= faults /\ faults' \in 0 .. MaxFaults
    BY <1>1, <2>1
  <2> QED BY <2>1, <2>2, StoreLeftAlone, NumericLeftAlone, PartLeftAlone DEF MeasurementsInv
<1>3. CASE program' = program /\ StoreNext /\ UNCHANGED <<numericVars, partVars>>
  <2>1. StoreInv'
    BY <1>1, <1>3, StoreKeepsRun, StoreKeepsAppend, StoreKeepsCrash, StoreKeepsStore
    DEF MeasurementsInv, StoreInv, RunOK
  <2> QED BY <1>3, <2>1, StoreReportsAreTrue, NumericLeftAlone, PartLeftAlone DEF MeasurementsInv
<1>4. CASE program' = program /\ NumericNext /\ UNCHANGED <<appendVars, crashVars, storeVars, partVars>>
  <2>1. faults' = faults \/ Fails
    BY <1>4 DEF NumericNext, ChildStep, NumericHarnessStep, ChildOpens, ChildWrites, ChildSignals,
                ChildLeaves, StartsChild, KillsAndReads, KillsAndCounts, KillsAndAttaches, StartsDriver,
                DriverKills, DriverTimesOut, Looks, MeasuresInPlace, Sweeps, TrackerUnlinks
  <2>2. faults' >= faults /\ faults' \in 0 .. MaxFaults
    BY <1>1, <2>1, FaultsCount
  <2>3. NumericOK' /\ NumericReportIsTrue'
    BY <1>4, NumericGoesOn, NumericReportsStayTrue DEF MeasurementsInv
  <2>4. UNCHANGED invocation
    BY <1>4 DEF NumericNext
  <2> QED BY <1>4, <2>2, <2>3, <2>4, StoreLeftAlone, PartLeftAlone DEF MeasurementsInv
<1>5. CASE program' = program /\ PartMeasurementNext /\ UNCHANGED <<appendVars, crashVars, storeVars, numericVars>>
  <2>1. faults' = faults \/ Fails
    BY <1>5 DEF PartMeasurementNext, PartParentStep, PartSteps, Speaks, Exits, Hangs, LateExit, StartsPart,
                GetsReport, JoinsPart, RunsGlue, StartsIdleParts, StopsThem, Terminates
  <2>2. faults' >= faults /\ faults' \in 0 .. MaxFaults
    BY <1>1, <2>1, FaultsCount
  <2>3. PartOK'
    BY <1>5, PartGoesOn, GlueIsWhole DEF MeasurementsInv
  <2>4. UNCHANGED invocation
    BY <1>5 DEF PartMeasurementNext
  <2> QED BY <1>5, <2>2, <2>3, <2>4, StoreLeftAlone, NumericLeftAlone DEF MeasurementsInv
<1> QED BY <1>2, <1>3, <1>4, <1>5 DEF Next

(* So it holds throughout.                                                 *)
LEMMA MeasurementsAlwaysRight == Spec => []MeasurementsInv
BY StartsRight, MeasurementsStayRight, PTL DEF Spec

(* The variables of the three programs keep to their types, for any number *)
(* of records, writers, parts, elements, retries, invocations and          *)
(* failures.                                                               *)
THEOREM MeasurementsTypeCorrect == Spec => []MeasurementsTypeOK
<1>1. MeasurementsInv => MeasurementsTypeOK
  <2> SUFFICES ASSUME MeasurementsInv PROVE MeasurementsTypeOK
    OBVIOUS
  <2>1. RunOK /\ AppendOK /\ CrashOK /\ StoreOK /\ NumericOK /\ PartOK
    BY DEF MeasurementsInv, StoreInv
  <2>2. store \in [ENGINES -> SUBSET ((BaselineSeqs \union HeldSeqs) \X (1 .. MaxInvocations))]
        /\ baselineFile \in [ENGINES -> 0 .. MaxInvocations]
    <3>1. 1 .. invocation \subseteq 1 .. MaxInvocations /\ 0 .. invocation \subseteq 0 .. MaxInvocations
      BY <2>1, RunAssumption DEF RunOK
    <3>2. BaselineSeqs \X (1 .. invocation) \subseteq (BaselineSeqs \union HeldSeqs) \X (1 .. MaxInvocations)
      BY <3>1
    <3> QED BY <2>1, <3>1, <3>2 DEF CrashOK
  <2>3. rows \subseteq Writers \X (0 .. Records - 1)
    BY <2>1 DEF AppendOK
  <2>4. Len(SECTIONS) + 1 = 12 /\ Len(NUMERIC_SECTIONS) = 8 /\ Len(PART_SECTIONS) + 1 = 5
    BY SectionsAre DEF NUMERIC_SECTIONS, PART_SECTIONS
  <2>5. cycle \in 0 .. Cycles
    BY <2>1, NumericAssumption DEF NumericOK
  <2>6. /\ section \in 1 .. Len(SECTIONS) + 1 /\ numericSection \in 1 .. Len(NUMERIC_SECTIONS) + 2
        /\ segments \subseteq {NUMERIC_SECTIONS[s] : s \in 1 .. Len(NUMERIC_SECTIONS)}
        /\ partSection \in 1 .. Len(PART_SECTIONS) + 1
    BY <2>1, <2>4 DEF StoreOK, NumericOK, PartOK
  <2> QED BY <2>1, <2>2, <2>3, <2>5, <2>6
          DEF MeasurementsTypeOK, RunOK, AppendOK, CrashOK, StoreOK, NumericOK, PartOK
<1> QED BY <1>1, MeasurementsAlwaysRight, PTL

(* What a measurement program prints is what happened: the throughput is   *)
(* that of rows all of which are in the store, a store reopened after a    *)
(* SIGKILL has every committed row and no other, the range query returns   *)
(* the part's records in the window, the numeric state is there after the  *)
(* kill, and every part started is accounted for.  The exceptions: in a    *)
(* directory kept from an earlier run SQLite's intact store is called torn *)
(* and that run's result file answers for a reopening process that died; a *)
(* child whose driver was killed may leave its segment; a key's width too  *)
(* narrow for the part's id lets other parts' rows into LMDB's range query;*)
(* a part reported not to have exited may still be there.                  *)
THEOREM MeasurementsReportTruly == Spec => []ReportSaysWhatHappened
<1>1. MeasurementsInv => ReportSaysWhatHappened
  <2> SUFFICES ASSUME MeasurementsInv PROVE ReportSaysWhatHappened
    OBVIOUS
  <2>1. OnlyAnOrphanLeavesASegment
    <3>1. Swept => numericSection = 10
      BY DEF Swept, NUMERIC_SECTIONS
    <3> QED BY <3>1 DEF OnlyAnOrphanLeavesASegment, MeasurementsInv, NumericOK
  <2> QED BY <2>1 DEF MeasurementsInv, PartOK, ReportSaysWhatHappened
<1> QED BY <1>1, MeasurementsAlwaysRight, PTL
=============================================================================
