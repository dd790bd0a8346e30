--------------------------- MODULE StoreMeasurement ---------------------------
(***************************************************************************)
(* measure_store.py: the sections of main() one after the other over one   *)
(* directory, each answering for itself.  The directory is removed at the  *)
(* end unless --keep-dir says so, and a later invocation finds what an     *)
(* earlier one left only when --dir names the directory to both.           *)
(*                                                                         *)
(* report is what the section just finished returned; the program prints   *)
(* all of them at the end.                                                 *)
(***************************************************************************)
EXTENDS AppendMeasurement, CrashRecoveryMeasurement, Sequences

CONSTANTS Arguments,      \* the command lines: records of own, keep, lmdb, wide
          SettingsReps,   \* --settings-reps
          QueryRecords, QueryParts, QueryWindow  \* --query-records, --query-parts, window_ns

ASSUME StoreAssumption ==
    /\ Arguments \subseteq [own : BOOLEAN, keep : BOOLEAN, lmdb : BOOLEAN, wide : BOOLEAN]
    /\ SettingsReps \in Nat /\ QueryWindow \in Nat \ {0}
    /\ QueryRecords \in Nat \ {0} /\ QueryParts \in Nat \ {0}

VARIABLES
    args,      \* own: --dir was given; keep: --keep-dir; lmdb: it can be imported;
               \* wide: --part-id-width holds every part's id
    section,   \* the measurement main() is at, an index of SECTIONS
    settings,  \* settings[engine]: its settings store: "absent", "empty" or "populated"
    cold,      \* the repetitions of the cold read measured and failed, or NoFile
    made,      \* the stores in the directory
    report

storeVars == <<args, section, settings, cold, made, report>>

\* The measurements in main()'s order, with the engine of each.
SECTIONS ==
    << <<"append", "synchronous_full">>, <<"append", "synchronous_normal">>,
       <<"append", "default">>, <<"append", "writemap">>,
       <<"cold", "sqlite">>, <<"cold", "lmdb">>,
       <<"crash", "sqlite">>, <<"crash", "lmdb">>,
       <<"query", "sqlite">>, <<"query", "lmdb">>, <<"sizes", "both">> >>

AtSection(kind) == section \in 1 .. Len(SECTIONS) /\ SECTIONS[section][1] = kind
Subject == SECTIONS[section][2]
NeedsLmdb == Subject \in LMDB_VARIANTS \union {"lmdb"}
\* Without lmdb its measurements answer that it is not importable.
CanMeasure == NeedsLmdb => args.lmdb

\* The directory is the one of the earlier invocations, and has their files.
DirectoryIsKept == args.own /\ args.keep
\* The invocations whose records are in the directory's stores.
InTheDirectory == IF DirectoryIsKept THEN 1 .. invocation ELSE {invocation}

StoreInit ==
    /\ args \in Arguments
    /\ section = 1 /\ cold = NoFile /\ made = {} /\ report = NoFile
    /\ settings = [e \in ENGINES |-> "absent"]
    /\ AppendInit /\ CrashInit

\* _safe_call: the section has answered, with what it measured or with an error.
Answers(what) ==
    /\ section' = section + 1
    /\ report' = [section |-> SECTIONS[section], in |-> invocation, answer |-> what]

Skips ==
    /\ section \in 1 .. Len(SECTIONS) /\ ~CanMeasure
    /\ Answers([importable |-> FALSE])
    /\ UNCHANGED <<args, settings, cold, made, invocation, faults, appendVars, crashVars>>

-----------------------------------------------------------------------------

Appending ==
    /\ AtSection("append") /\ CanMeasure
    /\ \/ /\ StartVariant(Subject)
          /\ made' = made \union {Subject} /\ UNCHANGED <<section, report>>
       \/ /\ AppendStep /\ UNCHANGED <<section, report, made>>
       \/ /\ AllJoined /\ Answers(AppendReport)
          /\ variant' = Nobody
          /\ UNCHANGED <<made, stage, appended, attempts, holder, exitcode, results, rows, faults>>
    /\ UNCHANGED <<args, settings, cold, invocation, crashVars>>

Crashing ==
    /\ AtSection("crash") /\ CanMeasure
    /\ \/ /\ CrashStarts(Subject)
          /\ made' = made \union {"crash"} /\ UNCHANGED <<section, report>>
       \/ /\ CrashStep /\ UNCHANGED <<section, report, made>>
       \/ /\ CrashMeasured /\ crashing # "none" /\ Answers(CrashReport)
          /\ crashing' = "none" /\ reopener' = "none" /\ event' = FALSE
          /\ UNCHANGED <<made, crasher, crashExit, store, baselineFile, reopenFile, faults>>
    /\ UNCHANGED <<args, settings, cold, invocation, appendVars>>

-----------------------------------------------------------------------------

\* *_settings_populate, outside the section's _safe_call.
Populates ==
    /\ cold = NoFile /\ cold' = [measured |-> 0, errors |-> 0]
    /\ settings' = [settings EXCEPT ![Subject] = "populated"]
    /\ made' = made \union {"settings"}
    /\ UNCHANGED <<section, report, faults>>

\* It raises once the store is there, before or after its table: the whole
\* section, the other engine's part with it, is an error.
PopulateFails ==
    /\ cold = NoFile /\ Fails
    /\ settings' = [settings EXCEPT ![Subject] = IF @ = "absent" THEN "empty" ELSE @]
    /\ made' = made \union {"settings"}
    /\ section' = 1 + CHOOSE s \in DOMAIN SECTIONS : SECTIONS[s] = <<"cold", "lmdb">>
    /\ report' = [section |-> SECTIONS[section], in |-> invocation, answer |-> [failed |-> TRUE]]
    /\ UNCHANGED cold

\* One repetition: a process opens the store, reads the keys and writes its
\* result, or exits with something else and is counted as an error.
ReadsCold ==
    /\ cold # NoFile /\ cold.measured + cold.errors < SettingsReps
    /\ \/ cold' = [cold EXCEPT !.measured = @ + 1] /\ UNCHANGED faults
       \/ cold' = [cold EXCEPT !.errors = @ + 1] /\ Fails
    /\ UNCHANGED <<settings, made, section, report>>

AnswersCold ==
    /\ cold # NoFile /\ cold.measured + cold.errors = SettingsReps
    /\ Answers(cold) /\ cold' = NoFile
    /\ UNCHANGED <<settings, made, faults>>

ReadingCold ==
    /\ AtSection("cold") /\ CanMeasure
    /\ Populates \/ PopulateFails \/ ReadsCold \/ AnswersCold
    /\ UNCHANGED <<args, invocation, appendVars, crashVars>>

-----------------------------------------------------------------------------

\* populate_query_store_*: record i goes to part i % parts, a nanosecond after
\* the one before; a later invocation's records are later than all of them.
Base(k) == (k - 1) * QueryRecords
QueryRows == {[part |-> i % QueryParts, ts |-> Base(k) + i] :
                 i \in 0 .. QueryRecords - 1, k \in InTheDirectory}

\* The part as the LMDB key has it, cut to the key's width.
PartInKey(part) == IF args.wide THEN part ELSE 0

SqliteRange(part, t0, t1) ==
    {row \in QueryRows : row.part = part /\ row.ts \in t0 .. t1}
\* From the first key at or after the start key, while the key is not past the
\* end key and begins with the part.
LmdbRange(part, t0, t1) ==
    {row \in QueryRows : PartInKey(row.part) = PartInKey(part) /\ row.ts \in t0 .. t1}

RangeOf(engine) ==
    LET t0 == Base(invocation)
    IN  IF engine = "sqlite" THEN SqliteRange(0, t0, t0 + QueryWindow)
                             ELSE LmdbRange(0, t0, t0 + QueryWindow)

\* The point lookup of setting-0 in the store the cold read left.
PointLookup(engine) ==
    CASE settings[engine] = "populated" -> "found"
      [] settings[engine] = "empty"     -> "nothing"  \* no such table, or no such key
      [] settings[engine] = "absent"    -> "missing"

Queries ==
    /\ AtSection("query") /\ CanMeasure
    /\ made' = made \union {"query"}
    /\ Answers([rows |-> Cardinality(RangeOf(Subject)), lookup |-> PointLookup(Subject)])
    /\ UNCHANGED <<args, settings, cold, invocation, faults, appendVars, crashVars>>

MeasuresSizes ==
    /\ AtSection("sizes")
    /\ Answers([stores |-> made])
    /\ UNCHANGED <<args, settings, cold, made, invocation, faults, appendVars, crashVars>>

Printed == section = Len(SECTIONS) + 1

\* The program is run again, with the same command line.  What the directory
\* held is there only if it was kept.
RunsAgain ==
    /\ Printed /\ invocation < MaxInvocations
    /\ invocation' = invocation + 1 /\ section' = 1
    /\ report' = NoFile
    /\ IF DirectoryIsKept
       THEN UNCHANGED <<settings, made, store, baselineFile, reopenFile, results>>
       ELSE /\ settings' = [e \in ENGINES |-> "absent"] /\ made' = {}
            /\ store' = [e \in ENGINES |-> {}]
            /\ baselineFile' = [e \in ENGINES |-> 0]
            /\ reopenFile' = [e \in ENGINES |-> NoFile]
            /\ results' = [w \in Writers |-> 0]
    /\ UNCHANGED <<args, cold, faults, variant, stage, appended, attempts, holder, exitcode, rows,
                   crashing, crasher, crashExit, event, reopener>>

StoreNext ==
    \/ Skips \/ Appending \/ ReadingCold \/ Crashing \/ Queries \/ MeasuresSizes \/ RunsAgain
=============================================================================
