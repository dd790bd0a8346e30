# Verification of ajit-segment-bots

TLA+ modules, TLC runs and TLAPS proofs about the program in `src/`. The
blueprint names hundreds of trading parts; what exists as code is the substrate
they will run on (`runtime/`), the board that shows them (`dashboard/`), the
scripts that edit the blueprint, and the measurements the substrate was chosen by
(`measurements/`). The models follow that code. Paths below are under `src/`.

## The system

| Part | State it keeps | Operations | Talks to |
|---|---|---|---|
| settings reader (`runtime/settings_reader.py`) | the last document that parsed | parse, `offer_candidate` (validate, then swap) | the settings files |
| settings watcher (`runtime/settings_watcher.py`) | catalog of files, last delivered document of each, owed overflows, last reported rejection of each, in-flight marks | event handler, periodic backstop, `recheck_now`, `start`/`stop` | inotify (events), the reader (calls), a listener (three callbacks) |
| control channel (`runtime/control_channel.py`) | none; the bytes in a socket pair | `send_command`, `receive_command`, `has_pending_command` | governor end, part end |
| part process (`runtime/part_process.py`) | last tick, last health, a refusal to report | `run_part`: select, read one command, tick, report health | control channel, `do_one_tick` and `emit_health` callbacks |
| part declaration (`runtime/part_declaration.py`) | none | checks of one declaration | - |
| forkserver launcher (`runtime/forkserver_launcher.py`) | environment caps | thread check, then fork | kernel, multiprocessing |
| scope placer (`runtime/scope_placer.py`) | none | ask systemd for a scope, poll `/proc` until a deadline | systemd (an asynchronous job), kernel |
| numeric state (`runtime/numeric_state.py`) | data file, stamp file, declaration sidecar | open or create, stamp, gap check | file system, across kills |
| state store (`runtime/state_store.py`) | two append-only tables | append, read a window, read the current setting | SQLite, several processes |
| page-cache writer (`runtime/page_cache_discipline.py`) | bytes written, bytes released | append, force writeback | kernel page cache |
| storage and hardware facts, probes | none | read `/proc`, `/sys` | kernel |
| blueprint contract checker, part monitor, board API | none; derived from the registry and the disk | find violations, grade parts, serve the board | registry files, browser |
| board polling hook (`dashboard/web/src/useBoard.js`) | last payload, error | poll every five seconds | board API |
| board snapshot, status board, part monitor page, wiring explorer | none; a page made of one or several readings of the registry | build on demand, publish | registry file, git |
| pre-commit hook (`.githooks/pre-commit`, `dashboard/check_contracts.py`) | none | check the working tree, let the commit pass or not | registry file, git index |
| blueprint edits (`dashboard/blueprint_edits/`) | none; the registry, read and written back whole | seven scripts, each run when its day came | registry file, whoever else saves it |
| measurements (`measurements/2026-08-20-part-runtime/`) | stores, mapped files and shared-memory segments, result files | start processes, kill them, look at what is left, report | SQLite, LMDB, `/dev/shm`, multiprocessing |

**What is hard.** The watcher has three threads (the observer's dispatcher, the
backstop's clock, whoever calls `recheck_now`), two locks, a kernel queue that
loses events without saying so, files an operator edits between any two reads,
and callbacks that may raise at every delivery. The part's loop reads a stream
that has no message boundaries, from a governor that may die in the middle of a
frame, and must neither lose a command, nor keep quiet about one it refused, nor
become impossible to switch off. The rest is hard for crashes (numeric state),
asynchronous jobs (placement), timestamps taken before a lock (store) and answers
out of order (board). `PROJECT.json` lists the hazards at their lines.

**What makes each part correct.**
Watcher: a listener that records every change it is handed always holds what the
file said, whichever thread found it and whatever raised; whatever the kernel
drops, it ends up with the file's content; an overflow is called only when an
event really was late or lost; nothing is forgotten while it is owed.
Part loop: commands are taken as a queue; refusals and requested reports go out
before the next command is read; off and a dead governor stop the part; nothing
else does but the part's own work.
Numeric state: whatever the instant of a kill, the next open succeeds under the
same specification and is refused under another, but for a kill between the
truncation of a new data file and its extension: the 0 bytes it leaves are refused
by every later open. A state behind what was published is seen, unless its data was
removed and its stamp left. Placement: a path is returned only for a process in its scope.
Store: what was read of a part's past is a beginning of what is read later, and the
current setting is the one recorded last. Writer: unreleased bytes stay below one
interval plus one block, and nothing is given up that is not on the disk. Directory:
what is accepted is on a disk. Registry: an edit loses no part but to a stale read,
a later edit is undone only by a script that owns a row it amended, and a breach is
committed only where the hook does not look. Pages: a page made of one state of
the registry agrees with itself, and a board left open catches up. Measurements:
what is reported is what happened.

## Modules

```
SettingsDocument             what a file says; the diff of two documents
  +- SettingsFeed            abstract: what a listener is promised
  +- SettingsWatch           the watch and the world around it, step by step
  |    +- SettingsWatchProperties    fairness, invariants, refinement, liveness
  |         +- MCSettingsWatch           small contents for TLC
  |         +- SettingsWatchProofs       theorems about diffs and the watch
ControlChannel               frames, cells, what a body decodes to
  +- PartProcess             run_part, the socket and the governor
       +- PartProcessProperties -- MCPartProcess, PartProcessProofs
ControlQueue                 abstract: commands are a queue

ForkserverLauncher           caps, thread check, fork
  +- ScopePlacement          systemd's job, the polls, the deadline
StorageFacts                 mount table and the directory accepted or refused
NumericState                 three files, made step by step, across kills
  +- NumericStateProofs
StateStore                   two tables, one write lock, several processes
CacheReleasingWriter         a tape, its fsyncs and what is given back
  +- CacheReleasingWriterProofs
PartOnMachine                composes the six: one part's life on the machine
  +- PartOnMachineProperties -- MCPartOnMachine, PartOnMachineProofs

Blueprint                    the registry, the wires derived, the contract rules
  +- BlueprintEdits          what each edit script makes of it
  +- BlueprintDiagrams       what the status board's diagrams draw
       +- PartMonitor        what each page makes of its readings
BlueprintDesk                composes edits, hook and pages over one file
  +- BlueprintDeskProperties -- MCBlueprintDesk, BlueprintDeskProofs

MeasurementRun               faults and re-runs, shared by the three programs
  +- AppendMeasurement, CrashRecoveryMeasurement -- StoreMeasurement
  +- NumericStateMeasurement
  +- PartMeasurement
       +- Measurements -- MeasurementsProperties -- MCMeasurements, MeasurementsProofs

Minimality                   least numbers, smallest finite sets, highest members:
                             the induction the last three proof modules rest on
```

### The settings watch

*State.* `known`, `lastDelivered`, `pendingOverflow`, `reportedDigest` and
`inFlight` are `_known`, `_last_delivered`, `_pending_overflow`,
`_last_reported_rejection_digest` and `_in_flight`. `known[p]` is the document
that path's `LastKnownGoodSettings` serves. `holder` is who holds `_lock`, and
`step`, `stage`, `listed`, `todo`, `at`, `previous`, `candidate`, `refused` and
`delivered` are the local variables of the recheck that holds it. `dispatcher`,
`event` and `toMark` are the observer's dispatcher inside `on_any_event`. `file`,
`edits` and `queue` are the directory and the kernel's queue. Six further variables
(`replica`, `missed`, `undelivered`, `reports`, `sinceStart`, `told`) record what a
listener and an onlooker would see, the constructor's reports of files already broken
included; nothing the watch does depends on them.

*Steps.* The lock makes rechecks exclusive, not atomic: the operator, the kernel
and the dispatcher's marking all move between the glob (`BeginRecheck`), each
read of a file (`OfferCandidate`, `DiscoverNewPath`, `RefuseCandidate`), the
second read for a rejection's digest (`OnRejection`), `on_change`, `on_overflow`
and the end of a visit (`Settle`). Every callback has a variant that raises. A
visit that diffs is one read, then `NothingChanged`/`OnChange`/`OnChangeRaises`,
then `OverflowNotOwed`/`OnOverflow`/`OnOverflowRaises`, then `Settle`; the check
of the in-flight mark (line 448) is evaluated where `on_overflow` is decided,
after `on_change` has returned, as in the code.

*The world.* An edit saves, creates, deletes or renames; each is announced by an
event naming its `.toml` paths or by none (an overflow of the kernel's queue).
watchdog raises several events for one save, and raises "opened" and "closed"
for the watch's own reads; each is one more event naming the path, which is what
`Save` of the content already there produces. A callback that raises is taken to
have applied nothing.

*Documents.* Bytes are a member of `Contents`. Those that parse are functions
from field names to tables; only the text of `value` is kept, since it is all
`compare_settings_documents` looks at.

### The part loop

The stream is a sequence of cells: one for a frame's four-byte prefix, one for
each unit of its body. `WriteSome` moves one cell from `sendall` to the socket,
`ReadPrefix` and `ReadBody` take one out, so every split of a frame over several
writes and reads is a behaviour, and `CloseGovernorEnd` may fall anywhere.
Read off a frame boundary, text bytes announce a length over any limit; a read
that straddles the next prefix is taken to announce anything (`Claims`).
`pc` is the place in `run_part` and `receive_command`; `want` and `body` belong
to `_receive_exactly`; `refused_control_frame` is the variable of that name.
The clock enters the loop through `now - last_health_at >=
health_interval_seconds` alone, so only the time since boot and the time since
the last report are kept, both capped at the interval, where that comparison
stops telling times apart. `sent`, `handled`, `refusals`, `reported`, `asked`
and `cause` are the onlooker's record.

A governor that uses `send_command` writes only `Sendable` frames. The malformed
ones stand for a governor of another build or a bug in it: the reader provides
for them, and its tests send them.

### A part on the machine

`PartOnMachine` follows one part from the governor's `start_forkserver` to its
kill and its next switch-on. Part code does not exist yet: what stands for it is the
order the runtime's documents and tests give the calls (update the array, record
the stamp, publish it as a journal entry, compare the two at the next switch-on).
*Launcher.* `environ` is the value of the BLAS variables, `launching` the place
in `start_forkserver` and `spawn_part`; `serverThreads` and `forkedFrom` are the
threads of the forkserver, one or several, when it runs and at the fork.
*Placement.* `placing` is the place in `place_process_in_scope`; `job`, `unit`
and `cgroup` are systemd's and the kernel's, and move on their own (`JobRuns`,
`UnitUnloads`, a kill). Time passes in the loop's sleeps, in ticks.
*Directory.* `mounts` is the table as read, `exists` how many names of the path
exist; `Holds` is what the kernel does with the same table, and is what the
property compares with. The directory is checked once, as the documents say.
*Numeric state.* `sidecar`, `temporary`, `dataBytes`, `stampFile` are the files,
`opening` the place in `open_numeric_state`, whose every file operation is a step;
`memmap` in mode `w+` is two, a truncation and an extension. `Unmapped` is a kill
or `close()` anywhere. `writtenUnder`, `unguarded`, `cut` and `stampKept` are an
onlooker's record. Power loss is not modelled: pages outlive a process, as the code
relies on, and nothing is said of a machine that goes down.
*Store.* Three processes append: the part and another part to the journal
(`Publish`, `AnotherPublishes`), the recorder to the settings.
`TakeTimestamp` and `TakeWriteLock` are apart, as `time.time_ns()` and
the INSERT are; a writer that is locked out raises and leaves no row, a killed one
is rolled back. The clock does not run backwards.
*Writer.* `unreleased` is `_bytes_written - _released_to`; an fsync may raise out
of `append`, after which the kernel holds the pages clean and the properties say
nothing more of the tape. A failing write or advice is not modelled.

Three reductions keep the composition small. A launch and a placement are taken
step by step only while the part has no files (`NoFilesYet`) and in one step
(`SwitchOnAgain`) from then on, since they read and write none of them; the store
moves only while the state is mapped; a part keeps state or writes a tape.

### The registry and its readers

A registry is what the readers tell apart: of a part its name, block, types read
and written, the breaches of its own shape and the declared facts; of a block its
contract and where the diagrams place it. `LoadFeatureRegistry` reads a file cut
off as an empty registry, as every reader of the dashboard does. `BlueprintEdits`
has one operator per script; the scripts add some 250 parts, and those kept are the
ones more than one script writes, with what is at the other end of their wires.
`BlueprintDesk` has the file in the working tree (`disk`), staged (`index`) and
committed (`head`), the script running (`BeginScript`, `OpenForWriting` which
truncates, `FinishWriting`, `KillScript`), a hand that saves a part, and one
reader: readers never write the registry, so a behaviour has one of them. A page
is made of as many readings as its code makes (`Reads`: five for the status board,
two for the board API, its snapshot and the part monitor, one for the others), each
a step, and `shown` records them. The browser may have two fetches in flight and
shows them as they come. Left out are the words on a page and its timestamps; a box
or wire drawn twice shows once.

### The measurements

Each program is run by hand and alone, so a behaviour is one program's, run up
to twice. Its processes are the steps: writers at a barrier, a lock and bounded
retries; a writer killed on an event, and another process that reopens its store;
a child that maps a file or a segment and is killed, under a driver that may be
killed first; parts that report, exit, hang or are terminated. What a section
returns is a record of what the code puts in its answer, and an onlooker's variables
(`rows`, `store`, `segments`, `lingering`) say what happened. The stores keep what
was committed and nothing else when a process dies; that they do is what the
measurement is about, and the model's question is whether the program would report
it. Times, sizes and memory readings are left out.

## Runs

| Run | Bounds | What it asks |
|---|---|---|
| `watch_directory` | 2 files, 1 good and 1 broken content, 2 edits, callbacks may raise, no outside callers | types; what may be forgotten; marks; when an alarm is earned |
| `watch_contents` | 1 file, 8 contents, 2 edits, callbacks may raise, outside callers | the listener's replica, the chain of old and new values, how often a rejection is reported, refinement of `SettingsFeed` |
| `watch_live` | 1 file, 2 good and 1 broken content, 2 edits, under fairness | in sync in the end, owed overflows served, marks cleared |
| `overflow_redelivered` | 1 file, 2 edits | violated: on_overflow called again for a diff it was taken for |
| `undelivered_behind_broken` | 1 file, 3 edits, under fairness | violated: an owed diff is not retried while the file is broken |
| `skipped_by_late_digest` | 1 file, 2 broken contents, 3 edits | violated: a broken state is passed over that was never reported |
| `part_loop` | 3 frames of up to 2 body cells, every kind within the limit, work may raise, under fairness | queue refinement, refusals, requested health, off, ticking |
| `unhashable_command` | the same | violated: a frame kills the part |
| `over_long_frame` | 2 frames, one a cell over the limit, under fairness | violated: an off is lost behind the frame refused |
| `part_on_machine` | 1 part, 1 other part that writes the same journal, 1 recorder; mount tables of up to 3 over a path of 2 names; 4 specifications, two of one size and one of objects; 2 updates, 1 removal, 3 rows, 1 tick of the clock; deadline 3 and interval 2; blocks of 1 and 2 under an interval of 3, 1 failing fsync | forks, placement, durable directory, state across kills, windows and current settings, the writer's bound |
| `blueprint_desk` | 7 scripts, 4 parts a hand may save, 2 sets of source files; one change under each page, two under the hook; under fairness | what edits undo and lose, what the hook lets through, pages that agree with themselves, a board that catches up |
| `measurements` | 2 writers of 2 records, 1 retry; 2 baseline records and 1 held; 5 records to query over 2 parts; arrays of 2 elements, 2 cycles; 2 parts; 1 fault, 2 runs; every command line that matters; under fairness | what each program reports is what happened, and each ends |

*Why these bounds are enough.* Two files are the least with a rename, a name in
one listing and not the next, and a loop that visits more than one; the visits of
different paths share nothing but the lock and the set of marks. Two edits give
every pair of a change and a later change, removal, break or repair, in any
position of any pass, and passes are not bounded: the backstop runs for ever.
`watch_contents` gives a field that appears, disappears, moves, is blanked and is
re-saved. The bound on edits is in the guard of `Announce` (`MaxEdits`), the one
on frames in the guard of `Send` (`MaxFrames`), the one on a tick in `DoOneTick`
(`LongestTick`); `reports` counts to three, where its property is already broken.
Three frames hold a backlog, a refusal between two commands and a frame cut by
the governor's death. On the machine, three mounts give every way one can hide or
bury another; two specifications of one size are the case only the sidecar can tell;
two updates and a removal give every order of stamp, publication and loss; three
rows are the least where another part's, stamped first, is committed between two of
the part's or after both; a deadline that is no
multiple of the interval gives a last sleep that ends past it. One change under a
page gives every split of its readings before and after; two under the hook give a
tree, an index and a commit that all differ. Two writers, parts and runs are the
least where one waits for another or finds what another left, and one fault is
one process failing by itself: pairs of failures in one run are not explored.
The theorems below have none of these bounds.

`CHECK_DEADLOCK FALSE` appears where the system may really stop: a part that has
returned; a tab closed and an edit killed while it writes; a measurement that has
printed its report, or waits at a barrier for a writer that has raised.

*Fairness.* Watch: the backstop's clock ticks (`WF` on `BeginPeriodicRecheck`);
a recheck under way runs to its end; the dispatcher pulls and marks; a dispatcher
waiting for a lock that is free between ticks gets it (`SF`, since the clock may
take it in between any number of times); a callback tried again and again
succeeds in the end (`SF`), which is the transient failure lines 50-58 speak of.
Nothing is assumed of the operator, and every event may be dropped. Part: the
loop is one thread and its tick returns (`WF_vars(Part)`); a governor that has
begun a frame goes on writing or dies (`WF_vars(WriteSome)`). Board: `setInterval`
polls for as long as the tab is in view, and the server answers each request on a
thread of its own, so `WF` on beginning a fetch, on each of its readings and on its
answer, per slot; nothing is assumed of edits. Measurements: a program goes on while
one of its processes can (`WF` on `GoesOn`, which is `Next` without faults and
without being run again). The machine has no liveness property: nothing in the code
says that a job runs or that a part is switched on again.

Every property of a passing run has a mutant in `PROJECT.json`: a plausible slip
in one definition (an operator named `..._Slip` beside it) under which that run
finds that property violated.

## Where the code and its text differ

1. `settings_watcher.py:447` - `on_overflow` is redelivered when only `on_change`
   failed, against 418-420.
2. `settings_watcher.py:346` - an undelivered diff is not retried while the file
   on disk does not parse, against 56-58.
3. `settings_watcher.py:478` - the digest recorded for a rejection is that of
   later bytes, so the next broken state can go unreported, against 60-62.
4. `control_channel.py:96` - a command that is a JSON list or object raises
   `TypeError` through `run_part`, against `part_process.py:106-109`.
5. `control_channel.py:80` - an over-long frame is refused with its body left in
   the stream, so the frames behind it are misread, against the same comment.

Seen while modelling, with no run of their own:

- A file already broken when the watch is made is reported by the constructor
  (`settings_watcher.py:232`), which records no digest; the first recheck reports the
  same bytes again, where lines 60-63 and 199-200 say a standing broken file is
  reported once. `RejectionRepeatedOnlyFromStart` states what the code does: twice
  for such a file, once for any other.
- A broken state that returns after another broken one is reported again, where
  lines 62-63 say it is not: only the last digest is kept.
- The edit scripts say "Idempotent: re-running changes nothing". That is so of the
  registry a script left; run after a later script, or after a hand, it writes its
  own rows back (`LaterEditUndoneOnlyByItsRow` says which, and that no other does).
- A registry cut off by its writer passes the pre-commit hook, and the board shows
  its contract as kept, since a file that cannot be read declares nothing.
- A wire that R-03 faults makes no part red, though the legend says any part a
  violation names is. A part whose block nobody declared shows in no page's cells.
- A part is credited with the files of every part whose name contains its own
  (`counterfactual-replayer` with those of `exit-counterfactual-replayer`).
- The ledger's outgoing wires are counted and not drawn; its entry types are shown as
  without a consumer though they have some. A block that is agreed in part is listed
  under "Named, not described"; blocks of shared scope are drawn in the segment's box.
- `has_state_gap` reports a state behind what was published and never one ahead.
- In a directory kept from an earlier run `measure_store.py` finds SQLite's rows of
  that run first, and calls an intact store torn; a reopening process that dies is
  answered for by that run's result file. A directory the user names is removed
  unless `--keep-dir` is given. With a `--part-id-width` too narrow LMDB's range
  query returns other parts' rows. The cold read counts keys and checks none.
- A driver killed at its timeout leaves a child that may create its segment after
  the final sweep. A viability part that hangs is joined for ever at exit.

## Theorems

All hold for every value of the constants that satisfies the named assumptions of
the modules, which the runs evaluate. Three theorems have a hypothesis of their own:
`AlarmsAreEarned` assumes that nobody but the watch's two threads rechecks,
`PartIsAQueue` that no frame is over the limit, and `LaterEditsStand` that what a hand
saves into a bot's block keeps to that bot. Each is needed, and why is said below. Each invariant named here was an invariant of a run before it was proved.

*Watch* (`SettingsWatchProofs`). `TypeCorrect`. Then the invariant `CatalogInv`:
the types, the bookkeeping of a recheck under way (`CatalogBookkeeping`),
`ReplicaMatchesBaseline` and the two catalog properties. The replica alone is not
inductive: that an `on_change` moves the replica to the reading of what becomes the
new baseline needs that the diff in hand was taken against the present baseline of
the path being visited, and that a forgotten path reads as empty needs that a
vanished path's candidate is the empty document and that `delivered` means its
baseline already reads as empty. The link from a diff to a reading is
`ApplyChanges`. From `CatalogInv`: `ReplicaCorrect`, `ForgottenTold`,
`OwedReachable`, `ChangesAlwaysChain`. `MarkInv` (`MarkBookkeeping`) gives
`MarksAreTheEvents`: that the observer's own pass ends with no mark needs that
marks on listed paths are still to be visited and that an event names each path
once. `OwnInv` adds who holds the lock and gives `OwnRecheckClears`.

`RepeatedOnlyFromStart`: broken content that stands unchanged is reported once by
any number of rechecks, and twice in all when the constructor met it, because the
constructor reports it (`settings_watcher.py:232`) and records no digest. Its
invariant `ReportInv` adds to `CatalogInv` that content already reported still does
not parse and has the digest recorded last, and, for a file deleted since, what the
pass under way may still know of it: a path missing from the listing is not read in
that pass, and one found gone is not read twice.

`AlarmsAreEarned`: a first `on_overflow` only for a path whose event was dropped or
has not been marked yet, or whose last `on_change` raised. `EarnedInv` says of every
path that what the listener was told agrees with the file, or something of the path
is still to be noticed (`Noticed`), and that the pass under way is not behind the
file unless the edit it is behind of is on its way. The second half is what makes the
first inductive: a pass may read an older file than the one that is there when it
settles. With a caller's `recheck_now` the theorem is false: a caller's pass
that read a file before an edit settles after the edit's event is marked and clears
that mark (the hazard at `settings_watcher.py:349`).

`WatchImplementsFeed` maps `Seen` to what the watch holds of each path, and shows
each step to be a look, a publication, a drop, a change of files or a stutter;
that `offer_candidate` serves what the file says even when it keeps the document
it has is `OfferedIsRead`.

*Part* (`PartProcessProofs`). `TypeCorrect`. `RefusalInv`: between the refusal and
the health report the loop owes it, and a report it forced is due at once because
the uptime has reached its cap; so nothing is owed whenever the loop looks at its
socket or has returned. It gives `RefusalsAlwaysReach` and `AskedHealthAlwaysGiven`.

`PartIsAQueue`: the loop, the socket and the governor implement `ControlQueue`.
`QueueInv` is about the cells in transit, those written and those still in
`sendall`: every one can be labelled with the number of a frame sent, so that the
cells of a frame follow each other and the frames do too, the first is the one the
loop comes to next and the last the end of the frame sent last; and what was read of
a body is the beginning of the next frame's. A labelling makes it inductive without
joining the frames' cells into one sequence, which would be an induction over data:
a step adds a label at one end or takes one from the other. `OffersFit` is what
`send_command` guarantees; without it the theorem is false, as `over_long_frame`
shows.

*Numeric state* (`NumericStateProofs`). `NumericInv` is the induction: the types,
what holds at each place of the opening (`OpeningInv`: the sidecar is the
specification asked for from "data" on, the file has its size from "stamp" on), that
what was seen of the data file at the start is still so (`LooksTrue`), that a data
file is empty or as large as the specification it was made under (`FileInv`), an
empty one the work of a kill (`CutInv`), and that a file never without its sidecar
has the one it was made under (`GuardInv`). The types alone are not inductive:
extending the file to `ByteCount[spec]` needs that `spec` is a specification by then.
It gives `NumericNeverReadAsAnother` and `NumericRefusedForAReason`.

*Writer* (`CacheReleasingWriterProofs`). `WriterInv` adds to the bound that a release
follows its fsync (`ReleaseInv`); `WriterUnreleasedBounded` and
`WriterHandedBackIsOnDisk` follow.

*Machine* (`PartOnMachineProofs`). `MachineTypeCorrect`.
`MachineImplementsNumericState` and `MachineImplementsWriter`: every step of a part's
life on the machine is a step of the component or leaves its files alone, so what is
proved of the components holds of the composition. `LauncherInv`: once
`start_forkserver` has run, the environment names a count and the forkserver's
threads follow from it. `PlacementInv`: the loop leaves for the path only from a look
that found the process in its scope, and a process leaves its scope only by exiting.
`LandedInv`: while the loop sleeps, a process has been in its scope for no longer
than the remainder of `waited` by `poll_interval` (`NextRemainder` is the
arithmetic); it gives `MachineNotConfirmedOnlyIfJustLanded` for every interval and
deadline. `SettingInv`: setting changes are committed in the order of their times,
because one process records them and takes the time first; it gives
`MachineCurrentIsLastRecorded`, any number of other writers waiting for the same
lock. Two processes that record settings are outside it.

`JournalInv` says that of each writer its rows are in the order of their times, none
is from the future, and the row it is appending comes after them; rows of different
writers need not be in order, which is why a window is promised to grow at its end
for one part only: other parts' rows, stamped earlier and committed later
(`AnotherPublishes`), are in the same table. A window is a selection and a sort: the entry at each place is the
row that has as many before it (`Before`, by time and then by id) as the place says,
so that no induction over a sort is needed. From these `MachineWindowsGrowAtTheEnd`.
`StampInv`: the stamp is never ahead of the array it dates, unless the array was
removed and its stamp left (`stampKept`); it gives `MachineReseedIsReported`.
`MachineAcceptedIsOnDisk`: the mount `storage_facts` keeps is the last of the longest
(`Keeps`; that there is a longest is `HighestRated`), and `KeptIsHeld` shows it to be
the one the kernel takes unless that one lies buried under a later mount higher up.
`StorageInv` carries that the table was read for the directory's nearest existing
ancestor.

*Blueprint* (`BlueprintDeskProofs`). The registry invariant `Sound` is what every
script and every save by hand leaves of any registry it is given, so the proof never
follows the order of the scripts: the registry is `Whole` (fields, finitely many
parts, blocks drawn where they can be), one part keeps its block and writes the
health type (`AnchorPart`, `AnchorContract`: so the registry is never empty and the
checker always has something to check), the bots are peers (`BotsArePeers`), corrected
facts stay corrected (`CorrectionsHold`), and only parts saved by hand may read or
write what their block's contract does not list (`OnlyHandPartsLoose`). `WriterInv`:
each file is sound or cut off, and an edit under way read a sound one. It gives
`PartsAreLostOnlyToStaleReads`, `BreachesAreCommittedOnlyUnseen` and
`CorrectedFactsStay`. `ReaderInv`: a page is what its readings render to, and each
reading one a file could hold; it gives `DeskTypeAlwaysOK` and `SteadyPagesAgree`.
The latter needs that the part a name stands for is one of finitely many
(`HighestRated` again). `NamesAssumption` says that the names the scripts make for
the two bots are distinct: the strings are joined by the code, which tlapm cannot
compute and TLC evaluates.

`LaterEditsStand`: a script run again undoes what a later one established only if it
owns a row that edit amended. All scripts but the fourth are edits of one form
(`MadeOf`): rows are written, parts are lost, some types are read as well and some
readings are taken away, and nothing else of what a part reads or writes moves. What
the edits established stands under an edit of that form whose rows and types do not
touch it (`OnlyReaderStays`, `ReaderStays`, `BotsStayApart`); the fourth script hands
out private types under names of their own (`PrivatisedIs`) and is followed part by
part. That bots stay apart is not inductive alone: another type read may be one that
another bot writes. It needs that a bot's parts write only its own types or those all
bots share, and read none of another bot's (`BotsKeepToThemselves`). `EditsInv` adds
that, and that the gate, the enforcer and the conviction models are there, to
`WriterInv`, and that what a script read has only grown until it opened the file: what
held of the grown registry held of the one it read (`HeldBefore`). The hypothesis,
`HandsKeepApart`, is what the invariant asks of a save by hand. Without it the theorem
is false after four changes: with the harvest and the private types run again, a part
saved into one bot's block that writes `training-label` feeds the other bot once the
second script is run again, and that script owns none of the rows.

*Measurements* (`MeasurementsProofs`). `MeasurementsTypeCorrect`, and
`MeasurementsReportTruly`: whatever fails, however often a program is run in a
directory and whatever its arguments, what it prints is what happened, with five
exceptions. In a directory kept from an earlier run SQLite's intact store is called
torn, and that run's result file answers for a reopening process that died
(`CrashReportIsTrue`); a child whose driver was killed creates its segment after the
final sweep (`OnlyAnOrphanLeavesASegment`); a key too narrow for the part's id lets
other parts' rows into LMDB's range query (`QueryReportIsTrue`); and a part reported
as not exited may still be there (`PartReportIsTrue`).
`MeasurementsInv` has a conjunct for each program. `AppendOK`: the rows in the store
are exactly those the writers count as appended. `CrashOK`: an engine's store holds
whole baselines, one for each run that committed; the killed process has committed
its own before it sets the event; a result file is of this run only once the store was
reopened in it. From whole baselines it follows which row the reopening process
finds (`RowFoundIs`): SQLite's is the oldest, which is how an intact store in a kept
directory comes to be called torn. `NumericOK`: a child waits only with all of its
state written, a segment seen at a look was seen at every look before it. `PartOK`:
every part whose outcome is recorded was started. Two sums in the reports are folds:
the results of the writers (`ResultsAddUp`) and the items of the chunks of the glue
workload. `GlueIsWhole` proves of the latter, for every number of items and of
workers, that the chunks are disjoint, cover the items and are no more than the
workers; the fold is the function that its recursive definition picks, so the proof
shows that one exists (the cardinality of what is covered) and that any such function
has that value, by the finite set without smaller ones (`SmallestFiniteSet`) on which
they would differ.

*Checked by TLC only.* `OffTakesEffect`, `KeepsTicking`, the properties of
`watch_live`, `BoardCatchesUp` and `EveryProgramEnds` are liveness under fairness,
outside what TLAPS proves here. Every safety property of a passing run is the
property of a theorem.

## Not modelled, and the plan

- The watch's `start`/`stop` and their threads: the program calls each once; a
  callback that calls `recheck_now` on its own thread; a glob that is not atomic.
- Checks without state: `read_entry`, `read_value`, `settings_directory` of the
  settings reader, and most of `part_declaration`.
- Hardware facts and substrate probes: text of `/proc` and `/sys` read once.
- The status board's probes of the host, the snapshot's npm build and git push,
  `render_spec.py` (Markdown to HTML), the React components, the wording of pages.
- A power loss, a clock set back, a directory whose mount changes after it was
  accepted, a window read for a part that two processes write for, a write or an
  advice of the page-cache writer that fails.
- A worker of a process pool that dies in `measure_interpreter.py`'s glue workload,
  its build identity section, and the one-shot measurements, single loops that
  print a number.

Next: the liveness properties stay with TLC. The measurements'
run explores one failure at a time and the theorems any number of them; more failures
in a run would show whether their exceptions are all reachable together.
