# Better Mods Manager in TLA+

Better Mods Manager (BMM) keeps a library of mods and deploys the ones a profile
enables into a game's own folder. It must always be able to give the folder back as
the game shipped it. These modules model the part of the program on which that
depends, the model checker explores small instances of them, and TLAPS proves the
theorems listed below for every instance.

Paths below are relative to `src/`; `R` stands for `src-tauri/src`.

## The system

BMM is a Tauri application: a Rust core (`R`), a TypeScript interface
(`frontend/src`), a worker process that changes the game folder (the same executable
started with `--mod-worker`), a local HTTP API and an MCP server over the same state.

| Component | State | Operations | Interacts with | What makes it correct |
|---|---|---|---|---|
| **Activation engine** `R/commands/mods.rs`, `R/fs_utils.rs` | each profile's `active_mods`; the game folder; each profile's `_original/` backups; `MOD_OP_LOCK`; the worker and its rollback journal | `enable_mod`, `disable_mod`, `disable_mods_for_profiles`, `toggle_all_mods`, `cancel_mod_ops` | store (save), governor (tickets, copies), order (pins), profiles | an original is never lost; disabling undoes enabling; the folder follows the lists; twins agree |
| **Activation order** `R/commands/mod_order.rs` | the order of `active_mods`, `file_winners` (pins) | `mod_order_set`, `_place`, `_reapply`, `conflict_apply`, `reassert_pins` | the engine's lock and files | every file is its winner's copy; a preview says what changes; reapply repairs |
| **Dependencies** `R/commands/mods.rs` | `ModEntry.dependencies` | `resolve_dependencies`; `add_mod`, `update_mod_meta`, `remove_mod` | the engine's chains and cascades | the chain is the closure, once each; a circle is reported iff there is one |
| **Profiles** `R/commands/profile.rs` | the stored list, the active profile | create, update, delete, `set_active_profile` | the engine reads them between awaits | operations belong to the profile they were started for |
| **Data store** `R/state.rs` | `data.json`, `.bak`, `.tmp`, memory | `save`, `load_with_recovery`, and three writers that go round `save` | everybody | what was saved is found again; an older snapshot never lands over a newer; one whole copy is left |
| **Local API** `R/api/mod.rs` | none of its own | enable, disable, modpacks, profiles | changes lists directly | lists it changes stay true of the folder |
| **Governor** `R/governor/` | tickets, slots, pauses, game mode | begin, checkpoint, pause, resume, cancel, refresh | every copy and hash | slots respected, no wake-up lost, a cancel ends |
| **Activation jobs** `frontend/src/core/activation-jobs.ts`, `features/mods/mods-actions.ts` | the UI's queue of batches; cancel scopes, the global flag and its epoch (`R/fs_utils.rs`) | queue, stop, skip, Cancel all, Enable all | the activation commands | a stop stops what it was meant for; a verdict is true; every job ends |
| **Hash queue** `R/commands/mods.rs` 3378-4047 | two queues, each mod's baseline, one worker | populate, hash all, re-hash, check, delete, count | activation, rescans, store | nobody waits for ever; what was asked is hashed; a baseline is whole |
| **Scheduler** `frontend/src/features/settings/scheduler.ts`, `R/commands/scheduler.rs` | tasks in `schedules.json`, their copies in the interface | tick, chains, events, game mode, edit, API | the commands | a run is neither lost nor doubled |
| **Repositories** `R/commands/repo*.rs` | remote indexes, pairings | follow, sync, serve | library, governor | a sync converges, what is installed was verified |
| **Auto-update, MCP, plugins, UI** | little of their own | | the commands above | |

Where it is hard. A call plans under the data lock, awaits `MOD_OP_LOCK`, has a
worker change files one by one, and records what it did under the data lock again;
only the worker step is exclusive. The interface, the scheduler, plugins, deep links
and modpacks issue calls without a common queue, so two calls can be in flight. The
worker may fail on any file, be killed by a stop at any point, or die with the
machine; every profile has its own backup folder while the files they protect are
shared; and lists in memory, lists on disk and files change at different moments.
Around the engine, the interface guesses what became of a call from who asked for its
stop; a save competes with other writers of one file; threads share one condition
variable, or three mutexes taken two at a time; and a task's run outlives the object it
was started with. `PROJECT.json` lists each of these hazards at its line.

## Modules

| Module | Models |
|---|---|
| `ModDeploy` | the activation engine: calls, worker, faults, profiles, saves, the API's two list commands |
| `ModDeployInvariants` | the invariants that make its properties inductive |
| `MCModDeploy` | its instances |
| `DeployPromise` | what activation promises of lists and files: the abstract specification |
| `ModDeployProofs` | its types and its theorems for every use; for one call at a time originals, backups, whose copy each file is, and that it implements `DeployPromise` |
| `Lists`, `ListLemmas` | lists thinned out, as the queues and the order are; what that returns, and what a function defined by recursion on a number is |
| `LoadOrder`, `MCLoadOrder` | the activation order and the pins of one profile |
| `LoadOrderProofs` | its types; the folder follows the order and the pins, previews are true, a reapply repairs |
| `Dependencies` | `resolve_dependencies`, from the walk into one mod down |
| `DependencyGraph`, `MCDependencyGraph` | the library whose dependency lists it walks |
| `DependencyGraphProofs` | its types; the chain is what a mod needs, a circle is announced for a circle |
| `CancelScopes` | the table of cancel scopes, the global flag and the epoch, as functions of a record |
| `ActivationJobs`, `MCActivationJobs` | the interface's queue of jobs, Enable all, every way to stop them |
| `ActivationJobsProofs` | its types; a stop stops what it was meant for, jobs run in turn, done is true |
| `DurableStore` | what a data store promises: the abstract specification |
| `DataStore`, `MCDataStore` | `data.json`, its backup and its temporary file, step by step |
| `DataStoreProofs` | `DataStore` implements `DurableStore` |
| `Governor`, `MCGovernor` | tickets, slots, both checkpoints, pauses, game mode |
| `GovernorProofs` | its types; no wake-up is lost, slots hold |
| `HashQueue`, `MCHashQueue` | background hashing, checks, and the three mutexes they share |
| `HashQueueProofs` | its types; where a circle of waiting threads can come from, nothing asked is lost, no half baseline |
| `Scheduler`, `MCScheduler` | the tick, chained tasks, events, game mode, edits and restarts |

`MCModDeploy` composes `ModDeploy` with `Dependencies`: the chains of an instance are
what `resolve_dependencies` answers for its library. The code calls itself; `VisitsOf`
defines the walk that may go on to `n` more mods from the one that may go on to `n - 1`,
and `Resolve` begins with as many as the library has, which is proved to be enough. `ActivationJobs` is composed of
the queue and of `CancelScopes`; a worker step of `ModDeploy` is one piece of work
there, done, failed or cut. A save is one step in `ModDeploy`, `HashQueue` and
`Scheduler`, and `DataStore` says what becomes of it.

### ModDeploy and the code

| Variable | Code |
|---|---|
| `game[f]` | whose copy of `f` is in the game folder: a mod, `Orig`, `Torn` (part of a file), `Nothing` |
| `backup[p][f]` | `<backup_path>/_original/f` of profile `p` |
| `at[p][m]` | position of `m` in `active_mods` of `p`, 0 when it is not there |
| `saved` | the lists in `data.json` |
| `cur` | `active_profile_id` |
| `op[o]` | the locals of a call in flight; `phase` is the await it is at |
| `worker` | the worker step that holds `MOD_OP_LOCK`: task, files, per-file stage, and the journal (`mend`, `stash`) of `Touched` |

A profile is its place in the stored list; the profiles of an instance all deploy into
one game folder, `Library[p]` is the mods folder, and profiles with the same one are
*twins*. A file's content is whose copy it is. Where an action stands for several
lines of code, its comment says so; the choices a reader might question:

- `EnableLeave` is every way out of the chain's loop (done, stopped, refused), since
  a refusal (space, archive, missing hash) depends on nothing the model has.
- The survey is a step of its own (`EnableSurvey`): the code releases the data lock
  between the chain and the survey. The plan of a disable is one step, made under one lock.
- `CopyStarts` leaves no file or a torn one: `copy_file_governed` removes the
  destination first, then grows it. The copy that fails leaves what is there.
- A restore's copy and the removal of its backup are one step (`RestoreEnds`): a stop
  between them leaves the same bytes twice and the next restore repeats the copy.
- A stash copy is instantaneous. If it fails the deploy stops with the file untouched,
  as `CopyFails` from the stage "ready" does.
- `KillAndUndo` may come after the worker's last file: the wait loop and
  `cancel_mod_ops` both set `MOD_OP_KILLED`, which is looked at after the exit.
- A bulk disable runs in the application, not in a worker: `StopBulk`.
- What a mod ships is constant, so `installed_files` and the cache agree with it; the
  `enabled` flag is not read by the engine.
- Profiles here have no pins, so `reassert_pins` has nothing to do; pins are the subject
  of `LoadOrder`. There a worker step is atomic, because everything it could interleave
  with waits for the same lock, and every provider has its copies on disk.

Its state space is finite without any counter or bound: lists hold each mod once, an
operation has finitely many phases, and a call starts only when its slot is idle.

### ActivationJobs and the code

| Variable | Code |
|---|---|
| `jobs`, `job`, `nextId` | `activation-jobs.ts`: the list, each job with its lines and `cancelRequested` |
| `runner` | the await `pump` and `runJob` are at, `current` and its skip |
| `call`, `sweep` | the long command under way for the queue, and `toggle_all_mods` |
| `click` | a Cancel all, waiting for the jobs it stopped |
| `worker`, `killed` | who holds `MOD_OP_LOCK`; `MOD_OP_KILLED` |
| `tokens` | the cancel scopes (`fs_utils.rs` 170-290) |
| `mail` | commands on their way from the interface |
| `active`, `on` | the active profile and what is on in each |

The interface is one thread: an action runs from one await to the next. Commands
arrive in the order they were sent; short ones are carried out as they arrive, long
ones are spawned. `handleProgressEvent` does not look at who sent an event, and the
model's does not either. The commit of an order list at the end of a batch is
`LoadOrder`'s.

### DataStore and the code

| Variable | Code |
|---|---|
| `mem` | `AppState.data`, as a version |
| `main`, `tmp`, `bak` | the three files: a version, torn or missing, and who has it open |
| `saver` | where each call is in `save` (573-640) or in a writer of its own |
| `load` | `load_with_recovery` (470-520) |
| `asked`, `kept` | history: what a call saves, the latest version a call was told is saved |

The writers are `AppState::save`, the API's `save_data` (`api/mod.rs` 842), the hashing
thread and the content-id thread. A crash is the death of the program, not of the
machine: the `.bak` copy is not flushed, which only a power failure would tell. The MCP
process (`R/mcp/state_bridge.rs` 413) writes the same temporary file and is not
modelled.

### Governor and the code

`at` is the place of an operation in `begin` and `checkpoint`; `paused`, `cancelled`,
`slots`, `all` are the fields of `Queue`; `sleeps` says who waits on the condition
variable and until when; `mine` is `paused_for_game`, `game` and `refresh` the game mode
and the thread that applies it; `now` is the clock. One mutex guards the queue, so a
step is one hold of it with the notify after it. A nested ticket belongs to sync code on
its outer ticket's thread, one deep. `begin_unslotted`'s registration and mark, the
slots of all kinds with their snapshot, and `pause_until_game_ends` are one step each.
The clock advances only while a bounded pause is on. Per-kind slots of the Max preset,
task presets, rate limits and `try_begin` are not modelled.

### HashQueue and the code

| Variable | Code |
|---|---|
| `prio`, `normal`, `current`, `lazy` | `sha_queue_priority`, `sha_queue`, `current_sha_mod_id`, `enable_lazy_sha_calculation` |
| `base`, `invalid` | `file_hashes` and `file_hashes_invalid` of each mod; a baseline is a version of each file, 0 for one left out |
| `content`, `there` | the files of the mods, the drive they are on |
| `held` | who holds the mutex of the data, of the priority queue, of the normal queue |
| `at`, `hand` | where each thread is, and its locals |
| `due`, `wanted` | history: mods asked for and not hashed; the files when a re-hash was last asked |

Tauri runs a command that is not async on the window's own thread: `Window` does the
counts, hash all, re-hash, delete and the settings one after the other. Async commands
and threads that commands start are `Tasks`. Where a mutex is asked for while another is
held, asking is a step of its own; `current_sha_mod_id` is never held with a second one
that anybody could hold against it. The governor's ticket appears as its cancel only.
A mod's files are always the same, so that a missing one is one that could not be read.
A request the code answers with "already being hashed" counts as answered in `due`;
whether that is true is `RehashIsNow`. A re-hash waits for a free thread of `Tasks`,
where the code starts one.

### Scheduler and the code

| Variable | Code |
|---|---|
| `disk` | `schedules.json` |
| `obj`, `list`, `cur`, `copies` | the task objects and the lists that hold them: a run keeps the object it was started with |
| `mail`, `reload`, `api`, `draft` | saves and loads under way, the `schedules-changed` event, the API's read and write, the editor's copy |
| `tick`, `run` | each tick and the run it awaits |
| `owed`, `fired`, `armed`, `hit`, `chain`, `shown` | `_owed`, `_onceFired` and `_appStartFired`, the polled triggers and their events, `_chain`, `_running` |
| `begun`, `uses` | history, and the bounds |

What a task does is one step between the start and the end of its run. `begun` says of a
task's last run when a tick began it, whether the list in use can know of it, and which
ticks were under way by then; no action reads it. Reloading, editing and restarting make a
run at-least-once, and so do ticks that overlap, which `OnePerWindow` names one by one:
it says there is no other way to a second run in a window. `OnceAWindow`, without these
exceptions, is what the documentation says, and fails (the limits table). Owed runs
and unseen events are lost at a restart. File, script, condition and memory triggers,
retries, loops, the run log and the system's own scheduler are not modelled; a save is
one step although `save_schedules` writes the file in place.

## Runs

Profiles on one game folder exercise every rule about *other* profiles, twins the
rule that their lists are one. Three mods give a stack with a middle, a shared and an
unshared dependency; two files, one the game's and one added by mods, are the two kinds
of file, and let a step fail on the second after the first. Two calls in flight are
enough for a stale read. The run with every fault has one mod over the game's
file, each fault being about one file.

| Run | Instance | Shows |
|---|---|---|
| `serial` | 1 call, two twin profiles and a third, 3 mods, 2 files, bulk disables of the third, copies that fail | `OriginalsKept`, `BackupsHoldOriginals`, `CleanWhenUnused`, `DiskFollowsLists`, `TwinsAgree`, `OneLibraryPerMod`, `KeepsPromise` (the refinement), and `CalmUse`, the invariant the proofs rest on |
| `live` | 2 calls, 1 profile, 1 mod, 1 file, every command and every fault, fair | `SavedWhenQuiet`, `OriginalGoesHome`, `CallsGetThrough` |
| `order` | 1 command, 3 mods, 2 files, redeploys that stop, bulk disables | `DiskFollowsOrder`, `PlacedTogether`, `UncontestedRight`, `PreviewIsWhatChanges`, `ReapplyRepairs` |
| `dependencies` | every library of 3 mods, lists of up to 2 | `ChainIsComplete`, `CycleMeansCycle` |
| `store` | 3 saves at once, deaths, failed writes and backups, damage from outside | `StoreInv`, `Implements` (the refinement), `LastWholeStays` |
| `jobs` | 2 jobs of three kinds, 2 profiles, skips, one Cancel all, room for one scope | `CutsAreAsked`, `DoneIsTrue`, `OneAtATime`, `JobsEnd` |
| `sweep` | 1 job beside one Enable all or Disable all, a dashboard, one Cancel all | `StopIsNotLowered`, `CancelReturns` |
| `scheduler_clock` | a daily task behind one for an event, two ticks that overlap, two windows, one change by hand, editor or API, one restart | `OnePerWindow`, `AllServed` |
| `scheduler_chain` | five tasks: start-up, dated, two that wait for each other, one for an event; one tick, a game, a restart, one run by hand | `AskedIsRun`, `ChainEnds` |
| `governor` | an install with one nested, an async one, a hash; a pause that runs out, a cancel, a game | `TypeOK`, `SleepersAreHeld`, `SlotsHold`, `OperationsEnd`, `CancelledEnd` |
| `hashing` | 1 mod, 2 task threads beside the window and the worker, 3 commands of every kind, cancels, one change of a file, one unplugging, fair | `CirclesAreKnown`, `NoneIsLost`, `CancelLeavesNoHalf`, `AskedIsHashed` |

The bounds, and why they suffice:

- `order`: a conflicts draft (`conflict_apply`) changes the pin of one file at a time and
  any order; `Blocks` holds three blocks (one mod, two against their order, one with a mod
  twice and possibly inactive). `DiskFollowsOrder` leaves out the files a cut redeploy, or
  a bulk disable above a pin, left `behind`, until the next reapply.
- `store`: `MaxVersion = 3` gives each of three saves a snapshot of its own, `MaxDamage = 1`
  one file that is not what the program wrote.
- `jobs`, `sweep`: `MaxJobs = 2` lets a job wait behind one that is stopped, `MaxScopes = 1`
  (256 in the code) has `jobs` forget the scope a late stop left behind; since one batch is
  at work at a time, a scope of a batch between two calls is never the one forgotten.
  `MaxClicks = 1` and `MaxSweeps = 1` are one user.
- `scheduler_*`: `MaxTime` is the last window, `ChainMax = 2` (8 in the code) lets a
  circle go round, `MaxUses` bounds what users do. The code starts a tick every 20 seconds
  and lets any number of them overlap: `scheduler_clock` has two. The task before its
  clock task is asked about at each tick, so that a tick stands still with a list it has
  read. An interval task beside the daily one (`MCTwoClocks`) was checked for both
  properties with one tick (`MaxTime = 3`, 101,318 states) and for `OnePerWindow` with two
  (1,757,741). `scheduler_chain` has one tick, `Ticks = {1}`: that ticks do not overlap
  and one run is made by hand are premises of `AskedIsRun` (the limits table).
- `governor`: `Chosen = 2` slots for three installs, of which one is nested; `MaxTime`,
  `PauseMax`, `MaxClicks`, `MaxGames` of 1 let each thing happen once, against 4 operations.
- `hashing`: `MaxCalls = 3` puts a command against the worker and two more against both;
  `MaxVersion = 2` is one change of the file. With one file a half baseline is an empty one.
  The run may stop (`CHECK_DEADLOCK FALSE`): activating and counting can end in a circle.

Larger instances, too long for a run, were explored for the invariants alone: `hashing` with two
mods and one task thread (2.7 million states); `live` with one call, two libraries, two
mods and no API, for `OneLibraryPerMod` under every fault (377 thousand). The type
invariants of `ModDeploy`, `LoadOrder`, `DependencyGraph`, `ActivationJobs`, `Scheduler`
and `HashQueue` say what the variables hold, and no run lists them on their own
(`CalmUse` has `ModDeploy`'s among its parts); all but `Scheduler`'s are proved.

The premises matter. `OriginalsKept` holds with one call at a time when only copies
into the game folder fail, and not beyond. This run shows a property violated that
the repository states; `PROJECT.json` quotes it.

| Run | Property | Because |
|---|---|---|
| `cancel` | `OriginalsKept` | the undo of a stopped enable deletes files that were never backed up (`mods.rs` 394) |

### The limits table

The same modules show these limits, by changing the constants of one of the
configurations. They are not runs of their own; where the repository says otherwise, the
row names it (a page without a path is one of `how-it-works/`). Every row was checked.

| Constants | Property that fails | Because |
|---|---|---|
| `cancel` with `Faults = {"restoreError"}` | `OriginalsKept` | a disable that failed half-way, tried again, deletes what it had restored (`fs_utils.rs` 1398) |
| `cancel` with `Faults = {"crash"}` or `{"backupError"}` | `OriginalsKept` | half a backup counts as the backup (`fs_utils.rs` 781, 957, against `profiles-activation.md` 132) |
| `cancel` with `Faults = {"switch"}` | `DiskFollowsLists` | a disable is recorded for the profile active at its end (`mods.rs` 1613, against `profiles-activation.md` 76) |
| `cancel` with `Ops = {o1, o2}`, no fault | `OriginalsKept`, `BackupsHoldOriginals` | the survey of mods' files is older than the worker that uses it (`mods.rs` 1249, against `conflicts.md` 90) |
| the same with `Calls = {"enable"}`, `Faults = {"switch"}` | `OneLibraryPerMod` | the exclusion is checked before and recorded after the worker step (`mods.rs` 1295, against `profiles-activation.md` 62) |
| `cancel` with `Calls = {"enable", "bulk"}`, `BulkGroups = {{1, 2}}`, no fault | `CleanWhenUnused` | two tasks on one game folder put each other's mods back |
| `cancel` with `NProfiles = 1`, `Library <- OneProfile`, no fault | `ChainIsLetGo` | what a disable spares holds every active mod, so its cascade takes none down (`mods.rs` 1650) |
| `cancel` with `Calls = {"api", "disable"}`, no fault | `OriginalsKept` | the API changes the list and not the folder (`api/mod.rs` 1986, against `profiles-activation.md` 116) |
| `serial` with `BulkGroups = {{1}}` | `TwinsAgree` | a bulk disable changes the asked profiles' lists only (`mods.rs` 2985, against `profiles-activation.md` 61); an order list asks for one (`order_lists.rs` 832) |
| `order` with `Ops = {o1, o2}`, `Calls = {"enable", "set"}`, no fault | `DiskFollowsOrder`, `ReorderKeepsActive` | a reorder writes over what was enabled meanwhile (`mod_order.rs` 670, against its line 283) |
| `sweep` | `NoStaleFlag` | a Cancel all behind Enable all leaves the global flag up, each side leaving it to the other (`fs_utils.rs` 271, `mods-actions.ts` 131, against its line 129; `mods.rs` 2820 lowers it) |
| `jobs` | `KeepsToItsProfile` | a job looks at the active profile once (`activation-jobs.ts` 498, against its line 44) |
| `jobs` with `Others = {"skip", "dashboard"}` | `DoneIsTrue`, `CutsAreAsked` | an operation stopped by somebody else answers Ok and is shown as done (`activation-jobs.ts` 518) |
| `scheduler_clock`, even with `MaxUses <- MCNoUses` | `OnceAWindow` | a run is recorded at its end, and the next tick does not wait for it (`scheduler.ts` 711, 1459, against `features/scheduler.md` 51, 53) |
| the same with `Ticks = {1}`, `MaxUses <- MCClockUses` | `OnceAWindow` | a run that is not in the list yet when the program ends, or the list is read again, is done again (`scheduler.ts` 1459, 432) |
| `scheduler_clock` with `TaskList <- MCHeldTasks`, `MaxUses <- MCNoUses` | `HeldIsRunOnce` | each tick goes through its own copy of what is owed (`scheduler.ts` 1108, against its line 1097) |
| `scheduler_clock` with `MaxUses <- MCHandUses` | `RunIsShown` | two runs of one task share one mark, which the first to end takes away (`scheduler.ts` 1456) |
| `scheduler_chain` with `hand = 2` | `AskedIsRun` | a second end of the task waited for, before the poll, replaces the first (`scheduler.ts` 905) |
| `scheduler_chain` with `Ticks = {1, 2}` and the tasks `start`, `ping`, `pong` | `AskedIsRun` | both ticks run `start`, which is owed (`scheduler.ts` 1108), so that it ends twice before the poll and the second end replaces the first (905) |
| `store` with `"restore"` in `Faults` | `LastWholeStays` | a copy back from `.bak` that fails is not looked at (`state.rs` 488) |
| `store` with `Kind <- Mixed` | `Implements`, `NeverHalf` | writers that go round `save` share its temporary file (`state.rs` 511, 579) |
| `governor` | `ReleasedAfterGame` | `begin` reads the game's state, pauses and notes it in three steps (`runtime.rs` 277, against 137) |
| `governor` | `OwnPausesOnly` | the refresh takes over a ticket the user has paused (`runtime.rs` 145, against 39) |
| `governor` with `ClockRuns = TRUE` | `SleepersAreHeld`, `OperationsEnd` | a pause that ends between two readings of the clock leaves no timer (`queue.rs` 116, 300) |
| `hashing` with `Calls = {"enable"}` | `NobodyIsStuck` | an activation holds the priority queue and asks for the data, the worker holds the data and asks for the queue (`mods.rs` 3757, 3865, against `integrity-hashing.md` 130): both wait for ever, and everybody after them |
| `hashing` with `Calls = {"stats"}` | `NobodyIsStuck` | the counts hold the normal queue and ask for the other, the worker the reverse (`mods.rs` 3582, 3788) |
| `hashing` with `Calls = {"populate", "rehash"}`, no fault | `RehashIsNow` | a re-hash of the mod the worker has just read is ignored (`mods.rs` 4022, against `integrity-hashing.md` 144) |
| `hashing` with `Calls = {"populate"}`, `Faults = {"unplug"}` | `BaselinesAreWhole` | a drive that goes away under the hash leaves part of a baseline (`fs_utils.rs` 738, against `scanning-cache.md` 97) |
| `hashing` with `Calls = {"check"}`, `Faults = {"unplug"}` | `BaselinesAreWhole` | a check of a mod without a baseline stores whatever it could read, even nothing (`mods.rs` 3400, 3444) |
| the same with `MaxPulls = 2`; or `Calls = {"check", "delete"}`, no unplugging | `NothingShutOut` | a check's verdict lands on a mod without a baseline, which background hashing then passes over (`mods.rs` 3461) |

### Fairness

`FairSpec` assumes that a worker that can go on goes on (`WF` of `WorkerStep`: a
process the system schedules) and that each call does (`WF` of its `Step`: the async
runtime resumes it, `MOD_OP_LOCK` wakes a waiter). Nothing is assumed of users, faults
or other clients. `std::sync::Mutex` is not fair, which weak fairness expresses: a
waiter may lose the lock to a newcomer each time. So `CallsGetThrough` does not say that
every call ends: it says that a call is idle again and again, or else that other calls
keep getting to their ends meanwhile. A lock that was kept, a worker nobody
collects or a stop that strands its call would break it.

Elsewhere, too, what is assumed is the machine and never a user:

- jobs: commands are delivered, the runtime resumes each, a worker ends, and the
  interface runs its continuations (`WF` of each).
- scheduler: the timer fires, answers arrive, a run ends and so does a game; nothing is
  assumed of the user, the API or the clock. That a tick's awaits are answered (`Awaits`) is
  weak fairness of its `TickStep` written without `ENABLED`, which TLC is slow to evaluate.
- governor: operations under way go on, timers fire, the clock moves while a bounded pause
  is on, a refresh that has begun ends. Nobody has to begin, resume or cancel, and a game
  need not end.
- hash queue: the worker goes on (`WF`); commands and task threads go on (`SF`): the
  worker gives each mutex back and then sleeps half a second or more, so that whoever
  waits gets it. Nobody has to give a command, and `AskedIsHashed` asks nothing of a
  worker that is switched off or caught in a circle.

## Proofs

The cascade of `disable_mod_in` has no action: `NoOrphans` proves that the set it would
work through is empty, whatever is active, so that a disable ends with its save.

Proved for every library, number of profiles, number of calls in flight, every command and
every fault, from `Library_Assumption` alone (which TLC evaluates in every `ModDeploy` run):

- `TypeCorrect`: `Spec => []TypeOK`. `TypeOK` is not inductive: starting a worker
  needs the call's mod, a restore needs a backup to restore from, and a backup that
  ends must not be one that was whole. `TypeInv` adds those four facts.
- `OriginalsGoHome`: `Spec => OriginalGoesHome`. Each action that shortens a backup
  folder is shown to write that file home in the same step; the others are shown to
  keep every whole backup, with `BackupUnderWay` for the end of a backup.
- `ListsAreSaved`: `Spec => []SavedWhenQuiet`, by `SavePending`: lists that differ from
  `data.json` belong to a call that still has its save before it. A stop, an error and
  a crash each have to keep that.

The lemmas under them say what the list operators return: a last mod exists among active
ones, positions stay in range when a mod leaves, the fallback provides the file.

Proved under `Calm` as well (one call at a time, nothing fails but copies into the game
folder, no API calls, bulk disables of one profile without twins), for every library,
number of profiles and choice of files:

- `OriginalsAreKept`, `BackupsAreOriginals`, `DisablingUndoes`, `TwinsShareOneList`,
  `ModsHaveOneLibrary`: `OriginalsKept`, `BackupsHoldOriginals`, `CleanWhenUnused`,
  `TwinsAgree`, `OneLibraryPerMod`, at every moment.
- `FilesFollowLists`: `DiskFollowsLists`. `CalmUseStaysRight`: the invariant they rest on.
- `PromiseIsKept`: `Spec => KeepsPromise`, that `ModDeploy` implements `DeployPromise`.

None of these is inductive: whether a file may be overwritten, deleted or backed up
depends on what the call read some steps ago. `CalmInv` says that this is still so
(`CallsKnow`, `WorkerKnows`) and follows each file through a deploy, its rollback and a
removal: at rest it is `Settled` (pristine and unbacked when no active mod ships it, its
original in exactly one backup folder otherwise); once a deploy has begun it, its
journal entry suffices to mend it (`CanMend`); a removal has either not touched it or
settled it for the mods that stay (`Removed`). `FileStep`, `CallStepCalm`, `StartCalm`
and `EndCalm` are the four kinds of step; each action is one of them. The lists come in
through `ListsGain` and `ListsLose`, and the plan of a removal through `NothingUnder`:
the fallbacks are `Nothing` exactly for files no remaining mod ships.

Whose copy a file is needs more, `DiskInv`: the copy that belongs there (`RightCopy`) is in
the folder (`Follows`), or in the stash of the deploy that is replacing it, or in the plan of
the removal that will put it back. `FallbackRight` and `BatchFallbackRight` show the two
ways a removal plans it correct although the one reads its own profile first and the
others' lists after, and the other reads all lists in the stored order; they need
`TwinsAgree` and `OneLibraryPerMod` (mods all in one profile's list are in its twins' lists
only). `RightWhenListsGain` and `RightWhenListsLose` carry it over the two kinds of record,
from what `push` and `retain` do to the order of a list (`PushedLast`, `RetainedOrder`) and
from its places having no gap (`ListsCompact`).

`DeployPromise` has neither worker, backups nor journal: a call is made, it puts the first
mod left of its chain at the end of the lists of a profile and its twins, or takes all its
mods from them, it may give up the rest, and when it ends its files are what the lists of
then ask for. `JobOf` maps a call in flight to that, and the files of its mods are hidden
while it is (`Shown`). `WorkerFiles` shows every step of a worker to be on such a file, so
that it stutters; a record is `Add` or `Remove`, an error and a refusal `GiveUp`, a save
`End`. Besides the invariants above this takes `ChainInv`: a mod being enabled is in the
chain of the mod asked for, and the first of those left. A step that touched a file of
another mod, a chain taken out of order, a twin forgotten in between or a file left wrong
by a rollback is none of the promise's steps. What the files are while their call is under
way is not the promise's to say, but `OriginalsKept`'s.

The run `serial` is a calm instance and checks `Calm`, `TypeInv`, `CalmInv`, `DiskInv` and
`ChainInv` (`CalmUse`). `Calm` cannot be dropped: the run `cancel`, and of the limits those on restores, crashes, two calls,
two tasks, twins and the API, each give up one of its clauses and lose one of these
properties.

Proved of the data store, for any number of savers, with deaths, failed writes, failed
backups and damage, while every saver is `AppState::save` (`OnlySave`) and a copy back
from `.bak` does not fail:

- `StoreIsOrdered`: `Spec => []StoreInv`. Types alone are not inductive. `OneWriter` says
  that only the holder of `SAVE_ORDER` has a file open, `NoneOlder` that what is in hand is
  no older than what is on disk, `Repaired` that a running program has a whole `data.json`,
  which the next save may roll to `.bak`.
- `TheLastWholeStays`: `Spec => LastWholeStays`, from the same invariant, step by step.
- `StoreKeepsItsPromise`: `Spec => Implements`. `DurableStore` with `durable` mapped to what
  a start would load (`Loaded`): a rename persists, a start or an end of a save answers,
  everything else stutters.

Proved of the governor, for any operations, threads and slots, from the assumptions on
its constants (`Ops_Assumption`, `Nested_Assumption`, `Bounds_Assumption`):

- `TypeCorrect`: `Spec => []TypeOK`, which is inductive here.
- `NoWakeUpIsLost`: `Spec => []SleepersAreHeld` while the clock stands still within one
  checkpoint (`~ClockRuns`). It needs `TimersAreSet`: whoever sleeps through a pause of
  everything has its end as a timer, unless something without an end holds it.
- `SlotsAreKept`: `Spec => SlotsHold`. `OneRoot` (one operation per thread is not nested)
  and `Enclosed` (what a live operation is nested in is live) make a ticket of the same
  kind on the same thread the one it is nested in.

Proved of the hash queue, for any library, threads and commands, from
`Threads_Assumption` and `Data_Assumption`:

- `CirclesAreKnownHold`: `Spec => []CirclesAreKnown`. `HoldersMatch` says where each
  holder of a mutex is. Who waits for the normal queue waits for a count; who waits for
  the priority queue waits for an activation, or for somebody who waits for the normal
  queue: a circle without either command has nowhere to close.
- `NobodyWaitsForEver`: with neither command given, `Spec => []NobodyIsStuck`: nobody comes
  to the places of those two (`NoneContrary`). It says what a repair has to change.
- `TypeCorrect`: `Spec => []TypeOK`, by `TypeInv`, which also knows what a thread has in
  hand at each place.
- `NoneIsLostHolds`: `Spec => []NoneIsLost`. A mod leaves a queue only into a hand, and a
  hand lets go of it where `due` does. The step to look at is a push: the list was read
  under an earlier hold of the data, thinned out by the queue of now, and what
  was thinned out is still there. The types are all it needs besides: it does not matter
  in which order the three mutexes are taken.
- `CancelLeavesNoHalfHolds`: `Spec => []CancelLeavesNoHalf`, by `PluggedIn`: until the
  drive is first pulled, a pass has read every file it no longer has left to read
  (`PassesAreWhole`), so that what it stores is whole, and a cancel stores nothing.

Proved of the activation order, for any mods, files, blocks and commands, from
`Order_Assumption`:

- `TypeCorrect`: `Spec => []TypeOK`, with any number of commands in flight. That the order
  never names a mod twice has to survive a `commit` of a list read before another mod was
  enabled, and a block with a mod twice or with mods that are off.
- `PlacedTogetherHolds`: `Spec => []PlacedTogether`, likewise without a premise: it is a
  fact about `PlaceBlock` for every list, block and place.

With one command at a time (`OneAtATime`: any two members of `Ops` are one), and any faults:

- `UncontestedRightHolds`, `DiskFollowsOrderHolds`, `ReapplyRepairsHolds`,
  `PreviewIsWhatChangesHolds`. They follow from `OrderInv`, which says for each place of a
  command what the worker still has to do: between commands a file is its winner's copy or
  a shared one `behind` (`Settled`); a reorder's copies are the winners of shared files and
  what it does not copy is settled (`ReorderWrites`); a toggle's worker has written before
  the list says so, and pins it wrote over are put back before the call ends (the places
  "record" and "pins"). `EnabledWinners` and `LeftWinners` say whose a file becomes when a mod
  comes or goes. `OneAtATime` cannot be dropped: two commands lose `DiskFollowsOrder` and
  `ReorderKeepsActive` (the row on `mod_order.rs` 670).

Proved of the activation jobs, for any library, requests, jobs, clicks and scopes, from
the assumptions on their constants:

- `TypeCorrect`: `Spec => []TypeOK`. A line names a mod, a message a job that exists, and a
  call a mod of its job only because `RunnerInv` and `CallInv` say whose job runs and that
  it has one call under way, in the mail or at work.
- `OneAtATimeHolds`: `Spec => OneAtATime`, from the list being the jobs that are not over,
  in their order.
- `StopIsNotLoweredHolds`: `Spec => StopIsNotLowered`. `LowerInv` is about the mail: a
  `lower` is never behind the `sweep` that starts Enable all, and none is sent while it works.
- `CutsAreAskedHolds` and `DoneIsTrueHolds`: `Spec => []CutsAreAsked` and
  `Spec => DoneIsTrue`, as long as the governor's dashboard cancels nothing (`"dashboard"
  \notin Others`); with it both fail (the row on `activation-jobs.ts` 518). `StopInv` follows
  a stop from the click to the worker: those under way are of jobs that were stopped
  (`SentInv`), a Cancel all or a kill not meant for the job that runs is never behind that
  job's call (`AllsInv`, `KillsInv`), and a scope that is cut, or older than the epoch, is of
  a stopped job (`ScopesInv`). `CutInv` says what is cut was asked for, `CoverInv` that the
  backend accounts for every mod of a batch before it answers.

Proved of the dependencies, for libraries of any size and any lists, from the assumptions of
`DependencyGraph` on its constants:

- `ChainIsCompleteHolds`: `Spec => []ChainIsComplete`, and `CycleMeansCycleHolds`:
  `Spec => []CycleMeansCycle`, with `TypeCorrect`, by which the library is finite.
- `VisitGoes` is one statement about a walk into a mod, and `ResolveGoes` has it for every
  depth by the least one at which it fails. The mods a walk has left (`Done`) need only each
  other and are on no circle, those on the path each lead to the mod that is visited
  (`LeadsTo`), and everything in the chain is reached from where the walk began (`Sound`).
  A mod can be entered as long as the depth left is no less than the mods not yet in the
  chain (`MayEnter`); entering it takes one from both. That `VisitsOf` is the function its
  recursive definition describes is shown likewise, by `Recursion` of `ListLemmas`.

The strengthenings above were first checked by TLC on the same instances: `OrderInv` on
`order`, the jobs' on `jobs` and `sweep` (without the dashboard for the last two).

Only model-checked: `OneLibraryPerMod` with two libraries and every fault;
`OnePerWindow` and `AskedIsRun` of the scheduler; and every liveness property, since the
prover handles neither fairness nor ENABLED. (The library's induction theorems take an
operator and cannot be used: where a proof needs induction, over a list, the winners or the
depth of a walk, it argues by the least counterexample, `LeastOf` in `ListLemmas`.)

## Not modelled, and the plan

Files are opaque: no sizes, directories, archives or paths that differ only in
spelling. Pool threads that hash for several operations and call `checkpoint`
(`repo_validate.rs` 174, `repo.rs` 4286, against `queue.rs` 331) are outside the governor's
model, and so are second callers of its refresh (`set_game_manual`, `configure`).
Repositories, updates, the MCP server, plugins and views are not modelled (see
`components` for each reason). What is left, in order:

1. Profiles created, re-pointed and deleted; mods added, changed and removed while
   calls are in flight; a worker that outlives the program.
2. The scheduler's other triggers, its retries and its run log; repository following.
3. Theorems: `OnePerWindow` of the scheduler, for any number of ticks, and `AskedIsRun`.
