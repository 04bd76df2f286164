------------------------------- MODULE ModDeploy -------------------------------
(****************************************************************************)
(* Activating and deactivating mods in one game folder                      *)
(* (src/src-tauri/src/commands/mods.rs and fs_utils.rs).                    *)
(*                                                                          *)
(* Several profiles deploy into the same game folder, each with a backup    *)
(* folder of its own (`_original/`).  A call (an operation of Ops) plans    *)
(* under the data lock, waits for MOD_OP_LOCK, has a worker process change  *)
(* the files one by one, and records the outcome under the data lock again. *)
(* Nothing but the worker step is covered by MOD_OP_LOCK, so calls in       *)
(* flight together interleave everywhere else.                              *)
(*                                                                          *)
(* A file's content is abstracted to whose copy it is.  A profile is its    *)
(* place in the stored list of profiles; an activation list is kept as each *)
(* mod's 1-based position in it, 0 for a mod that is not active.            *)
(****************************************************************************)
EXTENDS Naturals, FiniteSets, Sequences

CONSTANTS
    Mods,        \* the library
    Files,       \* relative paths in the game folder
    NProfiles,   \* profiles deploying into the game folder
    Ops,         \* calls that can be in flight together
    Ships,       \* the files of each mod's folder
    Originals,   \* the files the game itself has
    Library,     \* each profile's mods folder (the profiles of one are twins)
    Deps,        \* each mod's direct dependencies in the same profile
    Chain,       \* each mod's resolve_dependencies answer, the mod itself first
    Calls,       \* the commands the users of this instance issue
    BulkGroups,  \* the sets of profiles disable_mods_for_profiles is asked for
    Faults,      \* what may go wrong in this instance
    Orig, Torn, Nothing, NoOp

Profiles == 1 .. NProfiles
Ranks    == 0 .. Cardinality(Mods)
Contents == Mods \cup {Orig, Torn, Nothing}
Commands == {"enable", "disable", "bulk", "api"}
Mishaps  == {"cancel", "crash", "switch", "copyError", "backupError", "restoreError"}

ASSUME Library_Assumption ==
    /\ NProfiles \in Nat \ {0}
    /\ IsFiniteSet(Mods) /\ Mods \cap {Orig, Torn, Nothing} = {}
    /\ Orig # Torn /\ Orig # Nothing /\ Torn # Nothing
    /\ Ops # {} /\ NoOp \notin Ops
    /\ Ships \in [Mods -> SUBSET Files] /\ Originals \subseteq Files
    /\ DOMAIN Library = Profiles
    /\ Deps \in [Mods -> SUBSET Mods]
    /\ Chain \in [Mods -> Seq(Mods)]
    /\ \A m \in Mods : \E i \in DOMAIN Chain[m] : Chain[m][i] = m
    /\ Calls \subseteq Commands /\ BulkGroups \subseteq SUBSET Profiles
    /\ Faults \subseteq Mishaps

VARIABLES
    game,    \* whose copy of each file is in the game folder
    backup,  \* each profile's _original/ folder
    at,      \* each profile's activation list, in memory
    saved,   \* the lists of the last data.json written
    cur,     \* the active profile
    op,      \* the calls in flight
    worker   \* the worker step holding MOD_OP_LOCK

vars == <<game, backup, at, saved, cur, op, worker>>

----------------------------------------------------------------------------
(* Activation lists *)

FilesOf(S) == UNION {Ships[m] : m \in S}
Active(p)  == {m \in Mods : at[p][m] > 0}
OnFolder   == UNION {Active(p) : p \in Profiles}
Twins(p)   == {q \in Profiles : Library[q] = Library[p]}
InChain(m) == {Chain[m][i] : i \in DOMAIN Chain[m]}

Pushed(list, m) ==
    IF list[m] > 0 THEN list
    ELSE [list EXCEPT ![m] = Cardinality({n \in Mods : list[n] > 0}) + 1]

Retained(list, gone) ==
    [n \in Mods |->
        IF list[n] = 0 \/ n \in gone THEN 0
        ELSE 1 + Cardinality({x \in Mods \ gone : 0 < list[x] /\ list[x] < list[n]})]

LastOf(list, S) == CHOOSE m \in S : \A n \in S : list[n] <= list[m]
Least(S)        == CHOOSE q \in S : \A r \in S : q <= r
Greatest(S)     == CHOOSE q \in S : \A r \in S : r <= q

\* The last of the mods S in the lists of the profiles Q read one after the
\* other, each mod counted where it is met first.
LastInLists(Q, S) ==
    LET home == [m \in S |-> Least({q \in Q : m \in Active(q)})]
        last == Greatest({home[m] : m \in S})
    IN  LastOf(at[last], {m \in S : home[m] = last})

Providing(S, f) == {m \in S : f \in Ships[m]}

\* Mutant: only this profile's mods are looked at.
FallbackOwn(p, gone, f) ==
    LET own == Providing(Active(p) \ gone, f)
    IN  IF own = {} THEN Nothing ELSE LastOf(at[p], own)

\* shared_fallback_order: this profile's remaining mods win over the mods that
\* only other profiles have on the folder.
Fallback(p, gone, f) ==
    LET own    == Providing(Active(p) \ gone, f)
        owners == Providing(OnFolder \ (Active(p) \cup gone), f)
    IN  CASE own # {}                     -> LastOf(at[p], own)
          [] own = {} /\ owners # {}      -> LastInLists(Profiles \ {p}, owners)
          [] own = {} /\ owners = {}      -> Nothing

\* plan_batch_disable: every list of the folder, this task's mods left out.
BatchFallback(gone, f) ==
    LET remaining == Providing(OnFolder \ gone, f)
    IN  IF remaining = {} THEN Nothing ELSE LastInLists(Profiles, remaining)

----------------------------------------------------------------------------
(* Calls and the worker *)

NoFile == [f \in Files |-> Nothing]

NoCall == [kind |-> "none", phase |-> "idle", prof |-> 1, target |-> Nothing,
           mod |-> Nothing, todo |-> {}, others |-> {}, files |-> {}, under |-> NoFile,
           group |-> {}, tasks |-> {}, gone |-> {},
           mine |-> [p \in Profiles |-> {}], stop |-> FALSE]

NoWork == [by |-> NoOp, task |-> "none", undo |-> FALSE, prof |-> 1, mod |-> Nothing,
           files |-> {}, others |-> {}, under |-> NoFile,
           stage |-> [f \in Files |-> "todo"], mend |-> [f \in Files |-> "none"],
           stash |-> NoFile]

Phases == {"idle", "survey", "next", "wait", "work", "record", "save"}
Stages == {"todo", "backup", "ready", "copy", "done", "failed"}
Mends  == {"none", "remove", "restore", "unbackup", "stash"}

CallRecords ==
    [kind : {"none"} \cup Commands, phase : Phases, prof : Profiles,
     target : Mods \cup {Nothing}, mod : Mods \cup {Nothing}, todo : SUBSET Mods,
     others : SUBSET Files, files : SUBSET Files, under : [Files -> Contents],
     group : SUBSET Profiles, tasks : SUBSET Profiles, gone : SUBSET Mods,
     mine : [Profiles -> SUBSET Mods], stop : BOOLEAN]

WorkRecords ==
    [by : Ops \cup {NoOp}, task : {"none", "apply", "unapply", "rollback"}, undo : BOOLEAN,
     prof : Profiles, mod : Mods \cup {Nothing}, files : SUBSET Files,
     others : SUBSET Files, under : [Files -> Contents], stage : [Files -> Stages],
     mend : [Files -> Mends], stash : [Files -> Contents]]

TypeOK ==
    /\ game \in [Files -> Contents]
    /\ backup \in [Profiles -> [Files -> Contents]]
    /\ at \in [Profiles -> [Mods -> Ranks]]
    /\ saved \in [Profiles -> [Mods -> Ranks]]
    /\ cur \in Profiles
    /\ op \in [Ops -> CallRecords]
    /\ worker \in WorkRecords

Init ==
    /\ game = [f \in Files |-> IF f \in Originals THEN Orig ELSE Nothing]
    /\ backup = [p \in Profiles |-> NoFile]
    /\ at = [p \in Profiles |-> [m \in Mods |-> 0]]
    /\ saved = at
    /\ cur = 1
    /\ op = [o \in Ops |-> NoCall]
    /\ worker = NoWork

disk  == <<game, backup>>
lists == <<at, saved, cur>>

----------------------------------------------------------------------------
(* enable_mod_in *)

\* Under the data lock: the active profile, the dependency chain, what of it is
\* not active yet.
EnableBegin(o, m) ==
    /\ "enable" \in Calls /\ op[o].phase = "idle"
    /\ InChain(m) \ Active(cur) # {}
    /\ op' = [op EXCEPT ![o] = [NoCall EXCEPT !.kind = "enable", !.phase = "survey",
                  !.prof = cur, !.target = m, !.todo = InChain(m) \ Active(cur)]]
    /\ UNCHANGED <<disk, lists, worker>>

\* Mutant: only the files of this profile's mods are known.
EnableSurveyOwn(o) ==
    /\ op[o].kind = "enable" /\ op[o].phase = "survey"
    /\ op' = [op EXCEPT ![o].phase = "next", ![o].others = FilesOf(Active(op[o].prof))]
    /\ UNCHANGED <<disk, lists, worker>>

\* Under the data lock again: active_files_set, every file a mod of any profile
\* has put in this game folder.
EnableSurvey(o) ==
    /\ op[o].kind = "enable" /\ op[o].phase = "survey"
    /\ op' = [op EXCEPT ![o].phase = "next", ![o].others = FilesOf(OnFolder)]
    /\ UNCHANGED <<disk, lists, worker>>

\* Mutant: the mods of a chain are taken in any order.
FirstAny(o, m) == m \in op[o].todo

\* The head of the chain's loop.
FirstOf(o, m) ==
    /\ m \in op[o].todo
    /\ \E i \in DOMAIN Chain[op[o].target] :
          /\ Chain[op[o].target][i] = m
          /\ \A j \in 1 .. i - 1 : Chain[op[o].target][j] \notin op[o].todo

\* Mutant: a mod active in another profile is not refused.
EnableNextAny(o, m) ==
    /\ op[o].kind = "enable" /\ op[o].phase = "next" /\ ~op[o].stop
    /\ FirstOf(o, m)
    /\ op' = [op EXCEPT ![o].phase = "wait", ![o].mod = m, ![o].todo = @ \ {m}]
    /\ UNCHANGED <<disk, lists, worker>>

EnableNext(o, m) ==
    /\ op[o].kind = "enable" /\ op[o].phase = "next" /\ ~op[o].stop
    /\ FirstOf(o, m)
    /\ \A q \in Profiles \ {op[o].prof} : m \notin Active(q)
    /\ op' = [op EXCEPT ![o].phase = "wait", ![o].mod = m, ![o].todo = @ \ {m}]
    /\ UNCHANGED <<disk, lists, worker>>

\* The chain ends: it is done, it was stopped, or its next mod is refused (active
\* in another profile, an archive that cannot be extracted, not enough space).
EnableLeave(o) ==
    /\ op[o].kind = "enable" /\ op[o].phase = "next"
    /\ op' = [op EXCEPT ![o].phase = "save"]
    /\ UNCHANGED <<disk, lists, worker>>

EnableStart(o) ==
    /\ op[o].kind = "enable" /\ op[o].phase = "wait" /\ ~op[o].stop
    /\ worker.by = NoOp
    /\ op' = [op EXCEPT ![o].phase = "work"]
    /\ worker' = [NoWork EXCEPT !.by = o, !.task = "apply", !.prof = op[o].prof,
                      !.mod = op[o].mod, !.files = Ships[op[o].mod], !.others = op[o].others]
    /\ UNCHANGED <<disk, lists>>

\* Mutant: the twins are forgotten.
EnableRecordAlone(o) ==
    /\ op[o].kind = "enable" /\ op[o].phase = "record"
    /\ at' = [at EXCEPT ![op[o].prof] = Pushed(@, op[o].mod)]
    /\ op' = [op EXCEPT ![o].phase = "next", ![o].others = @ \cup Ships[op[o].mod],
                        ![o].mod = Nothing]
    /\ UNCHANGED <<disk, saved, cur, worker>>

\* The commit after the worker step: the profile and its twins, then the next of
\* the chain knows these files are a mod's.
EnableRecord(o) ==
    /\ op[o].kind = "enable" /\ op[o].phase = "record"
    /\ at' = [p \in Profiles |-> IF p \in Twins(op[o].prof) THEN Pushed(at[p], op[o].mod)
                                                            ELSE at[p]]
    /\ op' = [op EXCEPT ![o].phase = "next", ![o].others = @ \cup Ships[op[o].mod],
                        ![o].mod = Nothing]
    /\ UNCHANGED <<disk, saved, cur, worker>>

----------------------------------------------------------------------------
(* disable_mod_in *)

\* The plan, made under the data lock in one piece.
DisablePlan(c, m) ==
    [c EXCEPT !.phase = "wait", !.prof = cur, !.mod = m, !.files = Ships[m],
              !.under = [f \in Files |-> IF f \in Ships[m] THEN Fallback(cur, {m}, f)
                                                           ELSE Nothing]]

DisableBegin(o, m) ==
    /\ "disable" \in Calls /\ op[o].phase = "idle" /\ m \in Active(cur)
    /\ op' = [op EXCEPT ![o] = DisablePlan([NoCall EXCEPT !.kind = "disable",
                                                           !.target = m], m)]
    /\ UNCHANGED <<disk, lists, worker>>

DisableStart(o) ==
    /\ op[o].kind = "disable" /\ op[o].phase = "wait" /\ ~op[o].stop
    /\ worker.by = NoOp
    /\ op' = [op EXCEPT ![o].phase = "work"]
    /\ worker' = [NoWork EXCEPT !.by = o, !.task = "unapply", !.prof = op[o].prof,
                      !.mod = op[o].mod, !.files = op[o].files, !.under = op[o].under]
    /\ UNCHANGED <<disk, lists>>

\* The lists that lose the mod are those of the profile active NOW and its twins.
DisableRecord(o) ==
    /\ op[o].kind = "disable" /\ op[o].phase = "record"
    /\ at' = [p \in Profiles |-> IF p \in Twins(cur) THEN Retained(at[p], {op[o].mod})
                                                     ELSE at[p]]
    /\ op' = [op EXCEPT ![o].phase = "save"]
    /\ UNCHANGED <<disk, saved, cur, worker>>

\* After its save a disable would go on with these: the direct dependencies still
\* active that are in no active mod's chain.  There are none, as an active mod is
\* in its own chain (NoOrphans in ModDeployProofs), so the call ends with Save.
Orphans(m) ==
    {d \in Deps[m] \cap Active(cur) : \A n \in Active(cur) : d \notin InChain(n)}

----------------------------------------------------------------------------
(* disable_mods_for_profiles *)

\* The mods of `wanted` that are active in each asked profile, one task per
\* backup folder.
BulkBegin(o, asked, wanted) ==
    /\ "bulk" \in Calls /\ op[o].phase = "idle"
    /\ LET touched == {p \in asked : Active(p) \cap wanted # {}}
       IN  /\ touched # {}
           /\ op' = [op EXCEPT ![o] = [NoCall EXCEPT !.kind = "bulk", !.phase = "next",
                         !.group = touched, !.tasks = touched, !.gone = wanted,
                         !.mine = [p \in Profiles |-> IF p \in touched
                                                      THEN Active(p) \cap wanted ELSE {}]]]
    /\ UNCHANGED <<disk, lists, worker>>

\* One task: the union of its mods' files, over the mods that stay.
BulkNext(o, p) ==
    /\ op[o].kind = "bulk" /\ op[o].phase = "next" /\ p \in op[o].tasks
    /\ LET files == FilesOf(op[o].mine[p])
       IN  op' = [op EXCEPT ![o].phase = "wait", ![o].prof = p, ![o].tasks = @ \ {p},
                     ![o].files = files,
                     ![o].under = [f \in Files |-> IF f \in files
                                      THEN BatchFallback(op[o].mine[p], f) ELSE Nothing]]
    /\ UNCHANGED <<disk, lists, worker>>

BulkStart(o) ==
    /\ op[o].kind = "bulk" /\ op[o].phase = "wait" /\ worker.by = NoOp
    /\ op' = [op EXCEPT ![o].phase = "work"]
    /\ worker' = [NoWork EXCEPT !.by = o, !.task = "unapply", !.prof = op[o].prof,
                      !.files = op[o].files, !.under = op[o].under]
    /\ UNCHANGED <<disk, lists>>

BulkRecord(o) ==
    /\ op[o].kind = "bulk" /\ op[o].phase = "next" /\ op[o].tasks = {}
    /\ at' = [p \in Profiles |-> IF p \in op[o].group THEN Retained(at[p], op[o].gone)
                                                      ELSE at[p]]
    /\ op' = [op EXCEPT ![o].phase = "save"]
    /\ UNCHANGED <<disk, saved, cur, worker>>

\* Mutant: a call that was stopped does not save.
SaveUnlessStopped(o) ==
    /\ op[o].phase = "save"
    /\ saved' = IF op[o].stop THEN saved ELSE at
    /\ op' = [op EXCEPT ![o] = NoCall]
    /\ UNCHANGED <<disk, at, cur, worker>>

\* The save that ends an enable chain, a disable or a bulk disable.
Save(o) ==
    /\ op[o].phase = "save"
    /\ saved' = at
    /\ op' = [op EXCEPT ![o] = NoCall]
    /\ UNCHANGED <<disk, at, cur, worker>>

----------------------------------------------------------------------------
(* The worker: apply_mod_stacked, one file after the other or several at once *)

Set(f, s) == [worker EXCEPT !.stage[f] = s]
NoneFailed == \A f \in Files : worker.stage[f] # "failed"

\* backup_original_file writes the copy when the profile has none yet and the
\* file in the game folder is not known to be a mod's.
NeedsBackup(f) ==
    game[f] # Nothing /\ backup[worker.prof][f] = Nothing /\ f \notin worker.others

\* What a rollback will do for a file that was not backed up now.
MendFor(f) ==
    CASE game[f] = Nothing                                                -> "remove"
      [] game[f] # Nothing /\ backup[worker.prof][f] # Nothing
                           /\ f \notin worker.others                      -> "restore"
      [] OTHER                                                            -> "stash"

ApplyFile(f) ==
    /\ worker.task = "apply" /\ NoneFailed
    /\ f \in worker.files /\ worker.stage[f] = "todo"
    /\ IF NeedsBackup(f)
       THEN /\ backup' = [backup EXCEPT ![worker.prof][f] = Torn]
            /\ worker' = Set(f, "backup")
       ELSE /\ worker' = [worker EXCEPT !.stage[f] = "ready", !.mend[f] = MendFor(f),
                                        !.stash[f] = game[f]]
            /\ UNCHANGED backup
    /\ UNCHANGED <<game, lists, op>>

BackupWritten(f) ==
    /\ worker.task = "apply" /\ worker.stage[f] = "backup"
    /\ backup' = [backup EXCEPT ![worker.prof][f] = game[f]]
    /\ worker' = [worker EXCEPT !.stage[f] = "ready", !.mend[f] = "unbackup"]
    /\ UNCHANGED <<game, lists, op>>

\* A backup copy that fails: the error is dropped.  A half that now exists under
\* _original counts as the backup made; without one the file is stashed for the
\* time of the deploy.
BackupFails(f) ==
    /\ "backupError" \in Faults
    /\ worker.task = "apply" /\ worker.stage[f] = "backup"
    /\ \/ /\ worker' = [worker EXCEPT !.stage[f] = "ready", !.mend[f] = "unbackup"]
          /\ UNCHANGED backup
       \/ /\ worker' = [worker EXCEPT !.stage[f] = "ready", !.mend[f] = "stash",
                                      !.stash[f] = game[f]]
          /\ backup' = [backup EXCEPT ![worker.prof][f] = Nothing]
    /\ UNCHANGED <<game, lists, op>>

\* copy_file_governed removes the file first, then the copy grows in its place: what
\* is there until it ends is no file, or half of one.
CopyStarts(f) ==
    /\ worker.task = "apply" /\ worker.stage[f] = "ready"
    /\ \E left \in {Nothing, Torn} : game' = [game EXCEPT ![f] = left]
    /\ worker' = Set(f, "copy")
    /\ UNCHANGED <<backup, lists, op>>

CopyEnds(f) ==
    /\ worker.task = "apply" /\ worker.stage[f] = "copy"
    /\ game' = [game EXCEPT ![f] = worker.mod]
    /\ worker' = Set(f, "done")
    /\ UNCHANGED <<backup, lists, op>>

\* The copy into the game folder fails, before it replaced the file (locked) or
\* half-way.
CopyFails(f) ==
    /\ "copyError" \in Faults
    /\ worker.task = "apply" /\ worker.stage[f] \in {"ready", "copy"}
    /\ worker' = Set(f, "failed")
    /\ UNCHANGED <<disk, lists, op>>

\* rollback_deploy, once the files in flight have ended: every file of the
\* journal is put back.
RollbackStarts ==
    /\ worker.task = "apply" /\ ~NoneFailed
    /\ \A f \in worker.files : worker.stage[f] \in {"todo", "done", "failed"}
    /\ worker' = [worker EXCEPT !.task = "rollback"]
    /\ UNCHANGED <<disk, lists, op>>

\* Mutant: the backup is gone before it is put back.
RollBackSwapped(f) ==
    /\ worker.task = "rollback" /\ worker.stage[f] \in {"done", "failed"}
    /\ backup' = IF worker.mend[f] = "unbackup"
                 THEN [backup EXCEPT ![worker.prof][f] = Nothing] ELSE backup
    /\ LET own == backup'[worker.prof][f]
       IN  game' = [game EXCEPT ![f] = CASE worker.mend[f] = "remove" -> Nothing
                                         [] worker.mend[f] = "stash"  -> worker.stash[f]
                                         [] OTHER                     -> own]
    /\ worker' = Set(f, "todo")
    /\ UNCHANGED <<lists, op>>

RollBack(f) ==
    /\ worker.task = "rollback" /\ worker.stage[f] \in {"done", "failed"}
    /\ LET own == backup[worker.prof][f]
       IN  game' = [game EXCEPT ![f] = CASE worker.mend[f] = "remove" -> Nothing
                                         [] worker.mend[f] = "stash"  -> worker.stash[f]
                                         [] OTHER                     -> own]
    /\ backup' = IF worker.mend[f] = "unbackup"
                 THEN [backup EXCEPT ![worker.prof][f] = Nothing] ELSE backup
    /\ worker' = Set(f, "todo")
    /\ UNCHANGED <<lists, op>>

\* A file that cannot be put back stays as the copy that failed left it, with its
\* backup; the stash that was not copied is left in the backup folder for the user.
RollBackFails(f) ==
    /\ "restoreError" \in Faults
    /\ worker.task = "rollback" /\ worker.stage[f] \in {"done", "failed"}
    /\ \E left \in {game[f], Nothing, Torn} : game' = [game EXCEPT ![f] = left]
    /\ worker' = Set(f, "todo")
    /\ UNCHANGED <<backup, lists, op>>

----------------------------------------------------------------------------
(* The worker: unapply_mod_stacked_shared *)

\* Mutant: the other profiles' backup folders are not looked into.
HoldersOwn(f) == {p \in {worker.prof} : backup[p][f] # Nothing}

Holders(f) == {p \in Profiles : backup[p][f] # Nothing}
HolderFor(f) == IF worker.prof \in Holders(f) THEN worker.prof ELSE Least(Holders(f))

\* No mod has the file and no original is kept: the mod added it, it goes.
DeleteFile(f) ==
    /\ worker.task = "unapply" /\ NoneFailed
    /\ f \in worker.files /\ worker.stage[f] = "todo"
    /\ worker.under[f] = Nothing /\ Holders(f) = {}
    /\ \/ game' = [game EXCEPT ![f] = Nothing]
       \/ "restoreError" \in Faults /\ UNCHANGED game   \* locked, the error dropped
    /\ worker' = Set(f, "done")
    /\ UNCHANGED <<backup, lists, op>>

RestoreStarts(f) ==
    /\ worker.task = "unapply" /\ NoneFailed
    /\ f \in worker.files /\ worker.stage[f] = "todo"
    /\ worker.under[f] # Nothing \/ Holders(f) # {}
    /\ \E left \in {Nothing, Torn} : game' = [game EXCEPT ![f] = left]
    /\ worker' = Set(f, "copy")
    /\ UNCHANGED <<backup, lists, op>>

\* The copy's end and the removal of the backup it came from: a stop between the
\* two leaves the same bytes twice, and the next restore does the same copy again.
RestoreEnds(f) ==
    /\ worker.task = "unapply" /\ worker.stage[f] = "copy"
    /\ IF worker.under[f] # Nothing
       THEN /\ game' = [game EXCEPT ![f] = worker.under[f]]
            /\ UNCHANGED backup
       ELSE /\ game' = [game EXCEPT ![f] = backup[HolderFor(f)][f]]
            /\ backup' = [backup EXCEPT ![HolderFor(f)][f] = Nothing]
    /\ worker' = Set(f, "done")
    /\ UNCHANGED <<lists, op>>

\* Mutant: the backup is removed although the copy from it failed.
RestoreFailsFreeing(f) ==
    /\ "restoreError" \in Faults
    /\ worker.task = "unapply" /\ worker.stage[f] = "copy" /\ NoneFailed
    /\ backup' = [p \in Profiles |-> [backup[p] EXCEPT ![f] = Nothing]]
    /\ worker' = Set(f, "failed")
    /\ UNCHANGED <<game, lists, op>>

RestoreFails(f) ==
    /\ "restoreError" \in Faults
    /\ worker.task = "unapply" /\ NoneFailed
    /\ f \in worker.files
    /\ \/ worker.stage[f] = "todo" /\ (worker.under[f] # Nothing \/ Holders(f) # {})
       \/ worker.stage[f] = "copy"
    /\ worker' = Set(f, "failed")
    /\ UNCHANGED <<disk, lists, op>>

----------------------------------------------------------------------------
(* The end of a worker step (run_mod_io_worker_with_mode) *)

\* What the call does after CANCELLED, or after an error of the worker.
AfterStop(c) == IF c.kind = "enable" THEN [c EXCEPT !.phase = "save", !.mod = Nothing]
                                     ELSE NoCall

WorkerDone(o) ==
    /\ worker.by = o /\ worker.task \in {"apply", "unapply"}
    /\ \A f \in worker.files : worker.stage[f] = "done"
    /\ worker' = NoWork
    /\ op' = [op EXCEPT ![o] =
                 CASE worker.undo           -> AfterStop(op[o])
                   [] op[o].kind = "bulk"   -> [op[o] EXCEPT !.phase = "next"]
                   [] OTHER                 -> [op[o] EXCEPT !.phase = "record"]]
    /\ UNCHANGED <<disk, lists>>

\* An error ends the step: an apply after its rollback, an unapply as it is once
\* the files in flight have ended.  A bulk disable drops the error and goes on.
WorkerErr(o) ==
    /\ worker.by = o
    /\ \/ /\ worker.task = "rollback"
          /\ \A f \in worker.files : worker.stage[f] = "todo"
       \/ /\ worker.task = "unapply" /\ ~NoneFailed
          /\ \A f \in worker.files : worker.stage[f] \in {"todo", "done", "failed"}
    /\ worker' = NoWork
    /\ op' = [op EXCEPT ![o] = IF op[o].kind = "bulk" THEN [op[o] EXCEPT !.phase = "next"]
                                                      ELSE AfterStop(op[o])]
    /\ UNCHANGED <<disk, lists>>

\* The user stops a call (its cancel scope).
Cancel(o) ==
    /\ "cancel" \in Faults
    /\ op[o].phase # "idle" /\ ~op[o].stop
    /\ op' = [op EXCEPT ![o].stop = TRUE]
    /\ UNCHANGED <<disk, lists, worker>>

\* Mutant: only an enable looks at its stop before it takes the lock.
LeaveQueueEnable(o) ==
    /\ op[o].kind = "enable" /\ op[o].phase = "wait" /\ op[o].stop
    /\ worker.by = NoOp
    /\ op' = [op EXCEPT ![o] = AfterStop(op[o])]
    /\ UNCHANGED <<disk, lists, worker>>

\* Stopped while waiting for MOD_OP_LOCK: no worker is started.
LeaveQueue(o) ==
    /\ op[o].kind \in {"enable", "disable"} /\ op[o].phase = "wait" /\ op[o].stop
    /\ worker.by = NoOp
    /\ op' = [op EXCEPT ![o] = AfterStop(op[o])]
    /\ UNCHANGED <<disk, lists, worker>>

\* Stopped while its worker runs, or has just ended unseen by the wait loop: the
\* worker is killed and the inverse operation runs in its place
\* (make_inverse_undo_input), without the mods underneath and without the
\* other mods' files.
KillAndUndo(o) ==
    /\ worker.by = o /\ ~worker.undo /\ op[o].kind # "bulk" /\ op[o].stop
    /\ worker' = [NoWork EXCEPT !.by = o, !.undo = TRUE, !.prof = worker.prof,
                      !.mod = worker.mod, !.files = Ships[worker.mod],
                      !.task = IF worker.task = "unapply" THEN "apply" ELSE "unapply"]
    /\ UNCHANGED <<disk, lists, op>>

\* A bulk disable runs in the application itself: a stop makes it return between
\* two files, or removes the copy it is writing; the result is ignored.
StopBulk(o) ==
    /\ worker.by = o /\ op[o].kind = "bulk" /\ op[o].stop
    /\ game' = [f \in Files |-> IF worker.stage[f] = "copy" THEN Nothing ELSE game[f]]
    /\ worker' = NoWork
    /\ op' = [op EXCEPT ![o].phase = "next"]
    /\ UNCHANGED <<backup, lists>>

----------------------------------------------------------------------------
(* The rest of the program and the world *)

\* set_active_profile; it saves.
SwitchProfile(p) ==
    /\ p # cur
    /\ "switch" \in Faults \/ \A o \in Ops : op[o].phase = "idle"
    /\ cur' = p
    /\ saved' = at
    /\ UNCHANGED <<disk, at, op, worker>>

\* The machine goes down: the folders stay as they are, the lists are those of
\* data.json.
Crash ==
    /\ "crash" \in Faults
    /\ at' = saved
    /\ op' = [o \in Ops |-> NoCall]
    /\ worker' = NoWork
    /\ UNCHANGED <<disk, saved, cur>>

\* POST /api/mods/enable and /disable: the list of the active profile changes and
\* is saved; no file is touched.
ApiEnable(m) ==
    /\ "api" \in Calls /\ m \notin Active(cur)
    /\ at' = [at EXCEPT ![cur] = Pushed(@, m)]
    /\ saved' = at'
    /\ UNCHANGED <<disk, cur, op, worker>>

ApiDisable(m) ==
    /\ "api" \in Calls /\ m \in Active(cur)
    /\ at' = [at EXCEPT ![cur] = Retained(@, {m})]
    /\ saved' = at'
    /\ UNCHANGED <<disk, cur, op, worker>>

Call(o) ==
    \/ \E m \in Mods : EnableBegin(o, m) \/ DisableBegin(o, m)
    \/ \E g \in BulkGroups, w \in SUBSET Mods : BulkBegin(o, g, w)

Step(o) ==
    \/ EnableSurvey(o) \/ EnableLeave(o) \/ EnableStart(o) \/ EnableRecord(o)
    \/ \E m \in Mods : EnableNext(o, m)
    \/ DisableStart(o) \/ DisableRecord(o)
    \/ \E p \in Profiles : BulkNext(o, p)
    \/ BulkStart(o) \/ BulkRecord(o) \/ Save(o)
    \/ WorkerDone(o) \/ WorkerErr(o) \/ LeaveQueue(o) \/ KillAndUndo(o) \/ StopBulk(o)

WorkerStep ==
    \/ \E f \in Files : \/ ApplyFile(f) \/ BackupWritten(f) \/ CopyStarts(f) \/ CopyEnds(f)
                        \/ RollBack(f)
                        \/ DeleteFile(f) \/ RestoreStarts(f) \/ RestoreEnds(f)
    \/ RollbackStarts

Mishap ==
    \/ \E f \in Files : BackupFails(f) \/ CopyFails(f) \/ RestoreFails(f) \/ RollBackFails(f)
    \/ \E o \in Ops : Cancel(o)
    \/ Crash

Next ==
    \/ \E o \in Ops : Call(o) \/ Step(o)
    \/ WorkerStep
    \/ Mishap
    \/ \E p \in Profiles : SwitchProfile(p)
    \/ \E m \in Mods : ApiEnable(m) \/ ApiDisable(m)

Spec == Init /\ [][Next]_vars

\* The code's own steps go on: the runtime schedules the calls, and a worker
\* process that is not stopped ends.
Fairness == WF_vars(WorkerStep) /\ \A o \in Ops : WF_vars(Step(o))
FairSpec == Spec /\ Fairness

----------------------------------------------------------------------------
(* Properties *)

Restful == \A o \in Ops : op[o].phase = "idle"

\* A file of the game itself is never lost: at every moment its original is in
\* the game folder or in some profile's _original folder, whole.
OriginalsKept ==
    \A f \in Originals : game[f] = Orig \/ \E p \in Profiles : backup[p][f] = Orig

\* A backup folder holds game originals and nothing else: no copy of a mod's
\* file that a later restore would put back as the game's own, and no half of a
\* file except the one being written.
BackupsHoldOriginals ==
    \A p \in Profiles, f \in Files :
        \/ backup[p][f] = Nothing
        \/ f \in Originals /\ backup[p][f] = Orig
        \/ f \in Originals /\ worker.prof = p /\ worker.stage[f] = "backup"

\* Between calls, a file no active mod ships is as the game shipped it, and no
\* backup of it is left: activating and deactivating is an undo.
CleanWhenUnused ==
    Restful => \A f \in Files \ FilesOf(OnFolder) :
                   /\ game[f] = IF f \in Originals THEN Orig ELSE Nothing
                   /\ \A p \in Profiles : backup[p][f] = Nothing

\* Between calls, a file active mods ship is one of theirs; and when one profile
\* has them all, it is the copy of the last of them in its order.
DiskFollowsLists ==
    Restful => \A f \in FilesOf(OnFolder) :
                   /\ game[f] \in Providing(OnFolder, f)
                   /\ \A p \in Profiles :
                          Providing(OnFolder, f) \subseteq Active(p)
                              => game[f] = LastOf(at[p], Providing(OnFolder, f))

\* Profiles that share the game folder and the mods folder have one list.
TwinsAgree == \A p \in Profiles : \A q \in Twins(p) : at[q] = at[p]

\* A mod is active in one mods folder's profiles only.
OneLibraryPerMod ==
    \A p, q \in Profiles : Active(p) \cap Active(q) # {} => q \in Twins(p)

\* When no call is in flight data.json says what memory says, whichever way the
\* calls ended (an error on the third mod of a chain, a stop).
SavedWhenQuiet == Restful => saved = at

\* An original leaves a backup folder only in the step that has put it in the
\* game folder.
OriginalGoesHome ==
    [][\A p \in Profiles, f \in Files :
          backup[p][f] = Orig /\ backup'[p][f] # Orig => game'[f] = Orig]_vars

\* A disable lets go of the chain its mod dragged in: when it has ended, each direct
\* dependency of the mod that is still active is needed by another active mod.
ChainIsLetGo ==
    [][\A o \in Ops :
          op[o].kind = "disable" /\ Save(o)
          => \A d \in Deps[op[o].mod] \cap Active(cur) :
                 \E n \in Active(cur) \ {d} : d \in InChain(n)]_vars

\* No call is in flight for ever, whatever fails and whatever is stopped, unless
\* other calls keep getting to their end before it: MOD_OP_LOCK is always handed
\* back and calls never all wait for one another, but a waiter may be overtaken.
EndsACall(o) == op[o].phase # "idle" /\ op'[o].phase = "idle"
CallsGetThrough ==
    \A o \in Ops : \/ []<>(op[o].phase = "idle")
                   \/ []<><<\E p \in Ops \ {o} : EndsACall(p)>>_vars

=============================================================================
