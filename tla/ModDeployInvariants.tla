------------------------- MODULE ModDeployInvariants -------------------------
(****************************************************************************)
(* The invariants that make the properties of ModDeploy inductive.          *)
(****************************************************************************)
EXTENDS ModDeploy

----------------------------------------------------------------------------
(* Types *)

\* A call that is about to apply or remove one mod's files knows which mod.
CallHasMod ==
    \A o \in Ops : op[o].kind \in {"enable", "disable"} /\ op[o].phase \in {"wait", "work", "record"}
                   => op[o].mod \in Mods

\* The worker works for a call that waits for it, on one mod unless for a batch.
WorkerHasCall ==
    worker.by # NoOp => /\ op[worker.by].phase = "work"
                        /\ op[worker.by].kind # "bulk" => worker.mod \in Mods

\* A restore under way has something to restore from.
CopyHasSource ==
    worker.task = "unapply" =>
        \A f \in Files : worker.stage[f] = "copy" => worker.under[f] # Nothing \/ Holders(f) # {}

\* The backup being written is the half of a file until it is whole.
BackupUnderWay ==
    worker.task = "apply" =>
        \A f \in Files : worker.stage[f] = "backup" => backup[worker.prof][f] = Torn

TypeInv == TypeOK /\ CallHasMod /\ WorkerHasCall /\ CopyHasSource /\ BackupUnderWay

\* A call after which the type invariant still knows its mod.
ModKnown(c) == c.kind \in {"enable", "disable"} /\ c.phase \in {"wait", "work", "record"}
                   => c.mod \in Mods


----------------------------------------------------------------------------
(* Lists and data.json *)

\* Call o has changed the lists, or may, and has its save before it.
WillSave(o) ==
    \/ op[o].kind = "enable" /\ op[o].phase \in {"next", "wait", "work", "record", "save"}
    \/ op[o].kind \in {"disable", "bulk"} /\ op[o].phase = "save"

\* Lists that differ from data.json are a call's in flight.
SavePending == saved = at \/ \E o \in Ops : WillSave(o)

----------------------------------------------------------------------------
(* Calm use: one call at a time, nothing fails but copies into the game folder *)

Calm ==
    /\ \A o, p \in Ops : o = p
    /\ Faults \subseteq {"copyError"}
    /\ "api" \notin Calls
    /\ \A g \in BulkGroups : \E p \in Profiles : g \subseteq {p} /\ Twins(p) = {p}

Unstopped == (\A o \in Ops : ~op[o].stop) /\ ~worker.undo

\* A call that enables has been refused the mods of other profiles, and knows every
\* file a mod has put in the game folder.
EnableKnows(c) ==
    c.kind = "enable" =>
        /\ c.phase \in {"wait", "work", "record"} => \A q \in Profiles \ {c.prof} : c.mod \notin Active(q)
        /\ c.phase \in {"next", "wait", "work", "record"} => c.others = FilesOf(OnFolder)

\* The mods a call takes off the folder, and its plan: their files, each over what
\* the mods that stay have.
Leaving(c) == IF c.kind = "bulk" THEN UNION {c.mine[p] : p \in c.group} ELSE {c.mod}

Planned(c) ==
    /\ c.files = FilesOf(Leaving(c))
    /\ \A f \in c.files : c.under[f] = Nothing <=> f \notin FilesOf(OnFolder \ Leaving(c))

DisableKnows(c) ==
    c.kind = "disable" =>
        /\ c.phase \in {"wait", "work", "record"} => c.mod \in Active(cur)
        /\ c.phase \in {"wait", "work"} => Planned(c)

BulkKnows(c) ==
    c.kind = "bulk" =>
        /\ c.phase \in {"next", "wait", "work"} =>
              \E p \in Profiles : /\ c.group = {p} /\ c.tasks \subseteq {p} /\ Twins(p) = {p}
                                  /\ c.mine[p] = Active(p) \cap c.gone /\ c.mine[p] # {}
        /\ c.phase \in {"wait", "work"} => c.tasks = {} /\ Planned(c)

CallsKnow == \A o \in Ops : EnableKnows(op[o]) /\ DisableKnows(op[o]) /\ BulkKnows(op[o])

\* The worker does what its call has planned.
WorkerKnows ==
    /\ worker.by = NoOp <=> worker.task = "none"
    /\ \A f \in Files : worker.stage[f] # "todo" => f \in worker.files
    /\ worker.task \in {"apply", "rollback"} =>
          /\ op[worker.by].kind = "enable" /\ worker.mod = op[worker.by].mod
          /\ worker.files = Ships[worker.mod] /\ worker.others = op[worker.by].others
    /\ worker.task = "unapply" =>
          /\ op[worker.by].kind \in {"disable", "bulk"}
          /\ worker.files = op[worker.by].files /\ worker.under = op[worker.by].under

\* The mods whose files are in the game folder: those of the lists, but for a call
\* that has finished with the files and not yet with the lists.
Taken(c) == IF \/ c.kind = "disable" /\ c.phase = "record"
               \/ c.kind = "bulk" /\ c.phase = "next" /\ c.tasks = {}
            THEN Leaving(c) ELSE {}
Put(c)   == IF c.kind = "enable" /\ c.phase = "record" THEN {c.mod} ELSE {}
OnDisk   == (OnFolder \ UNION {Taken(op[o]) : o \in Ops}) \cup UNION {Put(op[o]) : o \in Ops}

Pristine(f) == IF f \in Originals THEN Orig ELSE Nothing

\* No backup folder but p's has the file.
OnlyIn(p, f) == \A q \in Profiles \ {p} : backup[q][f] = Nothing
BackedBy(p, f) == backup[p][f] = Orig /\ OnlyIn(p, f)
Backed(f)   == \E p \in Profiles : BackedBy(p, f)
Unbacked(f) == \A p \in Profiles : backup[p][f] = Nothing

\* With the mods S on the folder, a file none of them ships is as the game shipped
\* it and is in no backup folder, and the original of any other is in one of them.
Settled(S, f) ==
    /\ f \notin FilesOf(S) => game[f] = Pristine(f) /\ Unbacked(f)
    /\ f \in FilesOf(S) /\ f \in Originals => Backed(f)

\* What the journal of a deploy says is enough to put the file back.
CanMend(f) ==
    /\ f \in worker.others => /\ worker.mend[f] # "unbackup"
                              /\ f \in Originals => Backed(f)
    /\ f \notin worker.others /\ f \in Originals =>
          worker.mend[f] = "unbackup" /\ BackedBy(worker.prof, f)
    /\ f \notin worker.others /\ f \notin Originals => worker.mend[f] = "remove"

\* A file of a deploy, at each of its stages.
Deployed(f) ==
    /\ worker.stage[f] = "todo" => Settled(OnFolder, f)
    /\ worker.stage[f] = "backup" => /\ worker.task = "apply" /\ f \notin worker.others
                                     /\ f \in Originals /\ game[f] = Orig /\ OnlyIn(worker.prof, f)
    /\ worker.stage[f] \in {"ready", "copy", "done", "failed"} => CanMend(f)
    /\ worker.task = "rollback" => worker.stage[f] \in {"todo", "done", "failed"}

\* A file of a removal, which cannot fail.
Removed(f) ==
    /\ worker.stage[f] \in {"todo", "copy", "done"}
    /\ worker.stage[f] # "done" => Settled(OnFolder, f)
    /\ worker.stage[f] = "done" => Settled(OnFolder \ Leaving(op[worker.by]), f)

FilesAreRight ==
    /\ worker.task = "none" => \A f \in Files : Settled(OnDisk, f)
    /\ worker.task \in {"apply", "rollback"} => \A f \in Files : Deployed(f)
    /\ worker.task = "unapply" => \A f \in Files : Removed(f)

\* A backup folder holds originals, and the half of one while it is written.
BackupRight(f) ==
    \A p \in Profiles :
        \/ backup[p][f] = Nothing
        \/ f \in Originals /\ backup[p][f] = Orig
        \/ worker.task = "apply" /\ worker.prof = p /\ worker.stage[f] = "backup"

CalmInv ==
    /\ Unstopped /\ OneLibraryPerMod /\ TwinsAgree
    /\ CallsKnow /\ WorkerKnows
    /\ FilesAreRight
    /\ \A f \in Files : BackupRight(f)

----------------------------------------------------------------------------
(* Whose copy of a file is in the game folder, in the same use *)

\* With the lists l and the mods S on the folder, x is the mod whose copy of f belongs
\* there: one that ships it, and the last to when one profile has them all.
RightCopy(l, S, f, x) ==
    /\ x \in Providing(S, f)
    /\ \A p \in Profiles : (\A m \in Providing(S, f) : l[p][m] > 0)
                              => x = LastOf(l[p], Providing(S, f))

Follows(S, f) == f \in FilesOf(S) => RightCopy(at, S, f, game[f])

\* A list's places are numbered without a gap, so that a mod put at its end is its last.
Compact(list) == \A m \in Mods : list[m] <= Cardinality({n \in Mods : list[n] > 0})
ListsCompact  == \A p \in Profiles : Compact(at[p])

\* What a call has still to enable is not in its profile's list.
EnableFresh(c) ==
    c.kind = "enable" =>
        /\ c.phase \in {"survey", "next", "wait", "work", "record"} =>
              \A m \in c.todo : m \notin Active(c.prof)
        /\ c.phase \in {"wait", "work", "record"} => c.mod \notin Active(c.prof) /\ c.mod \notin c.todo

\* What a removal has planned to put under the mods that leave is the right copy.
PlanRight(c) ==
    c.kind \in {"disable", "bulk"} /\ c.phase \in {"wait", "work"} =>
        \A f \in c.files : f \in FilesOf(OnFolder \ Leaving(c))
                              => RightCopy(at, OnFolder \ Leaving(c), f, c.under[f])

\* With no worker the files follow the lists, but for the mod and the mods that a call
\* has not recorded yet.
Landed(c, f) ==
    /\ c.kind = "enable" /\ c.phase = "record" /\ f \in Ships[c.mod] => game[f] = c.mod
    /\ ~(c.kind = "enable" /\ c.phase = "record" /\ f \in Ships[c.mod])
          => Follows(OnFolder \ Taken(c), f)

\* A deploy replaces the right copy after it has stashed it.
DeployFollows(f) ==
    /\ worker.stage[f] = "todo" => Follows(OnFolder, f)
    /\ worker.stage[f] \in {"ready", "copy", "done", "failed"} /\ f \in FilesOf(OnFolder)
          => worker.mend[f] = "stash" /\ RightCopy(at, OnFolder, f, worker.stash[f])
    /\ worker.task = "apply" /\ worker.stage[f] = "done" => game[f] = worker.mod

RemovalFollows(f) ==
    /\ worker.stage[f] = "todo" => Follows(OnFolder, f)
    /\ worker.stage[f] = "done" => Follows(OnFolder \ Leaving(op[worker.by]), f)

FilesFollow ==
    /\ worker.task = "none" => \A o \in Ops, f \in Files : Landed(op[o], f)
    /\ worker.task \in {"apply", "rollback"} => \A f \in Files : DeployFollows(f)
    /\ worker.task = "unapply" => \A f \in Files : RemovalFollows(f)

DiskInv ==
    /\ ListsCompact
    /\ \A o \in Ops : EnableFresh(op[o]) /\ PlanRight(op[o])
    /\ FilesFollow

\* An enable takes the mods of its chain in their order.
InOrder(c) ==
    c.kind = "enable" =>
        /\ c.target \in Mods /\ c.todo \subseteq InChain(c.target)
        /\ c.phase \in {"wait", "work", "record"} =>
              \E i \in DOMAIN Chain[c.target] :
                  /\ Chain[c.target][i] = c.mod
                  /\ \A j \in 1 .. i - 1 : Chain[c.target][j] \notin c.todo \cup {c.mod}

ChainInv == \A o \in Ops : InOrder(op[o])

\* The use the theorems about one call at a time are about, and what holds throughout it:
\* what a call has read of the lists and planned stays true until its worker has acted on
\* it, each file is what its stage in the worker says, its backup and whose copy it is
\* included, and a chain is taken in its order.
CalmUse == Calm /\ TypeInv /\ CalmInv /\ DiskInv /\ ChainInv

----------------------------------------------------------------------------
(* What a call in flight is to DeployPromise *)

NoJob == [kind |-> "none", goal |-> Nothing, profs |-> {}, left |-> {}, files |-> {}]

JobOf(c) ==
    IF c.phase = "idle" THEN NoJob
    ELSE IF c.kind = "enable"
    THEN [kind  |-> "add", goal |-> c.target, profs |-> Twins(c.prof),
          left  |-> CASE c.phase \in {"survey", "next"}        -> c.todo
                      [] c.phase \in {"wait", "work", "record"} -> c.todo \cup {c.mod}
                      [] OTHER                                 -> {},
          files |-> FilesOf(InChain(c.target))]
    ELSE [kind  |-> "remove", goal |-> Nothing,
          profs |-> IF c.kind = "bulk" THEN c.group ELSE Twins(cur),
          left  |-> IF c.phase = "save" THEN {} ELSE Leaving(c),
          files |-> FilesOf(Leaving(c))]

\* There is one call at most, and while it is in flight the files of its mods do not show.
Job   == JobOf(op[CHOOSE o \in Ops : TRUE])
Shown == [f \in Files |-> IF f \in Job.files THEN Torn ELSE game[f]]

Promise == INSTANCE DeployPromise WITH job <- Job, shown <- Shown, Hidden <- Torn

\* With one call at a time activation keeps the promise of DeployPromise: a call changes the
\* files of its own mods only, it changes the lists by whole mods and in the order of its
\* chain, for twins alike, and leaves each file as the lists of then ask, also when its chain
\* was refused or failed half-way.
KeepsPromise == Promise!Spec

=============================================================================
