------------------------------ MODULE DataStore -------------------------------
(***************************************************************************)
(* data.json (src/src-tauri/src/state.rs): how memory is saved, by several *)
(* callers at once, and what a start finds after a crash.  What a file     *)
(* holds is a version of memory, Torn (part of one) or Missing.            *)
(*                                                                         *)
(* Four kinds of code write it, all through one data.json.tmp:             *)
(*   "state"  AppState::save: SAVE_ORDER, the data lock for the snapshot;  *)
(*   "api"    the HTTP API's save_data: the data lock to the end;          *)
(*   "hash"   the hashing thread: the data lock for the snapshot, no       *)
(*            backup;                                                      *)
(*   "index"  the content-id thread: the data lock to the end, no backup.  *)
(***************************************************************************)
EXTENDS Naturals, FiniteSets

CONSTANTS
    Savers,      \* the calls that may be saving at once
    Kind,        \* which of the four each of them is
    Faults,      \* what may go wrong in this instance
    MaxVersion,  \* bound: changes of memory
    MaxDamage,   \* bound: times data.json is damaged from outside
    Torn, Missing, Nothing

Kinds  == {"state", "api", "hash", "index"}
Holdings == Nat \cup {Torn, Missing}
Whole(v) == v \notin {Torn, Missing}

ASSUME Store_Assumption ==
    /\ Kind \in [Savers -> Kinds]
    /\ Faults \subseteq {"crash", "write", "backup", "restore", "damage"}
    /\ MaxVersion \in Nat /\ MaxDamage \in Nat
    /\ {Torn, Missing, Nothing} \cap Nat = {} /\ Torn # Missing

VARIABLES
    mem,     \* AppState.data: its version
    main,    \* data.json: what it holds, who has it open for writing, whether two wrote into it
    tmp,     \* data.json.tmp, the same
    bak,     \* data.json.bak: what it holds
    saver,   \* each call: where it is, the version it serialised, what it read of data.json
    asked,   \* history: memory when each call was made
    kept,    \* history: the latest version a call was told is saved
    load,    \* the program: "closed", "restoring" data.json, "up"
    damage   \* how often data.json was damaged

vars == <<mem, main, tmp, bak, saver, asked, kept, load, damage>>

NoFile == [holds |-> Missing, open |-> {}, mixed |-> FALSE]
Idle   == [at |-> "idle", snap |-> 0, old |-> Missing]

Init ==
    /\ mem = 0
    /\ main = NoFile /\ tmp = NoFile /\ bak = Missing
    /\ saver = [s \in Savers |-> Idle]
    /\ asked = [s \in Savers |-> Nothing]
    /\ kept = 0
    /\ load = "closed"
    /\ damage = 0

At(s, places) == saver[s].at \in places

\* Who holds SAVE_ORDER, who keeps the data lock while it writes.
Writing   == {"backup", "copying", "create", "write", "rename", "renamed"}
SaveOrder == {s \in Savers : Kind[s] = "state" /\ At(s, Writing)}
DataLock  == {s \in Savers : Kind[s] \in {"api", "index"} /\ At(s, Writing)}

-------------------------------------------------------------------------------
(* A save *)

\* A command changes memory, under the data lock.
Change ==
    /\ load = "up" /\ DataLock = {}
    /\ mem < MaxVersion
    /\ mem' = mem + 1
    /\ UNCHANGED <<main, tmp, bak, saver, asked, kept, load, damage>>

Ask(s) ==
    /\ load = "up" /\ At(s, {"idle"})
    /\ saver' = [saver EXCEPT ![s].at = "asked"]
    /\ asked' = [asked EXCEPT ![s] = mem]
    /\ UNCHANGED <<mem, main, tmp, bak, kept, load, damage>>

Serialised(s) ==
    [saver EXCEPT ![s] = [snap |-> mem, old |-> Missing,
         at |-> IF Kind[s] \in {"state", "api"} THEN "backup" ELSE "create"]]

\* Mutant: SAVE_ORDER is not taken.
SnapUnordered(s) ==
    /\ At(s, {"asked"}) /\ DataLock = {}
    /\ saver' = Serialised(s)
    /\ UNCHANGED <<mem, main, tmp, bak, asked, kept, load, damage>>

\* The locks are free: memory is serialised.
Snap(s) ==
    /\ At(s, {"asked"}) /\ DataLock = {}
    /\ Kind[s] = "state" => SaveOrder = {}
    /\ saver' = Serialised(s)
    /\ UNCHANGED <<mem, main, tmp, bak, asked, kept, load, damage>>

\* data.json is rolled to .bak; an error in it is ignored.
BackupBegins(s) ==
    /\ At(s, {"backup"})
    /\ \/ /\ main.holds # Missing
          /\ bak' = Torn
          /\ saver' = [saver EXCEPT ![s].at = "copying", ![s].old = main.holds]
       \/ /\ main.holds = Missing \/ "backup" \in Faults
          /\ saver' = [saver EXCEPT ![s].at = "create"]
          /\ UNCHANGED bak
    /\ UNCHANGED <<mem, main, tmp, asked, kept, load, damage>>

\* Two copies at once may leave a mixture.
BackupEnds(s) ==
    /\ At(s, {"copying"})
    /\ \/ bak' = saver[s].old
       \/ /\ "backup" \in Faults \/ \E t \in Savers \ {s} : At(t, {"copying"})
          /\ bak' = Torn
    /\ saver' = [saver EXCEPT ![s].at = "create", ![s].old = Missing]
    /\ UNCHANGED <<mem, main, tmp, asked, kept, load, damage>>

\* A file being created is emptied, whoever is writing it.
Emptied(file, s) == [holds |-> Torn, open |-> file.open \cup {s}, mixed |-> file.open # {}]

\* Mutant: data.json is written in place.
CreateInPlace(s) ==
    /\ At(s, {"create"})
    /\ main' = Emptied(main, s)
    /\ saver' = [saver EXCEPT ![s].at = "write"]
    /\ UNCHANGED <<mem, tmp, bak, asked, kept, load, damage>>

Create(s) ==
    /\ At(s, {"create"})
    /\ tmp' = Emptied(tmp, s)
    /\ saver' = [saver EXCEPT ![s].at = "write"]
    /\ UNCHANGED <<mem, main, bak, asked, kept, load, damage>>

\* What a file may be when s has written its last byte: its version, or a mixture
\* when another wrote into it too.
Finished(file, s) ==
    IF s \notin file.open THEN {file}
    ELSE {[holds |-> v, open |-> file.open \ {s}, mixed |-> file.mixed] :
             v \in IF file.mixed THEN {Torn, saver[s].snap} ELSE {saver[s].snap}}

\* The bytes are written and synced, into whatever name the file has by now.
Write(s) ==
    /\ At(s, {"write"})
    /\ tmp' \in Finished(tmp, s)
    /\ main' \in Finished(main, s)
    /\ saver' = [saver EXCEPT ![s].at = "rename"]
    /\ UNCHANGED <<mem, bak, asked, kept, load, damage>>

\* What was saved, by what the call asked for.
Newest(s) == IF asked[s] > kept THEN asked[s] ELSE kept

Returns(s) ==
    /\ saver' = [saver EXCEPT ![s] = Idle]
    /\ asked' = [asked EXCEPT ![s] = Nothing]

\* Mutant: the file of a failed write is not let go of.
WriteFailsOpen(s) ==
    /\ "write" \in Faults
    /\ At(s, {"create", "write"})
    /\ Returns(s)
    /\ UNCHANGED <<mem, main, tmp, bak, kept, load, damage>>

\* The disk is full, or refuses: the call ends with the error.
WriteFails(s) ==
    /\ "write" \in Faults
    /\ At(s, {"create", "write"})
    /\ tmp' = [tmp EXCEPT !.open = @ \ {s}]
    /\ main' = [main EXCEPT !.open = @ \ {s}]
    /\ Returns(s)
    /\ UNCHANGED <<mem, bak, kept, load, damage>>

\* data.json.tmp, whoever wrote it, takes the name of data.json.
Rename(s) ==
    /\ At(s, {"rename"})
    /\ tmp.holds # Missing
    /\ main' = tmp
    /\ tmp' = NoFile
    /\ saver' = [saver EXCEPT ![s].at = "renamed"]
    /\ UNCHANGED <<mem, bak, asked, kept, load, damage>>

RenameFails(s) ==
    /\ At(s, {"rename"})
    /\ tmp.holds = Missing \/ "write" \in Faults
    /\ Returns(s)
    /\ UNCHANGED <<mem, main, tmp, bak, kept, load, damage>>

\* Ok(()): the caller goes on.
Answer(s) ==
    /\ At(s, {"renamed"})
    /\ kept' = Newest(s)
    /\ Returns(s)
    /\ UNCHANGED <<mem, main, tmp, bak, load, damage>>

-------------------------------------------------------------------------------
(* The program stops and starts *)

Closed(file) == [file EXCEPT !.open = {}, !.mixed = FALSE]

\* It is closed, dies or is killed: what it was writing stays as it is.
Crash ==
    /\ "crash" \in Faults
    /\ load # "closed"
    /\ load' = "closed"
    /\ saver' = [s \in Savers |-> Idle]
    /\ asked' = [s \in Savers |-> Nothing]
    /\ tmp' = Closed(tmp) /\ main' = Closed(main)
    /\ UNCHANGED <<mem, bak, kept, damage>>

\* What load_with_recovery answers: data.json, else the backup, else a fresh one.
Recovered == IF Whole(bak) THEN bak ELSE 0
Loaded    == IF Whole(main.holds) THEN main.holds ELSE Recovered

\* Mutant: the backup is used and not copied back.
LoadOnly ==
    /\ load = "closed"
    /\ mem' = Loaded
    /\ load' = "up"
    /\ UNCHANGED <<main, tmp, bak, saver, asked, kept, damage>>

\* data.json is read; when it cannot be, a whole backup is copied over it.
Load ==
    /\ load = "closed"
    /\ mem' = Loaded
    /\ IF ~Whole(main.holds) /\ Whole(bak)
       THEN load' = "restoring" /\ main' = [main EXCEPT !.holds = Torn]
       ELSE load' = "up" /\ UNCHANGED main
    /\ UNCHANGED <<tmp, bak, saver, asked, kept, damage>>

\* The copy is made; an error in it is ignored.
Restored ==
    /\ load = "restoring"
    /\ load' = "up"
    /\ \/ main' = [main EXCEPT !.holds = bak]
       \/ "restore" \in Faults /\ UNCHANGED main
    /\ UNCHANGED <<mem, tmp, bak, saver, asked, kept, damage>>

\* A bad sector, another program: data.json can no longer be read.
Damage ==
    /\ "damage" \in Faults
    /\ load = "closed" /\ Whole(main.holds)
    /\ damage < MaxDamage
    /\ damage' = damage + 1
    /\ main' = [main EXCEPT !.holds = Torn]
    /\ kept' = IF kept <= Recovered THEN kept ELSE Recovered
    /\ UNCHANGED <<mem, tmp, bak, saver, asked, load>>

Save(s) ==
    \/ Ask(s) \/ Snap(s) \/ BackupBegins(s) \/ BackupEnds(s) \/ Create(s) \/ Write(s)
    \/ WriteFails(s) \/ Rename(s) \/ RenameFails(s) \/ Answer(s)

Next == Change \/ Crash \/ Load \/ Restored \/ Damage \/ \E s \in Savers : Save(s)

Spec == Init /\ [][Next]_vars

-------------------------------------------------------------------------------
(* Properties *)

File == [holds : Holdings, open : SUBSET Savers, mixed : BOOLEAN]

\* The variables have their types, and only a call in the middle of its write has a
\* file open.
TypeOK ==
    /\ mem \in Nat
    /\ main \in File /\ tmp \in File /\ bak \in Holdings
    /\ saver \in [Savers -> [at : Writing \cup {"idle", "asked"}, snap : Nat, old : Holdings]]
    /\ asked \in [Savers -> Nat \cup {Nothing}]
    /\ kept \in Nat /\ damage \in Nat
    /\ load \in {"closed", "restoring", "up"}
    /\ \A s \in tmp.open \cup main.open : At(s, {"write"})

\* What keeps the promise while AppState::save is the only writer (OnlySave): one call
\* writes at a time, into a file nobody else has open, ...
OnlySave == (\A s \in Savers : Kind[s] = "state") /\ "restore" \notin Faults

OneWriter ==
    /\ \A s, t \in Savers : At(s, Writing) /\ At(t, Writing) => s = t
    /\ \A s \in Savers : At(s, {"write"}) => tmp.open = {s}
    /\ \A s \in Savers : At(s, {"rename"}) => tmp.holds = saver[s].snap
    /\ ~tmp.mixed /\ main.open = {} /\ ~main.mixed

\* ... what it writes is no older than what it was asked for and than what is there, ...
NoneOlder ==
    \A s \in Savers :
        /\ At(s, {"idle"}) <=> asked[s] = Nothing
        /\ At(s, {"asked"}) => asked[s] <= mem
        /\ At(s, Writing) => /\ asked[s] <= saver[s].snap /\ saver[s].snap <= mem
                             /\ Loaded <= saver[s].snap
        /\ At(s, {"copying"}) => main.holds # Missing /\ saver[s].old = main.holds
        /\ At(s, {"renamed"}) => Loaded = saver[s].snap

\* ... and a start repairs data.json before the next save rolls it to .bak.
Repaired ==
    /\ load # "up" => \A s \in Savers : At(s, {"idle"})
    /\ load # "closed" => Loaded <= mem
    /\ load = "restoring" => main.holds = Torn /\ Whole(bak)
    /\ load = "up" => Whole(main.holds) \/ ~Whole(bak)
    /\ Whole(bak) => bak <= Loaded
    /\ kept <= Loaded

StoreInv == TypeOK /\ OneWriter /\ NoneOlder /\ Repaired

Promise == INSTANCE DurableStore WITH
    Callers <- Savers, durable <- Loaded, up <- load # "closed"

\* Implements: the store keeps the promise of DurableStore.  What a start would find only
\* moves forward, since "an older snapshot can never land on top of a newer one"
\* (state.rs 579), and a save that answered is found again wherever the program died
\* since.  So it is while AppState::save is the only writer.
Implements == Promise!Spec

OneWhole == Whole(main.holds) \/ Whole(bak)

\* LastWholeStays: no step of a save, of a start or of a crash in the middle of them takes
\* away the last whole copy of the data ("NEVER silently resetting when a good backup
\* exists", state.rs 471); only damage from outside does.
LastWholeStays == [][OneWhole /\ damage' = damage => OneWhole']_vars

\* NeverHalf: "an interrupted write can never leave a half-written file" (state.rs 511),
\* nor can a write that is still going on.
NeverHalf == load = "up" => main.holds # Torn

===============================================================================
