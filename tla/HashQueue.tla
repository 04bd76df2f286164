------------------------------- MODULE HashQueue -------------------------------
(***************************************************************************)
(* Background hashing and the integrity of mods                            *)
(* (src/src-tauri/src/commands/mods.rs): two queues, the worker that       *)
(* empties them one mod after the other, and the commands that fill them,  *)
(* hash on a thread of their own, check or forget a mod's baseline.        *)
(*                                                                         *)
(* The data, the priority queue and the normal queue have a mutex each.    *)
(* Where one is taken while another is held the two are separate steps;    *)
(* a section under a single mutex is one step.  What the saves write is    *)
(* DataStore's.                                                            *)
(***************************************************************************)
EXTENDS Lists, SequencesExt

CONSTANTS
    Library,     \* the mods, in the order of the list
    Files,       \* the files of a mod
    Window,      \* the thread of the window: it runs the commands that are not async
    Tasks,       \* the runtime's threads: async commands, and threads commands start
    Worker,      \* the thread `bmm-sha-bg`
    Nobody, NoMod, NoBase,
    Calls,       \* the commands that are given
    Faults,      \* among "cancel" (of a ticket, on the dashboard) and "unplug" (of the drive)
    MaxCalls,    \* bound: commands given
    MaxVersion,  \* bound: versions of a file's content
    MaxPulls     \* bound: times the drive is unplugged or plugged in again

Mods    == ToSet(Library)
Threads == Tasks \cup {Window, Worker}
Locks   == {"data", "prio", "normal"}

WindowCalls == {"stats", "all", "missing", "rehash", "delete", "toggle"}
TaskCalls   == {"enable", "rescan", "check", "populate"}

ASSUME Threads_Assumption ==
    Window \notin Tasks /\ Worker \notin Tasks /\ Window # Worker /\ Nobody \notin Threads

ASSUME Data_Assumption ==
    /\ Library \in Seq(Mods) /\ NoMod \notin Mods
    /\ Calls \subseteq WindowCalls \cup TaskCalls
    /\ Faults \subseteq {"cancel", "unplug"}
    /\ MaxCalls \in Nat /\ MaxVersion \in Nat \ {0} /\ MaxPulls \in Nat

VARIABLES
    prio, normal,    \* sha_queue_priority, sha_queue
    current,         \* current_sha_mod_id
    lazy,            \* settings.enable_lazy_sha_calculation
    base, invalid,   \* file_hashes and file_hashes_invalid of each mod
    content, there,  \* the version of each file on the drive; whether it is plugged in
    held,            \* who holds each mutex
    at, hand,        \* where each thread is, and what it has in hand
    due,             \* history: the mods somebody wants hashed and nobody has hashed yet
    wanted,          \* history: what the files were when a re-hash was last asked for
    calls, pulls

queues == <<prio, normal, current>>
marks  == <<base, invalid>>
drive  == <<content, there>>
vars   == <<queues, lazy, marks, drive, held, at, hand, due, wanted, calls, pulls>>

\* A baseline, and what a pass has read: a file's version, 0 for a file left out.
Empty == [f \in Files |-> 0]

Nothing == [mod |-> NoMod, list |-> <<>>, left |-> {}, got |-> Empty, old |-> NoBase]

Missing(m) == base[m] \in {NoBase, Empty}
Queued     == ToSet(prio) \cup ToSet(normal)
Free(l)    == held[l] = Nobody

Init ==
    /\ prio = <<>> /\ normal = <<>> /\ current = NoMod
    /\ lazy = TRUE
    /\ base = [m \in Mods |-> NoBase] /\ invalid = [m \in Mods |-> FALSE]
    /\ content = [m \in Mods |-> [f \in Files |-> 1]] /\ there = TRUE
    /\ held = [l \in Locks |-> Nobody]
    /\ at = [t \in Threads |-> IF t = Worker THEN "look" ELSE "idle"]
    /\ hand = [t \in Threads |-> Nothing]
    /\ due = {} /\ wanted = [m \in Mods |-> Empty]
    /\ calls = 0 /\ pulls = 0

Goes(t, place) == at' = [at EXCEPT ![t] = place]
Takes(l, t)    == held' = [held EXCEPT ![l] = t]
Drops(l)       == held' = [held EXCEPT ![l] = Nobody]
Kept           == UNCHANGED <<lazy, marks, drive, due, wanted, calls, pulls>>

\* A thread is through with what it had in hand.
Ends(t) ==
    /\ Goes(t, IF t = Worker THEN "after" ELSE "idle")
    /\ hand' = [hand EXCEPT ![t] = Nothing]

-------------------------------------------------------------------------------
(* The worker *)

\* It reads the setting under the data's mutex, and takes the priority queue's inside.
Look ==
    /\ at[Worker] = "look" /\ Free("data")
    /\ Takes("data", Worker) /\ Goes(Worker, "look_p")
    /\ Kept /\ UNCHANGED <<queues, hand>>

\* Mutant: with nothing urgent it sleeps, switched on or off.
LookUrgent ==
    /\ at[Worker] = "look_p" /\ Free("prio")
    /\ Drops("data")
    /\ Goes(Worker, IF prio = <<>> THEN "look" ELSE "pop")
    /\ Kept /\ UNCHANGED <<queues, hand>>

\* Switched off and nothing urgent: it sleeps and looks again.
LookPrio ==
    /\ at[Worker] = "look_p" /\ Free("prio")
    /\ Drops("data")
    /\ Goes(Worker, IF ~lazy /\ prio = <<>> THEN "look" ELSE "pop")
    /\ Kept /\ UNCHANGED <<queues, hand>>

\* The priority queue first; when it is empty its mutex stays held for the other.
Pop ==
    /\ at[Worker] = "pop" /\ Free("prio")
    /\ IF prio # <<>>
       THEN /\ prio' = Tail(prio)
            /\ hand' = [hand EXCEPT ![Worker].mod = Head(prio)]
            /\ Goes(Worker, "path") /\ UNCHANGED held
       ELSE Takes("prio", Worker) /\ Goes(Worker, "pop_n") /\ UNCHANGED <<prio, hand>>
    /\ Kept /\ UNCHANGED <<normal, current>>

\* Mutant: a mod that comes up when the switch is off is dropped.
PopIfLazy ==
    /\ at[Worker] = "pop_n" /\ Free("normal")
    /\ Drops("prio")
    /\ IF normal # <<>> /\ lazy
       THEN hand' = [hand EXCEPT ![Worker].mod = Head(normal)] /\ Goes(Worker, "set")
       ELSE Goes(Worker, "look") /\ UNCHANGED hand
    /\ normal' = IF normal = <<>> THEN normal ELSE Tail(normal)
    /\ Kept /\ UNCHANGED <<prio, current>>

\* Mutant: the priority queue's mutex is held on into the next round.
PopHolding ==
    /\ at[Worker] = "pop_n" /\ Free("normal")
    /\ IF normal # <<>>
       THEN /\ normal' = Tail(normal)
            /\ hand' = [hand EXCEPT ![Worker].mod = Head(normal)]
            /\ Goes(Worker, "set")
       ELSE Goes(Worker, "look") /\ UNCHANGED <<normal, hand>>
    /\ Kept /\ UNCHANGED <<prio, current, held>>

PopNormal ==
    /\ at[Worker] = "pop_n" /\ Free("normal")
    /\ Drops("prio")
    /\ IF normal # <<>>
       THEN /\ normal' = Tail(normal)
            /\ hand' = [hand EXCEPT ![Worker].mod = Head(normal)]
            /\ Goes(Worker, "set")
       ELSE Goes(Worker, "look") /\ UNCHANGED <<normal, hand>>
    /\ Kept /\ UNCHANGED <<prio, current>>

\* Only a mod of the normal queue becomes the current one, after it has left the queue.
SetCurrent ==
    /\ at[Worker] = "set"
    /\ current' = hand[Worker].mod /\ Goes(Worker, "path")
    /\ Kept /\ UNCHANGED <<prio, normal, held, hand>>

After ==
    /\ at[Worker] = "after"
    /\ current' = NoMod /\ Goes(Worker, "look")
    /\ Kept /\ UNCHANGED <<prio, normal, held, hand>>

-------------------------------------------------------------------------------
(* A mod is hashed: by the worker, or by the thread a re-hash starts *)

\* The request for m is over, unless m is queued again.
Over(m) == due' = IF m \in Queued THEN due ELSE due \ {m}

\* A hash ends without a result.
Fails(t) ==
    /\ Over(hand[t].mod) /\ Ends(t)
    /\ wanted' = [wanted EXCEPT ![hand[t].mod] = Empty]

Path(t) ==
    /\ at[t] = "path" /\ Free("data")
    /\ Goes(t, "list")
    /\ Kept /\ UNCHANGED <<queues, held, hand>>

Listed == IF there THEN Files ELSE {}

\* No file is listed: is it that the folder is gone?
List(t) ==
    /\ at[t] = "list"
    /\ hand' = [hand EXCEPT ![t].left = Listed]
    /\ Goes(t, IF Listed = {} THEN "exists" ELSE "read")
    /\ Kept /\ UNCHANGED <<queues, held>>

Exists(t) ==
    /\ at[t] = "exists"
    /\ IF there THEN Goes(t, "read") /\ UNCHANGED <<hand, due, wanted>> ELSE Fails(t)
    /\ UNCHANGED <<queues, lazy, marks, drive, held, calls, pulls>>

\* A file that cannot be read is left out.
ReadFile(t) ==
    /\ at[t] \in {"read", "check_read"}
    /\ \E f \in hand[t].left :
         hand' = [hand EXCEPT ![t].left = @ \ {f},
                              ![t].got[f] = IF there THEN content[hand[t].mod][f] ELSE 0]
    /\ Kept /\ UNCHANGED <<queues, held, at>>

Store(t) ==
    /\ at[t] = "read" /\ hand[t].left = {} /\ Free("data")
    /\ base' = [base EXCEPT ![hand[t].mod] = hand[t].got]
    /\ invalid' = [invalid EXCEPT ![hand[t].mod] = FALSE]
    /\ Over(hand[t].mod) /\ Ends(t)
    /\ UNCHANGED <<queues, lazy, drive, held, wanted, calls, pulls>>

\* Mutant: a cancelled hash stores what it has.
CancelledHalf(t) ==
    /\ "cancel" \in Faults /\ at[t] \in {"list", "read"}
    /\ base' = [base EXCEPT ![hand[t].mod] = hand[t].got]
    /\ Fails(t)
    /\ UNCHANGED <<queues, lazy, invalid, drive, held, calls, pulls>>

\* The ticket is cancelled: nothing is stored.
Cancelled(t) ==
    /\ "cancel" \in Faults
    /\ \/ at[t] \in {"list", "read"} /\ Fails(t)
       \/ at[t] \in {"check_list", "check_read"} /\ Ends(t) /\ UNCHANGED <<due, wanted>>
    /\ UNCHANGED <<queues, lazy, marks, drive, held, calls, pulls>>

-------------------------------------------------------------------------------
(* get_mod_integrity: a mod is checked; one without a baseline gets one *)

Check(t) ==
    /\ at[t] = "check" /\ Free("data")
    /\ hand' = [hand EXCEPT ![t].old = base[hand[t].mod]]
    /\ Goes(t, "check_list")
    /\ Kept /\ UNCHANGED <<queues, held>>

Known(b) == {f \in Files : b[f] # 0}

\* The files of the baseline are read; one the list has and the baseline has not is
\* "added", whatever its content.
CheckList(t) ==
    /\ at[t] = "check_list"
    /\ LET b     == hand[t].old
           added == Listed \ Known(b)
       IN  hand' = IF b = NoBase THEN [hand EXCEPT ![t].left = Listed]
                   ELSE [hand EXCEPT ![t].left = Known(b),
                                     ![t].got = [f \in Files |-> IF f \in added
                                                 THEN content[hand[t].mod][f] ELSE 0]]
    /\ Goes(t, "check_read")
    /\ Kept /\ UNCHANGED <<queues, held>>

\* The result is written over whatever the mod's baseline is by now.
Verdict(t) ==
    /\ at[t] = "check_read" /\ hand[t].left = {} /\ Free("data")
    /\ LET m == hand[t].mod
       IN  IF hand[t].old = NoBase
           THEN base' = [base EXCEPT ![m] = hand[t].got] /\ UNCHANGED invalid
           ELSE invalid' = [invalid EXCEPT ![m] = hand[t].got # hand[t].old]
                /\ UNCHANGED base
    /\ Ends(t)
    /\ UNCHANGED <<queues, lazy, drive, held, due, wanted, calls, pulls>>

-------------------------------------------------------------------------------
(* add_mod_to_priority_sha_queue: enable_mod_in's, for the mod it activates *)

EnableAsks(t) ==
    /\ at[t] = "enable" /\ Free("data")
    /\ IF lazy THEN Goes(t, "enable_p") /\ UNCHANGED hand ELSE Ends(t)
    /\ Kept /\ UNCHANGED <<queues, held>>

EnableTakes(t) ==
    /\ at[t] = "enable_p" /\ Free("prio")
    /\ Takes("prio", t) /\ Goes(t, "enable_d")
    /\ Kept /\ UNCHANGED <<queues, hand>>

\* Under the priority queue's mutex, the data's ...
EnableReads(t) ==
    /\ at[t] = "enable_d" /\ Free("data")
    /\ IF Missing(hand[t].mod) /\ ~invalid[hand[t].mod]
       THEN Goes(t, "enable_n") /\ UNCHANGED <<held, hand>>
       ELSE Drops("prio") /\ Ends(t)
    /\ Kept /\ UNCHANGED queues

\* ... and the normal queue's: the mod goes from the one queue to the other.
EnablePushes(t) ==
    /\ at[t] = "enable_n" /\ Free("normal")
    /\ normal' = Without(normal, {hand[t].mod})
    /\ prio' = Append(prio, hand[t].mod)
    /\ due' = due \cup {hand[t].mod}
    /\ Drops("prio") /\ Ends(t)
    /\ UNCHANGED <<current, lazy, marks, drive, wanted, calls, pulls>>

-------------------------------------------------------------------------------
(* recalculate_all_hashes and get_hashing_stats *)

AllTakes ==
    /\ at[Window] \in {"all", "missing"} /\ Free("data")
    /\ hand' = [hand EXCEPT ![Window].list =
                    IF at[Window] = "all" THEN Library
                    ELSE Without(Library, {m \in Mods : ~Missing(m)})]
    /\ Takes("data", Window) /\ Goes(Window, "all_n")
    /\ Kept /\ UNCHANGED queues

\* Each mod that is not in the queue goes to its end.
PushNew(t) ==
    /\ normal' = normal \o Without(hand[t].list, ToSet(normal))
    /\ due' = due \cup ToSet(hand[t].list)

AllPushes ==
    /\ at[Window] = "all_n" /\ Free("normal")
    /\ PushNew(Window) /\ Drops("data") /\ Ends(Window)
    /\ UNCHANGED <<prio, current, lazy, marks, drive, wanted, calls, pulls>>

\* The counts are read under the data's mutex, which is given back ...
StatsCounts ==
    /\ at[Window] = "stats" /\ Free("data")
    /\ Goes(Window, "stats_n")
    /\ Kept /\ UNCHANGED <<queues, held, hand>>

\* ... and one expression adds the lengths of the queues: the first mutex lives to its end.
StatsTakes ==
    /\ at[Window] = "stats_n" /\ Free("normal")
    /\ Takes("normal", Window) /\ Goes(Window, "stats_p")
    /\ Kept /\ UNCHANGED <<queues, hand>>

StatsEnds ==
    /\ at[Window] = "stats_p" /\ Free("prio")
    /\ Drops("normal") /\ Ends(Window)
    /\ Kept /\ UNCHANGED queues

-------------------------------------------------------------------------------
(* populate_sha_queue, and the rescan of ensure_cache_populated *)

Populate(t) ==
    /\ at[t] = "populate" /\ Free("data")
    /\ IF lazy
       THEN /\ hand' = [hand EXCEPT ![t].list =
                            Without(Library, {m \in Mods : ~Missing(m) \/ invalid[m]})]
            /\ Goes(t, "populate_n")
       ELSE Ends(t)
    /\ Kept /\ UNCHANGED <<queues, held>>

\* What is in the queue is left out; then the mutex is given back and taken again.
PopulateFilters(t) ==
    /\ at[t] = "populate_n" /\ Free("normal")
    /\ LET new == Without(hand[t].list, ToSet(normal))
       IN  IF new = <<>> THEN Ends(t)
           ELSE hand' = [hand EXCEPT ![t].list = new] /\ Goes(t, "populate_push")
    /\ Kept /\ UNCHANGED <<queues, held>>

PopulatePushes(t) ==
    /\ at[t] = "populate_push" /\ Free("normal")
    /\ normal' = normal \o hand[t].list
    /\ due' = due \cup ToSet(hand[t].list)
    /\ Ends(t)
    /\ UNCHANGED <<prio, current, lazy, marks, drive, held, wanted, calls, pulls>>

\* The mods with a baseline whose folder has changed; on a drive that is away, none.
Rescan(t) ==
    /\ at[t] = "rescan" /\ Free("data")
    /\ \E changed \in SUBSET {m \in Mods : base[m] # NoBase /\ there} :
         IF changed = {} THEN Ends(t)
         ELSE /\ hand' = [hand EXCEPT ![t].list =
                              Without(Library, Mods \ changed)]
              /\ Goes(t, "rescan_n")
    /\ Kept /\ UNCHANGED <<queues, held>>

RescanPushes(t) ==
    /\ at[t] = "rescan_n" /\ Free("normal")
    /\ PushNew(t) /\ Ends(t)
    /\ UNCHANGED <<prio, current, lazy, marks, drive, held, wanted, calls, pulls>>

-------------------------------------------------------------------------------
(* recalculate_mod_sha *)

RehashPrio ==
    /\ at[Window] = "rehash" /\ Free("prio")
    /\ prio' = Without(prio, {hand[Window].mod}) /\ Goes(Window, "rehash_n")
    /\ Kept /\ UNCHANGED <<normal, current, held, hand>>

RehashNormal ==
    /\ at[Window] = "rehash_n" /\ Free("normal")
    /\ normal' = Without(normal, {hand[Window].mod}) /\ Goes(Window, "rehash_c")
    /\ Kept /\ UNCHANGED <<prio, current, held, hand>>

\* The mod the worker has as its current one is said to be in hand; any other is hashed
\* at once, by a thread of its own.
RehashStarts ==
    /\ at[Window] = "rehash_c"
    /\ LET m == hand[Window].mod
       IN  \/ /\ current = m
              /\ Ends(Window) /\ Over(m)
           \/ \E t \in Tasks :
                /\ current # m /\ at[t] = "idle"
                /\ at' = [at EXCEPT ![Window] = "idle", ![t] = "path"]
                /\ hand' = [hand EXCEPT ![Window] = Nothing, ![t].mod = m]
                /\ due' = due \cup {m}
    /\ UNCHANGED <<queues, lazy, marks, drive, held, wanted, calls, pulls>>

-------------------------------------------------------------------------------
(* Short commands, and what happens outside *)

\* delete_mod_hashes: the baseline is forgotten, the queues are not touched.
Delete ==
    /\ at[Window] = "delete" /\ Free("data")
    /\ base' = [base EXCEPT ![hand[Window].mod] = NoBase]
    /\ invalid' = [invalid EXCEPT ![hand[Window].mod] = FALSE]
    /\ wanted' = [wanted EXCEPT ![hand[Window].mod] = Empty]
    /\ Ends(Window)
    /\ UNCHANGED <<queues, lazy, drive, held, due, calls, pulls>>

\* The switch "Hash new mods in the background".
Toggle ==
    /\ at[Window] = "toggle" /\ Free("data")
    /\ lazy' = ~lazy /\ Ends(Window)
    /\ UNCHANGED <<queues, marks, drive, held, due, wanted, calls, pulls>>

\* A command is given to an idle thread.  A re-hash wants the files as they are now.
Call(t, c, m) ==
    /\ calls < MaxCalls /\ at[t] = "idle"
    /\ c \in Calls \cap (IF t = Window THEN WindowCalls ELSE TaskCalls)
    /\ calls' = calls + 1
    /\ Goes(t, c) /\ hand' = [hand EXCEPT ![t].mod = m]
    /\ wanted' = IF c = "rehash" THEN [wanted EXCEPT ![m] = content[m]] ELSE wanted
    /\ UNCHANGED <<queues, lazy, marks, drive, held, due, pulls>>

\* Somebody writes a file of a mod.
Edit(m, f) ==
    /\ there /\ content[m][f] < MaxVersion
    /\ content' = [content EXCEPT ![m][f] = @ + 1]
    /\ UNCHANGED <<queues, lazy, marks, there, held, at, hand, due, wanted, calls, pulls>>

Pull ==
    /\ "unplug" \in Faults /\ pulls < MaxPulls
    /\ pulls' = pulls + 1 /\ there' = ~there
    /\ UNCHANGED <<queues, lazy, marks, content, held, at, hand, due, wanted, calls>>

-------------------------------------------------------------------------------
Looks   == Look \/ LookPrio \/ Pop \/ PopNormal \/ SetCurrent \/ After
Hashes(t)  == Path(t) \/ List(t) \/ Exists(t) \/ ReadFile(t) \/ Store(t)
Checks(t)  == Check(t) \/ CheckList(t) \/ Verdict(t)
Enables(t) == EnableAsks(t) \/ EnableTakes(t) \/ EnableReads(t) \/ EnablePushes(t)
Fills(t)   == \/ Populate(t) \/ PopulateFilters(t) \/ PopulatePushes(t)
              \/ Rescan(t) \/ RescanPushes(t)
Clicks  == \/ AllTakes \/ AllPushes \/ StatsCounts \/ StatsTakes \/ StatsEnds
           \/ RehashPrio \/ RehashNormal \/ RehashStarts \/ Delete \/ Toggle

WorkerStep  == Looks \/ Hashes(Worker)
TaskStep(t) == Hashes(t) \/ Checks(t) \/ Enables(t) \/ Fills(t)

Next ==
    \/ WorkerStep \/ Clicks
    \/ \E t \in Tasks : TaskStep(t)
    \/ \E t \in Threads : Cancelled(t)
    \/ \E t \in Threads \ {Worker}, c \in Calls, m \in Mods : Call(t, c, m)
    \/ \E m \in Mods, f \in Files : Edit(m, f)
    \/ Pull

Spec == Init /\ [][Next]_vars

\* The worker sleeps half a second or more in each of its rounds with no mutex held: who
\* waits for one gets it, however often it is taken in between.
Fairness == /\ WF_vars(WorkerStep) /\ SF_vars(Clicks)
            /\ \A t \in Tasks : SF_vars(TaskStep(t))

FairSpec == Spec /\ Fairness

-------------------------------------------------------------------------------
(* Properties *)

Reading  == {"path", "list", "exists", "read"}
Checking == {"check", "check_list", "check_read"}
Places   == Reading \cup Checking \cup WindowCalls \cup TaskCalls \cup
    {"idle", "look", "look_p", "pop", "pop_n", "set", "after", "enable_p", "enable_d",
     "enable_n", "all_n", "stats_n", "stats_p", "populate_n", "populate_push", "rescan_n",
     "rehash_n", "rehash_c"}

\* The types of the variables; whoever hashes or checks has a mod to do it for.
TypeOK ==
    /\ prio \in Seq(Mods) /\ normal \in Seq(Mods) /\ current \in Mods \cup {NoMod}
    /\ lazy \in BOOLEAN
    /\ base \in [Mods -> [Files -> 0..MaxVersion] \cup {NoBase}]
    /\ invalid \in [Mods -> BOOLEAN]
    /\ content \in [Mods -> [Files -> 1..MaxVersion]] /\ there \in BOOLEAN
    /\ held \in [Locks -> Threads \cup {Nobody}]
    /\ at \in [Threads -> Places]
    /\ \A t \in Threads :
         /\ hand[t].mod \in Mods \cup {NoMod} /\ hand[t].list \in Seq(Mods)
         /\ hand[t].left \subseteq Files /\ hand[t].got \in [Files -> 0..MaxVersion]
         /\ hand[t].old \in [Files -> 0..MaxVersion] \cup {NoBase}
         /\ at[t] \in Reading \cup Checking \cup {"set"} => hand[t].mod \in Mods
    /\ due \subseteq Mods /\ wanted \in [Mods -> [Files -> 0..MaxVersion]]
    /\ calls \in 0..MaxCalls /\ pulls \in 0..MaxPulls

\* The mutex a thread waits for while it holds another one; NoLock for who holds none or
\* waits for none.
NoLock == "none"
WaitsFor(t) ==
    IF at[t] \in {"look_p", "stats_p"} THEN "prio"
    ELSE IF at[t] \in {"pop_n", "enable_n", "all_n"} THEN "normal"
    ELSE IF at[t] = "enable_d" THEN "data" ELSE NoLock

\* Every thread of S waits for a mutex that one of S holds.
Circle(S) ==
    /\ S # {}
    /\ \A t \in S : WaitsFor(t) # NoLock /\ held[WaitsFor(t)] \in S

\* "The list stays usable while either runs" (integrity-hashing.md): no threads wait for
\* each other for ever, which would keep the data, or a queue, from every other thread too.
\* The mutexes are taken two at a time in several orders.
NobodyIsStuck == \A S \in SUBSET Threads : ~Circle(S)

\* Wherever threads wait for each other, one is activating a mod or counting the queues:
\* those two take the mutexes against the order data, priority, normal of all the others.
CirclesAreKnown ==
    \A S \in SUBSET Threads : Circle(S) => \E t \in S : at[t] \in {"enable_d", "stats_p"}

\* A thread is about to hash the mod, or has yet to say that another one does.
InHand(m) ==
    \E t \in Threads : hand[t].mod = m /\ at[t] \in Reading \cup
        {"set", "rehash", "rehash_n", "rehash_c"}

\* A mod somebody wants hashed is in a queue or in a thread's hand, whatever the queues
\* are filled, emptied and thinned out with in between.
NoneIsLost == \A m \in due : m \in Queued \/ InHand(m)

\* A mod somebody wants hashed is hashed at last (or its hash is cancelled, or fails),
\* unless hashing in the background is switched off or threads have come to wait for each
\* other for ever (NobodyIsStuck).
AskedIsHashed == \A m \in Mods : (m \in due) ~> (m \notin due \/ ~lazy \/ ~NobodyIsStuck)

\* "half a baseline is not a baseline" (process_single_mod_hashing): a baseline has every
\* file of the mod.
BaselinesAreWhole == \A m \in Mods : base[m] # NoBase => Known(base[m]) = Files

\* As long as the drive stays plugged in, that is so: a hash cancelled half-way, one beside
\* a check or a deletion, or two of one mod store all of it or nothing.
CancelLeavesNoHalf == pulls = 0 => BaselinesAreWhole

\* "Re-hashing records the files as they are now" (integrity-hashing.md): when nobody has a
\* mod in hand or queued, no file of its baseline is older than the last re-hash asked for.
RehashIsNow ==
    \A m \in Mods : InHand(m) \/ m \in Queued \/ base[m] = NoBase
                    \/ \A f \in Files : base[m][f] >= wanted[m][f]

\* A mod without a baseline is not marked as one whose files have changed: the background
\* hashing (populate_sha_queue, add_mod_to_priority_sha_queue) would pass it over for ever.
NothingShutOut == \A m \in Mods : Missing(m) => ~invalid[m]
================================================================================
