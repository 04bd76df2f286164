---------------------------- MODULE HashQueueProofs ----------------------------
(***************************************************************************)
(* The hash queues, for any library, any number of threads and any         *)
(* commands: types; threads wait for each other in a circle only where one *)
(* of them activates a mod or counts the queues, and never where no        *)
(* command does either; no mod that somebody wants hashed is lost; a       *)
(* baseline is whole as long as the drive stays plugged in.                *)
(***************************************************************************)
EXTENDS HashQueue, ListLemmas

\* The places where a thread holds a mutex from one step to the next.
Holders == [data   |-> {"look_p", "all_n"},
            prio   |-> {"pop_n", "enable_d", "enable_n"},
            normal |-> {"stats_p"}]

\* Who holds a mutex is at one of its places.
HoldersMatch == \A l \in Locks : held[l] # Nobody => at[held[l]] \in Holders[l]

LocksInv ==
    /\ held \in [Locks -> Threads \cup {Nobody}]
    /\ at \in [Threads -> Places]
    /\ HoldersMatch

\* The places of an activation and of a count of the queues.
Contrary == {"enable", "enable_p", "enable_d", "enable_n", "stats", "stats_n", "stats_p"}

\* Neither command is given, and nobody is at its places.
NoneContrary ==
    Calls \cap {"enable", "stats"} = {} => \A t \in Threads : at[t] \notin Contrary

-------------------------------------------------------------------------------
\* It holds at the start.
LEMMA LocksInit == Init => LocksInv /\ NoneContrary
<1> SUFFICES ASSUME Init PROVE LocksInv /\ NoneContrary OBVIOUS
<1>1. at \in [Threads -> Places] BY DEF Init, Places
<1>2. \A t \in Threads : at[t] \notin Contrary BY DEF Init, Contrary
<1> QED BY <1>1, <1>2 DEF Init, LocksInv, HoldersMatch, NoneContrary

\* A step that moves one thread, which holds no mutex before, and leaves the mutexes.
LEMMA Moves ==
    ASSUME LocksInv, NEW t \in Threads, NEW p \in Places, NEW q,
           at[t] = q, q \notin {"look_p", "all_n", "pop_n", "enable_d", "enable_n", "stats_p"},
           at' = [at EXCEPT ![t] = p], held' = held
    PROVE  LocksInv'
BY Threads_Assumption DEF LocksInv, HoldersMatch, Holders, Locks

\* The steps of the worker's round.
LEMMA LooksKeep == ASSUME LocksInv, Looks PROVE LocksInv'
<1> Worker \in Threads /\ Worker # Nobody BY Threads_Assumption DEF Threads
<1> USE Threads_Assumption DEF LocksInv, HoldersMatch, Holders, Locks, Goes, Takes, Drops,
        Free, Places
<1>1. CASE Look BY <1>1 DEF Look
<1>2. CASE LookPrio BY <1>2 DEF LookPrio
<1>3. CASE Pop BY <1>3 DEF Pop, Reading
<1>4. CASE PopNormal BY <1>4 DEF PopNormal
<1>5. CASE SetCurrent BY <1>5 DEF SetCurrent, Reading
<1>6. CASE After BY <1>6 DEF After
<1> QED BY <1>1, <1>2, <1>3, <1>4, <1>5, <1>6 DEF Looks

\* The steps of a thread that hashes, checks or fills a queue, or is cancelled: it holds
\* no mutex from one to the next.
LEMMA PlainKeep ==
    ASSUME LocksInv, NEW t \in Threads, Hashes(t) \/ Checks(t) \/ Fills(t) \/ Cancelled(t)
    PROVE  LocksInv'
<1>1. held' = held /\ (at' = at \/ \E p \in Places :
          at[t] \notin {"look_p", "all_n", "pop_n", "enable_d", "enable_n", "stats_p"}
          /\ at' = [at EXCEPT ![t] = p])
  <2> USE DEF Goes, Ends, Fails, Kept, Places, Reading, Checking
  <2>1. CASE Hashes(t)
    BY <2>1 DEF Hashes, Path, List, Exists, ReadFile, Store
  <2>2. CASE Checks(t) BY <2>2 DEF Checks, Check, CheckList, Verdict
  <2>3. CASE Fills(t)
    BY <2>3 DEF Fills, Populate, PopulateFilters, PopulatePushes, Rescan, RescanPushes,
                TaskCalls
  <2>4. CASE Cancelled(t) BY <2>4 DEF Cancelled
  <2> QED BY <2>1, <2>2, <2>3, <2>4
<1>2. CASE at' = at BY <1>1, <1>2 DEF LocksInv, HoldersMatch
<1> QED BY <1>1, <1>2, Moves

\* The steps of an activation.
LEMMA EnablesKeep == ASSUME LocksInv, NEW t \in Tasks, Enables(t) PROVE LocksInv'
<1> t \in Threads /\ t # Nobody /\ t # Worker BY Threads_Assumption DEF Threads
<1> USE Threads_Assumption DEF LocksInv, HoldersMatch, Holders, Locks, Goes, Takes, Drops,
        Free, Places, Ends, Kept
<1>1. CASE EnableAsks(t) BY <1>1 DEF EnableAsks
<1>2. CASE EnableTakes(t) BY <1>2 DEF EnableTakes
<1>3. CASE EnableReads(t) BY <1>3 DEF EnableReads
<1>4. CASE EnablePushes(t) BY <1>4 DEF EnablePushes
<1> QED BY <1>1, <1>2, <1>3, <1>4 DEF Enables

\* The steps of the window's commands.
LEMMA ClicksKeep == ASSUME LocksInv, Clicks PROVE LocksInv'
<1> Window \in Threads /\ Window # Nobody /\ Window # Worker
  BY Threads_Assumption DEF Threads
<1> USE Threads_Assumption DEF LocksInv, HoldersMatch, Holders, Locks, Goes, Takes, Drops,
        Free, Places, Ends, Kept
<1>1. CASE AllTakes BY <1>1 DEF AllTakes
<1>2. CASE AllPushes BY <1>2 DEF AllPushes
<1>3. CASE StatsCounts BY <1>3 DEF StatsCounts
<1>4. CASE StatsTakes BY <1>4 DEF StatsTakes
<1>5. CASE StatsEnds BY <1>5 DEF StatsEnds
<1>6. CASE RehashPrio BY <1>6 DEF RehashPrio
<1>7. CASE RehashNormal BY <1>7 DEF RehashNormal
<1>8. CASE RehashStarts
  <2>1. held' = held BY <1>8 DEF RehashStarts
  <2>2. CASE at' = [at EXCEPT ![Window] = "idle"]
    BY <1>8, <2>1, <2>2 DEF RehashStarts
  <2>3. ASSUME NEW t \in Tasks, at[t] = "idle",
               at' = [at EXCEPT ![Window] = "idle", ![t] = "path"]
        PROVE  LocksInv'
    BY <1>8, <2>1, <2>3 DEF RehashStarts, Reading, Threads
  <2> QED BY <1>8, <2>2, <2>3 DEF RehashStarts
<1>9. CASE Delete BY <1>9 DEF Delete
<1>10. CASE Toggle BY <1>10 DEF Toggle
<1> QED
  BY <1>1, <1>2, <1>3, <1>4, <1>5, <1>6, <1>7, <1>8, <1>9, <1>10 DEF Clicks

\* Every step keeps it.
LEMMA LocksStep == LocksInv /\ [Next]_vars => LocksInv'
<1> SUFFICES ASSUME LocksInv, [Next]_vars PROVE LocksInv' OBVIOUS
<1> Worker \in Threads /\ Tasks \subseteq Threads BY DEF Threads
<1>1. CASE WorkerStep BY <1>1, LooksKeep, PlainKeep DEF WorkerStep
<1>2. CASE Clicks BY <1>2, ClicksKeep
<1>3. ASSUME NEW t \in Tasks, TaskStep(t) PROVE LocksInv'
  BY <1>3, PlainKeep, EnablesKeep DEF TaskStep
<1>4. ASSUME NEW t \in Threads, Cancelled(t) PROVE LocksInv' BY <1>4, PlainKeep
<1>5. ASSUME NEW t \in Threads \ {Worker}, NEW c \in Calls, NEW m \in Mods, Call(t, c, m)
      PROVE  LocksInv'
  <2>1. c \in Places BY Data_Assumption DEF Places
  <2> QED BY <1>5, <2>1, Moves DEF Call, Goes
<1>6. ASSUME UNCHANGED <<at, held>> PROVE LocksInv'
  BY <1>6 DEF LocksInv, HoldersMatch
<1>7. ASSUME NEW m \in Mods, NEW f \in Files, Edit(m, f) PROVE LocksInv'
  BY <1>6, <1>7 DEF Edit
<1>8. CASE Pull BY <1>6, <1>8 DEF Pull
<1>9. CASE UNCHANGED vars BY <1>6, <1>9 DEF vars
<1> QED BY <1>1, <1>2, <1>3, <1>4, <1>5, <1>7, <1>8, <1>9 DEF Next

-------------------------------------------------------------------------------
\* A thread of a circle that holds the mutex another one waits for.
LEMMA CircleMember ==
    ASSUME LocksInv, NEW S \in SUBSET Threads, Circle(S), NEW t \in S
    PROVE  /\ WaitsFor(t) \in Locks
           /\ held[WaitsFor(t)] \in S
           /\ at[held[WaitsFor(t)]] \in Holders[WaitsFor(t)]
<1>1. WaitsFor(t) \in Locks BY DEF Circle, WaitsFor, NoLock, Locks
<1>2. held[WaitsFor(t)] \in S BY DEF Circle
<1>3. held[WaitsFor(t)] # Nobody BY <1>2, Threads_Assumption
<1> QED BY <1>1, <1>2, <1>3 DEF LocksInv, HoldersMatch

\* The mutexes are in order but for an activation and a count: who waits for the normal
\* queue waits for a count, who waits for the priority queue for an activation or for
\* somebody who waits for the normal queue.
LEMMA CirclesFollow == LocksInv => CirclesAreKnown
<1> SUFFICES ASSUME LocksInv, NEW S \in SUBSET Threads, Circle(S),
                    \A t \in S : at[t] \notin {"enable_d", "stats_p"}
             PROVE  FALSE
  BY DEF CirclesAreKnown
<1>1. ASSUME NEW t \in S PROVE WaitsFor(t) # "normal"
  BY <1>1, CircleMember DEF Holders
<1>2. ASSUME NEW t \in S PROVE WaitsFor(t) # "prio"
  <2> SUFFICES ASSUME WaitsFor(t) = "prio" PROVE FALSE OBVIOUS
  <2>1. held["prio"] \in S /\ at[held["prio"]] \in {"pop_n", "enable_d", "enable_n"}
    BY CircleMember DEF Holders
  <2>2. WaitsFor(held["prio"]) = "normal" BY <2>1 DEF WaitsFor
  <2> QED BY <2>1, <2>2, <1>1
<1>3. ASSUME NEW t \in S PROVE WaitsFor(t) \notin {"normal", "prio", "data"}
  BY <1>1, <1>2, <1>3 DEF WaitsFor, NoLock
<1>4. PICK t \in S : TRUE BY DEF Circle
<1> QED BY <1>3, <1>4, CircleMember DEF Locks

\* Wherever threads wait for each other one activates a mod or counts the queues.
THEOREM CirclesAreKnownHold == Spec => []CirclesAreKnown
<1>1. Init => LocksInv BY LocksInit
<1>2. LocksInv /\ [Next]_vars => LocksInv' BY LocksStep
<1>3. LocksInv => CirclesAreKnown BY CirclesFollow
<1> QED BY <1>1, <1>2, <1>3, PTL DEF Spec

-------------------------------------------------------------------------------
\* A step that moves one thread to a place of neither command.
LEMMA MovesPlainly ==
    ASSUME NoneContrary, at \in [Threads -> Places], NEW t \in Threads, NEW p,
           p \notin Contrary, at' = [at EXCEPT ![t] = p]
    PROVE  NoneContrary'
BY DEF NoneContrary

\* Neither command given, nobody comes to their places.
LEMMA NoneContraryStep == LocksInv /\ NoneContrary /\ [Next]_vars => NoneContrary'
<1> SUFFICES ASSUME LocksInv, NoneContrary, [Next]_vars,
                    Calls \cap {"enable", "stats"} = {}
             PROVE  NoneContrary'
  BY DEF NoneContrary
<1>1. \A t \in Threads : at[t] \notin Contrary BY DEF NoneContrary
<1>2. at \in [Threads -> Places] BY DEF LocksInv
<1>3. Worker \in Threads /\ Window \in Threads /\ Tasks \subseteq Threads BY DEF Threads
<1>4. CASE at' = at BY <1>1, <1>4 DEF NoneContrary
<1>5. ASSUME NEW t \in Threads, Hashes(t) \/ Checks(t) \/ Fills(t) \/ Cancelled(t)
      PROVE  NoneContrary'
  <2>1. at' = at \/ \E p : p \notin Contrary /\ at' = [at EXCEPT ![t] = p]
    BY <1>5 DEF Goes, Ends, Fails, Contrary, Hashes, Path, List, Exists, ReadFile, Store,
        Checks, Check, CheckList, Verdict, Fills, Populate, PopulateFilters,
        PopulatePushes, Rescan, RescanPushes, Cancelled, Kept
  <2> QED BY <2>1, <1>2, <1>4, MovesPlainly
<1>6. CASE Looks
  <2>1. \E p : p \notin Contrary /\ at' = [at EXCEPT ![Worker] = p]
    BY <1>6 DEF Goes, Contrary, Looks, Look, LookPrio, Pop, PopNormal, SetCurrent, After
  <2> QED BY <2>1, <1>2, <1>3, MovesPlainly
<1>7. ASSUME NEW t \in Tasks, Enables(t) PROVE FALSE
  <2>1. at[t] \in Contrary
    BY <1>7 DEF Contrary, Enables, EnableAsks, EnableTakes, EnableReads, EnablePushes
  <2> QED BY <2>1, <1>1, <1>3
<1>8. CASE StatsCounts \/ StatsTakes \/ StatsEnds
  <2>1. at[Window] \in Contrary
    BY <1>8 DEF Contrary, StatsCounts, StatsTakes, StatsEnds
  <2> QED BY <2>1, <1>1, <1>3
<1>9. CASE AllTakes \/ AllPushes \/ RehashPrio \/ RehashNormal \/ Delete \/ Toggle
  <2>1. \E p : p \notin Contrary /\ at' = [at EXCEPT ![Window] = p]
    BY <1>9 DEF Goes, Ends, Contrary, AllTakes, AllPushes, RehashPrio, RehashNormal,
        Delete, Toggle
  <2> QED BY <2>1, <1>2, <1>3, MovesPlainly
<1>10. CASE RehashStarts
  <2>1. \A t \in Threads : at'[t] \in {at[t], "idle", "path"}
    BY <1>10, <1>2, <1>3, Threads_Assumption DEF RehashStarts, Ends, Goes
  <2> QED BY <2>1, <1>1 DEF NoneContrary, Contrary
<1>11. ASSUME NEW t \in Threads \ {Worker}, NEW c \in Calls, NEW m \in Mods, Call(t, c, m)
       PROVE  NoneContrary'
  <2>1. c \notin Contrary BY Data_Assumption DEF Contrary, WindowCalls, TaskCalls
  <2> QED BY <1>11, <2>1, <1>2, MovesPlainly DEF Call, Goes
<1>12. ASSUME NEW m \in Mods, NEW f \in Files, Edit(m, f) PROVE NoneContrary'
  BY <1>4, <1>12 DEF Edit
<1>13. CASE Pull BY <1>4, <1>13 DEF Pull
<1>14. CASE UNCHANGED vars BY <1>4, <1>14 DEF vars
<1> QED
  BY <1>3, <1>5, <1>6, <1>7, <1>8, <1>9, <1>10, <1>11, <1>12, <1>13, <1>14
     DEF Next, WorkerStep, TaskStep, Clicks

\* Where no mod is activated and the queues are not counted, no threads wait for each other
\* for ever: the other commands and the worker take the mutexes in one order.
THEOREM NobodyWaitsForEver ==
    ASSUME Calls \cap {"enable", "stats"} = {}
    PROVE  Spec => []NobodyIsStuck
<1>1. Init => LocksInv /\ NoneContrary BY LocksInit
<1>2. LocksInv /\ NoneContrary /\ [Next]_vars => LocksInv' /\ NoneContrary'
  BY LocksStep, NoneContraryStep
<1>3. LocksInv /\ NoneContrary => NobodyIsStuck
  <2> SUFFICES ASSUME LocksInv, NoneContrary, NEW S \in SUBSET Threads, Circle(S)
               PROVE  FALSE
    BY DEF NobodyIsStuck
  <2>1. PICK t \in S : at[t] \in {"enable_d", "stats_p"} BY CirclesFollow DEF CirclesAreKnown
  <2> QED BY <2>1 DEF NoneContrary, Contrary
<1> QED BY <1>1, <1>2, <1>3, PTL DEF Spec

-------------------------------------------------------------------------------
(* What is in the queues and in the threads' hands *)

Versions == [Files -> 0 .. MaxVersion]
Hands == [mod: Mods \cup {NoMod}, list: Seq(Mods), left: SUBSET Files, got: Versions,
          old: Versions \cup {NoBase}]

\* A thread at one of these places is through with the mod it had in hand.
Resting == {"idle", "look", "look_p", "pop", "pop_n", "after"}

QueueTypes == /\ prio \in Seq(Mods) /\ normal \in Seq(Mods) /\ current \in Mods \cup {NoMod}
              /\ due \subseteq Mods

MarkTypes == /\ base \in [Mods -> Versions \cup {NoBase}] /\ invalid \in [Mods -> BOOLEAN]
             /\ content \in [Mods -> [Files -> 1 .. MaxVersion]] /\ there \in BOOLEAN
             /\ lazy \in BOOLEAN /\ wanted \in [Mods -> Versions]
             /\ calls \in 0 .. MaxCalls /\ pulls \in 0 .. MaxPulls

HandTypes == /\ at \in [Threads -> Places] /\ hand \in [Threads -> Hands]
             /\ \A t \in Threads : at[t] \notin Resting => hand[t].mod \in Mods

TypeInv == LocksInv /\ QueueTypes /\ MarkTypes /\ HandTypes

LEMMA TypesFollow == TypeInv => TypeOK
<1> SUFFICES ASSUME TypeInv PROVE TypeOK OBVIOUS
<1>1. \A t \in Threads :
         /\ hand[t].mod \in Mods \cup {NoMod} /\ hand[t].list \in Seq(Mods)
         /\ hand[t].left \subseteq Files /\ hand[t].got \in Versions
         /\ hand[t].old \in Versions \cup {NoBase}
  <2> TAKE t \in Threads
  <2>1. hand[t] \in Hands BY DEF TypeInv, HandTypes
  <2> QED BY <2>1 DEF Hands
<1>2. \A t \in Threads : at[t] \in Reading \cup Checking \cup {"set"} => hand[t].mod \in Mods
  BY DEF TypeInv, HandTypes, Resting, Reading, Checking
<1> QED BY <1>1, <1>2 DEF TypeInv, LocksInv, QueueTypes, MarkTypes, HandTypes, TypeOK, Versions

\* Nothing in hand, nothing read.
LEMMA NothingIsHeld == Nothing \in Hands /\ Empty \in Versions
<1>1. Empty \in Versions BY Data_Assumption DEF Empty, Versions
<1>2. <<>> \in Seq(Mods) OBVIOUS
<1> QED BY <1>1, <1>2 DEF Nothing, Hands

LEMMA TypesInit == Init => TypeInv
<1> SUFFICES ASSUME Init PROVE TypeInv OBVIOUS
<1>1. LocksInv BY LocksInit
<1>2. QueueTypes BY DEF Init, QueueTypes
<1>3. MarkTypes
  <2>1. [f \in Files |-> 1] \in [Files -> 1 .. MaxVersion] BY Data_Assumption
  <2> QED BY <2>1, NothingIsHeld, Data_Assumption DEF Init, MarkTypes
<1>4. HandTypes
  <2>1. at \in [Threads -> Places] BY <1>1 DEF LocksInv
  <2> QED BY <2>1, NothingIsHeld DEF Init, HandTypes, Resting
<1> QED BY <1>1, <1>2, <1>3, <1>4 DEF TypeInv

\* The steps that leave a thread with nothing, or with what it may have, at a new place.
LEMMA HandMoves ==
    ASSUME HandTypes, NEW t \in Threads, NEW p \in Places, NEW h \in Hands,
           p \in Resting \/ h.mod \in Mods,
           at' = [at EXCEPT ![t] = p], hand' = [hand EXCEPT ![t] = h]
    PROVE  HandTypes'
BY DEF HandTypes

\* Thread t comes to a place with something that is right for it.
Comes(t) ==
    \E p \in Places, h \in Hands :
        /\ p \in Resting \/ h.mod \in Mods
        /\ at' = [at EXCEPT ![t] = p] /\ hand' = [hand EXCEPT ![t] = h]

\* A thread comes to a place and its hands are as they were.
LEMMA ComesSame ==
    ASSUME HandTypes, NEW t \in Threads, NEW p \in Places,
           at[t] \notin Resting \/ p \in Resting,
           at' = [at EXCEPT ![t] = p], hand' = hand
    PROVE  Comes(t)
<1>1. hand' = [hand EXCEPT ![t] = hand[t]] BY DEF HandTypes
<1> QED BY <1>1 DEF HandTypes, Comes

\* A thread is through.
LEMMA ComesBack == ASSUME NEW t \in Threads, Ends(t) PROVE Comes(t)
<1>1. (IF t = Worker THEN "after" ELSE "idle") \in Places \cap Resting BY DEF Places, Resting
<1> QED BY <1>1, NothingIsHeld DEF Ends, Goes, Comes

\* The worker's round.
LEMMA LooksCome == ASSUME TypeInv, Looks PROVE Comes(Worker)
<1> Worker \in Threads BY DEF Threads
<1> USE DEF TypeInv, Goes, Kept, Places, Resting, Reading
<1>1. CASE Look BY <1>1, ComesSame DEF Look
<1>2. CASE LookPrio BY <1>2, ComesSame DEF LookPrio
<1>3. CASE Pop
  <2>1. CASE prio = <<>> BY <1>3, <2>1, ComesSame DEF Pop
  <2>2. CASE prio # <<>>
    <3>1. Head(prio) \in Mods BY <2>2 DEF QueueTypes
    <3>2. [hand[Worker] EXCEPT !.mod = Head(prio)] \in Hands
      BY <3>1 DEF HandTypes, Hands
    <3>3. hand' = [hand EXCEPT ![Worker] = [hand[Worker] EXCEPT !.mod = Head(prio)]]
      BY <1>3, <2>2 DEF Pop
    <3>4. [hand[Worker] EXCEPT !.mod = Head(prio)].mod = Head(prio)
      BY DEF HandTypes, Hands
    <3> QED BY <1>3, <2>2, <3>1, <3>2, <3>3, <3>4 DEF Pop, Comes
  <2> QED BY <2>1, <2>2
<1>4. CASE PopNormal
  <2>1. CASE normal = <<>> BY <1>4, <2>1, ComesSame DEF PopNormal
  <2>2. CASE normal # <<>>
    <3>1. Head(normal) \in Mods BY <2>2 DEF QueueTypes
    <3>2. [hand[Worker] EXCEPT !.mod = Head(normal)] \in Hands
      BY <3>1 DEF HandTypes, Hands
    <3>3. hand' = [hand EXCEPT ![Worker] = [hand[Worker] EXCEPT !.mod = Head(normal)]]
      BY <1>4, <2>2 DEF PopNormal
    <3>4. [hand[Worker] EXCEPT !.mod = Head(normal)].mod = Head(normal)
      BY DEF HandTypes, Hands
    <3> QED BY <1>4, <2>2, <3>1, <3>2, <3>3, <3>4 DEF PopNormal, Comes
  <2> QED BY <2>1, <2>2
<1>5. CASE SetCurrent BY <1>5, ComesSame DEF SetCurrent
<1>6. CASE After BY <1>6, ComesSame DEF After
<1> QED BY <1>1, <1>2, <1>3, <1>4, <1>5, <1>6 DEF Looks

\* A thread hashes, checks or is cancelled.
LEMMA HashesCome ==
    ASSUME TypeInv, NEW t \in Threads, Hashes(t) \/ Checks(t) \/ Cancelled(t)
    PROVE  Comes(t)
<1> USE DEF TypeInv, Goes, Kept, Places, Resting, Reading, Checking
<1>1. /\ hand[t] \in Hands /\ at[t] \in Places
      /\ \A h \in Hands : hand' = [hand EXCEPT ![t] = h] /\ h.mod = hand[t].mod
             /\ at[t] \notin Resting /\ (at' = at \/ \E p \in Places : at' = [at EXCEPT ![t] = p])
             => Comes(t)
  <2>1. hand[t] \in Hands /\ at[t] \in Places BY DEF HandTypes
  <2>2. at = [at EXCEPT ![t] = at[t]] BY DEF HandTypes
  <2>3. ASSUME NEW h \in Hands, hand' = [hand EXCEPT ![t] = h], h.mod = hand[t].mod,
               at[t] \notin Resting,
               at' = at \/ \E p \in Places : at' = [at EXCEPT ![t] = p]
        PROVE  Comes(t)
    <3>1. PICK p \in Places : at' = [at EXCEPT ![t] = p] BY <2>1, <2>2, <2>3
    <3>2. h.mod \in Mods BY <2>3 DEF HandTypes
    <3> QED BY <2>3, <3>1, <3>2 DEF Comes
  <2> QED BY <2>1, <2>3
<1>2. CASE Path(t) BY <1>2, ComesSame DEF Path
<1>3. CASE List(t)
  <2> DEFINE h == [hand[t] EXCEPT !.left = Listed]
  <2>1. h \in Hands /\ h.mod = hand[t].mod BY <1>1 DEF Hands, Listed
  <2> QED BY <1>1, <1>3, <2>1 DEF List
<1>4. CASE Exists(t)
  <2>1. CASE there BY <1>4, <2>1, ComesSame DEF Exists
  <2>2. CASE ~there BY <1>4, <2>2, ComesBack DEF Exists, Fails
  <2> QED BY <2>1, <2>2
<1>5. CASE ReadFile(t)
  <2>1. PICK f \in hand[t].left :
          hand' = [hand EXCEPT ![t].left = @ \ {f},
                               ![t].got[f] = IF there THEN content[hand[t].mod][f] ELSE 0]
    BY <1>5 DEF ReadFile
  <2> DEFINE v == IF there THEN content[hand[t].mod][f] ELSE 0
             h == [hand[t] EXCEPT !.left = @ \ {f}, !.got = [@ EXCEPT ![f] = v]]
  <2>2. f \in Files /\ hand[t].mod \in Mods BY <1>1, <1>5 DEF Hands, HandTypes, ReadFile
  <2>3. v \in 0 .. MaxVersion BY <2>2, Data_Assumption DEF MarkTypes
  <2>4. [hand[t].got EXCEPT ![f] = v] \in Versions BY <1>1, <2>3 DEF Hands, Versions
  <2>5. h \in Hands /\ h.mod = hand[t].mod BY <1>1, <2>4 DEF Hands
  <2>6. hand' = [hand EXCEPT ![t] = h] BY <2>1 DEF HandTypes
  <2>7. at[t] \notin Resting /\ at' = at BY <1>5 DEF ReadFile
  <2> QED BY <1>1, <2>5, <2>6, <2>7
<1>6. CASE Store(t) BY <1>6, ComesBack DEF Store
<1>7. CASE Check(t)
  <2> DEFINE h == [hand[t] EXCEPT !.old = base[hand[t].mod]]
  <2>1. hand[t].mod \in Mods BY <1>7 DEF Check, HandTypes
  <2>2. h \in Hands /\ h.mod = hand[t].mod BY <1>1, <2>1 DEF Hands, MarkTypes
  <2> QED BY <1>1, <1>7, <2>2 DEF Check
<1>8. CASE CheckList(t)
  <2> DEFINE old == hand[t].old
             added == Listed \ Known(old)
             g == [f \in Files |-> IF f \in added THEN content[hand[t].mod][f] ELSE 0]
             h == IF old = NoBase THEN [hand[t] EXCEPT !.left = Listed]
                  ELSE [hand[t] EXCEPT !.left = Known(old), !.got = g]
  <2>1. hand[t].mod \in Mods BY <1>8 DEF CheckList, HandTypes
  <2>2. g \in Versions
    <3>1. content[hand[t].mod] \in [Files -> 1 .. MaxVersion] BY <2>1 DEF MarkTypes
    <3>2. \A f \in Files : (IF f \in added THEN content[hand[t].mod][f] ELSE 0) \in 0 .. MaxVersion
      BY <3>1, Data_Assumption
    <3> HIDE DEF added
    <3> QED BY <3>2 DEF Versions
  <2>3. Known(old) \in SUBSET Files /\ Listed \in SUBSET Files BY DEF Known, Listed
  <2>4. h \in Hands /\ h.mod = hand[t].mod
    <3> HIDE DEF g
    <3> QED BY <1>1, <2>2, <2>3 DEF Hands
  <2>5. hand' = [hand EXCEPT ![t] = h] BY <1>8 DEF CheckList, HandTypes
  <2> HIDE DEF h
  <2> QED BY <1>1, <1>8, <2>4, <2>5 DEF CheckList
<1>9. CASE Verdict(t) BY <1>9, ComesBack DEF Verdict
<1>10. CASE Cancelled(t) BY <1>10, ComesBack DEF Cancelled, Fails
<1> QED BY <1>2, <1>3, <1>4, <1>5, <1>6, <1>7, <1>8, <1>9, <1>10 DEF Hashes, Checks

\* A list of mods without some of them.
LEMMA ListsOfMods ==
    /\ Library \in Seq(Mods)
    /\ \A S : \A s \in Seq(Mods) :
          Without(s, S) \in Seq(Mods) /\ ToSet(Without(s, S)) = ToSet(s) \ S
BY WithoutElements, Data_Assumption

\* A thread comes to a place with a list of mods.
LEMMA ComesListed ==
    ASSUME HandTypes, NEW t \in Threads, NEW p \in Places, NEW s \in Seq(Mods),
           at[t] \notin Resting,
           at' = [at EXCEPT ![t] = p], hand' = [hand EXCEPT ![t].list = s]
    PROVE  Comes(t)
<1> DEFINE h == [hand[t] EXCEPT !.list = s]
<1>1. h \in Hands /\ h.mod \in Mods BY DEF HandTypes, Hands
<1>2. hand' = [hand EXCEPT ![t] = h] BY DEF HandTypes
<1> QED BY <1>1, <1>2 DEF Comes

\* A thread asks for a mod to be hashed, or fills a queue.
LEMMA FillsCome ==
    ASSUME TypeInv, NEW t \in Threads, Enables(t) \/ Fills(t)
    PROVE  Comes(t)
<1> USE DEF TypeInv, Goes, Kept, Places, Resting
<1>1. CASE EnableAsks(t)
  <2>1. CASE lazy BY <1>1, <2>1, ComesSame DEF EnableAsks
  <2>2. CASE ~lazy BY <1>1, <2>2, ComesBack DEF EnableAsks
  <2> QED BY <2>1, <2>2
<1>2. CASE EnableTakes(t) BY <1>2, ComesSame DEF EnableTakes
<1>3. CASE EnableReads(t) BY <1>3, ComesSame, ComesBack DEF EnableReads
<1>4. CASE EnablePushes(t) BY <1>4, ComesBack DEF EnablePushes
<1>5. CASE Populate(t)
  <2>1. CASE lazy
    <3>1. Without(Library, {m \in Mods : ~Missing(m) \/ invalid[m]}) \in Seq(Mods)
      BY ListsOfMods
    <3>2. at[t] \notin Resting BY <1>5 DEF Populate, TaskCalls
    <3> QED BY <1>5, <2>1, <3>1, <3>2, ComesListed DEF Populate
  <2>2. CASE ~lazy BY <1>5, <2>2, ComesBack DEF Populate
  <2> QED BY <2>1, <2>2
<1>6. CASE PopulateFilters(t)
  <2> DEFINE new == Without(hand[t].list, ToSet(normal))
  <2>1. new \in Seq(Mods) BY ListsOfMods DEF HandTypes, Hands
  <2>2. at[t] \notin Resting BY <1>6 DEF PopulateFilters
  <2>3. CASE new = <<>> BY <1>6, <2>3, ComesBack DEF PopulateFilters
  <2>4. CASE new # <<>> BY <1>6, <2>1, <2>2, <2>4, ComesListed DEF PopulateFilters
  <2> QED BY <2>3, <2>4
<1>7. CASE PopulatePushes(t) BY <1>7, ComesBack DEF PopulatePushes
<1>8. CASE Rescan(t)
  <2>1. PICK changed \in SUBSET {m \in Mods : base[m] # NoBase /\ there} :
          IF changed = {} THEN Ends(t)
          ELSE /\ hand' = [hand EXCEPT ![t].list = Without(Library, Mods \ changed)]
               /\ Goes(t, "rescan_n")
    BY <1>8 DEF Rescan
  <2>2. Without(Library, Mods \ changed) \in Seq(Mods) BY ListsOfMods
  <2>3. at[t] \notin Resting BY <1>8 DEF Rescan
  <2>4. CASE changed = {} BY <2>1, <2>4, ComesBack
  <2>5. CASE changed # {} BY <2>1, <2>2, <2>3, <2>5, ComesListed
  <2> QED BY <2>4, <2>5
<1>9. CASE RescanPushes(t) BY <1>9, ComesBack DEF RescanPushes
<1> QED
  BY <1>1, <1>2, <1>3, <1>4, <1>5, <1>6, <1>7, <1>8, <1>9 DEF Enables, Fills

\* The window's commands; a re-hash may start a thread.
LEMMA ClicksCome ==
    ASSUME TypeInv, Clicks
    PROVE  Comes(Window) \/ (RehashStarts /\ HandTypes')
<1> Window \in Threads BY DEF Threads
<1> USE DEF TypeInv, Goes, Kept, Places, Resting, WindowCalls
<1>1. CASE AllTakes
  <2> DEFINE s == IF at[Window] = "all" THEN Library
                  ELSE Without(Library, {m \in Mods : ~Missing(m)})
  <2>1. s \in Seq(Mods) BY ListsOfMods
  <2>2. at[Window] \notin Resting BY <1>1 DEF AllTakes
  <2>3. hand' = [hand EXCEPT ![Window].list = s] BY <1>1 DEF AllTakes
  <2> HIDE DEF s
  <2> QED BY <1>1, <2>1, <2>2, <2>3, ComesListed DEF AllTakes
<1>2. CASE AllPushes BY <1>2, ComesBack DEF AllPushes
<1>3. CASE StatsCounts BY <1>3, ComesSame DEF StatsCounts
<1>4. CASE StatsTakes BY <1>4, ComesSame DEF StatsTakes
<1>5. CASE StatsEnds BY <1>5, ComesBack DEF StatsEnds
<1>6. CASE RehashPrio BY <1>6, ComesSame DEF RehashPrio
<1>7. CASE RehashNormal BY <1>7, ComesSame DEF RehashNormal
<1>8. CASE RehashStarts
  <2> DEFINE m == hand[Window].mod
  <2>1. CASE Ends(Window) BY <2>1, ComesBack
  <2>2. ASSUME NEW t \in Tasks, at[t] = "idle",
               at' = [at EXCEPT ![Window] = "idle", ![t] = "path"],
               hand' = [hand EXCEPT ![Window] = Nothing, ![t].mod = m]
        PROVE  HandTypes'
    <3>1. t \in Threads /\ t # Window BY Threads_Assumption DEF Threads
    <3>2. m \in Mods BY <1>8 DEF RehashStarts, HandTypes
    <3> DEFINE h == [hand[t] EXCEPT !.mod = m]
    <3>3. h \in Hands /\ h.mod = m BY <3>1, <3>2 DEF HandTypes, Hands
    <3>4. hand' = [hand EXCEPT ![Window] = Nothing, ![t] = h] BY <2>2, <3>1 DEF HandTypes
    <3> HIDE DEF h, m
    <3>5. hand' \in [Threads -> Hands] BY <3>1, <3>3, <3>4, NothingIsHeld DEF HandTypes
    <3>6. at' \in [Threads -> Places] BY <2>2, <3>1 DEF HandTypes, Reading
    <3>7. \A u \in Threads : at'[u] \notin Resting => hand'[u].mod \in Mods
      <4> TAKE u \in Threads
      <4>1. CASE u = t BY <3>1, <3>2, <3>3, <3>4, <4>1 DEF HandTypes
      <4>2. CASE u = Window BY <2>2, <3>1, <4>2 DEF HandTypes
      <4>3. CASE u # t /\ u # Window BY <2>2, <3>1, <3>4, <4>3 DEF HandTypes
      <4> QED BY <4>1, <4>2, <4>3
    <3> QED BY <3>5, <3>6, <3>7 DEF HandTypes
  <2> QED BY <1>8, <2>1, <2>2 DEF RehashStarts
<1>9. CASE Delete BY <1>9, ComesBack DEF Delete
<1>10. CASE Toggle BY <1>10, ComesBack DEF Toggle
<1> QED
  BY <1>1, <1>2, <1>3, <1>4, <1>5, <1>6, <1>7, <1>8, <1>9, <1>10 DEF Clicks

\* A command is given.
LEMMA CallComes ==
    ASSUME TypeInv, NEW t \in Threads, NEW c \in Calls, NEW m \in Mods, Call(t, c, m)
    PROVE  Comes(t)
<1> DEFINE h == [hand[t] EXCEPT !.mod = m]
<1>1. c \in Places BY Data_Assumption DEF Places
<1>2. h \in Hands /\ h.mod = m BY DEF TypeInv, HandTypes, Hands
<1>3. hand' = [hand EXCEPT ![t] = h] BY DEF Call, TypeInv, HandTypes
<1> HIDE DEF h
<1> QED BY <1>1, <1>2, <1>3 DEF Call, Goes, Comes

LEMMA HandsStep == TypeInv /\ [Next]_vars => HandTypes'
<1> SUFFICES ASSUME TypeInv, [Next]_vars PROVE HandTypes' OBVIOUS
<1> Worker \in Threads /\ Window \in Threads /\ Tasks \subseteq Threads BY DEF Threads
<1> USE DEF TypeInv
<1>1. ASSUME NEW t \in Threads, Comes(t) PROVE HandTypes' BY <1>1, HandMoves DEF Comes
<1>2. CASE WorkerStep BY <1>1, <1>2, LooksCome, HashesCome DEF WorkerStep
<1>3. CASE Clicks BY <1>1, <1>3, ClicksCome
<1>4. ASSUME NEW t \in Tasks, TaskStep(t) PROVE HandTypes'
  BY <1>1, <1>4, HashesCome, FillsCome DEF TaskStep
<1>5. ASSUME NEW t \in Threads, Cancelled(t) PROVE HandTypes' BY <1>1, <1>5, HashesCome
<1>6. ASSUME NEW t \in Threads \ {Worker}, NEW c \in Calls, NEW m \in Mods, Call(t, c, m)
      PROVE  HandTypes'
  BY <1>1, <1>6, CallComes
<1>7. ASSUME UNCHANGED <<at, hand>> PROVE HandTypes' BY <1>7 DEF HandTypes
<1>8. ASSUME NEW m \in Mods, NEW f \in Files, Edit(m, f) PROVE HandTypes'
  BY <1>7, <1>8 DEF Edit
<1>9. CASE Pull BY <1>7, <1>9 DEF Pull
<1>10. CASE UNCHANGED vars BY <1>7, <1>10 DEF vars
<1> QED BY <1>2, <1>3, <1>4, <1>5, <1>6, <1>8, <1>9, <1>10 DEF Next

LEMMA QueuesStep == TypeInv /\ [Next]_vars => QueueTypes'
<1> SUFFICES ASSUME TypeInv, [Next]_vars PROVE QueueTypes' OBVIOUS
<1> Worker \in Threads /\ Window \in Threads /\ Tasks \subseteq Threads BY DEF Threads
<1>1. ASSUME UNCHANGED queues, due' \subseteq due PROVE QueueTypes'
  BY <1>1 DEF queues, TypeInv, QueueTypes
<1>2. \A t \in Threads : /\ hand[t] \in Hands /\ hand[t].list \in Seq(Mods)
                         /\ at[t] \notin Resting => hand[t].mod \in Mods
  BY DEF TypeInv, HandTypes, Hands
<1>3. ASSUME NEW m \in Mods, Over(m) PROVE due' \subseteq due BY <1>3 DEF Over
<1>4. CASE Looks
  <2> USE DEF TypeInv, QueueTypes, Kept, Looks
  <2>1. CASE Look \/ LookPrio BY <1>1, <2>1 DEF Look, LookPrio
  <2>2. CASE Pop
    <3>1. prio # <<>> => Tail(prio) \in Seq(Mods) BY ListElements
    <3> QED BY <2>2, <3>1 DEF Pop
  <2>3. CASE PopNormal
    <3>1. normal # <<>> => Tail(normal) \in Seq(Mods) BY ListElements
    <3> QED BY <2>3, <3>1 DEF PopNormal
  <2>4. CASE SetCurrent
    <3>1. hand[Worker].mod \in Mods BY <1>2, <2>4 DEF SetCurrent, Resting
    <3> QED BY <2>4, <3>1 DEF SetCurrent
  <2>5. CASE After BY <2>5 DEF After
  <2> QED BY <1>4, <2>1, <2>2, <2>3, <2>4, <2>5
<1>5. ASSUME NEW t \in Threads, Hashes(t) \/ Checks(t) \/ Cancelled(t) PROVE QueueTypes'
  <2>1. at[t] \notin Resting => (Over(hand[t].mod) => due' \subseteq due) BY <1>2, <1>3
  <2> HIDE DEF Over
  <2> QED
    BY <1>1, <1>5, <2>1 DEF Hashes, Path, List, Exists, ReadFile, Store, Checks, Check,
        CheckList, Verdict, Cancelled, Fails, Kept, Resting
<1>6. ASSUME NEW t \in Threads, Enables(t) \/ Fills(t) PROVE QueueTypes'
  <2>1. CASE EnableAsks(t) \/ EnableTakes(t) \/ EnableReads(t) \/ Populate(t)
             \/ PopulateFilters(t) \/ Rescan(t)
    BY <1>1, <2>1 DEF EnableAsks, EnableTakes, EnableReads, Populate, PopulateFilters,
        Rescan, Kept
  <2>2. CASE EnablePushes(t)
    <3>1. hand[t].mod \in Mods BY <1>2, <2>2 DEF EnablePushes, Resting
    <3> QED BY <2>2, <3>1, ListsOfMods DEF EnablePushes, TypeInv, QueueTypes
  <2>3. CASE PopulatePushes(t)
    <3>1. ToSet(hand[t].list) \subseteq Mods BY <1>2, ListElements
    <3> QED BY <1>2, <2>3, <3>1 DEF PopulatePushes, TypeInv, QueueTypes
  <2>4. CASE RescanPushes(t)
    <3>1. ToSet(hand[t].list) \subseteq Mods BY <1>2, ListElements
    <3> QED
      BY <1>2, <2>4, <3>1, ListsOfMods DEF RescanPushes, PushNew, TypeInv, QueueTypes
  <2> QED BY <1>6, <2>1, <2>2, <2>3, <2>4 DEF Enables, Fills
<1>7. CASE Clicks
  <2>1. CASE AllTakes \/ StatsCounts \/ StatsTakes \/ StatsEnds \/ Delete \/ Toggle
    BY <1>1, <2>1 DEF AllTakes, StatsCounts, StatsTakes, StatsEnds, Delete, Toggle, Kept
  <2>2. CASE AllPushes
    <3>1. ToSet(hand[Window].list) \subseteq Mods BY <1>2, ListElements
    <3> QED BY <1>2, <2>2, <3>1, ListsOfMods DEF AllPushes, PushNew, TypeInv, QueueTypes
  <2>3. CASE RehashPrio BY <2>3, ListsOfMods DEF RehashPrio, Kept, TypeInv, QueueTypes
  <2>4. CASE RehashNormal BY <2>4, ListsOfMods DEF RehashNormal, Kept, TypeInv, QueueTypes
  <2>5. CASE RehashStarts
    <3>1. hand[Window].mod \in Mods BY <1>2, <2>5 DEF RehashStarts, Resting
    <3>2. CASE Over(hand[Window].mod)
      BY <1>1, <1>3, <2>5, <3>1, <3>2 DEF RehashStarts
    <3>3. CASE due' = due \cup {hand[Window].mod}
      BY <2>5, <3>1, <3>3 DEF RehashStarts, queues, TypeInv, QueueTypes
    <3> QED BY <2>5, <3>2, <3>3 DEF RehashStarts
  <2> QED BY <1>7, <2>1, <2>2, <2>3, <2>4, <2>5 DEF Clicks
<1>8. ASSUME NEW t \in Threads \ {Worker}, NEW c \in Calls, NEW m \in Mods, Call(t, c, m)
      PROVE  QueueTypes'
  BY <1>1, <1>8 DEF Call
<1>9. ASSUME NEW m \in Mods, NEW f \in Files, Edit(m, f) PROVE QueueTypes'
  BY <1>1, <1>9 DEF Edit
<1>10. CASE Pull BY <1>1, <1>10 DEF Pull
<1>11. CASE UNCHANGED vars BY <1>1, <1>11 DEF vars
<1> QED
  BY <1>4, <1>5, <1>6, <1>7, <1>8, <1>9, <1>10, <1>11 DEF Next, WorkerStep, TaskStep

LEMMA MarksStep == TypeInv /\ [Next]_vars => MarkTypes'
<1> SUFFICES ASSUME TypeInv, [Next]_vars PROVE MarkTypes' OBVIOUS
<1> Worker \in Threads /\ Window \in Threads /\ Tasks \subseteq Threads BY DEF Threads
<1> USE DEF TypeInv, MarkTypes
<1>1. ASSUME UNCHANGED <<lazy, marks, drive, wanted, calls, pulls>> PROVE MarkTypes'
  BY <1>1 DEF marks, drive
<1>2. \A t \in Threads : /\ hand[t].got \in Versions
                         /\ at[t] \notin Resting => hand[t].mod \in Mods
  BY DEF HandTypes, Hands
<1>3. CASE Looks
  BY <1>1, <1>3 DEF Looks, Look, LookPrio, Pop, PopNormal, SetCurrent, After, Kept
<1>4. ASSUME NEW t \in Threads, Hashes(t) \/ Checks(t) \/ Cancelled(t) PROVE MarkTypes'
  <2>1. CASE Path(t) \/ List(t) \/ ReadFile(t) \/ Check(t) \/ CheckList(t)
    BY <1>1, <2>1 DEF Path, List, ReadFile, Check, CheckList, Kept
  <2>2. CASE Exists(t) \/ Cancelled(t)
    <3>1. wanted' = wanted \/ wanted' = [wanted EXCEPT ![hand[t].mod] = Empty]
      BY <2>2 DEF Exists, Cancelled, Fails
    <3>2. wanted' \in [Mods -> Versions] BY <3>1, NothingIsHeld
    <3>3. UNCHANGED <<lazy, marks, drive, calls, pulls>> BY <2>2 DEF Exists, Cancelled
    <3> QED BY <3>2, <3>3 DEF marks, drive
  <2>3. CASE Store(t) BY <1>2, <2>3 DEF Store, drive
  <2>4. CASE Verdict(t) BY <1>2, <2>4 DEF Verdict, drive
  <2> QED BY <1>4, <2>1, <2>2, <2>3, <2>4 DEF Hashes, Checks
<1>5. ASSUME NEW t \in Threads, Enables(t) \/ Fills(t) PROVE MarkTypes'
  BY <1>1, <1>5 DEF Enables, EnableAsks, EnableTakes, EnableReads, EnablePushes, Fills,
      Populate, PopulateFilters, PopulatePushes, Rescan, RescanPushes, Kept
<1>6. CASE Clicks
  <2>1. CASE Delete BY <2>1, NothingIsHeld DEF Delete, drive
  <2>2. CASE Toggle BY <2>2 DEF Toggle, marks, drive
  <2> QED
    BY <1>1, <1>6, <2>1, <2>2 DEF Clicks, AllTakes, AllPushes, StatsCounts, StatsTakes,
        StatsEnds, RehashPrio, RehashNormal, RehashStarts, Kept
<1>7. ASSUME NEW t \in Threads \ {Worker}, NEW c \in Calls, NEW m \in Mods, Call(t, c, m)
      PROVE  MarkTypes'
  <2>1. content[m] \in Versions
    <3>1. content[m] \in [Files -> 1 .. MaxVersion] OBVIOUS
    <3>2. \A f \in Files : content[m][f] \in 0 .. MaxVersion BY <3>1, Data_Assumption
    <3> QED BY <3>1, <3>2 DEF Versions
  <2>2. calls' \in 0 .. MaxCalls BY <1>7, Data_Assumption DEF Call
  <2>3. wanted' \in [Mods -> Versions] BY <1>7, <2>1 DEF Call
  <2> QED BY <1>7, <2>2, <2>3 DEF Call, marks, drive
<1>8. ASSUME NEW m \in Mods, NEW f \in Files, Edit(m, f) PROVE MarkTypes'
  <2>1. content[m] \in [Files -> 1 .. MaxVersion] OBVIOUS
  <2>2. content[m][f] + 1 \in 1 .. MaxVersion BY <1>8, <2>1, Data_Assumption DEF Edit
  <2>3. content' \in [Mods -> [Files -> 1 .. MaxVersion]] BY <1>8, <2>2 DEF Edit
  <2> QED BY <1>8, <2>3 DEF Edit, marks
<1>9. CASE Pull BY <1>9, Data_Assumption DEF Pull, marks
<1>10. CASE UNCHANGED vars BY <1>1, <1>10 DEF vars
<1> QED
  BY <1>3, <1>4, <1>5, <1>6, <1>7, <1>8, <1>9, <1>10 DEF Next, WorkerStep, TaskStep

\* Whatever is asked, cancelled or unplugged, the queues hold mods and a baseline says of
\* each file which version it had, or that it was left out.
THEOREM TypeCorrect == Spec => []TypeOK
<1>1. Init => TypeInv BY TypesInit
<1>2. TypeInv /\ [Next]_vars => TypeInv'
  BY LocksStep, QueuesStep, MarksStep, HandsStep DEF TypeInv
<1>3. TypeInv => TypeOK BY TypesFollow
<1> QED BY <1>1, <1>2, <1>3, PTL DEF Spec

-------------------------------------------------------------------------------
(* What is asked for is queued or in hand *)

\* The places at which what a thread has in hand is still to be hashed.
Hashing == Reading \cup {"set", "rehash", "rehash_n", "rehash_c"}

\* Thread t still has m to hash.
Holds(t, m) == hand[t].mod = m /\ at[t] \in Hashing

\* A step of one thread that loses no mod: what it takes from a queue, or had in hand, it
\* has in hand after it, unless the mod is queued or nobody wants it any more.
LEMMA LosesNone ==
    ASSUME TypeInv, NoneIsLost, NEW t \in Threads, Comes(t),
           due' \subseteq due \cup Queued',
           \A m \in due' \cap Queued : m \in Queued' \/ Holds(t, m)',
           \A m \in due' : Holds(t, m) => m \in Queued' \/ Holds(t, m)'
    PROVE  NoneIsLost'
<1> SUFFICES ASSUME NEW m \in due', m \notin Queued' PROVE InHand(m)' BY DEF NoneIsLost
<1>1. CASE Holds(t, m)' BY <1>1 DEF Holds, InHand, Hashing, Reading
<1>2. CASE ~Holds(t, m)'
  <2>1. m \in due /\ m \notin Queued /\ ~Holds(t, m) BY <1>2
  <2>2. PICK u \in Threads : Holds(u, m)
    BY <2>1 DEF NoneIsLost, InHand, Holds, Hashing
  <2>3. u # t BY <2>1, <2>2
  <2>4. at'[u] = at[u] /\ hand'[u] = hand[u] BY <2>3 DEF Comes, TypeInv, HandTypes
  <2> QED BY <2>2, <2>4 DEF Holds, InHand, Hashing, Reading
<1> QED BY <1>1, <1>2

\* A step that leaves the queues and wants nothing new, of a thread with nothing to hash in
\* its hand, or that has it in hand after it, or is through with it.
LEMMA LeavesQueues ==
    ASSUME TypeInv, NoneIsLost, NEW t \in Threads, Comes(t),
           UNCHANGED <<prio, normal>>, due' \subseteq due,
           \/ at[t] \notin Hashing
           \/ at'[t] \in Hashing /\ hand'[t].mod = hand[t].mod
           \/ Over(hand[t].mod)
    PROVE  NoneIsLost'
<1>1. Queued' = Queued BY DEF Queued
<1>2. ASSUME NEW m \in due', Holds(t, m) PROVE m \in Queued' \/ Holds(t, m)'
  BY <1>1, <1>2 DEF Holds, Over
<1> QED BY <1>1, <1>2, LosesNone

\* A step that queues what it wants, of a thread with nothing to hash in its hand.
LEMMA Queues ==
    ASSUME TypeInv, NoneIsLost, NEW t \in Threads, Comes(t), at[t] \notin Hashing,
           Queued \subseteq Queued', due' \subseteq due \cup Queued'
    PROVE  NoneIsLost'
BY LosesNone DEF Holds

LEMMA LooksLoseNone == ASSUME TypeInv, NoneIsLost, Looks PROVE NoneIsLost'
<1> Worker \in Threads BY DEF Threads
<1> Comes(Worker) BY LooksCome
<1> USE DEF Kept, Hashing, Reading, queues
<1>1. CASE Look BY <1>1, LeavesQueues DEF Look
<1>2. CASE LookPrio BY <1>2, LeavesQueues DEF LookPrio
<1>3. CASE Pop
  <2>1. CASE prio = <<>> BY <1>3, <2>1, LeavesQueues DEF Pop
  <2>2. CASE prio # <<>>
    <3>1. prio' = Tail(prio) /\ normal' = normal /\ due' = due /\ at[Worker] = "pop"
      BY <1>3, <2>2 DEF Pop
    <3>2. PICK m : m = Head(prio) OBVIOUS
    <3>3. ToSet(prio) = {m} \cup ToSet(Tail(prio))
      BY <2>2, <3>2, ListElements DEF TypeInv, QueueTypes
    <3>4. Queued \subseteq Queued' \cup {m} BY <3>1, <3>3 DEF Queued
    <3>5. Holds(Worker, m)'
      BY <3>2, <1>3, <2>2 DEF Pop, Goes, Holds, TypeInv, HandTypes, Hands
    <3> QED BY <3>1, <3>4, <3>5, LosesNone DEF Holds
  <2> QED BY <2>1, <2>2
<1>4. CASE PopNormal
  <2>1. CASE normal = <<>> BY <1>4, <2>1, LeavesQueues DEF PopNormal
  <2>2. CASE normal # <<>>
    <3>1. normal' = Tail(normal) /\ prio' = prio /\ due' = due /\ at[Worker] = "pop_n"
      BY <1>4, <2>2 DEF PopNormal
    <3>2. PICK m : m = Head(normal) OBVIOUS
    <3>3. ToSet(normal) = {m} \cup ToSet(Tail(normal))
      BY <2>2, <3>2, ListElements DEF TypeInv, QueueTypes
    <3>4. Queued \subseteq Queued' \cup {m} BY <3>1, <3>3 DEF Queued
    <3>5. Holds(Worker, m)'
      BY <3>2, <1>4, <2>2 DEF PopNormal, Goes, Holds, TypeInv, HandTypes, Hands
    <3> QED BY <3>1, <3>4, <3>5, LosesNone DEF Holds
  <2> QED BY <2>1, <2>2
<1>5. CASE SetCurrent
  <2>1. at'[Worker] = "path" /\ hand' = hand
    BY <1>5 DEF SetCurrent, Goes, TypeInv, HandTypes
  <2> QED BY <1>5, <2>1, LeavesQueues DEF SetCurrent
<1>6. CASE After BY <1>6, LeavesQueues DEF After
<1> QED BY <1>1, <1>2, <1>3, <1>4, <1>5, <1>6 DEF Looks

LEMMA HashesLoseNone ==
    ASSUME TypeInv, NoneIsLost, NEW t \in Threads, Hashes(t) \/ Checks(t) \/ Cancelled(t)
    PROVE  NoneIsLost'
<1> Comes(t) BY HashesCome
<1>1. at \in [Threads -> Places] /\ hand \in [Threads -> Hands] BY DEF TypeInv, HandTypes
<1>2. UNCHANGED <<prio, normal>>
  BY DEF Hashes, Path, List, Exists, ReadFile, Store, Checks, Check, CheckList, Verdict,
         Cancelled, queues
<1>3. Over(hand[t].mod) \/ due' = due
  BY DEF Hashes, Path, List, Exists, ReadFile, Store, Checks, Check, CheckList, Verdict,
         Cancelled, Fails, Kept
<1>4. due' \subseteq due BY <1>3 DEF Over
<1>5. ASSUME at[t] \in Hashing, ~Over(hand[t].mod)
      PROVE  at'[t] \in Hashing /\ hand'[t].mod = hand[t].mod
  <2> HIDE DEF Over
  <2> USE DEF Goes, Hashing, Reading
  <2>1. CASE Path(t) BY <1>1, <1>5, <2>1 DEF Path
  <2>2. CASE List(t) BY <1>1, <1>5, <2>2 DEF List, Hands
  <2>3. CASE Exists(t) BY <1>1, <1>5, <2>3 DEF Exists, Fails
  <2>4. CASE ReadFile(t) BY <1>1, <1>5, <2>4 DEF ReadFile, Hands
  <2>5. CASE Store(t) BY <1>5, <2>5 DEF Store
  <2>6. CASE Checks(t) BY <1>5, <2>6 DEF Checks, Check, CheckList, Verdict
  <2>7. CASE Cancelled(t) BY <1>5, <2>7 DEF Cancelled, Fails
  <2> QED BY <2>1, <2>2, <2>3, <2>4, <2>5, <2>6, <2>7 DEF Hashes
<1> QED BY <1>2, <1>4, <1>5, LeavesQueues

\* The mods of a list that are not in the normal queue go to its end: all of them are queued.
LEMMA PushesLoseNone ==
    ASSUME TypeInv, NoneIsLost, NEW t \in Threads, Comes(t), at[t] \notin Hashing,
           PushNew(t), UNCHANGED prio
    PROVE  NoneIsLost'
<1> DEFINE list == hand[t].list
           new  == Without(list, ToSet(normal))
<1>1. prio \in Seq(Mods) /\ normal \in Seq(Mods) /\ list \in Seq(Mods)
  BY DEF TypeInv, QueueTypes, HandTypes, Hands
<1>2. new \in Seq(Mods) /\ ToSet(new) = ToSet(list) \ ToSet(normal) BY <1>1, ListsOfMods
<1>3. normal' = normal \o new /\ due' = due \cup ToSet(list) BY DEF PushNew
<1> HIDE DEF new
<1>4. ToSet(normal') = ToSet(normal) \cup ToSet(new) BY <1>1, <1>2, <1>3, ListElements
<1>5. Queued' = Queued \cup ToSet(list) BY <1>2, <1>4 DEF Queued
<1>6. Queued \subseteq Queued' /\ due' \subseteq due \cup Queued' BY <1>3, <1>5
<1> QED BY <1>6, Queues

LEMMA FillsLoseNone ==
    ASSUME TypeInv, NoneIsLost, NEW t \in Threads, Enables(t) \/ Fills(t)
    PROVE  NoneIsLost'
<1> Comes(t) BY FillsCome
<1> USE DEF Hashing, Reading
<1>1. \A s, q \in Seq(Mods) : ToSet(s \o q) = ToSet(s) \cup ToSet(q) BY ListElements
<1>2. prio \in Seq(Mods) /\ normal \in Seq(Mods) /\ hand[t].list \in Seq(Mods)
  BY DEF TypeInv, QueueTypes, HandTypes, Hands
<1>3. CASE EnableAsks(t) \/ EnableTakes(t) \/ EnableReads(t) \/ Populate(t)
           \/ PopulateFilters(t) \/ Rescan(t)
  BY <1>3, LeavesQueues DEF EnableAsks, EnableTakes, EnableReads, Populate,
      PopulateFilters, Rescan, Kept, queues, TaskCalls
<1>4. CASE EnablePushes(t)
  <2>1. PICK m : m = hand[t].mod OBVIOUS
  <2>2. m \in Mods BY <1>4, <2>1 DEF EnablePushes, TypeInv, HandTypes, Resting
  <2>3. normal' = Without(normal, {m}) /\ prio' = Append(prio, m) /\ due' = due \cup {m}
    BY <1>4, <2>1 DEF EnablePushes
  <2>4. ToSet(normal') = ToSet(normal) \ {m} /\ ToSet(prio') = ToSet(prio) \cup {m}
    BY <1>2, <2>2, <2>3, ListsOfMods, ListElements
  <2>5. Queued' = Queued \cup {m} BY <2>4 DEF Queued
  <2> QED BY <1>4, <2>3, <2>5, Queues DEF EnablePushes
<1>5. CASE PopulatePushes(t)
  <2>1. Queued' = Queued \cup ToSet(hand[t].list)
    BY <1>1, <1>2, <1>5 DEF PopulatePushes, Queued
  <2>2. due' = due \cup ToSet(hand[t].list) BY <1>5 DEF PopulatePushes
  <2> QED BY <1>5, <2>1, <2>2, Queues DEF PopulatePushes
<1>6. CASE RescanPushes(t) BY <1>6, PushesLoseNone DEF RescanPushes
<1> QED BY <1>3, <1>4, <1>5, <1>6 DEF Enables, Fills

LEMMA ClicksLoseNone == ASSUME TypeInv, NoneIsLost, Clicks PROVE NoneIsLost'
<1> Window \in Threads BY DEF Threads
<1> USE DEF Hashing, Reading
<1>1. at \in [Threads -> Places] /\ hand \in [Threads -> Hands]
      /\ prio \in Seq(Mods) /\ normal \in Seq(Mods)
  BY DEF TypeInv, HandTypes, QueueTypes
<1>2. CASE RehashStarts
  <2>1. PICK m : m = hand[Window].mod OBVIOUS
  <2>2. Queued' = Queued /\ UNCHANGED <<prio, normal>>
    BY <1>2 DEF RehashStarts, queues, Queued
  <2>3. CASE Ends(Window) /\ Over(m)
    BY <2>1, <2>2, <2>3, ComesBack, LeavesQueues DEF Over
  <2>4. ASSUME NEW t \in Tasks, at[t] = "idle",
               at' = [at EXCEPT ![Window] = "idle", ![t] = "path"],
               hand' = [hand EXCEPT ![Window] = Nothing, ![t].mod = m],
               due' = due \cup {m}
        PROVE  NoneIsLost'
    <3>1. t \in Threads /\ t # Window BY Threads_Assumption DEF Threads
    <3>2. InHand(m)'
      BY <1>1, <2>4, <3>1 DEF InHand, Hands
    <3>3. ASSUME NEW n \in due, n # m, n \notin Queued PROVE InHand(n)'
      <4>1. PICK u \in Threads : Holds(u, n) BY <3>3 DEF NoneIsLost, InHand, Holds
      <4>2. u # Window /\ u # t BY <2>1, <2>4, <3>3, <4>1 DEF Holds
      <4>3. at'[u] = at[u] /\ hand'[u] = hand[u] BY <1>1, <2>4, <3>1, <4>2
      <4> QED BY <4>1, <4>3 DEF Holds, InHand
    <3> QED BY <2>2, <2>4, <3>2, <3>3 DEF NoneIsLost
  <2> QED BY <1>2, <2>1, <2>3, <2>4 DEF RehashStarts
<1>3. CASE ~RehashStarts
  <2> Comes(Window) BY <1>3, ClicksCome
  <2>1. CASE AllTakes \/ StatsCounts \/ StatsTakes \/ StatsEnds \/ Delete \/ Toggle
    BY <2>1, LeavesQueues DEF AllTakes, StatsCounts, StatsTakes, StatsEnds, Delete,
        Toggle, Kept, queues
  <2>2. CASE AllPushes BY <2>2, PushesLoseNone DEF AllPushes
  <2>3. CASE RehashPrio \/ RehashNormal
    <3>1. PICK m : m = hand[Window].mod OBVIOUS
    <3>2. Queued \subseteq Queued' \cup {m}
      BY <1>1, <2>3, <3>1, ListsOfMods DEF RehashPrio, RehashNormal, Queued
    <3>3. Holds(Window, m)'
      BY <1>1, <2>3, <3>1 DEF RehashPrio, RehashNormal, Goes, Holds
    <3>4. due' = due BY <2>3 DEF RehashPrio, RehashNormal, Kept
    <3> QED BY <3>1, <3>2, <3>3, <3>4, LosesNone DEF Holds
  <2> QED BY <1>3, <2>1, <2>2, <2>3 DEF Clicks
<1> QED BY <1>2, <1>3

LEMMA NoneIsLostStep == TypeInv /\ NoneIsLost /\ [Next]_vars => NoneIsLost'
<1> SUFFICES ASSUME TypeInv, NoneIsLost, [Next]_vars PROVE NoneIsLost' OBVIOUS
<1> Worker \in Threads /\ Tasks \subseteq Threads BY DEF Threads
<1>1. ASSUME NEW t \in Threads \ {Worker}, NEW c \in Calls, NEW m \in Mods, Call(t, c, m)
      PROVE  NoneIsLost'
  <2>1. Comes(t) BY <1>1, CallComes
  <2>2. at[t] \notin Hashing BY <1>1 DEF Call, Hashing, Reading
  <2> QED BY <1>1, <2>1, <2>2, LeavesQueues DEF Call, queues
<1>2. ASSUME UNCHANGED <<prio, normal, at, hand, due>> PROVE NoneIsLost'
  BY <1>2 DEF NoneIsLost, InHand, Queued
<1>3. ASSUME NEW m \in Mods, NEW f \in Files, Edit(m, f) PROVE NoneIsLost'
  BY <1>2, <1>3 DEF Edit, queues
<1>4. CASE Pull BY <1>2, <1>4 DEF Pull, queues
<1>5. CASE UNCHANGED vars BY <1>2, <1>5 DEF vars, queues
<1> QED
  BY <1>1, <1>3, <1>4, <1>5, LooksLoseNone, HashesLoseNone, FillsLoseNone, ClicksLoseNone
     DEF Next, WorkerStep, TaskStep

\* A mod somebody wants hashed is in a queue or in a thread's hand until it is hashed, or
\* its hash fails or is cancelled: no interleaving of the worker with commands that fill,
\* thin out or empty the queues loses it between two of them.
THEOREM NoneIsLostHolds == Spec => []NoneIsLost
<1>1. Init => TypeInv /\ NoneIsLost BY TypesInit DEF Init, NoneIsLost
<1>2. TypeInv /\ NoneIsLost /\ [Next]_vars => TypeInv' /\ NoneIsLost'
  BY LocksStep, QueuesStep, MarksStep, HandsStep, NoneIsLostStep DEF TypeInv
<1> QED BY <1>1, <1>2, PTL DEF Spec

-------------------------------------------------------------------------------
(* A baseline has every file, while the drive stays plugged in *)

\* A pass that is going to store a baseline has read each file it has not left to read.
PassesAreWhole ==
    \A t \in Threads :
        at[t] \in {"exists", "read"} \/ (at[t] = "check_read" /\ hand[t].old = NoBase)
        => \A f \in Files : f \in hand[t].left \/ hand[t].got[f] # 0

PluggedIn == pulls = 0 => there /\ PassesAreWhole /\ BaselinesAreWhole

\* A step of one thread that leaves the drive, the baselines, and what the others have read.
LEMMA PassesKeep ==
    ASSUME TypeInv, PluggedIn, NEW t \in Threads, Comes(t), UNCHANGED <<there, pulls, base>>,
           pulls = 0 =>
              (at'[t] \in {"exists", "read"} \/ (at'[t] = "check_read" /\ hand'[t].old = NoBase)
               => \A f \in Files : f \in hand'[t].left \/ hand'[t].got[f] # 0)
    PROVE  PluggedIn'
<1> SUFFICES ASSUME pulls = 0 PROVE PassesAreWhole' BY DEF PluggedIn, BaselinesAreWhole
<1>1. \A u \in Threads \ {t} : at'[u] = at[u] /\ hand'[u] = hand[u]
  BY DEF Comes, TypeInv, HandTypes
<1> QED BY <1>1 DEF PluggedIn, PassesAreWhole

\* A step that leaves everything PluggedIn speaks of, but for a thread that goes to a place
\* where it has no pass under way.
LEMMA PassesLeft ==
    ASSUME TypeInv, PluggedIn, NEW t \in Threads, Comes(t), UNCHANGED <<there, pulls, base>>,
           at'[t] \notin {"exists", "read", "check_read"}
    PROVE  PluggedIn'
BY PassesKeep

\* A pass that is over stores what it has read.
LEMMA PassStored ==
    ASSUME TypeInv, PluggedIn, NEW t \in Threads, Ends(t), UNCHANGED <<there, pulls>>,
           at[t] = "read" \/ (at[t] = "check_read" /\ hand[t].old = NoBase),
           hand[t].left = {}, base' = [base EXCEPT ![hand[t].mod] = hand[t].got]
    PROVE  PluggedIn'
<1> SUFFICES ASSUME pulls = 0 PROVE PassesAreWhole' /\ BaselinesAreWhole'
  BY DEF PluggedIn
<1>1. Known(hand[t].got) = Files BY DEF PluggedIn, PassesAreWhole, Known
<1>2. BaselinesAreWhole'
  BY <1>1 DEF PluggedIn, BaselinesAreWhole, TypeInv, MarkTypes, Known
<1>3. \A u \in Threads \ {t} : at'[u] = at[u] /\ hand'[u] = hand[u]
  BY DEF Ends, Goes, TypeInv, HandTypes
<1>4. at'[t] \notin {"exists", "read", "check_read"} BY DEF Ends, Goes, TypeInv, HandTypes
<1>5. PassesAreWhole' BY <1>3, <1>4 DEF PluggedIn, PassesAreWhole
<1> QED BY <1>2, <1>5

LEMMA HashesWhole ==
    ASSUME TypeInv, PluggedIn, NEW t \in Threads, Hashes(t) \/ Checks(t) \/ Cancelled(t)
    PROVE  PluggedIn'
<1> Comes(t) BY HashesCome
<1>1. at \in [Threads -> Places] /\ hand \in [Threads -> Hands] /\ hand[t] \in Hands
  BY DEF TypeInv, HandTypes
<1>2. pulls = 0 => Listed = Files BY DEF PluggedIn, Listed
<1> USE DEF Goes, Kept, drive, marks
<1>3. Ends(t) => at'[t] \notin {"exists", "read", "check_read"} BY <1>1 DEF Ends
<1>4. CASE Path(t) BY <1>1, <1>4, PassesLeft DEF Path
<1>5. CASE List(t)
  <2>1. hand'[t].left = Listed BY <1>1, <1>5 DEF List, Hands
  <2>2. at'[t] \in {"exists", "read"} BY <1>1, <1>5 DEF List
  <2> HIDE DEF Listed
  <2> QED BY <1>2, <1>5, <2>1, <2>2, PassesKeep DEF List
<1>6. CASE Exists(t)
  <2>1. CASE there
    <3>1. at'[t] = "read" /\ hand' = hand /\ at[t] = "exists" BY <1>1, <1>6, <2>1 DEF Exists
    <3>2. pulls = 0 => \A f \in Files : f \in hand'[t].left \/ hand'[t].got[f] # 0
      BY <3>1 DEF PluggedIn, PassesAreWhole
    <3> QED BY <1>6, <3>1, <3>2, PassesKeep DEF Exists
  <2>2. CASE ~there BY <1>3, <1>6, <2>2, PassesLeft DEF Exists, Fails
  <2> QED BY <2>1, <2>2
<1>7. CASE ReadFile(t)
  <2>1. PICK f \in hand[t].left :
          hand' = [hand EXCEPT ![t].left = @ \ {f},
                               ![t].got[f] = IF there THEN content[hand[t].mod][f] ELSE 0]
    BY <1>7 DEF ReadFile
  <2>2. f \in Files /\ hand[t].mod \in Mods
    BY <1>1, <1>7 DEF Hands, ReadFile, TypeInv, HandTypes, Resting
  <2>3. content[hand[t].mod][f] # 0 BY <2>2 DEF TypeInv, MarkTypes
  <2>4. /\ hand'[t].left = hand[t].left \ {f} /\ hand'[t].old = hand[t].old
        /\ hand'[t].got = [hand[t].got EXCEPT ![f] = IF there THEN content[hand[t].mod][f] ELSE 0]
    BY <1>1, <2>1 DEF Hands
  <2>5. \A g \in Files : hand'[t].got[g] = IF g # f THEN hand[t].got[g]
                            ELSE IF there THEN content[hand[t].mod][f] ELSE 0
    BY <1>1, <2>2, <2>4 DEF Hands, Versions
  <2>6. at' = at /\ UNCHANGED <<there, pulls, base>> BY <1>7 DEF ReadFile
  <2>7. ASSUME pulls = 0,
               at'[t] \in {"exists", "read"} \/ (at'[t] = "check_read" /\ hand'[t].old = NoBase),
               NEW g \in Files
        PROVE  g \in hand'[t].left \/ hand'[t].got[g] # 0
    <3>1. g \in hand[t].left \/ hand[t].got[g] # 0
      BY <2>4, <2>6, <2>7 DEF PluggedIn, PassesAreWhole
    <3>2. there BY <2>7 DEF PluggedIn
    <3>3. CASE g = f BY <2>3, <2>5, <3>2, <3>3
    <3>4. CASE g # f BY <2>4, <2>5, <3>1, <3>4
    <3> QED BY <3>3, <3>4
  <2> QED BY <2>6, <2>7, PassesKeep
<1>8. CASE Store(t) BY <1>8, PassStored DEF Store
<1>9. CASE Check(t) BY <1>1, <1>9, PassesLeft DEF Check
<1>10. CASE CheckList(t)
  <2>1. hand'[t].old = hand[t].old /\ (hand[t].old = NoBase => hand'[t].left = Listed)
    BY <1>1, <1>10 DEF CheckList, Hands
  <2>2. at'[t] = "check_read" BY <1>1, <1>10 DEF CheckList
  <2> HIDE DEF Listed
  <2> QED BY <1>2, <1>10, <2>1, <2>2, PassesKeep DEF CheckList
<1>11. CASE Verdict(t)
  <2>1. CASE hand[t].old = NoBase BY <1>11, <2>1, PassStored DEF Verdict
  <2>2. CASE hand[t].old # NoBase BY <1>3, <1>11, <2>2, PassesLeft DEF Verdict
  <2> QED BY <2>1, <2>2
<1>12. CASE Cancelled(t) BY <1>3, <1>12, PassesLeft DEF Cancelled, Fails
<1> QED
  BY <1>4, <1>5, <1>6, <1>7, <1>8, <1>9, <1>10, <1>11, <1>12 DEF Hashes, Checks

LEMMA PluggedInStep == TypeInv /\ PluggedIn /\ [Next]_vars => PluggedIn'
<1> SUFFICES ASSUME TypeInv, PluggedIn, [Next]_vars PROVE PluggedIn' OBVIOUS
<1> Worker \in Threads /\ Window \in Threads /\ Tasks \subseteq Threads BY DEF Threads
<1> DEFINE Passing == {"exists", "read", "check_read"}
<1>1. at \in [Threads -> Places] BY DEF TypeInv, HandTypes
<1>2. ASSUME NEW t \in Threads, Ends(t) PROVE at'[t] \notin Passing
  BY <1>1, <1>2 DEF Ends, Goes
<1>3. CASE Looks
  <2>1. at'[Worker] \notin Passing
    BY <1>1, <1>3 DEF Looks, Look, LookPrio, Pop, PopNormal, SetCurrent, After, Goes
  <2>2. UNCHANGED <<there, pulls, base>>
    BY <1>3 DEF Looks, Look, LookPrio, Pop, PopNormal, SetCurrent, After, Kept, marks, drive
  <2> QED BY <1>3, <2>1, <2>2, LooksCome, PassesLeft
<1>4. ASSUME NEW t \in Threads, Enables(t) \/ Fills(t) PROVE PluggedIn'
  <2> USE DEF Enables, EnableAsks, EnableTakes, EnableReads, EnablePushes, Fills, Populate,
        PopulateFilters, PopulatePushes, Rescan, RescanPushes
  <2>1. at'[t] \notin Passing BY <1>1, <1>2, <1>4 DEF Goes
  <2>2. UNCHANGED <<there, pulls, base>> BY <1>4 DEF Kept, marks, drive
  <2> QED BY <1>4, <2>1, <2>2, FillsCome, PassesLeft
<1>5. CASE RehashStarts
  <2>1. \A t \in Threads : at'[t] \in Passing => at'[t] = at[t] /\ hand'[t] = hand[t]
    <3> TAKE t \in Threads
    <3>1. CASE Ends(Window)
      BY <1>1, <3>1, Threads_Assumption DEF Ends, Goes, TypeInv, HandTypes
    <3>2. ASSUME NEW u \in Tasks, at' = [at EXCEPT ![Window] = "idle", ![u] = "path"],
                 hand' = [hand EXCEPT ![Window] = Nothing, ![u].mod = hand[Window].mod]
          PROVE  at'[t] \in Passing => at'[t] = at[t] /\ hand'[t] = hand[t]
      BY <1>1, <3>2, Threads_Assumption DEF TypeInv, HandTypes
    <3> QED BY <1>5, <3>1, <3>2 DEF RehashStarts
  <2>2. UNCHANGED <<there, pulls, base>> BY <1>5 DEF RehashStarts, marks, drive
  <2> QED BY <2>1, <2>2 DEF PluggedIn, PassesAreWhole, BaselinesAreWhole
<1>6. CASE Clicks /\ ~RehashStarts
  <2> Comes(Window) BY <1>6, ClicksCome
  <2>1. at'[Window] \notin Passing
    BY <1>1, <1>2, <1>6 DEF Clicks, AllTakes, AllPushes, StatsCounts, StatsTakes, StatsEnds,
        RehashPrio, RehashNormal, Delete, Toggle, Goes
  <2>2. CASE Delete
    <3>1. UNCHANGED <<there, pulls>> BY <2>2 DEF Delete, drive
    <3>2. BaselinesAreWhole => BaselinesAreWhole'
      BY <2>2 DEF Delete, BaselinesAreWhole, TypeInv, MarkTypes, Known
    <3>3. \A u \in Threads \ {Window} : at'[u] = at[u] /\ hand'[u] = hand[u]
      BY DEF Comes, TypeInv, HandTypes
    <3>4. PassesAreWhole => PassesAreWhole' BY <2>1, <3>3 DEF PassesAreWhole
    <3> QED BY <3>1, <3>2, <3>4 DEF PluggedIn
  <2>3. CASE ~Delete
    <3>1. UNCHANGED <<there, pulls, base>>
      BY <1>6, <2>3 DEF Clicks, AllTakes, AllPushes, StatsCounts, StatsTakes, StatsEnds,
          RehashPrio, RehashNormal, Toggle, Kept, marks, drive
    <3> QED BY <2>1, <3>1, PassesLeft
  <2> QED BY <2>2, <2>3
<1>7. ASSUME NEW t \in Threads \ {Worker}, NEW c \in Calls, NEW m \in Mods, Call(t, c, m)
      PROVE  PluggedIn'
  <2>1. c \notin Passing BY Data_Assumption DEF WindowCalls, TaskCalls
  <2>2. at'[t] \notin Passing BY <1>1, <1>7, <2>1 DEF Call, Goes
  <2> QED BY <1>7, <2>2, CallComes, PassesLeft DEF Call, marks, drive
<1>8. ASSUME UNCHANGED <<there, pulls, base, at, hand>> PROVE PluggedIn'
  BY <1>8 DEF PluggedIn, PassesAreWhole, BaselinesAreWhole
<1>9. ASSUME NEW m \in Mods, NEW f \in Files, Edit(m, f) PROVE PluggedIn'
  BY <1>8, <1>9 DEF Edit, marks
<1>10. CASE Pull
  <2>1. pulls' # 0 BY <1>10 DEF Pull, TypeInv, MarkTypes
  <2> QED BY <2>1 DEF PluggedIn
<1>11. CASE UNCHANGED vars BY <1>8, <1>11 DEF vars, marks, drive
<1> QED
  BY <1>3, <1>4, <1>5, <1>6, <1>7, <1>9, <1>10, <1>11, HashesWhole
     DEF Next, WorkerStep, TaskStep

\* While the drive stays plugged in a mod has the baseline of all its files or none, whatever
\* is cancelled, checked, re-hashed or deleted at the same time.
THEOREM CancelLeavesNoHalfHolds == Spec => []CancelLeavesNoHalf
<1>1. Init => TypeInv /\ PluggedIn
  BY TypesInit DEF Init, PluggedIn, PassesAreWhole, BaselinesAreWhole
<1>2. TypeInv /\ PluggedIn /\ [Next]_vars => TypeInv' /\ PluggedIn'
  BY LocksStep, QueuesStep, MarksStep, HandsStep, PluggedInStep DEF TypeInv
<1>3. PluggedIn => CancelLeavesNoHalf BY DEF PluggedIn, CancelLeavesNoHalf
<1> QED BY <1>1, <1>2, <1>3, PTL DEF Spec

================================================================================
