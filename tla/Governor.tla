------------------------------- MODULE Governor --------------------------------
(***************************************************************************)
(* The resource governor (src/src-tauri/src/governor/queue.rs and          *)
(* runtime.rs).  A heavy operation takes a ticket, waits for a slot of its *)
(* kind, and between blocks calls checkpoint(), where it is held while it  *)
(* or everything is paused, or while foreground work runs and it is        *)
(* background work.  Game mode lowers the slots and pauses background      *)
(* tickets until the game ends.                                            *)
(*                                                                         *)
(* One mutex guards the queue and one condition variable wakes whoever     *)
(* sleeps on it: a step is a hold of the mutex, with the notify after it.  *)
(***************************************************************************)
EXTENDS Naturals, FiniteSets

CONSTANTS
    Ops,         \* the operations: each takes one ticket, once
    KindOf,      \* the kind of each
    ThreadOf,    \* the thread of each; NoThread for async code
    Inside,      \* the operation it is nested in, one deep; NoOp for none
    NoThread, NoOp,
    Chosen,      \* the slots a kind has under the user's preset
    PauseMax,    \* how long the pause of a task or a plugin lasts (TASK_PAUSE_MAX)
    ClockRuns,   \* whether time may pass between two readings of one checkpoint
    MaxTime,     \* bound: the clock
    MaxClicks,   \* bound: pauses and cancels from the dashboard, tasks and the API
    MaxGames     \* bound: games started

Foreground == {"deploy", "install"}
Background == {"hash", "maintenance"}
Kinds      == Foreground \cup Background \cup
    {"backup", "extract", "compress", "scan", "download", "image"}

ASSUME Ops_Assumption ==
    /\ IsFiniteSet(Ops) /\ NoOp \notin Ops
    /\ \A o \in Ops : KindOf[o] \in Kinds /\ Inside[o] \in Ops \cup {NoOp}

\* A nested operation is sync code on the thread of the one it is nested in.
ASSUME Nested_Assumption ==
    \A o \in Ops : Inside[o] \in Ops =>
        ThreadOf[o] # NoThread /\ Inside[o] # o /\ ThreadOf[Inside[o]] = ThreadOf[o]
        /\ Inside[Inside[o]] = NoOp

ASSUME Bounds_Assumption ==
    /\ Chosen \in Nat \ {0} /\ PauseMax \in Nat \ {0}
    /\ ClockRuns \in BOOLEAN
    /\ MaxTime \in Nat /\ MaxClicks \in Nat /\ MaxGames \in Nat

VARIABLES
    at,         \* where each operation is
    paused,     \* the tickets that are paused
    cancelled,  \* the tickets that are cancelled
    sleeps,     \* who sleeps on the condition variable, and when it wakes by itself
    slots,      \* the slots of a kind, the same for all in these presets
    all,        \* the pause of everything: by whom, until when
    mine,       \* paused_for_game
    game,       \* game mode is on
    refresh,    \* the detection's thread: where it is, the tickets it has to look at
    now, clicks, games

vars == <<at, paused, cancelled, sleeps, slots, all, mine, game, refresh, now, clicks,
          games>>

Awake     == 0
Never     == MaxTime + PauseMax + 1
Woken     == [o \in Ops |-> Awake]
NotPaused == [by |-> "nobody", until |-> 0]
Resting   == [at |-> "idle", todo |-> {}]

Places == {"ready", "slot", "treat", "pause", "note", "work", "parked", "ended"}

Live(o)    == at[o] \notin {"ready", "ended"}
Running(o) == at[o] \notin {"ready", "slot", "ended"}
RunningOf(k)      == {o \in Ops : Running(o) /\ KindOf[o] = k}
ForegroundRunning == \E o \in Ops : Running(o) /\ KindOf[o] \in Foreground
AllPaused         == now < all.until

\* No operation nested in o is under way: o's thread is at o.
Free(o) == \A p \in Ops : Inside[p] = o => ~Live(p)

Init ==
    /\ at = [o \in Ops |-> "ready"]
    /\ paused = {} /\ cancelled = {}
    /\ sleeps = Woken
    /\ slots = Chosen
    /\ all = NotPaused
    /\ mine = {} /\ game = FALSE /\ refresh = Resting
    /\ now = 0 /\ clicks = 0 /\ games = 0

-------------------------------------------------------------------------------
(* A ticket *)

\* Mutant: whatever the thread, a ticket of the same kind makes it nested.
HeldHereAny(o) == \E p \in Ops : Running(p) /\ KindOf[p] = KindOf[o]

HeldHere(o) ==
    /\ ThreadOf[o] # NoThread
    /\ \E p \in Ops : Running(p) /\ KindOf[p] = KindOf[o] /\ ThreadOf[p] = ThreadOf[o]

\* Game mode's treatment is asked for; of other than background work it is never a pause.
Begun(o) == IF KindOf[o] \in Background THEN "treat" ELSE "work"

\* Governor::begin: a ticket is registered; a nested one runs without a slot.
Begin(o) ==
    /\ at[o] = "ready"
    /\ IF Inside[o] # NoOp THEN at[Inside[o]] = "work" /\ Free(Inside[o])
       ELSE ThreadOf[o] = NoThread \/ \A p \in Ops : ThreadOf[p] = ThreadOf[o] => ~Live(p)
    /\ at' = [at EXCEPT ![o] = IF HeldHere(o) THEN Begun(o) ELSE "slot"]
    /\ UNCHANGED <<paused, cancelled, sleeps, slots, all, mine, game, refresh, now, clicks,
                   games>>

Full(o) == Cardinality(RunningOf(KindOf[o])) >= slots /\ o \notin cancelled

\* begin_as: it takes a slot, or sleeps; a cancelled one does not wait.
TakeSlot(o) ==
    /\ at[o] = "slot" /\ sleeps[o] = Awake
    /\ IF Full(o) THEN sleeps' = [sleeps EXCEPT ![o] = Never] /\ UNCHANGED at
                  ELSE at' = [at EXCEPT ![o] = Begun(o)] /\ UNCHANGED sleeps
    /\ UNCHANGED <<paused, cancelled, slots, all, mine, game, refresh, now, clicks, games>>

Holds(o) == game /\ KindOf[o] \in Background

Treat(o) ==
    /\ at[o] = "treat"
    /\ at' = [at EXCEPT ![o] = IF Holds(o) THEN "pause" ELSE "work"]
    /\ UNCHANGED <<paused, cancelled, sleeps, slots, all, mine, game, refresh, now, clicks,
                   games>>

\* The ticket of a background operation begun in a game is paused ...
PauseOwn(o) ==
    /\ at[o] = "pause"
    /\ at' = [at EXCEPT ![o] = "note"]
    /\ paused' = paused \cup {o}
    /\ sleeps' = Woken
    /\ UNCHANGED <<cancelled, slots, all, mine, game, refresh, now, clicks, games>>

\* ... and noted, when the refresh does not hold the list.
Note(o) ==
    /\ at[o] = "note" /\ refresh.at # "apply"
    /\ at' = [at EXCEPT ![o] = "work"]
    /\ mine' = mine \cup {o}
    /\ UNCHANGED <<paused, cancelled, sleeps, slots, all, game, refresh, now, clicks, games>>

Blocked(o) ==
    \/ o \in paused \/ AllPaused
    \/ KindOf[o] \in Background /\ ForegroundRunning

\* At its checkpoint, or back in it after a wake-up.
InCheckpoint(o) == at[o] \in {"work", "parked"} /\ sleeps[o] = Awake /\ Free(o)

\* Mutant: it sleeps until it is woken, whenever the pause ends.
CheckpointUntimed(o) ==
    /\ InCheckpoint(o) /\ ThreadOf[o] # NoThread
    /\ o \notin cancelled /\ Blocked(o)
    /\ at' = [at EXCEPT ![o] = "parked"]
    /\ sleeps' = [sleeps EXCEPT ![o] = Never]
    /\ UNCHANGED <<paused, cancelled, slots, all, mine, game, refresh, now, clicks, games>>

\* checkpoint: it is held.  Sync code sleeps, until the end of a pause that has one; the
\* end is looked at with a clock that may have moved on since AllPaused was.
Checkpoint(o) ==
    /\ InCheckpoint(o) /\ ThreadOf[o] # NoThread
    /\ o \notin cancelled /\ Blocked(o)
    /\ \E later \in now .. (IF ClockRuns THEN MaxTime ELSE now) :
          /\ now' = later
          /\ sleeps' = [sleeps EXCEPT ![o] = IF later < all.until THEN all.until ELSE Never]
    /\ at' = [at EXCEPT ![o] = "parked"]
    /\ UNCHANGED <<paused, cancelled, slots, all, mine, game, refresh, clicks, games>>

\* Mutant: async code waits as sync code does.
CheckpointAsyncSleeps(o) ==
    /\ at[o] = "work" /\ ThreadOf[o] = NoThread
    /\ o \notin cancelled /\ Blocked(o)
    /\ at' = [at EXCEPT ![o] = "parked"]
    /\ sleeps' = [sleeps EXCEPT ![o] = Never]
    /\ UNCHANGED <<paused, cancelled, slots, all, mine, game, refresh, now, clicks, games>>

\* checkpoint_async: it asks again every 100 ms.
CheckpointAsync(o) ==
    /\ at[o] = "work" /\ ThreadOf[o] = NoThread
    /\ o \notin cancelled /\ Blocked(o)
    /\ at' = [at EXCEPT ![o] = "parked"]
    /\ UNCHANGED <<paused, cancelled, sleeps, slots, all, mine, game, refresh, now, clicks,
                   games>>

\* Mutant: a pause holds a cancelled operation too.
LeavesCheckpointDeaf(o) ==
    /\ at[o] = "parked" /\ sleeps[o] = Awake
    /\ ~Blocked(o)
    /\ at' = [at EXCEPT ![o] = "work"]
    /\ UNCHANGED <<paused, cancelled, sleeps, slots, all, mine, game, refresh, now, clicks,
                   games>>

\* Nothing holds it any more, or it learns that it is cancelled and drops its work.
LeavesCheckpoint(o) ==
    /\ at[o] = "parked" /\ sleeps[o] = Awake
    /\ o \in cancelled \/ ~Blocked(o)
    /\ at' = [at EXCEPT ![o] = "work"]
    /\ UNCHANGED <<paused, cancelled, sleeps, slots, all, mine, game, refresh, now, clicks,
                   games>>

\* It is over, with its last block or cancelled: the ticket is dropped.  (Its number stays
\* in paused_for_game, where it names no ticket any more.)
DropTicket(o) ==
    /\ at[o] = "work" /\ Free(o)
    /\ at' = [at EXCEPT ![o] = "ended"]
    /\ paused' = paused \ {o} /\ cancelled' = cancelled \ {o} /\ mine' = mine \ {o}
    /\ sleeps' = Woken
    /\ UNCHANGED <<slots, all, game, refresh, now, clicks, games>>

\* wait_timeout returns.
TimerWakes(o) ==
    /\ sleeps[o] # Awake /\ sleeps[o] <= now
    /\ sleeps' = [sleeps EXCEPT ![o] = Awake]
    /\ UNCHANGED <<at, paused, cancelled, slots, all, mine, game, refresh, now, clicks, games>>

Step(o) ==
    \/ TakeSlot(o) \/ Treat(o) \/ PauseOwn(o) \/ Note(o)
    \/ Checkpoint(o) \/ CheckpointAsync(o) \/ LeavesCheckpoint(o) \/ TimerWakes(o)
    \/ DropTicket(o)

-------------------------------------------------------------------------------
(* The dashboard, tasks and the API *)

Click == clicks < MaxClicks /\ clicks' = clicks + 1

Pause(o) ==
    /\ Click
    /\ Live(o) /\ paused' = paused \cup {o}
    /\ sleeps' = Woken
    /\ UNCHANGED <<at, cancelled, slots, all, mine, game, refresh, now, games>>

\* Mutant: the sleeper is not woken.
ResumeQuietly(o) ==
    /\ Live(o) /\ o \in paused
    /\ paused' = paused \ {o}
    /\ UNCHANGED <<at, cancelled, sleeps, slots, all, mine, game, refresh, now, clicks, games>>

Resume(o) ==
    /\ Live(o) /\ o \in paused
    /\ paused' = paused \ {o}
    /\ sleeps' = Woken
    /\ UNCHANGED <<at, cancelled, slots, all, mine, game, refresh, now, clicks, games>>

Cancel(o) ==
    /\ Click
    /\ Live(o) /\ cancelled' = cancelled \cup {o}
    /\ sleeps' = Woken
    /\ UNCHANGED <<at, paused, slots, all, mine, game, refresh, now, games>>

\* pause_all_by: a pause without an end keeps it and its owner from one that has one; of
\* two ends the later counts.
PausedBy(by, until) ==
    IF ~AllPaused THEN [by |-> by, until |-> until]
    ELSE IF all.until = Never /\ until # Never THEN all
    ELSE [by |-> by, until |-> IF until > all.until THEN until ELSE all.until]

PauseAll(by) ==
    /\ Click
    /\ by = "task" => now + PauseMax <= MaxTime
    /\ all' = PausedBy(by, IF by = "user" THEN Never ELSE now + PauseMax)
    /\ sleeps' = Woken
    /\ UNCHANGED <<at, paused, cancelled, slots, mine, game, refresh, now, games>>

ResumeAll ==
    /\ AllPaused
    /\ all' = NotPaused
    /\ sleeps' = Woken
    /\ UNCHANGED <<at, paused, cancelled, slots, mine, game, refresh, now, clicks, games>>

\* pause_until_game_ends: refused without a game.
PauseUntilGameEnds ==
    /\ Click
    /\ game
    /\ all' = PausedBy("game", Never)
    /\ sleeps' = Woken
    /\ UNCHANGED <<at, paused, cancelled, slots, mine, game, refresh, now, games>>

-------------------------------------------------------------------------------
(* The detection of games *)

\* observe_game_signals: game mode turns on or off.
GameChanges ==
    /\ refresh.at = "idle"
    /\ game \/ games < MaxGames
    /\ game' = ~game
    /\ games' = IF game THEN games ELSE games + 1
    /\ refresh' = [Resting EXCEPT !.at = IF game THEN "lift" ELSE "slots"]
    /\ UNCHANGED <<at, paused, cancelled, sleeps, slots, all, mine, now, clicks>>

\* end_game_pause: it looks whose the pause is; one that has ended is cleared ...
LooksWhosePause ==
    /\ refresh.at = "lift"
    /\ refresh' = [refresh EXCEPT !.at = IF AllPaused /\ all.by = "game" THEN "resume" ELSE "slots"]
    /\ all' = IF AllPaused THEN all ELSE NotPaused
    /\ UNCHANGED <<at, paused, cancelled, sleeps, slots, mine, game, now, clicks, games>>

\* ... and lifts it.
LiftsPause ==
    /\ refresh.at = "resume"
    /\ refresh' = [refresh EXCEPT !.at = "slots"]
    /\ all' = NotPaused
    /\ sleeps' = Woken
    /\ UNCHANGED <<at, paused, cancelled, slots, mine, game, now, clicks, games>>

\* The tickets of the kinds a game can pause.
Listed == [at |-> "apply", todo |-> {o \in Ops : Live(o) /\ KindOf[o] \in Background}]

\* refresh: the slots of the preset in force, and the waiters are woken; apply_game_pauses
\* lists the tickets there are, ...
SetSlots ==
    /\ refresh.at = "slots"
    /\ slots' = IF game THEN 1 ELSE Chosen
    /\ sleeps' = Woken
    /\ refresh' = Listed
    /\ UNCHANGED <<at, paused, cancelled, all, mine, game, now, clicks, games>>

\* ... each paused, or resumed when it was paused here.
ApplyTo(o) ==
    /\ refresh.at = "apply" /\ o \in refresh.todo
    /\ refresh' = [refresh EXCEPT !.todo = @ \ {o}]
    /\ \/ /\ Holds(o) /\ o \notin mine /\ Live(o)
          /\ paused' = paused \cup {o} /\ mine' = mine \cup {o} /\ sleeps' = Woken
       \/ /\ ~Holds(o) /\ o \in mine
          /\ paused' = paused \ {o} /\ mine' = mine \ {o} /\ sleeps' = Woken
       \/ /\ Holds(o) => o \in mine \/ ~Live(o)
          /\ ~Holds(o) => o \notin mine
          /\ UNCHANGED <<paused, mine, sleeps>>
    /\ UNCHANGED <<at, cancelled, slots, all, game, now, clicks, games>>

\* Out of the game, what is left in the list is resumed.
ApplyEnds ==
    /\ refresh.at = "apply" /\ refresh.todo = {}
    /\ refresh' = Resting
    /\ IF game THEN UNCHANGED <<paused, mine, sleeps>>
       ELSE paused' = paused \ mine /\ mine' = {} /\ sleeps' = Woken
    /\ UNCHANGED <<at, cancelled, slots, all, game, now, clicks, games>>

Refresh ==
    \/ LooksWhosePause \/ LiftsPause \/ SetSlots \/ ApplyEnds
    \/ \E o \in Ops : ApplyTo(o)

\* The clock; nothing reads it but a pause that has an end.
Tick ==
    /\ AllPaused /\ all.until # Never
    /\ now < MaxTime
    /\ now' = now + 1
    /\ UNCHANGED <<at, paused, cancelled, sleeps, slots, all, mine, game, refresh, clicks,
                   games>>

Next ==
    \/ \E o \in Ops : Begin(o) \/ Step(o) \/ Pause(o) \/ Resume(o) \/ Cancel(o)
    \/ \E by \in {"user", "task"} : PauseAll(by)
    \/ ResumeAll \/ PauseUntilGameEnds
    \/ GameChanges \/ Refresh \/ Tick

Spec == Init /\ [][Next]_vars

\* An operation under way goes on, a timer fires, time passes, a refresh that was begun is
\* finished.  Nobody has to begin, resume or cancel anything, and a game need not end.
Fairness == WF_vars(Refresh) /\ WF_vars(Tick) /\ \A o \in Ops : WF_vars(Step(o))

FairSpec == Spec /\ Fairness

-------------------------------------------------------------------------------
(* Properties *)

\* The variables have their types; who sleeps waits for a slot or in a checkpoint.
TypeOK ==
    /\ at \in [Ops -> Places]
    /\ paused \subseteq Ops /\ cancelled \subseteq Ops /\ mine \subseteq Ops
    /\ sleeps \in [Ops -> 0 .. Never]
    /\ \A o \in Ops : sleeps[o] # Awake =>
           at[o] = "slot" \/ (at[o] = "parked" /\ ThreadOf[o] # NoThread)
    /\ slots \in Nat \ {0}
    /\ all \in [by : {"nobody", "user", "task", "game"}, until : 0 .. Never]
    /\ game \in BOOLEAN
    /\ refresh \in [at : {"idle", "lift", "resume", "slots", "apply"}, todo : SUBSET Ops]
    /\ now \in 0 .. MaxTime /\ clicks \in 0 .. MaxClicks /\ games \in 0 .. MaxGames

\* SleepersAreHeld: no wake-up is lost.  Who sleeps for a slot finds its kind full, who
\* sleeps in a checkpoint is still held there or has a timer that has not fired yet, and
\* no cancelled operation sleeps: "Cancelling a PAUSED ticket wakes it" (queue.rs 416).
\* The premise ~ClockRuns: a checkpoint asks twice whether a bounded pause is over, for the
\* pause and for its timer (queue.rs 297, 301); one that ends in between leaves no timer.
SleepersAreHeld ==
    \A o \in Ops : sleeps[o] # Awake =>
        /\ o \notin cancelled
        /\ at[o] = "slot" => Full(o)
        /\ at[o] = "parked" => Blocked(o) \/ sleeps[o] <= now

\* What keeps it so: who sleeps while everything is paused sleeps no longer than that.
TimersAreSet ==
    \A o \in Ops : sleeps[o] # Awake /\ at[o] = "parked" /\ AllPaused => sleeps[o] <= all.until

\* The tickets of a kind that need a slot: a nested one rides on the one it is nested in,
\* one that was cancelled while it waited is let through.
Slotted(k) ==
    {o \in RunningOf(k) \ cancelled : Inside[o] = NoOp \/ KindOf[Inside[o]] # k}

\* SlotsHold: an operation begins to run only within the slots of its kind, sync or async,
\* on whatever thread it is polled ("game mode's one-at-a-time", runtime.rs 291); more of
\* them run only while game mode has just lowered the slots.
SlotsHold ==
    [][\A k \in Kinds : Slotted(k)' \ Slotted(k) # {} => Cardinality(Slotted(k)') <= slots']_vars

\* Something holds operations up: a pause, game mode.
Held == AllPaused \/ game \/ paused # {}

\* OperationsEnd: when nothing holds them up any more, all operations that were begun end:
\* none waits for a slot its own thread has, for foreground work that waits for it, or for
\* a wake-up nobody sends, as when the pause of a task runs out (with ~ClockRuns, as for
\* SleepersAreHeld).
OperationsEnd == <>[]~Held => <>[](\A o \in Ops : ~Live(o))

\* CancelledEnd: again and again no cancelled operation is left but for one that runs
\* another nested in it: it ends, whatever is paused and whatever it waits for.
CancelledEnd == []<>(\A o \in cancelled : ~Free(o))

\* OwnPausesOnly: game mode takes charge of no ticket somebody else has paused: "leaving it
\* resumes exactly those and not one the user paused by hand" (runtime.rs 39-40).
OwnPausesOnly ==
    [][\A o \in mine' \ mine : at[o] # "note" => o \notin paused]_vars

\* ReleasedAfterGame: out of a game, and with no refresh under way, no ticket game mode has
\* paused is left ("released when it stops", runtime.rs 138).
ReleasedAfterGame == ~game /\ refresh.at = "idle" => \A o \in mine : ~Live(o)

================================================================================
