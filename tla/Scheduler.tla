------------------------------- MODULE Scheduler -------------------------------
(***************************************************************************)
(* The task scheduler (features/settings/scheduler.ts): every 20 seconds a *)
(* tick looks at the tasks in order and runs those that are due, one after *)
(* the other; game mode may hold them; a task may wait for another one to  *)
(* finish.  Beside it are the user, the HTTP API, which changes the file   *)
(* of tasks, and the editor, which puts a copy in the list.                *)
(*                                                                         *)
(* The interface is one thread: what runs between two awaits is one        *)
(* action.  A run of a task is what happens between its start and the end  *)
(* of its last step.  The task objects have an identity: a run writes its  *)
(* end into the object it was started with, in the list or not.            *)
(***************************************************************************)
EXTENDS Naturals, Sequences, FiniteSets, SequencesExt

CONSTANTS
    TaskList,     \* the tasks, in the list's order
    Trigger,      \* the trigger of each task: a record with its kind
    Ticks,        \* the ticks that may be under way at once
    Hand,         \* the run the user starts
    Nobody,       \* who sends a save that no run awaits
    ChainMax,     \* CHAIN_MAX
    MaxTime,      \* bound: the clock stops there
    MaxUses       \* bounds: [hand, change, ring, game, restart |-> n]

ASSUME ChainMax_Assumption == ChainMax \in Nat
ASSUME Hand_Assumption == Hand \notin Ticks /\ Nobody \notin Ticks \cup {Hand}

Tasks   == Range(TaskList)
Runs    == Ticks \cup {Hand}
Kind(t) == Trigger[t].kind
Times   == 0..MaxTime                    \* 0 is never: the clock begins at 1
Copies  == 1..(1 + MaxUses.change)
Lists   == 1..(1 + MaxUses.change)

VARIABLES
    now,      \* the clock, in the units the triggers are written in
    game,     \* game mode is on and holds the scheduler
    disk,     \* schedules.json: of each task, whether it is on and its last run
    obj,      \* obj[c][t]: the copy c of the task t
    list,     \* list[l][t]: which copy of t the list l holds
    cur,      \* _tasks: the list in use
    copies,   \* how many copies there are
    mail,     \* commands of the interface under way: saves and loads
    reload,   \* the schedules-changed event and the loadTasks it causes
    api,      \* the HTTP API's change, between its read and its write
    draft,    \* the task editor
    tick,     \* each tick: where it is, and what it read
    run,      \* the run each tick awaits, and the user's
    owed,     \* _owed, in the order of insertion
    fired,    \* _onceFired and _appStartFired
    armed,    \* the polled triggers that have been looked at once
    hit,      \* of each polled trigger: the hops of its last unseen event, or NoHit
    chain,    \* _chain
    shown,    \* _running
    begun,    \* history: when a tick last began each task, whether the list in use can
              \* know of that run, and the ticks that were under way already
    uses      \* how often each bounded action was taken

rest == <<disk, obj, list, cur, copies, mail, reload, api, draft>>
vars == <<now, game, rest, tick, run, owed, fired, armed, hit, chain, shown, begun, uses>>

Polled(t) == Kind(t) \in {"event", "after"}
NoHit     == ChainMax + 1
NoDraft   == [task |-> Nobody, doc |-> [on |-> FALSE, last |-> 0]]
NoRun     == [at |-> "off", task |-> TaskList[1], copy |-> 1]
NoTick    == [at |-> "off", now |-> 0, held |-> FALSE, owing |-> <<>>, list |-> 0, next |-> 1,
              copy |-> 1]

\* The file of tasks that are new, and nothing under way.
NewDoc == [t \in Tasks |-> [on |-> TRUE, last |-> 0]]
Idle   == [at |-> "none", doc |-> NewDoc]

\* The list as save_schedules gets it.
Doc(ob, ls, l) == [t \in Tasks |-> ob[ls[l][t]][t]]
InList(t)      == obj[list[cur][t]][t]

Used(what) == uses[what] < MaxUses[what] /\ uses' = [uses EXCEPT ![what] = @ + 1]

Post(cmd, doc, by) == mail' = Append(mail, [cmd |-> cmd, doc |-> doc, by |-> by])

Loaded(doc) == [c \in Copies |-> doc]

Init ==
    /\ now = 1 /\ game \in BOOLEAN
    /\ disk = NewDoc
    /\ obj = Loaded(disk)
    /\ list = [l \in Lists |-> [t \in Tasks |-> 1]]
    /\ cur = 1 /\ copies = 1
    /\ mail = <<>>
    /\ reload = Idle /\ api = Idle
    /\ draft = NoDraft
    /\ tick = [k \in Ticks |-> NoTick]
    /\ run = [r \in Runs |-> NoRun]
    /\ owed = <<>> /\ fired = {} /\ armed = {} /\ shown = {}
    /\ hit = [t \in Tasks |-> NoHit]
    /\ chain = [t \in Tasks |-> 0]
    /\ begun = [t \in Tasks |-> [at |-> 0, known |-> TRUE, under |-> {}]]
    /\ uses = [u \in DOMAIN MaxUses |-> 0]

-------------------------------------------------------------------------------
(* When a task is due.                                                       *)

\* prevCalendarDue: the last window at or before n, 0 for none.
PrevDue(t, n) == Max({0} \cup {w \in Trigger[t].at : w <= n})

\* Mutant: a run at the very time of a window does not count for it.
CalendarDueAgain(t, n, last) ==
    LET due == PrevDue(t, n) IN
    /\ due > 0 /\ due >= last
    /\ Trigger[t].catchUp \/ n = due

\* calendarDue, of a task created before its first window; the live window is the unit of time.
CalendarDue(t, n, last) ==
    LET due == PrevDue(t, n) IN
    /\ due > last
    /\ Trigger[t].catchUp \/ n = due

\* Mutant: an interval or calendar task that has never run is not due.
IsDueNever(t, n, last) ==
    \/ Kind(t) = "appStart" /\ t \notin fired
    \/ Kind(t) = "once" /\ t \notin fired /\ last = 0 /\ n >= Trigger[t].at
    \/ Kind(t) = "interval" /\ last > 0 /\ n >= last + Trigger[t].every
    \/ Kind(t) = "calendar" /\ last > 0 /\ CalendarDue(t, n, last)

\* isDue
IsDue(t, n, last) ==
    \/ Kind(t) = "appStart" /\ t \notin fired
    \/ Kind(t) = "once" /\ t \notin fired /\ last = 0 /\ n >= Trigger[t].at
    \/ Kind(t) = "interval" /\ (last = 0 \/ n >= last + Trigger[t].every)
    \/ Kind(t) = "calendar" /\ CalendarDue(t, n, last)

-------------------------------------------------------------------------------
(* A tick.                                                                   *)

\* runTask up to its first await
Starts(r, t, c) ==
    /\ run' = [run EXCEPT ![r] = [at |-> "going", task |-> t, copy |-> c]]
    /\ shown' = shown \cup {t}
    /\ begun' = IF r \notin Ticks THEN begun
                ELSE [begun EXCEPT ![t] = [at |-> now, known |-> c = list[cur][t],
                                           under |-> {k \in Ticks \ {r} : tick[k].at # "off"}]]

Without(s, ts) == SelectSeq(s, LAMBDA t : t \notin ts)

(***************************************************************************)
(* The tick tk of k goes on to its next await; ow is what is owed.  First  *)
(* the tasks it runs for being owed: each is struck off, and run if it is  *)
(* on.  Then the loop over the list in use when it began: it stops to poll *)
(* a trigger, or at a task that is due; when game mode holds the tick,     *)
(* those that are due become owed and the loop goes on.                    *)
(***************************************************************************)
GoOn(k, tk, ow) ==
    LET onOwing == {i \in 1..Len(tk.owing) : InList(tk.owing[i]).on}
        first   == IF onOwing = {} THEN Len(tk.owing) ELSE Min(onOwing)
        still   == Without(ow, {tk.owing[i] : i \in 1..first})
        l       == IF tk.list = 0 THEN cur ELSE tk.list
        copy(i) == list[l][TaskList[i]]
        this(i) == obj[copy(i)][TaskList[i]]
        open(i) == this(i).on /\ TaskList[i] \notin Range(still)
        due(i)  == /\ open(i) /\ ~Polled(TaskList[i])
                   /\ IsDue(TaskList[i], tk.now, this(i).last)
        stops   == {i \in tk.next..Len(TaskList) :
                        (open(i) /\ Polled(TaskList[i])) \/ (due(i) /\ ~tk.held)}
        stop    == IF stops = {} THEN Len(TaskList) + 1 ELSE Min(stops)
        \* the tasks that fell due, in order: with game mode on they become owed
        fell    == {TaskList[i] : i \in {j \in tk.next..Len(TaskList) : j <= stop /\ due(j)}}
        tk2     == [tk EXCEPT !.owing = <<>>, !.list = l, !.next = stop + 1]
    IN  IF onOwing # {}
        THEN /\ owed' = still
             /\ tick' = [tick EXCEPT ![k] = [tk EXCEPT !.at = "run",
                                        !.owing = SubSeq(@, first + 1, Len(@))]]
             /\ Starts(k, tk.owing[first], list[cur][tk.owing[first]])
             /\ UNCHANGED fired
        ELSE /\ fired' = fired \cup {t \in fell : Kind(t) \in {"once", "appStart"}}
             /\ owed' = IF tk.held THEN still \o SelectSeq(TaskList, LAMBDA t : t \in fell)
                        ELSE still
             /\ IF stop > Len(TaskList)
                THEN /\ tick' = [tick EXCEPT ![k] = NoTick]
                     /\ run' = [run EXCEPT ![k] = NoRun]
                     /\ begun' = [t \in Tasks |-> [begun[t] EXCEPT !.under = @ \ {k}]]
                     /\ UNCHANGED shown
                ELSE IF Polled(TaskList[stop])
                THEN /\ tick' = [tick EXCEPT ![k] = [tk2 EXCEPT !.at = "poll", !.copy = copy(stop)]]
                     /\ run' = [run EXCEPT ![k] = NoRun] /\ UNCHANGED <<shown, begun>>
                ELSE /\ tick' = [tick EXCEPT ![k] = [tk2 EXCEPT !.at = "run"]]
                     /\ Starts(k, TaskList[stop], copy(stop))

TickBegins(k) ==
    /\ tick[k].at = "off"
    /\ tick' = [tick EXCEPT ![k] = [NoTick EXCEPT !.at = "asked", !.now = now]]
    /\ UNCHANGED <<now, game, rest, run, owed, fired, armed, hit, chain, shown, begun, uses>>

\* resources_status answers: whether game mode holds this tick.
TickHears(k) ==
    /\ tick[k].at = "asked"
    /\ GoOn(k, [tick[k] EXCEPT !.held = game, !.owing = IF game THEN <<>> ELSE owed], owed)
    /\ UNCHANGED <<now, game, rest, armed, hit, chain, uses>>

\* Mutant: an event that comes in game mode is taken and forgotten.
TickPollsDropping(k) ==
    /\ tick[k].at = "poll"
    /\ LET t     == TaskList[tick[k].next - 1]
           fires == t \in armed /\ hit[t] < ChainMax
           hops  == IF Kind(t) = "after" THEN hit[t] + 1 ELSE 0
       IN  /\ armed' = armed \cup {t}
           /\ hit' = [hit EXCEPT ![t] = NoHit]
           /\ chain' = IF fires THEN [chain EXCEPT ![t] = hops] ELSE chain
           /\ IF fires /\ ~tick[k].held
              THEN /\ tick' = [tick EXCEPT ![k].at = "run"]
                   /\ Starts(k, t, tick[k].copy)
                   /\ UNCHANGED <<owed, fired>>
              ELSE GoOn(k, tick[k], owed)
    /\ UNCHANGED <<now, game, rest, uses>>

(***************************************************************************)
(* eventFired, afterTaskFired: the first poll only arms.  A hit is         *)
(* considered once; one that is too many hops from its first cause is      *)
(* refused.  The task's own flag is not looked at again.                   *)
(***************************************************************************)
TickPolls(k) ==
    /\ tick[k].at = "poll"
    /\ LET t     == TaskList[tick[k].next - 1]
           fires == t \in armed /\ hit[t] < ChainMax
           hops  == IF Kind(t) = "after" THEN hit[t] + 1 ELSE 0
       IN  /\ armed' = armed \cup {t}
           /\ hit' = [hit EXCEPT ![t] = NoHit]
           /\ chain' = IF fires THEN [chain EXCEPT ![t] = hops] ELSE chain
           /\ IF fires /\ ~tick[k].held
              THEN /\ tick' = [tick EXCEPT ![k].at = "run"]
                   /\ Starts(k, t, tick[k].copy)
                   /\ UNCHANGED <<owed, fired>>
              ELSE GoOn(k, tick[k], IF fires THEN Append(owed, t) ELSE owed)
    /\ UNCHANGED <<now, game, rest, uses>>

\* Mutant: the hops are not passed on.
RunEndsNoHops(r, ok) ==
    /\ run[r].at = "going"
    /\ LET t  == run[r].task
           ob == [obj EXCEPT ![run[r].copy][t].last = now]
           rung(u) == /\ Kind(u) = "after" /\ u \in armed /\ u # t
                      /\ Trigger[u].task = t /\ ok \in Trigger[u].want
       IN  /\ obj' = ob
           /\ shown' = shown \ {t}
           /\ hit' = [u \in Tasks |-> IF rung(u) THEN 0 ELSE hit[u]]
           /\ chain' = [chain EXCEPT ![t] = 0]
           /\ Post("save", Doc(ob, list, cur), r)
    /\ run' = [run EXCEPT ![r].at = "saving"]
    /\ UNCHANGED <<now, game, disk, list, cur, copies, reload, api, draft, tick, owed, fired,
                   armed, begun, uses>>

(***************************************************************************)
(* The last step of a run is over: the run is taken off the panel, its end *)
(* is written in its own object, the tasks that wait for it are rung and   *)
(* the list is saved.                                                      *)
(***************************************************************************)
RunEnds(r, ok) ==
    /\ run[r].at = "going"
    /\ LET t  == run[r].task
           ob == [obj EXCEPT ![run[r].copy][t].last = now]
           rung(u) == /\ Kind(u) = "after" /\ u \in armed /\ u # t
                      /\ Trigger[u].task = t /\ ok \in Trigger[u].want
       IN  /\ obj' = ob
           /\ shown' = shown \ {t}
           /\ hit' = [u \in Tasks |-> IF rung(u) THEN chain[t] ELSE hit[u]]
           /\ chain' = [chain EXCEPT ![t] = 0]
           /\ Post("save", Doc(ob, list, cur), r)
    /\ run' = [run EXCEPT ![r].at = "saving"]
    /\ UNCHANGED <<now, game, disk, list, cur, copies, reload, api, draft, tick, owed, fired,
                   armed, begun, uses>>

\* The save has answered; the tick that awaited the run goes on.
RunIsOver(r) ==
    /\ run[r].at = "saved"
    /\ IF r \in Ticks
       THEN GoOn(r, tick[r], owed)
       ELSE run' = [run EXCEPT ![r] = NoRun] /\ UNCHANGED <<tick, owed, fired, shown, begun>>
    /\ UNCHANGED <<now, game, rest, armed, hit, chain, uses>>

-------------------------------------------------------------------------------
(* Saves and loads.                                                          *)

\* A command of the interface is carried out: they run in the order they were sent.
MailArrives ==
    /\ mail # <<>>
    /\ mail' = Tail(mail)
    /\ \/ /\ Head(mail).cmd = "save"
          /\ disk' = Head(mail).doc
          /\ run' = IF Head(mail).by \in Runs THEN [run EXCEPT ![Head(mail).by].at = "saved"]
                    ELSE run
          /\ UNCHANGED reload
       \/ /\ Head(mail).cmd = "load"
          /\ reload' = [at |-> "answered", doc |-> disk]
          /\ UNCHANGED <<disk, run>>
    /\ UNCHANGED <<now, game, obj, list, cur, copies, api, draft, tick, owed, fired, armed, hit,
                   chain, shown, begun, uses>>

\* POST /api/schedules/enabled, on a thread of its own: it reads the file,
ApiReads(t) ==
    /\ api.at = "none" /\ reload.at = "none"
    /\ Used("change")
    /\ \E on \in BOOLEAN : api' = [at |-> "read", doc |-> [disk EXCEPT ![t].on = on]]
    /\ UNCHANGED <<now, game, disk, obj, list, cur, copies, mail, reload, draft, tick, run, owed,
                   fired, armed, hit, chain, shown, begun>>

\* writes it and tells the interface.
ApiWrites ==
    /\ api.at = "read"
    /\ api' = Idle
    /\ disk' = api.doc
    /\ reload' = [Idle EXCEPT !.at = "told"]
    /\ UNCHANGED <<now, game, obj, list, cur, copies, mail, draft, tick, run, owed, fired, armed,
                   hit, chain, shown, begun, uses>>

ReloadAsks ==
    /\ reload.at = "told"
    /\ reload' = [reload EXCEPT !.at = "asked"]
    /\ Post("load", disk, Nobody)
    /\ UNCHANGED <<now, game, disk, obj, list, cur, copies, api, draft, tick, run, owed, fired,
                   armed, hit, chain, shown, begun, uses>>

\* The new list cannot know of a run that is not in it yet.
Known(doc) == [t \in Tasks |-> [begun[t] EXCEPT !.known = @ /\ doc[t].last >= begun[t].at]]

\* loadTasks: the list is a new one, of new objects.
ReloadLands ==
    /\ reload.at = "answered"
    /\ reload' = Idle
    /\ copies' = copies + 1
    /\ obj' = [obj EXCEPT ![copies + 1] = reload.doc]
    /\ cur' = cur + 1
    /\ list' = [list EXCEPT ![cur + 1] = [t \in Tasks |-> copies + 1]]
    /\ begun' = Known(reload.doc)
    /\ UNCHANGED <<now, game, disk, mail, api, draft, tick, run, owed, fired, armed, hit, chain,
                   shown, uses>>

-------------------------------------------------------------------------------
(* The user, the game and the clock.                                         *)

\* Run now, bmm://schedule/run, a step of another task: nothing asks whether it runs.
RunByHand(t) ==
    /\ run[Hand].at = "off"
    /\ Used("hand")
    /\ Starts(Hand, t, list[cur][t])
    /\ UNCHANGED <<now, game, rest, tick, owed, fired, armed, hit, chain>>

Toggle(t) ==
    /\ Used("change")
    /\ LET ob == [obj EXCEPT ![list[cur][t]][t].on = ~@] IN
       /\ obj' = ob
       /\ Post("save", Doc(ob, list, cur), Nobody)
    /\ UNCHANGED <<now, game, disk, list, cur, copies, reload, api, draft, tick, run, owed, fired,
                   armed, hit, chain, shown, begun>>

\* openTaskModal: the editor works on a copy.
EditorOpens(t) ==
    /\ draft = NoDraft
    /\ Used("change")
    /\ draft' = [task |-> t, doc |-> InList(t)]
    /\ UNCHANGED <<now, game, disk, obj, list, cur, copies, mail, reload, api, tick, run, owed,
                   fired, armed, hit, chain, shown, begun>>

\* saveDraft: the copy takes the task's place in the list.
EditorSaves ==
    /\ draft # NoDraft
    /\ draft' = NoDraft
    /\ copies' = copies + 1
    /\ LET ob == [obj EXCEPT ![copies + 1][draft.task] = draft.doc]
           ls == [list EXCEPT ![cur][draft.task] = copies + 1]
       IN  /\ obj' = ob
           /\ list' = ls
           /\ Post("save", Doc(ob, ls, cur), Nobody)
           /\ begun' = Known(Doc(ob, ls, cur))
    /\ UNCHANGED <<now, game, disk, cur, reload, api, tick, run, owed, fired, armed, hit, chain,
                   shown, uses>>

\* hook_fire, of the event a task waits for
Rings(t) ==
    /\ Kind(t) = "event"
    /\ Used("ring")
    /\ hit' = IF t \in armed THEN [hit EXCEPT ![t] = 0] ELSE hit
    /\ UNCHANGED <<now, game, rest, tick, run, owed, fired, armed, chain, shown, begun>>

Advances ==
    /\ now < MaxTime
    /\ now' = now + 1
    /\ UNCHANGED <<game, rest, tick, run, owed, fired, armed, hit, chain, shown, begun, uses>>

GameStarts ==
    /\ ~game
    /\ Used("game")
    /\ game' = TRUE
    /\ UNCHANGED <<now, rest, tick, run, owed, fired, armed, hit, chain, shown, begun>>

GameEnds ==
    /\ game
    /\ game' = FALSE
    /\ UNCHANGED <<now, rest, tick, run, owed, fired, armed, hit, chain, shown, begun, uses>>

\* The program is closed, or dies, and starts again: only the file is left.
Restart ==
    /\ Used("restart")
    /\ obj' = Loaded(disk)
    /\ list' = [l \in Lists |-> [t \in Tasks |-> 1]]
    /\ cur' = 1 /\ copies' = 1
    /\ mail' = <<>>
    /\ reload' = Idle /\ api' = Idle
    /\ draft' = NoDraft
    /\ tick' = [k \in Ticks |-> NoTick]
    /\ run' = [r \in Runs |-> NoRun]
    /\ owed' = <<>> /\ fired' = {} /\ armed' = {} /\ shown' = {}
    /\ hit' = [t \in Tasks |-> NoHit]
    /\ chain' = [t \in Tasks |-> 0]
    /\ begun' = [t \in Tasks |-> [Known(disk)[t] EXCEPT !.known = @ /\ Kind(t) # "appStart",
                                                       !.under = {}]]
    /\ UNCHANGED <<now, game, disk>>

-------------------------------------------------------------------------------

TickStep(k) == TickHears(k) \/ TickPolls(k) \/ RunIsOver(k)

User == \/ \E t \in Tasks : RunByHand(t) \/ Toggle(t) \/ EditorOpens(t) \/ Rings(t) \/ ApiReads(t)
        \/ EditorSaves \/ GameStarts \/ GameEnds \/ Restart

Next == \/ \E k \in Ticks : TickBegins(k) \/ TickStep(k)
        \/ \E r \in Runs, ok \in BOOLEAN : RunEnds(r, ok)
        \/ RunIsOver(Hand)
        \/ MailArrives \/ ApiWrites \/ ReloadAsks \/ ReloadLands
        \/ Advances \/ User

Spec == Init /\ [][Next]_vars

\* The tick k is at an await that an answer ends: TickStep(k) is possible.
Awaits(k) == tick[k].at \in {"asked", "poll"} \/ run[k].at = "saved"

(***************************************************************************)
(* Fairness: the timer fires, answers come back, a run ends, and so does a *)
(* game.  Nothing is assumed of the user, the API or the clock.  That no   *)
(* tick awaits for ever is weak fairness of its TickStep: a tick takes     *)
(* finitely many of these before it is off or awaits a run.                *)
(***************************************************************************)
FairSpec ==
    /\ Spec
    /\ \A k \in Ticks : WF_vars(TickBegins(k)) /\ []<>~Awaits(k)
    /\ \A r \in Runs : WF_vars(\E ok \in BOOLEAN : RunEnds(r, ok))
    /\ WF_vars(RunIsOver(Hand)) /\ WF_vars(MailArrives) /\ WF_vars(GameEnds)

-------------------------------------------------------------------------------
(* Properties.                                                               *)

TaskState == [on : BOOLEAN, last : Times]
Docs      == [Tasks -> TaskState]

\* The variables have their types; the tasks that are owed are owed once.
TypeOK ==
    /\ now \in Times /\ game \in BOOLEAN
    /\ disk \in Docs
    /\ obj \in [Copies -> Docs]
    /\ list \in [Lists -> [Tasks -> 1..copies]]
    /\ cur \in Lists /\ copies \in Copies
    /\ mail \in Seq([cmd : {"save", "load"}, doc : Docs, by : Runs \cup {Nobody}])
    /\ reload \in [at : {"none", "told", "asked", "answered"}, doc : Docs]
    /\ api \in [at : {"none", "read"}, doc : Docs]
    /\ draft \in [task : Tasks \cup {Nobody}, doc : TaskState]
    /\ tick \in [Ticks -> [at : {"off", "asked", "poll", "run"}, now : Times, held : BOOLEAN,
                           owing : Seq(Tasks), list : {0} \cup Lists,
                           next : 1..(Len(TaskList) + 1), copy : Copies]]
    /\ run \in [Runs -> [at : {"off", "going", "saving", "saved"}, task : Tasks, copy : Copies]]
    /\ owed \in Seq(Tasks) /\ IsInjective(owed)
    /\ fired \subseteq Tasks /\ armed \subseteq Tasks /\ shown \subseteq Tasks
    /\ hit \in [Tasks -> 0..NoHit] /\ chain \in [Tasks -> 0..ChainMax]
    /\ begun \in [Tasks -> [at : Times, known : BOOLEAN, under : SUBSET Ticks]]
    /\ \A u \in DOMAIN MaxUses : uses[u] \in 0..MaxUses[u]

\* The last time a task was due at, at or before the time n; 0 if it never was.
LastDue(t, n) == CASE Kind(t) = "calendar" -> PrevDue(t, n)
                   [] Kind(t) = "once"     -> Trigger[t].at
                   [] Kind(t) = "appStart" -> 1
                   [] Kind(t) = "interval" -> IF begun[t].at = 0 THEN 1 ELSE n + 1 - Trigger[t].every
                   [] OTHER                -> n + 1

Begins(k, t) == run[k].at # "going" /\ run'[k].at = "going" /\ run'[k].task = t

\* OnePerWindow: "at most ONE run is ever owed" (sched-time.ts 114).  A window asks for one
\* run, which a tick makes or game mode holds, and not again when the clock goes past the
\* next window meanwhile.  Ticks overlap, and a run is recorded at its end: what may ask
\* again is another tick while that run is not over, or one that was under way before it
\* began, with a list, a clock or owed tasks of its own; and a list read again, edited or
\* loaded after a restart that cannot know of the run.
Asks(k, t) ==
    \/ Begins(k, t) /\ t \notin Range(owed)
    \/ t \in Range(owed') \ Range(owed) /\ tick'[k] # tick[k]

OnePerWindow ==
    [][\A t \in Tasks, k \in Ticks : Asks(k, t) =>
        \/ begun[t].at < LastDue(t, now)
        \/ ~begun[t].known \/ k \in begun[t].under
        \/ \E r \in Ticks : run[r].at = "going" /\ run[r].task = t]_vars

\* OnceAWindow: an interval task runs "every N minutes", a daily one "every day at HH:MM"
\* (scheduler.md 51, 53): as long as nobody touches a task, a window starts it once.
OnceAWindow ==
    [][\A t \in Tasks, k \in Ticks : Begins(k, t) => begun[t].at < LastDue(t, now)]_vars

\* HeldIsRunOnce: a task "that fell due while a game ran is remembered here and run once,
\* when game mode ends" (scheduler.ts 1097): one that falls due once in a session begins
\* once, when several tasks are owed and ticks overlap.
HeldIsRunOnce ==
    [][\A t \in Tasks, k \in Ticks :
        Begins(k, t) /\ Kind(t) \in {"once", "appStart"} => begun[t].at = 0]_vars

\* AskedIsRun: a task that is owed, or whose event rang while it waited, is run (game mode
\* or not: "remembered here and run once, when game mode ends", scheduler.ts 1098); only
\* the user, turning it off, or a restart can take that back.  A premise: the task waited
\* for ends once before it is polled, since another end takes the place of the first
\* (scheduler.ts 905): ticks do not overlap, and at most one run by hand is made.
Asked(t) == t \in Range(owed) \/ hit[t] < ChainMax

AskedIsRun ==
    [][\A t \in Tasks : Asked(t) /\ ~Asked(t)' =>
        \/ \E k \in Ticks : Begins(k, t)
        \/ ~InList(t).on
        \/ uses'.restart # uses.restart]_vars

\* AllServed: when the clock and the users have stopped, every task that is on has had the
\* runs the clock asked for, whatever was held, edited, reloaded or lost in a restart.
Served(t, last) ==
    \/ Kind(t) = "calendar" /\ (Trigger[t].catchUp => last >= PrevDue(t, now))
    \/ Kind(t) = "once" /\ (now >= Trigger[t].at => last > 0)
    \/ Kind(t) = "interval" /\ last > 0 /\ now < last + Trigger[t].every
    \/ Kind(t) = "appStart" /\ last > 0
    \/ Polled(t)

AllServed == <>[](\A t \in Tasks : InList(t).on => Served(t, InList(t).last))

\* ChainEnds: two tasks that wait for each other do not run for ever (scheduler.ts 899):
\* in the end nothing runs.
ChainEnds == <>[](\A r \in Runs : run[r].at = "off")

\* RunIsShown: "a task that fails immediately still appears in the panel [...] and a task
\* started twice is visible as such" (scheduler.ts 1364): a run under way can be stopped.
RunIsShown == \A r \in Runs : run[r].at = "going" => run[r].task \in shown

===============================================================================
