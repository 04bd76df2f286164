----------------------------- MODULE GovernorProofs ----------------------------
(***************************************************************************)
(* No wake-up is lost on the governor's one condition variable, and an     *)
(* operation begins only within the slots of its kind: for any operations, *)
(* threads and slots.                                                      *)
(***************************************************************************)
EXTENDS Governor, FiniteSetTheorems, TLAPS

USE DEF Awake

\* notify_all leaves everybody awake.
LEMMA Woken_Type ==
    /\ Woken \in [Ops -> 0 .. Never]
    /\ \A o \in Ops : Woken[o] = Awake
BY Bounds_Assumption DEF Woken, Never

\* The types hold at the start.
LEMMA TypeInit == Init => TypeOK
<1> SUFFICES ASSUME Init PROVE TypeOK OBVIOUS
<1>1. at \in [Ops -> Places] /\ \A o \in Ops : sleeps[o] = Awake
  BY Woken_Type DEF Init, Places
<1>2. sleeps \in [Ops -> 0 .. Never] BY Woken_Type DEF Init
<1>3. all \in [by : {"nobody", "user", "task", "game"}, until : 0 .. Never]
  BY Bounds_Assumption DEF Init, NotPaused, Never
<1>4. refresh \in [at : {"idle", "lift", "resume", "slots", "apply"}, todo : SUBSET Ops]
  BY DEF Init, Resting
<1>5. paused \subseteq Ops /\ cancelled \subseteq Ops /\ mine \subseteq Ops BY DEF Init
<1>6. slots \in Nat \ {0} /\ game \in BOOLEAN BY Bounds_Assumption DEF Init
<1>7. now \in 0 .. MaxTime /\ clicks \in 0 .. MaxClicks /\ games \in 0 .. MaxGames
  BY Bounds_Assumption DEF Init
<1> QED BY <1>1, <1>2, <1>3, <1>4, <1>5, <1>6, <1>7 DEF TypeOK

\* The step of an operation keeps the types.
LEMMA StepType == ASSUME TypeOK, NEW o \in Ops, Begin(o) \/ Step(o) PROVE TypeOK'
<1> USE Bounds_Assumption DEF TypeOK, Places
<1>1. CASE Begin(o) BY <1>1 DEF Begin, Begun
<1>2. CASE TakeSlot(o) BY <1>2 DEF TakeSlot, Begun, Never
<1>3. CASE Treat(o) BY <1>3 DEF Treat
<1>4. CASE PauseOwn(o) BY <1>4, Woken_Type DEF PauseOwn
<1>5. CASE Note(o) BY <1>5 DEF Note
<1>6. CASE Checkpoint(o)
  <2>1. PICK later \in now .. (IF ClockRuns THEN MaxTime ELSE now) :
           /\ now' = later
           /\ sleeps' = [sleeps EXCEPT ![o] = IF later < all.until THEN all.until ELSE Never]
    BY <1>6 DEF Checkpoint
  <2>2. now' \in 0 .. MaxTime BY <2>1
  <2>3. all.until \in 0 .. Never /\ Never \in 0 .. Never BY DEF Never
  <2>4. sleeps' \in [Ops -> 0 .. Never] BY <2>1, <2>3
  <2> QED BY <1>6, <2>1, <2>2, <2>4 DEF Checkpoint
<1>7. CASE CheckpointAsync(o) BY <1>7 DEF CheckpointAsync
<1>8. CASE LeavesCheckpoint(o) BY <1>8 DEF LeavesCheckpoint
<1>9. CASE TimerWakes(o) BY <1>9 DEF TimerWakes, Never
<1>10. CASE DropTicket(o) BY <1>10, Woken_Type DEF DropTicket
<1> QED BY <1>1, <1>2, <1>3, <1>4, <1>5, <1>6, <1>7, <1>8, <1>9, <1>10 DEF Step

\* A click of the user, a task or the API keeps them.
LEMMA ClickType ==
    ASSUME TypeOK,
           \/ \E o \in Ops : Pause(o) \/ Resume(o) \/ Cancel(o)
           \/ \E by \in {"user", "task"} : PauseAll(by)
           \/ ResumeAll \/ PauseUntilGameEnds
    PROVE  TypeOK'
<1> USE Bounds_Assumption, Woken_Type DEF TypeOK, Click
<1>1. CASE \E o \in Ops : Pause(o) \/ Resume(o) \/ Cancel(o)
  BY <1>1 DEF Pause, Resume, Cancel
<1>2. ASSUME NEW by \in {"user", "task", "game"}, NEW until \in 0 .. Never
      PROVE  PausedBy(by, until) \in [by : {"nobody", "user", "task", "game"}, until : 0 .. Never]
  BY DEF PausedBy
<1>3. CASE \E by \in {"user", "task"} : PauseAll(by)
  <2>1. PICK by \in {"user", "task"} : PauseAll(by) BY <1>3
  <2>2. (IF by = "user" THEN Never ELSE now + PauseMax) \in 0 .. Never
    BY <2>1 DEF PauseAll, Never
  <2>3. all' \in [by : {"nobody", "user", "task", "game"}, until : 0 .. Never]
    BY <1>2, <2>1, <2>2 DEF PauseAll
  <2> QED BY <2>1, <2>3 DEF PauseAll
<1>4. CASE ResumeAll BY <1>4 DEF ResumeAll, NotPaused, Never
<1>5. CASE PauseUntilGameEnds
  <2>1. all' \in [by : {"nobody", "user", "task", "game"}, until : 0 .. Never]
    BY <1>2, <1>5 DEF PauseUntilGameEnds, Never
  <2> QED BY <1>5, <2>1 DEF PauseUntilGameEnds
<1> QED BY <1>1, <1>3, <1>4, <1>5

\* The detection of games and the clock keep them.
LEMMA GameType == ASSUME TypeOK, GameChanges \/ Refresh \/ Tick PROVE TypeOK'
<1> USE Bounds_Assumption, Woken_Type DEF TypeOK
<1>1. CASE GameChanges BY <1>1 DEF GameChanges, Resting
<1>2. CASE LooksWhosePause BY <1>2 DEF LooksWhosePause, NotPaused, Never
<1>3. CASE LiftsPause BY <1>3 DEF LiftsPause, NotPaused, Never
<1>4. CASE SetSlots BY <1>4 DEF SetSlots, Listed
<1>5. ASSUME NEW o \in Ops, ApplyTo(o) PROVE TypeOK' BY <1>5 DEF ApplyTo
<1>6. CASE ApplyEnds BY <1>6 DEF ApplyEnds, Resting
<1>7. CASE Tick BY <1>7 DEF Tick
<1> QED BY <1>1, <1>2, <1>3, <1>4, <1>5, <1>6, <1>7 DEF Refresh

\* Every step keeps the types.
LEMMA TypeNext == ASSUME TypeOK, [Next]_vars PROVE TypeOK'
<1>1. CASE UNCHANGED vars BY <1>1 DEF vars, TypeOK
<1>2. CASE Next BY <1>2, StepType, ClickType, GameType DEF Next
<1> QED BY <1>1, <1>2

\* TypeCorrect: the variables have their types, and who sleeps waits for a slot or in a
\* checkpoint that sync code called, in every reachable state.
THEOREM TypeCorrect == Spec => []TypeOK
BY TypeInit, TypeNext, PTL DEF Spec

--------------------------------------------------------------------------------
(* No wake-up is lost *)

Sleepers == TypeOK /\ SleepersAreHeld /\ TimersAreSet

\* There are finitely many operations of a kind, so they can be counted.
LEMMA Running_Finite == ASSUME NEW k PROVE IsFiniteSet(RunningOf(k)) /\ IsFiniteSet(RunningOf(k)')
BY Ops_Assumption, FS_Subset DEF RunningOf

\* When all who run go on running, a full kind stays full and foreground work goes on.
LEMMA StillHeld ==
    ASSUME TypeOK, TypeOK', \A p \in Ops : Running(p) => Running(p)',
           slots' = slots, cancelled' = cancelled, paused' = paused,
           AllPaused' = AllPaused
    PROVE  \A p \in Ops : /\ Full(p) => Full(p)'
                          /\ Blocked(p) => Blocked(p)'
<1> SUFFICES ASSUME NEW p \in Ops
             PROVE  (Full(p) => Full(p)') /\ (Blocked(p) => Blocked(p)')
  OBVIOUS
<1>1. RunningOf(KindOf[p]) \subseteq RunningOf(KindOf[p])' BY DEF RunningOf
<1>2. Cardinality(RunningOf(KindOf[p])) <= Cardinality(RunningOf(KindOf[p])')
  BY <1>1, Running_Finite, FS_Subset
<1>3. /\ Cardinality(RunningOf(KindOf[p])) \in Nat
      /\ Cardinality(RunningOf(KindOf[p])') \in Nat
  BY Running_Finite, FS_CardinalityType
<1>4. Full(p) => Full(p)' BY <1>2, <1>3 DEF Full, TypeOK
<1>5. ForegroundRunning => ForegroundRunning' BY DEF ForegroundRunning
<1>6. Blocked(p) => Blocked(p)' BY <1>5 DEF Blocked
<1> QED BY <1>4, <1>6

\* A step that wakes everybody.
LEMMA AllWoken == ASSUME TypeOK', sleeps' = Woken PROVE Sleepers'
BY Woken_Type DEF Sleepers, SleepersAreHeld, TimersAreSet

\* What Sleepers says of one who sleeps.
HeldAsleep(p) ==
    /\ p \notin cancelled
    /\ at[p] = "slot" => Full(p)
    /\ at[p] = "parked" => Blocked(p) \/ sleeps[p] <= now
    /\ at[p] = "parked" /\ AllPaused => sleeps[p] <= all.until

\* A step that takes nothing from those who run: who sleeps already goes on doing so.
LEMMA NoneMoved ==
    ASSUME Sleepers, TypeOK',
           \A p \in Ops : Running(p) => Running(p)',
           \A p \in Ops : \/ sleeps'[p] = Awake
                          \/ sleeps'[p] = sleeps[p] /\ at'[p] = at[p]
                          \/ HeldAsleep(p)',
           slots' = slots, cancelled' = cancelled, paused' = paused,
           all' = all, now' = now
    PROVE  Sleepers'
<1>1. AllPaused' = AllPaused BY DEF AllPaused
<1>2. \A p \in Ops : (Full(p) => Full(p)') /\ (Blocked(p) => Blocked(p)')
  BY <1>1, StillHeld DEF Sleepers
<1>3. ASSUME NEW p \in Ops, sleeps'[p] # Awake PROVE HeldAsleep(p)'
  <2>1. CASE HeldAsleep(p)' BY <2>1
  <2>2. CASE sleeps'[p] = sleeps[p] /\ at'[p] = at[p]
    BY <1>1, <1>2, <1>3, <2>2 DEF Sleepers, SleepersAreHeld, TimersAreSet, HeldAsleep
  <2> QED BY <1>3, <2>1, <2>2
<1> QED BY <1>3 DEF Sleepers, SleepersAreHeld, TimersAreSet, HeldAsleep

\* A new ticket puts nobody to sleep and frees nobody.
LEMMA SleepersBegin == ASSUME Sleepers, TypeOK', NEW o \in Ops, Begin(o) PROVE Sleepers'
BY NoneMoved DEF Begin, Begun, Running, Sleepers, TypeOK

\* Who finds its kind full sleeps for a slot; a new runner frees nobody.
LEMMA SleepersTakeSlot == ASSUME Sleepers, TypeOK', NEW o \in Ops, TakeSlot(o) PROVE Sleepers'
<1> USE DEF Sleepers, TypeOK, TakeSlot
<1>1. CASE Full(o)
  <2>1. Full(o)' BY <1>1 DEF Full, RunningOf, Running
  <2>2. HeldAsleep(o)' BY <1>1, <2>1 DEF HeldAsleep, Full
  <2> QED BY <1>1, <2>2, NoneMoved DEF Running
<1>2. CASE ~Full(o) BY <1>2, NoneMoved DEF Running, Begun
<1> QED BY <1>1, <1>2

\* It is held, and sleeps no longer than everything is paused: its clock stands still.
LEMMA SleepersCheckpoint ==
    ASSUME ~ClockRuns, Sleepers, TypeOK', NEW o \in Ops, Checkpoint(o) PROVE Sleepers'
<1> USE DEF Sleepers, TypeOK
<1>1. /\ now' = now
      /\ sleeps' = [sleeps EXCEPT ![o] = IF now < all.until THEN all.until ELSE Never]
  <2>1. PICK later \in now .. now :
           /\ now' = later
           /\ sleeps' = [sleeps EXCEPT ![o] = IF later < all.until THEN all.until ELSE Never]
    BY DEF Checkpoint
  <2>2. now \in Nat BY Bounds_Assumption
  <2>3. later = now BY <2>2
  <2> QED BY <2>1, <2>3
<1>2. \A p \in Ops : Running(p) => Running(p)' BY DEF Checkpoint, Running
<1>3. AllPaused' = AllPaused BY <1>1 DEF Checkpoint, AllPaused
<1>4. Blocked(o)' BY <1>1, <1>2, <1>3, StillHeld DEF Checkpoint
<1>5. HeldAsleep(o)' BY <1>1, <1>4 DEF Checkpoint, HeldAsleep, AllPaused
<1> QED BY <1>1, <1>2, <1>5, NoneMoved DEF Checkpoint

\* The other steps of an operation.
LEMMA SleepersStep ==
    ASSUME ~ClockRuns, Sleepers, TypeOK', NEW o \in Ops, Step(o) PROVE Sleepers'
<1> USE DEF Sleepers, TypeOK
<1>1. CASE TakeSlot(o) BY <1>1, SleepersTakeSlot
<1>2. CASE Treat(o) BY <1>2, NoneMoved DEF Treat, Running
<1>3. CASE PauseOwn(o) BY <1>3, AllWoken DEF PauseOwn
<1>4. CASE Note(o) BY <1>4, NoneMoved DEF Note, Running
<1>5. CASE Checkpoint(o) BY <1>5, SleepersCheckpoint
<1>6. CASE CheckpointAsync(o) BY <1>6, NoneMoved DEF CheckpointAsync, Running
<1>7. CASE LeavesCheckpoint(o) BY <1>7, NoneMoved DEF LeavesCheckpoint, Running
<1>8. CASE TimerWakes(o) BY <1>8, NoneMoved DEF TimerWakes, Running
<1>9. CASE DropTicket(o) BY <1>9, AllWoken DEF DropTicket
<1> QED BY <1>1, <1>2, <1>3, <1>4, <1>5, <1>6, <1>7, <1>8, <1>9 DEF Step

\* Everybody who pauses, resumes or cancels wakes all of them.
LEMMA SleepersClick ==
    ASSUME TypeOK',
           \/ \E o \in Ops : Pause(o) \/ Resume(o) \/ Cancel(o)
           \/ \E by \in {"user", "task"} : PauseAll(by)
           \/ ResumeAll \/ PauseUntilGameEnds
    PROVE  Sleepers'
<1>1. sleeps' = Woken BY DEF Pause, Resume, Cancel, PauseAll, ResumeAll, PauseUntilGameEnds
<1> QED BY <1>1, AllWoken

\* Time passes: who sleeps because everything is paused has a timer set to its end.
LEMMA SleepersTick == ASSUME Sleepers, TypeOK', Tick PROVE Sleepers'
<1> USE DEF Sleepers, TypeOK, Tick
<1>1. AllPaused' => AllPaused BY DEF AllPaused
<1>2. ASSUME NEW p \in Ops, sleeps'[p] # Awake PROVE HeldAsleep(p)'
  <2>1. p \notin cancelled' BY <1>2 DEF SleepersAreHeld
  <2>2. at'[p] = "slot" => Full(p)'
    BY <1>2 DEF SleepersAreHeld, Full, RunningOf, Running
  <2>3. at'[p] = "parked" => Blocked(p)' \/ sleeps'[p] <= now'
    <3> SUFFICES ASSUME at[p] = "parked" PROVE Blocked(p)' \/ sleeps[p] <= now + 1
      OBVIOUS
    <3>1. CASE AllPaused
      <4>1. sleeps[p] <= all.until BY <1>2, <3>1 DEF TimersAreSet
      <4>2. AllPaused' \/ all.until <= now + 1 BY DEF AllPaused
      <4>3. sleeps[p] \in Nat /\ all.until \in Nat BY Bounds_Assumption DEF Never
      <4> QED BY <4>1, <4>2, <4>3 DEF Blocked
    <3> QED BY <3>1
  <2>4. at'[p] = "parked" /\ AllPaused' => sleeps'[p] <= all'.until
    BY <1>1, <1>2 DEF TimersAreSet
  <2> QED BY <2>1, <2>2, <2>3, <2>4 DEF HeldAsleep
<1> QED BY <1>2 DEF SleepersAreHeld, TimersAreSet, HeldAsleep

\* Only a pause that has ended is cleared without a wake-up.
LEMMA SleepersLook == ASSUME Sleepers, TypeOK', LooksWhosePause PROVE Sleepers'
<1> USE DEF Sleepers, TypeOK
<1>1. CASE AllPaused BY <1>1, NoneMoved DEF LooksWhosePause, Running
<1>2. CASE ~AllPaused
  <2>1. ~AllPaused' BY <1>2 DEF LooksWhosePause, AllPaused, NotPaused
  <2>2. \A p \in Ops : (Full(p) => Full(p)') /\ (Blocked(p) => Blocked(p)')
    <3>1. AllPaused' = AllPaused BY <1>2, <2>1 DEF AllPaused
    <3>2. \A p \in Ops : Running(p) => Running(p)' BY DEF LooksWhosePause, Running
    <3> HIDE DEF TypeOK
    <3> QED BY <3>1, <3>2, StillHeld DEF LooksWhosePause
  <2>3. SleepersAreHeld' BY <2>2 DEF LooksWhosePause, SleepersAreHeld
  <2>4. TimersAreSet' BY <2>1 DEF TimersAreSet
  <2>5. TypeOK' OBVIOUS
  <2> HIDE DEF TypeOK
  <2> QED BY <2>3, <2>4, <2>5
<1> QED BY <1>1, <1>2

\* Each step of the detection that can free a sleeper wakes them all.
LEMMA SleepersGame == ASSUME Sleepers, TypeOK', GameChanges \/ Refresh PROVE Sleepers'
<1> USE DEF Sleepers, TypeOK
<1>1. CASE GameChanges BY <1>1, NoneMoved DEF GameChanges, Running
<1>2. CASE LooksWhosePause BY <1>2, SleepersLook
<1>3. CASE LiftsPause BY <1>3, AllWoken DEF LiftsPause
<1>4. CASE SetSlots BY <1>4, AllWoken DEF SetSlots
<1>5. ASSUME NEW o \in Ops, ApplyTo(o) PROVE Sleepers'
  <2>1. CASE sleeps' = Woken BY <2>1, AllWoken
  <2>2. CASE UNCHANGED <<paused, mine, sleeps>>
    BY <1>5, <2>2, NoneMoved DEF ApplyTo, Running
  <2> QED BY <1>5, <2>1, <2>2 DEF ApplyTo
<1>6. CASE ApplyEnds
  <2>1. CASE game BY <1>6, <2>1, NoneMoved DEF ApplyEnds, Running
  <2>2. CASE ~game BY <1>6, <2>2, AllWoken DEF ApplyEnds
  <2> QED BY <2>1, <2>2
<1> QED BY <1>1, <1>2, <1>3, <1>4, <1>5, <1>6 DEF Refresh

\* Every step keeps what is true of sleepers.
LEMMA SleepersNext == ASSUME ~ClockRuns, Sleepers, [Next]_vars PROVE Sleepers'
<1>1. TypeOK' BY TypeNext DEF Sleepers
<1>2. CASE UNCHANGED vars
  BY <1>1, <1>2, NoneMoved DEF vars, Running
<1>3. CASE Next
  <2>1. ASSUME NEW o \in Ops, Begin(o) PROVE Sleepers' BY <1>1, <2>1, SleepersBegin
  <2>2. ASSUME NEW o \in Ops, Step(o) PROVE Sleepers' BY <1>1, <2>2, SleepersStep
  <2>3. CASE \/ \E o \in Ops : Pause(o) \/ Resume(o) \/ Cancel(o)
             \/ \E by \in {"user", "task"} : PauseAll(by)
             \/ ResumeAll \/ PauseUntilGameEnds
    BY <1>1, <2>3, SleepersClick
  <2>4. CASE GameChanges \/ Refresh BY <1>1, <2>4, SleepersGame
  <2>5. CASE Tick BY <1>1, <2>5, SleepersTick
  <2> QED BY <1>3, <2>1, <2>2, <2>3, <2>4, <2>5 DEF Next
<1> QED BY <1>2, <1>3

\* NoWakeUpIsLost: when no time passes between the two readings of the clock in one
\* checkpoint, nobody who could go on sleeps without a timer.
THEOREM NoWakeUpIsLost == ASSUME ~ClockRuns PROVE Spec => []SleepersAreHeld
<1>1. Init => Sleepers
  BY TypeInit, Woken_Type DEF Init, Sleepers, SleepersAreHeld, TimersAreSet
<1>2. Sleepers /\ [Next]_vars => Sleepers' BY SleepersNext
<1>3. Sleepers => SleepersAreHeld BY DEF Sleepers
<1> QED BY <1>1, <1>2, <1>3, PTL DEF Spec

--------------------------------------------------------------------------------
(* The slots hold *)

\* What runs on one thread is nested: one operation, and what is nested in it.
OneRoot ==
    \A p, q \in Ops : /\ Live(p) /\ Live(q) /\ Inside[p] = NoOp /\ Inside[q] = NoOp
                      /\ ThreadOf[p] = ThreadOf[q] /\ ThreadOf[p] # NoThread
                      => p = q
Enclosed == \A o \in Ops : Live(o) /\ Inside[o] # NoOp => Live(Inside[o])

Threads == TypeOK /\ OneRoot /\ Enclosed

\* A step that neither starts nor ends an operation.
LEMMA SameLives ==
    ASSUME Threads, TypeOK', \A o \in Ops : Live(o)' <=> Live(o)
    PROVE  Threads'
<1>1. OneRoot' BY DEF Threads, OneRoot
<1>2. Enclosed' BY Ops_Assumption DEF Threads, Enclosed
<1> QED BY <1>1, <1>2 DEF Threads

\* A ticket is begun on a thread with none, or nested in the one that runs there.
LEMMA ThreadsBegin == ASSUME Threads, TypeOK', NEW o \in Ops, Begin(o) PROVE Threads'
<1> USE DEF Threads
<1>1. Live(o)' BY DEF TypeOK, Begin, Begun, Live
<1>2. \A p \in Ops \ {o} : Live(p)' <=> Live(p) BY DEF TypeOK, Begin, Live
<1>3. OneRoot'
  <2> SUFFICES ASSUME NEW p \in Ops, NEW q \in Ops, Live(p)', Live(q)', p # q,
                      Inside[p] = NoOp, Inside[q] = NoOp,
                      ThreadOf[p] = ThreadOf[q], ThreadOf[p] # NoThread
               PROVE  FALSE
    BY DEF OneRoot
  <2>1. CASE p = o BY <1>2, <2>1 DEF Begin
  <2>2. CASE q = o BY <1>2, <2>2 DEF Begin
  <2> QED BY <1>2, <2>1, <2>2 DEF OneRoot
<1>4. Enclosed'
  <2> SUFFICES ASSUME NEW p \in Ops, Live(p)', Inside[p] # NoOp PROVE Live(Inside[p])'
    BY DEF Enclosed
  <2>1. Inside[p] \in Ops BY Ops_Assumption
  <2>2. CASE p = o
    <3>1. Live(Inside[p]) BY <2>2 DEF Begin, Live
    <3> QED BY <1>1, <1>2, <2>1, <3>1
  <2>3. CASE p # o
    <3>1. Live(Inside[p]) BY <1>2, <2>3 DEF Enclosed
    <3> QED BY <1>1, <1>2, <2>1, <3>1
  <2> QED BY <2>2, <2>3
<1> QED BY <1>3, <1>4

\* An operation ends when nothing nested in it is under way.
LEMMA ThreadsDrop == ASSUME Threads, TypeOK', NEW o \in Ops, DropTicket(o) PROVE Threads'
<1> USE DEF Threads
<1>1. ~Live(o)' BY DEF TypeOK, DropTicket, Live
<1>2. \A p \in Ops \ {o} : Live(p)' <=> Live(p) BY DEF TypeOK, DropTicket, Live
<1>3. OneRoot' BY <1>1, <1>2 DEF OneRoot
<1>4. ASSUME NEW p \in Ops, Live(p)', Inside[p] # NoOp PROVE Live(Inside[p])'
  <2>1. p # o /\ Live(p) BY <1>1, <1>2, <1>4
  <2>2. Inside[p] # o BY <2>1 DEF DropTicket, Free
  <2>3. Inside[p] \in Ops /\ Live(Inside[p]) BY <1>4, <2>1, Ops_Assumption DEF Enclosed
  <2> QED BY <1>2, <2>2, <2>3
<1> QED BY <1>3, <1>4 DEF Enclosed

\* Every step keeps one root operation per thread.
LEMMA ThreadsNext == ASSUME Threads, [Next]_vars PROVE Threads'
<1>1. TypeOK' BY TypeNext DEF Threads
<1>2. CASE UNCHANGED vars BY <1>1, <1>2, SameLives DEF vars, Live
<1>3. CASE \E o \in Ops : Begin(o) BY <1>1, <1>3, ThreadsBegin
<1>4. CASE \E o \in Ops : DropTicket(o) BY <1>1, <1>4, ThreadsDrop
<1>5. ASSUME NEW o \in Ops,
             \/ TakeSlot(o) \/ Treat(o) \/ PauseOwn(o) \/ Note(o)
             \/ Checkpoint(o) \/ CheckpointAsync(o) \/ LeavesCheckpoint(o) \/ TimerWakes(o)
      PROVE  Threads'
  <2>1. \A p \in Ops : Live(p)' <=> Live(p)
    BY <1>5 DEF Threads, TypeOK, Live, TakeSlot, Begun, Treat, PauseOwn, Note, Checkpoint,
                InCheckpoint, CheckpointAsync, LeavesCheckpoint, TimerWakes
  <2> QED BY <1>1, <2>1, SameLives
<1>6. ASSUME UNCHANGED at PROVE Threads' BY <1>1, <1>6, SameLives DEF Live
<1>7. CASE \/ \E o \in Ops : Pause(o) \/ Resume(o) \/ Cancel(o)
           \/ \E by \in {"user", "task"} : PauseAll(by)
           \/ ResumeAll \/ PauseUntilGameEnds
           \/ GameChanges \/ Refresh \/ Tick
  BY <1>6, <1>7 DEF Pause, Resume, Cancel, PauseAll, ResumeAll, PauseUntilGameEnds,
     GameChanges, Refresh, LooksWhosePause, LiftsPause, SetSlots, ApplyTo, ApplyEnds, Tick
<1> QED BY <1>2, <1>3, <1>4, <1>5, <1>7 DEF Next, Step

\* Who runs without a slot because its thread has one is nested in who has it.
LEMMA HeldByItsOwn ==
    ASSUME Threads, NEW o \in Ops, Begin(o), HeldHere(o)
    PROVE  Inside[o] # NoOp /\ KindOf[Inside[o]] = KindOf[o]
<1>1. PICK p \in Ops : /\ Running(p) /\ KindOf[p] = KindOf[o]
                       /\ ThreadOf[p] = ThreadOf[o] /\ ThreadOf[o] # NoThread
  BY DEF HeldHere
<1>2. Live(p) BY <1>1 DEF Running, Live
<1>3. Inside[o] # NoOp BY <1>1, <1>2 DEF Begin
<1>4. /\ Inside[o] \in Ops /\ Inside[Inside[o]] = NoOp
      /\ ThreadOf[Inside[o]] = ThreadOf[o]
  BY <1>3, Ops_Assumption, Nested_Assumption
<1>5. Live(Inside[o]) /\ Free(Inside[o]) BY <1>3 DEF Begin, Live
<1>6. CASE Inside[p] = NoOp
  <2>1. p = Inside[o] BY <1>1, <1>2, <1>4, <1>5, <1>6 DEF Threads, OneRoot
  <2> QED BY <1>1, <1>3, <2>1
<1>7. CASE Inside[p] # NoOp
  <2>1. /\ Inside[p] \in Ops /\ Inside[Inside[p]] = NoOp
        /\ ThreadOf[Inside[p]] = ThreadOf[p]
    BY <1>7, Ops_Assumption, Nested_Assumption
  <2>2. Live(Inside[p]) BY <1>2, <1>7 DEF Threads, Enclosed
  <2>3. Inside[p] = Inside[o] BY <1>1, <1>4, <1>5, <2>1, <2>2 DEF Threads, OneRoot
  <2> QED BY <1>2, <1>5, <2>3 DEF Free
<1> QED BY <1>6, <1>7

\* What SlotsHold says of one step and one kind.
Within(k) == Slotted(k)' \ Slotted(k) # {} => Cardinality(Slotted(k)') <= slots'

\* A step after which no other operation runs than before, and none that was cancelled is
\* not any more.
LEMMA NobodyStarts ==
    ASSUME NEW k, \A p \in Ops : Running(p)' => Running(p) /\ (p \in cancelled => p \in cancelled')
    PROVE  Within(k)
BY DEF Within, Slotted, RunningOf

\* Only a nested operation begins to run at once.
LEMMA WithinBegin ==
    ASSUME Threads, NEW o \in Ops, Begin(o), NEW k PROVE Within(k)
<1>1. \A p \in Ops \ {o} : Running(p)' => Running(p)
  BY DEF Threads, TypeOK, Begin, Running
<1>2. cancelled' = cancelled BY DEF Begin
<1>3. CASE HeldHere(o)
  <2>1. Inside[o] # NoOp /\ KindOf[Inside[o]] = KindOf[o] BY <1>3, HeldByItsOwn
  <2>2. o \notin Slotted(k)' BY <2>1 DEF Slotted, RunningOf
  <2> QED BY <1>1, <1>2, <2>2 DEF Within, Slotted, RunningOf
<1>4. CASE ~HeldHere(o)
  <2>1. ~Running(o)' BY <1>4 DEF Threads, TypeOK, Begin, Running
  <2> QED BY <1>1, <1>2, <2>1, NobodyStarts
<1> QED BY <1>3, <1>4

\* A slot is taken when there is one, or by a cancelled operation that needs none.
LEMMA WithinTakeSlot ==
    ASSUME Threads, NEW o \in Ops, TakeSlot(o), NEW k PROVE Within(k)
<1>1. \A p \in Ops \ {o} : Running(p)' => Running(p)
  BY DEF Threads, TypeOK, TakeSlot, Running
<1>2. cancelled' = cancelled /\ slots' = slots BY DEF TakeSlot
<1>3. CASE Full(o)
  <2>1. at' = at BY <1>3 DEF TakeSlot
  <2> QED BY <1>2, <2>1, NobodyStarts DEF Running
<1>4. CASE o \in cancelled \/ KindOf[o] # k
  BY <1>1, <1>2, <1>4 DEF Within, Slotted, RunningOf
<1>5. CASE ~Full(o) /\ o \notin cancelled /\ KindOf[o] = k
  <2>1. Cardinality(RunningOf(k)) < slots /\ Cardinality(RunningOf(k)) \in Nat
    BY <1>5, Running_Finite, FS_CardinalityType DEF Full, Threads, TypeOK
  <2>2. o \notin RunningOf(k) BY DEF TakeSlot, RunningOf, Running
  <2>3. /\ IsFiniteSet(RunningOf(k) \cup {o})
        /\ Cardinality(RunningOf(k) \cup {o}) = Cardinality(RunningOf(k)) + 1
    BY <2>2, Running_Finite, FS_AddElement
  <2>4. Slotted(k)' \subseteq RunningOf(k) \cup {o} BY <1>1 DEF Slotted, RunningOf
  <2>5. /\ Cardinality(Slotted(k)') <= Cardinality(RunningOf(k) \cup {o})
        /\ Cardinality(Slotted(k)') \in Nat
    BY <2>3, <2>4, FS_Subset, FS_CardinalityType
  <2>6. slots \in Nat BY DEF Threads, TypeOK
  <2> QED BY <1>2, <2>1, <2>3, <2>5, <2>6 DEF Within
<1> QED BY <1>3, <1>4, <1>5

\* No step lets an operation run past the slots of its kind.
LEMMA WithinNext == ASSUME Threads, [Next]_vars, NEW k PROVE Within(k)
<1>1. CASE \E o \in Ops : Begin(o) BY <1>1, WithinBegin
<1>2. CASE \E o \in Ops : TakeSlot(o) BY <1>2, WithinTakeSlot
<1>3. ASSUME NEW o \in Ops,
             \/ Treat(o) \/ PauseOwn(o) \/ Note(o)
             \/ Checkpoint(o) \/ CheckpointAsync(o) \/ LeavesCheckpoint(o)
             \/ TimerWakes(o) \/ DropTicket(o)
      PROVE  Within(k)
  <2>1. \A p \in Ops : Running(p)' => Running(p)
    BY <1>3 DEF Threads, TypeOK, Running, Treat, PauseOwn, Note, Checkpoint,
                InCheckpoint, CheckpointAsync, LeavesCheckpoint, TimerWakes, DropTicket
  <2>2. cancelled' = cancelled \/ (cancelled' = cancelled \ {o} /\ ~Running(o)')
    BY <1>3 DEF Threads, TypeOK, Running, Treat, PauseOwn, Note, Checkpoint,
                CheckpointAsync, LeavesCheckpoint, TimerWakes, DropTicket
  <2> QED BY <2>1, <2>2, NobodyStarts
<1>4. ASSUME UNCHANGED at, cancelled \subseteq cancelled' PROVE Within(k)
  BY <1>4, NobodyStarts DEF Running
<1>5. CASE UNCHANGED vars BY <1>4, <1>5 DEF vars
<1>6. CASE \/ \E o \in Ops : Pause(o) \/ Resume(o) \/ Cancel(o)
           \/ \E by \in {"user", "task"} : PauseAll(by)
           \/ ResumeAll \/ PauseUntilGameEnds
           \/ GameChanges \/ Refresh \/ Tick
  BY <1>4, <1>6 DEF Pause, Resume, Cancel, PauseAll, ResumeAll, PauseUntilGameEnds,
     GameChanges, Refresh, LooksWhosePause, LiftsPause, SetSlots, ApplyTo, ApplyEnds, Tick
<1> QED BY <1>1, <1>2, <1>3, <1>5, <1>6 DEF Next, Step

\* SlotsAreKept: no operation begins to run past the slots of its kind, but one nested in
\* an operation that has one.
THEOREM SlotsAreKept == Spec => SlotsHold
<1>1. Init => Threads
  BY TypeInit DEF Init, Threads, OneRoot, Enclosed, Live
<1>2. Threads /\ [Next]_vars => Threads' BY ThreadsNext
<1>3. Threads /\ [Next]_vars =>
          [\A k \in Kinds : Slotted(k)' \ Slotted(k) # {} => Cardinality(Slotted(k)') <= slots']_vars
  BY WithinNext DEF Within
<1> QED BY <1>1, <1>2, <1>3, PTL DEF Spec, SlotsHold

================================================================================
