---------------------------- MODULE MCScheduler --------------------------------
(* Instances of Scheduler. *)
EXTENDS Scheduler

CONSTANTS daily, once, every, start, ping, pong, hook

Calendar(windows, catchUp) == [kind |-> "calendar", at |-> windows, catchUp |-> catchUp]
After(t, want)             == [kind |-> "after", task |-> t, want |-> want]

MCTrigger == [t \in {daily, once, every, start, ping, pong, hook} |->
    CASE t = daily  -> Calendar({1, 2}, TRUE)
      [] t = once   -> [kind |-> "once", at |-> 2]
      [] t = every  -> [kind |-> "interval", every |-> 2]
      [] t = start  -> [kind |-> "appStart"]
      [] t = ping  -> After(pong, BOOLEAN)
      [] t = pong -> After(ping, BOOLEAN)
      [] t = hook   -> [kind |-> "event"]]

\* A task the clock starts, behind one that every tick has to ask about; and the other
\* tasks of the clock.
MCClockTasks == <<hook, daily>>
MCTwoClocks  == <<daily, every>>
MCClockUses  == [hand |-> 0, change |-> 1, ring |-> 0, game |-> 0, restart |-> 1]

\* Two tasks that a game holds.
MCHeldTasks == <<start, once>>

\* Tasks that wait for each other, and for an event.
MCChainTasks == <<start, once, ping, pong, hook>>
MCChainUses  == [hand |-> 1, change |-> 0, ring |-> 1, game |-> 1, restart |-> 1]

\* Nobody changes anything; somebody runs one task by hand.
MCNoUses   == [hand |-> 0, change |-> 0, ring |-> 0, game |-> 0, restart |-> 0]
MCHandUses == [MCNoUses EXCEPT !.hand = 1]

===============================================================================
