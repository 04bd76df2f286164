---------------------------- MODULE DurableStore ------------------------------
(***************************************************************************)
(* What the program's data store promises (state.rs): memory changes in    *)
(* versions, a caller asks for what memory holds to be saved, and once it  *)
(* is answered a restart finds that version or a later one.  Only damage   *)
(* from outside takes a saved version away.                                *)
(***************************************************************************)
EXTENDS Naturals

CONSTANTS
    Callers,
    Nothing   \* what a caller that waits for no version waits for: no number

VARIABLES
    mem,       \* the version in memory
    durable,   \* the version a start would find
    asked,     \* the version each caller waits for, Nothing when it waits for none
    kept,      \* the latest version a caller was told is saved
    up,        \* the program runs
    damage     \* how often data.json was damaged from outside

vars == <<mem, durable, asked, kept, up, damage>>

Init ==
    /\ mem = 0 /\ durable = 0 /\ kept = 0 /\ damage = 0
    /\ asked = [c \in Callers |-> Nothing]
    /\ up = FALSE

Change ==
    /\ up
    /\ mem' = mem + 1
    /\ UNCHANGED <<durable, asked, kept, up, damage>>

Ask(c) ==
    /\ up /\ asked[c] = Nothing
    /\ asked' = [asked EXCEPT ![c] = mem]
    /\ UNCHANGED <<mem, durable, kept, up, damage>>

\* A saved version gives way to a later one only.
Persist ==
    /\ up
    /\ durable' \in durable..mem
    /\ UNCHANGED <<mem, asked, kept, up, damage>>

Answer(c) ==
    /\ asked[c] # Nothing /\ durable >= asked[c]
    /\ kept' = IF asked[c] > kept THEN asked[c] ELSE kept
    /\ asked' = [asked EXCEPT ![c] = Nothing]
    /\ UNCHANGED <<mem, durable, up, damage>>

\* An error: nothing is promised of the version asked for.
Refuse(c) ==
    /\ asked[c] # Nothing
    /\ asked' = [asked EXCEPT ![c] = Nothing]
    /\ UNCHANGED <<mem, durable, kept, up, damage>>

Stop ==
    /\ up' = FALSE
    /\ asked' = [c \in Callers |-> Nothing]
    /\ UNCHANGED <<mem, durable, kept, damage>>

Start ==
    /\ ~up
    /\ up' = TRUE
    /\ mem' = durable
    /\ UNCHANGED <<durable, asked, kept, damage>>

Damage ==
    /\ ~up
    /\ damage' = damage + 1
    /\ durable' \in 0..durable
    /\ kept' = IF kept <= durable' THEN kept ELSE durable'
    /\ UNCHANGED <<mem, asked, up>>

Next == \/ Change \/ Persist \/ Stop \/ Start \/ Damage
        \/ \E c \in Callers : Ask(c) \/ Answer(c) \/ Refuse(c)

Spec == Init /\ [][Next]_vars

===============================================================================
