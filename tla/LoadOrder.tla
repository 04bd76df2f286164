------------------------------ MODULE LoadOrder ------------------------------
(****************************************************************************)
(* The activation order of one profile and the per-file pins over it         *)
(* (src/src-tauri/src/commands/mod_order.rs).                                *)
(*                                                                          *)
(* The order decides, file by file, which active mod's copy is in the game   *)
(* folder: the pinned mod while it is active, else the last of the order.    *)
(* A command reads the order and the pins (`snapshot`), writes them back     *)
(* later (`commit_with_pins`), and re-copies the files that changed hands    *)
(* later still, under MOD_OP_LOCK (`redeploy_files`).  Enabling and disabling *)
(* are the calls of ModDeploy, without their faults: here their worker step  *)
(* is one step, since nothing that takes MOD_OP_LOCK runs beside it.         *)
(****************************************************************************)
EXTENDS Lists, SequencesExt, FiniteSetsExt

CONSTANTS
    Mods, Files,
    Ops,     \* commands that can be in flight together
    Ships,   \* the files of each mod
    Calls,   \* the commands issued in this instance
    Blocks,  \* the blocks mod_order_place is asked for, mods that are off included
    Faults,  \* what may go wrong in this instance
    Game,    \* the game's own copy of a file, or its absence when it has none
    NoMod

Commands == {"enable", "disable", "bulk", "set", "place", "apply", "reapply"}

ASSUME Order_Assumption ==
    /\ Ships \in [Mods -> SUBSET Files]
    /\ Game \notin Mods /\ NoMod \notin Mods /\ Game # NoMod
    /\ Ops # {} /\ Calls \subseteq Commands
    /\ Blocks \subseteq Seq(Mods)
    /\ Faults \subseteq {"redeployStops"}

VARIABLES
    order,  \* active_mods
    pins,   \* file_winners
    game,   \* whose copy of each file is in the game folder
    call,   \* the commands in flight
    behind  \* history: files whose copy a cut redeploy or a bulk disable may have left wrong

vars == <<order, pins, game, call, behind>>

----------------------------------------------------------------------------
(* Who wins a file *)

\* The active mods that ship f, and their places in the order (`rank_of`).
Providers(list, f) == {m \in ToSet(list) : f \in Ships[m]}
Ranks(list, f)     == {i \in DOMAIN list : f \in Ships[list[i]]}

LastProvider(list, f) == list[Max(Ranks(list, f))]

Pinned(list, pin, f) == pin[f] \in Providers(list, f)

WinnerOf(list, pin, f) ==
    CASE Pinned(list, pin, f)                                 -> pin[f]
      [] ~Pinned(list, pin, f) /\ Providers(list, f) # {}     -> LastProvider(list, f)
      [] ~Pinned(list, pin, f) /\ Providers(list, f) = {}     -> Game

Contested(list) == {f \in Files : \E m, n \in Providers(list, f) : m # n}

\* Mutants: every shared file is announced; the new pins are not looked at.
HandoversAll(list, pin, after, pinAfter) == Contested(list)
HandoversOrderOnly(list, pin, after, pinAfter) ==
    {f \in Contested(list) : WinnerOf(list, pin, f) # WinnerOf(after, pin, f)}

Handovers(list, pin, after, pinAfter) ==
    {f \in Contested(list) : WinnerOf(list, pin, f) # WinnerOf(after, pinAfter, f)}

PinsToReassert(list, pin) ==
    {f \in Contested(list) : Pinned(list, pin, f) /\ pin[f] # LastProvider(list, f)}

IsPermutation(s, t) == ToBag(s) = ToBag(t)

\* The block's active mods, each at its first place in the block.
Moving(list, block) ==
    LET passed == {i \in DOMAIN block : ~Contains(list, block[i])
                                        \/ \E j \in 1 .. (i - 1) : block[j] = block[i]}
        places == Without([i \in DOMAIN block |-> i], passed)
    IN  [k \in DOMAIN places |-> block[places[k]]]

\* Past the end of the others means on top.
Inserted(rest, moving, position) ==
    LET cut == IF position <= Len(rest) THEN position ELSE Len(rest)
    IN  SubSeq(rest, 1, cut) \o moving \o SubSeq(rest, cut + 1, Len(rest))

\* Mutant: the moved mods keep the order they had.
PlaceBlockKeeping(list, block, position) ==
    LET moving == Without(list, ToSet(list) \ ToSet(block))
    IN  Inserted(Without(list, ToSet(moving)), moving, position)

\* The block's mods are inserted at `position` of the order without them.
PlaceBlock(list, block, position) ==
    LET moving == Moving(list, block)
    IN  Inserted(Without(list, ToSet(moving)), moving, position)

----------------------------------------------------------------------------

NoPins == [f \in Files |-> NoMod]

\* What a command has read and decided: the order and pins of its snapshot, those
\* it will write, the copies (or removals) it will do in the game folder.
NoCall == [kind |-> "none", phase |-> "idle", read |-> <<>>, readPins |-> NoPins,
           after |-> <<>>, pinsAfter |-> NoPins, mods |-> {}, write |-> NoPins]

Copies(list, pin, S) == [f \in Files |-> IF f \in S THEN WinnerOf(list, pin, f) ELSE NoMod]

TypeOK ==
    /\ order \in Seq(Mods) /\ IsInjective(order)
    /\ pins \in [Files -> Mods \cup {NoMod}]
    /\ game \in [Files -> Mods \cup {Game}]
    /\ call \in [Ops -> [kind : {"none", "pins"} \cup Commands,
                         phase : {"idle", "commit", "work", "record", "pins"},
                         read : Seq(Mods), readPins : [Files -> Mods \cup {NoMod}],
                         after : Seq(Mods), pinsAfter : [Files -> Mods \cup {NoMod}],
                         mods : SUBSET Mods, write : [Files -> Mods \cup {Game, NoMod}]]]
    /\ behind \subseteq Files

Init ==
    /\ order = <<>>
    /\ pins = NoPins
    /\ game = [f \in Files |-> Game]
    /\ call = [o \in Ops |-> NoCall]
    /\ behind = {}

----------------------------------------------------------------------------
(* Changing the order or the pins *)

Draft(o, kind, after, pinsAfter) ==
    /\ kind \in Calls /\ call[o].phase = "idle"
    /\ call' = [call EXCEPT ![o] = [NoCall EXCEPT !.kind = kind, !.phase = "commit",
                    !.read = order, !.readPins = pins, !.after = after,
                    !.pinsAfter = pinsAfter]]
    /\ UNCHANGED <<order, pins, game, behind>>

\* mod_order_set: anything but a permutation of what is active is refused.
OrderSet(o, new) == IsPermutation(order, new) /\ Draft(o, "set", new, pins)

\* mod_order_place: the block's mods that are active move, together.
OrderPlace(o, block, position) == Draft(o, "place", PlaceBlock(order, block, position), pins)

\* mod_order_reapply: the order and the pins as they are.
OrderReapply(o) == Draft(o, "reapply", order, pins)

\* conflict_apply: a draft's order and its per-file choices.
ConflictApply(o, new, choices) ==
    IsPermutation(order, new) /\ Draft(o, "apply", new, choices)

\* Mutant: a reapply copies what the order changes, which is nothing.
CommitHandovers(o) ==
    /\ call[o].phase = "commit"
    /\ LET draft == call[o]
           moved == Handovers(draft.read, draft.readPins, draft.after, draft.pinsAfter)
       IN  /\ order' = IF draft.after # draft.read \/ draft.pinsAfter # draft.readPins THEN draft.after ELSE order
           /\ pins' = IF draft.pinsAfter # draft.readPins THEN draft.pinsAfter ELSE pins
           /\ call' = [call EXCEPT ![o].phase = "work",
                                   ![o].write = Copies(draft.after, draft.pinsAfter, moved)]
    /\ UNCHANGED <<game, behind>>

\* commit_with_pins: what to re-copy is worked out from the snapshot; the lists are
\* written over whatever they have become since, when the draft changed them.
Commit(o) ==
    /\ call[o].phase = "commit"
    /\ LET draft  == call[o]
           moved  == IF draft.kind = "reapply" THEN Contested(draft.after)
                     ELSE Handovers(draft.read, draft.readPins, draft.after, draft.pinsAfter)
                              \cap Contested(draft.after)
       IN  /\ order' = IF draft.after # draft.read \/ draft.pinsAfter # draft.readPins THEN draft.after ELSE order
           /\ pins' = IF draft.pinsAfter # draft.readPins THEN draft.pinsAfter ELSE pins
           /\ call' = [call EXCEPT ![o].phase = "work",
                                   ![o].write = Copies(draft.after, draft.pinsAfter, moved)]
    /\ UNCHANGED <<game, behind>>

----------------------------------------------------------------------------
(* Enabling and disabling, as the order sees them *)

Enable(o, m) ==
    /\ "enable" \in Calls /\ call[o].phase = "idle" /\ ~Contains(order, m)
    /\ call' = [call EXCEPT ![o] = [NoCall EXCEPT !.kind = "enable", !.phase = "work",
                    !.mods = {m}, !.write = [f \in Files |-> IF f \in Ships[m] THEN m
                                                             ELSE NoMod]]]
    /\ UNCHANGED <<order, pins, game, behind>>

\* Mutant: the mods that leave are still looked at for what goes underneath.
LeaveWithin(o, kind, gone) ==
    /\ kind \in Calls /\ call[o].phase = "idle"
    /\ call' = [call EXCEPT ![o] = [NoCall EXCEPT !.kind = kind, !.phase = "work",
                    !.mods = gone, !.write = Copies(order, NoPins, UNION {Ships[m] : m \in gone})]]
    /\ UNCHANGED <<order, pins, game, behind>>

\* Each file of the leaving mods falls back to the last provider that stays: the
\* order decides, the pins are put back after.
Leave(o, kind, gone) ==
    /\ kind \in Calls /\ call[o].phase = "idle"
    /\ call' = [call EXCEPT ![o] = [NoCall EXCEPT !.kind = kind, !.phase = "work",
                    !.mods = gone,
                    !.write = Copies(Without(order, gone), NoPins, UNION {Ships[m] : m \in gone})]]
    /\ UNCHANGED <<order, pins, game, behind>>

Disable(o, m) == Contains(order, m) /\ Leave(o, "disable", {m})

DisableMany(o, wanted) ==
    LET gone == ToSet(order) \cap wanted IN gone # {} /\ Leave(o, "bulk", gone)

\* The list follows the files.  A bulk disable ends here.
Record(o) ==
    /\ call[o].phase = "record"
    /\ IF call[o].kind = "enable"
       THEN \E m \in call[o].mods : order' = IF Contains(order, m) THEN order
                                             ELSE Append(order, m)
       ELSE order' = Without(order, call[o].mods)
    /\ call' = [call EXCEPT ![o] = IF @.kind = "bulk" THEN NoCall
                                                      ELSE [@ EXCEPT !.phase = "pins"]]
    /\ UNCHANGED <<pins, game, behind>>

\* reassert_pins, after enable_mod and disable_mod.
ReassertPins(o) ==
    /\ call[o].phase = "pins"
    /\ call' = [call EXCEPT ![o] = [NoCall EXCEPT !.kind = "pins", !.phase = "work",
                    !.write = Copies(order, pins, PinsToReassert(order, pins))]]
    /\ UNCHANGED <<order, pins, game, behind>>

----------------------------------------------------------------------------
(* The files, under MOD_OP_LOCK *)

Written(write, S) == [f \in Files |-> IF f \in S /\ write[f] # NoMod THEN write[f] ELSE game[f]]

Toggles == {"enable", "disable", "bulk"}

\* A bulk disable falls back by the order and puts no pin back after it.
PinsMissed(o) ==
    {f \in Files : /\ call[o].kind = "bulk" /\ call[o].write[f] # NoMod
                  /\ f \in PinsToReassert(Without(order, call[o].mods), pins)}

Work(o) ==
    /\ call[o].phase = "work"
    /\ game' = Written(call[o].write, Files)
    /\ call' = [call EXCEPT ![o] = IF @.kind \in Toggles THEN [@ EXCEPT !.phase = "record"]
                                                         ELSE NoCall]
    /\ behind' = IF call[o].kind = "reapply" THEN {} ELSE behind \cup PinsMissed(o)
    /\ UNCHANGED <<order, pins>>

\* A redeploy stopped, or failing, between two of its files: the order is saved
\* already, the files after that one keep the copy they have.
RedeployStops(o, S) ==
    /\ "redeployStops" \in Faults
    /\ call[o].phase = "work" /\ call[o].kind \notin Toggles
    /\ game' = Written(call[o].write, S)
    /\ call' = [call EXCEPT ![o] = NoCall]
    /\ behind' = behind \cup {f \in Files \ S : call[o].write[f] # NoMod}
    /\ UNCHANGED <<order, pins>>

Next ==
    \E o \in Ops :
        \/ \E new \in SetToSeqs(ToSet(order)) :
              \/ OrderSet(o, new)
              \/ \E f \in Files, m \in Mods \cup {NoMod} :
                    ConflictApply(o, new, [pins EXCEPT ![f] = m])
        \/ \E block \in Blocks, position \in 0 .. Len(order) : OrderPlace(o, block, position)
        \/ OrderReapply(o)
        \/ Commit(o)
        \/ \E m \in Mods : Enable(o, m) \/ Disable(o, m)
        \/ \E wanted \in SUBSET Mods : DisableMany(o, wanted)
        \/ Record(o) \/ ReassertPins(o)
        \/ Work(o)
        \/ \E S \in SUBSET Files : RedeployStops(o, S)

Spec == Init /\ [][Next]_vars

----------------------------------------------------------------------------
(* Properties *)

Restful == \A o \in Ops : call[o].phase = "idle"

\* Between commands, every file in the game folder is its winner's copy: the
\* pinned mod's while it is active, else the last active provider's, else the
\* game's own.  A cut redeploy, or a bulk disable above a pin, can leave behind the
\* files it did not write, no others, and until the next reapply only.
DiskFollowsOrder ==
    Restful => \A f \in Files \ behind : game[f] = WinnerOf(order, pins, f)

\* Whatever redeploys were cut short, a file with one active provider or none is
\* never wrong: only contested files can be, which is why reapplying repairs all.
UncontestedRight ==
    Restful => \A f \in Files \ Contested(order) : game[f] = WinnerOf(order, pins, f)

\* A reapply that runs to its end leaves every file its winner's copy, whatever
\* was left behind before it.
ReapplyRepairs ==
    [][\A o \in Ops :
          /\ call[o].kind = "reapply" /\ call[o].phase = "work"
          /\ game' = Written(call[o].write, Files) /\ call'[o].phase = "idle"
          => \A f \in Files : game'[f] = WinnerOf(order, pins, f)]_vars

\* What mod_order_preview and conflict_plan announce is what applying changes:
\* each announced file changes hands in the game folder, and no other file does,
\* the files left behind and those a cut keeps from being written apart.
PreviewIsWhatChanges ==
    [][\A o \in Ops :
          call[o].kind \in {"set", "place", "apply"} /\ call[o].phase = "work"
          => \A f \in Files \ behind' : game'[f] # game[f] <=> call[o].write[f] # NoMod]_vars

\* Changing the order or the pins never changes which mods are active: none is
\* dropped from the list while its files stay in the game, none comes back into it
\* after its files left.
ReorderKeepsActive ==
    [][\A o \in Ops : call[o].phase = "commit" /\ call'[o].phase = "work"
                      => ToSet(order') = ToSet(order)]_vars

FirstPlace(s, m) == Min({i \in DOMAIN s : s[i] = m})

\* A placed block lies together at its place and in its own order, the rest keeps
\* its order, and no mod is added, dropped or doubled.
PlacedTogether ==
    \A block \in Blocks, position \in 0 .. Len(order) + 1 :
        LET new    == PlaceBlock(order, block, position)
            moved  == ToSet(block) \cap ToSet(order)
            rest   == Without(order, moved)
            before == CHOOSE k \in {position, Len(rest)} : k <= position /\ k <= Len(rest)
            Before(s, x, y) == FirstPlace(s, x) < FirstPlace(s, y)
        IN  /\ IsPermutation(order, new)
            /\ \A x, y \in ToSet(rest) : Before(order, x, y) <=> Before(new, x, y)
            /\ \A x, y \in moved : Before(block, x, y) <=> Before(new, x, y)
            /\ \A x \in ToSet(order) :
                  x \in moved <=> FirstPlace(new, x) \in (before + 1) .. (before + Len(order) - Len(rest))

=============================================================================
