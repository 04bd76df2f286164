---------------------------- MODULE DeployPromise ----------------------------
(****************************************************************************)
(* What activating and deactivating mods promises the user of one game      *)
(* folder, whatever is done with the files in between (commands/mods.rs).   *)
(*                                                                          *)
(* Calls come one at a time.  A call changes no file but those of the mods  *)
(* it is given.  The lists change by one mod of the chain after the other,  *)
(* or by all the mods that were to leave, for a profile and its twins alike. *)
(* When the call is over each file is what the lists ask for, whether all of *)
(* it succeeded or only the beginning of its chain.                         *)
(****************************************************************************)
EXTENDS Naturals, Sequences

CONSTANTS Mods, Files, NProfiles, Ships, Originals, Library, Chain, Orig, Nothing,
          Hidden   \* what is known of a file while a call may be at work on it

VARIABLES
    at,     \* each profile's activation list: the place of each mod, 0 for none
    cur,    \* the active profile
    job,    \* the call under way
    shown   \* whose copy of each file is in the game folder

vars == <<at, cur, job, shown>>

Profiles   == 1 .. NProfiles
FilesOf(S) == UNION {Ships[m] : m \in S}
Active(p)  == {m \in Mods : at[p][m] > 0}
OnFolder   == UNION {Active(p) : p \in Profiles}
Twins(p)   == {q \in Profiles : Library[q] = Library[p]}
InChain(m) == {Chain[m][i] : i \in DOMAIN Chain[m]}

\* profs are the profiles whose lists the call changes, left is what it has still to do.
NoJob == [kind |-> "none", goal |-> Nothing, profs |-> {}, left |-> {}, files |-> {}]

Init ==
    /\ at = [p \in Profiles |-> [m \in Mods |-> 0]]
    /\ cur = 1
    /\ job = NoJob
    /\ shown = [f \in Files |-> IF f \in Originals THEN Orig ELSE Nothing]

----------------------------------------------------------------------------
(* A call is made *)

Take(kind, goal, profs, left, files) ==
    /\ job = NoJob
    /\ job' = [kind |-> kind, goal |-> goal, profs |-> profs, left |-> left, files |-> files]
    /\ shown' = [f \in Files |-> IF f \in files THEN Hidden ELSE shown[f]]
    /\ UNCHANGED <<at, cur>>

AskEnable(m) ==
    /\ InChain(m) \ Active(cur) # {}
    /\ Take("add", m, Twins(cur), InChain(m) \ Active(cur), FilesOf(InChain(m)))

AskDisable(m) ==
    /\ m \in Active(cur)
    /\ Take("remove", Nothing, Twins(cur), {m}, FilesOf({m}))

AskDisableAll(G, W) ==
    LET S == {m \in W : \E p \in G : m \in Active(p)}
    IN  S # {} /\ Take("remove", Nothing, G, S, FilesOf(S))

----------------------------------------------------------------------------
(* It changes the lists *)

SameOrder(old, new, S) == \A n, k \in S : new[n] < new[k] <=> old[n] < old[k]

\* new is the list old with m at its end.
IsAdded(old, new, m) ==
    LET had == {n \in Mods : old[n] > 0}
    IN  /\ {n \in Mods : new[n] > 0} = had \cup {m}
        /\ SameOrder(old, new, had)
        /\ \A n \in had : new[n] < new[m]

\* new is the list old without the mods S.
IsThinned(old, new, S) ==
    LET kept == {n \in Mods : old[n] > 0} \ S
    IN  {n \in Mods : new[n] > 0} = kept /\ SameOrder(old, new, kept)

\* The first mod of the chain that is left, and no profile has it already.
Add(m) ==
    /\ job.kind = "add" /\ m \in job.left /\ m \notin OnFolder
    /\ \E i \in DOMAIN Chain[job.goal] :
          /\ Chain[job.goal][i] = m
          /\ \A j \in 1 .. i - 1 : Chain[job.goal][j] \notin job.left
    /\ \A p \in Profiles : IF p \in job.profs THEN IsAdded(at[p], at'[p], m)
                                              ELSE at'[p] = at[p]
    /\ job' = [job EXCEPT !.left = @ \ {m}]
    /\ UNCHANGED <<cur, shown>>

Remove ==
    /\ job.kind = "remove" /\ job.left # {}
    /\ \A p \in Profiles : IF p \in job.profs THEN IsThinned(at[p], at'[p], job.left)
                                              ELSE at'[p] = at[p]
    /\ job' = [job EXCEPT !.left = {}]
    /\ UNCHANGED <<cur, shown>>

\* The rest of a chain is refused, or a copy failed and was taken back.
GiveUp ==
    /\ job.kind = "add"
    /\ job' = [job EXCEPT !.left = {}]
    /\ UNCHANGED <<at, cur, shown>>

----------------------------------------------------------------------------
(* It is over *)

\* The lists ask for the copy x of f: the game's own when no active mod ships it, else
\* one of theirs, and the last of them in a profile that has them all.
AskedFor(f, x) ==
    LET S == {m \in OnFolder : f \in Ships[m]}
    IN  /\ S = {} => x = IF f \in Originals THEN Orig ELSE Nothing
        /\ S # {} => /\ x \in S
                     /\ \A p \in Profiles : S \subseteq Active(p)
                                               => \A n \in S : at[p][n] <= at[p][x]

End ==
    /\ job # NoJob /\ job.left = {}
    /\ job' = NoJob
    /\ \A f \in Files : IF f \in job.files THEN AskedFor(f, shown'[f])
                                           ELSE shown'[f] = shown[f]
    /\ UNCHANGED <<at, cur>>

Switch(p) ==
    /\ job = NoJob
    /\ cur' = p
    /\ UNCHANGED <<at, job, shown>>

Next ==
    \/ \E m \in Mods : AskEnable(m) \/ AskDisable(m) \/ Add(m)
    \/ \E G \in SUBSET Profiles, W \in SUBSET Mods : AskDisableAll(G, W)
    \/ Remove \/ GiveUp \/ End
    \/ \E p \in Profiles : Switch(p)

Spec == Init /\ [][Next]_vars

=============================================================================
