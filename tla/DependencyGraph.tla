--------------------------- MODULE DependencyGraph ----------------------------
(****************************************************************************)
(* The dependency lists of the library, and the chain an enable works out of *)
(* them (src/src-tauri/src/commands/mods.rs).  Lists come from the user, from *)
(* packs and from other people's repositories: they may name mods that are   *)
(* not in the library, mods of another profile, and each other in a circle.  *)
(****************************************************************************)
EXTENDS Dependencies, Lists

CONSTANTS Ids,   \* the mods the library may hold
          Given  \* the dependency lists a mod may be given

ASSUME Given_Assumption == Given \subseteq Seq({Same(m) : m \in Ids} \cup {Other(m) : m \in Ids})

VARIABLES library, deps

vars == <<library, deps>>

TypeOK ==
    /\ library \subseteq Ids
    /\ deps \in [Ids -> Seq({Same(m) : m \in Ids} \cup {Other(m) : m \in Ids})]

Init == library = {} /\ deps = [m \in Ids |-> <<>>]

ModCreate(m, list) ==
    /\ m \notin library
    /\ library' = library \cup {m}
    /\ deps' = [deps EXCEPT ![m] = list]

UpdateModMeta(m, list) ==
    /\ m \in library
    /\ deps' = [deps EXCEPT ![m] = list]
    /\ UNCHANGED library

\* remove_mod: the mod leaves every list that names it in its own profile.
RemoveMod(m) ==
    /\ m \in library
    /\ library' = library \ {m}
    /\ deps' = [n \in Ids |-> IF n = m THEN <<>> ELSE Without(deps[n], {Same(m)})]

\* enable_mod_in: the mod drops the dependencies that its chain could not find.
DropMissing(m) ==
    /\ m \in library
    /\ LET walk == Resolve(deps, library, m)
       IN  /\ ~walk.cycle /\ walk.missing # <<>>
           /\ deps' = [deps EXCEPT ![m] = Without(@, ToSet(walk.missing))]
    /\ UNCHANGED library

Next ==
    \E m \in Ids :
        \/ \E list \in Given : ModCreate(m, list) \/ UpdateModMeta(m, list)
        \/ RemoveMod(m)
        \/ DropMissing(m)

Spec == Init /\ [][Next]_vars

----------------------------------------------------------------------------
(* Properties *)

\* x needs y, a mod of the library, in its own profile.
Needs(x, y) == x \in library /\ y \in library /\ Contains(deps[x], Same(y))

\* The mods of the library an enable of m has to reach, by the reference: the fewest
\* there can be with m among them and with what each of them needs.
IsClosed(S)    == \A x \in S, y \in library : Needs(x, y) => y \in S
ReachedFrom(m) == {y \in library : \A S \in SUBSET library : m \in S /\ IsClosed(S) => y \in S}

\* The chain of a mod holds the mod first and each mod it needs, directly or not,
\* exactly once, however the dependencies meet again further down.
ChainIsComplete ==
    \A m \in library :
        LET walk == Resolve(deps, library, m)
        IN  ~walk.cycle => /\ Head(walk.resolved) = m
                           /\ ToSet(walk.resolved) = ReachedFrom(m)
                           /\ IsInjective(walk.resolved)

\* A mod that needs itself, directly or through others.
OnCircle(x) == \E y \in library : Needs(x, y) /\ x \in ReachedFrom(y)

\* An enable is refused for a circle when there is one on its way, and only then:
\* a mod met twice without one is no circle.
CycleMeansCycle ==
    \A m \in library :
        Resolve(deps, library, m).cycle <=> \E x \in ReachedFrom(m) : OnCircle(x)

=============================================================================
