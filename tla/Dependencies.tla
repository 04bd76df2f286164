----------------------------- MODULE Dependencies -----------------------------
(****************************************************************************)
(* resolve_dependencies (src/src-tauri/src/commands/mods.rs): the activation *)
(* chain of a mod, depth first, a mod before what it depends on.             *)
(*                                                                          *)
(* A dependency is Same(m), or Other(m) when it names a mod of another       *)
(* profile ("profile::mod"), which is looked up and never followed.          *)
(*                                                                          *)
(* The code calls itself.  Here a walk that may go on to n more mods is      *)
(* defined from the one that may go on to n - 1: whoever is entered was not  *)
(* in the chain before, so the mods of the library are enough.               *)
(****************************************************************************)
EXTENDS FiniteSets, SequencesExt

Same(m)  == [cross |-> FALSE, id |-> m]
Other(m) == [cross |-> TRUE, id |-> m]

\* What one walk carries: the chain so far, the mods of the current path, the
\* dependencies the library lacks, and whether a cycle was met (it ends the walk).
NewWalk == [resolved |-> <<>>, unresolved |-> {}, missing |-> <<>>, cycle |-> FALSE]

Walks(deps, library) ==
    [resolved : Seq(library), unresolved : SUBSET library,
     missing : Seq([cross : BOOLEAN, id : DOMAIN deps]), cycle : BOOLEAN]

\* Mutant: dependencies of other profiles are followed too.
FollowAny(library, visit, w, d) ==
    CASE w.cycle -> w
      [] ~w.cycle /\ d.id \in w.unresolved -> [w EXCEPT !.cycle = TRUE]
      [] ~w.cycle /\ d.id \notin w.unresolved /\ d.id \notin library
                                           -> [w EXCEPT !.missing = Append(@, d)]
      [] ~w.cycle /\ d.id \notin w.unresolved /\ d.id \in library -> visit[d.id][w]

\* One dependency of the mod that is visited; visit[n] goes into the mod n of the library.
Follow(library, visit, w, d) ==
    CASE w.cycle -> w
      [] ~w.cycle /\ ~d.cross /\ d.id \in w.unresolved -> [w EXCEPT !.cycle = TRUE]
      [] ~w.cycle /\ (d.cross \/ d.id \notin w.unresolved) /\ d.id \notin library
                                                       -> [w EXCEPT !.missing = Append(@, d)]
      [] ~w.cycle /\ d.cross /\ d.id \in library       -> w
      [] ~w.cycle /\ ~d.cross /\ d.id \notin w.unresolved /\ d.id \in library
                                                       -> visit[d.id][w]

\* Its dependencies, in their order.
FollowAll(library, visit, w, ds) ==
    LET after[i \in 0 .. Len(ds)] ==
            IF i = 0 THEN w ELSE Follow(library, visit, after[i - 1], ds[i])
    IN  after[Len(ds)]

Entered(w, m) == [w EXCEPT !.resolved = Append(@, m), !.unresolved = @ \cup {m}]

\* Mutant: a mod stays on the path after the walk left it.
VisitKeeping(deps, library, visit, w, m) ==
    IF w.cycle \/ Contains(w.resolved, m) THEN w
    ELSE FollowAll(library, visit, Entered(w, m), deps[m])

Visit(deps, library, visit, w, m) ==
    IF w.cycle \/ Contains(w.resolved, m) THEN w
    ELSE LET out == FollowAll(library, visit, Entered(w, m), deps[m])
         IN  IF out.cycle THEN out ELSE [out EXCEPT !.unresolved = @ \ {m}]

\* The walk into m, with n mods of the library at most to go on to.
VisitsOf(deps, library) ==
    LET visit[n \in Nat] ==
            [m \in library |-> [w \in Walks(deps, library) |->
                IF n = 0 THEN w ELSE Visit(deps, library, visit[n - 1], w, m)]]
    IN  visit

\* The walk from a mod m of the library.
Resolve(deps, library, m) == VisitsOf(deps, library)[Cardinality(library)][m][NewWalk]

=============================================================================
