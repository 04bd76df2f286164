----------------------------- MODULE MCModDeploy ------------------------------
(* Instances of ModDeploy: three mods over two files, one the game's own.    *)
EXTENDS ModDeployInvariants, Dependencies, TLC

CONSTANTS a, b, c, f, g

MCMods  == {a, b, c}
MCFiles == {f, g}

\* f is the game's, g is added by the mods.  b needs a, which needs c; every pair
\* of mods but (b, c) meets on a file.
MCOriginals == {f}
MCShips == (a :> {f, g}) @@ (b :> {f}) @@ (c :> {g})
DepLists == (a :> <<Same(c)>>) @@ (b :> <<Same(a)>>) @@ (c :> <<>>)
MCDeps  == [m \in MCMods |-> {d.id : d \in ToSet(DepLists[m])}]
MCChain == [m \in MCMods |-> Resolve(DepLists, MCMods, m).resolved]

\* A smaller library, to try every fault with one call: a needs b, both change the
\* game's file.
PairMods  == {a, b}
PairLists == (a :> <<Same(b)>>) @@ (b :> <<>>)
PairDeps  == [m \in PairMods |-> {d.id : d \in ToSet(PairLists[m])}]
PairChain == [m \in PairMods |-> Resolve(PairLists, PairMods, m).resolved]
PairFile  == {f}
PairShipsOne == [m \in PairMods |-> {f}]

\* One mod, for the run with two calls and every fault of a worker.
OneMod   == {b}
OneDeps  == b :> {}
OneChain == b :> <<b>>
OneShips == b :> {f}

\* The profiles: of two mods folders, of one, or two twins and a third.
OneProfile   == 1 :> "mods"
TwoLibraries == (1 :> "mods") @@ (2 :> "other mods")
TwinsAndOne  == (1 :> "mods") @@ (2 :> "mods") @@ (3 :> "other mods")

=============================================================================
