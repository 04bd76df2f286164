----------------------------- MODULE MCLoadOrder ------------------------------
(* Instances of LoadOrder: three mods that all change f, two of them g. *)
EXTENDS LoadOrder

CONSTANTS a, b, c, f, g

MCMods  == {a, b, c}
MCFiles == {f, g}
MCShips == (a :> {f, g}) @@ (b :> {f}) @@ (c :> {f, g})

\* A move of one mod, a move of two against their names' order, a modpack with a
\* mod twice.
MCBlocks == {<<b>>, <<c, a>>, <<b, c, b>>}

=============================================================================
