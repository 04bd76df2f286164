-------------------------- MODULE MCDependencyGraph ---------------------------
(* Three mods; lists of up to two dependencies, one of them cross-profile.   *)
EXTENDS DependencyGraph

CONSTANTS a, b, c

MCIds   == {a, b, c}
MCGiven == BoundedSeq({Same(a), Same(b), Same(c), Other(c)}, 2)

=============================================================================
