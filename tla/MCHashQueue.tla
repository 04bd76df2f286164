------------------------------ MODULE MCHashQueue ------------------------------
(* Instances of HashQueue. *)
EXTENDS HashQueue, TLC

CONSTANTS m1, m2, f1, window, t1, t2, worker

OneMod  == <<m1>>
TwoMods == <<m1, m2>>

Every == WindowCalls \cup TaskCalls

================================================================================
