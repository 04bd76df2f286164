------------------------------- MODULE MCGovernor ------------------------------
(* An instance of Governor: an install that installs nested, one of async code, and *)
(* an operation that hashes on another thread. *)
EXTENDS Governor, TLC

CONSTANTS i, n, h, a

MCKindOf   == (i :> "install") @@ (n :> "install") @@ (h :> "hash") @@ (a :> "install")
MCThreadOf == (i :> 1) @@ (n :> 1) @@ (h :> 2) @@ (a :> NoThread)
MCInside   == (i :> NoOp) @@ (n :> i) @@ (h :> NoOp) @@ (a :> NoOp)

================================================================================
