--------------------------------- MODULE Lists ---------------------------------
(***************************************************************************)
(* Lists the code thins out in place (`retain`).                           *)
(***************************************************************************)
EXTENDS Naturals, Sequences

\* s without the elements of S, the others in the order they had.
Without(s, S) ==
    LET kept[n \in 0 .. Len(s)] ==
            IF n = 0 THEN <<>>
            ELSE IF s[n] \in S THEN kept[n - 1] ELSE Append(kept[n - 1], s[n])
    IN  kept[Len(s)]

================================================================================
