------------------------------ MODULE MCDataStore -----------------------------
(* Instances of DataStore: two or three saves at once. *)
EXTENDS DataStore

CONSTANTS s1, s2, s3

OnlyState == [s \in Savers |-> "state"]

\* A command's save beside the HTTP API's.
Mixed == [s \in Savers |-> IF s = s1 THEN "state" ELSE IF s = s2 THEN "api" ELSE "hash"]

===============================================================================
