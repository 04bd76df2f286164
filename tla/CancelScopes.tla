---------------------------- MODULE CancelScopes ------------------------------
(***************************************************************************)
(* The cancel tokens of fs_utils.rs: what tells an operation on the game   *)
(* folder that it was stopped.  A batch has a scope of its own; calls      *)
(* outside any batch share one global flag; a Cancel-all raises the flag   *)
(* and the epoch, which reaches the scopes that began before it.           *)
(*                                                                         *)
(* `tokens' is a record: the flag, the epoch, and for each name what the   *)
(* map CANCEL_SCOPES holds for it.  An entry that is not `known' is absent.*)
(***************************************************************************)
EXTENDS Naturals, FiniteSets

CONSTANTS
    Names,       \* the batches: a scope is named after its batch
    MaxScopes    \* MAX_CANCEL_SCOPES

Absent == [known |-> FALSE, cut |-> FALSE, since |-> 0]

Tokens == [flag : BOOLEAN, epoch : Nat,
           scope : [Names -> [known : BOOLEAN, cut : BOOLEAN, since : Nat]]]

NoTokens == [flag |-> FALSE, epoch |-> 0, scope |-> [n \in Names |-> Absent]]

Known(t) == {n \in Names : t.scope[n].known}

\* Mutant: a Cancel-all from before the scope began reaches it.
OpenedLate(t, held, n) ==
    IF n \in Known(t) THEN t
    ELSE [t EXCEPT !.scope[n] = [known |-> TRUE, cut |-> FALSE, since |-> 0]]

(***************************************************************************)
(* The map with the scope n in it, begun now if it was not there.  A full  *)
(* map first forgets the scopes nobody holds.                              *)
(***************************************************************************)
Opened(t, held, n) ==
    IF n \in Known(t) THEN t
    ELSE LET kept == IF Cardinality(Known(t)) >= MaxScopes
                     THEN Known(t) \cap held ELSE Known(t)
             rest == [k \in Names |-> IF k \in kept THEN t.scope[k] ELSE Absent]
         IN  [t EXCEPT !.scope =
                 [rest EXCEPT ![n] = [known |-> TRUE, cut |-> FALSE, since |-> t.epoch]]]

\* request_scope_cancel: the scope is created cancelled when its batch has not begun.
StopScope(t, held, n) == [Opened(t, held, n) EXCEPT !.scope[n].cut = TRUE]

\* drop_cancel_scope
DropScope(t, n) == [t EXCEPT !.scope[n] = Absent]

\* request_mod_op_cancel, but for the tickets it cancels
StopAll(t) == [t EXCEPT !.flag = TRUE, !.epoch = @ + 1]

\* reset_mod_op_cancel
LowerFlag(t) == [t EXCEPT !.flag = FALSE]

\* is_mod_op_cancelled, inside the scope n; outside any scope it is t.flag.
IsCut(t, n) == t.scope[n].cut \/ t.epoch > t.scope[n].since

===============================================================================
