------------------------- MODULE TransactionLedger -------------------------
(***************************************************************************)
(* What the coordinator's table promises to a reader who sees only rows and *)
(* effects: a transaction is committed only when every service has applied  *)
(* it, a committed transaction stays committed and is never undone, and     *)
(* nothing is undone that was not applied.  It does not promise that an     *)
(* aborted transaction has been undone everywhere: the code does not.       *)
(***************************************************************************)
CONSTANTS Transactions, Nodes

VARIABLES outcome,  \* [Transactions -> Outcomes]
          applied,  \* pairs <<t, n>>: service n has committed t
          undone    \* pairs <<t, n>>: service n has rolled t back

vars == <<outcome, applied, undone>>

Outcomes == {"none", "open", "committed", "aborted"}

Init ==
    /\ outcome = [t \in Transactions |-> "none"]
    /\ applied = {}
    /\ undone = {}

Begin(t) ==
    /\ outcome[t] = "none"
    /\ outcome' = [outcome EXCEPT ![t] = "open"]
    /\ UNCHANGED <<applied, undone>>

\* A service may apply late, after the transaction was aborted.
Apply(t, n) ==
    /\ outcome[t] # "none"
    /\ applied' = applied \union {<<t, n>>}
    /\ UNCHANGED <<outcome, undone>>

Commit(t) ==
    /\ outcome[t] = "open"
    /\ \A n \in Nodes : <<t, n>> \in applied
    /\ outcome' = [outcome EXCEPT ![t] = "committed"]
    /\ UNCHANGED <<applied, undone>>

Abort(t) ==
    /\ outcome[t] = "open"
    /\ outcome' = [outcome EXCEPT ![t] = "aborted"]
    /\ UNCHANGED <<applied, undone>>

Undo(t, n) ==
    /\ outcome[t] \in {"open", "aborted"}
    /\ <<t, n>> \in applied
    /\ undone' = undone \union {<<t, n>>}
    /\ UNCHANGED <<outcome, applied>>

Next ==
    \E t \in Transactions :
        \/ Begin(t)
        \/ Commit(t)
        \/ Abort(t)
        \/ \E n \in Nodes : Apply(t, n) \/ Undo(t, n)

Spec == Init /\ [][Next]_vars

=============================================================================
