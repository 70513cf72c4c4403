---------------------------- MODULE OrderProcess ----------------------------
(***************************************************************************)
(* What both sagas are for, seen by the customer: an order is suspended     *)
(* until its stock is reserved and it is paid for, or one of the two is     *)
(* refused.  Each is asked once, payment after stock, and the outcome is    *)
(* final, until a process dies: from then on an order may be served again   *)
(* and its outcome overwritten, but never by one nobody answered for.       *)
(***************************************************************************)
CONSTANT Orders

VARIABLES status,       \* [Orders -> OrderStatus]
          reservation,  \* [Orders -> SUBSET {"reserved", "notReserved"}]
          payment,      \* [Orders -> SUBSET BOOLEAN]
          disrupted     \* whether a process has died

vars == <<status, reservation, payment, disrupted>>

Init ==
    /\ status = [o \in Orders |-> "none"]
    /\ reservation = [o \in Orders |-> {}]
    /\ payment = [o \in Orders |-> {}]
    /\ disrupted = FALSE

Place(o) ==
    /\ status[o] = "none"
    /\ status' = [status EXCEPT ![o] = "Suspend"]
    /\ UNCHANGED <<reservation, payment>>

AnswerStock(o, answer) ==
    /\ status[o] # "none"
    /\ disrupted' \/ (status[o] = "Suspend" /\ reservation[o] = {})
    /\ reservation' = [reservation EXCEPT ![o] = @ \union {answer}]
    /\ UNCHANGED <<status, payment>>

AnswerPayment(o, paid) ==
    /\ "reserved" \in reservation[o]
    /\ disrupted' \/ (status[o] = "Suspend" /\ payment[o] = {})
    /\ payment' = [payment EXCEPT ![o] = @ \union {paid}]
    /\ UNCHANGED <<status, reservation>>

Complete(o) ==
    /\ TRUE \in payment[o]
    /\ disrupted' \/ status[o] = "Suspend"
    /\ status' = [status EXCEPT ![o] = "Completed"]
    /\ UNCHANGED <<reservation, payment>>

Fail(o) ==
    /\ "notReserved" \in reservation[o] \/ FALSE \in payment[o]
    /\ disrupted' \/ status[o] = "Suspend"
    /\ status' = [status EXCEPT ![o] = "Failed"]
    /\ UNCHANGED <<reservation, payment>>

Serve(o) ==
    \/ Place(o)
    \/ \E answer \in {"reserved", "notReserved"} : AnswerStock(o, answer)
    \/ \E paid \in BOOLEAN : AnswerPayment(o, paid)
    \/ Complete(o)
    \/ Fail(o)

\* A process may die in any step, or in a step that does nothing else.
Next ==
    /\ disrupted => disrupted'
    /\ disrupted' \in BOOLEAN
    /\ \/ \E o \in Orders : Serve(o)
       \/ UNCHANGED <<status, reservation, payment>>

Spec == Init /\ [][Next]_vars

=============================================================================
