----------------------- MODULE MCEventSourcedProducts -----------------------
(***************************************************************************)
(* An instance of EventSourcedProducts for TLC: one product, an int of two *)
(* bits, which a second increase overflows, and a decimal a second increase *)
(* of the price overflows.                                                  *)
(***************************************************************************)
EXTENDS EventSourcedProducts

CONSTANT p1

OneProduct == {p1}

OneForm == {[count |-> 0, price |-> 1, available |-> TRUE]}

One == {1}

=============================================================================
