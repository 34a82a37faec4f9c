----------------------------- MODULE MCOrdering -----------------------------
(***************************************************************************)
(* Two requisitions of one cost center that do not fit its budget          *)
(* together, and two orders, so that one can be placed again after a       *)
(* cancellation.                                                           *)
(***************************************************************************)
EXTENDS Ordering, TLC

MCReq == {"r", "s"}
MCCost == "r" :> 1 @@ "s" :> 2
MCCenter == [q \in MCReq |-> "ops"]
MCCurrencyOf == [q \in MCReq |-> "EUR"]
MCRole == "meg" :> "MANAGER" @@ "rex" :> "REQUESTER"

(* Orders and calls differ in nothing but their name. *)
Symmetric == Permutations(Tx) \cup Permutations(PO)
=============================================================================
