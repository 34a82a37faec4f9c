---------------------------- MODULE OrderLedger -----------------------------
(***************************************************************************)
(* What receiving and invoicing promise to the budget owner, with neither  *)
(* documents nor concurrent calls: per order line two running totals, what *)
(* may be invoiced and what is invoiced.  Both only grow, the second never *)
(* exceeds the first nor the first the ordered capacity, goods and         *)
(* services come in only while the order is open, an order closes only     *)
(* when everything came in, and it is cancelled only when nothing did.     *)
(***************************************************************************)
EXTENDS Naturals

CONSTANTS PO, Line, PoOf, Cap  \* Cap[l]: the most a line may total

VARIABLES order, entitled, billed

vars == <<order, entitled, billed>>

Of(p) == {l \in Line : PoOf[l] = p}

Init ==
  /\ order = [p \in PO |-> "OPEN"]
  /\ entitled = [l \in Line |-> 0]
  /\ billed = [l \in Line |-> 0]

(* The totals of p's lines grow within a limit, all others stay. *)
Grows(p, was, now, limit) ==
  /\ now \in [Line -> Nat]
  /\ \A l \in Line : IF PoOf[l] = p THEN was[l] <= now[l] /\ now[l] <= limit[l]
                                     ELSE now[l] = was[l]

(* Goods or services of an open order come in. *)
Deliver(p) ==
  /\ order[p] = "OPEN"
  /\ Grows(p, entitled, entitled', Cap)
  /\ \/ order' = order
     \/ /\ order' = [order EXCEPT ![p] = "CLOSED"]
        /\ \A l \in Of(p) : entitled'[l] = Cap[l]
  /\ UNCHANGED billed

(* An invoice on an order is committed. *)
Bill(p) ==
  /\ Grows(p, billed, billed', entitled)
  /\ UNCHANGED <<order, entitled>>

Cancel(p) ==
  /\ order[p] = "OPEN"
  /\ \A l \in Of(p) : entitled[l] = 0 /\ billed[l] = 0
  /\ order' = [order EXCEPT ![p] = "CANCELLED"]
  /\ UNCHANGED <<entitled, billed>>

Next == \E p \in PO : Deliver(p) \/ Bill(p) \/ Cancel(p)

Spec == Init /\ [][Next]_vars
=============================================================================
