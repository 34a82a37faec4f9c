------------------------------ MODULE Ordering ------------------------------
(***************************************************************************)
(* Placing and cancelling orders against monthly budgets, while finance    *)
(* edits the budgets: createPurchaseOrder and cancelPurchaseOrder of       *)
(* src/lib/services/p2p/purchase-orders.ts, src/domain/budget.ts and       *)
(* src/lib/services/master-data/budgets.ts.                                *)
(*                                                                         *)
(* Calls are transactions at READ COMMITTED, cut where another call can be *)
(* seen.  An order locks its requisition, reads the budget row, locks it,  *)
(* reads the reservations and commits.  Budget edits read first and write  *)
(* unconditionally later; a write waits for the holder of the row.         *)
(* A call that is refused by a guard ends like one that is aborted.        *)
(***************************************************************************)
EXTENDS Integers, FiniteSets, Totals

CONSTANTS Req, Cost, Center, CurrencyOf, \* requisitions, their totals, cost
                                         \* centers and currencies
          PO,               \* orders that may be placed: bounds a behaviour
          CostCenter, Month, Currency,
          Amounts,          \* amounts finance may give a budget
          User, Role, Tx,
          NoReq, NoBudget

Budget == CostCenter \X Month

ASSUME OrderingAssumption ==
  /\ IsFiniteSet(PO)
  /\ Cost \in [Req -> Nat] /\ Center \in [Req -> CostCenter]
  /\ CurrencyOf \in [Req -> Currency]
  /\ Month \subseteq Nat /\ Month # {} /\ Amounts \subseteq Nat /\ "EUR" \in Currency
  /\ Role \in [User -> {"REQUESTER", "MANAGER", "FINANCE", "ADMIN"}]
  /\ NoReq \notin Req /\ NoBudget \notin Budget

VARIABLES
  month,       \* the current month
  reqStatus,   \* requisitions.status, from its submission on
  order,       \* purchase_orders: the requisition and the status of each order
  reservation, \* budget_reservations: what an order holds, and of which budget
  budget,      \* budgets: [state, amount, currency]
  peak,        \* history: the largest amount a budget was ever given
  events,      \* PO events in the outbox: <<type, order>>
  txn          \* the service calls in progress

vars == <<month, reqStatus, order, reservation, budget, peak, events, txn>>

NoReservation == [budget |-> NoBudget, amount |-> 0]
Idle == [phase |-> "idle"]

Txns ==
  {Idle}
    \cup [phase: {"req_held"}, req: Req]
    \cup [phase: {"budget_read"}, req: Req, budget: Budget, amount: Nat, currency: Currency]
    \cup [phase: {"order_held"}, req: Req, budget: Budget, amount: Nat]
    \cup [phase: {"cancel_held"}, po: PO]
    \cup [phase: {"create_read"}, budget: Budget, restore: BOOLEAN]
    \cup [phase: {"edit_read", "archive_read"}, budget: Budget]

TypeOK ==
  /\ month \in Month
  /\ reqStatus \in [Req -> {"SUBMITTED", "APPROVED", "REJECTED", "ORDERED"}]
  /\ order \in [PO -> [req: Req \cup {NoReq}, status: {"NONE", "OPEN", "CANCELLED"}]]
  /\ reservation \in [PO -> [budget: Budget \cup {NoBudget}, amount: Nat]]
  /\ budget \in [Budget -> [state: {"none", "active", "archived"}, amount: Nat,
                            currency: Currency]]
  /\ peak \in [Budget -> Nat]
  /\ events \in SUBSET ({"PO_CREATED", "PO_CANCELLED"} \X PO)
  /\ txn \in [Tx -> Txns]

Init ==
  /\ month \in {m \in Month : \A n \in Month : m <= n}
  /\ reqStatus = [r \in Req |-> "SUBMITTED"]
  /\ order = [p \in PO |-> [req |-> NoReq, status |-> "NONE"]]
  /\ reservation = [p \in PO |-> NoReservation]
  /\ budget = [b \in Budget |-> [state |-> "none", amount |-> 0, currency |-> "EUR"]]
  /\ peak = [b \in Budget |-> 0]
  /\ events = {}
  /\ txn = [t \in Tx |-> Idle]

-----------------------------------------------------------------------------
(* Row locks and sums. *)

ReqFree(r) ==
  \A t \in Tx : txn[t].phase \in {"req_held", "budget_read", "order_held"} => txn[t].req # r

(* Mutant of BudgetFree: the row is read without a lock. *)
BudgetLockIgnored(b) == TRUE

BudgetFree(b) == \A t \in Tx : txn[t].phase = "order_held" => txn[t].budget # b

OrderFree(p) == \A t \in Tx : txn[t].phase = "cancel_held" => txn[t].po # p

ReservedOn(b) == {p \in PO : reservation[p].budget = b}
Held == [p \in PO |-> reservation[p].amount]

(* What the orders hold of a budget. *)
Reserved(b) == Total(ReservedOn(b), Held)

(* purchase_order_requisition_uq: the orders of r that are not cancelled. *)
OpenOrder(r) == {p \in PO : order[p].req = r /\ order[p].status = "OPEN"}

Begin(t, state) == txn[t] = Idle /\ txn' = [txn EXCEPT ![t] = state]
Proceed(t, state) == txn' = [txn EXCEPT ![t] = state]
End(t) == txn' = [txn EXCEPT ![t] = Idle]

-----------------------------------------------------------------------------
(* createPurchaseOrder *)

(* lockApprovedRequisition *)
OrderLockRequisition(t, u, r) ==
  /\ Role[u] \in {"MANAGER", "FINANCE", "ADMIN"}
  /\ ReqFree(r)
  /\ reqStatus[r] = "APPROVED"
  /\ Begin(t, [phase |-> "req_held", req |-> r])
  /\ UNCHANGED <<month, reqStatus, order, reservation, budget, peak, events>>

(* loadBudgetStateWithin reads this month's budget row, without a lock.    *)
OrderReadBudget(t) ==
  /\ txn[t].phase = "req_held"
  /\ LET r == txn[t].req
         b == <<Center[r], month>> IN
     /\ budget[b].state = "active"
     /\ Proceed(t, [phase |-> "budget_read", req |-> r, budget |-> b,
                    amount |-> budget[b].amount, currency |-> budget[b].currency])
  /\ UNCHANGED <<month, reqStatus, order, reservation, budget, peak, events>>

(* Mutant of Guard: the amount asked for is compared with the whole budget. *)
GuardWhole(amount, reserved, cost) == cost <= amount

(* guard: Money refuses to compare amounts of two currencies. *)
Guard(amount, reserved, cost) == cost <= amount - reserved

(* The row is locked by its id, whatever became of it; the reservations    *)
(* are read under the lock, the amount is the one read before.             *)
OrderLockBudget(t) ==
  /\ txn[t].phase = "budget_read"
  /\ LET r == txn[t].req
         b == txn[t].budget IN
     /\ BudgetFree(b)
     /\ txn[t].currency = CurrencyOf[r]
     /\ Guard(txn[t].amount, Reserved(b), Cost[r])
     /\ Proceed(t, [phase |-> "order_held", req |-> r, budget |-> b,
                    amount |-> txn[t].amount])
  /\ UNCHANGED <<month, reqStatus, order, reservation, budget, peak, events>>

(* persistPurchaseOrder and emitPoCreated: the order, its reservation, the *)
(* new status and the event become visible together.                       *)
OrderCommit(t) ==
  /\ txn[t].phase = "order_held"
  /\ LET r == txn[t].req IN
     /\ OpenOrder(r) = {}
     /\ \E p \in PO :
          /\ order[p].status = "NONE"
          /\ order' = [order EXCEPT ![p] = [req |-> r, status |-> "OPEN"]]
          /\ reservation' = [reservation EXCEPT ![p] =
                               [budget |-> txn[t].budget, amount |-> Cost[r]]]
          /\ events' = events \cup {<<"PO_CREATED", p>>}
     /\ reqStatus' = [reqStatus EXCEPT ![r] = "ORDERED"]
  /\ End(t)
  /\ UNCHANGED <<month, budget, peak>>

-----------------------------------------------------------------------------
(* cancelPurchaseOrder (that the order has neither receipts nor invoices   *)
(* is module Fulfilment's business: an order that has some just stays).    *)

CancelLock(t, p) ==
  /\ OrderFree(p)
  /\ order[p].status = "OPEN"
  /\ Begin(t, [phase |-> "cancel_held", po |-> p])
  /\ UNCHANGED <<month, reqStatus, order, reservation, budget, peak, events>>

(* Mutant of Release: nothing is released. *)
ReleaseNothing(p) == reservation[p]

Release(p) == NoReservation

AfterCancel(r) == "APPROVED"

(* The requisition's row is written as well, so its holder is waited for.  *)
CancelCommit(t) ==
  /\ txn[t].phase = "cancel_held"
  /\ LET p == txn[t].po
         r == order[p].req IN
     /\ ReqFree(r)
     /\ order' = [order EXCEPT ![p].status = "CANCELLED"]
     /\ reqStatus' = [reqStatus EXCEPT ![r] = AfterCancel(r)]
     /\ reservation' = [reservation EXCEPT ![p] = Release(p)]
  /\ End(t)
  /\ UNCHANGED <<month, budget, peak, events>>

-----------------------------------------------------------------------------
(* Budget edits by finance. *)

(* createBudget looks for a row of the same cost center and month; an      *)
(* active one is refused, an archived one will be restored.                *)
CreateBudgetRead(t, b) ==
  /\ budget[b].state # "active"
  /\ Begin(t, [phase |-> "create_read", budget |-> b,
               restore |-> budget[b].state = "archived"])
  /\ UNCHANGED <<month, reqStatus, order, reservation, budget, peak, events>>

Higher(a, b) == IF a > b THEN a ELSE b

(* Writes the row of b, once nobody holds it, and ends the call. *)
WriteBudget(t, b, row) ==
  /\ BudgetFree(b)
  /\ budget' = [budget EXCEPT ![b] = row]
  /\ peak' = [peak EXCEPT ![b] = Higher(@, row.amount)]
  /\ End(t)
  /\ UNCHANGED <<month, reqStatus, order, reservation, events>>

(* A new row must be new (budget_cc_month_uq); a restored one is given the *)
(* new amount and currency whatever became of it since it was read.        *)
CreateBudgetWrite(t) ==
  /\ txn[t].phase = "create_read"
  /\ txn[t].restore \/ budget[txn[t].budget].state = "none"
  /\ \E a \in Amounts, c \in Currency :
       WriteBudget(t, txn[t].budget, [state |-> "active", amount |-> a, currency |-> c])

(* updateBudget and archiveBudget refuse an archived row in a read that    *)
(* precedes their transaction.                                             *)
ExistingBudgetRead(t, b, phase) ==
  /\ budget[b].state = "active"
  /\ Begin(t, [phase |-> phase, budget |-> b])
  /\ UNCHANGED <<month, reqStatus, order, reservation, budget, peak, events>>

UpdateBudgetRead(t, b) == ExistingBudgetRead(t, b, "edit_read")
ArchiveBudgetRead(t, b) == ExistingBudgetRead(t, b, "archive_read")

UpdateBudgetWrite(t) ==
  /\ txn[t].phase = "edit_read"
  /\ \E a \in Amounts :
       WriteBudget(t, txn[t].budget, [budget[txn[t].budget] EXCEPT !.amount = a])

ArchiveBudgetWrite(t) ==
  /\ txn[t].phase = "archive_read"
  /\ WriteBudget(t, txn[t].budget, [budget[txn[t].budget] EXCEPT !.state = "archived"])

-----------------------------------------------------------------------------
(* What decideApproval may do to a requisition, in any order with the      *)
(* rest: a decision on one of its steps may come in late (ApprovalFlow).   *)
Decide(r, outcome) ==
  /\ ReqFree(r)
  /\ reqStatus' = [reqStatus EXCEPT ![r] = outcome]
  /\ UNCHANGED <<month, order, reservation, budget, peak, events, txn>>

(* A call is refused, or rolled back because its process or connection died. *)
Abort(t) ==
  /\ txn[t] # Idle
  /\ End(t)
  /\ UNCHANGED <<month, reqStatus, order, reservation, budget, peak, events>>

NextMonth ==
  /\ month' \in {m \in Month : m = month + 1}
  /\ UNCHANGED <<reqStatus, order, reservation, budget, peak, events, txn>>

Next ==
  \/ \E t \in Tx :
       \/ \E u \in User, r \in Req : OrderLockRequisition(t, u, r)
       \/ OrderReadBudget(t)
       \/ OrderLockBudget(t)
       \/ OrderCommit(t)
       \/ \E p \in PO : CancelLock(t, p)
       \/ CancelCommit(t)
       \/ \E b \in Budget : CreateBudgetRead(t, b) \/ UpdateBudgetRead(t, b) \/ ArchiveBudgetRead(t, b)
       \/ CreateBudgetWrite(t)
       \/ UpdateBudgetWrite(t)
       \/ ArchiveBudgetWrite(t)
       \/ Abort(t)
  \/ \E r \in Req, outcome \in {"APPROVED", "REJECTED"} : Decide(r, outcome)
  \/ NextMonth

Spec == Init /\ [][Next]_vars

-----------------------------------------------------------------------------
(* Properties *)

(* Two buyers never spend the same money: however orders, cancellations,   *)
(* month ends and budget edits interleave, all reservations against a      *)
(* budget together stay within the largest amount it was ever given        *)
(* (purchase-orders.ts:161-179; README.md:42).                             *)
NoDoubleSpend == \A b \in Budget : Reserved(b) <= peak[b]

(* From the moment an order holds its budget row until it commits, there   *)
(* is room for it beside all other reservations: nothing it checked can    *)
(* be taken away meanwhile, and cancellations only make room               *)
(* (purchase-orders.ts:168-173).                                           *)
HolderHasRoom ==
  \A t \in Tx, b \in Budget :
    txn[t].phase = "order_held" /\ txn[t].budget = b =>
      Reserved(b) + Cost[txn[t].req] <= txn[t].amount

(* An order that is open holds its cost of a budget of its cost center,    *)
(* whatever became of the budget since, and an order that is cancelled     *)
(* holds nothing: no money stays reserved for nobody                       *)
(* (purchase-orders.ts:60, 220-222).                                       *)
ReservedWhileOpen ==
  \A p \in PO :
    IF order[p].status = "OPEN"
    THEN \E m \in Month : reservation[p] =
           [budget |-> <<Center[order[p].req], m>>, amount |-> Cost[order[p].req]]
    ELSE reservation[p] = NoReservation
=============================================================================
