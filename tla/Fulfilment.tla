----------------------------- MODULE Fulfilment -----------------------------
(***************************************************************************)
(* Receiving, invoicing, matching and cancelling purchase orders:          *)
(* src/lib/services/p2p/receipts.ts, invoices.ts and cancelPurchaseOrder.  *)
(*                                                                         *)
(* Every service call is one PostgreSQL transaction at READ COMMITTED.     *)
(* Calls run concurrently in several server processes, so a call is cut    *)
(* into the steps between which another call can be seen: what it reads    *)
(* without a lock, what it reads once it holds the purchase-order row      *)
(* (SELECT ... FOR UPDATE), and its commit, which publishes all its writes *)
(* at once and releases the row.  A call may also end without any effect   *)
(* (Abort: a lost connection, a crash of the process, a thrown error).     *)
(*                                                                         *)
(* The contents of a document never change once it is stored, so they are  *)
(* constants: Inv is the set of invoices that may be submitted, Doc[i] the *)
(* contents of invoice i, Delivery the receipts that may be submitted.     *)
(* Both are given per order line (see Summary in ThreeWayMatch).           *)
(***************************************************************************)
EXTENDS ThreeWayMatch

CONSTANTS PO, Line,  \* purchase orders and their lines
          PoOf,      \* the purchase order of a line
          PoLine,    \* a line's [kind, ordered, price]
          Inv, Doc,  \* invoices and their contents
          Delivery,  \* receipts, merged per line (mergeReceiptLines)
          Tx,        \* service calls that may be in progress at a time
          User, Role \* users and their roles

Documents ==
  [po: PO, number: STRING, lines: SUBSET Line, billed: [Line -> Nat],
   clean: BOOLEAN,  \* every line names an order line, at an acceptable price
   safe: BOOLEAN]   \* the total is a safe integer

Deliveries ==
  [po: PO, lines: SUBSET Line, qty: [Line -> Nat], accepted: SUBSET Line]

Roles == {"REQUESTER", "MANAGER", "FINANCE", "ADMIN"}

ASSUME LinesAssumption ==
  /\ PoOf \in [Line -> PO]
  /\ PoLine \in [Line -> [kind: {"GOODS", "SERVICE"}, ordered: Nat \ {0}, price: Nat]]
  /\ \A p \in PO : \E l \in Line : PoOf[l] = p

ASSUME DocumentsAssumption ==
  /\ IsFiniteSet(Inv)
  /\ Doc \in [Inv -> Documents]
  /\ \A i \in Inv : \A l \in Line \ Doc[i].lines : Doc[i].billed[l] = 0
  /\ Delivery \subseteq Deliveries
  /\ \A d \in Delivery : d.lines # {}

ASSUME UsersAssumption == Role \in [User -> Roles]

VARIABLES
  poStatus,   \* purchase_orders.status
  received,   \* per goods line, the sum of receipt_lines.quantity_received
  receipted,  \* the lines that have a receipt line
  status,     \* invoices.status, NONE before the invoice is created
  alerted,    \* invoices for which an INVOICE_EXCEPTION event was stored
  exported,   \* how many INVOICE_APPROVED events were stored: 0, 1 or 2 (more)
  reserved,   \* orders with a row in budget_reservations
  requisition,\* status of the requisition an order was made from
  txn         \* the service calls in progress

vars == <<poStatus, received, receipted, status, alerted, exported, reserved,
          requisition, txn>>

-----------------------------------------------------------------------------
(* State functions. *)

LinesOf(p) == {l \in Line : PoOf[l] = p}
IsService(l) == PoLine[l].kind = "SERVICE"

(* The most that may be invoiced on a line: a quantity, or for a service   *)
(* the ordered amount.                                                     *)
Capacity(l) == IF IsService(l) THEN OrderedAmount(PoLine[l]) ELSE PoLine[l].ordered

(* What may be invoiced so far.  Any receipt accepts a whole service line. *)
Entitled(l) ==
  IF IsService(l) THEN (IF l \in receipted THEN Capacity(l) ELSE 0)
                  ELSE received[l]

Committed(i) == status[i] \in {"MATCHED", "APPROVED"}

BilledOn(l) == [i \in Inv |-> Doc[i].billed[l]]

CommittedOn(p) == {i \in Inv : Doc[i].po = p /\ Committed(i)}

(* What all committed invoices bill on a line. *)
CommittedTotal(l) == Total(CommittedOn(PoOf[l]), BilledOn(l))

(* Mutants of Prior: only approved invoices count; i itself counts, too. *)
PriorApproved(i, l) ==
  Total({j \in CommittedOn(Doc[i].po) \ {i} : status[j] = "APPROVED"}, BilledOn(l))
PriorWithSelf(i, l) == Total(CommittedOn(Doc[i].po), BilledOn(l))

(* What committed invoices other than i bill on a line. *)
Prior(i, l) == Total(CommittedOn(Doc[i].po) \ {i}, BilledOn(l))

(* matchInvoice on what the database holds now. *)
Passes(i) ==
  /\ Doc[i].clean
  /\ Doc[i].lines \subseteq LinesOf(Doc[i].po)
  /\ WithinLimits(Doc[i].lines, Doc[i].billed, [l \in Line |-> Prior(i, l)],
                  [l \in Line |-> Entitled(l)])
  /\ WithinLimits(Doc[i].lines, Doc[i].billed, [l \in Line |-> Prior(i, l)],
                  [l \in Line |-> Capacity(l)])

(* assertReceivable on what the database holds now. *)
Receivable(d) ==
  /\ d.lines \subseteq LinesOf(d.po)
  /\ \A l \in d.lines :
       IF IsService(l) THEN l \in d.accepted
                       ELSE received[l] + d.qty[l] <= PoLine[l].ordered

FullyReceived(p, rcv, rct) ==
  /\ LinesOf(p) # {}
  /\ \A l \in LinesOf(p) :
       IF IsService(l) THEN l \in rct ELSE rcv[l] >= PoLine[l].ordered

(* Mutant of HasDocuments: receipts are not looked for. *)
HasInvoices(p) == \E i \in Inv : Doc[i].po = p /\ status[i] # "NONE"

HasDocuments(p) ==
  \/ LinesOf(p) \cap receipted # {}
  \/ \E i \in Inv : Doc[i].po = p /\ status[i] # "NONE"

-----------------------------------------------------------------------------
(* Service calls and the row lock on their purchase order. *)

Idle == [phase |-> "idle"]

Txns ==
  {Idle}
    \cup [phase: {"match_read"}, inv: Inv]
    \cup [phase: {"match_held"}, inv: Inv, verdict: BOOLEAN]
    \cup [phase: {"receipt_held"}, delivery: Delivery]
    \cup [phase: {"cancel_held"}, po: PO]

(* Call t holds the row of order p. *)
Holds(t, p) ==
  \/ txn[t].phase = "match_held" /\ Doc[txn[t].inv].po = p
  \/ txn[t].phase = "receipt_held" /\ txn[t].delivery.po = p
  \/ txn[t].phase = "cancel_held" /\ txn[t].po = p

(* Mutant of LockFree: the row is not locked. *)
LockIgnored(p) == TRUE

(* A FOR UPDATE lock on the row of p can be taken; the foreign key of a    *)
(* new invoice takes KEY SHARE, which waits for the same holders.          *)
LockFree(p) == \A t \in Tx : ~Holds(t, p)

Begin(t, state) == txn[t] = Idle /\ txn' = [txn EXCEPT ![t] = state]
End(t) == txn' = [txn EXCEPT ![t] = Idle]

Init ==
  /\ poStatus = [p \in PO |-> "OPEN"]
  /\ received = [l \in Line |-> 0]
  /\ receipted = {}
  /\ status = [i \in Inv |-> "NONE"]
  /\ alerted = {}
  /\ exported = [i \in Inv |-> 0]
  /\ reserved = PO
  /\ requisition = [p \in PO |-> "ORDERED"]
  /\ txn = [t \in Tx |-> Idle]

-----------------------------------------------------------------------------
(* addReceipt *)

(* The row is locked, and the status and the cumulative quantities are     *)
(* checked under the lock.                                                 *)
ReceiptLock(t, d) ==
  /\ LockFree(d.po)
  /\ poStatus[d.po] = "OPEN"
  /\ Receivable(d)
  /\ Begin(t, [phase |-> "receipt_held", delivery |-> d])
  /\ UNCHANGED <<poStatus, received, receipted, status, alerted, exported,
                 reserved, requisition>>

ReceivedWith(d, l) ==
  IF l \in d.lines /\ ~IsService(l) THEN received[l] + d.qty[l] ELSE received[l]

(* Mutant of StatusAfter: closeIfFullyReceived looks before d is stored. *)
StatusBefore(d) ==
  IF FullyReceived(d.po, received, receipted) THEN "CLOSED" ELSE poStatus[d.po]

(* closeIfFullyReceived, once d is stored. *)
StatusAfter(d) ==
  IF FullyReceived(d.po, [l \in Line |-> ReceivedWith(d, l)], receipted \cup d.lines)
  THEN "CLOSED" ELSE poStatus[d.po]

(* The receipt is stored and the order closed when it is complete.         *)
ReceiptCommit(t) ==
  /\ txn[t].phase = "receipt_held"
  /\ LET d == txn[t].delivery IN
     /\ received' = [l \in Line |-> ReceivedWith(d, l)]
     /\ receipted' = receipted \cup d.lines
     /\ poStatus' = [poStatus EXCEPT ![d.po] = StatusAfter(d)]
  /\ End(t)
  /\ UNCHANGED <<status, alerted, exported, reserved, requisition>>

(* createInvoice: neither the status of the order nor any quantity is      *)
(* looked at; the number must be new for the supplier.                     *)
CreateInvoice(i) ==
  /\ status[i] = "NONE"
  /\ \A j \in Inv : Doc[j].number = Doc[i].number => status[j] = "NONE"
  /\ Doc[i].lines \subseteq LinesOf(Doc[i].po)
  /\ LockFree(Doc[i].po)
  /\ status' = [status EXCEPT ![i] = "PENDING"]
  /\ UNCHANGED <<poStatus, received, receipted, alerted, exported, reserved,
                 requisition, txn>>

(* matchInvoiceById *)

(* The invoice is read, and an approved one refused, before the row of the *)
(* order is locked.                                                        *)
MatchRead(t, i) ==
  /\ status[i] \notin {"NONE", "APPROVED"}
  /\ Begin(t, [phase |-> "match_read", inv |-> i])
  /\ UNCHANGED <<poStatus, received, receipted, status, alerted, exported,
                 reserved, requisition>>

(* Everything the verdict depends on is read under the lock.               *)
MatchLock(t) ==
  /\ txn[t].phase = "match_read"
  /\ LET i == txn[t].inv IN
     /\ LockFree(Doc[i].po)
     /\ txn' = [txn EXCEPT ![t] =
                  [phase |-> "match_held", inv |-> i, verdict |-> Passes(i)]]
  /\ UNCHANGED <<poStatus, received, receipted, status, alerted, exported,
                 reserved, requisition>>

FinanceUsers == {u \in User : Role[u] = "FINANCE"}

(* The status is overwritten whatever it has become; an exception is       *)
(* announced when there is somebody to announce it to.                     *)
MatchCommit(t) ==
  /\ txn[t].phase = "match_held"
  /\ LET i == txn[t].inv IN
     /\ status' = [status EXCEPT ![i] = IF txn[t].verdict THEN "MATCHED" ELSE "EXCEPTION"]
     /\ alerted' = IF ~txn[t].verdict /\ FinanceUsers # {} THEN alerted \cup {i} ELSE alerted
  /\ End(t)
  /\ UNCHANGED <<poStatus, received, receipted, exported, reserved, requisition>>

(* approveInvoice: the conditional update claims the invoice; the event is *)
(* stored in the same transaction, which an unsafe total rolls back.       *)
ApproveInvoice(u, i) ==
  /\ Role[u] \in {"FINANCE", "ADMIN"}
  /\ status[i] = "MATCHED"
  /\ Doc[i].safe
  /\ status' = [status EXCEPT ![i] = "APPROVED"]
  /\ exported' = [exported EXCEPT ![i] = IF @ = 0 THEN 1 ELSE 2]
  /\ UNCHANGED <<poStatus, received, receipted, alerted, reserved, requisition, txn>>

(* cancelPurchaseOrder *)

CancelLock(t, p) ==
  /\ LockFree(p)
  /\ poStatus[p] = "OPEN"
  /\ ~HasDocuments(p)
  /\ Begin(t, [phase |-> "cancel_held", po |-> p])
  /\ UNCHANGED <<poStatus, received, receipted, status, alerted, exported,
                 reserved, requisition>>

(* The order is cancelled, its requisition may be ordered again and its    *)
(* budget is released, all in one commit.                                  *)
CancelCommit(t) ==
  /\ txn[t].phase = "cancel_held"
  /\ poStatus' = [poStatus EXCEPT ![txn[t].po] = "CANCELLED"]
  /\ requisition' = [requisition EXCEPT ![txn[t].po] = "APPROVED"]
  /\ reserved' = reserved \ {txn[t].po}
  /\ End(t)
  /\ UNCHANGED <<received, receipted, status, alerted, exported>>

(* A call that is rolled back leaves nothing behind and releases its lock. *)
Abort(t) ==
  /\ txn[t] # Idle
  /\ End(t)
  /\ UNCHANGED <<poStatus, received, receipted, status, alerted, exported,
                 reserved, requisition>>

Next ==
  \/ \E t \in Tx : \/ \E d \in Delivery : ReceiptLock(t, d)
                   \/ ReceiptCommit(t)
                   \/ \E i \in Inv : MatchRead(t, i)
                   \/ MatchLock(t)
                   \/ MatchCommit(t)
                   \/ \E p \in PO : CancelLock(t, p)
                   \/ CancelCommit(t)
                   \/ Abort(t)
  \/ \E i \in Inv : CreateInvoice(i)
  \/ \E u \in User, i \in Inv : ApproveInvoice(u, i)

Spec == Init /\ [][Next]_vars

-----------------------------------------------------------------------------
(* Properties *)

(* Every variable stays within its columns' values (schema.ts enums), and  *)
(* a call in progress is in one of the phases above.                       *)
TypeOK ==
  /\ poStatus \in [PO -> {"OPEN", "CLOSED", "CANCELLED"}]
  /\ received \in [Line -> Nat]
  /\ receipted \in SUBSET Line
  /\ status \in [Inv -> {"NONE", "PENDING", "MATCHED", "EXCEPTION", "APPROVED"}]
  /\ alerted \in SUBSET Inv
  /\ exported \in [Inv -> 0 .. 2]
  /\ reserved \in SUBSET PO
  /\ requisition \in [PO -> {"ORDERED", "APPROVED"}]
  /\ txn \in [Tx -> Txns]

(* At no time do the invoices that were matched or approved bill more on   *)
(* an order line than was received or accepted, nor is more received than  *)
(* ordered, however receipts, matches and approvals of several people      *)
(* interleave (invoices.ts:263-270, receipts.ts:85-97).                    *)
NeverOverbilled ==
  \A l \in Line : CommittedTotal(l) <= Entitled(l) /\ Entitled(l) <= Capacity(l)

(* While a call holds the row of an order, what it concluded from its      *)
(* reads stays true until it commits: the verdict of a match, the room for *)
(* a receipt, the absence of receipts and invoices before a cancellation.  *)
(* It is what the FOR UPDATE locks (receipts.ts:85, invoices.ts:263) and   *)
(* the foreign key of invoices buy.                                        *)
ChecksStayTrue ==
  \A t \in Tx :
    /\ txn[t].phase = "match_held" => txn[t].verdict = Passes(txn[t].inv)
    /\ txn[t].phase = "receipt_held" => /\ Receivable(txn[t].delivery)
                                        /\ poStatus[txn[t].delivery.po] = "OPEN"
    /\ txn[t].phase = "cancel_held" => /\ ~HasDocuments(txn[t].po)
                                       /\ poStatus[txn[t].po] = "OPEN"

(* An order is closed exactly when every line of it is fully received or   *)
(* accepted: no completed order stays open to further receipts, and no     *)
(* order is closed early (receipts.ts:57-77).                              *)
ClosedExactlyWhenReceived ==
  \A p \in PO : poStatus[p] = "CLOSED" <=> FullyReceived(p, received, receipted)

(* Budget is released only for orders nothing was spent on: without a      *)
(* reservation there are no receipts, and the committed invoices that can  *)
(* still appear on a cancelled order (createInvoice does not look at its   *)
(* status) bill nothing (purchase-orders.ts:181-224).                      *)
SpendIsReserved ==
  \A l \in Line : PoOf[l] \notin reserved => l \notin receipted /\ CommittedTotal(l) = 0

(* Committed spend is never taken back: a match that is repeated after     *)
(* other receipts, invoices and approvals were recorded still passes       *)
(* (invoices.ts:255-299 may be called again for any invoice that was not   *)
(* approved).                                                              *)
CommittedStays ==
  [][\A i \in Inv : Committed(i) => Committed(i)']_vars

(* The module implements OrderLedger: a line's entitlement is computed     *)
(* from the receipts, its billed total from the committed invoices.        *)
Ledger == INSTANCE OrderLedger WITH
            Cap      <- [l \in Line |-> Capacity(l)],
            order    <- poStatus,
            entitled <- [l \in Line |-> Entitled(l)],
            billed   <- [l \in Line |-> CommittedTotal(l)]

(* Every behaviour of the services is, order line by order line, one the   *)
(* ledger allows: totals only grow and stay in their order.                *)
ImplementsLedger == Ledger!Spec
=============================================================================
