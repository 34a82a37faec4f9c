-------------------------- MODULE FulfilmentProofs --------------------------
(***************************************************************************)
(* The committed invoices of an order never bill more than was received    *)
(* or accepted, whatever the documents, the orders and the number of       *)
(* concurrent calls.  The invariant is not inductive by itself: it needs   *)
(* that at most one call holds the row of an order, and that what a call   *)
(* concluded under the lock stays true until it commits.  The second part  *)
(* builds on it: closing, budgets and the abstract ledger.  The third is   *)
(* about the match itself, for an invoice of any length, and about how     *)
(* module InvoiceIntake makes the invoices that are matched.               *)
(***************************************************************************)
EXTENDS Fulfilment, InvoiceIntake, FiniteSetTheorems, TLAPS

-----------------------------------------------------------------------------
(* The laws of sums (Totals) that the invariant rests on. *)

(* The units of a finite set of rows are finitely many. *)
LEMMA UnitsFinite ==
  ASSUME NEW S, IsFiniteSet(S), NEW f, \A x \in S : f[x] \in Nat
  PROVE  IsFiniteSet(Units(S, f))
<1> DEFINE family == {{x} \X (1 .. f[x]) : x \in S}
           g == [x \in S |-> {x} \X (1 .. f[x])]
<1>1. g \in Surjection(S, family)
  BY DEF Surjection
<1>2. IsFiniteSet(family)
  BY <1>1, FS_Surjection
<1>3. ASSUME NEW T \in family PROVE IsFiniteSet(T)
  <2>1. PICK x \in S : T = {x} \X (1 .. f[x])
    OBVIOUS
  <2>2. IsFiniteSet({x})
    BY FS_Singleton
  <2>3. IsFiniteSet(1 .. f[x])
    BY f[x] \in Nat, FS_Interval
  <2> QED BY <2>1, <2>2, <2>3, FS_Product
<1> QED BY <1>2, <1>3, FS_UNION DEF Units

(* A sum over a finite set of rows is a natural number. *)
LEMMA TotalType ==
  ASSUME NEW S, IsFiniteSet(S), NEW f, \A x \in S : f[x] \in Nat
  PROVE  Total(S, f) \in Nat
BY UnitsFinite, FS_CardinalityType DEF Total

(* The empty sum. *)
LEMMA TotalEmpty ==
  ASSUME NEW f
  PROVE  Total({}, f) = 0
BY FS_EmptySet DEF Total, Units

(* Adding a row adds its contribution. *)
LEMMA TotalAdd ==
  ASSUME NEW S, IsFiniteSet(S), NEW x, x \notin S, NEW f,
         \A y \in S \cup {x} : f[y] \in Nat
  PROVE  Total(S \cup {x}, f) = Total(S, f) + f[x]
<1> DEFINE A == Units(S, f)
           B == {x} \X (1 .. f[x])
<1>1. Units(S \cup {x}, f) = A \cup B
  BY DEF Units
<1>2. A \cap B = {}
  BY DEF Units
<1>3. IsFiniteSet(A)
  BY UnitsFinite
<1>4. IsFiniteSet(B) /\ Cardinality(B) = f[x]
  <2>1. IsFiniteSet({x}) /\ Cardinality({x}) = 1
    BY FS_Singleton
  <2>2. IsFiniteSet(1 .. f[x]) /\ Cardinality(1 .. f[x]) = f[x]
    BY f[x] \in Nat, FS_Interval
  <2> QED BY <2>1, <2>2, f[x] \in Nat, FS_Product
<1>5. Cardinality(A \cup B) = Cardinality(A) + Cardinality(B) - Cardinality({})
  BY <1>2, <1>3, <1>4, FS_Union
<1>6. Cardinality({}) = 0 /\ Cardinality(A) \in Nat
  BY <1>3, FS_EmptySet, FS_CardinalityType
<1>7. Total(S \cup {x}, f) = Cardinality(A \cup B) /\ Total(S, f) = Cardinality(A)
  BY <1>1 DEF Total
<1> HIDE DEF A, B
<1> QED BY <1>4, <1>5, <1>6, <1>7, f[x] \in Nat

(* Sums of equal contributions are equal. *)
LEMMA TotalCongruence ==
  ASSUME NEW S, NEW f, NEW g, \A x \in S : f[x] = g[x]
  PROVE  Total(S, f) = Total(S, g)
BY DEF Total, Units

(* A sum over fewer rows is no larger. *)
LEMMA TotalMonotone ==
  ASSUME NEW S, IsFiniteSet(S), NEW T \in SUBSET S, NEW f,
         \A y \in S : f[y] \in Nat
  PROVE  Total(T, f) <= Total(S, f)
<1>1. Units(T, f) \subseteq Units(S, f) /\ IsFiniteSet(Units(S, f))
  BY UnitsFinite DEF Units
<1> QED BY <1>1, FS_Subset DEF Total

-----------------------------------------------------------------------------
(* A purchase-order row has at most one holder: the FOR UPDATE locks of    *)
(* receipts.ts:86, invoices.ts:264 and purchase-orders.ts:200.             *)
LockExclusive ==
  \A t, u \in Tx : \A p \in PO : Holds(t, p) /\ Holds(u, p) => t = u

(* The inductive invariant. *)
IInv ==
  /\ TypeOK
  /\ LockExclusive
  /\ ChecksStayTrue
  /\ NeverOverbilled

(* Nothing that a check about order p reads has changed. *)
SameOrder(p) ==
  /\ poStatus'[p] = poStatus[p]
  /\ \A l \in LinesOf(p) : /\ received'[l] = received[l]
                           /\ l \in receipted' <=> l \in receipted
  /\ \A i \in Inv : Doc[i].po = p => /\ Committed(i)' <=> Committed(i)
                                     /\ status'[i] = "NONE" <=> status[i] = "NONE"

-----------------------------------------------------------------------------
(* Types *)

(* The capacity of a line is a number. *)
LEMMA CapacityType == \A l \in Line : Capacity(l) \in Nat
<1> TAKE l \in Line
<1>1. PoLine[l].ordered \in Nat /\ PoLine[l].price \in Nat
  BY LinesAssumption
<1>2. OrderedAmount(PoLine[l]) \in Nat
  BY <1>1 DEF OrderedAmount
<1> QED BY <1>1, <1>2 DEF Capacity

(* Invoices are finitely many and bill natural numbers. *)
LEMMA BilledType ==
  /\ \A p \in PO : IsFiniteSet(CommittedOn(p))
  /\ \A l \in Line, i \in Inv : BilledOn(l)[i] = Doc[i].billed[l] /\ Doc[i].billed[l] \in Nat
<1>1. ASSUME NEW p \in PO PROVE IsFiniteSet(CommittedOn(p))
  BY FS_Subset, DocumentsAssumption DEF CommittedOn
<1> QED BY <1>1, DocumentsAssumption DEF BilledOn, Documents

(* The initial states are well typed. *)
LEMMA InitTypeOK == Init => TypeOK
BY DEF Init, TypeOK, Txns, Idle

(* Every step keeps every variable in its type. *)
LEMMA NextTypeOK == TypeOK /\ [Next]_vars => TypeOK'
<1> SUFFICES ASSUME TypeOK, [Next]_vars PROVE TypeOK'
  OBVIOUS
<1> USE DEF TypeOK
<1>0. Idle \in Txns
  BY DEF Txns
<1>1. ASSUME NEW t \in Tx, NEW d \in Delivery, ReceiptLock(t, d) PROVE TypeOK'
  BY <1>1 DEF ReceiptLock, Begin, Txns
<1>2. ASSUME NEW t \in Tx, ReceiptCommit(t) PROVE TypeOK'
  <2> DEFINE d == txn[t].delivery
  <2>1. d \in Delivery
    BY <1>2 DEF ReceiptCommit, Txns, Idle
  <2>2. d.lines \in SUBSET Line /\ d.qty \in [Line -> Nat]
    BY <2>1, DocumentsAssumption DEF Deliveries
  <2>3. received' \in [Line -> Nat]
    BY <1>2, <2>2 DEF ReceiptCommit, ReceivedWith
  <2>4. poStatus' \in [PO -> {"OPEN", "CLOSED", "CANCELLED"}]
    BY <1>2 DEF ReceiptCommit, StatusAfter
  <2>5. receipted' \in SUBSET Line
    BY <1>2, <2>2 DEF ReceiptCommit
  <2> QED BY <1>0, <1>2, <2>3, <2>4, <2>5 DEF ReceiptCommit, End
<1>3. ASSUME NEW t \in Tx, NEW i \in Inv, MatchRead(t, i) PROVE TypeOK'
  BY <1>3 DEF MatchRead, Begin, Txns
<1>4. ASSUME NEW t \in Tx, MatchLock(t) PROVE TypeOK'
  <2>1. txn[t].inv \in Inv
    BY <1>4 DEF MatchLock, Txns, Idle
  <2>2. Passes(txn[t].inv) \in BOOLEAN
    BY DEF Passes, WithinLimits
  <2> HIDE DEF TypeOK
  <2>3. txn' \in [Tx -> Txns]
    BY <1>4, <2>1, <2>2 DEF MatchLock, Txns, TypeOK
  <2> QED BY <1>4, <2>3 DEF MatchLock, TypeOK
<1>5. ASSUME NEW t \in Tx, MatchCommit(t) PROVE TypeOK'
  <2>1. txn[t].inv \in Inv
    BY <1>5 DEF MatchCommit, Txns, Idle
  <2> QED BY <1>0, <1>5, <2>1 DEF MatchCommit, End
<1>6. ASSUME NEW t \in Tx, NEW p \in PO, CancelLock(t, p) PROVE TypeOK'
  BY <1>6 DEF CancelLock, Begin, Txns
<1>7. ASSUME NEW t \in Tx, CancelCommit(t) PROVE TypeOK'
  BY <1>0, <1>7 DEF CancelCommit, End
<1>8. ASSUME NEW t \in Tx, Abort(t) PROVE TypeOK'
  BY <1>0, <1>8 DEF Abort, End
<1>9. ASSUME NEW i \in Inv, CreateInvoice(i) PROVE TypeOK'
  BY <1>9 DEF CreateInvoice
<1>10. ASSUME NEW u \in User, NEW i \in Inv, ApproveInvoice(u, i) PROVE TypeOK'
  BY <1>10 DEF ApproveInvoice
<1>11. CASE UNCHANGED vars
  BY <1>11 DEF vars
<1> QED
  BY <1>1, <1>2, <1>3, <1>4, <1>5, <1>6, <1>7, <1>8, <1>9, <1>10, <1>11 DEF Next

(* Type correctness of every reachable state. *)
THEOREM TypeCorrect == Spec => []TypeOK
BY InitTypeOK, NextTypeOK, PTL DEF Spec

-----------------------------------------------------------------------------
(* The lock *)

(* What the record of a call in progress refers to. *)
LEMMA TxnFields ==
  ASSUME TypeOK, NEW t \in Tx
  PROVE  /\ txn[t] \in Txns
         /\ txn[t].phase \in {"match_read", "match_held"} => txn[t].inv \in Inv
         /\ txn[t].phase = "receipt_held" => txn[t].delivery \in Delivery
         /\ txn[t].phase = "cancel_held" => txn[t].po \in PO
BY DEF TypeOK, Txns, Idle

(* A step of one call leaves every other call as it is. *)
Alone(t) == \A u \in Tx \ {t} : txn'[u] = txn[u]

(* A step of a call that ends holds nothing afterwards. *)
LEMMA IdleHoldsNothing ==
  ASSUME NEW t, txn[t] = Idle
  PROVE  \A p : ~Holds(t, p)
BY DEF Holds, Idle

(* Every step keeps the row locks exclusive. *)
LEMMA NextLockExclusive == IInv /\ [Next]_vars => LockExclusive'
<1> SUFFICES ASSUME IInv, [Next]_vars,
                    NEW t \in Tx, NEW u \in Tx, NEW p \in PO,
                    Holds(t, p)', Holds(u, p)'
             PROVE  t = u
  BY DEF LockExclusive
<1> USE DEF IInv
<1>1. \A w \in Tx : txn'[w] = txn[w] => (Holds(w, p)' <=> Holds(w, p))
  BY DEF Holds
<1>2. \A w \in Tx : txn'[w] = Idle => ~Holds(w, p)'
  BY DEF Holds, Idle
<1>3. ASSUME NEW w \in Tx, Alone(w), LockFree(p) \/ txn'[w] = Idle PROVE t = u
  BY <1>1, <1>2, <1>3 DEF Alone, LockFree, LockExclusive
<1>4. ASSUME NEW w \in Tx, Alone(w), ~Holds(w, p)' PROVE t = u
  BY <1>1, <1>4 DEF Alone, LockExclusive
<1>5. CASE txn' = txn
  BY <1>1, <1>5 DEF LockExclusive
<1>6. ASSUME NEW w \in Tx, txn' = [txn EXCEPT ![w] = Idle] PROVE t = u
  <2>1. Alone(w) /\ txn'[w] = Idle
    BY <1>6 DEF Alone, TypeOK
  <2> QED BY <1>3, <2>1
<1>7. ASSUME NEW w \in Tx, NEW d \in Delivery, ReceiptLock(w, d) PROVE t = u
  <2>1. Alone(w) /\ txn'[w] = [phase |-> "receipt_held", delivery |-> d]
    BY <1>7 DEF ReceiptLock, Begin, Alone, TypeOK
  <2>2. CASE d.po = p
    BY <1>3, <1>7, <2>1, <2>2 DEF ReceiptLock
  <2>3. CASE d.po # p
    BY <1>4, <2>1, <2>3 DEF Holds
  <2> QED BY <2>2, <2>3
<1>8. ASSUME NEW w \in Tx, NEW i \in Inv, MatchRead(w, i) PROVE t = u
  <2>1. Alone(w) /\ txn'[w] = [phase |-> "match_read", inv |-> i]
    BY <1>8 DEF MatchRead, Begin, Alone, TypeOK
  <2> QED BY <1>4, <2>1 DEF Holds
<1>9. ASSUME NEW w \in Tx, MatchLock(w) PROVE t = u
  <2> DEFINE i == txn[w].inv
  <2>1. Alone(w) /\ txn'[w] = [phase |-> "match_held", inv |-> i, verdict |-> Passes(i)]
    BY <1>9 DEF MatchLock, Alone, TypeOK
  <2>2. CASE Doc[i].po = p
    BY <1>3, <1>9, <2>1, <2>2 DEF MatchLock
  <2>3. CASE Doc[i].po # p
    BY <1>4, <2>1, <2>3 DEF Holds
  <2> QED BY <2>2, <2>3
<1>10. ASSUME NEW w \in Tx, NEW q \in PO, CancelLock(w, q) PROVE t = u
  <2>1. Alone(w) /\ txn'[w] = [phase |-> "cancel_held", po |-> q]
    BY <1>10 DEF CancelLock, Begin, Alone, TypeOK
  <2>2. CASE q = p
    BY <1>3, <1>10, <2>1, <2>2 DEF CancelLock
  <2>3. CASE q # p
    BY <1>4, <2>1, <2>3 DEF Holds
  <2> QED BY <2>2, <2>3
<1> QED
  BY <1>5, <1>6, <1>7, <1>8, <1>9, <1>10
     DEF Next, vars, ReceiptCommit, MatchCommit, CancelCommit, Abort, End,
         CreateInvoice, ApproveInvoice

-----------------------------------------------------------------------------
(* Checks under the lock *)

(* The verdict on an invoice, spelled out line by line. *)
PassesByLine(i) ==
  /\ Doc[i].clean
  /\ Doc[i].lines \subseteq LinesOf(Doc[i].po)
  /\ \A l \in Doc[i].lines : /\ Prior(i, l) + Doc[i].billed[l] <= Entitled(l)
                             /\ Prior(i, l) + Doc[i].billed[l] <= Capacity(l)

(* The two forms of the verdict agree, now and after a step. *)
LEMMA PassesLineByLine ==
  ASSUME NEW i \in Inv
  PROVE  /\ Passes(i) = PassesByLine(i)
         /\ Passes(i)' = PassesByLine(i)'
<1>1. Passes(i) = PassesByLine(i)
  BY DEF Passes, PassesByLine, WithinLimits, LinesOf
<1>2. Passes(i)' = PassesByLine(i)'
  BY DEF Passes, PassesByLine, WithinLimits, LinesOf
<1> QED BY <1>1, <1>2

(* The checks about an order read nothing but that order. *)
LEMMA ChecksReadOneOrder ==
  ASSUME TypeOK, NEW p \in PO, SameOrder(p)
  PROVE  /\ \A i \in Inv : Doc[i].po = p => Passes(i)' = Passes(i)
         /\ \A d \in Delivery : d.po = p => (Receivable(d)' <=> Receivable(d))
         /\ HasDocuments(p)' <=> HasDocuments(p)
<1>1. CommittedOn(p)' = CommittedOn(p)
  BY DEF CommittedOn, SameOrder
<1>2. ASSUME NEW i \in Inv, Doc[i].po = p PROVE Passes(i)' = Passes(i)
  <2>1. \A l \in Line : Prior(i, l)' = Prior(i, l)
    BY <1>1, <1>2 DEF Prior, BilledOn
  <2>2. \A l \in LinesOf(p) : Entitled(l)' = Entitled(l)
    BY DEF SameOrder, Entitled, LinesOf
  <2>3. PassesByLine(i)' = PassesByLine(i)
    BY <1>2, <2>1, <2>2 DEF PassesByLine, LinesOf, Capacity
  <2> QED BY <2>3, PassesLineByLine
<1>3. ASSUME NEW d \in Delivery, d.po = p PROVE Receivable(d)' <=> Receivable(d)
  BY <1>3 DEF SameOrder, Receivable, LinesOf
<1>4. HasDocuments(p)' <=> HasDocuments(p)
  BY DEF HasDocuments, SameOrder, LinesOf
<1> QED BY <1>2, <1>3, <1>4

(* A call that holds the row of an order sees it untouched by the others.  *)
LEMMA HeldOrderUntouched ==
  ASSUME IInv, [Next]_vars, NEW u \in Tx, NEW p \in PO, Holds(u, p), txn'[u] = txn[u]
  PROVE  SameOrder(p)
<1> USE DEF IInv
<1>1. CASE UNCHANGED <<poStatus, received, receipted, status>>
  BY <1>1 DEF SameOrder, Committed
<1>2. ASSUME NEW t \in Tx, t # u PROVE ~Holds(t, p)
  BY <1>2 DEF LockExclusive
<1>3. ASSUME NEW t \in Tx, txn' = [txn EXCEPT ![t] = Idle] PROVE ~Holds(t, p)
  <2>1. txn'[t] = Idle
    BY <1>3 DEF TypeOK
  <2>2. t # u
    BY <2>1, IdleHoldsNothing
  <2> QED BY <1>2, <2>2
<1>4. ASSUME NEW t \in Tx, ReceiptCommit(t) PROVE SameOrder(p)
  <2> DEFINE d == txn[t].delivery
  <2>1. d.po # p /\ d \in Delivery /\ d.lines \subseteq LinesOf(d.po)
    BY <1>3, <1>4, TxnFields DEF ReceiptCommit, End, Holds, ChecksStayTrue, Receivable
  <2>2. \A l \in LinesOf(p) : l \notin d.lines
    BY <2>1 DEF LinesOf
  <2>3. poStatus'[p] = poStatus[p]
    BY <1>4, <2>1 DEF ReceiptCommit, TypeOK
  <2>4. \A l \in LinesOf(p) : received'[l] = received[l] /\ (l \in receipted' <=> l \in receipted)
    BY <1>4, <2>2 DEF ReceiptCommit, ReceivedWith, LinesOf
  <2> QED BY <1>4, <2>3, <2>4 DEF ReceiptCommit, SameOrder, Committed
<1>5. ASSUME NEW t \in Tx, MatchCommit(t) PROVE SameOrder(p)
  <2>1. Doc[txn[t].inv].po # p
    BY <1>3, <1>5 DEF MatchCommit, End, Holds
  <2> QED BY <1>5, <2>1 DEF MatchCommit, SameOrder, Committed, TypeOK
<1>6. ASSUME NEW t \in Tx, CancelCommit(t) PROVE SameOrder(p)
  <2>1. txn[t].po # p
    BY <1>3, <1>6 DEF CancelCommit, End, Holds
  <2> QED BY <1>6, <2>1 DEF CancelCommit, SameOrder, Committed, TypeOK
<1>7. ASSUME NEW i \in Inv, CreateInvoice(i) PROVE SameOrder(p)
  <2>1. Doc[i].po # p
    BY <1>7 DEF CreateInvoice, LockFree
  <2> QED BY <1>7, <2>1 DEF CreateInvoice, SameOrder, Committed, TypeOK
<1>8. ASSUME NEW w \in User, NEW i \in Inv, ApproveInvoice(w, i) PROVE SameOrder(p)
  BY <1>8 DEF ApproveInvoice, SameOrder, Committed, TypeOK
<1> QED
  BY <1>1, <1>4, <1>5, <1>6, <1>7, <1>8
     DEF Next, vars, ReceiptLock, MatchRead, MatchLock, CancelLock, Abort

(* What call t concluded, as ChecksStayTrue states it. *)
CheckStaysTrue(t) ==
  /\ txn[t].phase = "match_held" => txn[t].verdict = Passes(txn[t].inv)
  /\ txn[t].phase = "receipt_held" => /\ Receivable(txn[t].delivery)
                                      /\ poStatus[txn[t].delivery.po] = "OPEN"
  /\ txn[t].phase = "cancel_held" => /\ ~HasDocuments(txn[t].po)
                                     /\ poStatus[txn[t].po] = "OPEN"

(* A call that waits or ends has nothing to keep true; one that goes on    *)
(* holding its lock keeps what it had. *)
LEMMA OldChecksStayTrue ==
  ASSUME IInv, [Next]_vars, NEW t \in Tx, txn'[t] = txn[t]
  PROVE  CheckStaysTrue(t)'
<1> USE DEF IInv
<1>1. CASE txn[t].phase = "match_held"
  <2> DEFINE i == txn[t].inv
  <2>1. i \in Inv /\ Doc[i].po \in PO /\ Holds(t, Doc[i].po)
    BY <1>1, TxnFields, DocumentsAssumption DEF Holds, Documents
  <2>2. Passes(i)' = Passes(i)
    BY <2>1, HeldOrderUntouched, ChecksReadOneOrder
  <2> QED BY <1>1, <2>2 DEF CheckStaysTrue, ChecksStayTrue
<1>2. CASE txn[t].phase = "receipt_held"
  <2> DEFINE d == txn[t].delivery
  <2>1. d \in Delivery /\ d.po \in PO /\ Holds(t, d.po)
    BY <1>2, TxnFields, DocumentsAssumption DEF Holds, Deliveries
  <2>2. (Receivable(d)' <=> Receivable(d)) /\ poStatus'[d.po] = poStatus[d.po]
    BY <2>1, HeldOrderUntouched, ChecksReadOneOrder DEF SameOrder
  <2> QED BY <1>2, <2>2 DEF CheckStaysTrue, ChecksStayTrue
<1>3. CASE txn[t].phase = "cancel_held"
  <2> DEFINE p == txn[t].po
  <2>1. p \in PO /\ Holds(t, p)
    BY <1>3, TxnFields DEF Holds
  <2>2. (HasDocuments(p)' <=> HasDocuments(p)) /\ poStatus'[p] = poStatus[p]
    BY <2>1, HeldOrderUntouched, ChecksReadOneOrder DEF SameOrder
  <2> QED BY <1>3, <2>2 DEF CheckStaysTrue, ChecksStayTrue
<1>4. CASE txn[t].phase \notin {"match_held", "receipt_held", "cancel_held"}
  BY <1>4 DEF CheckStaysTrue
<1> QED BY <1>1, <1>2, <1>3, <1>4

(* Every step keeps what the calls in progress concluded true. *)
LEMMA NextChecksStayTrue == IInv /\ [Next]_vars => ChecksStayTrue'
<1> SUFFICES ASSUME IInv, [Next]_vars, NEW t \in Tx PROVE CheckStaysTrue(t)'
  BY DEF ChecksStayTrue, CheckStaysTrue
<1> USE DEF IInv
<1>1. CASE txn'[t] = txn[t]
  BY <1>1, OldChecksStayTrue
<1>2. CASE txn'[t] = Idle
  BY <1>2 DEF CheckStaysTrue, Idle
<1>3. ASSUME NEW p \in PO, UNCHANGED <<poStatus, received, receipted, status>>
      PROVE  SameOrder(p)
  BY <1>3 DEF SameOrder, Committed
<1>4. ASSUME NEW d \in Delivery, ReceiptLock(t, d) PROVE CheckStaysTrue(t)'
  <2>1. txn'[t] = [phase |-> "receipt_held", delivery |-> d]
    BY <1>4 DEF ReceiptLock, Begin, TypeOK
  <2>2. d.po \in PO
    BY DocumentsAssumption DEF Deliveries
  <2>3. Receivable(d)' /\ poStatus'[d.po] = "OPEN"
    BY <1>3, <1>4, <2>2, ChecksReadOneOrder DEF ReceiptLock
  <2> QED BY <2>1, <2>3 DEF CheckStaysTrue
<1>5. ASSUME NEW i \in Inv, MatchRead(t, i) PROVE CheckStaysTrue(t)'
  <2>1. txn'[t] = [phase |-> "match_read", inv |-> i]
    BY <1>5 DEF MatchRead, Begin, TypeOK
  <2> QED BY <2>1 DEF CheckStaysTrue
<1>6. ASSUME MatchLock(t) PROVE CheckStaysTrue(t)'
  <2> DEFINE i == txn[t].inv
  <2>1. i \in Inv /\ Doc[i].po \in PO
    BY <1>6, TxnFields, DocumentsAssumption DEF MatchLock, Documents
  <2>2. txn'[t] = [phase |-> "match_held", inv |-> i, verdict |-> Passes(i)]
    BY <1>6 DEF MatchLock, TypeOK
  <2>3. Passes(i)' = Passes(i)
    BY <1>3, <1>6, <2>1, ChecksReadOneOrder DEF MatchLock
  <2>4. txn'[t].phase = "match_held" /\ txn'[t].inv = i /\ txn'[t].verdict = Passes(i)
    BY <2>2
  <2> QED BY <2>3, <2>4 DEF CheckStaysTrue
<1>7. ASSUME NEW p \in PO, CancelLock(t, p) PROVE CheckStaysTrue(t)'
  <2>1. txn'[t] = [phase |-> "cancel_held", po |-> p]
    BY <1>7 DEF CancelLock, Begin, TypeOK
  <2>2. ~HasDocuments(p)' /\ poStatus'[p] = "OPEN"
    BY <1>3, <1>7, ChecksReadOneOrder DEF CancelLock
  <2> QED BY <2>1, <2>2 DEF CheckStaysTrue
<1>8. ASSUME NEW u \in Tx, NEW state, txn' = [txn EXCEPT ![u] = state], u # t
      PROVE  CheckStaysTrue(t)'
  BY <1>1, <1>8 DEF TypeOK
<1>9. ASSUME NEW u \in Tx, End(u) PROVE CheckStaysTrue(t)'
  BY <1>2, <1>8, <1>9 DEF End, TypeOK
<1>10. ASSUME NEW u \in Tx, NEW d \in Delivery, ReceiptLock(u, d) PROVE CheckStaysTrue(t)'
  BY <1>4, <1>8, <1>10 DEF ReceiptLock, Begin
<1>11. ASSUME NEW u \in Tx, NEW i \in Inv, MatchRead(u, i) PROVE CheckStaysTrue(t)'
  BY <1>5, <1>8, <1>11 DEF MatchRead, Begin
<1>12. ASSUME NEW u \in Tx, MatchLock(u) PROVE CheckStaysTrue(t)'
  BY <1>6, <1>8, <1>12 DEF MatchLock
<1>13. ASSUME NEW u \in Tx, NEW p \in PO, CancelLock(u, p) PROVE CheckStaysTrue(t)'
  BY <1>7, <1>8, <1>13 DEF CancelLock, Begin
<1> QED
  BY <1>1, <1>9, <1>10, <1>11, <1>12, <1>13
     DEF Next, vars, ReceiptCommit, MatchCommit, CancelCommit, Abort, CreateInvoice, ApproveInvoice

-----------------------------------------------------------------------------
(* Totals *)

(* A step that neither receives nor matches leaves the totals of all lines *)
(* as they are. *)
LEMMA TotalsUnchanged ==
  ASSUME NEW l \in Line, UNCHANGED <<received, receipted>>,
         \A i \in Inv : Committed(i)' <=> Committed(i)
  PROVE  CommittedTotal(l)' = CommittedTotal(l) /\ Entitled(l)' = Entitled(l)
<1>1. CommittedOn(PoOf[l])' = CommittedOn(PoOf[l])
  BY DEF CommittedOn
<1>2. CommittedTotal(l)' = CommittedTotal(l)
  BY <1>1 DEF CommittedTotal, BilledOn
<1>3. Entitled(l)' = Entitled(l)
  BY DEF Entitled
<1> QED BY <1>2, <1>3

(* A receipt adds to what may be invoiced, within the capacity. *)
LEMMA ReceiptKeepsTotals ==
  ASSUME IInv, NEW t \in Tx, ReceiptCommit(t), NEW l \in Line
  PROVE  CommittedTotal(l)' <= Entitled(l)' /\ Entitled(l)' <= Capacity(l)
<1> USE DEF IInv
<1> DEFINE d == txn[t].delivery
<1>1. d \in Delivery /\ d.qty[l] \in Nat
  BY TxnFields, DocumentsAssumption DEF ReceiptCommit, Deliveries
<1>2. Receivable(d)
  BY DEF ReceiptCommit, ChecksStayTrue
<1>3. CommittedTotal(l)' = CommittedTotal(l)
  BY DEF CommittedTotal, CommittedOn, Committed, BilledOn, ReceiptCommit
<1>4. CommittedTotal(l) <= Entitled(l) /\ Entitled(l) <= Capacity(l) /\ Capacity(l) \in Nat
  BY CapacityType DEF NeverOverbilled
<1>5. CommittedTotal(l) \in Nat
  BY BilledType, LinesAssumption, TotalType DEF CommittedTotal, CommittedOn
<1>6. CASE IsService(l)
  <2>1. Entitled(l)' = Entitled(l) \/ Entitled(l)' = Capacity(l)
    BY <1>6 DEF Entitled, ReceiptCommit, Capacity, IsService
  <2>2. Entitled(l) \in Nat
    BY <1>4, <1>6 DEF Entitled
  <2> QED BY <1>3, <1>4, <1>5, <2>1, <2>2
<1>7. CASE ~IsService(l)
  <2>1. Entitled(l) = received[l] /\ Entitled(l)' = received'[l] /\ received[l] \in Nat
    BY <1>7 DEF Entitled, IsService, TypeOK
  <2>2. received'[l] = IF l \in d.lines THEN received[l] + d.qty[l] ELSE received[l]
    BY <1>7 DEF ReceiptCommit, ReceivedWith
  <2>3. l \in d.lines => received[l] + d.qty[l] <= Capacity(l)
    BY <1>2, <1>7 DEF Receivable, Capacity
  <2> QED BY <1>1, <1>3, <1>4, <1>5, <2>1, <2>2, <2>3
<1> QED BY <1>6, <1>7

(* A match commits an invoice only within what is left of the totals.      *)
LEMMA MatchKeepsTotals ==
  ASSUME IInv, NEW t \in Tx, MatchCommit(t), NEW l \in Line
  PROVE  CommittedTotal(l)' <= Entitled(l)' /\ Entitled(l)' <= Capacity(l)
<1> USE DEF IInv
<1>0. PICK i \in Inv : i = txn[t].inv
  BY TxnFields DEF MatchCommit
<1> DEFINE p == PoOf[l]
           S == CommittedOn(p)
           f == BilledOn(l)
<1>1. Doc[i].po \in PO /\ p \in PO
  BY DocumentsAssumption, LinesAssumption DEF Documents
<1>2. Entitled(l)' = Entitled(l) /\ Entitled(l) <= Capacity(l) /\ Total(S, f) <= Entitled(l)
  BY DEF Entitled, MatchCommit, NeverOverbilled, CommittedTotal
<1>3. CommittedTotal(l)' = Total(S', f)
  BY DEF CommittedTotal, BilledOn
<1>4. IsFiniteSet(S) /\ S \subseteq Inv /\ \A j \in Inv : f[j] = Doc[j].billed[l] /\ f[j] \in Nat
  BY <1>1, BilledType DEF CommittedOn
<1>5. S' = IF Doc[i].po = p /\ txn[t].verdict THEN (S \ {i}) \cup {i} ELSE S \ {i}
  <2>1. \A j \in Inv \ {i} : Committed(j)' <=> Committed(j)
    BY <1>0 DEF MatchCommit, Committed, TypeOK
  <2>2. Committed(i)' <=> txn[t].verdict
    <3>1. status'[i] = IF txn[t].verdict THEN "MATCHED" ELSE "EXCEPTION"
      BY <1>0 DEF MatchCommit, TypeOK
    <3>2. Committed(i)' <=> status'[i] \in {"MATCHED", "APPROVED"}
      BY DEF Committed
    <3>3. CASE txn[t].verdict
      BY <3>1, <3>2, <3>3
    <3>4. CASE ~txn[t].verdict
      BY <3>1, <3>2, <3>4
    <3> QED BY <3>3, <3>4
  <2>3. S' = {j \in Inv : Doc[j].po = p /\ Committed(j)'}
    BY DEF CommittedOn
  <2>4. S = {j \in Inv : Doc[j].po = p /\ Committed(j)}
    BY DEF CommittedOn
  <2>5. S \ {i} = {j \in Inv \ {i} : Doc[j].po = p /\ Committed(j)'}
    BY <2>1, <2>4
  <2>6. CASE Doc[i].po = p /\ txn[t].verdict
    <3>1. Doc[i].po = p /\ Committed(i)'
      BY <2>2, <2>6
    <3> QED BY <1>1, <2>3, <2>5, <2>6, <3>1
  <2>7. CASE ~(Doc[i].po = p /\ txn[t].verdict)
    <3>1. ~(Doc[i].po = p /\ Committed(i)')
      BY <2>2, <2>7
    <3> QED BY <1>1, <2>3, <2>5, <2>7, <3>1
  <2> QED BY <2>6, <2>7
<1>6. IsFiniteSet(S \ {i}) /\ Total(S \ {i}, f) <= Total(S, f)
  BY <1>4, FS_RemoveElement, TotalMonotone
<1>7. Total(S, f) \in Nat /\ Total(S \ {i}, f) \in Nat
  BY <1>4, <1>6, TotalType
<1>8. Entitled(l) \in Nat
  BY CapacityType DEF Entitled, TypeOK
<1>9. CASE Doc[i].po = p /\ txn[t].verdict
  <2>1. PassesByLine(i)
    BY <1>0, <1>9, PassesLineByLine DEF MatchCommit, ChecksStayTrue
  <2>2. Total(S', f) = Total(S \ {i}, f) + f[i]
    <3>1. \A j \in (S \ {i}) \cup {i} : f[j] \in Nat
      BY <1>1, <1>4
    <3> HIDE DEF S, f
    <3>2. Total((S \ {i}) \cup {i}, f) = Total(S \ {i}, f) + f[i]
      BY <1>6, <3>1, TotalAdd
    <3> QED BY <1>5, <1>9, <3>2
  <2>3. Total(S \ {i}, f) = Prior(i, l)
    BY <1>9 DEF Prior
  <2>4. CASE l \in Doc[i].lines
    BY <1>1, <1>2, <1>3, <1>4, <2>1, <2>2, <2>3, <2>4 DEF PassesByLine
  <2>5. CASE l \notin Doc[i].lines
    <3>1. f[i] = 0
      BY <1>1, <1>4, <2>5, DocumentsAssumption
    <3> QED BY <1>2, <1>3, <1>6, <1>7, <1>8, <2>2, <3>1
  <2> QED BY <2>4, <2>5
<1>10. CASE ~(Doc[i].po = p /\ txn[t].verdict)
  BY <1>2, <1>3, <1>5, <1>6, <1>7, <1>8, <1>10
<1> QED BY <1>9, <1>10

(* Every step keeps the committed totals covered. *)
LEMMA NextNeverOverbilled == IInv /\ [Next]_vars => NeverOverbilled'
<1> SUFFICES ASSUME IInv, [Next]_vars, NEW l \in Line
             PROVE  CommittedTotal(l)' <= Entitled(l)' /\ Entitled(l)' <= Capacity(l)
  BY DEF NeverOverbilled, Capacity, IsService
<1>1. ASSUME UNCHANGED <<received, receipted>>, \A i \in Inv : Committed(i)' <=> Committed(i)
      PROVE  CommittedTotal(l)' <= Entitled(l)' /\ Entitled(l)' <= Capacity(l)
  BY <1>1, TotalsUnchanged DEF IInv, NeverOverbilled
<1>2. CASE \E t \in Tx : ReceiptCommit(t)
  BY <1>2, ReceiptKeepsTotals
<1>3. CASE \E t \in Tx : MatchCommit(t)
  BY <1>3, MatchKeepsTotals
<1>4. CASE \E i \in Inv : CreateInvoice(i)
  BY <1>1, <1>4 DEF CreateInvoice, Committed, IInv, TypeOK
<1>5. CASE \E u \in User, i \in Inv : ApproveInvoice(u, i)
  BY <1>1, <1>5 DEF ApproveInvoice, Committed, IInv, TypeOK
<1>6. CASE UNCHANGED <<received, receipted, status>>
  BY <1>1, <1>6 DEF Committed
<1> QED
  BY <1>2, <1>3, <1>4, <1>5, <1>6
     DEF Next, vars, ReceiptLock, MatchRead, MatchLock, CancelLock, CancelCommit, Abort

-----------------------------------------------------------------------------
(* The initial states satisfy the inductive invariant. *)
LEMMA InitIInv == Init => IInv
<1> SUFFICES ASSUME Init PROVE IInv
  OBVIOUS
<1>1. TypeOK
  BY InitTypeOK
<1>2. \A t \in Tx : txn[t] = Idle
  BY DEF Init
<1>3. LockExclusive
  BY <1>2, IdleHoldsNothing DEF LockExclusive
<1>4. ChecksStayTrue
  BY <1>2 DEF ChecksStayTrue, Idle
<1>5. ASSUME NEW l \in Line PROVE CommittedTotal(l) <= Entitled(l) /\ Entitled(l) <= Capacity(l)
  <2>1. CommittedOn(PoOf[l]) = {}
    BY DEF Init, CommittedOn, Committed
  <2>2. CommittedTotal(l) = 0
    BY <2>1, TotalEmpty DEF CommittedTotal
  <2>3. Entitled(l) = 0
    BY DEF Init, Entitled
  <2> QED BY <2>2, <2>3, CapacityType
<1> QED BY <1>1, <1>3, <1>4, <1>5 DEF IInv, NeverOverbilled

(* The inductive invariant holds in every reachable state. *)
LEMMA Invariance == Spec => []IInv
<1>1. IInv /\ [Next]_vars => IInv'
  BY NextTypeOK, NextLockExclusive, NextChecksStayTrue, NextNeverOverbilled DEF IInv
<1> QED BY <1>1, InitIInv, PTL DEF Spec

(* Whatever the documents and however the calls interleave, the committed  *)
(* invoices of every order line are covered by what was received or        *)
(* accepted, and that by the order (invoices.ts:263-270, receipts.ts:85).  *)
THEOREM CommittedSpendCovered == Spec => []NeverOverbilled
<1>1. IInv => NeverOverbilled
  BY DEF IInv
<1> QED BY <1>1, Invariance, PTL

(* What a receipt, a match or a cancellation concluded under the lock of   *)
(* its order is still true when it commits.                                *)
THEOREM LockedChecksHold == Spec => []ChecksStayTrue
<1>1. IInv => ChecksStayTrue
  BY DEF IInv
<1> QED BY <1>1, Invariance, PTL

-----------------------------------------------------------------------------
(* What follows for orders once their committed invoices are known to be   *)
(* covered: an order is closed exactly when everything came in, budget is  *)
(* released only where nothing was spent, committed spend is never taken   *)
(* back, and the services implement OrderLedger.                           *)

(* Whatever counts as received has a receipt line (receipts.ts:104-116).   *)
ReceivedHasReceipt == \A l \in Line : received[l] > 0 => l \in receipted

(* A reservation is missing only where the order is cancelled, and a       *)
(* cancelled order has no receipt (purchase-orders.ts:207-221).            *)
CancelledUntouched ==
  /\ \A p \in PO : p \notin reserved => poStatus[p] = "CANCELLED"
  /\ \A l \in Line : poStatus[PoOf[l]] = "CANCELLED" => l \notin receipted

(* A committed invoice has only clean lines of its own order.              *)
CommittedAreClean ==
  \A i \in Inv : Committed(i) => Doc[i].clean /\ Doc[i].lines \subseteq LinesOf(Doc[i].po)

(* The invariant on top of IInv. *)
OrderInv ==
  /\ IInv
  /\ ReceivedHasReceipt
  /\ ClosedExactlyWhenReceived
  /\ CancelledUntouched
  /\ CommittedAreClean

-----------------------------------------------------------------------------
(* What a receipt holds when it is stored: positive room on an open order. *)
LEMMA ReceiptInHand ==
  ASSUME IInv, NEW t \in Tx, txn[t].phase = "receipt_held"
  PROVE  /\ txn[t].delivery \in Delivery
         /\ txn[t].delivery.po \in PO
         /\ txn[t].delivery.lines \subseteq LinesOf(txn[t].delivery.po)
         /\ txn[t].delivery.qty \in [Line -> Nat]
         /\ Receivable(txn[t].delivery)
         /\ poStatus[txn[t].delivery.po] = "OPEN"
BY TxnFields, DocumentsAssumption DEF IInv, ChecksStayTrue, Receivable, Deliveries

(* What a cancellation holds: an open order without documents. *)
LEMMA CancellationInHand ==
  ASSUME IInv, NEW t \in Tx, txn[t].phase = "cancel_held"
  PROVE  /\ txn[t].po \in PO
         /\ ~HasDocuments(txn[t].po)
         /\ poStatus[txn[t].po] = "OPEN"
BY TxnFields DEF IInv, ChecksStayTrue

(* What a match holds: the verdict on an invoice, as it is now. *)
LEMMA MatchInHand ==
  ASSUME IInv, NEW t \in Tx, txn[t].phase = "match_held"
  PROVE  /\ txn[t].inv \in Inv
         /\ Doc[txn[t].inv].po \in PO
         /\ txn[t].verdict = PassesByLine(txn[t].inv)
BY TxnFields, DocumentsAssumption, PassesLineByLine DEF IInv, ChecksStayTrue, Documents

(* Only a receipt, a match or a cancellation that commits, a new invoice   *)
(* or an approval changes what this module is about. *)
LEMMA StepsThatMatter ==
  ASSUME [Next]_vars
  PROVE  \/ \E t \in Tx : ReceiptCommit(t) \/ MatchCommit(t) \/ CancelCommit(t)
         \/ \E i \in Inv : CreateInvoice(i)
         \/ \E u \in User, i \in Inv : ApproveInvoice(u, i)
         \/ UNCHANGED <<poStatus, received, receipted, status, reserved>>
BY DEF Next, vars, ReceiptLock, MatchRead, MatchLock, CancelLock, Abort

(* What is billed on a line is a number, now and after a step. *)
LEMMA TotalOfLine ==
  ASSUME NEW l \in Line
  PROVE  CommittedTotal(l) \in Nat /\ CommittedTotal(l)' \in Nat
<1>0. PoOf[l] \in PO
  BY LinesAssumption
<1>1. IsFiniteSet(CommittedOn(PoOf[l])) /\ IsFiniteSet(CommittedOn(PoOf[l])')
  BY FS_Subset, DocumentsAssumption DEF CommittedOn
<1>2. CommittedOn(PoOf[l]) \subseteq Inv /\ CommittedOn(PoOf[l])' \subseteq Inv
  BY DEF CommittedOn
<1>3. \A i \in Inv : BilledOn(l)[i] \in Nat
  BY BilledType
<1>4. CommittedTotal(l) \in Nat
  BY <1>1, <1>2, <1>3, TotalType DEF CommittedTotal
<1>5. CommittedTotal(l)' = Total(CommittedOn(PoOf[l])', BilledOn(l))
  BY DEF CommittedTotal, BilledOn
<1> QED BY <1>1, <1>2, <1>3, <1>4, <1>5, TotalType

(* A line without a receipt entitles nobody to invoice it. *)
LEMMA NothingReceivedNothingDue ==
  ASSUME TypeOK, ReceivedHasReceipt, NEW l \in Line, l \notin receipted
  PROVE  Entitled(l) = 0 /\ received[l] = 0
<1>1. received[l] \in Nat /\ ~(received[l] > 0)
  BY DEF TypeOK, ReceivedHasReceipt
<1>2. received[l] = 0
  BY <1>1
<1> QED BY <1>2 DEF Entitled

(* Every step keeps a receipt line with every received quantity. *)
LEMMA NextReceivedHasReceipt == OrderInv /\ [Next]_vars => ReceivedHasReceipt'
<1> SUFFICES ASSUME OrderInv, [Next]_vars, NEW l \in Line, received'[l] > 0
             PROVE  l \in receipted'
  BY DEF ReceivedHasReceipt
<1>1. ASSUME NEW t \in Tx, ReceiptCommit(t) PROVE l \in receipted'
  <2> DEFINE d == txn[t].delivery
  <2>1. receipted' = receipted \cup d.lines /\ received'[l] = ReceivedWith(d, l)
    BY <1>1 DEF ReceiptCommit
  <2>2. CASE l \in d.lines
    BY <2>1, <2>2
  <2>3. CASE l \notin d.lines
    <3>1. received'[l] = received[l]
      BY <2>1, <2>3 DEF ReceivedWith
    <3> QED BY <2>1, <3>1 DEF OrderInv, ReceivedHasReceipt
  <2> QED BY <2>2, <2>3
<1>2. CASE UNCHANGED <<received, receipted>>
  BY <1>2 DEF OrderInv, ReceivedHasReceipt
<1> QED
  BY <1>1, <1>2, StepsThatMatter
     DEF MatchCommit, CancelCommit, CreateInvoice, ApproveInvoice

(* Every step keeps an order closed exactly when everything came in. *)
LEMMA NextClosedExactly == OrderInv /\ [Next]_vars => ClosedExactlyWhenReceived'
<1> SUFFICES ASSUME OrderInv, [Next]_vars, NEW p \in PO
             PROVE  poStatus'[p] = "CLOSED" <=> FullyReceived(p, received', receipted')
  BY DEF ClosedExactlyWhenReceived, FullyReceived, LinesOf, IsService
<1> USE DEF OrderInv, IInv
<1>0. poStatus[p] = "CLOSED" <=> FullyReceived(p, received, receipted)
  BY DEF ClosedExactlyWhenReceived
<1>1. CASE UNCHANGED <<poStatus, received, receipted>>
  BY <1>0, <1>1
<1>2. ASSUME NEW t \in Tx, ReceiptCommit(t)
      PROVE  poStatus'[p] = "CLOSED" <=> FullyReceived(p, received', receipted')
  <2> DEFINE d == txn[t].delivery
  <2>1. d.po \in PO /\ d.lines \subseteq LinesOf(d.po) /\ poStatus[d.po] = "OPEN"
    BY <1>2, ReceiptInHand DEF ReceiptCommit
  <2>2. /\ received' = [l \in Line |-> ReceivedWith(d, l)]
        /\ receipted' = receipted \cup d.lines
        /\ poStatus' = [poStatus EXCEPT ![d.po] = StatusAfter(d)]
    BY <1>2 DEF ReceiptCommit
  <2>3. CASE p = d.po
    <3>1. poStatus'[p] = StatusAfter(d)
      BY <2>1, <2>2, <2>3 DEF TypeOK
    <3>2. StatusAfter(d) = IF FullyReceived(p, received', receipted') THEN "CLOSED" ELSE "OPEN"
      BY <2>1, <2>2, <2>3 DEF StatusAfter
    <3> QED BY <3>1, <3>2
  <2>4. CASE p # d.po
    <3>1. poStatus'[p] = poStatus[p]
      BY <2>1, <2>2, <2>4 DEF TypeOK
    <3>2. \A l \in LinesOf(p) : l \notin d.lines
      BY <2>1, <2>4 DEF LinesOf
    <3>3. \A l \in LinesOf(p) : received'[l] = received[l] /\ (l \in receipted' <=> l \in receipted)
      BY <2>2, <3>2 DEF ReceivedWith, LinesOf
    <3>4. FullyReceived(p, received', receipted') <=> FullyReceived(p, received, receipted)
      BY <3>3 DEF FullyReceived
    <3> QED BY <1>0, <3>1, <3>4
  <2> QED BY <2>3, <2>4
<1>3. ASSUME NEW t \in Tx, CancelCommit(t)
      PROVE  poStatus'[p] = "CLOSED" <=> FullyReceived(p, received', receipted')
  <2>1. UNCHANGED <<received, receipted>> /\ poStatus' = [poStatus EXCEPT ![txn[t].po] = "CANCELLED"]
    BY <1>3 DEF CancelCommit
  <2>2. CASE p = txn[t].po
    <3>1. poStatus'[p] = "CANCELLED"
      BY <2>1, <2>2 DEF TypeOK
    <3>2. PICK l \in Line : PoOf[l] = p
      BY LinesAssumption
    <3>3. poStatus[p] = "OPEN"
      BY <1>3, <2>2, CancellationInHand DEF CancelCommit
    <3> QED BY <1>0, <2>1, <3>1, <3>3
  <2>3. CASE p # txn[t].po
    <3>1. poStatus'[p] = poStatus[p]
      BY <2>1, <2>3 DEF TypeOK
    <3> QED BY <1>0, <2>1, <3>1
  <2> QED BY <2>2, <2>3
<1> QED
  BY <1>1, <1>2, <1>3, StepsThatMatter DEF MatchCommit, CreateInvoice, ApproveInvoice

(* Every step keeps cancelled orders free of receipts. *)
LEMMA NextCancelledUntouched == OrderInv /\ [Next]_vars => CancelledUntouched'
<1> SUFFICES ASSUME OrderInv, [Next]_vars PROVE CancelledUntouched'
  OBVIOUS
<1> USE DEF OrderInv, IInv
<1>0. /\ \A p \in PO : p \notin reserved => poStatus[p] = "CANCELLED"
      /\ \A l \in Line : poStatus[PoOf[l]] = "CANCELLED" => l \notin receipted
  BY DEF CancelledUntouched
<1>1. CASE UNCHANGED <<poStatus, receipted, reserved>>
  BY <1>0, <1>1 DEF CancelledUntouched
<1>2. ASSUME NEW t \in Tx, ReceiptCommit(t) PROVE CancelledUntouched'
  <2> DEFINE d == txn[t].delivery
  <2>1. d.po \in PO /\ d.lines \subseteq LinesOf(d.po) /\ poStatus[d.po] = "OPEN"
    BY <1>2, ReceiptInHand DEF ReceiptCommit
  <2>2. /\ receipted' = receipted \cup d.lines /\ reserved' = reserved
        /\ poStatus' = [poStatus EXCEPT ![d.po] = StatusAfter(d)]
    BY <1>2 DEF ReceiptCommit
  <2>3. StatusAfter(d) \in {"CLOSED", "OPEN"}
    BY <2>1 DEF StatusAfter
  <2>4. \A p \in PO : poStatus'[p] = "CANCELLED" <=> poStatus[p] = "CANCELLED"
    BY <2>1, <2>2, <2>3 DEF TypeOK
  <2>5. \A l \in d.lines : PoOf[l] = d.po
    BY <2>1 DEF LinesOf
  <2>6. ASSUME NEW l \in Line, poStatus'[PoOf[l]] = "CANCELLED" PROVE l \notin receipted'
    BY <1>0, <2>1, <2>2, <2>4, <2>5, <2>6, LinesAssumption
  <2> QED BY <1>0, <2>2, <2>4, <2>6 DEF CancelledUntouched
<1>3. ASSUME NEW t \in Tx, CancelCommit(t) PROVE CancelledUntouched'
  <2> DEFINE q == txn[t].po
  <2>1. q \in PO /\ ~HasDocuments(q)
    BY <1>3, CancellationInHand DEF CancelCommit
  <2>2. /\ poStatus' = [poStatus EXCEPT ![q] = "CANCELLED"]
        /\ reserved' = reserved \ {q} /\ receipted' = receipted
    BY <1>3 DEF CancelCommit
  <2>3. \A l \in Line : PoOf[l] = q => l \notin receipted
    BY <2>1 DEF HasDocuments, LinesOf
  <2>4. \A p \in PO : poStatus'[p] = IF p = q THEN "CANCELLED" ELSE poStatus[p]
    BY <2>2 DEF TypeOK
  <2> QED BY <1>0, <2>2, <2>3, <2>4, LinesAssumption DEF CancelledUntouched
<1> QED
  BY <1>1, <1>2, <1>3, StepsThatMatter DEF MatchCommit, CreateInvoice, ApproveInvoice

(* The committed status of the invoices after each step. *)
LEMMA CommittedAfter ==
  ASSUME OrderInv, [Next]_vars, NEW i \in Inv
  PROVE  \/ Committed(i)' <=> Committed(i)
         \/ \E t \in Tx : MatchCommit(t) /\ txn[t].inv = i /\ (Committed(i)' <=> txn[t].verdict)
<1> USE DEF OrderInv, IInv
<1>1. ASSUME NEW t \in Tx, MatchCommit(t), txn[t].inv = i PROVE Committed(i)' <=> txn[t].verdict
  <2>1. status'[i] = IF txn[t].verdict THEN "MATCHED" ELSE "EXCEPTION"
    BY <1>1 DEF MatchCommit, TypeOK
  <2>2. Committed(i)' <=> status'[i] \in {"MATCHED", "APPROVED"}
    BY DEF Committed
  <2>3. CASE txn[t].verdict
    BY <2>1, <2>2, <2>3
  <2>4. CASE ~txn[t].verdict
    BY <2>1, <2>2, <2>4
  <2> QED BY <2>3, <2>4
<1>2. ASSUME NEW t \in Tx, MatchCommit(t), txn[t].inv # i PROVE Committed(i)' <=> Committed(i)
  BY <1>2 DEF MatchCommit, Committed, TypeOK
<1>3. CASE \E j \in Inv : CreateInvoice(j)
  BY <1>3 DEF CreateInvoice, Committed, TypeOK
<1>4. CASE \E u \in User, j \in Inv : ApproveInvoice(u, j)
  BY <1>4 DEF ApproveInvoice, Committed, TypeOK
<1>5. CASE status' = status
  BY <1>5 DEF Committed
<1> QED
  BY <1>1, <1>2, <1>3, <1>4, <1>5, StepsThatMatter DEF ReceiptCommit, CancelCommit

(* Every step keeps committed invoices clean. *)
LEMMA NextCommittedAreClean == OrderInv /\ [Next]_vars => CommittedAreClean'
<1> SUFFICES ASSUME OrderInv, [Next]_vars, NEW i \in Inv, Committed(i)'
             PROVE  Doc[i].clean /\ Doc[i].lines \subseteq LinesOf(Doc[i].po)
  BY DEF CommittedAreClean, LinesOf
<1>1. CASE Committed(i)
  BY <1>1 DEF OrderInv, CommittedAreClean
<1>2. ASSUME NEW t \in Tx, MatchCommit(t), txn[t].inv = i, txn[t].verdict
      PROVE  Doc[i].clean /\ Doc[i].lines \subseteq LinesOf(Doc[i].po)
  <2>1. PassesByLine(i)
    BY <1>2, MatchInHand DEF OrderInv, MatchCommit
  <2> QED BY <2>1 DEF PassesByLine
<1> QED BY <1>1, <1>2, CommittedAfter

-----------------------------------------------------------------------------
(* What other committed invoices bill, and this one, if it is committed.   *)
LEMMA CommittedSplits ==
  ASSUME OrderInv, NEW i \in Inv, Committed(i), NEW l \in LinesOf(Doc[i].po)
  PROVE  Prior(i, l) + Doc[i].billed[l] = CommittedTotal(l)
<1> DEFINE p == Doc[i].po
           S == CommittedOn(p)
           f == BilledOn(l)
<1>1. p \in PO /\ l \in Line /\ PoOf[l] = p /\ i \in S
  BY DocumentsAssumption DEF Documents, LinesOf, CommittedOn
<1>2. IsFiniteSet(S) /\ S \subseteq Inv /\ \A j \in Inv : f[j] = Doc[j].billed[l] /\ f[j] \in Nat
  BY <1>1, BilledType DEF CommittedOn
<1>3. IsFiniteSet(S \ {i})
  BY <1>2, FS_RemoveElement
<1>4. \A j \in (S \ {i}) \cup {i} : f[j] \in Nat
  BY <1>1, <1>2
<1>5. Total((S \ {i}) \cup {i}, f) = Total(S \ {i}, f) + f[i]
  <2> HIDE DEF S, f
  <2> QED BY <1>3, <1>4, TotalAdd
<1>6. (S \ {i}) \cup {i} = S
  BY <1>1
<1> QED BY <1>1, <1>2, <1>5, <1>6 DEF Prior, CommittedTotal

(* A committed invoice passes again. *)
LEMMA CommittedPasses ==
  ASSUME OrderInv, NEW i \in Inv, Committed(i)
  PROVE  PassesByLine(i)
<1>1. Doc[i].clean /\ Doc[i].lines \subseteq LinesOf(Doc[i].po)
  BY DEF OrderInv, CommittedAreClean
<1>2. ASSUME NEW l \in Doc[i].lines
      PROVE  /\ Prior(i, l) + Doc[i].billed[l] <= Entitled(l)
             /\ Prior(i, l) + Doc[i].billed[l] <= Capacity(l)
  <2>1. l \in LinesOf(Doc[i].po) /\ l \in Line
    BY <1>1 DEF LinesOf
  <2>2. Prior(i, l) + Doc[i].billed[l] = CommittedTotal(l)
    BY <2>1, CommittedSplits
  <2>3. CommittedTotal(l) <= Entitled(l) /\ Entitled(l) <= Capacity(l)
    BY <2>1 DEF OrderInv, IInv, NeverOverbilled
  <2>4. Capacity(l) \in Nat /\ Entitled(l) \in Nat
    BY <2>1, CapacityType DEF Entitled, OrderInv, IInv, TypeOK
  <2>5. CommittedTotal(l) \in Nat
    BY <2>1, TotalOfLine
  <2> QED BY <2>2, <2>3, <2>4, <2>5
<1> QED BY <1>1, <1>2 DEF PassesByLine

(* No step takes a commitment back. *)
LEMMA NextCommittedStays ==
  ASSUME OrderInv, [Next]_vars, NEW i \in Inv, Committed(i)
  PROVE  Committed(i)'
<1>1. ASSUME NEW t \in Tx, MatchCommit(t), txn[t].inv = i PROVE txn[t].verdict
  BY <1>1, CommittedPasses, MatchInHand DEF OrderInv, MatchCommit
<1> QED BY <1>1, CommittedAfter

-----------------------------------------------------------------------------
(* The initial states satisfy the invariant. *)
LEMMA InitOrderInv == Init => OrderInv
<1> SUFFICES ASSUME Init PROVE OrderInv
  OBVIOUS
<1>1. IInv
  BY InitIInv
<1>2. ReceivedHasReceipt
  BY DEF Init, ReceivedHasReceipt
<1>3. ASSUME NEW p \in PO PROVE ~FullyReceived(p, received, receipted)
  <2>1. PICK l \in Line : PoOf[l] = p
    BY LinesAssumption
  <2>2. PoLine[l].ordered \in Nat \ {0}
    BY LinesAssumption
  <2>3. l \notin receipted /\ received[l] = 0
    BY DEF Init
  <2> QED BY <2>1, <2>2, <2>3 DEF FullyReceived, LinesOf
<1>4. ClosedExactlyWhenReceived
  BY <1>3 DEF Init, ClosedExactlyWhenReceived
<1>5. CancelledUntouched
  BY DEF Init, CancelledUntouched
<1>6. CommittedAreClean
  BY DEF Init, CommittedAreClean, Committed
<1> QED BY <1>1, <1>2, <1>4, <1>5, <1>6 DEF OrderInv

(* The invariant holds in every reachable state. *)
LEMMA OrderInvariance == Spec => []OrderInv
<1>1. OrderInv /\ [Next]_vars => OrderInv'
  BY NextTypeOK, NextLockExclusive, NextChecksStayTrue, NextNeverOverbilled,
     NextReceivedHasReceipt, NextClosedExactly, NextCancelledUntouched,
     NextCommittedAreClean
     DEF OrderInv, IInv
<1> QED BY <1>1, InitOrderInv, PTL DEF Spec

(* closeIfFullyReceived closes an order with the receipt that completes    *)
(* it, and nothing else closes an order (receipts.ts:57-77).               *)
THEOREM OrdersCloseInTime == Spec => []ClosedExactlyWhenReceived
<1>1. OrderInv => ClosedExactlyWhenReceived
  BY DEF OrderInv
<1> QED BY <1>1, OrderInvariance, PTL

(* The reservation of an order is released only when nothing was received  *)
(* on it and its committed invoices bill nothing, and it stays that way    *)
(* (purchase-orders.ts:181-224).                                           *)
THEOREM ReleasedIsUnspent == Spec => []SpendIsReserved
<1>1. ASSUME OrderInv PROVE SpendIsReserved
  <2> SUFFICES ASSUME NEW l \in Line, PoOf[l] \notin reserved
               PROVE  l \notin receipted /\ CommittedTotal(l) = 0
    BY DEF SpendIsReserved
  <2>1. l \notin receipted
    BY <1>1, LinesAssumption DEF OrderInv, CancelledUntouched
  <2>2. Entitled(l) = 0
    BY <1>1, <2>1, NothingReceivedNothingDue DEF OrderInv, IInv
  <2>3. CommittedTotal(l) \in Nat /\ CommittedTotal(l) <= Entitled(l)
    BY <1>1, TotalOfLine DEF OrderInv, IInv, NeverOverbilled
  <2> QED BY <2>1, <2>2, <2>3
<1> QED BY <1>1, OrderInvariance, PTL

(* A match repeated on a committed invoice passes again, whatever was      *)
(* received, invoiced, approved or cancelled in between                    *)
(* (invoices.ts:255-299).                                                  *)
THEOREM CommitmentsStay == Spec => CommittedStays
<1>1. OrderInv /\ [Next]_vars => [\A i \in Inv : Committed(i) => Committed(i)']_vars
  BY NextCommittedStays
<1> QED BY <1>1, OrderInvariance, PTL DEF Spec, CommittedStays

-----------------------------------------------------------------------------
(* The refinement *)

(* The totals of the ledger, as ImplementsLedger maps them. *)
Cap == [l \in Line |-> Capacity(l)]
Due == [l \in Line |-> Entitled(l)]
Billed == [l \in Line |-> CommittedTotal(l)]

(* The mapped totals are functions from lines to numbers. *)
LEMMA MappedTypes ==
  ASSUME TypeOK, TypeOK'
  PROVE  /\ Due \in [Line -> Nat] /\ Due' \in [Line -> Nat]
         /\ Billed \in [Line -> Nat] /\ Billed' \in [Line -> Nat]
<1>1. \A l \in Line : Entitled(l) \in Nat
  BY CapacityType DEF Entitled, TypeOK
<1>2. \A l \in Line : Entitled(l)' \in Nat
  BY CapacityType DEF Entitled, TypeOK, Capacity, IsService
<1> QED BY <1>1, <1>2, TotalOfLine DEF Due, Billed

(* An initial state of the services is one of the ledger. *)
LEMMA LedgerInit == Init => Ledger!Init
<1> SUFFICES ASSUME Init PROVE Ledger!Init
  OBVIOUS
<1>1. ASSUME NEW l \in Line PROVE Entitled(l) = 0 /\ CommittedTotal(l) = 0
  <2>1. CommittedOn(PoOf[l]) = {}
    BY DEF Init, CommittedOn, Committed
  <2>2. CommittedTotal(l) = 0
    BY <2>1, TotalEmpty DEF CommittedTotal
  <2>3. Entitled(l) = 0
    BY DEF Init, Entitled
  <2> QED BY <2>2, <2>3
<1> QED BY <1>1 DEF Init, Ledger!Init

(* A step that neither receives, matches nor cancels is invisible. *)
LEMMA LedgerStutters ==
  ASSUME OrderInv, UNCHANGED <<poStatus, received, receipted>>,
         \A i \in Inv : Committed(i)' <=> Committed(i)
  PROVE  UNCHANGED Ledger!vars
<1>1. \A l \in Line : CommittedTotal(l)' = CommittedTotal(l) /\ Entitled(l)' = Entitled(l)
  BY TotalsUnchanged
<1> QED BY <1>1 DEF Ledger!vars

(* Storing a receipt delivers to the ledger. *)
LEMMA ReceiptDelivers ==
  ASSUME OrderInv, OrderInv', NEW t \in Tx, ReceiptCommit(t)
  PROVE  Ledger!Deliver(txn[t].delivery.po)
<1> DEFINE d == txn[t].delivery
           p == d.po
<1> USE DEF OrderInv, IInv
<1>1. /\ d \in Delivery /\ p \in PO /\ d.lines \subseteq LinesOf(p)
      /\ d.qty \in [Line -> Nat] /\ poStatus[p] = "OPEN"
  BY ReceiptInHand DEF ReceiptCommit
<1>2. /\ received' = [l \in Line |-> ReceivedWith(d, l)]
      /\ receipted' = receipted \cup d.lines
      /\ poStatus' = [poStatus EXCEPT ![p] = StatusAfter(d)]
      /\ status' = status
  BY DEF ReceiptCommit
<1>3. ASSUME NEW l \in Line
      PROVE  IF PoOf[l] = p THEN Entitled(l) <= Entitled(l)' /\ Entitled(l)' <= Capacity(l)
                            ELSE Entitled(l)' = Entitled(l)
  <2>1. CASE PoOf[l] = p
    <3>1. Entitled(l)' <= Capacity(l)
      BY ReceiptKeepsTotals
    <3>2. Entitled(l) <= Entitled(l)'
      <4>1. Capacity(l) \in Nat /\ received[l] \in Nat /\ d.qty[l] \in Nat
        BY <1>1, CapacityType DEF TypeOK
      <4>2. received'[l] = ReceivedWith(d, l) /\ (l \in receipted => l \in receipted')
        BY <1>2
      <4>3. CASE IsService(l)
        <5>1. Entitled(l) = IF l \in receipted THEN Capacity(l) ELSE 0
          BY <4>3 DEF Entitled
        <5>2. Entitled(l)' = IF l \in receipted' THEN Capacity(l) ELSE 0
          BY <4>3 DEF Entitled, Capacity, IsService
        <5> QED BY <4>1, <4>2, <5>1, <5>2
      <4>4. CASE ~IsService(l)
        <5>1. Entitled(l) = received[l] /\ Entitled(l)' = received'[l]
          BY <4>4 DEF Entitled, IsService
        <5> QED BY <4>1, <4>2, <5>1 DEF ReceivedWith
      <4> QED BY <4>3, <4>4
    <3> QED BY <2>1, <3>1, <3>2
  <2>2. CASE PoOf[l] # p
    <3>1. l \notin d.lines
      BY <1>1, <2>2 DEF LinesOf
    <3>2. received'[l] = received[l] /\ (l \in receipted' <=> l \in receipted)
      BY <1>2, <3>1 DEF ReceivedWith
    <3>3. Entitled(l)' = Entitled(l)
      BY <3>2 DEF Entitled
    <3> QED BY <2>2, <3>3
  <2> QED BY <2>1, <2>2
<1>4. Due' \in [Line -> Nat]
  BY MappedTypes
<1>5. Billed' = Billed
  <2>1. \A i \in Inv : Committed(i)' <=> Committed(i)
    BY <1>2 DEF Committed
  <2>2. \A l \in Line : CommittedOn(PoOf[l])' = CommittedOn(PoOf[l])
    BY <2>1 DEF CommittedOn
  <2>3. \A l \in Line : CommittedTotal(l)' = CommittedTotal(l)
    BY <2>2 DEF CommittedTotal, BilledOn
  <2> QED BY <2>3 DEF Billed
<1>6. CASE StatusAfter(d) = "CLOSED"
  <2>1. FullyReceived(p, received', receipted')
    BY <1>1, <1>2, <1>6 DEF StatusAfter
  <2>2. ASSUME NEW l \in LinesOf(p) PROVE Entitled(l)' = Capacity(l)
    <3>1. l \in Line /\ PoOf[l] = p
      BY DEF LinesOf
    <3>2. CASE IsService(l)
      <4>1. l \in receipted'
        BY <2>1, <3>2 DEF FullyReceived
      <4> QED BY <3>2, <4>1 DEF Entitled, Capacity, IsService
    <3>3. CASE ~IsService(l)
      <4>1. Entitled(l)' = received'[l] /\ Capacity(l) = PoLine[l].ordered
        BY <3>3 DEF Entitled, Capacity, IsService
      <4>2. received'[l] >= PoLine[l].ordered
        BY <2>1, <3>3 DEF FullyReceived
      <4>3. Entitled(l)' <= Capacity(l)
        BY <1>3, <3>1
      <4>4. received'[l] \in Nat /\ PoLine[l].ordered \in Nat
        BY <3>1, LinesAssumption DEF TypeOK
      <4> QED BY <4>1, <4>2, <4>3, <4>4
    <3> QED BY <3>2, <3>3
  <2> QED
    BY <1>1, <1>2, <1>3, <1>4, <1>5, <1>6, <2>2
       DEF Ledger!Deliver, Ledger!Grows, Ledger!Of, LinesOf, Due, Billed
<1>7. CASE StatusAfter(d) # "CLOSED"
  <2>1. poStatus' = poStatus
    BY <1>1, <1>2, <1>7 DEF StatusAfter, TypeOK
  <2> QED
    BY <1>1, <1>3, <1>4, <1>5, <2>1
       DEF Ledger!Deliver, Ledger!Grows, Due, Billed
<1> QED BY <1>6, <1>7

(* Committing a match bills to the ledger. *)
LEMMA MatchBills ==
  ASSUME OrderInv, OrderInv', [Next]_vars, NEW t \in Tx, MatchCommit(t)
  PROVE  Ledger!Bill(Doc[txn[t].inv].po)
<1> DEFINE i == txn[t].inv
           p == Doc[i].po
<1> USE DEF OrderInv, IInv
<1>1. i \in Inv /\ p \in PO
  BY MatchInHand DEF MatchCommit
<1>2. UNCHANGED <<poStatus, received, receipted>> /\ Due' = Due
  BY DEF MatchCommit, Due, Entitled
<1>3. \A j \in Inv \ {i} : Committed(j)' <=> Committed(j)
  BY <1>1 DEF MatchCommit, Committed, TypeOK
<1>4. \A j \in Inv : Committed(j) => Committed(j)'
  BY NextCommittedStays
<1>5. ASSUME NEW l \in Line
      PROVE  IF PoOf[l] = p
             THEN CommittedTotal(l) <= CommittedTotal(l)' /\ CommittedTotal(l)' <= Entitled(l)
             ELSE CommittedTotal(l)' = CommittedTotal(l)
  <2>1. CommittedTotal(l)' = Total(CommittedOn(PoOf[l])', BilledOn(l))
    BY DEF CommittedTotal, BilledOn
  <2>2. CASE PoOf[l] = p
    <3>1. CommittedOn(PoOf[l]) \subseteq CommittedOn(PoOf[l])' /\ CommittedOn(PoOf[l])' \subseteq Inv
      BY <1>4 DEF CommittedOn
    <3>2. IsFiniteSet(CommittedOn(PoOf[l])')
      BY <3>1, FS_Subset, DocumentsAssumption
    <3>3. \A j \in CommittedOn(PoOf[l])' : BilledOn(l)[j] \in Nat
      BY <3>1, BilledType
    <3>4. Total(CommittedOn(PoOf[l]), BilledOn(l)) <= Total(CommittedOn(PoOf[l])', BilledOn(l))
      BY <3>1, <3>2, <3>3, TotalMonotone
    <3>5. CommittedTotal(l)' <= Entitled(l)'
      BY MatchKeepsTotals
    <3>6. Entitled(l)' = Entitled(l)
      BY <1>2 DEF Entitled
    <3> QED BY <2>1, <2>2, <3>4, <3>5, <3>6 DEF CommittedTotal
  <2>3. CASE PoOf[l] # p
    <3>1. CommittedOn(PoOf[l])' = CommittedOn(PoOf[l])
      BY <1>3, <2>3 DEF CommittedOn
    <3> QED BY <2>1, <2>3, <3>1 DEF CommittedTotal
  <2> QED BY <2>2, <2>3
<1>6. Billed' \in [Line -> Nat]
  BY MappedTypes
<1> QED BY <1>2, <1>5, <1>6 DEF Ledger!Bill, Ledger!Grows, Due, Billed

(* Committing a cancellation cancels in the ledger. *)
LEMMA CancellationCancels ==
  ASSUME OrderInv, NEW t \in Tx, CancelCommit(t)
  PROVE  Ledger!Cancel(txn[t].po)
<1> DEFINE p == txn[t].po
<1> USE DEF OrderInv, IInv
<1>1. p \in PO /\ ~HasDocuments(p) /\ poStatus[p] = "OPEN"
  BY CancellationInHand DEF CancelCommit
<1>2. ASSUME NEW l \in LinesOf(p) PROVE Entitled(l) = 0 /\ CommittedTotal(l) = 0
  <2>1. l \in Line /\ l \notin receipted
    BY <1>1 DEF HasDocuments, LinesOf
  <2>2. Entitled(l) = 0
    BY <2>1, NothingReceivedNothingDue
  <2>3. CommittedTotal(l) \in Nat /\ CommittedTotal(l) <= Entitled(l)
    BY <2>1, TotalOfLine DEF NeverOverbilled
  <2> QED BY <2>2, <2>3
<1>3. UNCHANGED <<received, receipted, status>>
  BY DEF CancelCommit
<1>4. \A l \in Line : Entitled(l)' = Entitled(l) /\ CommittedTotal(l)' = CommittedTotal(l)
  BY <1>3, TotalsUnchanged DEF Committed
<1>5. poStatus' = [poStatus EXCEPT ![p] = "CANCELLED"]
  BY DEF CancelCommit
<1> QED BY <1>1, <1>2, <1>4, <1>5 DEF Ledger!Cancel, Ledger!Of, LinesOf

(* Every step of the services is a step of the ledger or invisible in it. *)
LEMMA LedgerStep ==
  ASSUME OrderInv, OrderInv', [Next]_vars
  PROVE  [Ledger!Next]_(Ledger!vars)
<1>1. ASSUME NEW t \in Tx, ReceiptCommit(t) PROVE Ledger!Next
  BY <1>1, ReceiptDelivers, ReceiptInHand DEF Ledger!Next, ReceiptCommit, OrderInv
<1>2. ASSUME NEW t \in Tx, MatchCommit(t) PROVE Ledger!Next
  BY <1>2, MatchBills, MatchInHand DEF Ledger!Next, MatchCommit, OrderInv
<1>3. ASSUME NEW t \in Tx, CancelCommit(t) PROVE Ledger!Next
  BY <1>3, CancellationCancels, CancellationInHand DEF Ledger!Next, CancelCommit, OrderInv
<1>4. CASE \E i \in Inv : CreateInvoice(i)
  BY <1>4, LedgerStutters DEF CreateInvoice, Committed, OrderInv, IInv, TypeOK
<1>5. CASE \E u \in User, i \in Inv : ApproveInvoice(u, i)
  BY <1>5, LedgerStutters DEF ApproveInvoice, Committed, OrderInv, IInv, TypeOK
<1>6. CASE UNCHANGED <<poStatus, received, receipted, status, reserved>>
  BY <1>6, LedgerStutters DEF Committed
<1> QED BY <1>1, <1>2, <1>3, <1>4, <1>5, <1>6, StepsThatMatter

(* Receiving, invoicing, matching and cancelling, with all their           *)
(* interleavings, implement the ledger of two running totals per order     *)
(* line (receipts.ts, invoices.ts, cancelPurchaseOrder).                   *)
THEOREM ServicesImplementLedger == Spec => ImplementsLedger
<1>1. OrderInv /\ OrderInv' /\ [Next]_vars => [Ledger!Next]_(Ledger!vars)
  BY LedgerStep
<1> QED BY <1>1, LedgerInit, OrderInvariance, PTL DEF Spec, ImplementsLedger, Ledger!Spec

-----------------------------------------------------------------------------
(* The loop of matchInvoice (matching.ts:150-180).  The prover has no rule *)
(* of induction for the function it computes; the least member of a set of *)
(* numbers, which the library provides, serves in its place.               *)

(* Induction over the members of a set. *)
LEMMA SetInduction ==
  ASSUME NEW S, 0 \in S, \A n \in Nat : n \in S => n + 1 \in S
  PROVE  Nat \subseteq S
<1> SUFFICES ASSUME Nat \ S # {} PROVE FALSE
  OBVIOUS
<1>1. IsWellFoundedOn(OpToRel(<, Nat), Nat)
  BY NatLessThanWellFounded
<1>2. PICK x \in Nat \ S : \A y \in Nat \ S : ~(<<y, x>> \in OpToRel(<, Nat))
  BY <1>1, WFMin
<1>3. x \in Nat /\ x # 0
  OBVIOUS
<1>4. x - 1 \in Nat /\ (x - 1) + 1 = x
  BY <1>3
<1>5. x - 1 \in S
  <2>1. <<x - 1, x>> \in OpToRel(<, Nat)
    BY <1>3, <1>4 DEF OpToRel
  <2> QED BY <1>2, <1>4, <2>1
<1> QED BY <1>3, <1>4, <1>5

(* The loop computes what its definition says. *)
LEMMA ExaminedDef ==
  ASSUME NEW c, NEW lines, Len(lines) \in Nat
  PROVE  Examined(c, lines) =
           [i \in 0 .. Len(lines) |->
              IF i = 0 THEN [running |-> [l \in DOMAIN c.po |-> 0], exceptions |-> {}]
              ELSE ExamineLine(c, Examined(c, lines)[i - 1], lines[i], i)]
<1> DEFINE base == [running |-> [l \in DOMAIN c.po |-> 0], exceptions |-> {}]
           Round(acc, i) == ExamineLine(c, acc, lines[i], i)
           Follows(f, k) == f = [i \in 0 .. k |-> IF i = 0 THEN base ELSE Round(f[i - 1], i)]
           S == {k \in Nat : \E f : Follows(f, k)}
<1>1. Examined(c, lines) = CHOOSE f : Follows(f, Len(lines))
  BY DEF Examined
<1> HIDE DEF base, Round
<1>2. 0 \in S
  <2>1. Follows([i \in 0 .. 0 |-> base], 0)
    OBVIOUS
  <2> QED BY <2>1
<1>3. ASSUME NEW k \in Nat, k \in S PROVE k + 1 \in S
  <2>1. PICK f : Follows(f, k)
    BY <1>3
  <2> DEFINE g == [i \in 0 .. k + 1 |-> IF i = k + 1 THEN Round(f[k], k + 1) ELSE f[i]]
  <2>2. ASSUME NEW i \in 0 .. k + 1
        PROVE  g[i] = IF i = 0 THEN base ELSE Round(g[i - 1], i)
    <3>1. CASE i = k + 1
      BY <3>1
    <3>2. CASE i \in 0 .. k
      <4>1. i - 1 \in 0 .. k \/ i = 0
        BY <3>2
      <4> QED BY <2>1, <3>2, <4>1
    <3> QED BY <3>1, <3>2
  <2>3. Follows(g, k + 1)
    <3>1. g = [i \in 0 .. k + 1 |-> g[i]]
      OBVIOUS
    <3> HIDE DEF g
    <3> QED BY <2>2, <3>1
  <2>4. \E h : Follows(h, k + 1)
    <3> HIDE DEF g, Follows
    <3> QED BY <2>3
  <2> QED BY <2>4
<1>4. \E f : Follows(f, Len(lines))
  BY <1>2, <1>3, SetInduction
<1>5. Follows(Examined(c, lines), Len(lines))
  <2> HIDE DEF Follows
  <2> QED BY <1>1, <1>4
<1> QED BY <1>5 DEF base, Round

(* The first k lines: those that bill order line l, and what they add.     *)
Of(lines, l, k) == {i \in 1 .. k : lines[i].ref = l}
Measures(c, lines, l) == [i \in DOMAIN lines |-> LineMeasure(c.po[l], lines[i])]
Sum(c, lines, l, k) == Total(Of(lines, l, k), Measures(c, lines, l))

Clean(c, line) ==
  /\ line.ref \in DOMAIN c.po
  /\ c.po[line.ref].kind = "GOODS" => PriceWithinTolerance(c.po[line.ref].price, line.unit)

(* What the loop knows after k lines. *)
Known(c, lines, k) ==
  LET acc == Examined(c, lines)[k] IN
  /\ acc = [running |-> [l \in DOMAIN c.po |-> Sum(c, lines, l, k)],
            exceptions |-> acc.exceptions]
  /\ acc.exceptions = {} <=>
       /\ \A i \in 1 .. k : Clean(c, lines[i])
       /\ \A l \in DOMAIN c.po :
            Of(lines, l, k) # {} => c.prior[l] + Sum(c, lines, l, k) <= Limits(c)[l]

LEMMA MeasureType ==
  ASSUME NEW c, ContextOK(c), NEW lines, LinesOK(lines), NEW l \in DOMAIN c.po,
         NEW i \in DOMAIN lines
  PROVE  LineMeasure(c.po[l], lines[i]) \in Nat
<1>1. lines[i].qty * lines[i].unit \in Nat
  BY DEF LinesOK
<1> QED BY <1>1 DEF LinesOK, ContextOK, OrderOK, LineMeasure

LEMMA SumLaws ==
  ASSUME NEW c, ContextOK(c), NEW lines, LinesOK(lines), NEW l \in DOMAIN c.po,
         NEW k \in Nat, k + 1 <= Len(lines)
  PROVE  /\ Sum(c, lines, l, k) \in Nat
         /\ lines[k + 1].ref # l => /\ Of(lines, l, k + 1) = Of(lines, l, k)
                                    /\ Sum(c, lines, l, k + 1) = Sum(c, lines, l, k)
         /\ lines[k + 1].ref = l =>
              /\ Of(lines, l, k + 1) = Of(lines, l, k) \cup {k + 1}
              /\ Sum(c, lines, l, k + 1)
                   = Sum(c, lines, l, k) + LineMeasure(c.po[l], lines[k + 1])
<1> DEFINE A == Of(lines, l, k)
           M == Measures(c, lines, l)
<1>1. k + 1 \in DOMAIN lines /\ A \subseteq DOMAIN lines /\ k + 1 \notin A
  BY DEF LinesOK, Of
<1>2. IsFiniteSet(A)
  <2>1. IsFiniteSet(1 .. k)
    BY FS_Interval
  <2>2. A \in SUBSET (1 .. k)
    BY DEF Of
  <2> QED BY <2>1, <2>2, FS_Subset
<1>3. \A i \in DOMAIN lines : M[i] = LineMeasure(c.po[l], lines[i]) /\ M[i] \in Nat
  BY MeasureType DEF Measures
<1>4. Of(lines, l, k + 1) = IF lines[k + 1].ref = l THEN A \cup {k + 1} ELSE A
  <2>1. \A i : i \in 1 .. k + 1 <=> i \in 1 .. k \/ i = k + 1
    OBVIOUS
  <2> QED BY <2>1 DEF Of
<1>5. Total(A, M) \in Nat
  BY <1>1, <1>2, <1>3, TotalType
<1>6. Total(A \cup {k + 1}, M) = Total(A, M) + M[k + 1]
  BY <1>1, <1>2, <1>3, TotalAdd
<1> QED BY <1>1, <1>3, <1>4, <1>5, <1>6 DEF Sum

(* The exceptions found on one line that names a line of the order. *)
LEMMA FoundOnLine ==
  ASSUME NEW c, ContextOK(c), NEW line, line.ref \in DOMAIN c.po, NEW cumulative \in Nat
  PROVE  (IF c.po[line.ref].kind = "SERVICE" THEN CheckServiceLine(c, line, cumulative)
          ELSE CheckGoodsLine(c, line, cumulative)) = {}
           <=> Clean(c, line) /\ cumulative <= Limits(c)[line.ref]
<1> DEFINE p == c.po[line.ref]
<1>1. p.ordered * p.price \in Nat /\ p.kind \in {"GOODS", "SERVICE"} /\ p.ordered \in Nat
      /\ c.received[line.ref] \in Nat /\ c.accepted[line.ref] \in Nat
  BY DEF ContextOK, OrderOK
<1>2. CASE p.kind = "SERVICE"
  <2>1. Limits(c)[line.ref] = Least(c.accepted[line.ref], p.ordered * p.price)
    BY <1>2 DEF Limits, OrderedAmount
  <2>2. cumulative <= Limits(c)[line.ref] <=>
          ~(cumulative > p.ordered * p.price) /\ ~(cumulative > c.accepted[line.ref])
    BY <1>1, <2>1 DEF Least
  <2>3. CheckServiceLine(c, line, cumulative) = {} <=>
          ~(cumulative > p.ordered * p.price) /\ ~(cumulative > c.accepted[line.ref])
    BY DEF CheckServiceLine, OrderedAmount
  <2> QED BY <1>2, <2>2, <2>3 DEF Clean
<1>3. CASE p.kind = "GOODS"
  <2>1. Limits(c)[line.ref] = Least(c.received[line.ref], p.ordered)
    BY <1>3 DEF Limits
  <2>2. cumulative <= Limits(c)[line.ref] <=>
          ~(cumulative > c.received[line.ref]) /\ ~(cumulative > p.ordered)
    BY <1>1, <2>1 DEF Least
  <2>3. CheckGoodsLine(c, line, cumulative) = {} <=>
          /\ ~(cumulative > c.received[line.ref]) /\ ~(cumulative > p.ordered)
          /\ PriceWithinTolerance(p.price, line.unit)
    BY DEF CheckGoodsLine
  <2> QED BY <1>3, <2>2, <2>3 DEF Clean
<1> QED BY <1>1, <1>2, <1>3

(* One round of the loop. *)
LEMMA KnownStep ==
  ASSUME NEW c, ContextOK(c), NEW lines, LinesOK(lines),
         NEW k \in Nat, k + 1 <= Len(lines), Known(c, lines, k)
  PROVE  Known(c, lines, k + 1)
<1> DEFINE acc == Examined(c, lines)[k]
           next == Examined(c, lines)[k + 1]
           line == lines[k + 1]
           ref == line.ref
           Fit(n) == \A l \in DOMAIN c.po :
                       Of(lines, l, n) # {} => c.prior[l] + Sum(c, lines, l, n) <= Limits(c)[l]
           AllClean(n) == \A i \in 1 .. n : Clean(c, lines[i])
<1>1. next = ExamineLine(c, acc, line, k + 1)
  <2>1. Len(lines) \in Nat /\ k + 1 \in 0 .. Len(lines) /\ k + 1 # 0 /\ (k + 1) - 1 = k
    BY DEF LinesOK
  <2> QED BY <2>1, ExaminedDef
<1>2. AllClean(k + 1) <=> AllClean(k) /\ Clean(c, line)
  <2>1. \A i : i \in 1 .. k + 1 <=> i \in 1 .. k \/ i = k + 1
    OBVIOUS
  <2> QED BY <2>1
<1>3. /\ acc = [running |-> [l \in DOMAIN c.po |-> Sum(c, lines, l, k)],
               exceptions |-> acc.exceptions]
      /\ acc.exceptions = {} <=> AllClean(k) /\ Fit(k)
  BY DEF Known
<1>4. \A l \in DOMAIN c.po :
        /\ Sum(c, lines, l, k) \in Nat
        /\ ref # l => /\ Of(lines, l, k + 1) = Of(lines, l, k)
                      /\ Sum(c, lines, l, k + 1) = Sum(c, lines, l, k)
        /\ ref = l => /\ k + 1 \in Of(lines, l, k + 1)
                      /\ Sum(c, lines, l, k + 1)
                           = Sum(c, lines, l, k) + LineMeasure(c.po[l], line)
  BY SumLaws
<1>5. CASE ref \notin DOMAIN c.po
  <2>1. next = [acc EXCEPT !.exceptions = @ \cup {<<"UNMATCHED_LINE", k + 1>>}]
    BY <1>1, <1>5 DEF ExamineLine
  <2>2. ~AllClean(k + 1)
    BY <1>2, <1>5 DEF Clean
  <2>3. [l \in DOMAIN c.po |-> Sum(c, lines, l, k + 1)] = [l \in DOMAIN c.po |-> Sum(c, lines, l, k)]
    BY <1>4, <1>5
  <2> DEFINE sums == [l \in DOMAIN c.po |-> Sum(c, lines, l, k)]
             before == acc.exceptions
  <2> HIDE DEF acc, next, AllClean, sums, before
  <2>4. /\ next = [running |-> sums, exceptions |-> next.exceptions]
        /\ next.exceptions # {}
    <3>1. acc = [running |-> sums, exceptions |-> before]
      BY <1>3 DEF sums, before
    <3>2. next = [running |-> sums, exceptions |-> before \cup {<<"UNMATCHED_LINE", k + 1>>}]
      BY <2>1, <3>1
    <3> QED BY <3>2
  <2> QED BY <2>2, <2>3, <2>4 DEF Known, next, AllClean, sums
<1>6. CASE ref \in DOMAIN c.po
  <2> DEFINE measure == LineMeasure(c.po[ref], line)
             total == Sum(c, lines, ref, k + 1)
             found == IF c.po[ref].kind = "SERVICE"
                      THEN CheckServiceLine(c, line, c.prior[ref] + total)
                      ELSE CheckGoodsLine(c, line, c.prior[ref] + total)
  <2>1. k + 1 \in DOMAIN lines
    BY DEF LinesOK
  <2>2. measure \in Nat /\ c.prior[ref] \in Nat
    BY <1>6, <2>1, MeasureType DEF ContextOK
  <2>3. total = Sum(c, lines, ref, k) + measure /\ total \in Nat /\ Sum(c, lines, ref, k) \in Nat
    BY <1>4, <1>6, <2>2
  <2>4. next = [running |-> [acc.running EXCEPT ![ref] = total],
                exceptions |-> acc.exceptions \cup (found \X {k + 1})]
    <3>1. acc.running[ref] = Sum(c, lines, ref, k)
      BY <1>3, <1>6
    <3>2. AddRunning(acc, ref, measure) = total
      BY <2>3, <3>1 DEF AddRunning
    <3> HIDE DEF total, measure, acc
    <3> QED BY <1>1, <1>6, <3>2 DEF ExamineLine, measure
  <2>5. next.running = [l \in DOMAIN c.po |-> Sum(c, lines, l, k + 1)]
    <3>1. acc.running = [l \in DOMAIN c.po |-> Sum(c, lines, l, k)]
      BY <1>3
    <3> HIDE DEF acc, next, found
    <3> QED BY <1>4, <1>6, <2>4, <3>1
  <2>6. next.exceptions = {} <=> acc.exceptions = {} /\ found = {}
    <3>1. next.exceptions = acc.exceptions \cup (found \X {k + 1})
      <4> HIDE DEF acc, next, found
      <4> QED BY <2>4
    <3> HIDE DEF acc, next, found
    <3>2. found \X {k + 1} = {} <=> found = {}
      <4>1. ASSUME NEW e \in found PROVE <<e, k + 1>> \in found \X {k + 1}
        OBVIOUS
      <4> QED BY <4>1
    <3> QED BY <3>1, <3>2
  <2>7. found = {} <=> Clean(c, line) /\ c.prior[ref] + total <= Limits(c)[ref]
    <3>1. c.prior[ref] + total \in Nat
      BY <2>2, <2>3
    <3> HIDE DEF total
    <3> QED BY <1>6, <3>1, FoundOnLine
  <2>8. Fit(k + 1) <=> Fit(k) /\ c.prior[ref] + total <= Limits(c)[ref]
    <3>1. Fit(k + 1) => c.prior[ref] + total <= Limits(c)[ref]
      BY <1>4, <1>6
    <3>2. ASSUME Fit(k + 1), NEW l \in DOMAIN c.po, Of(lines, l, k) # {}
          PROVE  c.prior[l] + Sum(c, lines, l, k) <= Limits(c)[l]
      <4>1. CASE l # ref
        BY <1>4, <3>2, <4>1
      <4>2. CASE l = ref
        <5>1. c.prior[ref] + total <= Limits(c)[ref]
          BY <3>1, <3>2
        <5>2. Limits(c)[ref] \in Nat
          <6>1. c.po[ref].ordered * c.po[ref].price \in Nat
            BY <1>6 DEF ContextOK, OrderOK
          <6> QED BY <1>6, <6>1 DEF Limits, Least, OrderedAmount, ContextOK, OrderOK
        <5> HIDE DEF total, measure
        <5> QED BY <2>2, <2>3, <4>2, <5>1, <5>2
      <4> QED BY <4>1, <4>2
    <3>3. ASSUME Fit(k), c.prior[ref] + total <= Limits(c)[ref],
                 NEW l \in DOMAIN c.po, Of(lines, l, k + 1) # {}
          PROVE  c.prior[l] + Sum(c, lines, l, k + 1) <= Limits(c)[l]
      BY <1>4, <3>3
    <3> QED BY <3>1, <3>2, <3>3
  <2>9. next.exceptions = {} <=> AllClean(k + 1) /\ Fit(k + 1)
    <3> HIDE DEF acc, next, found, AllClean, Fit, total
    <3> QED BY <1>2, <1>3, <2>6, <2>7, <2>8
  <2>10. next = [running |-> next.running, exceptions |-> next.exceptions]
    <3> HIDE DEF acc, next, found
    <3> QED BY <2>4
  <2> QED BY <2>5, <2>9, <2>10 DEF Known
<1> QED BY <1>5, <1>6

(* matchInvoice's running totals decide exactly as a check of the whole    *)
(* invoice would: for every order, receipt and invoice of any length, no   *)
(* exception is found just when every line is clean and the totals fit.    *)
THEOREM MatchIsOfTheWhole ==
  ASSUME NEW c, ContextOK(c), NEW lines, LinesOK(lines)
  PROVE  MatchInvoice(c, lines) = {} <=> Fits(c, lines)
<1> DEFINE n == Len(lines)
           S == {k \in Nat : k <= n => Known(c, lines, k)}
<1>1. 0 \in S
  <2>1. Examined(c, lines)[0] = [running |-> [l \in DOMAIN c.po |-> 0], exceptions |-> {}]
    <3>1. n \in Nat /\ 0 \in 0 .. n
      BY DEF LinesOK
    <3>2. Examined(c, lines) =
            [i \in 0 .. n |->
               IF i = 0 THEN [running |-> [l \in DOMAIN c.po |-> 0], exceptions |-> {}]
               ELSE ExamineLine(c, Examined(c, lines)[i - 1], lines[i], i)]
      BY <3>1, ExaminedDef
    <3> QED BY <3>1, <3>2
  <2>2. \A l : Of(lines, l, 0) = {} /\ Sum(c, lines, l, 0) = 0
    BY TotalEmpty DEF Of, Sum
  <2>3. Known(c, lines, 0)
    BY <2>1, <2>2 DEF Known
  <2> QED BY <2>3
<1>2. ASSUME NEW k \in Nat, k \in S PROVE k + 1 \in S
  <2> SUFFICES ASSUME k + 1 <= n PROVE Known(c, lines, k + 1)
    OBVIOUS
  <2>1. k <= n
    BY DEF LinesOK
  <2> QED BY <1>2, <2>1, KnownStep
<1>3. Known(c, lines, n)
  <2>1. n \in Nat /\ n <= n
    BY DEF LinesOK
  <2> QED BY <1>1, <1>2, <2>1, SetInduction
<1>4. DOMAIN lines = 1 .. n
  BY DEF LinesOK
<1> DEFINE of(l) == {i \in DOMAIN lines : lines[i].ref = l}
           sum == Summary(c.po, lines)
<1>5. \A l : of(l) = Of(lines, l, n)
  BY <1>4 DEF Of
<1>6. sum.clean <=> \A i \in 1 .. n : Clean(c, lines[i])
  BY <1>4 DEF Summary, Clean
<1>7. /\ sum.lines = {l \in DOMAIN c.po : Of(lines, l, n) # {}}
      /\ \A l \in DOMAIN c.po : sum.billed[l] = Sum(c, lines, l, n)
  <2>1. \A l \in DOMAIN c.po :
          Total(of(l), [i \in of(l) |-> LineMeasure(c.po[l], lines[i])]) = Sum(c, lines, l, n)
    <3> SUFFICES ASSUME NEW l \in DOMAIN c.po
                 PROVE  Total(of(l), [i \in of(l) |-> LineMeasure(c.po[l], lines[i])])
                          = Sum(c, lines, l, n)
      OBVIOUS
    <3> DEFINE own == [i \in of(l) |-> LineMeasure(c.po[l], lines[i])]
    <3>1. \A i \in of(l) : own[i] = Measures(c, lines, l)[i]
      BY DEF Measures
    <3>2. Total(of(l), own) = Total(of(l), Measures(c, lines, l))
      <4> HIDE DEF of, own
      <4> QED BY <3>1, TotalCongruence
    <3> QED BY <1>5, <3>2 DEF Sum
  <2> QED BY <1>5, <2>1 DEF Summary
<1>8. MatchInvoice(c, lines) = Examined(c, lines)[n].exceptions
  BY DEF MatchInvoice
<1> QED BY <1>3, <1>6, <1>7, <1>8 DEF Known, Fits, WithinLimits

-----------------------------------------------------------------------------
(* The form and the stored invoice (module InvoiceIntake).  An extraction  *)
(* is as the normalisation leaves it, a draft is what its basis says, and  *)
(* what was stored passed createInvoice's checks.                          *)

ProposedOK(proposed) ==
  /\ Len(proposed) \in Nat /\ DOMAIN proposed = 1 .. Len(proposed)
  /\ \A i \in DOMAIN proposed : /\ proposed[i].qty \in Nat \ {0}
                                /\ proposed[i].unit \in Nat
                                /\ proposed[i].amount \in Nat

FormInv ==
  /\ chosen \in Orders \cup {None}
  /\ uploads \in [Uploads -> Orders \cup {None}]
  /\ chosen # None => draft \in [DOMAIN PoLines(chosen) -> [qty : Int, unit : Int]]
  /\ basis.from = "answer" => ProposedOK(basis.lines)

(* What one draft line shows after an extraction that names it at most     *)
(* once was written over it.                                               *)
Written(poLine, line, hits, proposed) ==
  /\ hits = {} => line.qty = 0
  /\ \A i \in hits : hits = {i} =>
       line = IF poLine.kind = "SERVICE" THEN [qty |-> 1, unit |-> proposed[i].amount]
              ELSE [qty |-> proposed[i].qty, unit |-> proposed[i].unit]

DraftInv ==
  chosen # None =>
    /\ basis.from = "order" => draft = Prefilled(PoLines(chosen))
    /\ basis.from = "answer" =>
         \A l \in DOMAIN PoLines(chosen) :
           Written(PoLines(chosen)[l], draft[l], Hits(basis.lines, l), basis.lines)

StoredInv ==
  /\ invoice # None => invoice.order \in Orders /\ LinesOK(invoice.lines)
  /\ ctx # None => invoice # None /\ ContextOK(ctx)

IntakeIInv == FormInv /\ DraftInv /\ StoredInv

-----------------------------------------------------------------------------
(* The payload lists every billed line of the draft once. *)

(* SetToSeq enumerates a finite set. *)
LEMMA SetToSeqEnumerates ==
  ASSUME NEW S, IsFiniteSet(S)
  PROVE  /\ Cardinality(S) \in Nat
         /\ SetToSeq(S) \in [1 .. Cardinality(S) -> S]
         /\ \A a, b \in 1 .. Cardinality(S) : SetToSeq(S)[a] = SetToSeq(S)[b] => a = b
         /\ \A x \in S : \E a \in 1 .. Cardinality(S) : SetToSeq(S)[a] = x
<1> DEFINE n == Cardinality(S)
           s == SetToSeq(S)
<1>1. n \in Nat /\ ExistsBijection(1 .. n, S)
  BY FS_CardinalityType
<1>2. \E f \in [1 .. n -> S] : IsInjective(f)
  BY <1>1 DEF ExistsBijection, Bijection, Injection, IsInjective
<1>3. s \in [1 .. n -> S] /\ IsInjective(s)
  BY <1>2 DEF SetToSeq
<1>4. s \in Surjection(1 .. n, S)
  <2>1. s \in Injection(1 .. n, S)
    BY <1>3 DEF Injection, IsInjective
  <2>2. Cardinality(1 .. n) = n
    BY <1>1, FS_Interval
  <2> HIDE DEF s
  <2> QED BY <2>1, <2>2, FS_Injection
<1> QED BY <1>1, <1>3, <1>4 DEF Surjection, IsInjective

(* The line of the payload for line l of the draft. *)
Billing(po, lines, l) ==
  [ref |-> l, qty |-> lines[l].qty, unit |-> lines[l].unit,
   amount |-> IF po[l].kind = "SERVICE" THEN lines[l].unit ELSE NoAmount]

ToBill(lines) == {l \in DOMAIN lines : lines[l].qty > 0}

LEMMA PayloadIs ==
  ASSUME NEW po, NEW lines, IsFiniteSet(DOMAIN lines)
  PROVE  \E s \in Seq(ToBill(lines)) :
           /\ \A a, b \in 1 .. Len(s) : s[a] = s[b] => a = b
           /\ \A x \in ToBill(lines) : \E a \in 1 .. Len(s) : s[a] = x
           /\ Payload(po, lines) = [i \in 1 .. Len(s) |-> Billing(po, lines, s[i])]
<1> DEFINE n == Cardinality(ToBill(lines))
           s == SetToSeq(ToBill(lines))
<1>1. IsFiniteSet(ToBill(lines))
  <2>1. ToBill(lines) \in SUBSET DOMAIN lines
    BY DEF ToBill
  <2> QED BY <2>1, FS_Subset
<1>2. /\ n \in Nat /\ s \in [1 .. n -> ToBill(lines)]
      /\ \A a, b \in 1 .. n : s[a] = s[b] => a = b
      /\ \A x \in ToBill(lines) : \E a \in 1 .. n : s[a] = x
  BY <1>1, SetToSeqEnumerates
<1>3. Payload(po, lines) = [i \in DOMAIN s |-> Billing(po, lines, s[i])]
  BY DEF Payload, Billing, ToBill
<1> HIDE DEF n, s
<1>4. s \in Seq(ToBill(lines)) /\ Len(s) = n /\ DOMAIN s = 1 .. n
  BY <1>2
<1> QED BY <1>2, <1>3, <1>4

(* Its lines, as a sequence. *)
LEMMA PayloadLine ==
  ASSUME NEW po, NEW lines, IsFiniteSet(DOMAIN lines)
  PROVE  /\ Len(Payload(po, lines)) \in Nat
         /\ DOMAIN Payload(po, lines) = 1 .. Len(Payload(po, lines))
         /\ \A i \in DOMAIN Payload(po, lines) :
              /\ Payload(po, lines)[i].ref \in ToBill(lines)
              /\ Payload(po, lines)[i] = Billing(po, lines, Payload(po, lines)[i].ref)
<1>1. PICK s \in Seq(ToBill(lines)) :
        Payload(po, lines) = [i \in 1 .. Len(s) |-> Billing(po, lines, s[i])]
  BY PayloadIs
<1> DEFINE n == Len(s)
<1>2. Len(Payload(po, lines)) = n
  <2>1. Payload(po, lines) \in Seq({Billing(po, lines, l) : l \in ToBill(lines)})
    BY <1>1
  <2> QED BY <1>1, <2>1
<1>3. \A i \in 1 .. n : /\ Payload(po, lines)[i] = Billing(po, lines, s[i])
                        /\ Payload(po, lines)[i].ref = s[i] /\ s[i] \in ToBill(lines)
  BY <1>1 DEF Billing
<1> QED BY <1>1, <1>2, <1>3

(* Every billed line of the draft is on one line of the payload. *)
LEMMA PayloadHits ==
  ASSUME NEW po, NEW lines, IsFiniteSet(DOMAIN lines), NEW l
  PROVE  LET of == {i \in DOMAIN Payload(po, lines) : Payload(po, lines)[i].ref = l} IN
         /\ l \in ToBill(lines) => \E i \in DOMAIN Payload(po, lines) : of = {i}
         /\ l \notin ToBill(lines) => of = {}
<1>1. PICK s \in Seq(ToBill(lines)) :
        /\ \A a, b \in 1 .. Len(s) : s[a] = s[b] => a = b
        /\ \A x \in ToBill(lines) : \E a \in 1 .. Len(s) : s[a] = x
        /\ Payload(po, lines) = [i \in 1 .. Len(s) |-> Billing(po, lines, s[i])]
  BY PayloadIs
<1> DEFINE n == Len(s)
           pay == Payload(po, lines)
           of == {i \in DOMAIN pay : pay[i].ref = l}
<1>2. \A i \in 1 .. n : pay[i].ref = s[i] /\ s[i] \in ToBill(lines)
  BY <1>1 DEF Billing
<1>3. DOMAIN pay = 1 .. n
  BY <1>1
<1> HIDE DEF pay
<1>4. CASE l \in ToBill(lines)
  <2>1. PICK i \in 1 .. n : s[i] = l
    BY <1>1, <1>4
  <2>2. \A j \in DOMAIN pay : pay[j].ref = l <=> j = i
    BY <1>1, <1>2, <1>3, <2>1
  <2>3. of = {i}
    BY <1>3, <2>1, <2>2
  <2> QED BY <1>3, <1>4, <2>3 DEF pay
<1>5. CASE l \notin ToBill(lines)
  <2>1. of = {}
    BY <1>2, <1>3, <1>5
  <2> QED BY <1>5, <2>1 DEF pay
<1> QED BY <1>4, <1>5

(* The sum of one row. *)
LEMMA TotalOfOne ==
  ASSUME NEW f, NEW i, f[i] \in Nat
  PROVE  Total({i}, f) = f[i]
<1>1. IsFiniteSet({}) /\ i \notin {} /\ \A y \in {} \cup {i} : f[y] \in Nat
  BY FS_EmptySet
<1>2. Total({} \cup {i}, f) = Total({}, f) + f[i]
  BY <1>1, TotalAdd
<1>3. Total({}, f) = 0
  BY TotalEmpty
<1>4. {} \cup {i} = {i}
  OBVIOUS
<1> QED BY <1>2, <1>3, <1>4

(* What the payload bills on one line of the order. *)
LEMMA PayloadBills ==
  ASSUME NEW po, OrderOK(po), NEW lines, IsFiniteSet(DOMAIN lines),
         NEW l \in DOMAIN po, DOMAIN lines = DOMAIN po, lines[l].qty \in Int,
         lines[l].qty > 0 => lines[l].unit \in Nat,
         NoAmount \notin Int
  PROVE  Summary(po, Payload(po, lines)).billed[l] =
           IF lines[l].qty > 0
           THEN IF po[l].kind = "SERVICE" THEN lines[l].unit ELSE lines[l].qty
           ELSE 0
<1> DEFINE pay == Payload(po, lines)
           of == {i \in DOMAIN pay : pay[i].ref = l}
           own == [i \in of |-> LineMeasure(po[l], pay[i])]
<1>1. Summary(po, pay).billed[l] = Total(of, own)
  BY DEF Summary
<1>4. /\ l \in ToBill(lines) => \E i \in DOMAIN pay : of = {i}
      /\ l \notin ToBill(lines) => of = {}
  BY PayloadHits
<1>2. CASE ~(lines[l].qty > 0)
  <2>1. l \notin ToBill(lines)
    BY <1>2 DEF ToBill
  <2>2. of = {}
    BY <1>4, <2>1
  <2> QED BY <1>1, <1>2, <2>2, TotalEmpty
<1>3. CASE lines[l].qty > 0
  <2>1. l \in ToBill(lines)
    BY <1>3 DEF ToBill
  <2>2. PICK i \in DOMAIN pay : of = {i}
    BY <1>4, <2>1
  <2>3. pay[i] = Billing(po, lines, l)
    <3>1. i \in of
      BY <2>2
    <3>2. pay[i].ref = l
      BY <3>1
    <3>3. pay[i] = Billing(po, lines, pay[i].ref)
      BY PayloadLine
    <3> QED BY <3>2, <3>3
  <2>4. own[i] = IF po[l].kind = "SERVICE" THEN lines[l].unit ELSE lines[l].qty
    <3>1. own[i] = LineMeasure(po[l], Billing(po, lines, l))
      BY <2>2, <2>3
    <3>2. po[l].kind \in {"GOODS", "SERVICE"} /\ lines[l].unit # NoAmount
      BY <1>3 DEF OrderOK
    <3> HIDE DEF own
    <3> QED BY <3>1, <3>2 DEF LineMeasure, Billing
  <2>5. own[i] \in Nat
    BY <1>3, <2>4
  <2>6. Total({i}, own) = own[i]
    <3> HIDE DEF own
    <3> QED BY <2>5, TotalOfOne
  <2> QED BY <1>1, <1>3, <2>2, <2>4, <2>6
<1> QED BY <1>2, <1>3

-----------------------------------------------------------------------------
(* What the normalisation of an answer leaves. *)

AnswerOK(raw) ==
  /\ Len(raw) \in Nat /\ DOMAIN raw = 1 .. Len(raw)
  /\ \A i \in DOMAIN raw : /\ raw[i].halves \in Int
                           /\ raw[i].price \in Nat \cup {Unreadable}
                           /\ raw[i].total \in Nat \cup {NoAmount, Unreadable}

LEMMA ProposedLineOK ==
  ASSUME NEW po, NEW rows, NEW line, line.halves \in Int, line.price \in Nat,
         line.total \in Nat \cup {NoAmount, Unreadable}
  PROVE  LET p == ProposedLine(po, rows, line) IN
         p.qty \in Nat \ {0} /\ p.unit \in Nat /\ p.amount \in Nat
<1>1. Rounded(line.halves) \in Nat \ {0}
  <2>1. ASSUME NEW h \in Int, h >= 2 PROVE (h + 1) \div 2 \in Nat \ {0}
    BY <2>1
  <2> QED BY <2>1 DEF Rounded
<1>2. Rounded(line.halves) * line.price \in Nat
  <2>1. \A a, b \in Nat : a * b \in Nat
    OBVIOUS
  <2> QED BY <1>1, <2>1
<1> QED BY <1>1, <1>2 DEF ProposedLine

(* The loop gathers lines that come from readable ones. *)
LEMMA NormalisedGathers ==
  ASSUME NEW po, NEW rows, NEW raw, Len(raw) \in Nat, DOMAIN raw = 1 .. Len(raw)
  PROVE  Normalised(po, rows, raw)
           \in Seq({ProposedLine(po, rows, raw[i]) : i \in {j \in DOMAIN raw : Readable(raw[j])}})
<1> DEFINE P == {ProposedLine(po, rows, raw[i]) : i \in {j \in DOMAIN raw : Readable(raw[j])}}
           Round(acc, i) == IF Readable(raw[i]) /\ Len(acc) < MaxProposed
                            THEN Append(acc, ProposedLine(po, rows, raw[i])) ELSE acc
           Follows(f, k) == f = [i \in 0 .. k |-> IF i = 0 THEN <<>> ELSE Round(f[i - 1], i)]
           S == {k \in Nat : \E f : Follows(f, k)}
           taken == CHOOSE f : Follows(f, Len(raw))
<1>1. Normalised(po, rows, raw) = taken[Len(raw)]
  BY DEF Normalised
<1>2. ASSUME NEW acc \in Seq(P), NEW i \in DOMAIN raw PROVE Round(acc, i) \in Seq(P)
  OBVIOUS
<1> HIDE DEF Round, P
<1>3. 0 \in S
  <2>1. Follows([i \in 0 .. 0 |-> <<>>], 0)
    OBVIOUS
  <2> QED BY <2>1
<1>4. ASSUME NEW k \in Nat, k \in S PROVE k + 1 \in S
  <2>1. PICK f : Follows(f, k)
    BY <1>4
  <2> DEFINE g == [i \in 0 .. k + 1 |-> IF i = k + 1 THEN Round(f[k], k + 1) ELSE f[i]]
  <2>2. ASSUME NEW i \in 0 .. k + 1
        PROVE  g[i] = IF i = 0 THEN <<>> ELSE Round(g[i - 1], i)
    <3>1. CASE i = k + 1
      BY <3>1
    <3>2. CASE i \in 0 .. k
      <4>1. i - 1 \in 0 .. k \/ i = 0
        BY <3>2
      <4> QED BY <2>1, <3>2, <4>1
    <3> QED BY <3>1, <3>2
  <2>3. Follows(g, k + 1)
    <3>1. g = [i \in 0 .. k + 1 |-> g[i]]
      OBVIOUS
    <3> HIDE DEF g
    <3> QED BY <2>2, <3>1
  <2>4. \E h : Follows(h, k + 1)
    <3> HIDE DEF g, Follows
    <3> QED BY <2>3
  <2> QED BY <2>4
<1>5. \E f : Follows(f, Len(raw))
  BY <1>3, <1>4, SetInduction
<1>6. Follows(taken, Len(raw))
  <2> HIDE DEF Follows
  <2> QED BY <1>5
<1> HIDE DEF taken
<1>7. ASSUME NEW k \in Nat, k <= Len(raw) => taken[k] \in Seq(P)
      PROVE  k + 1 <= Len(raw) => taken[k + 1] \in Seq(P)
  <2> SUFFICES ASSUME k + 1 <= Len(raw) PROVE taken[k + 1] \in Seq(P)
    OBVIOUS
  <2>1. taken[k + 1] = Round(taken[k], k + 1)
    BY <1>6
  <2>2. taken[k] \in Seq(P) /\ k + 1 \in DOMAIN raw
    BY <1>7
  <2> QED BY <1>2, <2>1, <2>2
<1>8. taken[0] \in Seq(P)
  BY <1>6
<1>9. taken[Len(raw)] \in Seq(P)
  <2> DEFINE T == {k \in Nat : k <= Len(raw) => taken[k] \in Seq(P)}
  <2>1. 0 \in T
    BY <1>8
  <2>2. \A k \in Nat : k \in T => k + 1 \in T
    BY <1>7
  <2>3. Len(raw) \in T
    <3> HIDE DEF T
    <3> QED BY <2>1, <2>2, SetInduction
  <2> QED BY <2>3
<1> QED BY <1>1, <1>9 DEF P

(* A normalised answer is a proper extraction. *)
LEMMA NormalisedOK ==
  ASSUME NEW po, NEW rows, NEW raw, AnswerOK(raw)
  PROVE  ProposedOK(Normalised(po, rows, raw))
<1> DEFINE R == {j \in DOMAIN raw : Readable(raw[j])}
           P == {ProposedLine(po, rows, raw[i]) : i \in R}
           out == Normalised(po, rows, raw)
<1>1. out \in Seq(P)
  BY NormalisedGathers DEF AnswerOK
<1>2. ASSUME NEW p \in P PROVE p.qty \in Nat \ {0} /\ p.unit \in Nat /\ p.amount \in Nat
  <2>1. PICK i \in R : p = ProposedLine(po, rows, raw[i])
    OBVIOUS
  <2>2. raw[i].halves \in Int /\ raw[i].price \in Nat /\ raw[i].total \in Nat \cup {NoAmount, Unreadable}
    BY DEF AnswerOK, Readable
  <2> QED BY <2>1, <2>2, ProposedLineOK
<1> HIDE DEF P, out
<1>3. Len(out) \in Nat /\ DOMAIN out = 1 .. Len(out) /\ \A i \in DOMAIN out : out[i] \in P
  BY <1>1
<1> QED BY <1>2, <1>3 DEF ProposedOK, out

-----------------------------------------------------------------------------
(* The invariant of the form and of what it stores. *)

LEMMA OrderFacts ==
  ASSUME NEW o \in Orders
  PROVE  /\ IsFiniteSet(DOMAIN PoLines(o)) /\ OrderOK(PoLines(o))
         /\ \A seen \in Seen(o), l \in DOMAIN PoLines(o) :
              seen.received[l] \in Nat /\ seen.accepted[l] \in Nat /\ seen.prior[l] \in Nat
BY IntakeAssumption

LEMMA PrefilledType ==
  ASSUME NEW po, OrderOK(po)
  PROVE  /\ Prefilled(po) \in [DOMAIN po -> [qty : Int, unit : Int]]
         /\ \A l \in DOMAIN po : Prefilled(po)[l].qty \in Nat /\ Prefilled(po)[l].unit \in Nat
<1>1. \A l \in DOMAIN po : OrderedAmount(po[l]) \in Nat
  <2>1. \A a, b \in Nat : a * b \in Nat
    OBVIOUS
  <2> QED BY <2>1 DEF OrderOK, OrderedAmount
<1> QED BY <1>1 DEF Prefilled, OrderOK

(* The last of some lines is one of them. *)
LEMMA LastIsOne ==
  ASSUME NEW n \in Nat, NEW hits \in SUBSET (1 .. n), hits # {}
  PROVE  Max(hits) \in hits
<1> DEFINE HasLast(H) == \E x \in H : \A y \in H : x >= y
           S == {k \in Nat : \A H \in SUBSET (1 .. k) : H # {} => HasLast(H)}
<1>1. 0 \in S
  <2>1. \A H \in SUBSET (1 .. 0) : H = {}
    OBVIOUS
  <2> QED BY <2>1
<1>2. ASSUME NEW k \in Nat, k \in S PROVE k + 1 \in S
  <2> SUFFICES ASSUME NEW H \in SUBSET (1 .. k + 1), H # {} PROVE HasLast(H)
    OBVIOUS
  <2>1. CASE k + 1 \in H
    BY <2>1
  <2>2. CASE k + 1 \notin H
    <3>1. H \in SUBSET (1 .. k)
      BY <2>2
    <3> QED BY <1>2, <3>1
  <2> QED BY <2>1, <2>2
<1>3. HasLast(hits)
  <2>1. n \in S
    <3> HIDE DEF S
    <3> QED BY <1>1, <1>2, SetInduction
  <2> QED BY <2>1
<1> QED BY <1>3 DEF Max

LEMMA AppliedWrites ==
  ASSUME NEW po, NEW lines \in [DOMAIN po -> [qty : Int, unit : Int]],
         NEW proposed, ProposedOK(proposed)
  PROVE  /\ Applied(po, lines, proposed) \in [DOMAIN po -> [qty : Int, unit : Int]]
         /\ \A l \in DOMAIN po :
              Written(po[l], Applied(po, lines, proposed)[l], Hits(proposed, l), proposed)
<1> SUFFICES ASSUME NEW l \in DOMAIN po
             PROVE  /\ Applied(po, lines, proposed)[l] \in [qty : Int, unit : Int]
                    /\ Written(po[l], Applied(po, lines, proposed)[l], Hits(proposed, l), proposed)
  BY DEF Applied
<1> DEFINE hits == Hits(proposed, l)
           last == proposed[Max(hits)]
           new == Applied(po, lines, proposed)[l]
<1>1. new = IF hits = {} THEN [lines[l] EXCEPT !.qty = 0]
            ELSE IF po[l].kind = "SERVICE" THEN [qty |-> 1, unit |-> last.amount]
            ELSE [qty |-> last.qty, unit |-> last.unit]
  BY DEF Applied
<1>2. hits \subseteq DOMAIN proposed /\ DOMAIN proposed \subseteq Nat
  BY DEF Hits, ProposedOK
<1>3. CASE hits = {}
  BY <1>1, <1>3 DEF Written
<1>4. CASE hits # {}
  <2>1. Max(hits) \in hits
    <3>1. Len(proposed) \in Nat /\ hits \in SUBSET (1 .. Len(proposed))
      BY DEF Hits, ProposedOK
    <3> HIDE DEF hits
    <3> QED BY <1>4, <3>1, LastIsOne
  <2>2. last.qty \in Int /\ last.unit \in Int /\ last.amount \in Int
    <3> HIDE DEF hits
    <3> QED BY <1>2, <2>1 DEF ProposedOK
  <2>3. \A i \in hits : hits = {i} => Max(hits) = i
    <3> HIDE DEF hits
    <3> QED BY <2>1
  <2> HIDE DEF hits, new
  <2>4. new \in [qty : Int, unit : Int]
    BY <1>1, <1>4, <2>2
  <2>5. Written(po[l], new, hits, proposed)
    BY <1>1, <1>4, <2>3 DEF Written
  <2> QED BY <2>4, <2>5 DEF hits, new
<1> QED BY <1>3, <1>4

(* The initial state satisfies the invariant. *)
LEMMA InitIntakeIInv == IntakeInit => IntakeIInv
BY DEF IntakeInit, Fresh, IntakeIInv, FormInv, DraftInv, StoredInv, FromOrder

(* A step keeps the form in order. *)
LEMMA NextFormInv == IntakeIInv /\ [IntakeNext]_intakeVars => FormInv'
<1> SUFFICES ASSUME IntakeIInv, [IntakeNext]_intakeVars PROVE FormInv'
  OBVIOUS
<1> USE DEF IntakeIInv, FormInv
<1>1. ASSUME NEW o \in Orders \cup {None}, ChoosePo(o) PROVE FormInv'
  <2>1. o # None => Prefilled(PoLines(o)) \in [DOMAIN PoLines(o) -> [qty : Int, unit : Int]]
    BY OrderFacts, PrefilledType
  <2> QED BY <1>1, <2>1 DEF ChoosePo, FromOrder
<1>2. ASSUME NEW l \in DOMAIN draft, NEW patch \in Edits, SetLine(l, patch) PROVE FormInv'
  <2>1. patch \in [qty : Int, unit : Int]
    BY IntakeAssumption
  <2>2. draft' \in [DOMAIN PoLines(chosen) -> [qty : Int, unit : Int]]
    BY <1>2, <2>1 DEF SetLine
  <2> QED BY <1>2, <2>2 DEF SetLine
<1>3. ASSUME NEW u \in Uploads, OnFile(u) \/ ExtractionFails(u) PROVE FormInv'
  BY <1>3 DEF OnFile, ExtractionFails
<1>4. ASSUME NEW u \in Uploads, NEW raw \in Answers, Extracted(u, raw) PROVE FormInv'
  <2>1. PICK rows \in SetToSeqs(DOMAIN PoLines(uploads[u])) :
          LET proposed == Normalised(PoLines(uploads[u]), rows, raw) IN
          /\ draft' = IF chosen = None THEN draft ELSE Applied(PoLines(chosen), draft, proposed)
          /\ basis' = [from |-> "answer", lines |-> proposed]
    BY <1>4 DEF Extracted
  <2> DEFINE proposed == Normalised(PoLines(uploads[u]), rows, raw)
  <2>2. ProposedOK(proposed)
    BY NormalisedOK, IntakeAssumption DEF AnswerOK
  <2> HIDE DEF proposed
  <2>3. chosen # None => Applied(PoLines(chosen), draft, proposed)
                           \in [DOMAIN PoLines(chosen) -> [qty : Int, unit : Int]]
    BY <2>2, AppliedWrites
  <2>4. basis' = [from |-> "answer", lines |-> proposed]
    BY <2>1 DEF proposed
  <2>5. chosen # None => draft' = Applied(PoLines(chosen), draft, proposed)
    BY <2>1 DEF proposed
  <2> QED BY <1>4, <2>2, <2>3, <2>4, <2>5 DEF Extracted
<1>5. CASE Submit
  BY <1>5 DEF Submit, FromOrder
<1>6. ASSUME NEW o \in Orders, NEW lines \in Posted, Post(o, lines) PROVE FormInv'
  BY <1>6 DEF Post
<1>7. ASSUME NEW seen, Load(seen) PROVE FormInv'
  BY <1>7 DEF Load
<1>8. CASE UNCHANGED intakeVars
  BY <1>8 DEF intakeVars
<1> QED BY <1>1, <1>2, <1>3, <1>4, <1>5, <1>6, <1>7, <1>8 DEF IntakeNext

(* A step keeps the draft to its basis. *)
LEMMA NextDraftInv == IntakeIInv /\ [IntakeNext]_intakeVars => DraftInv'
<1> SUFFICES ASSUME IntakeIInv, [IntakeNext]_intakeVars PROVE DraftInv'
  OBVIOUS
<1> USE DEF IntakeIInv, DraftInv
<1>1. ASSUME NEW o \in Orders \cup {None}, ChoosePo(o) PROVE DraftInv'
  BY <1>1 DEF ChoosePo, FromOrder
<1>2. ASSUME NEW l \in DOMAIN draft, NEW patch \in Edits, SetLine(l, patch) PROVE DraftInv'
  BY <1>2 DEF SetLine
<1>3. ASSUME NEW u \in Uploads, OnFile(u) \/ ExtractionFails(u) PROVE DraftInv'
  BY <1>3 DEF OnFile, ExtractionFails
<1>4. ASSUME NEW u \in Uploads, NEW raw \in Answers, Extracted(u, raw) PROVE DraftInv'
  <2>1. PICK rows \in SetToSeqs(DOMAIN PoLines(uploads[u])) :
          LET proposed == Normalised(PoLines(uploads[u]), rows, raw) IN
          /\ draft' = IF chosen = None THEN draft ELSE Applied(PoLines(chosen), draft, proposed)
          /\ basis' = [from |-> "answer", lines |-> proposed]
    BY <1>4 DEF Extracted
  <2> DEFINE proposed == Normalised(PoLines(uploads[u]), rows, raw)
  <2>2. ProposedOK(proposed)
    BY NormalisedOK, IntakeAssumption DEF AnswerOK
  <2> HIDE DEF proposed
  <2>3. basis' = [from |-> "answer", lines |-> proposed]
    BY <2>1 DEF proposed
  <2>4. chosen # None => draft' = Applied(PoLines(chosen), draft, proposed)
    BY <2>1 DEF proposed
  <2>5. chosen # None =>
          \A l \in DOMAIN PoLines(chosen) :
            Written(PoLines(chosen)[l], Applied(PoLines(chosen), draft, proposed)[l],
                    Hits(proposed, l), proposed)
    BY <2>2, AppliedWrites DEF FormInv
  <2> QED BY <1>4, <2>3, <2>4, <2>5 DEF Extracted
<1>5. CASE Submit
  BY <1>5 DEF Submit
<1>6. ASSUME NEW o \in Orders, NEW lines \in Posted, Post(o, lines) PROVE DraftInv'
  BY <1>6 DEF Post
<1>7. ASSUME NEW seen, Load(seen) PROVE DraftInv'
  BY <1>7 DEF Load
<1>8. CASE UNCHANGED intakeVars
  BY <1>8 DEF intakeVars
<1> QED BY <1>1, <1>2, <1>3, <1>4, <1>5, <1>6, <1>7, <1>8 DEF IntakeNext

(* What createInvoice accepts is fit to be matched. *)
LEMMA AcceptedLinesOK ==
  ASSUME NEW o, NEW lines, Len(lines) \in Nat, DOMAIN lines = 1 .. Len(lines),
         Acceptable(o, lines)
  PROVE  LinesOK(lines)
BY DEF Acceptable, LinesOK

(* A step stores and loads only what is fit to be matched. *)
LEMMA NextStoredInv == IntakeIInv /\ [IntakeNext]_intakeVars => StoredInv'
<1> SUFFICES ASSUME IntakeIInv, [IntakeNext]_intakeVars PROVE StoredInv'
  OBVIOUS
<1> USE DEF IntakeIInv, StoredInv, Open
<1>1. ASSUME NEW o \in Orders \cup {None}, ChoosePo(o) PROVE StoredInv'
  BY <1>1 DEF ChoosePo
<1>2. ASSUME NEW l \in DOMAIN draft, NEW patch \in Edits, SetLine(l, patch) PROVE StoredInv'
  BY <1>2 DEF SetLine
<1>3. ASSUME NEW u \in Uploads, OnFile(u) \/ ExtractionFails(u) PROVE StoredInv'
  BY <1>3 DEF OnFile, ExtractionFails
<1>4. ASSUME NEW u \in Uploads, NEW raw \in Answers, Extracted(u, raw) PROVE StoredInv'
  BY <1>4 DEF Extracted
<1>5. CASE Submit
  <2> DEFINE pay == Payload(PoLines(chosen), draft)
  <2>1. chosen \in Orders /\ DOMAIN draft = DOMAIN PoLines(chosen)
    BY <1>5 DEF Submit, FormInv
  <2>2. Len(pay) \in Nat /\ DOMAIN pay = 1 .. Len(pay)
    BY <2>1, OrderFacts, PayloadLine
  <2> HIDE DEF pay
  <2>3. LinesOK(pay)
    BY <1>5, <2>2, AcceptedLinesOK DEF Submit, pay
  <2>4. invoice' = [order |-> chosen, lines |-> pay] /\ ctx = None /\ ctx' = ctx
    BY <1>5 DEF Submit, pay
  <2> QED BY <2>1, <2>3, <2>4
<1>6. ASSUME NEW o \in Orders, NEW lines \in Posted, Post(o, lines) PROVE StoredInv'
  <2>1. LinesOK(lines)
    BY <1>6, IntakeAssumption, AcceptedLinesOK DEF Post
  <2> QED BY <1>6, <2>1 DEF Post
<1>7. ASSUME invoice # None, NEW seen \in Seen(invoice.order), Load(seen) PROVE StoredInv'
  <2>1. invoice.order \in Orders
    BY <1>7
  <2>2. ContextOK(ctx')
    BY <1>7, <2>1, OrderFacts DEF Load, ContextOK
  <2> QED BY <1>7, <2>2 DEF Load
<1>8. CASE UNCHANGED intakeVars
  BY <1>8 DEF intakeVars
<1> QED BY <1>1, <1>2, <1>3, <1>4, <1>5, <1>6, <1>7, <1>8 DEF IntakeNext

(* The form, its draft and what it stores are in order in every state. *)
LEMMA IntakeIInvHolds == IntakeSpec => []IntakeIInv
<1>1. IntakeIInv /\ [IntakeNext]_intakeVars => IntakeIInv'
  <2>1. FormInv' /\ DraftInv' /\ StoredInv' => IntakeIInv'
    BY DEF IntakeIInv
  <2> QED BY <2>1, NextFormInv, NextDraftInv, NextStoredInv
<1> QED BY <1>1, InitIntakeIInv, PTL DEF IntakeSpec

-----------------------------------------------------------------------------
(* In every state an invoice that is being matched passes exactly when, as *)
(* a whole, it fits what was ordered and what came in: whatever the form,  *)
(* an extraction or another client made its lines                          *)
(* (matching.ts:150-180, matchInvoiceById).                                *)
THEOREM MatchedIffTotalsFitHolds == IntakeSpec => []MatchedIffTotalsFit
<1>1. IntakeIInv => MatchedIffTotalsFit
  <2> SUFFICES ASSUME IntakeIInv, ctx # None
               PROVE  MatchInvoice(ctx, invoice.lines) = {} <=> Fits(ctx, invoice.lines)
    BY DEF MatchedIffTotalsFit
  <2>1. ContextOK(ctx) /\ LinesOK(invoice.lines)
    BY DEF IntakeIInv, StoredInv
  <2> QED BY <2>1, MatchIsOfTheWhole
<1> QED BY <1>1, IntakeIInvHolds, PTL

(* A draft written from an extraction, and not edited since, bills what    *)
(* the extraction gives each order line (invoice-draft.ts:51-60, 68-78).   *)
THEOREM DraftBillsExtractionHolds == IntakeSpec => []DraftBillsExtraction
<1>1. IntakeIInv => DraftBillsExtraction
  <2> DEFINE po == PoLines(chosen)
             own(l) == [i \in Hits(basis.lines, l) |->
                          IF po[l].kind = "SERVICE" THEN basis.lines[i].amount
                          ELSE basis.lines[i].qty]
  <2> SUFFICES ASSUME IntakeIInv, chosen # None, basis.from = "answer",
                      NEW l \in DOMAIN po, Cardinality(Hits(basis.lines, l)) <= 1
               PROVE  BilledByDraft[l] = Total(Hits(basis.lines, l), own(l))
    BY DEF DraftBillsExtraction
  <2> DEFINE hits == Hits(basis.lines, l)
             mine == own(l)
  <2>1. /\ chosen \in Orders /\ draft \in [DOMAIN po -> [qty : Int, unit : Int]]
        /\ ProposedOK(basis.lines) /\ Written(po[l], draft[l], hits, basis.lines)
    BY DEF IntakeIInv, FormInv, DraftInv
  <2>2. IsFiniteSet(DOMAIN po) /\ OrderOK(po) /\ NoAmount \notin Int
    BY <2>1, OrderFacts, IntakeAssumption
  <2>3. IsFiniteSet(hits)
    <3>1. IsFiniteSet(1 .. Len(basis.lines)) /\ hits \in SUBSET (1 .. Len(basis.lines))
      BY <2>1, FS_Interval DEF ProposedOK, Hits
    <3> QED BY <3>1, FS_Subset
  <2> HIDE DEF hits
  <2>4. hits = {} \/ \E i : hits = {i}
    <3>1. Cardinality(hits) \in Nat /\ Cardinality(hits) <= 1
      BY <2>3, FS_CardinalityType DEF hits
    <3>2. Cardinality(hits) = 0 \/ Cardinality(hits) = 1
      BY <3>1
    <3> QED BY <2>3, <3>2, FS_EmptySet, FS_Singleton
  <2> DEFINE bills == IF draft[l].qty > 0
                      THEN IF po[l].kind = "SERVICE" THEN draft[l].unit ELSE draft[l].qty
                      ELSE 0
  <2>5. (draft[l].qty > 0 => draft[l].unit \in Nat) => BilledByDraft[l] = bills
    <3>1. DOMAIN draft = DOMAIN po /\ draft[l].qty \in Int
      BY <2>1
    <3> QED BY <2>2, <3>1, PayloadBills DEF BilledByDraft
  <2>6. CASE hits = {}
    <3>1. draft[l].qty = 0
      BY <2>1, <2>6 DEF Written
    <3>2. Total(hits, mine) = 0
      BY <2>6, TotalEmpty
    <3> QED BY <2>5, <3>1, <3>2 DEF hits
  <2>7. CASE hits # {}
    <3>1. PICK i : hits = {i}
      BY <2>4, <2>7
    <3>2. /\ basis.lines[i].qty \in Nat \ {0} /\ basis.lines[i].unit \in Nat
          /\ basis.lines[i].amount \in Nat
      BY <2>1, <3>1 DEF hits, Hits, ProposedOK
    <3>3. draft[l] = IF po[l].kind = "SERVICE" THEN [qty |-> 1, unit |-> basis.lines[i].amount]
                     ELSE [qty |-> basis.lines[i].qty, unit |-> basis.lines[i].unit]
      BY <2>1, <3>1 DEF Written
    <3>4. mine[i] = IF po[l].kind = "SERVICE" THEN basis.lines[i].amount ELSE basis.lines[i].qty
      BY <3>1 DEF hits
    <3>5. bills = mine[i] /\ mine[i] \in Nat /\ draft[l].unit \in Nat
      BY <3>2, <3>3, <3>4
    <3>6. Total({i}, mine) = mine[i]
      <4> HIDE DEF mine
      <4> QED BY <3>5, TotalOfOne
    <3> HIDE DEF mine, bills
    <3>7. BilledByDraft[l] = Total(hits, mine)
      BY <2>5, <3>1, <3>5, <3>6
    <3> QED BY <3>7 DEF hits, mine
  <2> QED BY <2>6, <2>7
<1> QED BY <1>1, IntakeIInvHolds, PTL

(* A draft as the order prefills it bills the whole order and passes once  *)
(* everything came in: form, payload and match agree on how a service is   *)
(* billed (invoice-draft.ts:39-45, 68-78; matching.ts:66-96).              *)
THEOREM PrefilledDraftMatchesHolds == IntakeSpec => []PrefilledDraftMatches
<1>1. IntakeIInv => PrefilledDraftMatches
  <2> DEFINE po == PoLines(chosen)
             amount == [l \in DOMAIN po |-> IF po[l].kind = "GOODS" THEN po[l].ordered
                                            ELSE OrderedAmount(po[l])]
             nothing == [l \in DOMAIN po |-> 0]
             c == [po |-> po, received |-> amount, accepted |-> amount, prior |-> nothing]
             pay == Payload(po, draft)
  <2> SUFFICES ASSUME IntakeIInv, chosen # None, basis.from = "order"
               PROVE  BilledByDraft = amount /\ MatchInvoice(c, pay) = {}
    BY DEF PrefilledDraftMatches
  <2>1. chosen \in Orders /\ draft = Prefilled(po)
    BY DEF IntakeIInv, FormInv, DraftInv
  <2>2. IsFiniteSet(DOMAIN po) /\ OrderOK(po) /\ NoAmount \notin Int
    BY <2>1, OrderFacts, IntakeAssumption
  <2> HIDE DEF po
  <2>3. /\ DOMAIN draft = DOMAIN po
        /\ \A l \in DOMAIN po : draft[l].qty \in Nat /\ draft[l].unit \in Nat
    BY <2>1, <2>2, PrefilledType
  <2>4. \A l \in DOMAIN po :
          /\ po[l].kind = "SERVICE" => draft[l].qty = 1 /\ draft[l].unit = OrderedAmount(po[l])
          /\ po[l].kind # "SERVICE" => draft[l].qty = po[l].ordered /\ draft[l].unit = po[l].price
    BY <2>1 DEF Prefilled
  <2>5. \A l \in DOMAIN po : /\ amount[l] \in Nat /\ po[l].kind \in {"GOODS", "SERVICE"}
                             /\ po[l].ordered \in Nat /\ po[l].price \in Nat
                             /\ OrderedAmount(po[l]) \in Nat
    <3>1. \A a, b \in Nat : a * b \in Nat
      OBVIOUS
    <3> QED BY <2>2, <3>1 DEF OrderOK, OrderedAmount
  <2>6. \A l \in DOMAIN po : Summary(po, pay).billed[l] = amount[l]
    <3> SUFFICES ASSUME NEW l \in DOMAIN po PROVE Summary(po, pay).billed[l] = amount[l]
      OBVIOUS
    <3>1. Summary(po, pay).billed[l] =
            IF draft[l].qty > 0
            THEN IF po[l].kind = "SERVICE" THEN draft[l].unit ELSE draft[l].qty
            ELSE 0
      BY <2>2, <2>3, PayloadBills
    <3> QED BY <2>3, <2>4, <2>5, <3>1
  <2>7. BilledByDraft = amount
    <3>1. Summary(po, pay).billed = [l \in DOMAIN po |-> Summary(po, pay).billed[l]]
      BY DEF Summary
    <3>2. Summary(po, pay).billed = amount
      BY <2>6, <3>1
    <3> QED BY <3>2 DEF BilledByDraft, po
  <2>8. LinesOK(pay) /\ \A i \in DOMAIN pay : /\ pay[i].ref \in DOMAIN po
                                              /\ pay[i].unit = draft[pay[i].ref].unit
    <3>1. /\ Len(pay) \in Nat /\ DOMAIN pay = 1 .. Len(pay)
          /\ \A i \in DOMAIN pay : /\ pay[i].ref \in ToBill(draft)
                                   /\ pay[i] = Billing(po, draft, pay[i].ref)
      BY <2>2, <2>3, PayloadLine
    <3> HIDE DEF pay
    <3>2. ASSUME NEW i \in DOMAIN pay
          PROVE  /\ pay[i].ref \in DOMAIN po /\ pay[i].unit = draft[pay[i].ref].unit
                 /\ pay[i].qty \in Nat /\ pay[i].unit \in Nat
                 /\ pay[i].amount \in Nat \cup {NoAmount}
      <4> DEFINE l == pay[i].ref
      <4>1. l \in DOMAIN po
        BY <2>3, <3>1 DEF ToBill
      <4>2. /\ pay[i].unit = draft[l].unit /\ pay[i].qty = draft[l].qty
            /\ pay[i].amount = IF po[l].kind = "SERVICE" THEN draft[l].unit ELSE NoAmount
        BY <3>1 DEF Billing
      <4> QED BY <2>3, <4>1, <4>2
    <3> QED BY <3>1, <3>2 DEF LinesOK
  <2>9. ContextOK(c)
    BY <2>2, <2>5 DEF ContextOK
  <2>10. Fits(c, pay)
    <3>1. Summary(po, pay).clean
      <4>1. ASSUME NEW p \in Nat PROVE PriceWithinTolerance(p, p)
        BY DEF PriceWithinTolerance
      <4>2. ASSUME NEW i \in DOMAIN pay, po[pay[i].ref].kind = "GOODS"
            PROVE  PriceWithinTolerance(po[pay[i].ref].price, pay[i].unit)
        <5>1. pay[i].unit = po[pay[i].ref].price /\ po[pay[i].ref].price \in Nat
          BY <2>4, <2>5, <2>8, <4>2
        <5> QED BY <4>1, <5>1
      <4> QED BY <2>8, <4>2 DEF Summary
    <3>2. \A l \in DOMAIN po : amount[l] = Limits(c)[l]
      BY <2>5 DEF Limits, Least
    <3>3. \A l \in Summary(po, pay).lines :
            c.prior[l] + Summary(po, pay).billed[l] <= Limits(c)[l]
      <4>1. Summary(po, pay).lines \subseteq DOMAIN po
        BY DEF Summary
      <4>2. ASSUME NEW l \in DOMAIN po
            PROVE  c.prior[l] + Summary(po, pay).billed[l] <= Limits(c)[l]
        <5>1. c.prior[l] = 0 /\ Summary(po, pay).billed[l] = amount[l]
          BY <2>6
        <5>2. amount[l] = Limits(c)[l] /\ amount[l] \in Nat
          BY <2>5, <3>2
        <5> QED BY <5>1, <5>2
      <4> QED BY <4>1, <4>2
    <3>4. c.po = po
      OBVIOUS
    <3> HIDE DEF c
    <3> QED BY <3>1, <3>3, <3>4 DEF Fits, WithinLimits
  <2> QED BY <2>7, <2>8, <2>9, <2>10, MatchIsOfTheWhole
<1> QED BY <1>1, IntakeIInvHolds, PTL
=============================================================================
