--------------------------- MODULE OrderingProofs ---------------------------
(***************************************************************************)
(* Budgets are not overspent, for every set of requisitions, budgets,      *)
(* amounts and concurrent calls; and, at the end, orders are mailed while  *)
(* they are open, for every number of sends, other calls and connections.  *)
(***************************************************************************)
EXTENDS Ordering, Sending, FiniteSetTheorems, SequenceTheorems, TLAPS

-----------------------------------------------------------------------------
(* The laws of sums (Totals) that the invariant rests on. *)

(* The units of a finite set of rows are finitely many. *)
LEMMA UnitsFinite ==
  ASSUME NEW S, IsFiniteSet(S), NEW f, \A x \in S : f[x] \in Nat
  PROVE  IsFiniteSet(Units(S, f))
<1> DEFINE family == {{x} \X (1 .. f[x]) : x \in S}
           g == [x \in S |-> {x} \X (1 .. f[x])]
<1>1. g \in Surjection(S, family)
  BY DEF Surjection
<1>2. IsFiniteSet(family)
  BY <1>1, FS_Surjection
<1>3. ASSUME NEW T \in family PROVE IsFiniteSet(T)
  <2>1. PICK x \in S : T = {x} \X (1 .. f[x])
    OBVIOUS
  <2>2. IsFiniteSet({x})
    BY FS_Singleton
  <2>3. IsFiniteSet(1 .. f[x])
    BY f[x] \in Nat, FS_Interval
  <2> QED BY <2>1, <2>2, <2>3, FS_Product
<1> QED BY <1>2, <1>3, FS_UNION DEF Units

(* A sum over a finite set of rows is a natural number. *)
LEMMA TotalType ==
  ASSUME NEW S, IsFiniteSet(S), NEW f, \A x \in S : f[x] \in Nat
  PROVE  Total(S, f) \in Nat
BY UnitsFinite, FS_CardinalityType DEF Total

(* The empty sum. *)
LEMMA TotalEmpty ==
  ASSUME NEW f
  PROVE  Total({}, f) = 0
BY FS_EmptySet DEF Total, Units

(* Adding a row adds its contribution. *)
LEMMA TotalAdd ==
  ASSUME NEW S, IsFiniteSet(S), NEW x, x \notin S, NEW f,
         \A y \in S \cup {x} : f[y] \in Nat
  PROVE  Total(S \cup {x}, f) = Total(S, f) + f[x]
<1> DEFINE A == Units(S, f)
           B == {x} \X (1 .. f[x])
<1>1. Units(S \cup {x}, f) = A \cup B
  BY DEF Units
<1>2. A \cap B = {}
  BY DEF Units
<1>3. IsFiniteSet(A)
  BY UnitsFinite
<1>4. IsFiniteSet(B) /\ Cardinality(B) = f[x]
  <2>1. IsFiniteSet({x}) /\ Cardinality({x}) = 1
    BY FS_Singleton
  <2>2. IsFiniteSet(1 .. f[x]) /\ Cardinality(1 .. f[x]) = f[x]
    BY f[x] \in Nat, FS_Interval
  <2> QED BY <2>1, <2>2, f[x] \in Nat, FS_Product
<1>5. Cardinality(A \cup B) = Cardinality(A) + Cardinality(B) - Cardinality({})
  BY <1>2, <1>3, <1>4, FS_Union
<1>6. Cardinality({}) = 0 /\ Cardinality(A) \in Nat
  BY <1>3, FS_EmptySet, FS_CardinalityType
<1>7. Total(S \cup {x}, f) = Cardinality(A \cup B) /\ Total(S, f) = Cardinality(A)
  BY <1>1 DEF Total
<1> HIDE DEF A, B
<1> QED BY <1>4, <1>5, <1>6, <1>7, f[x] \in Nat

(* A sum over fewer rows is no larger. *)
LEMMA TotalMonotone ==
  ASSUME NEW S, IsFiniteSet(S), NEW T \in SUBSET S, NEW f,
         \A y \in S : f[y] \in Nat
  PROVE  Total(T, f) <= Total(S, f)
<1>1. Units(T, f) \subseteq Units(S, f) /\ IsFiniteSet(Units(S, f))
  BY UnitsFinite DEF Units
<1> QED BY <1>1, FS_Subset DEF Total

(* A sum depends only on the contributions of its own rows. *)
LEMMA TotalCongruence ==
  ASSUME NEW S, NEW f, NEW g, \A x \in S : f[x] = g[x]
  PROVE  Total(S, f) = Total(S, g)
BY DEF Total, Units

-----------------------------------------------------------------------------
(* The fields of a call in each of its phases. *)
LEMMA TxnFields ==
  ASSUME TypeOK, NEW t \in Tx
  PROVE  /\ txn[t] # Idle => txn[t].phase # "idle"
         /\ txn[t].phase \in {"req_held", "budget_read", "order_held"} => txn[t].req \in Req
         /\ txn[t].phase \in {"budget_read", "order_held"} =>
              txn[t].budget \in Budget /\ txn[t].amount \in Nat
         /\ txn[t].phase = "cancel_held" => txn[t].po \in PO
         /\ txn[t].phase \in {"create_read", "edit_read", "archive_read"} =>
              txn[t].budget \in Budget
BY DEF TypeOK, Txns, Idle

-----------------------------------------------------------------------------
(* Type correctness *)

(* The initial state is well typed. *)
LEMMA InitTypeOK == Init => TypeOK
BY OrderingAssumption DEF Init, TypeOK, Txns, Idle, NoReservation

(* Writing a budget row keeps the types. *)
LEMMA WriteBudgetTypeOK ==
  ASSUME TypeOK, NEW t \in Tx, NEW b \in Budget,
         NEW row \in [state: {"none", "active", "archived"}, amount: Nat, currency: Currency],
         WriteBudget(t, b, row)
  PROVE  TypeOK'
<1>1. Higher(peak[b], row.amount) \in Nat
  BY DEF TypeOK, Higher
<1> QED BY <1>1 DEF TypeOK, WriteBudget, End, Idle, Txns

(* Every step keeps every variable in its type. *)
LEMMA NextTypeOK == TypeOK /\ [Next]_vars => TypeOK'
<1> SUFFICES ASSUME TypeOK, [Next]_vars PROVE TypeOK'
  OBVIOUS
<1>0. Idle \in Txns
  BY DEF Txns
<1>1. ASSUME NEW t \in Tx, NEW u \in User, NEW r \in Req, OrderLockRequisition(t, u, r)
      PROVE  TypeOK'
  BY <1>1 DEF TypeOK, OrderLockRequisition, Begin, Txns
<1>2. ASSUME NEW t \in Tx, OrderReadBudget(t) PROVE TypeOK'
  <2>1. txn[t].req \in Req /\ <<Center[txn[t].req], month>> \in Budget
    BY <1>2, TxnFields, OrderingAssumption DEF OrderReadBudget, TypeOK, Budget
  <2>2. budget[<<Center[txn[t].req], month>>] \in
          [state: {"none", "active", "archived"}, amount: Nat, currency: Currency]
    BY <2>1 DEF TypeOK
  <2>3. txn'[t] \in Txns
    BY <1>2, <2>1, <2>2 DEF TypeOK, OrderReadBudget, Proceed, Txns
  <2> QED BY <1>2, <2>3 DEF TypeOK, OrderReadBudget, Proceed
<1>3. ASSUME NEW t \in Tx, OrderLockBudget(t) PROVE TypeOK'
  <2>1. txn[t].req \in Req /\ txn[t].budget \in Budget /\ txn[t].amount \in Nat
    BY <1>3, TxnFields DEF OrderLockBudget
  <2> QED BY <1>3, <2>1 DEF TypeOK, OrderLockBudget, Proceed, Txns
<1>4. ASSUME NEW t \in Tx, OrderCommit(t) PROVE TypeOK'
  <2>1. txn[t].req \in Req /\ txn[t].budget \in Budget /\ Cost[txn[t].req] \in Nat
    BY <1>4, TxnFields, OrderingAssumption DEF OrderCommit
  <2> QED BY <1>0, <1>4, <2>1 DEF TypeOK, OrderCommit, End
<1>5. ASSUME NEW t \in Tx, NEW p \in PO, CancelLock(t, p) PROVE TypeOK'
  BY <1>5 DEF TypeOK, CancelLock, Begin, Txns
<1>6. ASSUME NEW t \in Tx, CancelCommit(t) PROVE TypeOK'
  <2>1. txn[t].po \in PO
    BY <1>6, TxnFields DEF CancelCommit
  <2> QED BY <1>0, <1>6, <2>1 DEF TypeOK, CancelCommit, End, Release, AfterCancel, NoReservation
<1>7. ASSUME NEW t \in Tx, NEW b \in Budget, CreateBudgetRead(t, b) PROVE TypeOK'
  <2>1. (budget[b].state = "archived") \in BOOLEAN
    OBVIOUS
  <2>2. txn'[t] \in Txns
    BY <1>7, <2>1 DEF TypeOK, CreateBudgetRead, Begin, Txns
  <2> QED BY <1>7, <2>2 DEF TypeOK, CreateBudgetRead, Begin
<1>8. ASSUME NEW t \in Tx, NEW b \in Budget, UpdateBudgetRead(t, b) \/ ArchiveBudgetRead(t, b)
      PROVE  TypeOK'
  BY <1>8 DEF TypeOK, UpdateBudgetRead, ArchiveBudgetRead, ExistingBudgetRead, Begin, Txns
<1>9. ASSUME NEW t \in Tx, CreateBudgetWrite(t) PROVE TypeOK'
  <2>1. PICK a \in Amounts, c \in Currency :
          WriteBudget(t, txn[t].budget, [state |-> "active", amount |-> a, currency |-> c])
    BY <1>9 DEF CreateBudgetWrite
  <2>2. txn[t].budget \in Budget /\ a \in Nat
    BY <1>9, TxnFields, OrderingAssumption DEF CreateBudgetWrite
  <2> QED BY <2>1, <2>2, WriteBudgetTypeOK
<1>10. ASSUME NEW t \in Tx, UpdateBudgetWrite(t) PROVE TypeOK'
  <2>1. PICK a \in Amounts :
          WriteBudget(t, txn[t].budget, [budget[txn[t].budget] EXCEPT !.amount = a])
    BY <1>10 DEF UpdateBudgetWrite
  <2>2. txn[t].budget \in Budget /\ a \in Nat
    BY <1>10, TxnFields, OrderingAssumption DEF UpdateBudgetWrite
  <2>3. [budget[txn[t].budget] EXCEPT !.amount = a] \in
          [state: {"none", "active", "archived"}, amount: Nat, currency: Currency]
    BY <2>2 DEF TypeOK
  <2> QED BY <2>1, <2>2, <2>3, WriteBudgetTypeOK
<1>11. ASSUME NEW t \in Tx, ArchiveBudgetWrite(t) PROVE TypeOK'
  <2>1. txn[t].budget \in Budget
    BY <1>11, TxnFields DEF ArchiveBudgetWrite
  <2>2. [budget[txn[t].budget] EXCEPT !.state = "archived"] \in
          [state: {"none", "active", "archived"}, amount: Nat, currency: Currency]
    BY <2>1 DEF TypeOK
  <2> QED BY <1>11, <2>1, <2>2, WriteBudgetTypeOK DEF ArchiveBudgetWrite
<1>12. ASSUME NEW t \in Tx, Abort(t) PROVE TypeOK'
  BY <1>0, <1>12 DEF TypeOK, Abort, End
<1>13. ASSUME NEW r \in Req, NEW outcome \in {"APPROVED", "REJECTED"}, Decide(r, outcome)
       PROVE  TypeOK'
  BY <1>13 DEF TypeOK, Decide
<1>14. CASE NextMonth
  BY <1>14 DEF TypeOK, NextMonth
<1>15. CASE UNCHANGED vars
  BY <1>15 DEF TypeOK, vars
<1> QED BY <1>1, <1>2, <1>3, <1>4, <1>5, <1>6, <1>7, <1>8, <1>9, <1>10, <1>11, <1>12,
           <1>13, <1>14, <1>15 DEF Next

(* The columns of the ordering tables keep their types in every behaviour. *)
THEOREM TypeCorrect == Spec => []TypeOK
<1> QED BY InitTypeOK, NextTypeOK, PTL DEF Spec

-----------------------------------------------------------------------------
(* What is reserved *)

(* The sum of the reservations of a budget is a number. *)
LEMMA ReservedType ==
  ASSUME TypeOK, NEW b \in Budget
  PROVE  /\ IsFiniteSet(ReservedOn(b))
         /\ \A p \in PO : Held[p] \in Nat
         /\ Reserved(b) \in Nat
<1>1. IsFiniteSet(ReservedOn(b))
  BY OrderingAssumption, FS_Subset DEF ReservedOn
<1>2. \A p \in PO : Held[p] \in Nat
  BY DEF TypeOK, Held
<1> QED BY <1>1, <1>2, TotalType DEF Reserved, ReservedOn

(* The same after a step. *)
LEMMA ReservedTypeNext ==
  ASSUME TypeOK', NEW b \in Budget
  PROVE  Reserved(b)' \in Nat
<1>1. IsFiniteSet(ReservedOn(b)')
  BY OrderingAssumption, FS_Subset DEF ReservedOn
<1>2. \A p \in PO : Held'[p] \in Nat
  BY DEF TypeOK, Held
<1> QED BY <1>1, <1>2, TotalType DEF Reserved, ReservedOn

(* A new reservation adds its amount to its budget, and to no other. *)
LEMMA ReservedAfterOrder ==
  ASSUME TypeOK, NEW p \in PO, reservation[p] = NoReservation,
         NEW c \in Budget, NEW n \in Nat, NEW b \in Budget,
         reservation' = [reservation EXCEPT ![p] = [budget |-> c, amount |-> n]]
  PROVE  Reserved(b)' = IF b = c THEN Reserved(b) + n ELSE Reserved(b)
<1>1. p \notin ReservedOn(b) /\ ReservedOn(b) \subseteq PO
  BY OrderingAssumption DEF ReservedOn, NoReservation
<1>2. \A q \in ReservedOn(b) : Held'[q] = Held[q]
  BY <1>1 DEF Held, TypeOK
<1>3. Total(ReservedOn(b), Held') = Reserved(b)
  BY <1>2, TotalCongruence DEF Reserved
<1>4. CASE b = c
  <2>1. ReservedOn(b)' = ReservedOn(b) \cup {p}
    BY <1>4 DEF ReservedOn, TypeOK
  <2>2. Held'[p] = n /\ \A q \in ReservedOn(b) \cup {p} : Held'[q] \in Nat
    BY <1>1, <1>2, ReservedType DEF Held, TypeOK
  <2>3. Total(ReservedOn(b) \cup {p}, Held') = Total(ReservedOn(b), Held') + n
    BY <1>1, <2>2, ReservedType, TotalAdd
  <2> QED BY <1>3, <1>4, <2>1, <2>3 DEF Reserved
<1>5. CASE b # c
  <2>1. ReservedOn(b)' = ReservedOn(b)
    BY <1>1, <1>5 DEF ReservedOn, TypeOK
  <2> QED BY <1>3, <1>5, <2>1 DEF Reserved
<1> QED BY <1>4, <1>5

(* A release takes nothing from any other order. *)
LEMMA ReservedAfterRelease ==
  ASSUME TypeOK, NEW p \in PO, NEW b \in Budget,
         reservation' = [reservation EXCEPT ![p] = NoReservation]
  PROVE  Reserved(b)' <= Reserved(b)
<1>1. ReservedOn(b)' = ReservedOn(b) \ {p}
  BY OrderingAssumption DEF ReservedOn, TypeOK, NoReservation
<1>2. \A q \in ReservedOn(b)' : Held'[q] = Held[q]
  BY <1>1 DEF Held, TypeOK, ReservedOn
<1>3. Reserved(b)' = Total(ReservedOn(b) \ {p}, Held)
  BY <1>1, <1>2, TotalCongruence DEF Reserved
<1>4. Total(ReservedOn(b) \ {p}, Held) <= Total(ReservedOn(b), Held)
  BY ReservedType, TotalMonotone DEF ReservedOn
<1> QED BY <1>3, <1>4 DEF Reserved

-----------------------------------------------------------------------------
(* The inductive invariant: besides the properties themselves, only one    *)
(* call at a time holds a budget row, the amount a call has read was given *)
(* to the budget once, and the budget belongs to the requisition.          *)

Locked(t) == txn[t].phase = "order_held"

LockExclusive ==
  \A t, u \in Tx : Locked(t) /\ Locked(u) /\ txn[t].budget = txn[u].budget => t = u

ReadsWereGiven ==
  /\ \A b \in Budget : budget[b].amount <= peak[b]
  /\ \A t \in Tx : txn[t].phase \in {"budget_read", "order_held"} =>
       txn[t].amount <= peak[txn[t].budget]

BudgetsBelong ==
  /\ \A t \in Tx : txn[t].phase \in {"budget_read", "order_held"} =>
       \E m \in Month : txn[t].budget = <<Center[txn[t].req], m>>
  /\ \A p \in PO : order[p].status = "OPEN" => order[p].req \in Req

IInv ==
  /\ TypeOK
  /\ LockExclusive
  /\ ReadsWereGiven
  /\ HolderHasRoom
  /\ NoDoubleSpend
  /\ BudgetsBelong
  /\ ReservedWhileOpen

(* Nothing is reserved at first, and nobody holds anything. *)
LEMMA InitIInv == Init => IInv
<1> SUFFICES ASSUME Init PROVE IInv
  OBVIOUS
<1>1. TypeOK
  BY InitTypeOK
<1>2. \A t \in Tx : txn[t].phase = "idle"
  BY DEF Init, Idle
<1>3. LockExclusive /\ HolderHasRoom /\ BudgetsBelong
  BY <1>2 DEF LockExclusive, Locked, HolderHasRoom, BudgetsBelong, Init
<1>4. ReadsWereGiven
  BY <1>2 DEF ReadsWereGiven, Init
<1>5. NoDoubleSpend
  <2>1. \A b \in Budget : ReservedOn(b) = {}
    BY OrderingAssumption DEF ReservedOn, Init, NoReservation
  <2>2. \A b \in Budget : Reserved(b) = 0 /\ peak[b] = 0
    BY <2>1, TotalEmpty DEF Reserved, Init
  <2> QED BY <2>2 DEF NoDoubleSpend
<1>6. ReservedWhileOpen
  BY DEF ReservedWhileOpen, Init
<1> QED BY <1>1, <1>3, <1>4, <1>5, <1>6 DEF IInv

(* A step that neither touches the reservations and orders nor lowers a    *)
(* peak keeps the promises about them.                                     *)
LEMMA SumsKept ==
  ASSUME IInv, TypeOK', UNCHANGED <<order, reservation>>,
         \A b \in Budget : peak[b] <= peak'[b]
  PROVE  /\ \A b \in Budget : Reserved(b)' = Reserved(b)
         /\ NoDoubleSpend' /\ ReservedWhileOpen'
         /\ \A p \in PO : order'[p].status = "OPEN" => order'[p].req \in Req
<1> USE DEF IInv
<1>1. \A b \in Budget : Reserved(b)' = Reserved(b)
  BY DEF Reserved, ReservedOn, Held
<1>2. NoDoubleSpend'
  <2> SUFFICES ASSUME NEW b \in Budget PROVE Reserved(b)' <= peak'[b]
    BY DEF NoDoubleSpend
  <2>1. Reserved(b) \in Nat /\ peak[b] \in Nat /\ peak'[b] \in Nat
    BY ReservedType DEF TypeOK
  <2> QED BY <1>1, <2>1 DEF NoDoubleSpend
<1>3. ReservedWhileOpen'
  BY DEF ReservedWhileOpen
<1> QED BY <1>1, <1>2, <1>3 DEF BudgetsBelong

(* A call that neither comes to hold a budget row nor reads a budget       *)
(* leaves the promises about the other calls alone, as long as it reserves *)
(* nothing on the rows they hold.                                          *)
LEMMA OthersKept ==
  ASSUME IInv, TypeOK', NEW t \in Tx, NEW s,
         txn' = [txn EXCEPT ![t] = s], s.phase \notin {"budget_read", "order_held"},
         \A b \in Budget : peak[b] <= peak'[b],
         \A u \in Tx \ {t}, b \in Budget :
           Locked(u) /\ txn[u].budget = b => Reserved(b)' <= Reserved(b)
  PROVE  /\ LockExclusive' /\ HolderHasRoom'
         /\ \A u \in Tx : txn'[u].phase \in {"budget_read", "order_held"} =>
              /\ txn'[u].amount <= peak'[txn'[u].budget]
              /\ \E m \in Month : txn'[u].budget = <<Center[txn'[u].req], m>>
<1> USE DEF IInv
<1>1. txn'[t] = s /\ \A u \in Tx \ {t} : txn'[u] = txn[u]
  BY DEF TypeOK
<1>2. LockExclusive'
  BY <1>1 DEF LockExclusive, Locked
<1>3. HolderHasRoom'
  <2> SUFFICES ASSUME NEW u \in Tx, NEW b \in Budget,
                      txn'[u].phase = "order_held", txn'[u].budget = b
               PROVE  Reserved(b)' + Cost[txn'[u].req] <= txn'[u].amount
    BY DEF HolderHasRoom
  <2>1. u # t /\ txn'[u] = txn[u]
    BY <1>1
  <2>2. txn[u].req \in Req /\ txn[u].amount \in Nat
    BY <2>1, TxnFields
  <2>3. Reserved(b) \in Nat /\ Cost[txn[u].req] \in Nat
    BY <2>2, ReservedType, OrderingAssumption
  <2>4. Reserved(b)' \in Nat
    BY ReservedTypeNext
  <2>5. Reserved(b)' <= Reserved(b)
    BY <2>1 DEF Locked
  <2>6. Reserved(b) + Cost[txn[u].req] <= txn[u].amount
    BY <2>1 DEF HolderHasRoom
  <2> QED BY <2>1, <2>2, <2>3, <2>4, <2>5, <2>6
<1>4. ASSUME NEW u \in Tx, txn'[u].phase \in {"budget_read", "order_held"}
      PROVE  /\ txn'[u].amount <= peak'[txn'[u].budget]
             /\ \E m \in Month : txn'[u].budget = <<Center[txn'[u].req], m>>
  <2>1. u # t /\ txn'[u] = txn[u]
    BY <1>1, <1>4
  <2>2. txn[u].budget \in Budget /\ txn[u].amount \in Nat
    BY <1>4, <2>1, TxnFields
  <2>3. txn[u].amount <= peak[txn[u].budget] /\ peak[txn[u].budget] <= peak'[txn[u].budget]
    BY <1>4, <2>1, <2>2 DEF ReadsWereGiven
  <2>4. txn[u].amount <= peak'[txn[u].budget]
    BY <2>2, <2>3 DEF TypeOK
  <2> QED BY <1>4, <2>1, <2>4 DEF BudgetsBelong
<1> QED BY <1>2, <1>3, <1>4

(* A call that only changes its own phase keeps the invariant. *)
LEMMA PhaseKept ==
  ASSUME IInv, TypeOK', NEW t \in Tx, NEW s,
         txn' = [txn EXCEPT ![t] = s], s.phase \notin {"budget_read", "order_held"},
         UNCHANGED <<order, reservation, budget, peak>>
  PROVE  IInv'
<1> USE DEF IInv
<1>1. \A b \in Budget : peak[b] <= peak'[b]
  BY DEF TypeOK
<1>2. /\ \A b \in Budget : Reserved(b)' = Reserved(b)
      /\ NoDoubleSpend' /\ ReservedWhileOpen'
      /\ \A p \in PO : order'[p].status = "OPEN" => order'[p].req \in Req
  BY <1>1, SumsKept
<1>3. \A c \in Budget : Reserved(c)' <= Reserved(c)
  BY <1>2, ReservedType
<1> QED BY <1>1, <1>2, <1>3, OthersKept DEF ReadsWereGiven, BudgetsBelong

(* A written budget row never lowers what a budget was given at most. *)
LEMMA WriteKept ==
  ASSUME IInv, TypeOK', NEW t \in Tx, NEW b \in Budget, NEW row, row.amount \in Nat,
         WriteBudget(t, b, row)
  PROVE  IInv'
<1> USE DEF IInv
<1>1. \A c \in Budget : peak[c] <= peak'[c] /\ budget'[c].amount <= peak'[c]
  <2> SUFFICES ASSUME NEW c \in Budget
               PROVE  peak[c] <= peak'[c] /\ budget'[c].amount <= peak'[c]
    OBVIOUS
  <2>1. budget[c].amount <= peak[c] /\ peak[c] \in Nat /\ budget[c].amount \in Nat
    BY DEF ReadsWereGiven, TypeOK
  <2>2. CASE c = b
    BY <2>1, <2>2 DEF WriteBudget, Higher, TypeOK
  <2>3. CASE c # b
    BY <2>1, <2>3 DEF WriteBudget, TypeOK
  <2> QED BY <2>2, <2>3
<1>2. /\ \A c \in Budget : Reserved(c)' = Reserved(c)
      /\ NoDoubleSpend' /\ ReservedWhileOpen'
      /\ \A p \in PO : order'[p].status = "OPEN" => order'[p].req \in Req
  BY <1>1, SumsKept DEF WriteBudget
<1>3. \A c \in Budget : Reserved(c)' <= Reserved(c)
  BY <1>2, ReservedType
<1>4. txn' = [txn EXCEPT ![t] = Idle] /\ Idle.phase \notin {"budget_read", "order_held"}
  BY DEF WriteBudget, End, Idle
<1> QED BY <1>1, <1>2, <1>3, <1>4, OthersKept DEF ReadsWereGiven, BudgetsBelong

(* Steps outside the calls and the tables of orders and budgets. *)
LEMMA NothingKept ==
  ASSUME IInv, TypeOK', UNCHANGED <<order, reservation, budget, peak, txn>>
  PROVE  IInv'
<1>1. \A b \in Budget : Reserved(b)' = Reserved(b)
  BY DEF Reserved, ReservedOn, Held
<1> QED BY <1>1 DEF IInv, LockExclusive, Locked, ReadsWereGiven, HolderHasRoom,
                    NoDoubleSpend, BudgetsBelong, ReservedWhileOpen

(* What a call reads of a budget was given to it. *)
LEMMA ReadBudgetKept ==
  ASSUME IInv, TypeOK', NEW t \in Tx, OrderReadBudget(t)
  PROVE  IInv'
<1> USE DEF IInv
<1> DEFINE r == txn[t].req
           b == <<Center[r], month>>
<1>1. r \in Req /\ b \in Budget /\ month \in Month
  BY TxnFields, OrderingAssumption DEF OrderReadBudget, TypeOK, Budget
<1>2. /\ txn'[t] = [phase |-> "budget_read", req |-> r, budget |-> b,
                    amount |-> budget[b].amount, currency |-> budget[b].currency]
      /\ \A u \in Tx \ {t} : txn'[u] = txn[u]
  BY DEF OrderReadBudget, Proceed, TypeOK
<1>3. UNCHANGED <<order, reservation, budget, peak>>
  BY DEF OrderReadBudget
<1>4. \A c \in Budget : Reserved(c)' = Reserved(c)
  BY <1>3 DEF Reserved, ReservedOn, Held
<1>5. LockExclusive' /\ HolderHasRoom'
  BY <1>2, <1>4 DEF LockExclusive, Locked, HolderHasRoom
<1>6. ReadsWereGiven'
  BY <1>1, <1>2, <1>3 DEF ReadsWereGiven
<1>7. BudgetsBelong'
  BY <1>1, <1>2, <1>3 DEF BudgetsBelong
<1>8. NoDoubleSpend' /\ ReservedWhileOpen'
  BY <1>3, <1>4 DEF NoDoubleSpend, ReservedWhileOpen
<1> QED BY <1>5, <1>6, <1>7, <1>8

(* A call that comes to hold a budget row is the only one, and has room.   *)
LEMMA LockBudgetKept ==
  ASSUME IInv, TypeOK', NEW t \in Tx, OrderLockBudget(t)
  PROVE  IInv'
<1> USE DEF IInv
<1> DEFINE r == txn[t].req
<1>1. PICK b \in Budget : b = txn[t].budget
  BY TxnFields DEF OrderLockBudget
<1>2. r \in Req /\ txn[t].amount \in Nat /\ Cost[r] \in Nat /\ Reserved(b) \in Nat
  BY TxnFields, ReservedType, OrderingAssumption DEF OrderLockBudget
<1>3. /\ txn'[t] = [phase |-> "order_held", req |-> r, budget |-> b, amount |-> txn[t].amount]
      /\ \A u \in Tx \ {t} : txn'[u] = txn[u]
  BY <1>1 DEF OrderLockBudget, Proceed, TypeOK
<1>4. UNCHANGED <<order, reservation, budget, peak>>
  BY DEF OrderLockBudget
<1>5. \A c \in Budget : Reserved(c)' = Reserved(c)
  BY <1>4 DEF Reserved, ReservedOn, Held
<1>6. \A u \in Tx : Locked(u) => txn[u].budget # b
  BY <1>1 DEF OrderLockBudget, BudgetFree, Locked
<1>7. LockExclusive'
  BY <1>3, <1>6 DEF LockExclusive, Locked
<1>8. Cost[r] <= txn[t].amount - Reserved(b)
  BY <1>1 DEF OrderLockBudget, Guard
<1>9. Reserved(b) + Cost[r] <= txn[t].amount
  BY <1>2, <1>8
<1>10. HolderHasRoom'
  BY <1>3, <1>5, <1>9 DEF HolderHasRoom
<1>11. ReadsWereGiven'
  BY <1>1, <1>3, <1>4 DEF ReadsWereGiven, OrderLockBudget
<1>12. BudgetsBelong'
  BY <1>1, <1>3, <1>4 DEF BudgetsBelong, OrderLockBudget
<1>13. NoDoubleSpend' /\ ReservedWhileOpen'
  BY <1>4, <1>5 DEF NoDoubleSpend, ReservedWhileOpen
<1> QED BY <1>7, <1>10, <1>11, <1>12, <1>13

(* An order takes what it had room for, of the row it alone holds. *)
LEMMA CommitKept ==
  ASSUME IInv, TypeOK', NEW t \in Tx, OrderCommit(t)
  PROVE  IInv'
<1> USE DEF IInv
<1> DEFINE r == txn[t].req
<1>1. PICK b \in Budget : b = txn[t].budget
  BY TxnFields DEF OrderCommit
<1>2. r \in Req /\ txn[t].amount \in Nat /\ Cost[r] \in Nat
  BY TxnFields, OrderingAssumption DEF OrderCommit
<1>3. PICK p \in PO :
        /\ order[p].status = "NONE"
        /\ order' = [order EXCEPT ![p] = [req |-> r, status |-> "OPEN"]]
        /\ reservation' = [reservation EXCEPT ![p] = [budget |-> b, amount |-> Cost[r]]]
  BY <1>1 DEF OrderCommit
<1>4. reservation[p] = NoReservation
  BY <1>3 DEF ReservedWhileOpen
<1>5. \A c \in Budget : Reserved(c)' = IF c = b THEN Reserved(c) + Cost[r] ELSE Reserved(c)
  <2>1. PICK n \in Nat : n = Cost[r]
    BY <1>2
  <2>2. reservation' = [reservation EXCEPT ![p] = [budget |-> b, amount |-> n]]
    BY <1>3, <2>1
  <2>3. \A c \in Budget : Reserved(c)' = IF c = b THEN Reserved(c) + n ELSE Reserved(c)
    BY <1>4, <2>2, ReservedAfterOrder
  <2> QED BY <2>1, <2>3
<1>6. UNCHANGED <<budget, peak>> /\ txn' = [txn EXCEPT ![t] = Idle]
  BY DEF OrderCommit, End
<1>7. Idle.phase \notin {"budget_read", "order_held"}
  BY DEF Idle
<1>8. Locked(t) /\ \A u \in Tx \ {t} : Locked(u) => txn[u].budget # b
  BY <1>1 DEF OrderCommit, Locked, LockExclusive
<1>9. \A u \in Tx \ {t}, c \in Budget :
        Locked(u) /\ txn[u].budget = c => Reserved(c)' <= Reserved(c)
  BY <1>5, <1>8, ReservedType
<1>10. \A c \in Budget : peak[c] <= peak'[c]
  BY <1>6 DEF TypeOK
<1>11. /\ LockExclusive' /\ HolderHasRoom'
       /\ \A u \in Tx : txn'[u].phase \in {"budget_read", "order_held"} =>
            /\ txn'[u].amount <= peak'[txn'[u].budget]
            /\ \E m \in Month : txn'[u].budget = <<Center[txn'[u].req], m>>
  BY <1>6, <1>7, <1>9, <1>10, OthersKept
<1>12. NoDoubleSpend'
  <2> SUFFICES ASSUME NEW c \in Budget PROVE Reserved(c)' <= peak'[c]
    BY DEF NoDoubleSpend
  <2>1. CASE c = b
    <3>1. Reserved(b) + Cost[r] <= txn[t].amount
      BY <1>1, <1>8 DEF HolderHasRoom, Locked
    <3>2. txn[t].amount <= peak[b] /\ peak[b] \in Nat /\ Reserved(b) \in Nat
      BY <1>1, <1>8, ReservedType DEF ReadsWereGiven, Locked, TypeOK
    <3> QED BY <1>2, <1>5, <1>6, <2>1, <3>1, <3>2
  <2>2. CASE c # b
    BY <1>5, <1>6, <2>2 DEF NoDoubleSpend
  <2> QED BY <2>1, <2>2
<1>13. BudgetsBelong'
  <2>1. \A q \in PO : order'[q].status = "OPEN" => order'[q].req \in Req
    BY <1>2, <1>3 DEF BudgetsBelong, TypeOK
  <2> QED BY <1>11, <2>1 DEF BudgetsBelong
<1>14. ReservedWhileOpen'
  <2> SUFFICES ASSUME NEW q \in PO
               PROVE  IF order'[q].status = "OPEN"
                      THEN \E m \in Month : reservation'[q] =
                             [budget |-> <<Center[order'[q].req], m>>,
                              amount |-> Cost[order'[q].req]]
                      ELSE reservation'[q] = NoReservation
    BY DEF ReservedWhileOpen
  <2>1. CASE q = p
    <3>1. PICK m \in Month : b = <<Center[r], m>>
      BY <1>1, <1>8 DEF BudgetsBelong, Locked
    <3>2. order'[p] = [req |-> r, status |-> "OPEN"]
          /\ reservation'[p] = [budget |-> b, amount |-> Cost[r]]
      BY <1>3 DEF TypeOK
    <3> QED BY <2>1, <3>1, <3>2
  <2>2. CASE q # p
    <3>1. order'[q] = order[q] /\ reservation'[q] = reservation[q]
      BY <1>3, <2>2 DEF TypeOK
    <3> QED BY <3>1 DEF ReservedWhileOpen
  <2> QED BY <2>1, <2>2
<1>15. ReadsWereGiven'
  BY <1>6, <1>11 DEF ReadsWereGiven
<1> QED BY <1>11, <1>12, <1>13, <1>14, <1>15

(* A cancellation only makes room. *)
LEMMA CancelKept ==
  ASSUME IInv, TypeOK', NEW t \in Tx, CancelCommit(t)
  PROVE  IInv'
<1> USE DEF IInv
<1>1. PICK p \in PO : p = txn[t].po
  BY TxnFields DEF CancelCommit
<1>2. /\ order' = [order EXCEPT ![p].status = "CANCELLED"]
      /\ reservation' = [reservation EXCEPT ![p] = NoReservation]
      /\ UNCHANGED <<budget, peak>>
      /\ txn' = [txn EXCEPT ![t] = Idle]
  BY <1>1 DEF CancelCommit, Release, End
<1>3. \A c \in Budget : Reserved(c)' <= Reserved(c)
  BY <1>2, ReservedAfterRelease
<1>4. \A c \in Budget : peak[c] <= peak'[c]
  BY <1>2 DEF TypeOK
<1>5. Idle.phase \notin {"budget_read", "order_held"}
  BY DEF Idle
<1>6. /\ LockExclusive' /\ HolderHasRoom'
      /\ \A u \in Tx : txn'[u].phase \in {"budget_read", "order_held"} =>
           /\ txn'[u].amount <= peak'[txn'[u].budget]
           /\ \E m \in Month : txn'[u].budget = <<Center[txn'[u].req], m>>
  BY <1>2, <1>3, <1>4, <1>5, OthersKept
<1>7. NoDoubleSpend'
  <2> SUFFICES ASSUME NEW c \in Budget PROVE Reserved(c)' <= peak'[c]
    BY DEF NoDoubleSpend
  <2>1. Reserved(c)' \in Nat /\ Reserved(c) \in Nat /\ peak[c] \in Nat /\ peak'[c] = peak[c]
    BY <1>2, ReservedType, ReservedTypeNext DEF TypeOK
  <2> QED BY <1>3, <2>1 DEF NoDoubleSpend
<1>8. BudgetsBelong'
  BY <1>2, <1>6 DEF BudgetsBelong, TypeOK
<1>9. ReservedWhileOpen'
  BY <1>2 DEF ReservedWhileOpen, TypeOK
<1>10. ReadsWereGiven'
  BY <1>2, <1>6 DEF ReadsWereGiven
<1> QED BY <1>6, <1>7, <1>8, <1>9, <1>10

(* Every step keeps the invariant. *)
LEMMA NextIInv == IInv /\ [Next]_vars => IInv'
<1> SUFFICES ASSUME IInv, [Next]_vars PROVE IInv'
  OBVIOUS
<1>0. TypeOK /\ TypeOK'
  BY NextTypeOK DEF IInv
<1>1. ASSUME NEW t \in Tx, NEW u \in User, NEW r \in Req, OrderLockRequisition(t, u, r)
      PROVE  IInv'
  <2> DEFINE s == [phase |-> "req_held", req |-> r]
  <2>1. s.phase \notin {"budget_read", "order_held"}
    OBVIOUS
  <2>2. txn' = [txn EXCEPT ![t] = s] /\ UNCHANGED <<order, reservation, budget, peak>>
    BY <1>1 DEF OrderLockRequisition, Begin
  <2> HIDE DEF s
  <2> QED BY <1>0, <2>1, <2>2, PhaseKept
<1>2. ASSUME NEW t \in Tx, NEW p \in PO, CancelLock(t, p) PROVE IInv'
  <2> DEFINE s == [phase |-> "cancel_held", po |-> p]
  <2>1. s.phase \notin {"budget_read", "order_held"}
    OBVIOUS
  <2>2. txn' = [txn EXCEPT ![t] = s] /\ UNCHANGED <<order, reservation, budget, peak>>
    BY <1>2 DEF CancelLock, Begin
  <2> HIDE DEF s
  <2> QED BY <1>0, <2>1, <2>2, PhaseKept
<1>3. ASSUME NEW t \in Tx, NEW b \in Budget,
             CreateBudgetRead(t, b) \/ UpdateBudgetRead(t, b) \/ ArchiveBudgetRead(t, b)
      PROVE  IInv'
  <2>1. PICK s \in Txns : /\ s.phase \notin {"budget_read", "order_held"}
                          /\ txn' = [txn EXCEPT ![t] = s]
    <3> DEFINE c == [phase |-> "create_read", budget |-> b,
                     restore |-> budget[b].state = "archived"]
               e == [phase |-> "edit_read", budget |-> b]
               a == [phase |-> "archive_read", budget |-> b]
    <3>1. (budget[b].state = "archived") \in BOOLEAN
      OBVIOUS
    <3>2. c \in Txns /\ e \in Txns /\ a \in Txns
      BY <3>1 DEF Txns
    <3>3. \A s \in {c, e, a} : s.phase \notin {"budget_read", "order_held"}
      OBVIOUS
    <3>4. \E s \in {c, e, a} : txn' = [txn EXCEPT ![t] = s]
      BY <1>3 DEF CreateBudgetRead, UpdateBudgetRead, ArchiveBudgetRead,
                  ExistingBudgetRead, Begin
    <3> HIDE DEF c, e, a
    <3> QED BY <3>2, <3>3, <3>4
  <2>2. UNCHANGED <<order, reservation, budget, peak>>
    BY <1>3 DEF CreateBudgetRead, UpdateBudgetRead, ArchiveBudgetRead, ExistingBudgetRead
  <2> QED BY <1>0, <2>1, <2>2, PhaseKept
<1>4. ASSUME NEW t \in Tx, Abort(t) PROVE IInv'
  <2>1. Idle.phase \notin {"budget_read", "order_held"}
    BY DEF Idle
  <2> QED BY <1>0, <1>4, <2>1, PhaseKept DEF Abort, End
<1>5. ASSUME NEW t \in Tx, CreateBudgetWrite(t) PROVE IInv'
  <2>1. PICK a \in Amounts, c \in Currency :
          WriteBudget(t, txn[t].budget, [state |-> "active", amount |-> a, currency |-> c])
    BY <1>5 DEF CreateBudgetWrite
  <2>2. txn[t].budget \in Budget /\ a \in Nat
    BY <1>0, <1>5, TxnFields, OrderingAssumption DEF CreateBudgetWrite
  <2> QED BY <1>0, <2>1, <2>2, WriteKept
<1>6. ASSUME NEW t \in Tx, UpdateBudgetWrite(t) PROVE IInv'
  <2>1. PICK a \in Amounts :
          WriteBudget(t, txn[t].budget, [budget[txn[t].budget] EXCEPT !.amount = a])
    BY <1>6 DEF UpdateBudgetWrite
  <2>2. txn[t].budget \in Budget /\ a \in Nat
    BY <1>0, <1>6, TxnFields, OrderingAssumption DEF UpdateBudgetWrite
  <2>3. [budget[txn[t].budget] EXCEPT !.amount = a].amount \in Nat
    BY <1>0, <2>2 DEF TypeOK
  <2> QED BY <1>0, <2>1, <2>2, <2>3, WriteKept
<1>7. ASSUME NEW t \in Tx, ArchiveBudgetWrite(t) PROVE IInv'
  <2>1. txn[t].budget \in Budget
    BY <1>0, <1>7, TxnFields DEF ArchiveBudgetWrite
  <2>2. [budget[txn[t].budget] EXCEPT !.state = "archived"].amount \in Nat
    BY <1>0, <2>1 DEF TypeOK
  <2> QED BY <1>0, <1>7, <2>1, <2>2, WriteKept DEF ArchiveBudgetWrite
<1>8. ASSUME NEW r \in Req, NEW outcome \in {"APPROVED", "REJECTED"}, Decide(r, outcome)
      PROVE  IInv'
  BY <1>0, <1>8, NothingKept DEF Decide
<1>9. CASE NextMonth \/ UNCHANGED vars
  BY <1>0, <1>9, NothingKept DEF NextMonth, vars
<1> QED BY <1>0, <1>1, <1>2, <1>3, <1>4, <1>5, <1>6, <1>7, <1>8, <1>9, ReadBudgetKept,
           LockBudgetKept, CommitKept, CancelKept DEF Next

(* The strengthened invariant holds in every behaviour. *)
LEMMA Inductive == Spec => []IInv
BY InitIInv, NextIInv, PTL DEF Spec

(* However buyers and finance interleave, all reservations against a       *)
(* budget stay within the largest amount it was ever given.                *)
THEOREM BudgetNotOverspent == Spec => []NoDoubleSpend
<1>1. IInv => NoDoubleSpend
  BY DEF IInv
<1> QED BY <1>1, Inductive, PTL

(* Room that an order was promised stays its own until it commits. *)
THEOREM RoomIsKept == Spec => []HolderHasRoom
<1>1. IInv => HolderHasRoom
  BY DEF IInv
<1> QED BY <1>1, Inductive, PTL

(* Exactly the open orders hold a reservation, of the right amount and on  *)
(* a budget of the right cost center.                                      *)
THEOREM ReservationsMatchOrders == Spec => []ReservedWhileOpen
<1>1. IInv => ReservedWhileOpen
  BY DEF IInv
<1> QED BY <1>1, Inductive, PTL

-----------------------------------------------------------------------------
(* The mails of orders (Sending).  A send goes by the status it read       *)
(* without a lock.  Until its mail leaves, its order is still open or is   *)
(* known to be overtaken; each mail is then audited, unaudited, or in the  *)
(* hands of a call that has yet to do either.                              *)

SendPhase == {"check", "wait", "reading", "send", "mailed"}

CallOK(c) ==
  /\ call[c] \in [phase: {"idle", "begin", "update"} \cup SendPhase,
                  po: Order \cup {None}, reads: Nat]
  /\ call[c] # NoCall => call[c].phase # "idle" /\ call[c].po \in Order
  /\ call[c].phase \in SendPhase => c \in Sender

(* A call waits in the queue once, before its transaction or for a read. *)
Queued == {"begin", "wait"}

QueueOK ==
  /\ queue \in Seq(Call)
  /\ \A i \in DOMAIN queue : call[queue[i]].phase \in Queued
  /\ \A i, j \in DOMAIN queue : queue[i] = queue[j] => i = j

SendTypeOK ==
  /\ status \in [Order -> {"OPEN", "CANCELLED", "CLOSED"}]
  /\ DOMAIN call = Call /\ \A c \in Call : CallOK(c)
  /\ QueueOK
  /\ mailed \in [Order -> Nat] /\ audited \in [Order -> Nat] /\ unaudited \in [Order -> Nat]
  /\ overtaken \subseteq Order

OpenOrOvertaken ==
  \A c \in Call : call[c].phase \in {"wait", "reading", "send"} =>
    status[call[c].po] = "OPEN" \/ call[c].po \in overtaken

(* The calls that have mailed order p and not yet said so. *)
Mailers(p) == {c \in Call : call[c].phase = "mailed" /\ call[c].po = p}

MailsAddUp ==
  \A p \in Order : mailed[p] = audited[p] + unaudited[p] + Cardinality(Mailers(p))

SendIInv == SendTypeOK /\ OpenOrOvertaken /\ MailsAddUp

(* A step of call c leaves the other calls alone. *)
OnlyMoves(c) ==
  DOMAIN call' = Call /\ \A d \in Call \ {c} : call'[d] = call[d]

LEMMA QueueSame ==
  ASSUME QueueOK, NEW c \in Call, OnlyMoves(c), queue' = queue,
         call[c].phase \notin Queued
  PROVE  QueueOK'
<1>1. \A i \in DOMAIN queue : queue[i] \in Call
  BY DEF QueueOK
<1>2. \A i \in DOMAIN queue : call'[queue[i]].phase \in Queued
  BY <1>1 DEF QueueOK, OnlyMoves
<1> QED BY <1>2 DEF QueueOK, Call

LEMMA QueueAppend ==
  ASSUME QueueOK, NEW c \in Call, OnlyMoves(c), queue' = Append(queue, c),
         call[c].phase \notin Queued, call'[c].phase \in Queued
  PROVE  QueueOK'
<1> DEFINE n == Len(queue)
<1>1. queue \in Seq(Call) /\ n \in Nat /\ DOMAIN queue = 1 .. n
  BY LenProperties DEF QueueOK
<1>2. /\ queue' \in Seq(Call) /\ DOMAIN queue' = 1 .. n + 1
      /\ \A i \in 1 .. n : queue'[i] = queue[i]
      /\ queue'[n + 1] = c
  BY <1>1, AppendProperties, LenProperties
<1>3. \A i \in 1 .. n : queue[i] \in Call \ {c}
  BY <1>1 DEF QueueOK
<1>4. \A i \in 1 .. n + 1 : i \in 1 .. n \/ i = n + 1
  BY <1>1
<1>5. \A i \in DOMAIN queue' : call'[queue'[i]].phase \in Queued
  BY <1>1, <1>2, <1>3, <1>4 DEF QueueOK, OnlyMoves
<1>6. \A i, j \in DOMAIN queue' : queue'[i] = queue'[j] => i = j
  BY <1>1, <1>2, <1>3, <1>4 DEF QueueOK
<1> QED BY <1>2, <1>5, <1>6 DEF QueueOK, Call, Queued

LEMMA QueueTail ==
  ASSUME QueueOK, NEW c \in Call, OnlyMoves(c),
         queue # <<>>, Head(queue) = c, queue' = Tail(queue)
  PROVE  QueueOK'
<1> DEFINE n == Len(queue)
<1>1. queue \in Seq(Call) /\ n \in Nat /\ DOMAIN queue = 1 .. n
  BY LenProperties DEF QueueOK
<1>2. n # 0 /\ queue[1] = c
  BY <1>1, EmptySeq
<1>3. /\ queue' \in Seq(Call) /\ DOMAIN queue' = 1 .. n - 1
      /\ \A i \in 1 .. n - 1 : queue'[i] = queue[i + 1]
  BY <1>1, HeadTailProperties, LenProperties
<1>4. \A i \in 1 .. n - 1 : i + 1 \in 1 .. n /\ i + 1 # 1
  BY <1>1
<1>5. \A i \in 1 .. n - 1 : queue[i + 1] \in Call \ {c}
  BY <1>1, <1>2, <1>4 DEF QueueOK
<1>6. \A i \in DOMAIN queue' : call'[queue'[i]].phase \in Queued
  BY <1>1, <1>3, <1>4, <1>5 DEF QueueOK, OnlyMoves
<1>7. \A i, j \in DOMAIN queue' : queue'[i] = queue'[j] => i = j
  BY <1>1, <1>3, <1>4 DEF QueueOK
<1> QED BY <1>3, <1>6, <1>7 DEF QueueOK, Call

(* The Mailers after a step of call c. *)
LEMMA MailersAfter ==
  ASSUME SendTypeOK, IsFiniteSet(Call), NEW c \in Call, OnlyMoves(c), NEW p
  PROVE  /\ Cardinality(Mailers(p)) \in Nat
         /\ call[c].phase # "mailed" /\ call'[c].phase # "mailed" =>
              Cardinality(Mailers(p)') = Cardinality(Mailers(p))
         /\ call[c].phase # "mailed" /\ call'[c].phase = "mailed" =>
              Cardinality(Mailers(p)') =
                Cardinality(Mailers(p)) + (IF call'[c].po = p THEN 1 ELSE 0)
         /\ call[c].phase = "mailed" /\ call'[c].phase # "mailed" =>
              Cardinality(Mailers(p)') =
                Cardinality(Mailers(p)) - (IF call[c].po = p THEN 1 ELSE 0)
<1> DEFINE M == Mailers(p)
<1>1. IsFiniteSet(M)
  BY FS_Subset, Mailers(p) \subseteq Call DEF Mailers
<1>2. Cardinality(M) \in Nat
  BY <1>1, FS_CardinalityType
<1>3. /\ c \in M <=> call[c].phase = "mailed" /\ call[c].po = p
      /\ c \in Mailers(p)' <=> call'[c].phase = "mailed" /\ call'[c].po = p
      /\ \A d \in Call \ {c} : d \in Mailers(p)' <=> d \in M
  BY DEF Mailers, OnlyMoves, Call
<1>4. M \subseteq Call /\ Mailers(p)' \subseteq Call
  BY DEF Mailers, Call
<1> HIDE DEF M
<1>5. c \in Mailers(p)' => Mailers(p)' = M \cup {c}
  BY <1>3, <1>4
<1>6. c \notin Mailers(p)' => Mailers(p)' = M \ {c}
  BY <1>3, <1>4
<1>7. /\ c \in Mailers(p)' => Cardinality(Mailers(p)') =
                               IF c \in M THEN Cardinality(M) ELSE Cardinality(M) + 1
      /\ c \notin Mailers(p)' => Cardinality(Mailers(p)') =
                               IF c \in M THEN Cardinality(M) - 1 ELSE Cardinality(M)
  BY <1>1, <1>5, <1>6, FS_AddElement, FS_RemoveElement
<1> QED BY <1>2, <1>3, <1>7 DEF M

(* What a step that goes on with a call does to it. *)
LEMMA MovedPhase ==
  ASSUME SendTypeOK, NEW c \in Call, NEW phase, Goes(c, phase)
  PROVE  /\ OnlyMoves(c)
         /\ call'[c] = [call[c] EXCEPT !.phase = phase]
         /\ call'[c].phase = phase /\ call'[c].po = call[c].po
         /\ call'[c].reads = call[c].reads
<1>1. call' = [call EXCEPT ![c] = [call[c] EXCEPT !.phase = phase]]
  BY DEF Goes
<1>2. DOMAIN call[c] = {"phase", "po", "reads"}
  BY DEF SendTypeOK, CallOK
<1>3. OnlyMoves(c) /\ call'[c] = [call[c] EXCEPT !.phase = phase]
  BY <1>1 DEF OnlyMoves, SendTypeOK
<1> QED BY <1>2, <1>3

(* A call that goes on with its order stays well-formed. *)
LEMMA MovedOK ==
  ASSUME SendTypeOK, NEW c \in Call, NoCall # call[c],
         NEW phase \in {"begin", "update"} \cup SendPhase, NEW n \in Nat,
         OnlyMoves(c), call'[c] = [call[c] EXCEPT !.phase = phase, !.reads = n],
         phase \in SendPhase => c \in Sender
  PROVE  \A d \in Call : CallOK(d)'
<1>1. \A d \in Call : CallOK(d)
  BY DEF SendTypeOK
<1>2. CallOK(c)'
  <2>1. call[c] \in [phase: {"idle", "begin", "update"} \cup SendPhase,
                     po: Order \cup {None}, reads: Nat]
        /\ call[c].po \in Order
    BY <1>1 DEF CallOK
  <2>2. call'[c] \in [phase: {"idle", "begin", "update"} \cup SendPhase,
                     po: Order \cup {None}, reads: Nat]
        /\ call'[c].po \in Order /\ call'[c].phase = phase
    BY <2>1
  <2>3. phase # "idle"
    BY DEF SendPhase
  <2> QED BY <2>2, <2>3 DEF CallOK, SendPhase, NoCall
<1>3. \A d \in Call \ {c} : CallOK(d)'
  BY <1>1 DEF CallOK, OnlyMoves, SendPhase, NoCall
<1> QED BY <1>2, <1>3

LEMMA EndedOK ==
  ASSUME SendTypeOK, NEW c \in Call, Ends(c)
  PROVE  /\ OnlyMoves(c) /\ call'[c] = NoCall /\ call'[c].phase = "idle"
         /\ \A d \in Call : CallOK(d)'
<1>1. OnlyMoves(c) /\ call'[c] = NoCall /\ call'[c].phase = "idle"
  <2>1. OnlyMoves(c) /\ call'[c] = NoCall
    BY DEF Ends, OnlyMoves, SendTypeOK
  <2> QED BY <2>1 DEF NoCall
<1>2. CallOK(c)'
  BY <1>1 DEF CallOK, SendPhase, NoCall
<1>3. \A d \in Call \ {c} : CallOK(d)'
  BY <1>1 DEF SendTypeOK, CallOK, OnlyMoves, SendPhase, NoCall
<1> QED BY <1>1, <1>2, <1>3

LEMMA SendTypeStep ==
  ASSUME SendTypeOK, [SendNext]_sendVars
  PROVE  SendTypeOK'
<1>1. CASE UNCHANGED sendVars
  BY <1>1 DEF sendVars, SendTypeOK, QueueOK, CallOK, SendPhase, Call, NoCall
<1>2. ASSUME NEW c \in Call, Step(c) \/ Fail(c) \/ \E p \in Order : BeginCall(c, p)
      PROVE  SendTypeOK'
  <2>1. CallOK(c) /\ QueueOK /\ (call[c].phase # "idle" => call[c] # NoCall)
    BY DEF SendTypeOK, NoCall
  <2>2. status' \in [Order -> {"OPEN", "CANCELLED", "CLOSED"}] /\ overtaken' \subseteq Order
    <3>1. CASE Update(c)
      <4>1. call[c].po \in Order
        BY <2>1, <3>1 DEF CallOK, Update, At
      <4> QED BY <3>1, <4>1 DEF SendTypeOK, Update
    <3>2. CASE UNCHANGED <<status, overtaken>>
      BY <3>2 DEF SendTypeOK
    <3> QED BY <1>2, <3>1, <3>2 DEF Step, Connect, Check, Read,
                Mail, Audit, Fail, BeginCall
  <2>3. /\ mailed' \in [Order -> Nat] /\ audited' \in [Order -> Nat]
        /\ unaudited' \in [Order -> Nat]
    <3>1. CASE UNCHANGED <<mailed, audited, unaudited>>
      BY <3>1 DEF SendTypeOK
    <3>2. CASE Mail(c) \/ Audit(c) \/ Fail(c)
      BY <3>2 DEF SendTypeOK, Mail, Audit, Fail
    <3> QED BY <1>2, <3>1, <3>2 DEF Step, Connect, Check, Read,
                BeginCall, Update, post
  <2>4. OnlyMoves(c) /\ (\A d \in Call : CallOK(d)') /\ QueueOK'
    <3>1. CASE Connect(c)
      <4>1. queue # <<>> /\ Head(queue) = c /\ queue' = Tail(queue)
        BY <3>1 DEF Connect
      <4>2. call[c].phase \in Queued
        BY <2>1, <4>1, EmptySeq, LenProperties DEF QueueOK
      <4>3. /\ call[c].phase = "wait" => Goes(c, "reading")
            /\ call[c].phase = "begin" =>
                 \/ Goes(c, "check") /\ c \in Sender
                 \/ Goes(c, "update")
        BY <3>1 DEF Connect, At, Call
      <4>4. PICK phase \in {"reading", "check", "update"} :
              Goes(c, phase) /\ (phase \in SendPhase => c \in Sender)
        BY <2>1, <4>2, <4>3 DEF Queued, CallOK, SendPhase
      <4>5. /\ OnlyMoves(c)
            /\ call'[c] = [call[c] EXCEPT !.phase = phase]
        BY <4>4, MovedPhase
      <4>6. call[c].reads \in Nat /\ call[c] # NoCall
            /\ [call[c] EXCEPT !.phase = phase]
                = [call[c] EXCEPT !.phase = phase, !.reads = call[c].reads]
        BY <2>1, <4>2 DEF CallOK, Queued
      <4>7. phase \in {"begin", "update"} \cup SendPhase
        BY DEF SendPhase
      <4>8. \A d \in Call : CallOK(d)'
        BY <4>4, <4>5, <4>6, <4>7, MovedOK
      <4> QED BY <4>1, <4>5, <4>8, <2>1, QueueTail
    <3>2. ASSUME NEW p \in Order, BeginCall(c, p)
          PROVE  OnlyMoves(c) /\ (\A d \in Call : CallOK(d)') /\ QueueOK'
      <4>1. /\ OnlyMoves(c) /\ queue' = Append(queue, c) /\ call[c].phase = "idle"
            /\ call'[c] = [phase |-> "begin", po |-> p, reads |-> 0]
        BY <3>2 DEF BeginCall, OnlyMoves, SendTypeOK, NoCall
      <4>2. CallOK(c)'
        BY <4>1 DEF CallOK, SendPhase, NoCall
      <4>3. \A d \in Call \ {c} : CallOK(d)'
        BY <4>1 DEF SendTypeOK, CallOK, OnlyMoves, SendPhase, NoCall
      <4> QED BY <2>1, <4>1, <4>2, <4>3, QueueAppend DEF Queued
    <3>3. CASE Check(c)
      <4>1. /\ call[c].phase = "check" /\ c \in Sender /\ call[c].reads \in Nat
            /\ call[c] # NoCall
        BY <2>1, <3>3 DEF Check, At, CallOK, SendPhase
      <4>2. CASE Waits(c, "wait")
        <5>1. /\ OnlyMoves(c) /\ queue' = Append(queue, c)
              /\ call'[c] = [call[c] EXCEPT !.phase = "wait"] /\ call'[c].phase = "wait"
          BY <4>2, MovedPhase DEF Waits
        <5>2. call'[c] = [call[c] EXCEPT !.phase = "wait", !.reads = call[c].reads]
          BY <2>1, <5>1 DEF CallOK
        <5>3. "wait" \in {"begin", "update"} \cup SendPhase
          BY DEF SendPhase
        <5>4. \A d \in Call : CallOK(d)'
          BY <4>1, <5>1, <5>2, <5>3, MovedOK
        <5> QED BY <2>1, <4>1, <5>1, <5>4, QueueAppend DEF Queued
      <4>3. CASE Ends(c) /\ UNCHANGED queue
        BY <2>1, <4>1, <4>3, EndedOK, QueueSame DEF Queued
      <4> QED BY <3>3, <4>2, <4>3 DEF Check
    <3>4. CASE Read(c)
      <4>1. call[c].phase = "reading" /\ c \in Sender /\ call[c].reads + 1 \in Nat
        BY <2>1, <3>4 DEF Read, At, CallOK, SendPhase
      <4>2. PICK phase \in {"wait", "send"} :
              /\ call' = [call EXCEPT ![c].phase = phase, ![c].reads = call[c].reads + 1]
              /\ queue' = IF phase = "wait" THEN Append(queue, c) ELSE queue
        BY <3>4 DEF Read
      <4>3. OnlyMoves(c) /\ call'[c] = [call[c] EXCEPT !.phase = phase, !.reads = call[c].reads + 1]
        BY <4>2 DEF OnlyMoves, SendTypeOK
      <4>4. phase \in {"begin", "update"} \cup SendPhase /\ call'[c].phase = phase
        BY <2>1, <4>3 DEF SendPhase, CallOK
      <4>5. \A d \in Call : CallOK(d)'
        BY <2>1, <4>1, <4>3, <4>4, MovedOK
      <4> QED BY <2>1, <4>1, <4>2, <4>3, <4>4, <4>5, QueueAppend, QueueSame DEF Queued
    <3>5. CASE Mail(c)
      <4>1. /\ call[c].phase = "send" /\ c \in Sender /\ call[c].reads \in Nat
            /\ queue' = queue
        BY <2>1, <3>5 DEF Mail, At, CallOK, SendPhase
      <4>2. OnlyMoves(c) /\ call'[c] = [call[c] EXCEPT !.phase = "mailed"]
        BY <3>5, MovedPhase DEF Mail
      <4>3. [call[c] EXCEPT !.phase = "mailed"]
              = [call[c] EXCEPT !.phase = "mailed", !.reads = call[c].reads]
        BY <2>1 DEF CallOK
      <4>4. "mailed" \in {"begin", "update"} \cup SendPhase
        BY DEF SendPhase
      <4>5. \A d \in Call : CallOK(d)'
        BY <2>1, <4>1, <4>2, <4>3, <4>4, MovedOK
      <4> QED BY <2>1, <4>1, <4>2, <4>5, QueueSame DEF Queued
    <3>6. CASE Audit(c) \/ Update(c) \/ Fail(c)
      <4>1. Ends(c) /\ queue' = queue /\ call[c].phase \notin Queued
        BY <3>6 DEF Audit, Update, Fail, At, Queued
      <4> QED BY <2>1, <4>1, EndedOK, QueueSame
    <3> QED BY <1>2, <3>1, <3>2, <3>3, <3>4, <3>5, <3>6 DEF Step
  <2> QED BY <2>1, <2>2, <2>3, <2>4 DEF SendTypeOK, OnlyMoves
<1> QED BY <1>1, <1>2 DEF SendNext

(* An order that closes while a send has it in hand is known as overtaken. *)
LEMMA OpenStep ==
  ASSUME SendTypeOK, OpenOrOvertaken, [SendNext]_sendVars
  PROVE  OpenOrOvertaken'
<1> DEFINE Unmailed == {"wait", "reading", "send"}
<1>1. CASE UNCHANGED sendVars
  BY <1>1 DEF sendVars, OpenOrOvertaken, Call
<1>2. ASSUME NEW c \in Call, Step(c) \/ Fail(c) \/ \E p \in Order : BeginCall(c, p)
      PROVE  OpenOrOvertaken'
  <2>1. ASSUME OnlyMoves(c), UNCHANGED <<status, overtaken>>,
               call'[c].phase \in Unmailed =>
                 /\ call'[c].po = call[c].po
                 /\ call[c].phase \in Unmailed \/ status[call[c].po] = "OPEN"
        PROVE  OpenOrOvertaken'
    BY <2>1 DEF OnlyMoves, OpenOrOvertaken, Call
  <2>2. CallOK(c)
    BY DEF SendTypeOK
  <2>3. CASE Connect(c)
    <3>1. call[c].phase \in Queued
      BY <2>3, EmptySeq, LenProperties DEF Connect, SendTypeOK, QueueOK
    <3>2. PICK phase \in {"reading", "check", "update"} :
            Goes(c, phase) /\ (call[c].phase = "begin" => phase # "reading")
      BY <2>3, <3>1 DEF Connect, At, Call, Queued
    <3>3. OnlyMoves(c) /\ call'[c].phase = phase /\ call'[c].po = call[c].po
      BY <3>2, MovedPhase
    <3>4. UNCHANGED <<status, overtaken>>
      BY <2>3 DEF Connect
    <3> QED BY <2>1, <3>1, <3>2, <3>3, <3>4 DEF Queued
  <2>4. ASSUME NEW p \in Order, BeginCall(c, p) PROVE OpenOrOvertaken'
    <3>1. OnlyMoves(c) /\ call'[c].phase = "begin" /\ UNCHANGED <<status, overtaken>>
      BY <2>4 DEF BeginCall, OnlyMoves, SendTypeOK
    <3> QED BY <2>1, <3>1
  <2>5. CASE Check(c)
    <3>1. UNCHANGED <<status, overtaken>>
      BY <2>5 DEF Check
    <3>2. CASE Sendable(call[c].po) /\ Waits(c, "wait")
      <4>1. OnlyMoves(c) /\ call'[c].po = call[c].po
        BY <3>2, MovedPhase DEF Waits
      <4> QED BY <2>1, <3>1, <3>2, <4>1 DEF Sendable
    <3>3. CASE Ends(c)
      BY <2>1, <3>1, <3>3, EndedOK
    <3> QED BY <2>5, <3>2, <3>3 DEF Check
  <2>6. CASE Read(c)
    <3>1. /\ call[c].phase = "reading" /\ UNCHANGED <<status, overtaken>>
          /\ \E phase \in {"wait", "send"} :
               call' = [call EXCEPT ![c].phase = phase, ![c].reads = call[c].reads + 1]
      BY <2>6 DEF Read, At
    <3>2. OnlyMoves(c) /\ call'[c].po = call[c].po
      BY <2>2, <3>1 DEF OnlyMoves, SendTypeOK, CallOK
    <3> QED BY <2>1, <3>1, <3>2
  <2>7. CASE Mail(c)
    <3>1. OnlyMoves(c) /\ call'[c].phase = "mailed" /\ UNCHANGED <<status, overtaken>>
      BY <2>7, MovedPhase DEF Mail
    <3> QED BY <2>1, <3>1
  <2>8. CASE Audit(c) \/ Fail(c)
    <3>1. OnlyMoves(c) /\ call'[c].phase = "idle" /\ UNCHANGED <<status, overtaken>>
      BY <2>8, EndedOK DEF Audit, Fail
    <3> QED BY <2>1, <3>1
  <2>9. CASE Update(c)
    <3>1. OnlyMoves(c) /\ call'[c].phase = "idle"
      BY <2>9, EndedOK DEF Update
    <3>2. CASE UNCHANGED <<status, overtaken>>
      BY <2>1, <3>1, <3>2
    <3>3. ASSUME ~UNCHANGED <<status, overtaken>>,
                 NEW d \in Call, call'[d].phase \in Unmailed
          PROVE  status'[call'[d].po] = "OPEN" \/ call'[d].po \in overtaken'
      <4>1. d # c /\ call'[d] = call[d] /\ call[d].phase \in Unmailed
        BY <3>1, <3>3 DEF OnlyMoves
      <4>2. CASE call[d].po = call[c].po
        <5>1. d \in Sender
          BY <4>1 DEF SendTypeOK, CallOK, SendPhase
        <5>2. d \in InHand(call[c].po)
          BY <4>1, <4>2, <5>1 DEF InHand
        <5>3. call[c].po \in overtaken'
          BY <2>9, <3>3, <5>2 DEF Update
        <5> QED BY <4>1, <4>2, <5>3
      <4>3. CASE call[d].po # call[c].po
        <5>1. /\ status'[call[d].po] = status[call[d].po] \/ call[d].po \notin Order
              /\ overtaken \subseteq overtaken'
          BY <2>9, <3>3, <4>3 DEF Update, SendTypeOK
        <5>2. call[d].po \in Order
          BY <4>1 DEF SendTypeOK, CallOK, NoCall
        <5> QED BY <4>1, <5>1, <5>2 DEF OpenOrOvertaken
      <4> QED BY <4>2, <4>3
    <3> QED BY <3>2, <3>3 DEF OpenOrOvertaken, Call
  <2> QED BY <1>2, <2>3, <2>4, <2>5, <2>6, <2>7, <2>8, <2>9 DEF Step
<1> QED BY <1>1, <1>2 DEF SendNext

(* A mail adds to the mailers what the audit, or a failure, takes away. *)
LEMMA AddUpStep ==
  ASSUME SendTypeOK, IsFiniteSet(Call), MailsAddUp, [SendNext]_sendVars
  PROVE  MailsAddUp'
<1>1. CASE UNCHANGED sendVars
  BY <1>1 DEF sendVars, MailsAddUp, Mailers, Call
<1>2. ASSUME NEW c \in Call, Step(c) \/ Fail(c) \/ \E p \in Order : BeginCall(c, p)
      PROVE  MailsAddUp'
  <2>1. ASSUME OnlyMoves(c), UNCHANGED post,
               call[c].phase # "mailed" /\ call'[c].phase # "mailed"
        PROVE  MailsAddUp'
    BY <2>1, MailersAfter DEF MailsAddUp, post
  <2>2. CallOK(c)
    BY DEF SendTypeOK
  <2>3. \A p \in Order : mailed[p] \in Nat /\ audited[p] \in Nat /\ unaudited[p] \in Nat
    BY DEF SendTypeOK
  <2>4. CASE Connect(c)
    <3>1. call[c].phase \in Queued
      BY <2>4, EmptySeq, LenProperties DEF Connect, SendTypeOK, QueueOK
    <3>2. PICK phase \in {"reading", "check", "update"} : Goes(c, phase)
      BY <2>4, <3>1 DEF Connect, At, Call, Queued
    <3>3. OnlyMoves(c) /\ call'[c].phase = phase /\ UNCHANGED post
      BY <2>4, <3>2, MovedPhase DEF Connect
    <3> QED BY <2>1, <3>1, <3>3 DEF Queued
  <2>5. ASSUME NEW p \in Order, BeginCall(c, p) PROVE MailsAddUp'
    <3>1. OnlyMoves(c) /\ call'[c].phase = "begin" /\ call[c].phase = "idle"
      BY <2>5 DEF BeginCall, OnlyMoves, SendTypeOK, NoCall
    <3> QED BY <2>1, <2>5, <3>1 DEF BeginCall
  <2>6. CASE Check(c)
    <3>1. OnlyMoves(c) /\ call'[c].phase \in {"wait", "idle"} /\ call[c].phase = "check"
      BY <2>6, MovedPhase, EndedOK DEF Check, Waits, At
    <3> QED BY <2>1, <2>6, <3>1 DEF Check
  <2>7. CASE Read(c)
    <3>1. \E phase \in {"wait", "send"} :
            call' = [call EXCEPT ![c].phase = phase, ![c].reads = call[c].reads + 1]
      BY <2>7 DEF Read
    <3>2. OnlyMoves(c) /\ call'[c].phase \in {"wait", "send"} /\ call[c].phase = "reading"
      BY <2>2, <2>7, <3>1 DEF OnlyMoves, SendTypeOK, CallOK, Read, At
    <3> QED BY <2>1, <2>7, <3>2 DEF Read
  <2>8. CASE Update(c)
    <3>1. OnlyMoves(c) /\ call'[c].phase = "idle" /\ call[c].phase = "update"
      BY <2>8, EndedOK DEF Update, At
    <3> QED BY <2>1, <2>8, <3>1 DEF Update
  <2>9. CASE Mail(c)
    <3>1. /\ OnlyMoves(c) /\ call[c].phase = "send"
          /\ call'[c].phase = "mailed" /\ call'[c].po = call[c].po
      BY <2>9, MovedPhase DEF Mail, At
    <3>2. ASSUME NEW p \in Order
          PROVE  mailed'[p] = audited'[p] + unaudited'[p] + Cardinality(Mailers(p)')
      <4>1. /\ mailed'[p] = mailed[p] + (IF call[c].po = p THEN 1 ELSE 0)
            /\ audited'[p] = audited[p] /\ unaudited'[p] = unaudited[p]
        BY <2>9 DEF Mail, SendTypeOK
      <4>2. /\ Cardinality(Mailers(p)) \in Nat
            /\ Cardinality(Mailers(p)') =
                 Cardinality(Mailers(p)) + (IF call[c].po = p THEN 1 ELSE 0)
        BY <3>1, MailersAfter
      <4>3. mailed[p] = audited[p] + unaudited[p] + Cardinality(Mailers(p))
        BY DEF MailsAddUp
      <4> QED BY <2>3, <4>1, <4>2, <4>3
    <3> QED BY <3>2 DEF MailsAddUp
  <2>10. CASE Audit(c) \/ Fail(c)
    <3>1. OnlyMoves(c) /\ call'[c].phase = "idle"
      BY <2>10, EndedOK DEF Audit, Fail
    <3>2. CASE call[c].phase = "mailed"
      <4>1. ASSUME NEW p \in Order
            PROVE  mailed'[p] = audited'[p] + unaudited'[p] + Cardinality(Mailers(p)')
        <5>1. /\ mailed'[p] = mailed[p]
              /\ \/ /\ audited'[p] = audited[p] + (IF call[c].po = p THEN 1 ELSE 0)
                    /\ unaudited'[p] = unaudited[p]
                 \/ /\ unaudited'[p] = unaudited[p] + (IF call[c].po = p THEN 1 ELSE 0)
                    /\ audited'[p] = audited[p]
          BY <2>10, <3>2 DEF Audit, Fail, At, SendTypeOK
        <5>2. /\ Cardinality(Mailers(p)) \in Nat
              /\ Cardinality(Mailers(p)') =
                   Cardinality(Mailers(p)) - (IF call[c].po = p THEN 1 ELSE 0)
          BY <3>1, <3>2, MailersAfter
        <5>3. mailed[p] = audited[p] + unaudited[p] + Cardinality(Mailers(p))
          BY DEF MailsAddUp
        <5> QED BY <2>3, <5>1, <5>2, <5>3
      <4> QED BY <4>1 DEF MailsAddUp
    <3>3. CASE call[c].phase # "mailed"
      <4>1. UNCHANGED post
        BY <2>10, <3>3 DEF Audit, Fail, At, post
      <4> QED BY <2>1, <3>1, <3>3, <4>1
    <3> QED BY <3>2, <3>3
  <2> QED BY <1>2, <2>4, <2>5, <2>6, <2>7, <2>8, <2>9, <2>10 DEF Step
<1> QED BY <1>1, <1>2 DEF SendNext

LEMMA SendInitOK == SendInit => SendIInv
<1> SUFFICES ASSUME SendInit PROVE SendIInv
  OBVIOUS
<1>1. SendTypeOK
  <2>1. \A c \in Call : CallOK(c)
    BY DEF SendInit, NoCall, CallOK, SendPhase
  <2>2. QueueOK
    BY EmptySeq DEF SendInit, QueueOK
  <2> QED BY <2>1, <2>2 DEF SendInit, SendTypeOK
<1>2. \A c \in Call : call[c].phase = "idle"
  BY DEF SendInit, NoCall
<1>3. \A p : Mailers(p) = {}
  BY <1>2 DEF Mailers
<1>4. MailsAddUp
  <2>1. \A p \in Order : mailed[p] = 0 /\ audited[p] = 0 /\ unaudited[p] = 0
    BY DEF SendInit
  <2>2. \A p \in Order : Cardinality(Mailers(p)) = 0
    BY <1>3, FS_EmptySet
  <2> QED BY <2>1, <2>2 DEF MailsAddUp
<1> QED BY <1>1, <1>2, <1>4 DEF SendIInv, OpenOrOvertaken

(* A mail leaves only for an open order or one that was cancelled or       *)
(* closed while its send had it in hand, and when no call is in progress   *)
(* every mail is audited but for those whose call failed in between, for   *)
(* any number of sends, other calls and connections                        *)
(* (po-document.ts:221-258).                                               *)
THEOREM SendsMailOpenOrders == SendSpec => SentWhileOpen
<1>1. IsFiniteSet(Call)
  BY SendingAssumption, FS_Union DEF Call
<1>2. SendIInv /\ [SendNext]_sendVars => SendIInv'
  BY <1>1, SendTypeStep, OpenStep, AddUpStep DEF SendIInv
<1> DEFINE Good ==
      \A p \in Order :
        /\ mailed'[p] # mailed[p] => status[p] = "OPEN" \/ p \in overtaken
        /\ (\A c \in Call : call'[c] = NoCall) =>
             mailed'[p] = audited'[p] + unaudited'[p]
<1>3. SendIInv /\ SendIInv' /\ [SendNext]_sendVars => [Good]_(sendVars)
  <2> SUFFICES ASSUME SendIInv, SendIInv', [SendNext]_sendVars, NEW p \in Order
               PROVE  /\ mailed'[p] # mailed[p] => status[p] = "OPEN" \/ p \in overtaken
                      /\ (\A c \in Call : call'[c] = NoCall) =>
                           mailed'[p] = audited'[p] + unaudited'[p]
    OBVIOUS
  <2>1. ASSUME mailed'[p] # mailed[p]
        PROVE  status[p] = "OPEN" \/ p \in overtaken
    <3>1. PICK c \in Call : Mail(c)
      BY <2>1 DEF SendNext, sendVars, Step, Connect, Check, Read,
                  Audit, Update, Fail, BeginCall, post
    <3>2. call[c].phase = "send" /\ call[c].po = p
      BY <2>1, <3>1 DEF Mail, At, SendIInv, SendTypeOK
    <3> QED BY <3>2 DEF SendIInv, OpenOrOvertaken
  <2>2. ASSUME \A c \in Call : call'[c] = NoCall
        PROVE  mailed'[p] = audited'[p] + unaudited'[p]
    <3>1. Mailers(p)' = {}
      BY <2>2 DEF Mailers, NoCall, Call
    <3>2. mailed'[p] = audited'[p] + unaudited'[p] + Cardinality(Mailers(p)')
      BY DEF SendIInv, MailsAddUp
    <3>3. audited'[p] \in Nat /\ unaudited'[p] \in Nat
      BY DEF SendIInv, SendTypeOK
    <3> QED BY <3>1, <3>2, <3>3, FS_EmptySet
  <2> QED BY <2>1, <2>2
<1> QED BY SendInitOK, <1>2, <1>3, PTL DEF SendSpec, SentWhileOpen
=============================================================================
