------------------------- MODULE ApprovalFlowProofs -------------------------
(***************************************************************************)
(* What becomes of requisitions, for any requisitions, chains, users and   *)
(* any number of calls at once.  The calls take no lock, so the invariants *)
(* say what a call still knows of what it read: everything, when no other  *)
(* call has the requisition in hand; when others do, only that a step      *)
(* once decided stays decided.                                             *)
(***************************************************************************)
EXTENDS ApprovalFlow, ApprovalRules, FiniteSetTheorems, SequenceTheorems, TLAPS

Rows == [role: ApproverRoles, decision: {"NONE", "APPROVE", "REJECT"}]

Deciding(t) == txn[t].phase \in {"decide_read", "approve_held"}

(* A call that decides has a row of its requisition in hand. *)
RowsExist == \A t \in Tx : Deciding(t) => txn[t].row \in DOMAIN rows[txn[t].req]

-----------------------------------------------------------------------------
(* Types *)

LEMMA TxnFields ==
  ASSUME TypeOK, NEW t \in Tx
  PROVE  /\ txn[t] \in Txns
         /\ txn[t] # Idle => txn[t].req \in Req
         /\ txn[t].phase \in {"idle", "submit_read", "decide_read", "approve_held"}
         /\ txn[t].phase = "idle" => txn[t] = Idle
         /\ txn[t].phase # "idle" => txn[t] # Idle
         /\ txn[t].phase = "approve_held" => txn[t].complete \in BOOLEAN
         /\ txn[t].phase = "decide_read" => txn[t].decision \in {"approve", "reject"}
BY DEF TypeOK, Txns, Idle

(* The rows of a requisition, as a function of their positions. *)
LEMMA RowsAreSequences ==
  ASSUME TypeOK, NEW r \in Req
  PROVE  /\ rows[r] \in Seq(Rows) /\ Len(rows[r]) \in Nat
         /\ DOMAIN rows[r] = 1 .. Len(rows[r])
         /\ \A k \in DOMAIN rows[r] : rows[r][k] \in Rows
<1>1. rows[r] \in Seq(Rows)
  BY DEF TypeOK, Rows
<1> QED BY <1>1, LenProperties

(* Storing a decision changes the decision of one row of one requisition.  *)
LEMMA StoresDecision ==
  ASSUME TypeOK, NEW r \in Req, NEW k \in DOMAIN rows[r], NEW decision \in {"APPROVE", "REJECT"},
         rows' = [rows EXCEPT ![r][k].decision = decision]
  PROVE  /\ rows' \in [Req -> Seq(Rows)]
         /\ \A q \in Req \ {r} : rows'[q] = rows[q]
         /\ DOMAIN rows'[r] = DOMAIN rows[r]
         /\ \A j \in DOMAIN rows[r] \ {k} : rows'[r][j] = rows[r][j]
         /\ rows'[r][k].decision = decision /\ rows'[r][k].role = rows[r][k].role
<1> DEFINE row == [rows[r][k] EXCEPT !.decision = decision]
<1>1. /\ rows \in [Req -> Seq(Rows)] /\ rows[r] \in Seq(Rows)
      /\ DOMAIN rows[r] = 1 .. Len(rows[r]) /\ rows[r][k] \in Rows
  BY RowsAreSequences DEF TypeOK, Rows
<1>2. row \in Rows /\ row.decision = decision /\ row.role = rows[r][k].role
  BY <1>1 DEF Rows
<1>3. rows' = [rows EXCEPT ![r] = [rows[r] EXCEPT ![k] = row]]
  OBVIOUS
<1> HIDE DEF row
<1>4. /\ [rows[r] EXCEPT ![k] = row] \in Seq(Rows)
      /\ Len([rows[r] EXCEPT ![k] = row]) = Len(rows[r])
      /\ \A j \in 1 .. Len(rows[r]) :
           [rows[r] EXCEPT ![k] = row][j] = IF j = k THEN row ELSE rows[r][j]
  BY <1>1, <1>2, ExceptSeq
<1>5. rows'[r] = [rows[r] EXCEPT ![k] = row]
  BY <1>1, <1>3
<1>6. rows' \in [Req -> Seq(Rows)]
  BY <1>1, <1>3, <1>4
<1>7. DOMAIN rows'[r] = DOMAIN rows[r]
  BY <1>5
<1>8. \A q \in Req \ {r} : rows'[q] = rows[q]
  BY <1>1, <1>3
<1> QED BY <1>1, <1>2, <1>4, <1>5, <1>6, <1>7, <1>8

(* What a submission stores for its requisition. *)
StoresChain(r, chain) ==
  /\ rows' = [rows EXCEPT ![r] = @ \o [k \in 1 .. Len(chain) |-> Row(chain[k])]]
  /\ asked' = asked \cup
       {<<r, Len(rows[r]) + k>> : k \in {j \in 1 .. Len(chain) : \E u \in User : Role[u] = chain[j]}}
  /\ status' = [status EXCEPT ![r] = "SUBMITTED"]

LEMMA SubmitStores ==
  ASSUME TypeOK, NEW t \in Tx, SubmitCommit(t)
  PROVE  \E r, chain : r \in Req /\ chain \in Chains[r] /\ r = txn[t].req /\ StoresChain(r, chain)
<1>1. \E chain \in Chains[txn[t].req] : StoresChain(txn[t].req, chain)
  BY DEF SubmitCommit, StoresChain
<1>2. txn[t].req \in Req
  BY TxnFields DEF SubmitCommit
<1> QED BY <1>1, <1>2

(* The row a decision is about, and what its commit stores. *)
LEMMA DecisionInHand ==
  ASSUME TypeOK, RowsExist, NEW t \in Tx, Deciding(t)
  PROVE  \E r, k :
           /\ r \in Req /\ k \in DOMAIN rows[r]
           /\ r = txn[t].req /\ k = txn[t].row
           /\ RejectCommit(t) => rows' = [rows EXCEPT ![r][k].decision = "REJECT"]
           /\ ApproveCommit(t) => rows' = [rows EXCEPT ![r][k].decision = "APPROVE"]
<1>1. PICK r \in Req : r = txn[t].req
  BY TxnFields DEF Deciding
<1>2. PICK k \in DOMAIN rows[r] : k = txn[t].row
  BY <1>1 DEF RowsExist
<1>3. RejectCommit(t) => rows' = [rows EXCEPT ![r][k].decision = "REJECT"]
  BY <1>1, <1>2 DEF RejectCommit, Stored
<1>4. ApproveCommit(t) => rows' = [rows EXCEPT ![r][k].decision = "APPROVE"]
  BY <1>1, <1>2 DEF ApproveCommit, Stored
<1> QED BY <1>1, <1>2, <1>3, <1>4

(* A submission appends the rows of a chain, none of them decided. *)
LEMMA AppendsChain ==
  ASSUME TypeOK, NEW r \in Req, NEW chain \in Chains[r], StoresChain(r, chain)
  PROVE  /\ rows' \in [Req -> Seq(Rows)]
         /\ \A q \in Req \ {r} : rows'[q] = rows[q]
         /\ chain \in Seq(ApproverRoles) /\ Len(chain) \in Nat \ {0}
         /\ Len(rows'[r]) = Len(rows[r]) + Len(chain)
         /\ DOMAIN rows'[r] = 1 .. Len(rows[r]) + Len(chain)
         /\ \A k \in DOMAIN rows[r] : k \in DOMAIN rows'[r] /\ rows'[r][k] = rows[r][k]
         /\ rows[r] = <<>> => /\ DOMAIN rows'[r] = DOMAIN chain
                              /\ \A k \in DOMAIN chain : rows'[r][k] = Row(chain[k])
<1> DEFINE new == [k \in 1 .. Len(chain) |-> Row(chain[k])]
<1>1. chain \in Seq(ApproverRoles) /\ chain # <<>>
  BY FlowAssumption
<1>2. Len(chain) \in Nat \ {0} /\ DOMAIN chain = 1 .. Len(chain)
  BY <1>1, EmptySeq, LenProperties
<1>3. \A k \in 1 .. Len(chain) : Row(chain[k]) \in Rows
  BY <1>1, <1>2, ElementOfSeq DEF Row, Rows
<1>4. new \in [1 .. Len(chain) -> Rows]
  BY <1>3
<1>5. new \in Seq(Rows) /\ Len(new) = Len(chain)
  <2>1. new \in Seq(Rows)
    BY <1>2, <1>4, SeqDef
  <2>2. DOMAIN new = 1 .. Len(new) /\ Len(new) \in Nat
    BY <2>1, LenProperties
  <2> QED BY <1>2, <1>4, <2>1, <2>2
<1>6. \A k \in 1 .. Len(chain) : new[k] = Row(chain[k])
  OBVIOUS
<1>7. /\ rows \in [Req -> Seq(Rows)] /\ rows[r] \in Seq(Rows) /\ Len(rows[r]) \in Nat
      /\ DOMAIN rows[r] = 1 .. Len(rows[r])
  BY RowsAreSequences DEF TypeOK, Rows
<1> HIDE DEF new
<1>8. /\ rows[r] \o new \in Seq(Rows) /\ Len(rows[r] \o new) = Len(rows[r]) + Len(chain)
      /\ \A i \in 1 .. Len(rows[r]) + Len(chain) :
           (rows[r] \o new)[i] = IF i <= Len(rows[r]) THEN rows[r][i] ELSE new[i - Len(rows[r])]
  <2>1. /\ rows[r] \o new \in Seq(Rows) /\ Len(rows[r] \o new) = Len(rows[r]) + Len(new)
        /\ \A i \in 1 .. Len(rows[r]) + Len(new) :
             (rows[r] \o new)[i] = IF i <= Len(rows[r]) THEN rows[r][i] ELSE new[i - Len(rows[r])]
    BY <1>5, <1>7, ConcatProperties, Zenon
  <2> QED BY <1>5, <2>1, Zenon
<1>9. rows' = [rows EXCEPT ![r] = rows[r] \o new]
  BY DEF new, StoresChain
<1>10. rows'[r] = rows[r] \o new /\ rows' \in [Req -> Seq(Rows)]
       /\ \A q \in Req \ {r} : rows'[q] = rows[q]
  BY <1>7, <1>8, <1>9
<1>11. DOMAIN rows'[r] = 1 .. Len(rows[r]) + Len(chain)
  BY <1>8, <1>10, LenProperties
<1>12. \A k \in DOMAIN rows[r] : k \in DOMAIN rows'[r] /\ rows'[r][k] = rows[r][k]
  BY <1>2, <1>7, <1>8, <1>10, <1>11
<1>13. ASSUME rows[r] = <<>>
       PROVE  DOMAIN rows'[r] = DOMAIN chain /\ \A k \in DOMAIN chain : rows'[r][k] = Row(chain[k])
  <2>1. rows'[r] = new
    BY <1>5, <1>10, <1>13, ConcatEmptySeq
  <2>2. DOMAIN new = 1 .. Len(chain)
    BY <1>5, LenProperties
  <2> QED BY <1>2, <1>6, <2>1, <2>2
<1> QED BY <1>1, <1>2, <1>8, <1>10, <1>11, <1>12, <1>13

LEMMA InitTypeOK == Init => TypeOK
<1> SUFFICES ASSUME Init PROVE TypeOK
  OBVIOUS
<1>1. \A r \in Req : rows[r] \in Seq([role: ApproverRoles, decision: {"NONE", "APPROVE", "REJECT"}])
  BY EmptySeq DEF Init
<1>2. rows \in [Req -> Seq([role: ApproverRoles, decision: {"NONE", "APPROVE", "REJECT"}])]
  BY <1>1 DEF Init
<1> QED BY <1>2 DEF Init, TypeOK, Txns, Statuses

(* Every step keeps every variable in its type. *)
LEMMA NextTypeOK == TypeOK /\ RowsExist /\ [Next]_vars => TypeOK'
<1> SUFFICES ASSUME TypeOK, RowsExist, [Next]_vars PROVE TypeOK'
  OBVIOUS
<1>0. Idle \in Txns
  BY DEF Txns
<1>1. ASSUME NEW t \in Tx, NEW u \in User, NEW r \in Req, SubmitRead(t, u, r) PROVE TypeOK'
  BY <1>1 DEF TypeOK, SubmitRead, Begin, Txns
<1>2. ASSUME NEW t \in Tx, SubmitCommit(t) PROVE TypeOK'
  <2>1. PICK r, chain : r \in Req /\ chain \in Chains[r] /\ r = txn[t].req /\ StoresChain(r, chain)
    BY <1>2, SubmitStores
  <2>2. rows' \in [Req -> Seq(Rows)] /\ Len(rows[r]) \in Nat
    BY <2>1, AppendsChain, RowsAreSequences
  <2>3. asked' \subseteq Req \X Nat
    BY <2>1, <2>2, AppendsChain DEF StoresChain, TypeOK
  <2> QED
    BY <1>0, <1>2, <2>1, <2>2, <2>3 DEF TypeOK, SubmitCommit, End, Proceed, Statuses, Rows, StoresChain
<1>3. ASSUME NEW t \in Tx, NEW u \in User, NEW r \in Req, NEW decision \in {"approve", "reject"},
             NEW k \in DOMAIN rows[r], DecideRead(t, u, r, k, decision)
      PROVE  TypeOK'
  <2>1. k \in Nat
    BY RowsAreSequences
  <2>2. [phase |-> "decide_read", req |-> r, row |-> k, decision |-> decision] \in Txns
    BY <2>1 DEF Txns
  <2> QED BY <1>3, <2>2 DEF TypeOK, DecideRead, Begin
<1>4. ASSUME NEW t \in Tx, RejectCommit(t) PROVE TypeOK'
  <2>0. Deciding(t)
    BY <1>4 DEF RejectCommit, Deciding
  <2>1. PICK r, k : /\ r \in Req /\ k \in DOMAIN rows[r] /\ r = txn[t].req
                    /\ rows' = [rows EXCEPT ![r][k].decision = "REJECT"]
    BY <1>4, <2>0, DecisionInHand
  <2>2. rows' \in [Req -> Seq(Rows)]
    BY <2>1, StoresDecision
  <2> QED BY <1>0, <1>4, <2>1, <2>2 DEF TypeOK, RejectCommit, End, Proceed, Statuses, Rows
<1>5. ASSUME NEW t \in Tx, ApproveCount(t) PROVE TypeOK'
  <2>0. Deciding(t)
    BY <1>5 DEF ApproveCount, Deciding
  <2>1. PICK r, k : r \in Req /\ k \in DOMAIN rows[r] /\ r = txn[t].req /\ k = txn[t].row
    BY <1>5, <2>0, DecisionInHand
  <2>2. k \in Nat /\ CompleteWith(r, k) \in BOOLEAN
    BY <2>1, RowsAreSequences DEF CompleteWith
  <2>3. [phase |-> "approve_held", req |-> r, row |-> k, complete |-> CompleteWith(r, k)] \in Txns
    BY <2>1, <2>2 DEF Txns
  <2> QED BY <1>5, <2>1, <2>3 DEF TypeOK, ApproveCount, Proceed
<1>6. ASSUME NEW t \in Tx, ApproveCommit(t) PROVE TypeOK'
  <2>0. Deciding(t)
    BY <1>6 DEF ApproveCommit, Deciding
  <2>1. PICK r, k : /\ r \in Req /\ k \in DOMAIN rows[r] /\ r = txn[t].req
                    /\ rows' = [rows EXCEPT ![r][k].decision = "APPROVE"]
    BY <1>6, <2>0, DecisionInHand
  <2>2. rows' \in [Req -> Seq(Rows)]
    BY <2>1, StoresDecision
  <2> QED BY <1>0, <1>6, <2>1, <2>2 DEF TypeOK, ApproveCommit, End, Proceed, Statuses, Rows
<1>7. ASSUME NEW t \in Tx, Abort(t) PROVE TypeOK'
  BY <1>0, <1>7 DEF TypeOK, Abort, End, Proceed
<1>8. ASSUME NEW u \in User, NEW r \in Req, CreatePurchaseOrder(u, r) PROVE TypeOK'
  BY <1>8 DEF TypeOK, CreatePurchaseOrder, Statuses
<1>9. ASSUME NEW r \in Req, CancelPurchaseOrder(r) PROVE TypeOK'
  BY <1>9 DEF TypeOK, CancelPurchaseOrder, Statuses
<1>10. CASE UNCHANGED vars
  BY <1>10 DEF TypeOK, vars
<1>11. Submitters \subseteq Tx
  BY FlowAssumption
<1> QED
  BY <1>1, <1>2, <1>3, <1>4, <1>5, <1>6, <1>7, <1>8, <1>9, <1>10, <1>11, Zenon DEF Next

-----------------------------------------------------------------------------
(* What a step does to one requisition, and to one call *)

Untouched(r) ==
  /\ rows'[r] = rows[r] /\ status'[r] = status[r]
  /\ announced'[r] = announced[r] /\ poOpen'[r] = poOpen[r]

(* t is a call on r. *)
OnCall(t, r) == txn[t] # Idle /\ txn[t].req = r

Submits(t, r, chain) == SubmitCommit(t) /\ OnCall(t, r) /\ StoresChain(r, chain)

Rejects(t, r, k) ==
  /\ RejectCommit(t) /\ OnCall(t, r) /\ Deciding(t) /\ k = txn[t].row
  /\ rows' = [rows EXCEPT ![r][k].decision = "REJECT"]

Approves(t, r, k) ==
  /\ ApproveCommit(t) /\ OnCall(t, r) /\ Deciding(t) /\ k = txn[t].row
  /\ rows' = [rows EXCEPT ![r][k].decision = "APPROVE"]

LEMMA StepAt ==
  ASSUME TypeOK, RowsExist, [Next]_vars, NEW r \in Req
  PROVE  \/ Untouched(r)
         \/ \E t \in Tx : \E chain \in Chains[r] : Submits(t, r, chain)
         \/ \E t \in Tx : \E k \in DOMAIN rows[r] : Rejects(t, r, k)
         \/ \E t \in Tx : \E k \in DOMAIN rows[r] : Approves(t, r, k)
         \/ \E u \in User : CreatePurchaseOrder(u, r)
         \/ CancelPurchaseOrder(r)
<1> DEFINE Goal == \/ Untouched(r)
                   \/ \E t \in Tx : \E chain \in Chains[r] : Submits(t, r, chain)
                   \/ \E t \in Tx : \E k \in DOMAIN rows[r] : Rejects(t, r, k)
                   \/ \E t \in Tx : \E k \in DOMAIN rows[r] : Approves(t, r, k)
                   \/ \E u \in User : CreatePurchaseOrder(u, r)
                   \/ CancelPurchaseOrder(r)
<1>0. Submitters \subseteq Tx
  BY FlowAssumption
<1>1. ASSUME NEW t \in Tx, NEW u \in User, NEW q \in Req, SubmitRead(t, u, q) PROVE Goal
  BY <1>1 DEF SubmitRead, Untouched
<1>2. ASSUME NEW t \in Tx, SubmitCommit(t) PROVE Goal
  <2>1. PICK q, chain : q \in Req /\ chain \in Chains[q] /\ q = txn[t].req /\ StoresChain(q, chain)
    BY <1>2, SubmitStores
  <2>2. CASE q = r
    <3>1. OnCall(t, r)
      BY <1>2, <2>1, <2>2, TxnFields DEF SubmitCommit, OnCall
    <3> QED BY <1>2, <2>1, <2>2, <3>1, Zenon DEF Submits
  <2>3. CASE q # r
    <3>1. rows'[r] = rows[r] /\ status'[r] = status[r]
      BY <2>1, <2>3, AppendsChain DEF StoresChain, TypeOK
    <3> QED BY <1>2, <3>1 DEF SubmitCommit, Untouched
  <2> QED BY <2>2, <2>3
<1>3. ASSUME NEW t \in Tx, NEW u \in User, NEW q \in Req, NEW decision \in {"approve", "reject"},
             NEW k \in DOMAIN rows[q], DecideRead(t, u, q, k, decision)
      PROVE  Goal
  BY <1>3 DEF DecideRead, Untouched
<1>4. ASSUME NEW t \in Tx, RejectCommit(t) PROVE Goal
  <2>0. Deciding(t)
    BY <1>4 DEF RejectCommit, Deciding
  <2>1. PICK q, k : /\ q \in Req /\ k \in DOMAIN rows[q] /\ q = txn[t].req /\ k = txn[t].row
                    /\ rows' = [rows EXCEPT ![q][k].decision = "REJECT"]
    BY <1>4, <2>0, DecisionInHand
  <2>2. CASE q = r
    <3>1. OnCall(t, r)
      BY <2>0, <2>1, <2>2, TxnFields DEF Deciding, OnCall
    <3> QED BY <1>4, <2>0, <2>1, <2>2, <3>1, Zenon DEF Rejects
  <2>3. CASE q # r
    <3>1. \A p \in Req \ {q} : rows'[p] = rows[p]
      BY <2>1, StoresDecision
    <3>2. status'[r] = status[r] /\ announced'[r] = announced[r] /\ poOpen' = poOpen
      BY <1>4, <2>1, <2>3 DEF RejectCommit, TypeOK
    <3> QED BY <2>3, <3>1, <3>2 DEF Untouched
  <2> QED BY <2>2, <2>3
<1>5. ASSUME NEW t \in Tx, ApproveCount(t) PROVE Goal
  BY <1>5 DEF ApproveCount, Untouched
<1>6. ASSUME NEW t \in Tx, ApproveCommit(t) PROVE Goal
  <2>0. Deciding(t)
    BY <1>6 DEF ApproveCommit, Deciding
  <2>1. PICK q, k : /\ q \in Req /\ k \in DOMAIN rows[q] /\ q = txn[t].req /\ k = txn[t].row
                    /\ rows' = [rows EXCEPT ![q][k].decision = "APPROVE"]
    BY <1>6, <2>0, DecisionInHand
  <2>2. CASE q = r
    <3>1. OnCall(t, r)
      BY <2>0, <2>1, <2>2, TxnFields DEF Deciding, OnCall
    <3> QED BY <1>6, <2>0, <2>1, <2>2, <3>1, Zenon DEF Approves
  <2>3. CASE q # r
    <3>1. \A p \in Req \ {q} : rows'[p] = rows[p]
      BY <2>1, StoresDecision
    <3>2. status'[r] = status[r] /\ announced'[r] = announced[r] /\ poOpen' = poOpen
      BY <1>6, <2>1, <2>3 DEF ApproveCommit, TypeOK
    <3> QED BY <2>3, <3>1, <3>2 DEF Untouched
  <2> QED BY <2>2, <2>3
<1>7. ASSUME NEW t \in Tx, Abort(t) PROVE Goal
  BY <1>7 DEF Abort, Untouched
<1>8. ASSUME NEW u \in User, NEW q \in Req, CreatePurchaseOrder(u, q) PROVE Goal
  <2>1. CASE q = r
    BY <1>8, <2>1, Zenon
  <2>2. CASE q # r
    BY <1>8, <2>2 DEF CreatePurchaseOrder, Untouched, TypeOK
  <2> QED BY <2>1, <2>2
<1>9. ASSUME NEW q \in Req, CancelPurchaseOrder(q) PROVE Goal
  <2>1. CASE q = r
    BY <1>9, <2>1, Zenon
  <2>2. CASE q # r
    BY <1>9, <2>2 DEF CancelPurchaseOrder, Untouched, TypeOK
  <2> QED BY <2>1, <2>2
<1>10. ASSUME UNCHANGED vars PROVE Goal
  BY <1>10 DEF vars, Untouched
<1> HIDE DEF Goal
<1>11. Goal
  BY <1>0, <1>1, <1>2, <1>3, <1>4, <1>5, <1>6, <1>7, <1>8, <1>9, <1>10, Zenon DEF Next
<1> QED BY <1>11, Zenon DEF Goal

(* A step begins, continues or ends a call, or leaves it alone.            *)
LEMMA StepOf ==
  ASSUME TypeOK, [Next]_vars, NEW o \in Tx
  PROVE  \/ txn'[o] = txn[o] \/ txn'[o] = Idle
         \/ \E u \in User, r \in Req : SubmitRead(o, u, r) /\ o \in Submitters
         \/ \E u \in User, r \in Req, decision \in {"approve", "reject"} :
              \E k \in DOMAIN rows[r] : DecideRead(o, u, r, k, decision)
         \/ ApproveCount(o)
<1> DEFINE Goal == \/ txn'[o] = txn[o] \/ txn'[o] = Idle
                   \/ \E u \in User, r \in Req : SubmitRead(o, u, r) /\ o \in Submitters
                   \/ \E u \in User, r \in Req, decision \in {"approve", "reject"} :
                        \E k \in DOMAIN rows[r] : DecideRead(o, u, r, k, decision)
                   \/ ApproveCount(o)
<1>0. txn \in [Tx -> Txns]
  BY DEF TypeOK
<1>1. ASSUME NEW t \in Submitters, NEW u \in User, NEW r \in Req, SubmitRead(t, u, r) PROVE Goal
  <2>1. CASE t = o
    BY <1>1, <2>1, Zenon
  <2>2. CASE t # o
    BY <1>0, <1>1, <2>2 DEF SubmitRead, Begin
  <2> QED BY <2>1, <2>2
<1>2. ASSUME NEW t \in Tx, End(t) PROVE Goal
  BY <1>0, <1>2 DEF End, Proceed
<1>3. ASSUME NEW t \in Tx, NEW u \in User, NEW r \in Req, NEW decision \in {"approve", "reject"},
             NEW k \in DOMAIN rows[r], DecideRead(t, u, r, k, decision)
      PROVE  Goal
  <2>1. CASE t = o
    BY <1>3, <2>1, Zenon
  <2>2. CASE t # o
    BY <1>0, <1>3, <2>2 DEF DecideRead, Begin
  <2> QED BY <2>1, <2>2
<1>4. ASSUME NEW t \in Tx, ApproveCount(t) PROVE Goal
  <2>1. CASE t = o
    BY <1>4, <2>1, Zenon
  <2>2. CASE t # o
    BY <1>0, <1>4, <2>2 DEF ApproveCount, Proceed
  <2> QED BY <2>1, <2>2
<1>5. ASSUME NEW t \in Tx, SubmitCommit(t) \/ RejectCommit(t) \/ ApproveCommit(t) \/ Abort(t) PROVE Goal
  <2>1. End(t)
    BY <1>5 DEF SubmitCommit, RejectCommit, ApproveCommit, Abort
  <2> QED BY <1>2, <2>1
<1>6. ASSUME NEW u \in User, NEW r \in Req, CreatePurchaseOrder(u, r) PROVE Goal
  BY <1>6 DEF CreatePurchaseOrder
<1>7. ASSUME NEW r \in Req, CancelPurchaseOrder(r) PROVE Goal
  BY <1>7 DEF CancelPurchaseOrder
<1>8. ASSUME UNCHANGED vars PROVE Goal
  BY <1>8 DEF vars
<1> HIDE DEF Goal
<1>9. Goal
  BY <1>1, <1>3, <1>4, <1>5, <1>6, <1>7, <1>8, Zenon DEF Next
<1> QED BY <1>9, Zenon DEF Goal

-----------------------------------------------------------------------------
(* Rows only grow, and a decision stays a decision *)

LEMMA DecidedStays ==
  ASSUME TypeOK, RowsExist, [Next]_vars, NEW r \in Req
  PROVE  /\ \A k \in DOMAIN rows[r] : k \in DOMAIN rows'[r] /\ (Decided(r, k) => Decided(r, k)')
         /\ \/ DOMAIN rows'[r] = DOMAIN rows[r]
            \/ \E t \in Tx : \E chain \in Chains[r] : Submits(t, r, chain)
<1>2. ASSUME NEW t \in Tx, NEW chain \in Chains[r], Submits(t, r, chain)
      PROVE  \A k \in DOMAIN rows[r] : k \in DOMAIN rows'[r] /\ (Decided(r, k) => Decided(r, k)')
  <2>1. \A k \in DOMAIN rows[r] : k \in DOMAIN rows'[r] /\ rows'[r][k] = rows[r][k]
    BY <1>2, AppendsChain DEF Submits
  <2> QED BY <2>1 DEF Decided
<1>3. ASSUME NEW k \in DOMAIN rows[r], NEW decision \in {"APPROVE", "REJECT"},
             rows' = [rows EXCEPT ![r][k].decision = decision]
      PROVE  /\ DOMAIN rows'[r] = DOMAIN rows[r]
             /\ \A j \in DOMAIN rows[r] : j \in DOMAIN rows'[r] /\ (Decided(r, j) => Decided(r, j)')
  <2>1. /\ DOMAIN rows'[r] = DOMAIN rows[r]
        /\ \A j \in DOMAIN rows[r] \ {k} : rows'[r][j] = rows[r][j]
        /\ rows'[r][k].decision = decision
    BY <1>3, StoresDecision
  <2> QED BY <2>1 DEF Decided
<1>4. ASSUME NEW t \in Tx, NEW k \in DOMAIN rows[r], Rejects(t, r, k) \/ Approves(t, r, k)
      PROVE  /\ DOMAIN rows'[r] = DOMAIN rows[r]
             /\ \A j \in DOMAIN rows[r] : j \in DOMAIN rows'[r] /\ (Decided(r, j) => Decided(r, j)')
  <2>1. \E decision \in {"APPROVE", "REJECT"} : rows' = [rows EXCEPT ![r][k].decision = decision]
    BY <1>4, Zenon DEF Rejects, Approves
  <2> QED BY <1>3, <2>1, Zenon
<1>6. CASE \E t \in Tx : \E chain \in Chains[r] : Submits(t, r, chain)
  BY <1>2, <1>6, Zenon
<1>7. CASE \E t \in Tx : \E k \in DOMAIN rows[r] : Rejects(t, r, k) \/ Approves(t, r, k)
  BY <1>4, <1>7, Zenon
<1>8. CASE Untouched(r) \/ (\E u \in User : CreatePurchaseOrder(u, r)) \/ CancelPurchaseOrder(r)
  <2>1. rows'[r] = rows[r]
    BY <1>8 DEF Untouched, CreatePurchaseOrder, CancelPurchaseOrder
  <2> QED BY <2>1 DEF Decided
<1> QED BY <1>6, <1>7, <1>8, StepAt, Zenon

LEMMA NextRowsExist == TypeOK /\ RowsExist /\ [Next]_vars => RowsExist'
<1> SUFFICES ASSUME TypeOK, RowsExist, [Next]_vars, NEW o \in Tx, Deciding(o)'
             PROVE  txn'[o].row \in DOMAIN rows'[txn'[o].req]
  BY DEF RowsExist
<1>0. \A r \in Req : \A k \in DOMAIN rows[r] : k \in DOMAIN rows'[r]
  BY DecidedStays, Zenon
<1>1. CASE txn'[o] = txn[o]
  <2>1. Deciding(o)
    BY <1>1 DEF Deciding
  <2>2. txn[o].req \in Req /\ txn[o].row \in DOMAIN rows[txn[o].req]
    BY <2>1, TxnFields DEF RowsExist, Deciding
  <2> QED BY <1>0, <1>1, <2>2
<1>2. CASE txn'[o] = Idle
  BY <1>2 DEF Deciding, Idle
<1>3. ASSUME NEW u \in User, NEW r \in Req, SubmitRead(o, u, r) PROVE FALSE
  BY <1>3 DEF SubmitRead, Begin, Deciding, TypeOK
<1>4. ASSUME NEW u \in User, NEW r \in Req, NEW decision \in {"approve", "reject"},
             NEW k \in DOMAIN rows[r], DecideRead(o, u, r, k, decision)
      PROVE  txn'[o].row \in DOMAIN rows'[txn'[o].req]
  BY <1>4 DEF DecideRead, Begin, TypeOK
<1>5. CASE ApproveCount(o)
  <2>1. Deciding(o)
    BY <1>5 DEF Deciding, ApproveCount
  <2>2. txn'[o].row = txn[o].row /\ txn'[o].req = txn[o].req /\ rows' = rows
    BY <1>5 DEF ApproveCount, Proceed, TypeOK
  <2> QED BY <2>1, <2>2 DEF RowsExist
<1> QED BY <1>1, <1>2, <1>3, <1>4, <1>5, StepOf, Zenon

FlowInv == TypeOK /\ RowsExist

LEMMA InitFlowInv == Init => FlowInv
<1>1. Init => RowsExist
  BY DEF Init, RowsExist, Deciding, Idle
<1> QED BY <1>1, InitTypeOK DEF FlowInv

LEMMA NextFlowInv == FlowInv /\ [Next]_vars => FlowInv'
BY NextTypeOK, NextRowsExist DEF FlowInv

(* Every state is well-typed, and a call decides a step that exists.       *)
THEOREM TypeCorrect == Spec => []TypeOK
<1>1. FlowInv => TypeOK
  BY DEF FlowInv
<1> QED BY <1>1, InitFlowInv, NextFlowInv, PTL DEF Spec

-----------------------------------------------------------------------------
(* However calls race, when requisitions are submitted one at a time *)

OneSubmitter == \A s, t \in Submitters : s = t

(* A draft has no steps and no order, and what is being submitted is one.  *)
SubmittedOnce ==
  /\ \A r \in Req : status[r] = "DRAFT" => rows[r] = <<>> /\ ~poOpen[r]
  /\ \A t \in Tx : txn[t].phase = "submit_read" => t \in Submitters /\ status[txn[t].req] = "DRAFT"

(* A count that was complete saw no other step undecided, and will not:    *)
(* decisions are not taken back and no steps are added.                    *)
CountsHold ==
  \A t \in Tx : txn[t].phase = "approve_held" /\ txn[t].complete =>
    \A j \in DOMAIN rows[txn[t].req] \ {txn[t].row} : Decided(txn[t].req, j)

OnceInv == FlowInv /\ SubmittedOnce /\ CountsHold /\ NothingOrderedUndecided

LEMMA InitOnceInv == Init => OnceInv
<1> SUFFICES ASSUME Init PROVE OnceInv
  OBVIOUS
<1>1. SubmittedOnce /\ CountsHold
  BY DEF Init, SubmittedOnce, CountsHold, Idle
<1>2. NothingOrderedUndecided
  BY DEF Init, NothingOrderedUndecided
<1> QED BY <1>1, <1>2, InitFlowInv DEF OnceInv

(* A requisition that has steps was submitted. *)
LEMMA DecidedIsSubmitted ==
  ASSUME FlowInv, SubmittedOnce, NEW t \in Tx, Deciding(t)
  PROVE  status[txn[t].req] # "DRAFT"
<1>1. txn[t].req \in Req /\ txn[t].row \in DOMAIN rows[txn[t].req]
  BY TxnFields DEF FlowInv, RowsExist, Deciding
<1>2. DOMAIN <<>> = {}
  BY EmptySeq
<1> QED BY <1>1, <1>2 DEF SubmittedOnce

LEMMA StaysSubmittedOnce ==
  ASSUME OneSubmitter, OnceInv, [Next]_vars
  PROVE  SubmittedOnce'
<1>0. TypeOK /\ RowsExist /\ SubmittedOnce
  BY DEF OnceInv, FlowInv
<1>1. ASSUME NEW r \in Req, status'[r] = "DRAFT" PROVE Untouched(r) /\ status[r] = "DRAFT"
  <2>1. ASSUME NEW t \in Tx, NEW chain \in Chains[r], Submits(t, r, chain) PROVE FALSE
    BY <1>0, <1>1, <2>1 DEF Submits, StoresChain, TypeOK
  <2>2. ASSUME NEW t \in Tx, NEW k \in DOMAIN rows[r], Rejects(t, r, k) PROVE FALSE
    BY <1>0, <1>1, <2>2 DEF Rejects, RejectCommit, OnCall, TypeOK
  <2>3. ASSUME NEW t \in Tx, NEW k \in DOMAIN rows[r], Approves(t, r, k) PROVE FALSE
    <3>1. status[r] # "DRAFT"
      BY <2>3, DecidedIsSubmitted DEF Approves, OnCall, OnceInv
    <3> QED BY <1>0, <1>1, <2>3, <3>1 DEF Approves, ApproveCommit, OnCall, TypeOK
  <2>4. ASSUME NEW u \in User, CreatePurchaseOrder(u, r) PROVE FALSE
    BY <1>0, <1>1, <2>4 DEF CreatePurchaseOrder, TypeOK
  <2>5. ASSUME CancelPurchaseOrder(r) PROVE FALSE
    BY <1>0, <1>1, <2>5 DEF CancelPurchaseOrder, TypeOK
  <2>6. Untouched(r)
    BY <1>0, <2>1, <2>2, <2>3, <2>4, <2>5, StepAt, Zenon
  <2> QED BY <1>1, <2>6 DEF Untouched
<1>2. \A r \in Req : status'[r] = "DRAFT" => rows'[r] = <<>> /\ ~poOpen'[r]
  BY <1>0, <1>1 DEF Untouched, SubmittedOnce
<1>3. ASSUME NEW o \in Tx, txn'[o].phase = "submit_read"
      PROVE  o \in Submitters /\ status'[txn'[o].req] = "DRAFT"
  <2>1. ASSUME NEW u \in User, NEW r \in Req, SubmitRead(o, u, r), o \in Submitters
        PROVE  o \in Submitters /\ status'[txn'[o].req] = "DRAFT"
    BY <1>0, <2>1 DEF SubmitRead, Begin, TypeOK
  <2>2. txn'[o] # Idle
    BY <1>3 DEF Idle
  <2>3. ASSUME NEW u \in User, NEW r \in Req, NEW decision \in {"approve", "reject"},
               NEW k \in DOMAIN rows[r], DecideRead(o, u, r, k, decision)
        PROVE  FALSE
    BY <1>0, <1>3, <2>3 DEF DecideRead, Begin, TypeOK
  <2>4. ~ApproveCount(o)
    BY <1>0, <1>3 DEF ApproveCount, Proceed, TypeOK
  <2>5. CASE txn'[o] = txn[o]
    <3>1. PICK r \in Req : r = txn[o].req
      BY <1>0, <1>3, <2>2, <2>5, TxnFields
    <3>2. o \in Submitters /\ status[r] = "DRAFT"
      BY <1>0, <1>3, <2>5, <3>1 DEF SubmittedOnce
    <3>3. ASSUME NEW t \in Tx, NEW chain \in Chains[r], Submits(t, r, chain) PROVE FALSE
      <4>1. txn[t].phase = "submit_read"
        BY <3>3 DEF Submits, SubmitCommit
      <4>2. t = o
        BY <1>0, <3>2, <4>1 DEF SubmittedOnce, OneSubmitter
      <4> QED BY <1>0, <2>2, <3>3, <4>2 DEF Submits, SubmitCommit, End, Proceed, TypeOK
    <3>4. ASSUME NEW t \in Tx, NEW k \in DOMAIN rows[r], Rejects(t, r, k) \/ Approves(t, r, k) PROVE FALSE
      BY <3>2, <3>4, DecidedIsSubmitted DEF Rejects, Approves, OnCall, OnceInv
    <3>5. ASSUME NEW u \in User, CreatePurchaseOrder(u, r) PROVE FALSE
      BY <3>2, <3>5 DEF CreatePurchaseOrder, Orderable
    <3>6. ~CancelPurchaseOrder(r)
      BY <1>0, <3>2 DEF CancelPurchaseOrder, SubmittedOnce
    <3>7. Untouched(r)
      BY <1>0, <3>3, <3>4, <3>5, <3>6, StepAt, Zenon
    <3> QED BY <2>5, <3>1, <3>2, <3>7 DEF Untouched
  <2> QED BY <1>0, <2>1, <2>2, <2>3, <2>4, <2>5, StepOf, Zenon
<1> QED BY <1>2, <1>3 DEF SubmittedOnce

(* Steps are stored for drafts only. *)
LEMMA SubmitsADraft ==
  ASSUME OnceInv, NEW r \in Req, NEW t \in Tx, NEW chain \in Chains[r], Submits(t, r, chain)
  PROVE  status[r] = "DRAFT" /\ rows[r] = <<>> /\ ~poOpen[r] /\ status'[r] = "SUBMITTED" /\ ~poOpen'[r]
BY DEF Submits, SubmitCommit, OnCall, OnceInv, SubmittedOnce, StoresChain, FlowInv, TypeOK

LEMMA StaysCountsHold ==
  ASSUME OnceInv, [Next]_vars
  PROVE  CountsHold'
<1>0. TypeOK /\ RowsExist /\ SubmittedOnce /\ CountsHold
  BY DEF OnceInv, FlowInv
<1> SUFFICES ASSUME NEW o \in Tx, txn'[o].phase = "approve_held", txn'[o].complete
             PROVE  \A j \in DOMAIN rows'[txn'[o].req] \ {txn'[o].row} :
                      rows'[txn'[o].req][j].decision # "NONE"
  BY DEF CountsHold, Decided
<1>1. CASE txn'[o] = txn[o]
  <2>1. Deciding(o)
    BY <1>1 DEF Deciding
  <2>2. PICK r \in Req : r = txn[o].req
    BY <1>0, <2>1, TxnFields DEF Deciding
  <2>3. PICK k \in DOMAIN rows[r] : k = txn[o].row
    BY <1>0, <2>1, <2>2 DEF RowsExist
  <2>4. \A j \in DOMAIN rows[r] \ {k} : Decided(r, j)
    BY <1>0, <1>1, <2>2, <2>3 DEF CountsHold
  <2>5. status[r] # "DRAFT"
    BY <2>1, <2>2, DecidedIsSubmitted DEF OnceInv
  <2>6. DOMAIN rows'[r] = DOMAIN rows[r]
    BY <1>0, <2>5, DecidedStays, SubmitsADraft, Zenon
  <2>7. \A j \in DOMAIN rows'[r] \ {k} : Decided(r, j)'
    BY <1>0, <2>4, <2>6, DecidedStays
  <2> QED BY <1>1, <2>2, <2>3, <2>7 DEF Decided
<1>2. CASE ApproveCount(o)
  <2>1. txn[o] # Idle /\ txn[o].req \in Req
    BY <1>0, <1>2, TxnFields DEF ApproveCount
  <2>2. /\ txn'[o].req = txn[o].req /\ txn'[o].row = txn[o].row /\ rows' = rows
        /\ CompleteWith(txn[o].req, txn[o].row)
    BY <1>0, <1>2 DEF ApproveCount, Proceed, TypeOK
  <2> QED BY <2>2 DEF CompleteWith, Decided
<1>3. txn'[o] # Idle
  BY DEF Idle
<1>4. ASSUME NEW u \in User, NEW r \in Req, SubmitRead(o, u, r) PROVE FALSE
  BY <1>0, <1>4 DEF SubmitRead, Begin, TypeOK
<1>5. ASSUME NEW u \in User, NEW r \in Req, NEW decision \in {"approve", "reject"},
             NEW k \in DOMAIN rows[r], DecideRead(o, u, r, k, decision)
      PROVE  FALSE
  BY <1>0, <1>5 DEF DecideRead, Begin, TypeOK
<1> QED BY <1>0, <1>1, <1>2, <1>3, <1>4, <1>5, StepOf, Zenon

LEMMA StaysDecided ==
  ASSUME OnceInv, [Next]_vars
  PROVE  NothingOrderedUndecided'
<1>0. TypeOK /\ RowsExist /\ SubmittedOnce /\ CountsHold /\ NothingOrderedUndecided
  BY DEF OnceInv, FlowInv
<1> SUFFICES ASSUME NEW r \in Req, status'[r] \in {"APPROVED", "ORDERED"} \/ poOpen'[r]
             PROVE  \A k \in DOMAIN rows'[r] : Decided(r, k)'
  BY DEF NothingOrderedUndecided, Decided
<1>1. ASSUME status[r] \in {"APPROVED", "ORDERED"} \/ poOpen[r]
      PROVE  \A k \in DOMAIN rows'[r] : Decided(r, k)'
  <2>1. status[r] # "DRAFT"
    BY <1>0, <1>1 DEF SubmittedOnce
  <2>2. DOMAIN rows'[r] = DOMAIN rows[r]
    BY <1>0, <2>1, DecidedStays, SubmitsADraft, Zenon
  <2>3. \A k \in DOMAIN rows[r] : Decided(r, k)
    BY <1>0, <1>1 DEF NothingOrderedUndecided
  <2> QED BY <1>0, <2>2, <2>3, DecidedStays
<1>2. CASE Untouched(r)
  BY <1>1, <1>2 DEF Untouched
<1>3. ASSUME NEW t \in Tx, NEW chain \in Chains[r], Submits(t, r, chain) PROVE FALSE
  BY <1>3, SubmitsADraft
<1>4. ASSUME NEW t \in Tx, NEW k \in DOMAIN rows[r], Rejects(t, r, k)
      PROVE  status[r] \in {"APPROVED", "ORDERED"} \/ poOpen[r]
  BY <1>0, <1>4 DEF Rejects, RejectCommit, OnCall, TypeOK
<1>5. ASSUME NEW t \in Tx, NEW k \in DOMAIN rows[r], Approves(t, r, k)
      PROVE  \A j \in DOMAIN rows'[r] : Decided(r, j)'
  <2>1. CASE txn[t].complete
    <3>1. txn[t].phase = "approve_held" /\ txn[t].req = r /\ txn[t].row = k
      BY <1>5 DEF Approves, ApproveCommit, OnCall
    <3>2. \A j \in DOMAIN rows[r] \ {k} : Decided(r, j)
      BY <1>0, <2>1, <3>1 DEF CountsHold
    <3>3. DOMAIN rows'[r] = DOMAIN rows[r] /\ rows'[r][k].decision = "APPROVE"
      BY <1>0, <1>5, StoresDecision DEF Approves
    <3>4. Decided(r, k)'
      BY <3>3 DEF Decided
    <3> QED BY <1>0, <3>2, <3>3, <3>4, DecidedStays
  <2>2. CASE ~txn[t].complete
    <3>1. status' = status /\ poOpen' = poOpen
      BY <1>0, <1>5, <2>2 DEF Approves, ApproveCommit, OnCall, TypeOK
    <3> QED BY <1>1, <3>1
  <2> QED BY <2>1, <2>2
<1>6. ASSUME NEW u \in User, CreatePurchaseOrder(u, r)
      PROVE  status[r] \in {"APPROVED", "ORDERED"} \/ poOpen[r]
  BY <1>6 DEF CreatePurchaseOrder, Orderable
<1>7. ASSUME CancelPurchaseOrder(r)
      PROVE  status[r] \in {"APPROVED", "ORDERED"} \/ poOpen[r]
  BY <1>7 DEF CancelPurchaseOrder
<1> QED BY <1>0, <1>1, <1>2, <1>3, <1>4, <1>5, <1>6, <1>7, StepAt, Zenon

LEMMA NextOnceInv == OneSubmitter /\ OnceInv /\ [Next]_vars => OnceInv'
<1> SUFFICES ASSUME OneSubmitter, OnceInv, [Next]_vars PROVE OnceInv'
  OBVIOUS
<1>1. FlowInv'
  BY NextFlowInv DEF OnceInv
<1> QED BY <1>1, StaysSubmittedOnce, StaysCountsHold, StaysDecided DEF OnceInv

(* However any number of decisions race, with rejections, with orders and  *)
(* with cancellations, nothing is approved or ordered while a step of it   *)
(* is undecided, if submissions come one at a time.                        *)
THEOREM OrderedIsDecided ==
  ASSUME OneSubmitter
  PROVE  Spec => []NothingOrderedUndecided
<1>1. OnceInv /\ [Next]_vars => OnceInv'
  BY NextOnceInv
<1>2. OnceInv => NothingOrderedUndecided
  BY DEF OnceInv
<1> QED BY <1>1, <1>2, InitOnceInv, PTL DEF Spec

-----------------------------------------------------------------------------
(* A requisition whose calls come one at a time *)

(* What the call on r has read is still so. *)
CallsSound(r) ==
  /\ \A t, o \in Tx : OnCall(t, r) /\ OnCall(o, r) => t = o
  /\ \A t \in Tx : OnCall(t, r) =>
       /\ txn[t].phase = "submit_read" => status[r] = "DRAFT"
       /\ Deciding(t) => rows[r][txn[t].row].decision = "NONE"
       /\ txn[t].phase = "approve_held" => txn[t].complete = CompleteWith(r, txn[t].row)

(* The conclusion of OutcomeFollowsDecisions for r. *)
Outcome(r) ==
  /\ \E chain \in Chains[r] : [k \in DOMAIN rows[r] |-> rows[r][k].role] = chain
  /\ status[r] = "REJECTED" <=> Rejected(r)
  /\ status[r] \in {"APPROVED", "ORDERED"} <=> Approved(r)
  /\ announced[r] = CASE Rejected(r) -> {"REJECTED"}
                      [] Approved(r) -> {"APPROVED"}
                      [] OTHER       -> {}

StateSound(r) ==
  /\ status[r] = "DRAFT" => rows[r] = <<>> /\ announced[r] = {} /\ ~poOpen[r]
  /\ poOpen[r] => status[r] = "ORDERED"
  /\ status[r] # "DRAFT" => Outcome(r)

AloneInv == FlowInv /\ \A r \in Req \ raced : CallsSound(r) /\ StateSound(r)

LEMMA InitAloneInv == Init => AloneInv
<1> SUFFICES ASSUME Init, NEW r \in Req PROVE CallsSound(r) /\ StateSound(r)
  BY InitFlowInv DEF AloneInv
<1> QED BY DEF Init, CallsSound, StateSound, OnCall

(* A step that leaves r alone, and begins no call on it. *)
LEMMA KeepsOthers ==
  ASSUME NEW r \in Req, CallsSound(r), StateSound(r), Untouched(r),
         \A o \in Tx : OnCall(o, r)' => txn'[o] = txn[o]
  PROVE  CallsSound(r)' /\ StateSound(r)'
<1>1. \A o \in Tx : OnCall(o, r)' => OnCall(o, r) /\ txn'[o] = txn[o]
  BY DEF OnCall
<1>2. rows'[r] = rows[r] /\ status'[r] = status[r]
  BY DEF Untouched
<1>3. \A t, o \in Tx : OnCall(t, r)' /\ OnCall(o, r)' => t = o
  BY <1>1, Zenon DEF CallsSound
<1>4. ASSUME NEW t \in Tx, OnCall(t, r)'
      PROVE  /\ txn'[t].phase = "submit_read" => status'[r] = "DRAFT"
             /\ Deciding(t)' => rows'[r][txn'[t].row].decision = "NONE"
             /\ txn'[t].phase = "approve_held" => txn'[t].complete = CompleteWith(r, txn[t].row)
  BY <1>1, <1>2, <1>4 DEF CallsSound, Deciding
<1>5. \A k : CompleteWith(r, k)' = CompleteWith(r, k)
  BY <1>2 DEF CompleteWith
<1>6. CallsSound(r)'
  BY <1>1, <1>3, <1>4, <1>5 DEF CallsSound
<1>7. StateSound(r)'
  BY DEF StateSound, Outcome, Untouched, Rejected, Approved
<1> QED BY <1>6, <1>7

(* Once its call has ended, no call on r is in progress. *)
LEMMA EndsLast ==
  ASSUME TypeOK, NEW r \in Req, CallsSound(r), NEW t \in Tx, OnCall(t, r), End(t)
  PROVE  CallsSound(r)'
<1>1. \A o \in Tx : o # t => txn'[o] = txn[o]
  BY DEF End, Proceed, TypeOK
<1>2. txn'[t] = Idle
  BY DEF End, Proceed, TypeOK
<1>3. \A o \in Tx : ~OnCall(o, r)'
  BY <1>1, <1>2 DEF OnCall, CallsSound
<1> QED BY <1>3 DEF CallsSound

LEMMA RowInHand ==
  ASSUME FlowInv, NEW r \in Req, CallsSound(r), StateSound(r), NEW t \in Tx, OnCall(t, r), Deciding(t)
  PROVE  /\ txn[t].row \in DOMAIN rows[r] /\ rows[r][txn[t].row].decision = "NONE"
         /\ status[r] # "DRAFT" /\ ~Approved(r) /\ ~poOpen[r]
<1>1. txn[t].row \in DOMAIN rows[r] /\ rows[r][txn[t].row].decision = "NONE"
  BY DEF FlowInv, RowsExist, OnCall, CallsSound
<1>2. DOMAIN <<>> = {}
  BY EmptySeq
<1>3. status[r] # "DRAFT"
  BY <1>1, <1>2 DEF StateSound
<1>4. ~Approved(r)
  BY <1>1 DEF Approved
<1> QED BY <1>1, <1>3, <1>4 DEF StateSound, Outcome

LEMMA SubmitKeepsState ==
  ASSUME FlowInv, NEW r \in Req, CallsSound(r), StateSound(r),
         NEW t \in Tx, NEW chain \in Chains[r], Submits(t, r, chain)
  PROVE  StateSound(r)'
<1>1. TypeOK
  BY DEF FlowInv
<1>2. rows[r] = <<>> /\ announced[r] = {} /\ ~poOpen[r]
  BY DEF Submits, SubmitCommit, CallsSound, StateSound
<1>3. status'[r] = "SUBMITTED" /\ announced'[r] = {} /\ ~poOpen'[r]
  BY <1>1, <1>2 DEF Submits, SubmitCommit, StoresChain, TypeOK
<1>4. /\ chain \in Seq(ApproverRoles) /\ Len(chain) \in Nat \ {0}
      /\ DOMAIN rows'[r] = DOMAIN chain
      /\ \A k \in DOMAIN chain : rows'[r][k] = Row(chain[k])
  BY <1>1, <1>2, AppendsChain DEF Submits
<1>5. DOMAIN chain = 1 .. Len(chain)
  BY <1>4, LenProperties
<1>6. 1 \in DOMAIN rows'[r]
  BY <1>4, <1>5
<1>7. \A k \in DOMAIN rows'[r] : rows'[r][k].role = chain[k] /\ rows'[r][k].decision = "NONE"
  <2> SUFFICES ASSUME NEW k \in DOMAIN rows'[r]
               PROVE  rows'[r][k].role = chain[k] /\ rows'[r][k].decision = "NONE"
    OBVIOUS
  <2>1. rows'[r][k] = Row(chain[k])
    BY <1>4, Zenon
  <2>2. Row(chain[k]).role = chain[k] /\ Row(chain[k]).decision = "NONE"
    BY DEF Row
  <2> QED BY <2>1, <2>2
<1>8. [k \in DOMAIN rows'[r] |-> rows'[r][k].role] = chain
  <2>1. chain = [k \in DOMAIN chain |-> chain[k]]
    BY <1>4, <1>5
  <2> QED BY <1>4, <1>7, <2>1
<1>9. ~Rejected(r)' /\ ~Approved(r)'
  BY <1>6, <1>7 DEF Rejected, Approved
<1>10. Outcome(r)'
  BY <1>3, <1>8, <1>9 DEF Outcome
<1> QED BY <1>3, <1>10 DEF StateSound

(* Storing a decision keeps the roles of the steps. *)
LEMMA KeepsRoles ==
  ASSUME TypeOK, NEW r \in Req, NEW k \in DOMAIN rows[r], NEW decision \in {"APPROVE", "REJECT"},
         rows' = [rows EXCEPT ![r][k].decision = decision]
  PROVE  [j \in DOMAIN rows'[r] |-> rows'[r][j].role] = [j \in DOMAIN rows[r] |-> rows[r][j].role]
<1>1. /\ DOMAIN rows'[r] = DOMAIN rows[r]
      /\ \A j \in DOMAIN rows[r] \ {k} : rows'[r][j] = rows[r][j]
      /\ rows'[r][k].role = rows[r][k].role
  BY StoresDecision
<1>2. \A j \in DOMAIN rows[r] : rows'[r][j].role = rows[r][j].role
  BY <1>1
<1> QED BY <1>1, <1>2

LEMMA RejectKeepsState ==
  ASSUME FlowInv, NEW r \in Req, CallsSound(r), StateSound(r),
         NEW t \in Tx, NEW k \in DOMAIN rows[r], Rejects(t, r, k)
  PROVE  StateSound(r)'
<1>1. TypeOK
  BY DEF FlowInv
<1>2. /\ rows[r][k].decision = "NONE" /\ status[r] # "DRAFT" /\ ~Approved(r) /\ ~poOpen[r]
  BY RowInHand DEF Rejects
<1>3. /\ status'[r] = "REJECTED" /\ ~poOpen'[r] /\ announced'[r] = announced[r] \cup {"REJECTED"}
  BY <1>1, <1>2 DEF Rejects, RejectCommit, OnCall, TypeOK
<1>4. k \in DOMAIN rows'[r] /\ rows'[r][k].decision = "REJECT"
  BY <1>1, StoresDecision DEF Rejects
<1>5. Rejected(r)' /\ ~Approved(r)'
  BY <1>4 DEF Rejected, Approved
<1>6. Outcome(r)
  BY <1>2 DEF StateSound
<1>7. announced'[r] = {"REJECTED"}
  BY <1>2, <1>3, <1>6 DEF Outcome
<1>8. \E chain \in Chains[r] : [j \in DOMAIN rows'[r] |-> rows'[r][j].role] = chain
  BY <1>1, <1>6, KeepsRoles DEF Outcome, Rejects
<1>9. Outcome(r)'
  BY <1>3, <1>5, <1>7, <1>8 DEF Outcome
<1> QED BY <1>3, <1>9 DEF StateSound

LEMMA ApproveKeepsState ==
  ASSUME FlowInv, NEW r \in Req, CallsSound(r), StateSound(r),
         NEW t \in Tx, NEW k \in DOMAIN rows[r], Approves(t, r, k)
  PROVE  StateSound(r)'
<1>1. TypeOK
  BY DEF FlowInv
<1>2. /\ rows[r][k].decision = "NONE" /\ status[r] # "DRAFT" /\ ~Approved(r) /\ ~poOpen[r]
  BY RowInHand DEF Approves
<1>3. /\ DOMAIN rows'[r] = DOMAIN rows[r]
      /\ \A j \in DOMAIN rows[r] \ {k} : rows'[r][j] = rows[r][j]
      /\ rows'[r][k].decision = "APPROVE"
  BY <1>1, StoresDecision DEF Approves
<1>4. Outcome(r)
  BY <1>2 DEF StateSound
<1>5. \E chain \in Chains[r] : [j \in DOMAIN rows'[r] |-> rows'[r][j].role] = chain
  BY <1>1, <1>4, KeepsRoles DEF Outcome, Approves
<1>6. Rejected(r)' <=> Rejected(r)
  BY <1>2, <1>3 DEF Rejected
<1>7. Approved(r)' <=> CompleteWith(r, k)
  BY <1>3 DEF Approved, CompleteWith
<1>8. txn[t].complete = CompleteWith(r, k)
  BY DEF Approves, ApproveCommit, CallsSound
<1>9. CASE CompleteWith(r, k)
  <2>1. ~Rejected(r)
    BY <1>2, <1>9 DEF Rejected, CompleteWith
  <2>2. announced[r] = {}
    BY <1>2, <1>4, <2>1 DEF Outcome
  <2>3. status'[r] = "APPROVED" /\ announced'[r] = {"APPROVED"} /\ ~poOpen'[r]
    BY <1>1, <1>2, <1>8, <1>9, <2>2 DEF Approves, ApproveCommit, OnCall, TypeOK
  <2>4. Outcome(r)'
    BY <1>5, <1>6, <1>7, <1>9, <2>1, <2>3 DEF Outcome
  <2> QED BY <2>3, <2>4 DEF StateSound
<1>10. CASE ~CompleteWith(r, k)
  <2>1. status'[r] = status[r] /\ announced'[r] = announced[r] /\ ~poOpen'[r]
    BY <1>1, <1>2, <1>8, <1>10 DEF Approves, ApproveCommit, OnCall, TypeOK
  <2>2. Outcome(r)'
    BY <1>2, <1>4, <1>5, <1>6, <1>7, <1>10, <2>1 DEF Outcome
  <2> QED BY <1>2, <2>1, <2>2 DEF StateSound
<1> QED BY <1>9, <1>10

LEMMA OrdersKeepSound ==
  ASSUME FlowInv, NEW r \in Req, CallsSound(r), StateSound(r),
         (\E u \in User : CreatePurchaseOrder(u, r)) \/ CancelPurchaseOrder(r)
  PROVE  CallsSound(r)' /\ StateSound(r)'
<1>1. /\ status[r] \in {"APPROVED", "ORDERED"}
      /\ \/ status'[r] = "ORDERED" /\ poOpen'[r]
         \/ status'[r] = "APPROVED" /\ ~poOpen'[r]
      /\ rows' = rows /\ announced' = announced /\ txn' = txn
  BY DEF CreatePurchaseOrder, CancelPurchaseOrder, Orderable, StateSound, FlowInv, TypeOK
<1>2. CallsSound(r)'
  BY <1>1 DEF CallsSound, OnCall, Deciding, CompleteWith
<1>3. StateSound(r)'
  BY <1>1 DEF StateSound, Outcome, Rejected, Approved
<1> QED BY <1>2, <1>3

(* A call that begins finds r free, or marks it as raced. *)
LEMMA BeginsAlone ==
  ASSUME TypeOK, NEW r \in Req \ raced', CallsSound(r), StateSound(r), Untouched(r),
         NEW t \in Tx, NEW state, Begin(t, state), state # Idle,
         state.req = r =>
           \/ state.phase = "submit_read" /\ status[r] = "DRAFT"
           \/ state.phase = "decide_read" /\ rows[r][state.row].decision = "NONE"
  PROVE  CallsSound(r)' /\ StateSound(r)'
<1>1. txn'[t] = state /\ \A o \in Tx \ {t} : txn'[o] = txn[o]
  BY DEF Begin, TypeOK
<1>2. CASE state.req # r
  <2>1. \A o \in Tx : OnCall(o, r)' => txn'[o] = txn[o]
    BY <1>1, <1>2 DEF OnCall
  <2> QED BY <2>1, KeepsOthers
<1>3. CASE state.req = r
  <2>1. \A o \in Tx : ~OnCall(o, r)
    BY <1>3 DEF Begin, OnCall
  <2>2. \A o \in Tx : OnCall(o, r)' => o = t
    BY <1>1, <2>1 DEF OnCall
  <2>3. /\ txn'[t].phase = "submit_read" => status'[r] = "DRAFT"
        /\ Deciding(t)' => rows'[r][txn'[t].row].decision = "NONE"
        /\ txn'[t].phase # "approve_held"
    BY <1>1, <1>3 DEF Deciding, Untouched
  <2>4. CallsSound(r)'
    BY <2>2, <2>3 DEF CallsSound
  <2>5. StateSound(r)'
    BY DEF StateSound, Outcome, Untouched, Rejected, Approved
  <2> QED BY <2>4, <2>5
<1> QED BY <1>2, <1>3

LEMMA CountsAlone ==
  ASSUME TypeOK, NEW r \in Req, CallsSound(r), StateSound(r), Untouched(r),
         NEW t \in Tx, ApproveCount(t)
  PROVE  CallsSound(r)' /\ StateSound(r)'
<1>1. /\ \A o \in Tx \ {t} : txn'[o] = txn[o]
      /\ txn'[t].req = txn[t].req /\ txn'[t].row = txn[t].row /\ txn'[t].phase = "approve_held"
      /\ txn'[t].complete = CompleteWith(txn[t].req, txn[t].row) /\ rows' = rows /\ status' = status
  BY DEF ApproveCount, Proceed, TypeOK
<1>2. txn[t] # Idle
  BY DEF ApproveCount, Idle
<1>3. CASE txn[t].req # r
  <2>1. \A o \in Tx : OnCall(o, r)' => txn'[o] = txn[o]
    BY <1>1, <1>3 DEF OnCall
  <2> QED BY <2>1, KeepsOthers
<1>4. CASE txn[t].req = r
  <2>1. \A o \in Tx : OnCall(o, r)' => o = t
    BY <1>1, <1>2, <1>4 DEF OnCall, CallsSound
  <2>2. rows[r][txn[t].row].decision = "NONE"
    BY <1>2, <1>4 DEF CallsSound, OnCall, Deciding, ApproveCount
  <2>3. txn'[t].complete = CompleteWith(r, txn'[t].row)
    BY <1>1, <1>4
  <2>4. CompleteWith(r, txn'[t].row) = CompleteWith(r, txn[t].row)'
    BY <1>1 DEF CompleteWith
  <2>5. CallsSound(r)'
    BY <1>1, <1>4, <2>1, <2>2, <2>3, <2>4 DEF CallsSound
  <2>6. StateSound(r)'
    BY DEF StateSound, Outcome, Untouched, Rejected, Approved
  <2> QED BY <2>5, <2>6
<1> QED BY <1>3, <1>4

LEMMA NextAloneInv == AloneInv /\ [Next]_vars => AloneInv'
<1> SUFFICES ASSUME AloneInv, [Next]_vars, NEW r \in Req \ raced'
             PROVE  CallsSound(r)' /\ StateSound(r)'
  BY NextFlowInv DEF AloneInv
<1> DEFINE Sound == CallsSound(r)' /\ StateSound(r)'
<1>0. TypeOK /\ RowsExist /\ FlowInv
  BY DEF AloneInv, FlowInv
<1>1. raced \subseteq raced'
  BY DEF Next, vars, SubmitRead, DecideRead, Begin, SubmitCommit, RejectCommit, ApproveCount,
         ApproveCommit, Abort, End, Proceed, CreatePurchaseOrder, CancelPurchaseOrder
<1>2. r \in Req /\ CallsSound(r) /\ StateSound(r)
  BY <1>1 DEF AloneInv
<1>3. Submitters \subseteq Tx
  BY FlowAssumption
<1>4. ASSUME NEW t \in Tx, End(t), OnCall(t, r) PROVE CallsSound(r)'
  BY <1>0, <1>2, <1>4, EndsLast
<1>5. ASSUME NEW t \in Tx, End(t), Untouched(r) PROVE Sound
  <2>1. \A o \in Tx : OnCall(o, r)' => txn'[o] = txn[o]
    BY <1>0, <1>5 DEF End, Proceed, OnCall, TypeOK
  <2> QED BY <1>2, <1>5, <2>1, KeepsOthers
<1>6. ASSUME NEW t \in Tx, NEW chain \in Chains[r], Submits(t, r, chain) PROVE Sound
  <2>1. CallsSound(r)'
    BY <1>4, <1>6 DEF Submits, SubmitCommit
  <2> QED BY <1>0, <1>2, <1>6, <2>1, SubmitKeepsState
<1>7. ASSUME NEW t \in Tx, NEW k \in DOMAIN rows[r], Rejects(t, r, k) PROVE Sound
  <2>1. CallsSound(r)'
    BY <1>4, <1>7 DEF Rejects, RejectCommit
  <2> QED BY <1>0, <1>2, <1>7, <2>1, RejectKeepsState
<1>8. ASSUME NEW t \in Tx, NEW k \in DOMAIN rows[r], Approves(t, r, k) PROVE Sound
  <2>1. CallsSound(r)'
    BY <1>4, <1>8 DEF Approves, ApproveCommit
  <2> QED BY <1>0, <1>2, <1>8, <2>1, ApproveKeepsState
<1>9. ASSUME (\E u \in User : CreatePurchaseOrder(u, r)) \/ CancelPurchaseOrder(r) PROVE Sound
  BY <1>0, <1>2, <1>9, OrdersKeepSound
<1>10. ASSUME Untouched(r) PROVE Sound
  <2>1. ASSUME NEW t \in Submitters, NEW u \in User, NEW q \in Req, SubmitRead(t, u, q) PROVE Sound
    <3> DEFINE state == [phase |-> "submit_read", req |-> q]
    <3>1. state # Idle /\ state.req = q /\ state.phase = "submit_read" /\ status[q] = "DRAFT" /\ Begin(t, state)
      BY <2>1 DEF SubmitRead, Idle
    <3> HIDE DEF state
    <3>2. t \in Tx
      BY <1>3
    <3> QED BY <1>0, <1>2, <1>10, <3>1, <3>2, BeginsAlone
  <2>2. ASSUME NEW t \in Tx, NEW u \in User, NEW q \in Req, NEW decision \in {"approve", "reject"},
               NEW k \in DOMAIN rows[q], DecideRead(t, u, q, k, decision)
        PROVE  Sound
    <3> DEFINE state == [phase |-> "decide_read", req |-> q, row |-> k, decision |-> decision]
    <3>1. /\ state # Idle /\ state.req = q /\ state.row = k /\ state.phase = "decide_read"
          /\ rows[q][k].decision = "NONE" /\ Begin(t, state)
      BY <2>2 DEF DecideRead, MayDecide, Idle
    <3> HIDE DEF state
    <3> QED BY <1>0, <1>2, <1>10, <3>1, BeginsAlone
  <2>3. ASSUME NEW t \in Tx, ApproveCount(t) PROVE Sound
    BY <1>0, <1>2, <1>10, <2>3, CountsAlone
  <2>4. ASSUME NEW t \in Tx, SubmitCommit(t) \/ RejectCommit(t) \/ ApproveCommit(t) \/ Abort(t) PROVE Sound
    <3>1. End(t)
      BY <2>4 DEF SubmitCommit, RejectCommit, ApproveCommit, Abort
    <3> QED BY <1>5, <1>10, <3>1
  <2>5. ASSUME txn' = txn PROVE Sound
    BY <1>2, <1>10, <2>5, KeepsOthers
  <2>6. ASSUME NEW u \in User, NEW q \in Req, CreatePurchaseOrder(u, q) PROVE txn' = txn
    BY <2>6 DEF CreatePurchaseOrder
  <2>7. ASSUME NEW q \in Req, CancelPurchaseOrder(q) PROVE txn' = txn
    BY <2>7 DEF CancelPurchaseOrder
  <2>8. ASSUME UNCHANGED vars PROVE txn' = txn
    BY <2>8 DEF vars
  <2> HIDE DEF Sound
  <2> QED BY <2>1, <2>2, <2>3, <2>4, <2>5, <2>6, <2>7, <2>8, Zenon DEF Next
<1> HIDE DEF Sound
<1>11. Sound
  BY <1>0, <1>2, <1>6, <1>7, <1>8, <1>9, <1>10, StepAt, Zenon
<1> QED BY <1>11 DEF Sound

(* For any requisitions, chains, users and calls: as long as calls on a    *)
(* requisition come one at a time, its status and what its requester was   *)
(* told follow from the decisions on the steps of one chain.               *)
THEOREM OutcomeFollows == Spec => []OutcomeFollowsDecisions
<1>1. AloneInv => OutcomeFollowsDecisions
  BY DEF AloneInv, StateSound, Outcome, OutcomeFollowsDecisions
<1> QED BY <1>1, InitAloneInv, NextAloneInv, PTL DEF Spec

-----------------------------------------------------------------------------
(* Approval rules: edits leave usable rules behind. *)

HoldsTable(t) == call[t].phase \in {"create_held", "update_held"}
InForce(r) == rule[r].state = "active"

(* The fields of a call in each of its phases, and of a rule in each state. *)
LEMMA RulesFields ==
  ASSUME RulesTypeOK
  PROVE  /\ \A t \in Call : /\ call[t] # NoCall => call[t].phase # "idle"
                            /\ HoldsTable(t) => call[t].rule \in Rule /\ call[t].terms \in Terms
                            /\ call[t].phase = "archive_read" => call[t].rule \in Rule
         /\ \A r \in Rule : /\ rule[r].state \in {"none", "active", "archived"}
                            /\ rule[r].state # "none" => rule[r].terms \in Terms
BY DEF RulesTypeOK, NoCall, HoldsTable

-----------------------------------------------------------------------------
(* The inductive invariant *)

(* One edit at a time holds the table. *)
LockExclusive == \A t, u \in Call : HoldsTable(t) /\ HoldsTable(u) => t = u

(* What an edit will write fits the rules it will stand beside. *)
HeldFits ==
  \A t \in Call : HoldsTable(t) =>
    /\ WellFormed(call[t].terms)
    /\ \A r \in Rule \ {call[t].rule} :
         InForce(r) /\ rule[r].terms.currency = call[t].terms.currency
           => ~Overlap(call[t].terms, rule[r].terms)

(* A call knows its rule: a new one is new, an edited one is in force, and *)
(* an archived one has at least existed.                                   *)
RuleKnown ==
  \A t \in Call :
    /\ call[t].phase = "create_held" => rule[call[t].rule].state = "none"
    /\ call[t].phase = "update_held" => rule[call[t].rule].state = "active"
    /\ call[t].phase = "archive_read" => rule[call[t].rule].state # "none"

RulesIInv == RulesTypeOK /\ LockExclusive /\ HeldFits /\ RuleKnown /\ RulesStayUsable

(* Overlapping is mutual. *)
LEMMA OverlapMutual == \A s, u : Overlap(s, u) => Overlap(u, s)
BY DEF Overlap

(* Initially there are no rules and no calls. *)
LEMMA RulesStart == RulesInit => RulesIInv
BY DEF RulesInit, RulesIInv, RulesTypeOK, LockExclusive, HeldFits, RuleKnown, RulesStayUsable,
       HoldsTable, InForce, Active, NoCall

(* An edit that passes its check fits the rule set it takes hold of.       *)
LEMMA CheckTakesHold ==
  ASSUME RulesIInv, NEW t \in Call, NEW r \in Rule, NEW s \in Terms, TableFree, call[t] = NoCall,
         UNCHANGED rule, NEW phase,
         \/ phase = "create_held" /\ rule[r].state = "none"
         \/ phase = "update_held" /\ rule[r].state = "active",
         Fits(s, Active(s.currency) \ {r}),
         call' = [call EXCEPT ![t] = [phase |-> phase, rule |-> r, terms |-> s]]
  PROVE  RulesIInv'
<1>1. RulesTypeOK'
  BY DEF RulesIInv, RulesTypeOK
<1>2. /\ call'[t] = [phase |-> phase, rule |-> r, terms |-> s]
      /\ \A o \in Call \ {t} : call'[o] = call[o] /\ ~HoldsTable(o)
  BY DEF RulesIInv, RulesTypeOK, TableFree, HoldsTable
<1>3. LockExclusive'
  BY <1>2 DEF LockExclusive, HoldsTable
<1>4. HeldFits'
  BY <1>2 DEF HeldFits, HoldsTable, InForce, Fits, Active
<1>5. RuleKnown'
  BY <1>2 DEF RulesIInv, RuleKnown
<1>6. RulesStayUsable'
  BY DEF RulesIInv, RulesStayUsable, Active
<1> QED BY <1>1, <1>3, <1>4, <1>5, <1>6 DEF RulesIInv

(* What an edit has checked is in force once it is written.                *)
LEMMA CommitWrites ==
  ASSUME RulesIInv, NEW t \in Call, EditCommit(t)
  PROVE  RulesIInv'
<1> DEFINE r == call[t].rule
           s == call[t].terms
<1>1. HoldsTable(t) /\ r \in Rule /\ s \in Terms
  BY RulesFields DEF RulesIInv, EditCommit, HoldsTable
<1>2. rule'[r] = [state |-> "active", terms |-> s]
  <2>1. CASE call[t].phase = "create_held"
    BY <1>1, <2>1 DEF RulesIInv, RulesTypeOK, EditCommit, StoredRule
  <2>2. CASE call[t].phase = "update_held"
    <3>1. rule[r].state = "active"
      BY <2>2 DEF RulesIInv, RuleKnown
    <3>2. rule[r] \in [state: {"active", "archived"}, terms: Terms]
      BY <1>1, <3>1 DEF RulesIInv, RulesTypeOK
    <3>3. [rule[r] EXCEPT !.terms = s] = [state |-> "active", terms |-> s]
      BY <3>1, <3>2
    <3> QED BY <1>1, <2>2, <3>3 DEF RulesIInv, RulesTypeOK, EditCommit, StoredRule
  <2> QED BY <1>1, <2>1, <2>2 DEF HoldsTable
<1>3. \A q \in Rule \ {r} : rule'[q] = rule[q]
  BY DEF RulesIInv, RulesTypeOK, EditCommit
<1>4. call'[t] = NoCall /\ \A o \in Call \ {t} : call'[o] = call[o] /\ ~HoldsTable(o)
  BY <1>1 DEF RulesIInv, RulesTypeOK, LockExclusive, EditCommit, EndCall
<1>5. RulesTypeOK'
  <2>1. rule' \in [Rule -> [state: {"none"}] \cup [state: {"active", "archived"}, terms: Terms]]
    BY <1>1, <1>2, <1>3 DEF RulesIInv, RulesTypeOK, EditCommit
  <2> QED BY <2>1 DEF RulesIInv, RulesTypeOK, EditCommit, EndCall
<1>6. \A o \in Call : ~HoldsTable(o)'
  BY <1>4 DEF HoldsTable, NoCall
<1>7. LockExclusive' /\ HeldFits'
  BY <1>6 DEF LockExclusive, HeldFits
<1>8. RuleKnown'
  <2> SUFFICES ASSUME NEW o \in Call, call'[o].phase = "archive_read"
               PROVE  rule'[call'[o].rule].state # "none"
    BY <1>6 DEF RuleKnown, HoldsTable
  <2>1. o # t /\ call'[o] = call[o]
    BY <1>4 DEF NoCall
  <2>2. rule[call[o].rule].state # "none" /\ call[o].rule \in Rule
    BY <2>1, RulesFields DEF RulesIInv, RuleKnown
  <2> QED BY <1>2, <1>3, <2>1, <2>2
<1>9. RulesStayUsable'
  <2> SUFFICES ASSUME NEW c \in Currency, NEW p \in Rule, NEW q \in Rule,
                      rule'[p].state = "active", rule'[p].terms.currency = c,
                      rule'[q].state = "active", rule'[q].terms.currency = c
               PROVE  /\ WellFormed(rule'[p].terms)
                      /\ p # q => ~Overlap(rule'[p].terms, rule'[q].terms)
    BY DEF RulesStayUsable, Active, WellFormed, Overlap, Bounded
  <2>1. CASE p # r /\ q # r
    BY <1>3, <2>1 DEF RulesIInv, RulesStayUsable, Active
  <2>2. CASE p = r
    BY <1>1, <1>2, <1>3, <2>2 DEF RulesIInv, HeldFits, InForce
  <2>3. CASE p # r /\ q = r
    <3>1. WellFormed(rule'[p].terms)
      BY <1>3, <2>3 DEF RulesIInv, RulesStayUsable, Active
    <3>2. ~Overlap(rule'[q].terms, rule'[p].terms)
      BY <1>1, <1>2, <1>3, <2>3 DEF RulesIInv, HeldFits, InForce
    <3> QED BY <3>1, <3>2, OverlapMutual
  <2> QED BY <2>1, <2>2, <2>3
<1> QED BY <1>5, <1>7, <1>8, <1>9 DEF RulesIInv

(* Every step keeps the invariant.                                         *)
LEMMA RulesStep == RulesIInv /\ [RulesNext]_rulesVars => RulesIInv'
<1> SUFFICES ASSUME RulesIInv, [RulesNext]_rulesVars PROVE RulesIInv'
  OBVIOUS
<1>1. ASSUME NEW t \in Call, NEW s \in Terms, CreateCheck(t, s) PROVE RulesIInv'
  <2>1. PICK r \in Rule : /\ rule[r].state = "none"
                          /\ BeginCall(t, [phase |-> "create_held", rule |-> r, terms |-> s])
    BY <1>1 DEF CreateCheck
  <2>2. Active(s.currency) \ {r} = Active(s.currency)
    BY <2>1 DEF Active
  <2>3. Fits(s, Active(s.currency) \ {r})
    BY <1>1, <2>2 DEF CreateCheck
  <2>4. TableFree /\ UNCHANGED rule
    BY <1>1 DEF CreateCheck
  <2> QED BY <2>1, <2>3, <2>4, CheckTakesHold DEF BeginCall
<1>2. ASSUME NEW t \in Call, NEW s \in Terms, NEW r \in Rule, UpdateCheck(t, r, s) PROVE RulesIInv'
  BY <1>2, CheckTakesHold DEF UpdateCheck, BeginCall
<1>3. ASSUME NEW t \in Call, EditCommit(t) PROVE RulesIInv'
  BY <1>3, CommitWrites
<1>4. ASSUME NEW t \in Call, NEW r \in Rule, ArchiveRead(t, r) PROVE RulesIInv'
  <2>1. /\ call'[t] = [phase |-> "archive_read", rule |-> r]
        /\ \A o \in Call \ {t} : call'[o] = call[o]
        /\ rule' = rule /\ rule[r].state = "active"
    BY <1>4 DEF RulesIInv, RulesTypeOK, ArchiveRead, BeginCall
  <2>2. RulesTypeOK'
    BY <1>4 DEF RulesIInv, RulesTypeOK, ArchiveRead, BeginCall
  <2>3. LockExclusive' /\ HeldFits'
    BY <2>1 DEF RulesIInv, LockExclusive, HeldFits, HoldsTable, InForce
  <2>4. RuleKnown'
    BY <2>1 DEF RulesIInv, RuleKnown
  <2>5. RulesStayUsable'
    BY <2>1 DEF RulesIInv, RulesStayUsable, Active
  <2> QED BY <2>2, <2>3, <2>4, <2>5 DEF RulesIInv
<1>5. ASSUME NEW t \in Call, ArchiveWrite(t) PROVE RulesIInv'
  <2> DEFINE r == call[t].rule
  <2>1. r \in Rule /\ rule[r].state # "none" /\ \A o \in Call : ~HoldsTable(o)
    BY <1>5, RulesFields DEF RulesIInv, ArchiveWrite, TableFree, RuleKnown, HoldsTable
  <2>2. rule[r] \in [state: {"active", "archived"}, terms: Terms]
    BY <2>1 DEF RulesIInv, RulesTypeOK
  <2>3. /\ rule'[r] = [state |-> "archived", terms |-> rule[r].terms]
        /\ \A q \in Rule \ {r} : rule'[q] = rule[q]
    BY <1>5, <2>1, <2>2 DEF RulesIInv, RulesTypeOK, ArchiveWrite
  <2>4. call'[t] = NoCall /\ \A o \in Call \ {t} : call'[o] = call[o]
    BY <1>5 DEF RulesIInv, RulesTypeOK, ArchiveWrite, EndCall
  <2>5. RulesTypeOK'
    BY <1>5, <2>1, <2>2, <2>3 DEF RulesIInv, RulesTypeOK, ArchiveWrite, EndCall
  <2>6. \A o \in Call : ~HoldsTable(o)'
    BY <2>1, <2>4 DEF HoldsTable, NoCall
  <2>7. LockExclusive' /\ HeldFits'
    BY <2>6 DEF LockExclusive, HeldFits
  <2>8. RuleKnown'
    <3> SUFFICES ASSUME NEW o \in Call, call'[o].phase = "archive_read"
                 PROVE  rule'[call'[o].rule].state # "none"
      BY <2>6 DEF RuleKnown, HoldsTable
    <3>1. o # t /\ call'[o] = call[o]
      BY <2>4 DEF NoCall
    <3>2. rule[call[o].rule].state # "none" /\ call[o].rule \in Rule
      BY <3>1, RulesFields DEF RulesIInv, RuleKnown
    <3> QED BY <2>3, <3>1, <3>2
  <2>9. RulesStayUsable'
    <3> SUFFICES ASSUME NEW c \in Currency, NEW p \in Rule, NEW q \in Rule,
                        rule'[p].state = "active", rule'[p].terms.currency = c,
                        rule'[q].state = "active", rule'[q].terms.currency = c
                 PROVE  /\ WellFormed(rule'[p].terms)
                        /\ p # q => ~Overlap(rule'[p].terms, rule'[q].terms)
      BY DEF RulesStayUsable, Active, WellFormed, Overlap, Bounded
    <3>1. p # r /\ q # r
      BY <2>3
    <3> QED BY <2>3, <3>1 DEF RulesIInv, RulesStayUsable, Active
  <2> QED BY <2>5, <2>7, <2>8, <2>9 DEF RulesIInv
<1>6. ASSUME NEW t \in Call, AbortCall(t) PROVE RulesIInv'
  <2>1. call'[t] = NoCall /\ (\A o \in Call \ {t} : call'[o] = call[o]) /\ rule' = rule
    BY <1>6 DEF RulesIInv, RulesTypeOK, AbortCall, EndCall
  <2>2. RulesTypeOK'
    BY <1>6 DEF RulesIInv, RulesTypeOK, AbortCall, EndCall
  <2>3. LockExclusive' /\ HeldFits' /\ RuleKnown'
    BY <2>1 DEF RulesIInv, LockExclusive, HeldFits, RuleKnown, HoldsTable, InForce, NoCall
  <2>4. RulesStayUsable'
    BY <2>1 DEF RulesIInv, RulesStayUsable, Active
  <2> QED BY <2>2, <2>3, <2>4 DEF RulesIInv
<1>7. CASE UNCHANGED rulesVars
  BY <1>7 DEF rulesVars, RulesIInv, RulesTypeOK, LockExclusive, HeldFits, RuleKnown, RulesStayUsable,
         HoldsTable, InForce, Active
<1> QED BY <1>1, <1>2, <1>3, <1>4, <1>5, <1>6, <1>7 DEF RulesNext

(* The invariant holds in every behaviour. *)
LEMMA RulesInductive == RulesSpec => []RulesIInv
<1> QED BY RulesStart, RulesStep, PTL DEF RulesSpec

-----------------------------------------------------------------------------
(* Theorems *)

(* The columns of approval_rules keep their types. *)
THEOREM RulesTypeCorrect == RulesSpec => []RulesTypeOK
<1>1. RulesIInv => RulesTypeOK
  BY DEF RulesIInv
<1> QED BY <1>1, RulesInductive, PTL

(* Whoever edits and archives at the same time, the rules in force for a   *)
(* currency pass the check of every submission: none is malformed and no   *)
(* two bands overlap.                                                      *)
THEOREM RulesUsable == RulesSpec => []RulesStayUsable
<1>1. RulesIInv => RulesStayUsable
  BY DEF RulesIInv
<1> QED BY <1>1, RulesInductive, PTL

(* A step that all others come after is the first of its chain.            *)
LEMMA FirstOfAll ==
  ASSUME NEW S, IsFiniteSet(S), NEW f \in [S -> 1 .. Cardinality(S)], NEW r \in S,
         \A s, u \in S : s # u => f[s] # f[u],
         \A s \in S \ {r} : f[r] < f[s]
  PROVE  f[r] = 1
<1> DEFINE N == Cardinality(S)
<1>1. N \in Nat
  BY FS_CardinalityType
<1> SUFFICES ASSUME f[r] # 1 PROVE FALSE
  OBVIOUS
<1>2. f \in [S -> 2 .. N]
  <2>1. ASSUME NEW s \in S PROVE f[s] \in 2 .. N
    <3>1. f[s] \in 1 .. N /\ f[r] \in 1 .. N
      OBVIOUS
    <3>2. f[r] <= f[s]
      BY <3>1
    <3> QED BY <1>1, <3>1, <3>2
  <2> QED BY <2>1
<1>3. IsFiniteSet(2 .. N) /\ Cardinality(2 .. N) < N
  <2>1. f[r] \in 2 .. N
    BY <1>2
  <2> QED BY <1>1, <2>1, FS_Interval
<1>4. \E s, u \in S : s # u /\ f[s] = f[u]
  BY <1>2, <1>3, FS_PigeonHole
<1> QED BY <1>4

(* No amount is decided by two bands: on a boundary the upper one decides, *)
(* in the first step of the chain.                                         *)
THEOREM BoundaryIsUpper == RulesSpec => []UpperBandDecides
<1>1. RulesIInv => UpperBandDecides
  <2> SUFFICES ASSUME RulesIInv, NEW c \in Currency, NEW amount \in Minor,
                      NEW chain \in ChainsFor(c, amount), NEW r \in DOMAIN chain,
                      Bounded(rule[r].terms)
               PROVE  /\ chain[r] = 1
                      /\ \A o \in Bands(c, amount) \ {r} :
                           /\ o \notin DOMAIN chain
                           /\ rule[o].terms.max = amount /\ rule[r].terms.min = amount
    BY DEF UpperBandDecides
  <2> DEFINE steps == BandRules(c, amount) \cup Escalations(c, amount)
  <2>1. /\ chain \in [steps -> 1 .. Cardinality(steps)] /\ DOMAIN chain = steps
        /\ \A p, q \in steps : p # q => chain[p] # chain[q]
        /\ \A p, q \in steps : p \in BandRules(c, amount) /\ q \notin BandRules(c, amount)
                                => chain[p] < chain[q]
    BY DEF ChainsFor
  <2>2. r \in BandRules(c, amount)
    BY <2>1 DEF Escalations
  <2>3. ASSUME NEW o \in Bands(c, amount) \ {r}
        PROVE  /\ o \notin BandRules(c, amount) /\ o \notin Escalations(c, amount)
               /\ rule[o].terms.max = amount /\ rule[r].terms.min = amount
    <3>1. r \in Active(c) /\ o \in Active(c) /\ r # o /\ Bounded(rule[o].terms)
      BY <2>2, <2>3 DEF BandRules, Bands
    <3>2. rule[r].terms \in Terms /\ rule[o].terms \in Terms
      BY <3>1, RulesFields DEF RulesIInv, Active
    <3>3. /\ rule[r].terms.min \in Nat /\ rule[r].terms.max \in Nat
          /\ rule[o].terms.min \in Nat /\ rule[o].terms.max \in Nat /\ amount \in Nat
      BY <3>1, <3>2, RulesAssumption DEF Terms, Bounded
    <3>4. rule[r].terms.min < rule[r].terms.max /\ rule[o].terms.min < rule[o].terms.max
      BY <3>1 DEF RulesIInv, RulesStayUsable, WellFormed
    <3>5. ~(rule[r].terms.min < rule[o].terms.max /\ rule[o].terms.min < rule[r].terms.max)
      BY <3>1 DEF RulesIInv, RulesStayUsable, Overlap
    <3>6. /\ rule[o].terms.min <= rule[r].terms.min
          /\ rule[r].terms.min <= amount /\ amount <= rule[o].terms.max
      BY <2>2, <2>3 DEF BandRules, Bands
    <3>7. rule[o].terms.max = amount /\ rule[r].terms.min = amount
      BY <3>3, <3>4, <3>5, <3>6
    <3>8. ~(rule[r].terms.min <= rule[o].terms.min)
      BY <3>3, <3>4, <3>7
    <3>9. o \notin BandRules(c, amount)
      BY <2>2, <3>8 DEF BandRules
    <3> QED BY <3>1, <3>7, <3>9 DEF Escalations
  <2>4. \A q \in steps \ {r} : chain[r] < chain[q]
    <3> SUFFICES ASSUME NEW q \in steps \ {r} PROVE q \notin BandRules(c, amount)
      BY <2>1, <2>2
    <3> QED BY <2>3 DEF BandRules
  <2>5. IsFiniteSet(steps)
    <3>1. steps \subseteq Rule
      BY DEF BandRules, Bands, Escalations, Active
    <3> QED BY <3>1, RulesAssumption, FS_Subset
  <2>6. chain[r] = 1
    BY <2>1, <2>4, <2>5, FirstOfAll
  <2> QED BY <2>1, <2>3, <2>6
<1> QED BY <1>1, RulesInductive, PTL

(* An archived rule stays as it is: the table lock keeps an archival out   *)
(* between the check of an update and its write.                           *)
THEOREM ArchivedStays == RulesSpec => ArchivedForGood
<1>1. RulesIInv /\ [RulesNext]_rulesVars =>
        [\A r \in Rule : rule[r].state = "archived" => rule'[r] = rule[r]]_rulesVars
  <2> SUFFICES ASSUME RulesIInv, RulesNext, NEW r \in Rule, rule[r].state = "archived"
               PROVE  rule'[r] = rule[r]
    OBVIOUS
  <2>1. ASSUME NEW t \in Call, EditCommit(t) PROVE rule'[r] = rule[r]
    <3>1. r # call[t].rule
      BY <2>1 DEF RulesIInv, RuleKnown, EditCommit
    <3> QED BY <2>1, <3>1 DEF RulesIInv, RulesTypeOK, EditCommit
  <2>2. ASSUME NEW t \in Call, ArchiveWrite(t) PROVE rule'[r] = rule[r]
    <3>1. rule[r] \in [state: {"active", "archived"}, terms: Terms]
      BY DEF RulesIInv, RulesTypeOK
    <3>2. [rule[r] EXCEPT !.state = "archived"] = rule[r]
      BY <3>1
    <3> QED BY <2>2, <3>2 DEF RulesIInv, RulesTypeOK, ArchiveWrite
  <2> QED BY <2>1, <2>2 DEF RulesNext, CreateCheck, UpdateCheck, ArchiveRead, AbortCall
<1> QED BY <1>1, RulesInductive, PTL DEF RulesSpec, ArchivedForGood
=============================================================================
