---------------------------- MODULE ApprovalFlow ----------------------------
(***************************************************************************)
(* Submitting requisitions and deciding their approval steps:              *)
(* src/lib/services/p2p/requisitions.ts, with the two calls of             *)
(* purchase-orders.ts that write requisitions.status as well.              *)
(*                                                                         *)
(* A call is one transaction at READ COMMITTED and takes no explicit lock: *)
(* submitRequisition and decideApproval first read what they decide upon,  *)
(* and write later.  An UPDATE locks its row until the commit, so of two   *)
(* calls that write the same approval the second waits and then overwrites.*)
(* approveStep counts the approved steps after its own, still uncommitted  *)
(* update: it sees its own write and the committed ones of others.         *)
(***************************************************************************)
EXTENDS Naturals, Sequences, FiniteSets

CONSTANTS Req,        \* requisitions, created as DRAFT with at least one line
          User, Role, \* users and their roles
          Requester,  \* the user a requisition belongs to
          Chains,     \* Chains[r]: the chains resolveApprovalChain may yield
          Tx,         \* service calls that may be in progress at a time
          Submitters  \* those of them that may be submissions

Roles == {"REQUESTER", "MANAGER", "FINANCE", "ADMIN"}
ApproverRoles == {"MANAGER", "FINANCE", "ADMIN"}

ASSUME FlowAssumption ==
  /\ Role \in [User -> Roles]
  /\ Requester \in [Req -> User]
  /\ \A r \in Req : Chains[r] \subseteq Seq(ApproverRoles) \ {<<>>}
  /\ Submitters \subseteq Tx

VARIABLES
  status,    \* requisitions.status
  rows,      \* rows[r]: the approvals of r, in the order they were inserted
  asked,     \* <<r, k>>: an APPROVAL_REQUESTED event was stored for row k
  announced, \* announced[r]: outcomes for which REQUISITION_DECIDED was stored
  poOpen,    \* poOpen[r]: r has an order that is not cancelled
  raced,     \* history: requisitions on which two calls were in progress at once
  txn        \* the service calls in progress

vars == <<status, rows, asked, announced, poOpen, raced, txn>>

Statuses == {"DRAFT", "SUBMITTED", "APPROVED", "REJECTED", "ORDERED"}
Row(role) == [role |-> role, decision |-> "NONE"]

Idle == [phase |-> "idle"]

Txns ==
  {Idle}
    \cup [phase: {"submit_read"}, req: Req]
    \cup [phase: {"decide_read"}, req: Req, row: Nat, decision: {"approve", "reject"}]
    \cup [phase: {"approve_held"}, req: Req, row: Nat, complete: BOOLEAN]

TypeOK ==
  /\ status \in [Req -> Statuses]
  /\ rows \in [Req -> Seq([role: ApproverRoles, decision: {"NONE", "APPROVE", "REJECT"}])]
  /\ asked \subseteq Req \X Nat
  /\ announced \in [Req -> SUBSET {"APPROVED", "REJECTED"}]
  /\ poOpen \in [Req -> BOOLEAN]
  /\ raced \subseteq Req
  /\ txn \in [Tx -> Txns]

Init ==
  /\ status = [r \in Req |-> "DRAFT"]
  /\ rows = [r \in Req |-> <<>>]
  /\ asked = {}
  /\ announced = [r \in Req |-> {}]
  /\ poOpen = [r \in Req |-> FALSE]
  /\ raced = {}
  /\ txn = [t \in Tx |-> Idle]

-----------------------------------------------------------------------------
(* A call on the requisition state.req begins. *)
Begin(t, state) ==
  /\ txn[t] = Idle
  /\ txn' = [txn EXCEPT ![t] = state]
  /\ raced' = raced \cup {r \in {state.req} : \E o \in Tx : txn[o] # Idle /\ txn[o].req = r}

Proceed(t, state) == txn' = [txn EXCEPT ![t] = state] /\ UNCHANGED raced
End(t) == Proceed(t, Idle)

-----------------------------------------------------------------------------
(* submitRequisition *)

(* The status is read, without a lock. *)
SubmitRead(t, u, r) ==
  /\ status[r] = "DRAFT"
  /\ u = Requester[r] \/ Role[u] = "ADMIN"
  /\ Begin(t, [phase |-> "submit_read", req |-> r])
  /\ UNCHANGED <<status, rows, asked, announced, poOpen>>

(* The chain is resolved and stored, one undecided row per step; every     *)
(* step whose role somebody has is announced to the holders of that role.  *)
SubmitCommit(t) ==
  /\ txn[t].phase = "submit_read"
  /\ LET r == txn[t].req IN
     \E chain \in Chains[r] :
       /\ rows' = [rows EXCEPT ![r] = @ \o [k \in 1 .. Len(chain) |-> Row(chain[k])]]
       /\ asked' = asked \cup
            {<<r, Len(rows[r]) + k>> : k \in {j \in 1 .. Len(chain) :
                                              \E u \in User : Role[u] = chain[j]}}
       /\ status' = [status EXCEPT ![r] = "SUBMITTED"]
  /\ End(t)
  /\ UNCHANGED <<announced, poOpen>>

-----------------------------------------------------------------------------
(* decideApproval *)

(* Mutant of MayDecide: a decided step may be decided again. *)
MayDecideAgain(u, row) == Role[u] = row.role \/ Role[u] = "ADMIN"

(* loadDecidableApproval: the actor's role and the absence of a decision;  *)
(* neither the other steps nor the status of the requisition are looked at.*)
MayDecide(u, row) ==
  /\ Role[u] = row.role \/ Role[u] = "ADMIN"
  /\ row.decision = "NONE"

DecideRead(t, u, r, k, decision) ==
  /\ k \in DOMAIN rows[r]
  /\ MayDecide(u, rows[r][k])
  /\ Begin(t, [phase |-> "decide_read", req |-> r, row |-> k, decision |-> decision])
  /\ UNCHANGED <<status, rows, asked, announced, poOpen>>

(* No call has an uncommitted update of row k. *)
RowFree(r, k) ==
  ~\E t \in Tx : txn[t].phase = "approve_held" /\ txn[t].req = r /\ txn[t].row = k

(* How a decision is stored in approvals.decision. *)
Stored(decision) == IF decision = "reject" THEN "REJECT" ELSE "APPROVE"

(* rejectApproval *)
RejectCommit(t) ==
  /\ txn[t].phase = "decide_read"
  /\ txn[t].decision = "reject"
  /\ LET r == txn[t].req
         k == txn[t].row IN
     /\ RowFree(r, k)
     /\ rows' = [rows EXCEPT ![r][k].decision = Stored("reject")]
     /\ status' = [status EXCEPT ![r] = "REJECTED"]
     /\ announced' = [announced EXCEPT ![r] = @ \cup {"REJECTED"}]
  /\ End(t)
  /\ UNCHANGED <<asked, poOpen>>

(* Mutant of CompleteWith: any step left over is taken for approved. *)
CompleteWithAny(r, k) == TRUE

(* With row k approved, the approved rows of r are as many as its rows.    *)
CompleteWith(r, k) == \A j \in DOMAIN rows[r] \ {k} : rows[r][j].decision = "APPROVE"

(* approveStep up to its count: the row is updated, and locked.            *)
ApproveCount(t) ==
  /\ txn[t].phase = "decide_read"
  /\ txn[t].decision = "approve"
  /\ LET r == txn[t].req
         k == txn[t].row IN
     /\ RowFree(r, k)
     /\ Proceed(t, [phase |-> "approve_held", req |-> r, row |-> k,
                    complete |-> CompleteWith(r, k)])
  /\ UNCHANGED <<status, rows, asked, announced, poOpen>>

(* approveStep's commit: the requisition follows what was counted.         *)
ApproveCommit(t) ==
  /\ txn[t].phase = "approve_held"
  /\ LET r == txn[t].req IN
     /\ rows' = [rows EXCEPT ![r][txn[t].row].decision = Stored("approve")]
     /\ status' = [status EXCEPT ![r] = IF txn[t].complete THEN "APPROVED" ELSE @]
     /\ announced' = [announced EXCEPT ![r] =
                        IF txn[t].complete THEN @ \cup {"APPROVED"} ELSE @]
  /\ End(t)
  /\ UNCHANGED <<asked, poOpen>>

(* A call that is rolled back leaves nothing behind. *)
Abort(t) ==
  /\ txn[t] # Idle
  /\ End(t)
  /\ UNCHANGED <<status, rows, asked, announced, poOpen>>

-----------------------------------------------------------------------------
(* What createPurchaseOrder and cancelPurchaseOrder do to a requisition;   *)
(* both work under row locks (module Ordering has them step by step).      *)

(* lockApprovedRequisition: nothing but the status is looked at. *)
Orderable(r) == status[r] = "APPROVED"

(* An approved requisition is ordered, unless it has an order already.     *)
CreatePurchaseOrder(u, r) ==
  /\ Role[u] \in ApproverRoles
  /\ Orderable(r)
  /\ ~poOpen[r]
  /\ poOpen' = [poOpen EXCEPT ![r] = TRUE]
  /\ status' = [status EXCEPT ![r] = "ORDERED"]
  /\ UNCHANGED <<rows, asked, announced, raced, txn>>

(* The requisition of a cancelled order becomes APPROVED, whatever it was. *)
CancelPurchaseOrder(r) ==
  /\ poOpen[r]
  /\ poOpen' = [poOpen EXCEPT ![r] = FALSE]
  /\ status' = [status EXCEPT ![r] = "APPROVED"]
  /\ UNCHANGED <<rows, asked, announced, raced, txn>>

Next ==
  \/ \E t \in Submitters, u \in User, r \in Req : SubmitRead(t, u, r)
  \/ \E t \in Tx : \/ SubmitCommit(t)
                   \/ \E u \in User, r \in Req, decision \in {"approve", "reject"} :
                        \E k \in DOMAIN rows[r] : DecideRead(t, u, r, k, decision)
                   \/ RejectCommit(t)
                   \/ ApproveCount(t)
                   \/ ApproveCommit(t)
                   \/ Abort(t)
  \/ \E u \in User, r \in Req : CreatePurchaseOrder(u, r)
  \/ \E r \in Req : CancelPurchaseOrder(r)

Spec == Init /\ [][Next]_vars

-----------------------------------------------------------------------------
(* Properties *)

Decided(r, k) == rows[r][k].decision # "NONE"
Approved(r) == \A k \in DOMAIN rows[r] : rows[r][k].decision = "APPROVE"
Rejected(r) == \E k \in DOMAIN rows[r] : rows[r][k].decision = "REJECT"
Pending(r) == status[r] = "SUBMITTED"

(* As long as calls on a requisition come one at a time, whatever happens  *)
(* to others meanwhile, it has the rows of one chain, and its status       *)
(* follows from the decisions on them in whatever order they are taken, a  *)
(* step decided after a rejection or after the order was placed included;  *)
(* its requester was told exactly that outcome (requisitions.ts:112-188).  *)
OutcomeFollowsDecisions ==
  \A r \in Req \ raced :
    status[r] # "DRAFT" =>
      /\ \E chain \in Chains[r] : [k \in DOMAIN rows[r] |-> rows[r][k].role] = chain
      /\ status[r] = "REJECTED" <=> Rejected(r)
      /\ status[r] \in {"APPROVED", "ORDERED"} <=> Approved(r)
      /\ announced[r] = CASE Rejected(r) -> {"REJECTED"}
                          [] Approved(r) -> {"APPROVED"}
                          [] OTHER       -> {}

(* However decisions race, nothing is approved or ordered while a step of  *)
(* its chain is undecided, as long as it is submitted once                 *)
(* (requisitions.ts:158-170).                                              *)
NothingOrderedUndecided ==
  \A r \in Req : status[r] \in {"APPROVED", "ORDERED"} \/ poOpen[r]
                   => \A k \in DOMAIN rows[r] : Decided(r, k)

(* A requisition whose steps are all approved becomes APPROVED: once the   *)
(* calls in progress are over, it is not SUBMITTED any more                *)
(* (docs/functional-spec.md:32, README.md:19).                             *)
EveryStepApprovedAdvances ==
  \A r \in Req : Pending(r) /\ Approved(r) => \E t \in Tx : txn[t] # Idle
=============================================================================
