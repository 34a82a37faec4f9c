------------------------------- MODULE Sending -------------------------------
(***************************************************************************)
(* Mailing purchase orders to suppliers: sendPurchaseOrder of              *)
(* src/lib/services/po-document.ts, beside calls that cancel or close the  *)
(* orders (modules Fulfilment and Ordering have those step by step).       *)
(*                                                                         *)
(* A send is one transaction that reads the order without a lock and mails *)
(* it before it commits.  Its document is built through the pool           *)
(* (src/lib/db/index.ts), by reads that each need a connection beside the  *)
(* one the transaction holds.  The pool serves waiters in their order and  *)
(* sets no time limit, so connections are part of the state here.          *)
(***************************************************************************)
EXTENDS Naturals, Sequences, FiniteSetsExt

CONSTANTS Order,
          Sender,       \* sends that may be in progress at a time
          Other,        \* other transactions that may be in progress at a time
          PoolSize,     \* connections in the pool
          Reads,        \* reads it takes to build a document
          MaxCalls, MaxFaults,  \* bounds of a behaviour
          None

ASSUME SendingAssumption ==
  /\ {PoolSize, Reads, MaxCalls} \subseteq Nat \ {0} /\ MaxFaults \in Nat
  /\ IsFiniteSet(Sender) /\ IsFiniteSet(Other)

Call == Sender \cup Other

VARIABLES
  status,     \* purchase_orders.status
  call,       \* calls in progress: [phase, po, reads], reads the number done
  queue,      \* calls that wait for a connection
  mailed,     \* external: mailed[p] mails of order p that left
  audited,    \* PO_SENT rows of audit_events
  unaudited,  \* history: mails whose call failed before its commit
  overtaken,  \* history: orders that changed while a send had them in hand
  calls, faults

sendVars == <<status, call, queue, mailed, audited, unaudited, overtaken, calls, faults>>
post == <<mailed, audited, unaudited>>

NoCall == [phase |-> "idle", po |-> None, reads |-> 0]

SendInit ==
  /\ status = [p \in Order |-> "OPEN"]
  /\ call = [c \in Call |-> NoCall]
  /\ queue = <<>>
  /\ mailed = [p \in Order |-> 0] /\ audited = mailed /\ unaudited = mailed
  /\ overtaken = {}
  /\ calls = 0 /\ faults = 0

-----------------------------------------------------------------------------
(* Connections *)

(* Mutant of Taken: a read does not give its connection back. *)
TakenForGood(c) ==
  CASE call[c].phase \in {"idle", "begin"} -> 0
    [] call[c].phase = "reading" -> 2
    [] OTHER -> IF call[c].reads = 0 THEN 1 ELSE 2

(* The connections call c has: that of its transaction, that of a read. *)
Taken(c) ==
  CASE call[c].phase \in {"idle", "begin"} -> 0
    [] call[c].phase = "reading" -> 2
    [] OTHER -> 1

Used == MapThenSumSet(Taken, Call)

At(c, phase) == call[c].phase = phase
Goes(c, phase) == call' = [call EXCEPT ![c].phase = phase]
Ends(c) == call' = [call EXCEPT ![c] = NoCall]

(* Call c asks the pool for a connection. *)
Waits(c, phase) == Goes(c, phase) /\ queue' = Append(queue, c)

(* The first to wait gets the next connection that is free. *)
Connect(c) ==
  /\ queue # <<>> /\ Head(queue) = c /\ Used < PoolSize
  /\ queue' = Tail(queue)
  /\ Goes(c, CASE At(c, "wait") -> "reading"
               [] At(c, "begin") /\ c \in Sender -> "check"
               [] At(c, "begin") /\ c \in Other -> "update")
  /\ UNCHANGED <<status, post, overtaken, calls, faults>>

-----------------------------------------------------------------------------
(* sendPurchaseOrder *)

(* db.transaction, or a call that will change order p. *)
BeginCall(c, p) ==
  /\ call[c] = NoCall /\ calls < MaxCalls
  /\ calls' = calls + 1
  /\ call' = [call EXCEPT ![c] = [phase |-> "begin", po |-> p, reads |-> 0]]
  /\ queue' = Append(queue, c)
  /\ UNCHANGED <<status, post, overtaken, faults>>

(* Mutant of Sendable: only cancelled orders are refused. *)
SendableUnlessCancelled(p) == status[p] # "CANCELLED"
Sendable(p) == status[p] = "OPEN"

(* The order must be open, and an address known or given. *)
Check(c) ==
  /\ At(c, "check")
  /\ \/ Sendable(call[c].po) /\ Waits(c, "wait")
     \/ Ends(c) /\ UNCHANGED queue
  /\ UNCHANGED <<status, post, overtaken, calls, faults>>

(* toPdfData: the order, its lines and its supplier, one after the other. *)
Read(c) ==
  /\ At(c, "reading")
  /\ LET done == call[c].reads + 1 IN
     IF done < Reads
     THEN /\ call' = [call EXCEPT ![c].phase = "wait", ![c].reads = done]
          /\ queue' = Append(queue, c)
     ELSE /\ call' = [call EXCEPT ![c].phase = "send", ![c].reads = done]
          /\ UNCHANGED queue
  /\ UNCHANGED <<status, post, overtaken, calls, faults>>

(* The transport accepts the mail. *)
Mail(c) ==
  /\ At(c, "send")
  /\ mailed' = [mailed EXCEPT ![call[c].po] = @ + 1]
  /\ Goes(c, "mailed")
  /\ UNCHANGED <<status, queue, audited, unaudited, overtaken, calls, faults>>

(* The audit event is inserted and committed. *)
Audit(c) ==
  /\ At(c, "mailed")
  /\ audited' = [audited EXCEPT ![call[c].po] = @ + 1]
  /\ Ends(c)
  /\ UNCHANGED <<status, queue, mailed, unaudited, overtaken, calls, faults>>

-----------------------------------------------------------------------------
(* What others do to an order: cancel it, or close it with a last receipt.  *)

InHand(p) == {c \in Sender : call[c].po = p /\ call[c].phase \notin {"begin", "check"}}

Update(c) ==
  /\ At(c, "update")
  /\ LET p == call[c].po IN
     \/ /\ status[p] = "OPEN"
        /\ \E new \in {"CANCELLED", "CLOSED"} : status' = [status EXCEPT ![p] = new]
        /\ overtaken' = IF InHand(p) = {} THEN overtaken ELSE overtaken \cup {p}
     \/ UNCHANGED <<status, overtaken>>
  /\ Ends(c)
  /\ UNCHANGED <<queue, post, calls, faults>>

(* The mail is refused, a statement fails, the connection is lost: the     *)
(* transaction is rolled back.  Nothing fails a call that waits.           *)
Fail(c) ==
  /\ call[c].phase \notin {"idle", "begin", "wait"}
  /\ faults < MaxFaults /\ faults' = faults + 1
  /\ unaudited' = IF At(c, "mailed") THEN [unaudited EXCEPT ![call[c].po] = @ + 1]
                  ELSE unaudited
  /\ Ends(c)
  /\ UNCHANGED <<status, queue, mailed, audited, overtaken, calls>>

Step(c) == Connect(c) \/ Check(c) \/ Read(c) \/ Mail(c) \/ Audit(c) \/ Update(c)

SendNext == \E c \in Call : Step(c) \/ Fail(c) \/ \E p \in Order : BeginCall(c, p)

(* Statements and mails come to an end: PostgreSQL answers, the transport  *)
(* has time limits.                                                        *)
SendSpec == SendInit /\ [][SendNext]_sendVars /\ \A c \in Call : WF_sendVars(Step(c))

-----------------------------------------------------------------------------
(* Properties *)

Waiting == {c \in Sender : At(c, "wait")}

(* Every call ends, those that send no mail included, unless as many sends *)
(* are in their transactions as the pool has connections, and each waits   *)
(* for one more: they wait for each other, and everybody else for them     *)
(* (po-document.ts:220-238, db/index.ts:4).                                *)
CallsEnd ==
  \A c \in Call :
    call[c] # NoCall ~> call[c] = NoCall \/ Cardinality(Waiting) = PoolSize

(* "allowed only while OPEN" (docs/functional-spec.md:57): a mail leaves   *)
(* only for an open order, unless the order was cancelled or closed after  *)
(* the send had read it without a lock, and every mail is audited but for  *)
(* those whose call failed in between (po-document.ts:221-258).            *)
SentWhileOpen ==
  [][\A p \in Order :
       /\ mailed'[p] # mailed[p] => status[p] = "OPEN" \/ p \in overtaken
       /\ (\A c \in Call : call'[c] = NoCall) =>
            mailed'[p] = audited'[p] + unaudited'[p]]_sendVars
=============================================================================
