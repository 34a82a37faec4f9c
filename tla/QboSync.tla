------------------------------- MODULE QboSync -------------------------------
(***************************************************************************)
(* Pushing events to QuickBooks Online: the connector's deliver and its    *)
(* vendor look-up (qbo-connector.ts), the stored OAuth connection with its *)
(* rotating tokens (qbo-connection.ts) and the routes that connect and     *)
(* disconnect it.                                                          *)
(*                                                                         *)
(* No step takes a lock, and each await is a place where other deliveries, *)
(* an administrator, Intuit or a crash may come between.                   *)
(***************************************************************************)
EXTENDS Naturals, Sequences, FiniteSets

CONSTANTS Call,         \* deliveries that may be in progress at a time
          Event,        \* outbox events, each of one supplier
          Supplier, SupplierOf,
          Grant,        \* 1 .. n: consents an administrator gives, in order
          CompanyOf,    \* the QuickBooks company (realm) of a grant
          MaxRefresh, MaxVendor, MaxFaults,  \* bounds of a behaviour
          None

ASSUME QboAssumption ==
  /\ None \notin Nat
  /\ SupplierOf \in [Event -> Supplier]
  /\ Grant = 1 .. Cardinality(Grant)
  /\ MaxRefresh \in Nat /\ MaxVendor \in Nat /\ MaxFaults \in Nat

VARIABLES
  conn,       \* the row of integrations_connections
  vendorMap,  \* qbo_sync_map, VENDOR rows: vendor id of a supplier
  synced,     \* qbo_sync_map, document rows: the events they name
  settled,    \* the outbox's view of an event: "open", "done" or "refused"
  call,       \* deliveries in progress
  intuit,     \* external: state of each grant, number of its newest refresh token
  vendors,    \* external: the vendors of all companies; the index is the id
  docs,       \* external: documents made for an event: [company, vendor]
  raced,      \* history: events two deliveries had in hand at once
  lost,       \* history: lost[e] documents whose creation was not recorded
  tangled,    \* history: the stored token was overtaken by another call's
  faults      \* failures, crashes, renames and withdrawals so far

vars == <<conn, vendorMap, synced, settled, call,
          intuit, vendors, docs, raced, lost, tangled, faults>>
books == <<vendors, docs, raced, lost>>      \* what token handling leaves alone
outbox == <<vendorMap, synced, settled>>

Wiped == [grant |-> 0, n |-> 0]
Idle == [phase |-> "idle"]

Init ==
  /\ conn = [status |-> "NONE", company |-> None, token |-> Wiped,
             due |-> FALSE, dead |-> FALSE]
  /\ vendorMap = [s \in Supplier |-> None]
  /\ synced = {} /\ settled = [e \in Event |-> "open"]
  /\ call = [d \in Call |-> Idle]
  /\ intuit = [g \in Grant |-> [state |-> "unused", n |-> 0]]
  /\ vendors = <<>> /\ docs = [e \in Event |-> <<>>]
  /\ raced = {} /\ lost = [e \in Event |-> 0] /\ tangled = FALSE
  /\ faults = 0

Goes(d, phase) == call' = [call EXCEPT ![d].phase = phase]
Ends(d) == call' = [call EXCEPT ![d] = Idle]
Leaves(d, phase) == call' = [call EXCEPT ![d] = [phase |-> phase, event |-> @.event]]
At(d, phase) == call[d].phase = phase
Faulty == faults < MaxFaults /\ faults' = faults + 1
InRefresh == {d \in Call : call[d].phase \in {"refresh", "store", "expire"}}

-----------------------------------------------------------------------------
(* The connection: administrator, time and Intuit                          *)

(* An administrator is sent to Intuit with a signed state in a cookie. *)
Begin(g) ==
  /\ intuit[g].state = "unused" /\ \A f \in 1 .. g - 1 : intuit[f].state # "unused"
  /\ intuit' = [intuit EXCEPT ![g].state = "begun"]
  /\ UNCHANGED <<conn, outbox, call, books, tangled, faults>>

Connected(g) == [status |-> "ACTIVE", company |-> CompanyOf[g], token |-> [grant |-> g, n |-> 0],
                 due |-> FALSE, dead |-> FALSE]

(* verifyOAuthState: only what an administrator has begun comes back good. *)
Verified(g) == intuit[g].state = "begun"

(* The callback checks the state, exchanges the code, upserts the one row. *)
Connect(g) ==
  /\ Verified(g)
  /\ intuit' = [intuit EXCEPT ![g].state = "live"]
  /\ conn' = Connected(g)
  /\ tangled' = (InRefresh # {})
  /\ UNCHANGED <<outbox, call, books, faults>>

(* revokeConnection: the row stays, its tokens are overwritten. *)
Disconnect ==
  /\ conn.status # "NONE"
  /\ conn' = [conn EXCEPT !.status = "REVOKED", !.token = Wiped]
  /\ UNCHANGED <<outbox, call, intuit, books, tangled, faults>>

(* The access token comes within five minutes of its end; the refresh      *)
(* token reaches its hundred days.                                         *)
Age ==
  /\ conn.status = "ACTIVE"
  /\ \/ ~conn.due /\ conn.token.n < MaxRefresh /\ conn' = [conn EXCEPT !.due = TRUE]
     \/ ~conn.dead /\ conn' = [conn EXCEPT !.due = TRUE, !.dead = TRUE]
  /\ UNCHANGED <<outbox, call, intuit, books, tangled, faults>>

(* The company withdraws its consent at Intuit. *)
Withdraw(g) ==
  /\ intuit[g].state = "live" /\ Faulty
  /\ intuit' = [intuit EXCEPT ![g].state = "withdrawn"]
  /\ UNCHANGED <<conn, outbox, call, books, tangled>>

(* Somebody renames a vendor in QuickBooks. *)
Rename(v) ==
  /\ vendors[v].named /\ Faulty
  /\ vendors' = [vendors EXCEPT ![v].named = FALSE]
  /\ UNCHANGED <<conn, outbox, call, intuit, docs, raced, lost, tangled>>

-----------------------------------------------------------------------------
(* deliver, up to the access token                                         *)

(* loadActiveConnection: the one row there is, and whether it is active. *)
Healthy == conn.status = "ACTIVE"

(* Mutant of Synced: the map is not consulted. *)
SyncedNever(e) == FALSE /\ e \in synced
Synced(e) == e \in synced

(* Without a healthy connection the answer is "retry", and nothing         *)
(* changes.  An event that is in the sync map is done.  The read of the    *)
(* connection is part of this step: LoadToken reads it again.              *)
Start(d, e) ==
  /\ call[d] = Idle /\ settled[e] = "open"
  /\ Healthy
  /\ call' = [call EXCEPT ![d] = [phase |-> IF Synced(e) THEN "done" ELSE "token", event |-> e]]
  /\ raced' = IF \E o \in Call \ {d} : call[o] # Idle /\ call[o].event = e
              THEN raced \cup {e} ELSE raced
  /\ UNCHANGED <<conn, outbox, intuit, vendors, docs, lost, tangled, faults>>

(* getValidAccessToken reads the row. *)
LoadToken(d) ==
  /\ At(d, "token")
  /\ IF ~Healthy THEN Ends(d)
     ELSE IF conn.dead THEN Leaves(d, "expire")
     ELSE call' = [call EXCEPT ![d] = [phase |-> IF conn.due THEN "refresh" ELSE "vendor",
                                       event |-> @.event, company |-> conn.company,
                                       token |-> conn.token, vendor |-> None]]
  /\ UNCHANGED <<conn, outbox, intuit, books, tangled, faults>>

Current(token) == intuit[token.grant] = [state |-> "live", n |-> token.n]

(* Intuit rotates: the refresh token just used is of no use any more.      *)
Refresh(d) ==
  /\ At(d, "refresh")
  /\ LET token == call[d].token IN
     IF Current(token)
     THEN /\ intuit' = [intuit EXCEPT ![token.grant].n = @ + 1]
          /\ call' = [call EXCEPT ![d].phase = "store", ![d].token.n = @ + 1]
     ELSE Leaves(d, "expire") /\ UNCHANGED intuit
  /\ tangled' = (tangled \/ InRefresh # {d})
  /\ UNCHANGED <<conn, outbox, books, faults>>

(* Any failure of the refresh, an outage too, is taken for an expiry.      *)
RefreshFails(d) ==
  /\ At(d, "refresh") /\ Faulty
  /\ Leaves(d, "expire")
  /\ UNCHANGED <<conn, outbox, intuit, books, tangled>>

(* Mutant of Rotated: the new refresh token is not stored. *)
RotatedKept(row, token) == [row EXCEPT !.due = FALSE]
(* What the update stores; status and company stay as they are. *)
Rotated(row, token) == [row EXCEPT !.token = token, !.due = FALSE]

StoreToken(d) ==
  /\ At(d, "store")
  /\ conn' = Rotated(conn, call[d].token)
  /\ Goes(d, "vendor")
  /\ UNCHANGED <<outbox, intuit, books, tangled, faults>>

(* markExpired, whatever the row holds by now; deliver answers "retry". *)
MarkExpired(d) ==
  /\ At(d, "expire")
  /\ conn' = [conn EXCEPT !.status = "EXPIRED"]
  /\ Ends(d)
  /\ UNCHANGED <<outbox, intuit, books, tangled, faults>>

-----------------------------------------------------------------------------
(* resolveVendorId *)

(* Intuit takes a call with this token for this company. *)
Authorised(d) == /\ intuit[call[d].token.grant].state = "live"
                 /\ CompanyOf[call[d].token.grant] = call[d].company

Named(d) == {v \in DOMAIN vendors :
               /\ vendors[v].company = call[d].company /\ vendors[v].named
               /\ vendors[v].supplier = SupplierOf[call[d].event]}

Cached(d) ==
  /\ At(d, "vendor")
  /\ LET v == vendorMap[SupplierOf[call[d].event]] IN
     IF v = None THEN Goes(d, "find")
     ELSE call' = [call EXCEPT ![d].phase = "post", ![d].vendor = v]
  /\ UNCHANGED <<conn, outbox, intuit, books, tangled, faults>>

(* Looked up by name; "again" is the look-up after a rejected creation. *)
Find(d) ==
  /\ call[d].phase \in {"find", "again"}
  /\ IF ~Authorised(d) THEN Leaves(d, "revoke")
     ELSE IF Named(d) # {}
     THEN \E v \in Named(d) : call' = [call EXCEPT ![d].phase = "map", ![d].vendor = v]
     ELSE IF At(d, "again") THEN Leaves(d, "refuse") ELSE Goes(d, "create")
  /\ UNCHANGED <<conn, outbox, intuit, books, tangled, faults>>

(* QuickBooks rejects a name it has already. *)
Create(d) ==
  /\ At(d, "create")
  /\ IF ~Authorised(d) THEN Leaves(d, "revokeRefuse") /\ UNCHANGED vendors
     ELSE IF Named(d) # {} THEN Goes(d, "again") /\ UNCHANGED vendors
     ELSE /\ Len(vendors) < MaxVendor
          /\ vendors' = Append(vendors, [company |-> call[d].company, named |-> TRUE,
                                         supplier |-> SupplierOf[call[d].event]])
          /\ call' = [call EXCEPT ![d].phase = "map", ![d].vendor = Len(vendors) + 1]
  /\ UNCHANGED <<conn, outbox, intuit, docs, raced, lost, tangled, faults>>

(* Mutant of Chosen: a delivery uses the vendor it found itself. *)
ChosenOwn(stored, own) == own
(* "the stored row wins" (qbo-connector.ts:113) *)
Chosen(stored, own) == IF stored = None THEN own ELSE stored

(* Insert on conflict do nothing, then the row is read again. *)
MapVendor(d) ==
  /\ At(d, "map")
  /\ LET s == SupplierOf[call[d].event]
         own == call[d].vendor IN
     /\ vendorMap' = IF vendorMap[s] = None THEN [vendorMap EXCEPT ![s] = own] ELSE vendorMap
     /\ call' = [call EXCEPT ![d].phase = "post", ![d].vendor = Chosen(vendorMap[s], own)]
  /\ UNCHANGED <<conn, synced, settled, intuit, books, tangled, faults>>

-----------------------------------------------------------------------------
(* The document *)

(* What QuickBooks books: of the document, its company and its VendorRef. *)
Document(d) == [company |-> call[d].company, vendor |-> call[d].vendor]

(* QuickBooks may refuse a document for its content, and does so for a     *)
(* vendor of another company.                                              *)
Post(d) ==
  /\ At(d, "post")
  /\ \/ Authorised(d) /\ Leaves(d, "refuse") /\ UNCHANGED docs
     \/ ~Authorised(d) /\ Leaves(d, "revokeRefuse") /\ UNCHANGED docs
     \/ /\ Authorised(d) /\ vendors[call[d].vendor].company = call[d].company
        /\ docs' = [docs EXCEPT ![call[d].event] = Append(@, Document(d))]
        /\ Leaves(d, "record")
  /\ UNCHANGED <<conn, outbox, intuit, vendors, raced, lost, tangled, faults>>

Record(d) ==
  /\ At(d, "record")
  /\ synced' = synced \cup {call[d].event}
  /\ Leaves(d, "done")
  /\ UNCHANGED <<conn, vendorMap, settled, intuit, books, tangled, faults>>

(* 401 or 403: every connection is revoked, also one made since.  A failed *)
(* look-up is retried, a failed POST is not.                               *)
MarkRevoked(d) ==
  /\ call[d].phase \in {"revoke", "revokeRefuse"}
  /\ conn' = [conn EXCEPT !.status = "REVOKED"]
  /\ IF At(d, "revoke") THEN Ends(d) ELSE Leaves(d, "refuse")
  /\ UNCHANGED <<outbox, intuit, books, tangled, faults>>

(* Mutant of Verdict: a refused document is tried again. *)
VerdictRetry(phase) == IF phase = "done" THEN "done" ELSE "open"
Verdict(phase) == IF phase = "done" THEN "done" ELSE "refused"

(* The dispatcher stores the answer. *)
Settle(d) ==
  /\ call[d].phase \in {"done", "refuse"}
  /\ settled' = [settled EXCEPT ![call[d].event] = Verdict(call[d].phase)]
  /\ Ends(d)
  /\ UNCHANGED <<conn, vendorMap, synced, intuit, books, tangled, faults>>

(* An exception, a 5xx or a crash: the answer is "retry", or none.  What   *)
(* QuickBooks or Intuit did before it stays done.                          *)
Fail(d) ==
  /\ call[d] # Idle /\ Faulty
  /\ Ends(d)
  /\ lost' = IF At(d, "record") THEN [lost EXCEPT ![call[d].event] = @ + 1] ELSE lost
  /\ tangled' = (tangled \/ At(d, "store"))
  /\ UNCHANGED <<conn, outbox, intuit, vendors, docs, raced>>

Step(d) ==
  \/ \E e \in Event : Start(d, e)
  \/ LoadToken(d) \/ Refresh(d) \/ StoreToken(d) \/ MarkExpired(d)
  \/ Cached(d) \/ Find(d) \/ Create(d) \/ MapVendor(d)
  \/ Post(d) \/ Record(d) \/ MarkRevoked(d) \/ Settle(d)

Next ==
  \/ \E d \in Call : Step(d) \/ RefreshFails(d) \/ Fail(d)
  \/ \E g \in Grant : Begin(g) \/ Connect(g) \/ Withdraw(g)
  \/ Disconnect \/ Age
  \/ \E v \in DOMAIN vendors : Rename(v)

Spec == Init /\ [][Next]_vars /\ \A d \in Call : WF_vars(Step(d))

-----------------------------------------------------------------------------
(* Properties *)

(* "an event is delivered to QBO at most once even across repeated         *)
(* dispatch runs" (qbo-connector.ts:119-121), except that each document    *)
(* whose record was lost may be made again, and that two deliveries of one *)
(* event at a time may each make one: look-up, POST and insert are three   *)
(* steps without a lock.                                                   *)
OneDocument == \A e \in Event \ raced : Len(docs[e]) <= 1 + lost[e]

(* All documents of a supplier in one company name one vendor, however     *)
(* deliveries race with each other and with renames in QuickBooks: "the    *)
(* stored row wins" (qbo-connector.ts:113).                                *)
OneVendor ==
  \A e, f \in Event : SupplierOf[e] = SupplierOf[f] =>
    \A i \in DOMAIN docs[e], j \in DOMAIN docs[f] :
      docs[e][i].company = docs[f][j].company => docs[e][i].vendor = docs[f][j].vendor

(* An active connection holds the newest refresh token of its grant, and   *)
(* the grant is of its company, unless two refreshes, or a refresh and a   *)
(* new consent, overlapped, or the answer of a refresh was lost: those the *)
(* code (qbo-connection.ts:131-168) does not guard against.                *)
TokenIsNewest ==
  conn.status = "ACTIVE" /\ ~tangled /\ InRefresh = {} =>
    /\ CompanyOf[conn.token.grant] = conn.company
    /\ conn.token.n = intuit[conn.token.grant].n

(* While the connection stays active every event is delivered or refused   *)
(* in the end (qbo-connector.ts:127-203).                                  *)
SettledWhileConnected ==
  <>[](conn.status = "ACTIVE") => \A e \in Event : <>(settled[e] # "open")
=============================================================================
