---------------------------- MODULE QboSyncProofs ----------------------------
(***************************************************************************)
(* Proofs about QboSync for any deliveries, events, suppliers and grants   *)
(* and any number of failures, crashes, renames and reconnections.         *)
(*                                                                         *)
(* The three properties need one invariant each: the phase of a delivery   *)
(* decides what may be true of its event (DocumentInv), of its vendor      *)
(* (VendorInv) and of the token it works on (TokenInv).                    *)
(***************************************************************************)
EXTENDS QboSync, SequenceTheorems, TLAPS

Company == {None} \cup {CompanyOf[g] : g \in Grant}
Token == [grant : Grant \cup {0}, n : Nat]
VendorId == Nat \cup {None}

Connection == [status : {"NONE", "ACTIVE", "EXPIRED", "REVOKED"}, company : Company,
               token : Token, due : BOOLEAN, dead : BOOLEAN]

(* A delivery carries its event, and from LoadToken to the document what   *)
(* it read then and the vendor.                                            *)
LightPhase == {"token", "expire", "revoke", "revokeRefuse", "refuse", "record", "done"}
LadenPhase == {"refresh", "store", "vendor", "find", "again", "create", "map", "post"}
Light == [phase : LightPhase, event : Event]
Laden == [phase : LadenPhase, event : Event, company : Company,
          token : [grant : Grant, n : Nat], vendor : VendorId]

VendorRow == [company : Company, named : BOOLEAN, supplier : Supplier]
Booked == [company : Company, vendor : VendorId]

TypeOK ==
  /\ conn \in Connection
  /\ vendorMap \in [Supplier -> VendorId]
  /\ synced \subseteq Event
  /\ settled \in [Event -> {"open", "done", "refused"}]
  /\ call \in [Call -> {Idle} \cup Light \cup Laden]
  /\ intuit \in [Grant -> [state : {"unused", "begun", "live", "withdrawn"}, n : Nat]]
  /\ vendors \in Seq(VendorRow)
  /\ docs \in [Event -> Seq(Booked)]
  /\ raced \subseteq Event
  /\ lost \in [Event -> Nat]
  /\ tangled \in BOOLEAN
  /\ faults \in Nat

(* Only the callback makes a connection active, and it stores a grant. *)
GrantInv == conn.status = "ACTIVE" => conn.token.grant \in Grant

(* OneDocument, event by event: unless raced, one delivery at a time has   *)
(* the event in hand; before it is in the sync map every document but the  *)
(* one about to be recorded was lost, and no delivery goes for a second.   *)
Past == {"record", "refuse", "revokeRefuse", "done"}
BookedOnce(e) ==
  /\ \A d \in Call, o \in Call :
       call[d] # Idle /\ call[o] # Idle /\ call[d].event = e /\ call[o].event = e => d = o
  /\ \A d \in Call : call[d] # Idle /\ call[d].event = e =>
       /\ call[d].phase \notin Past => e \notin synced
       /\ call[d].phase = "record" => e \notin synced /\ Len(docs[e]) <= 1 + lost[e]
  /\ e \in synced => Len(docs[e]) <= 1 + lost[e]
  /\ e \notin synced /\ (\A d \in Call : call[d].phase = "record" => call[d].event # e)
       => Len(docs[e]) <= lost[e]
DocumentInv == \A e \in Event \ raced : BookedOnce(e)

(* OneVendor: every document names the vendor the map holds for its        *)
(* supplier, and so does every delivery about to post.                     *)
VendorInv ==
  /\ \A e \in Event : \A i \in DOMAIN docs[e] :
       /\ docs[e][i].vendor = vendorMap[SupplierOf[e]]
       /\ vendorMap[SupplierOf[e]] # None
  /\ \A d \in Call :
       /\ call[d].phase = "map" => call[d].vendor \in Nat
       /\ call[d].phase = "post" =>
            /\ call[d].vendor = vendorMap[SupplierOf[call[d].event]]
            /\ vendorMap[SupplierOf[call[d].event]] # None

(* TokenIsNewest: a grant not yet connected has no rotation behind it; and *)
(* unless tangled, a delivery in a refresh works on the grant stored, the  *)
(* one that has a new token to store has the newest, and when there is     *)
(* none the stored token is the newest.                                    *)
TokenInv ==
  /\ \A g \in Grant : intuit[g].state \in {"unused", "begun"} => intuit[g].n = 0
  /\ ~tangled =>
       /\ conn.status = "ACTIVE" => conn.company = CompanyOf[conn.token.grant]
       /\ \A d \in Call, o \in Call : call[d].phase = "store" /\ call[o].phase = "store" => d = o
       /\ \A d \in Call :
            /\ call[d].phase = "store" => call[d].token.n = intuit[call[d].token.grant].n
            /\ call[d].phase \in {"refresh", "store"} /\ conn.status = "ACTIVE" =>
                 call[d].token.grant = conn.token.grant
       /\ conn.status = "ACTIVE" /\ (\A d \in Call : call[d].phase # "store") =>
            conn.token.n = intuit[conn.token.grant].n

-----------------------------------------------------------------------------
(* What a delivery carries in each phase. *)
LEMMA Carries ==
  ASSUME TypeOK, NEW d \in Call
  PROVE  /\ call[d] # Idle <=> call[d].phase # "idle"
         /\ call[d].phase \in LightPhase => call[d] \in Light
         /\ call[d].phase \in LadenPhase => call[d] \in Laden
         /\ call[d] # Idle => call[d].event \in Event /\ call[d].phase \in LightPhase \cup LadenPhase
<1>1. call[d] \in {Idle} \cup Light \cup Laden
  BY DEF TypeOK
<1>2. CASE call[d] = Idle
  BY <1>2 DEF Idle, LightPhase, LadenPhase
<1>3. CASE call[d] \in Light
  BY <1>3 DEF Idle, Light, LightPhase, LadenPhase
<1>4. CASE call[d] \in Laden
  BY <1>4 DEF Idle, Laden, LightPhase, LadenPhase
<1> QED BY <1>1, <1>2, <1>3, <1>4

(* A delivery that ends, leaves or goes on is of its type again. *)
LEMMA CallType ==
  ASSUME TypeOK, NEW d \in Call
  PROVE  /\ Ends(d) => call' \in [Call -> {Idle} \cup Light \cup Laden]
         /\ \A p \in LightPhase : call[d] # Idle /\ Leaves(d, p)
              => call' \in [Call -> {Idle} \cup Light \cup Laden]
         /\ \A p \in LadenPhase : call[d].phase \in LadenPhase /\ Goes(d, p)
              => call' \in [Call -> {Idle} \cup Light \cup Laden]
         /\ \A p \in LadenPhase, v \in VendorId :
              /\ call[d].phase \in LadenPhase
              /\ call' = [call EXCEPT ![d].phase = p, ![d].vendor = v]
              => call' \in [Call -> {Idle} \cup Light \cup Laden]
<1>1. call \in [Call -> {Idle} \cup Light \cup Laden]
  BY DEF TypeOK
<1>2. Ends(d) => call' \in [Call -> {Idle} \cup Light \cup Laden]
  BY <1>1 DEF Ends
<1>3. ASSUME NEW p \in LightPhase, call[d] # Idle, Leaves(d, p)
      PROVE  call' \in [Call -> {Idle} \cup Light \cup Laden]
  <2>1. [phase |-> p, event |-> call[d].event] \in Light
    BY <1>3, Carries DEF Light
  <2> QED BY <1>1, <1>3, <2>1 DEF Leaves
<1>4. ASSUME NEW p \in LadenPhase, call[d].phase \in LadenPhase, Goes(d, p)
      PROVE  call' \in [Call -> {Idle} \cup Light \cup Laden]
  <2>1. [call[d] EXCEPT !.phase = p] \in Laden
    BY <1>4, Carries DEF Laden
  <2> QED BY <1>1, <1>4, <2>1 DEF Goes
<1>5. ASSUME NEW p \in LadenPhase, NEW v \in VendorId, call[d].phase \in LadenPhase,
             call' = [call EXCEPT ![d].phase = p, ![d].vendor = v]
      PROVE  call' \in [Call -> {Idle} \cup Light \cup Laden]
  <2>1. [call[d] EXCEPT !.phase = p, !.vendor = v] \in Laden
    BY <1>5, Carries DEF Laden
  <2> QED BY <1>1, <1>5, <2>1
<1> QED BY <1>2, <1>3, <1>4, <1>5

(* Every type is kept, and an active connection holds the token of a       *)
(* grant: what LoadToken hands to a delivery.                              *)
LEMMA TypeStep == TypeOK /\ GrantInv /\ [Next]_vars => TypeOK' /\ GrantInv'
<1> SUFFICES ASSUME TypeOK, GrantInv, [Next]_vars PROVE TypeOK' /\ GrantInv'
  OBVIOUS
<1> DEFINE CallOK == call' \in [Call -> {Idle} \cup Light \cup Laden]
<1> USE DEF GrantInv
<1>1. CASE UNCHANGED vars
  BY <1>1 DEF vars, TypeOK
<1>2. ASSUME NEW d \in Call, Step(d) PROVE TypeOK' /\ GrantInv'
  <2>1. ASSUME NEW e \in Event, Start(d, e) PROVE TypeOK' /\ GrantInv'
    <3>1. [phase |-> IF Synced(e) THEN "done" ELSE "token", event |-> e] \in Light
      BY DEF Light, LightPhase
    <3> QED BY <2>1, <3>1 DEF Start, TypeOK, outbox
  <2>2. CASE LoadToken(d)
    <3>1. call[d] # Idle /\ call[d].event \in Event
      BY <2>2, Carries DEF LoadToken, At, Idle
    <3>2. ASSUME Healthy
          PROVE [phase |-> IF conn.due THEN "refresh" ELSE "vendor",
                 event |-> call[d].event, company |-> conn.company,
                 token |-> conn.token, vendor |-> None] \in Laden
      <4>1. conn.token \in [grant : Grant, n : Nat]
        BY <3>2 DEF TypeOK, Connection, Token, Healthy
      <4> QED BY <3>1, <4>1 DEF TypeOK, Connection, Laden, LadenPhase, VendorId
    <3> QED BY <2>2, <3>1, <3>2, CallType DEF LoadToken, TypeOK, outbox, books, LightPhase
  <2>3. CASE Refresh(d)
    <3>1. call[d] \in Laden /\ call[d] # Idle
      BY <2>3, Carries DEF Refresh, At, LadenPhase, Idle
    <3>2. [call[d] EXCEPT !.phase = "store", !.token.n = @ + 1] \in Laden
      <4>1. [call[d].token EXCEPT !.n = @ + 1] \in [grant : Grant, n : Nat]
        BY <3>1 DEF Laden
      <4> QED BY <3>1, <4>1 DEF Laden, LadenPhase
    <3>3. CallOK
      BY <2>3, <3>1, <3>2, CallType DEF Refresh, LightPhase, TypeOK
    <3>4. intuit' \in [Grant -> [state : {"unused", "begun", "live", "withdrawn"}, n : Nat]]
      <4>1. [intuit[call[d].token.grant] EXCEPT !.n = @ + 1]
              \in [state : {"unused", "begun", "live", "withdrawn"}, n : Nat]
        <5>1. intuit[call[d].token.grant]
                \in [state : {"unused", "begun", "live", "withdrawn"}, n : Nat]
          BY <3>1 DEF Laden, TypeOK
        <5> QED BY <5>1
      <4> QED BY <2>3, <3>1, <4>1 DEF Refresh, TypeOK, Laden
    <3> QED BY <2>3, <3>3, <3>4 DEF Refresh, TypeOK, outbox, books
  <2>4. CASE StoreToken(d)
    <3>1. call[d] \in Laden
      BY <2>4, Carries DEF StoreToken, At, LadenPhase
    <3>2. Rotated(conn, call[d].token) \in Connection /\ call[d].token.grant \in Grant
      BY <3>1 DEF TypeOK, Rotated, Connection, Token, Laden
    <3> QED BY <2>4, <3>1, <3>2, CallType
            DEF StoreToken, Rotated, Connection, TypeOK, outbox, books, LadenPhase, Laden
  <2>5. CASE MarkExpired(d)
    BY <2>5, CallType DEF MarkExpired, TypeOK, Connection, outbox, books
  <2>6. CASE Cached(d)
    <3>1. call[d] \in Laden
      BY <2>6, Carries DEF Cached, At, LadenPhase
    <3>2. vendorMap[SupplierOf[call[d].event]] \in VendorId
      BY <3>1, QboAssumption DEF TypeOK, Laden
    <3> QED BY <2>6, <3>1, <3>2, CallType
            DEF Cached, At, TypeOK, outbox, books, LadenPhase, Laden
  <2>7. CASE Find(d)
    <3>1. call[d] \in Laden /\ call[d] # Idle
      BY <2>7, Carries DEF Find, LadenPhase, Idle
    <3>2. Named(d) \subseteq VendorId
      BY DEF TypeOK, Named, VendorId
    <3> QED BY <2>7, <3>1, <3>2, CallType
            DEF Find, At, TypeOK, outbox, books, LightPhase, LadenPhase, Laden
  <2>8. CASE Create(d)
    <3>1. call[d] \in Laden /\ call[d] # Idle
      BY <2>8, Carries DEF Create, At, LadenPhase, Idle
    <3>2. [company |-> call[d].company, named |-> TRUE, supplier |-> SupplierOf[call[d].event]]
            \in VendorRow
      BY <3>1, QboAssumption DEF Laden, VendorRow
    <3>3. Len(vendors) + 1 \in VendorId
      BY DEF TypeOK, VendorId
    <3>4. CallOK
      BY <2>8, <3>1, <3>3, CallType DEF Create, LightPhase, LadenPhase, Laden
    <3>5. vendors' \in Seq(VendorRow)
      <4>1. vendors \in Seq(VendorRow)
        BY DEF TypeOK
      <4>2. \A row \in VendorRow : Append(vendors, row) \in Seq(VendorRow)
        BY <4>1, AppendProperties
      <4> QED BY <2>8, <3>2, <4>1, <4>2 DEF Create
    <3> QED BY <2>8, <3>4, <3>5 DEF Create, TypeOK, outbox
  <2>9. CASE MapVendor(d)
    <3>1. call[d] \in Laden
      BY <2>9, Carries DEF MapVendor, At, LadenPhase
    <3>2. vendorMap[SupplierOf[call[d].event]] \in VendorId /\ call[d].vendor \in VendorId
      BY <3>1, QboAssumption DEF TypeOK, Laden
    <3> QED BY <2>9, <3>1, <3>2, CallType
            DEF MapVendor, Chosen, TypeOK, books, LadenPhase, Laden
  <2>10. CASE Post(d)
    <3>1. call[d] \in Laden /\ call[d] # Idle
      BY <2>10, Carries DEF Post, At, LadenPhase, Idle
    <3>2. Document(d) \in Booked
      BY <3>1 DEF Document, Laden, Booked
    <3>3. CallOK
      BY <2>10, <3>1, CallType DEF Post, LightPhase
    <3>4. docs' \in [Event -> Seq(Booked)]
      <4>1. Append(docs[call[d].event], Document(d)) \in Seq(Booked)
        BY <3>1, <3>2, AppendProperties DEF TypeOK, Laden
      <4> QED BY <2>10, <4>1 DEF Post, TypeOK
    <3> QED BY <2>10, <3>3, <3>4 DEF Post, TypeOK, outbox
  <2>11. CASE Record(d)
    <3>1. call[d] # Idle /\ call[d].event \in Event
      BY <2>11, Carries DEF Record, At, Idle
    <3> QED BY <2>11, <3>1, CallType DEF Record, TypeOK, books, LightPhase
  <2>12. CASE MarkRevoked(d)
    <3>1. call[d] # Idle
      BY <2>12, Carries DEF MarkRevoked, Idle
    <3> QED BY <2>12, <3>1, CallType
            DEF MarkRevoked, TypeOK, Connection, outbox, books, LightPhase
  <2>13. CASE Settle(d)
    <3>1. call[d].event \in Event
      BY <2>13, Carries DEF Settle, Idle
    <3> QED BY <2>13, <3>1, CallType DEF Settle, Verdict, TypeOK, books
  <2> QED BY <1>2, <2>1, <2>2, <2>3, <2>4, <2>5, <2>6, <2>7, <2>8, <2>9, <2>10, <2>11,
             <2>12, <2>13 DEF Step
<1>3. ASSUME NEW d \in Call, RefreshFails(d) \/ Fail(d) PROVE TypeOK' /\ GrantInv'
  <2>1. call[d] # Idle /\ call[d].event \in Event
    BY <1>3, Carries DEF RefreshFails, Fail, At, Idle
  <2>2. CallOK
    BY <1>3, <2>1, CallType DEF RefreshFails, Fail, LightPhase
  <2>3. faults' \in Nat
    BY <1>3 DEF RefreshFails, Fail, Faulty, TypeOK
  <2>4. CASE RefreshFails(d)
    BY <2>2, <2>3, <2>4 DEF RefreshFails, TypeOK, outbox, books
  <2>5. CASE Fail(d)
    <3>1. lost' \in [Event -> Nat]
      BY <2>5, <2>1 DEF Fail, TypeOK
    <3> QED BY <2>2, <2>3, <2>5, <3>1 DEF Fail, TypeOK, outbox
  <2> QED BY <1>3, <2>4, <2>5
<1>4. ASSUME NEW g \in Grant, Begin(g) \/ Connect(g) \/ Withdraw(g) PROVE TypeOK' /\ GrantInv'
  <2>1. Connected(g) \in Connection /\ Connected(g).token.grant = g
    BY DEF Connected, Connection, Company, Token
  <2>2. \A st \in {"begun", "live", "withdrawn"} :
          [intuit EXCEPT ![g].state = st]
            \in [Grant -> [state : {"unused", "begun", "live", "withdrawn"}, n : Nat]]
    BY DEF TypeOK
  <2>3. CASE Begin(g)
    BY <2>2, <2>3 DEF Begin, TypeOK, outbox, books
  <2>4. CASE Connect(g)
    BY <2>1, <2>2, <2>4 DEF Connect, TypeOK, outbox, books
  <2>5. CASE Withdraw(g)
    BY <2>2, <2>5 DEF Withdraw, Faulty, TypeOK, outbox, books
  <2> QED BY <1>4, <2>3, <2>4, <2>5
<1>5. CASE Disconnect \/ Age
  <2>1. Wiped \in Token
    BY DEF Wiped, Token
  <2> QED BY <1>5, <2>1 DEF Disconnect, Age, TypeOK, Connection, outbox, books
<1>6. ASSUME NEW v \in DOMAIN vendors, Rename(v) PROVE TypeOK' /\ GrantInv'
  <2>1. vendors \in Seq(VendorRow) /\ v \in 1 .. Len(vendors)
    BY DEF TypeOK
  <2>2. [vendors[v] EXCEPT !.named = FALSE] \in VendorRow
    <3>1. vendors[v] \in VendorRow
      BY <2>1, ElementOfSeq
    <3> QED BY <3>1 DEF VendorRow
  <2>3. vendors' \in Seq(VendorRow)
    BY <1>6, <2>1, <2>2, ExceptSeq DEF Rename
  <2> QED BY <1>6, <2>3 DEF Rename, Faulty, TypeOK, outbox
<1> QED BY <1>1, <1>2, <1>3, <1>4, <1>5, <1>6 DEF Next

-----------------------------------------------------------------------------
(* A step of one delivery, and a step of an administrator, of time, of     *)
(* Intuit or of somebody in QuickBooks.                                    *)
Own(d) == Step(d) \/ RefreshFails(d) \/ Fail(d)
Outside == \/ \E g \in Grant : Begin(g) \/ Connect(g) \/ Withdraw(g)
           \/ Disconnect \/ Age
           \/ \E v \in DOMAIN vendors : Rename(v)

(* What any step of a delivery leaves alone: the other deliveries, and     *)
(* which event it has in hand.                                             *)
LEMMA OwnStep ==
  ASSUME TypeOK, NEW d \in Call, Own(d)
  PROVE  /\ \A o \in Call \ {d} : call'[o] = call[o]
         /\ call[d] # Idle => call'[d] = Idle \/ call'[d].event = call[d].event
<1>1. call \in [Call -> {Idle} \cup Light \cup Laden]
  BY DEF TypeOK
<1>2. CASE \E e \in Event : Start(d, e)
  BY <1>1, <1>2 DEF Start
<1>3. CASE LoadToken(d) \/ MarkExpired(d) \/ Post(d) \/ Record(d) \/ MarkRevoked(d)
           \/ Settle(d) \/ RefreshFails(d) \/ Fail(d)
  BY <1>1, <1>3 DEF LoadToken, MarkExpired, Post, Record, MarkRevoked, Settle, RefreshFails,
     Fail, Ends, Leaves
<1>4. CASE Refresh(d)
  <2>1. call[d] \in Laden
    BY <1>4, Carries DEF Refresh, At, LadenPhase
  <2> QED BY <1>1, <1>4, <2>1 DEF Refresh, Leaves, Laden
<1>5. CASE StoreToken(d) \/ Cached(d) \/ Find(d) \/ Create(d) \/ MapVendor(d)
  <2>1. call[d] \in Laden
    BY <1>5, Carries DEF StoreToken, Cached, Find, Create, MapVendor, At, LadenPhase
  <2> QED BY <1>1, <1>5, <2>1
          DEF StoreToken, Cached, Find, Create, MapVendor, Leaves, Goes, Laden
<1> QED BY <1>2, <1>3, <1>4, <1>5 DEF Own, Step

(* What the others leave alone. *)
LEMMA OutsideStep ==
  ASSUME Outside
  PROVE  UNCHANGED <<vendorMap, synced, settled, call, docs, raced, lost>>
BY DEF Outside, Begin, Connect, Withdraw, Disconnect, Age, Rename, outbox, books

LEMMA OwnOrOutside == Next => (\E d \in Call : Own(d)) \/ Outside
BY DEF Next, Own, Outside

-----------------------------------------------------------------------------
(* OneVendor *)

(* A step that leaves the map and the documents alone keeps the invariant, *)
(* if its own delivery does not come to the map or the document by it.     *)
LEMMA VendorKept ==
  ASSUME TypeOK, VendorInv, NEW d \in Call,
         UNCHANGED <<vendorMap, docs>>, \A o \in Call \ {d} : call'[o] = call[o],
         call'[d].phase \notin {"map", "post"}
  PROVE  VendorInv'
<1>1. \A o \in Call : call'[o].phase \in {"map", "post"} => call'[o] = call[o]
  OBVIOUS
<1> QED BY <1>1 DEF VendorInv

LEMMA VendorStep == TypeOK /\ VendorInv /\ [Next]_vars => VendorInv'
<1> SUFFICES ASSUME TypeOK, VendorInv, [Next]_vars PROVE VendorInv'
  OBVIOUS
<1>1. CASE UNCHANGED vars
  BY <1>1 DEF vars, VendorInv
<1>2. CASE Outside
  BY <1>2, OutsideStep DEF VendorInv
<1>3. ASSUME NEW d \in Call, Own(d) PROVE VendorInv'
  <2>1. call \in [Call -> {Idle} \cup Light \cup Laden] /\ \A o \in Call \ {d} : call'[o] = call[o]
    BY <1>3, OwnStep DEF TypeOK
  <2>2. CASE \E e \in Event : Start(d, e)
    BY <2>1, <2>2, VendorKept DEF Start, outbox
  <2>3. CASE LoadToken(d) \/ MarkExpired(d) \/ Record(d) \/ MarkRevoked(d)
             \/ Settle(d) \/ RefreshFails(d) \/ Fail(d)
    <3>1. call'[d].phase \notin {"map", "post"}
      BY <2>1, <2>3 DEF LoadToken, MarkExpired, Record, MarkRevoked, Settle, RefreshFails,
         Fail, Ends, Leaves, Idle
    <3> QED BY <2>1, <2>3, <3>1, VendorKept
            DEF LoadToken, MarkExpired, Record, MarkRevoked, Settle, RefreshFails, Fail,
                outbox, books
  <2>4. CASE Refresh(d) \/ StoreToken(d)
    <3>1. call[d] \in Laden
      BY <2>4, Carries DEF Refresh, StoreToken, At, LadenPhase
    <3>2. call'[d].phase \notin {"map", "post"}
      BY <2>1, <2>4, <3>1 DEF Refresh, StoreToken, Leaves, Goes, Laden
    <3> QED BY <2>1, <2>4, <3>2, VendorKept DEF Refresh, StoreToken, outbox, books
  <2>5. CASE Cached(d)
    <3>1. call[d] \in Laden
      BY <2>5, Carries DEF Cached, At, LadenPhase
    <3> DEFINE v == vendorMap[SupplierOf[call[d].event]]
    <3>2. CASE v = None
      BY <2>1, <2>5, <3>1, <3>2, VendorKept DEF Cached, Goes, Laden, outbox, books
    <3>3. CASE v # None
      <4>1. call'[d] = [call[d] EXCEPT !.phase = "post", !.vendor = v]
        BY <2>1, <2>5, <3>3 DEF Cached
      <4>2. call'[d].phase = "post" /\ call'[d].vendor = v /\ call'[d].event = call[d].event
        BY <3>1, <4>1 DEF Laden
      <4> QED BY <2>1, <2>5, <3>3, <4>2 DEF Cached, VendorInv, outbox, books
    <3> QED BY <3>2, <3>3
  <2>6. CASE Find(d) \/ Create(d)
    <3>1. call[d] \in Laden
      BY <2>6, Carries DEF Find, Create, At, LadenPhase
    <3>2. call'[d].phase # "post" /\ (call'[d].phase = "map" => call'[d].vendor \in Nat)
      <4>1. Named(d) \subseteq Nat /\ Len(vendors) + 1 \in Nat
        BY DEF Named, TypeOK
      <4> QED BY <2>1, <2>6, <3>1, <4>1 DEF Find, Create, Leaves, Goes, Laden
    <3>3. UNCHANGED <<vendorMap, docs>>
      BY <2>6 DEF Find, Create, outbox, books
    <3> QED BY <2>1, <3>2, <3>3 DEF VendorInv
  <2>7. CASE MapVendor(d)
    <3> DEFINE s == SupplierOf[call[d].event]
               own == call[d].vendor
    <3>1. call[d] \in Laden /\ own \in Nat /\ own # None /\ s \in Supplier
      <4>1. call[d] \in Laden /\ own \in Nat
        BY <2>7, Carries DEF MapVendor, At, LadenPhase, VendorInv
      <4> QED BY <4>1, QboAssumption DEF Laden
    <3>2. vendorMap'[s] # None /\ \A t \in Supplier : vendorMap[t] # None => vendorMap'[t] = vendorMap[t]
      BY <2>7, <3>1 DEF MapVendor, TypeOK
    <3>3. call'[d] = [call[d] EXCEPT !.phase = "post", !.vendor = vendorMap'[s]]
      BY <2>1, <2>7, <3>1 DEF MapVendor, Chosen, TypeOK
    <3>4. call'[d].phase = "post" /\ call'[d].vendor = vendorMap'[s] /\ call'[d].event = call[d].event
      BY <3>1, <3>3 DEF Laden
    <3>5. \A o \in Call \ {d} : call[o].phase = "post" => SupplierOf[call[o].event] \in Supplier
      BY Carries, QboAssumption DEF LadenPhase, Laden
    <3>6. \A e \in Event : SupplierOf[e] \in Supplier
      BY QboAssumption
    <3>7. docs' = docs
      BY <2>7 DEF MapVendor, books
    <3> HIDE DEF s, own
    <3> QED BY <2>1, <3>2, <3>4, <3>5, <3>6, <3>7 DEF VendorInv, s
  <2>8. CASE Post(d)
    <3>1. call[d] \in Laden /\ call[d].event \in Event
      BY <2>8, Carries DEF Post, At, LadenPhase, Laden
    <3>2. vendorMap' = vendorMap /\ call'[d].phase \notin {"map", "post"}
      BY <2>1, <2>8 DEF Post, Leaves, outbox
    <3>3. CASE docs' = docs
      BY <2>1, <3>2, <3>3, VendorKept
    <3>4. CASE docs' = [docs EXCEPT ![call[d].event] = Append(@, Document(d))]
      <4> DEFINE v == vendorMap[SupplierOf[call[d].event]]
      <4>1. Document(d).vendor = v /\ v # None
        BY <2>8 DEF Post, At, Document, VendorInv
      <4>2. ASSUME NEW e \in Event, NEW i \in DOMAIN docs'[e]
            PROVE docs'[e][i].vendor = vendorMap[SupplierOf[e]] /\ vendorMap[SupplierOf[e]] # None
        <5>1. CASE e # call[d].event
          BY <3>1, <3>4, <5>1 DEF TypeOK, VendorInv
        <5>2. CASE e = call[d].event
          <6>1. docs[e] \in Seq(Booked) /\ Document(d) \in Booked
            BY <3>1 DEF TypeOK, Document, Booked, Laden
          <6>2. docs'[e] = Append(docs[e], Document(d))
            BY <3>1, <3>4, <5>2 DEF TypeOK
          <6>3. i \in 1 .. Len(docs[e]) + 1
            BY <6>1, <6>2, AppendProperties
          <6>4. CASE i \in 1 .. Len(docs[e])
            BY <6>1, <6>2, <6>4, AppendProperties DEF VendorInv
          <6>5. CASE i = Len(docs[e]) + 1
            BY <4>1, <5>2, <6>1, <6>2, <6>5, AppendProperties
          <6> QED BY <6>1, <6>3, <6>4, <6>5
        <5> QED BY <5>1, <5>2
      <4> QED BY <2>1, <3>2, <4>2 DEF VendorInv
    <3> QED BY <2>8, <3>3, <3>4 DEF Post
  <2> QED BY <1>3, <2>2, <2>3, <2>4, <2>5, <2>6, <2>7, <2>8 DEF Own, Step
<1> QED BY <1>1, <1>2, <1>3, OwnOrOutside

-----------------------------------------------------------------------------
(* OneDocument *)

(* A delivery that books and records nothing, and whose event was not yet  *)
(* booked by it, keeps the invariant.                                      *)
LEMMA DocumentKept ==
  ASSUME TypeOK, DocumentInv, NEW d \in Call, Own(d),
         UNCHANGED <<raced, synced, docs, lost>>,
         call[d] # Idle, call[d].phase # "record", call'[d].phase # "record",
         call'[d] # Idle /\ call'[d].phase \notin Past => call[d].phase \notin Past
  PROVE  DocumentInv'
<1>1. \A o \in Call : call'[o] # Idle => call[o] # Idle /\ call'[o].event = call[o].event
  BY OwnStep
<1>2. \A o \in Call : (call'[o].phase = "record") <=> (call[o].phase = "record")
  BY OwnStep
<1>3. \A o \in Call : call'[o] # Idle /\ call'[o].phase \notin Past => call[o].phase \notin Past
  BY OwnStep
<1>4. \A o \in Call : call[o].phase = "record" => call'[o] = call[o]
  BY OwnStep
<1> QED BY <1>1, <1>2, <1>3, <1>4 DEF DocumentInv, BookedOnce

LEMMA DocumentStep == TypeOK /\ DocumentInv /\ [Next]_vars => DocumentInv'
<1> SUFFICES ASSUME TypeOK, DocumentInv, [Next]_vars PROVE DocumentInv'
  OBVIOUS
<1>1. CASE UNCHANGED vars
  BY <1>1 DEF vars, DocumentInv, BookedOnce
<1>2. CASE Outside
  BY <1>2, OutsideStep DEF DocumentInv, BookedOnce
<1>3. ASSUME NEW d \in Call, Own(d) PROVE DocumentInv'
  <2> DEFINE e == call[d].event
  <2>1. call \in [Call -> {Idle} \cup Light \cup Laden] /\ \A o \in Call \ {d} : call'[o] = call[o]
    BY <1>3, OwnStep DEF TypeOK
  <2>2. ASSUME NEW f \in Event, Start(d, f) PROVE DocumentInv'
    <3>1. /\ call[d] = Idle /\ call'[d] # Idle /\ call'[d].event = f
          /\ call'[d].phase = IF f \in synced THEN "done" ELSE "token"
          /\ UNCHANGED <<synced, docs, lost>>
      BY <2>1, <2>2 DEF Start, Synced, Idle, outbox
    <3>2. raced \subseteq raced' /\
          (f \notin raced' => \A o \in Call \ {d} : ~(call[o] # Idle /\ call[o].event = f))
      BY <2>2 DEF Start
    <3>3. \A o \in Call : call'[o].phase = "record" <=> o # d /\ call[o].phase = "record"
      BY <2>1, <3>1
    <3>4. \A o \in Call : call[o].phase = "record" => o # d
      BY <3>1 DEF Idle
    <3> QED BY <2>1, <3>1, <3>2, <3>3, <3>4 DEF DocumentInv, BookedOnce, Past
  <2>3. CASE LoadToken(d) \/ MarkExpired(d) \/ MarkRevoked(d) \/ Settle(d) \/ RefreshFails(d)
    <3>1. call[d] # Idle /\ call[d].phase # "record" /\ call'[d].phase # "record"
      BY <2>1, <2>3 DEF LoadToken, MarkExpired, MarkRevoked, Settle, RefreshFails, At, Ends,
         Leaves, Idle
    <3>2. call'[d] # Idle /\ call'[d].phase \notin Past => call[d].phase \notin Past
      BY <2>1, <2>3 DEF LoadToken, MarkExpired, MarkRevoked, Settle, RefreshFails, At, Ends,
         Leaves, Past
    <3>3. UNCHANGED <<raced, synced, docs, lost>>
      BY <2>3 DEF LoadToken, MarkExpired, MarkRevoked, Settle, RefreshFails, outbox, books
    <3> QED BY <1>3, <3>1, <3>2, <3>3, DocumentKept
  <2>4. CASE Refresh(d) \/ StoreToken(d) \/ Cached(d) \/ Find(d) \/ Create(d) \/ MapVendor(d)
    <3>1. call[d] \in Laden /\ call[d] # Idle /\ call[d].phase \notin Past \cup {"record"}
      BY <2>4, Carries
         DEF Refresh, StoreToken, Cached, Find, Create, MapVendor, At, LadenPhase, Idle, Past
    <3>2. call'[d].phase # "record"
      BY <2>1, <2>4, <3>1 DEF Refresh, StoreToken, Cached, Find, Create, MapVendor,
         Leaves, Goes, Laden
    <3>3. UNCHANGED <<raced, synced, docs, lost>>
      BY <2>4 DEF Refresh, StoreToken, Cached, Find, Create, MapVendor, outbox, books
    <3> QED BY <1>3, <3>1, <3>2, <3>3, DocumentKept
  <2>5. CASE Post(d)
    <3>1. call[d] \in Laden /\ call[d] # Idle /\ e \in Event /\ call[d].phase = "post"
      BY <2>5, Carries DEF Post, At, LadenPhase, Laden, Idle
    <3>2. UNCHANGED <<raced, synced, lost>>
      BY <2>5 DEF Post, outbox
    <3>3. CASE docs' = docs /\ (Leaves(d, "refuse") \/ Leaves(d, "revokeRefuse"))
      <4>1. call'[d].phase \in {"refuse", "revokeRefuse"}
        BY <2>1, <3>3 DEF Leaves
      <4> QED BY <1>3, <3>1, <3>2, <3>3, <4>1, DocumentKept DEF Past
    <3>4. CASE docs' = [docs EXCEPT ![e] = Append(@, Document(d))] /\ Leaves(d, "record")
      <4>1. call'[d].phase = "record" /\ call'[d].event = e /\ call'[d] # Idle
        BY <2>1, <3>4 DEF Leaves, Idle
      <4>2. docs[e] \in Seq(Booked) /\ Document(d) \in Booked
        BY <3>1 DEF TypeOK, Document, Booked, Laden
      <4>3. /\ Len(docs'[e]) = Len(docs[e]) + 1 /\ Len(docs[e]) \in Nat
            /\ \A f \in Event \ {e} : docs'[f] = docs[f]
        BY <3>1, <3>4, <4>2, AppendProperties, LenProperties DEF TypeOK
      <4>4. lost[e] \in Nat
        BY <3>1 DEF TypeOK
      <4>5. e \notin raced => e \notin synced /\ Len(docs[e]) <= lost[e]
        <5>1. ASSUME NEW o \in Call, e \notin raced, call[o].phase = "record" PROVE call[o].event # e
          BY <3>1, <5>1 DEF DocumentInv, BookedOnce, Idle
        <5> QED BY <3>1, <5>1 DEF DocumentInv, BookedOnce, Past
      <4>6. ASSUME NEW f \in Event \ raced' PROVE BookedOnce(f)'
        <5>1. CASE f # e
          BY <2>1, <3>1, <3>2, <4>1, <4>3, <5>1 DEF DocumentInv, BookedOnce, Past
        <5>2. CASE f = e
          <6>1. Len(docs'[f]) <= 1 + lost'[f] /\ f \notin synced'
            BY <3>2, <4>3, <4>4, <4>5, <5>2
          <6>2. BookedOnce(f)
            BY <3>2 DEF DocumentInv
          <6> QED BY <2>1, <3>1, <3>2, <4>1, <5>2, <6>1, <6>2 DEF BookedOnce, Past
        <5> QED BY <5>1, <5>2
      <4> QED BY <4>6 DEF DocumentInv
    <3> QED BY <2>5, <3>3, <3>4 DEF Post
  <2>6. CASE Record(d)
    <3>1. call[d] # Idle /\ call[d].phase = "record" /\ e \in Event
      BY <2>6, Carries DEF Record, At, Idle
    <3>2. /\ call'[d] # Idle /\ call'[d].phase = "done" /\ call'[d].event = e
          /\ synced' = synced \cup {e} /\ UNCHANGED <<raced, docs, lost>>
      BY <2>1, <2>6 DEF Record, Leaves, Idle, books
    <3> HIDE DEF e
    <3> QED BY <2>1, <3>1, <3>2 DEF DocumentInv, BookedOnce, Past, e
  <2>7. CASE Fail(d)
    <3>1. /\ call[d] # Idle /\ e \in Event /\ call'[d] = Idle
          /\ UNCHANGED <<raced, synced, docs>>
      BY <2>1, <2>7, Carries DEF Fail, Ends, outbox
    <3>2. CASE call[d].phase # "record"
      BY <1>3, <2>7, <3>1, <3>2, DocumentKept DEF Fail, At, Idle
    <3>3. CASE call[d].phase = "record"
      <4>1. /\ lost'[e] = lost[e] + 1 /\ lost[e] \in Nat
            /\ \A f \in Event \ {e} : lost'[f] = lost[f]
        BY <2>7, <3>1, <3>3 DEF Fail, At, TypeOK
      <4>2. Len(docs[e]) \in Nat
        BY <3>1, LenProperties DEF TypeOK
      <4> HIDE DEF e
      <4> QED BY <2>1, <3>1, <3>3, <4>1, <4>2 DEF DocumentInv, BookedOnce, Past, e
    <3> QED BY <3>2, <3>3
  <2> QED BY <1>3, <2>2, <2>3, <2>4, <2>5, <2>6, <2>7 DEF Own, Step
<1> QED BY <1>1, <1>2, <1>3, OwnOrOutside

-----------------------------------------------------------------------------
(* TokenIsNewest *)

(* A step that neither begins nor answers a refresh, and leaves the        *)
(* connection or deactivates it, keeps the invariant.                      *)
LEMMA TokenKept ==
  ASSUME TypeOK, TokenInv, NEW d \in Call, \A o \in Call \ {d} : call'[o] = call[o],
         intuit' = intuit, conn' = conn \/ conn'.status # "ACTIVE", tangled => tangled',
         call[d].phase # "store", call'[d].phase \notin {"refresh", "store"}
  PROVE  TokenInv'
<1>1. \A o \in Call : call'[o].phase \in {"refresh", "store"} => call'[o] = call[o]
  OBVIOUS
<1>2. (\A o \in Call : call'[o].phase # "store") => \A o \in Call : call[o].phase # "store"
  OBVIOUS
<1> QED BY <1>1, <1>2 DEF TokenInv

LEMMA TokenStep == TypeOK /\ GrantInv /\ TokenInv /\ [Next]_vars => TokenInv'
<1> SUFFICES ASSUME TypeOK, GrantInv, TokenInv, [Next]_vars PROVE TokenInv'
  OBVIOUS
<1>1. CASE UNCHANGED vars
  BY <1>1 DEF vars, TokenInv
<1>2. CASE Outside
  <2>1. call' = call
    BY <1>2, OutsideStep
  <2>2. ASSUME NEW g \in Grant, Begin(g) \/ Withdraw(g) PROVE TokenInv'
    <3>1. /\ \A h \in Grant : intuit'[h].n = intuit[h].n
          /\ \A h \in Grant : intuit'[h].state \in {"unused", "begun"} =>
                              intuit[h].state \in {"unused", "begun"}
      <4>1. /\ \A h \in Grant \ {g} : intuit'[h] = intuit[h]
            /\ intuit'[g].n = intuit[g].n
            /\ intuit[g].state = "unused" \/ intuit'[g].state = "withdrawn"
        BY <2>2 DEF Begin, Withdraw, TypeOK
      <4> QED BY <4>1
    <3>4. UNCHANGED <<conn, tangled>>
      BY <2>2 DEF Begin, Withdraw
    <3>2. \A o \in Call : call[o].phase = "store" => call[o].token.grant \in Grant
      BY Carries DEF Laden, LadenPhase
    <3> QED BY <2>1, <3>1, <3>2, <3>4 DEF TokenInv, GrantInv
  <2>3. ASSUME NEW g \in Grant, Connect(g) PROVE TokenInv'
    <3>1. intuit'[g].n = 0 /\ \A h \in Grant \ {g} : intuit'[h] = intuit[h]
      BY <2>3 DEF Connect, Verified, TypeOK, TokenInv
    <3>2. conn' = Connected(g) /\ tangled' = (InRefresh # {})
      BY <2>3 DEF Connect
    <3>3. ~tangled' => \A o \in Call : call[o].phase \notin {"refresh", "store"}
      BY <3>2 DEF InRefresh
    <3>4. /\ \A h \in Grant : intuit'[h].state \in {"unused", "begun"} => intuit'[h].n = 0
      BY <3>1 DEF TokenInv
    <3> QED BY <2>1, <3>1, <3>2, <3>3, <3>4 DEF TokenInv, Connected
  <2>4. CASE Disconnect \/ Age
    <3>1. UNCHANGED <<intuit, tangled>>
      BY <2>4 DEF Disconnect, Age
    <3>2. \/ conn'.status # "ACTIVE"
          \/ conn'.status = conn.status /\ conn'.company = conn.company /\ conn'.token = conn.token
      BY <2>4 DEF Disconnect, Age, TypeOK, Connection
    <3> QED BY <2>1, <3>1, <3>2 DEF TokenInv
  <2>5. CASE \E v \in DOMAIN vendors : Rename(v)
    BY <2>5 DEF Rename, TokenInv
  <2> QED BY <1>2, <2>2, <2>3, <2>4, <2>5 DEF Outside
<1>3. ASSUME NEW d \in Call, Own(d) PROVE TokenInv'
  <2>1. call \in [Call -> {Idle} \cup Light \cup Laden] /\ \A o \in Call \ {d} : call'[o] = call[o]
    BY <1>3, OwnStep DEF TypeOK
  <2>2. CASE \E e \in Event : Start(d, e)
    BY <2>1, <2>2, TokenKept DEF Start, Idle
  <2>3. CASE MarkExpired(d) \/ Post(d) \/ Record(d) \/ MarkRevoked(d) \/ Settle(d) \/ RefreshFails(d)
    <3>1. call[d].phase # "store" /\ call'[d].phase \notin {"refresh", "store"}
      BY <2>1, <2>3 DEF MarkExpired, Post, Record, MarkRevoked, Settle, RefreshFails, At, Ends,
         Leaves, Idle
    <3>2. UNCHANGED <<intuit, tangled>> /\ (conn' = conn \/ conn'.status # "ACTIVE")
      BY <2>3 DEF MarkExpired, Post, Record, MarkRevoked, Settle, RefreshFails, TypeOK, Connection
    <3> QED BY <2>1, <3>1, <3>2, TokenKept
  <2>4. CASE Cached(d) \/ Find(d) \/ Create(d) \/ MapVendor(d)
    <3>1. call[d] \in Laden /\ call[d].phase # "store"
      BY <2>4, Carries DEF Cached, Find, Create, MapVendor, At, LadenPhase
    <3>2. call'[d].phase \notin {"refresh", "store"}
      BY <2>1, <2>4, <3>1 DEF Cached, Find, Create, MapVendor, Leaves, Goes, Laden
    <3>3. UNCHANGED <<intuit, tangled, conn>>
      BY <2>4 DEF Cached, Find, Create, MapVendor
    <3> QED BY <2>1, <3>1, <3>2, <3>3, TokenKept
  <2>5. CASE LoadToken(d)
    <3>1. UNCHANGED <<conn, intuit, tangled>> /\ call[d].phase # "store"
      BY <2>5 DEF LoadToken, At
    <3>2. CASE call'[d].phase # "refresh"
      <4>1. call'[d].phase # "store"
        BY <2>1, <2>5 DEF LoadToken, Ends, Leaves, Idle
      <4> QED BY <2>1, <3>1, <3>2, <4>1, TokenKept
    <3>3. CASE call'[d].phase = "refresh"
      <4>1. call'[d].token = conn.token
        BY <2>1, <2>5, <3>3 DEF LoadToken, Ends, Leaves, Idle
      <4> QED BY <2>1, <3>1, <3>3, <4>1 DEF TokenInv
    <3> QED BY <3>2, <3>3
  <2>6. CASE Refresh(d)
    <3> DEFINE g == call[d].token.grant
    <3>1. call[d] \in Laden /\ g \in Grant /\ call[d].phase = "refresh"
      BY <2>6, Carries DEF Refresh, At, LadenPhase, Laden
    <3>2. conn' = conn /\ tangled' = (tangled \/ InRefresh # {d})
      BY <2>6 DEF Refresh
    <3>3. CASE Leaves(d, "expire") /\ intuit' = intuit
      BY <2>1, <3>1, <3>2, <3>3, TokenKept DEF Leaves
    <3>4. CASE /\ Current(call[d].token)
               /\ intuit' = [intuit EXCEPT ![g].n = @ + 1]
               /\ call' = [call EXCEPT ![d].phase = "store", ![d].token.n = @ + 1]
      <4>1. call'[d].phase = "store" /\ call'[d].token = [call[d].token EXCEPT !.n = @ + 1]
        BY <2>1, <3>1, <3>4 DEF Laden
      <4>2. call'[d].token.grant = g /\ call'[d].token.n = call[d].token.n + 1
        BY <3>1, <4>1 DEF Laden
      <4>3. intuit[g].n = call[d].token.n /\ intuit[g].state = "live"
        BY <3>4 DEF Current
      <4>4. /\ intuit'[g].n = call[d].token.n + 1 /\ intuit'[g].state = "live"
            /\ \A h \in Grant \ {g} : intuit'[h] = intuit[h]
        BY <3>1, <3>4, <4>3 DEF TypeOK
      <4>5. ~tangled' => ~tangled /\ \A o \in Call \ {d} : call[o].phase \notin {"refresh", "store"}
        BY <3>2 DEF InRefresh
      <4>6. \A h \in Grant : intuit'[h].state \in {"unused", "begun"} => intuit'[h].n = 0
        BY <3>1, <4>4 DEF TokenInv
      <4>7. ~tangled' => /\ \A o \in Call \ {d} : call'[o].phase \notin {"refresh", "store"}
                         /\ conn'.status = "ACTIVE" => g = conn'.token.grant
                         /\ conn'.status = "ACTIVE" => conn'.company = CompanyOf[conn'.token.grant]
        BY <2>1, <3>1, <3>2, <4>5 DEF TokenInv
      <4> HIDE DEF g
      <4> QED BY <4>1, <4>2, <4>4, <4>6, <4>7 DEF TokenInv
    <3> QED BY <2>6, <3>3, <3>4 DEF Refresh
  <2>7. CASE StoreToken(d)
    <3>1. call[d] \in Laden /\ call[d].phase = "store"
      BY <2>7, Carries DEF StoreToken, At, LadenPhase
    <3>2. /\ conn'.status = conn.status /\ conn'.company = conn.company
          /\ conn'.token = call[d].token /\ UNCHANGED <<intuit, tangled>>
      BY <2>7 DEF StoreToken, Rotated, TypeOK, Connection
    <3>3. call'[d].phase = "vendor"
      BY <2>1, <2>7, <3>1 DEF StoreToken, Goes, Laden
    <3>4. ~tangled => \A o \in Call : call'[o].phase # "store"
      BY <2>1, <3>1, <3>3 DEF TokenInv
    <3>5. ASSUME ~tangled, conn.status = "ACTIVE"
          PROVE  /\ conn'.company = CompanyOf[conn'.token.grant]
                 /\ conn'.token.n = intuit'[conn'.token.grant].n
                 /\ \A o \in Call : call'[o].phase = "refresh" =>
                                    call'[o].token.grant = conn'.token.grant
      BY <2>1, <3>1, <3>2, <3>3, <3>5 DEF TokenInv
    <3>6. \A h \in Grant : intuit'[h].state \in {"unused", "begun"} => intuit'[h].n = 0
      BY <3>2 DEF TokenInv
    <3>7. CASE tangled
      BY <3>2, <3>6, <3>7 DEF TokenInv
    <3>8. CASE ~tangled
      BY <3>2, <3>4, <3>5, <3>6, <3>8 DEF TokenInv
    <3> QED BY <3>7, <3>8
  <2>8. CASE Fail(d)
    <3>1. conn' = conn /\ intuit' = intuit /\ call'[d].phase = "idle"
      BY <2>1, <2>8 DEF Fail, Ends, Idle
    <3>2. (tangled => tangled') /\ (call[d].phase = "store" => tangled')
      BY <2>8 DEF Fail, At
    <3>3. CASE call[d].phase = "store"
      BY <3>1, <3>2, <3>3 DEF TokenInv
    <3>4. CASE call[d].phase # "store"
      BY <2>1, <3>1, <3>2, <3>4, TokenKept
    <3> QED BY <3>3, <3>4
  <2> QED BY <1>3, <2>2, <2>3, <2>4, <2>5, <2>6, <2>7, <2>8 DEF Own, Step
<1> QED BY <1>1, <1>2, <1>3, OwnOrOutside

-----------------------------------------------------------------------------
IInv == TypeOK /\ GrantInv /\ DocumentInv /\ VendorInv /\ TokenInv

LEMMA InitOK == Init => IInv
<1> SUFFICES ASSUME Init PROVE IInv
  OBVIOUS
<1>1. TypeOK
  <2>1. <<>> \in Seq(VendorRow) /\ <<>> \in Seq(Booked)
    OBVIOUS
  <2> QED BY <2>1 DEF Init, TypeOK, Connection, Company, Token, Wiped, VendorId
<1>2. \A e \in Event : Len(docs[e]) = 0 /\ DOMAIN docs[e] = {} /\ lost[e] = 0
  BY DEF Init
<1>3. \A d \in Call : call[d] = Idle /\ call[d].phase = "idle"
  BY DEF Init, Idle
<1> QED BY <1>1, <1>2, <1>3
        DEF Init, IInv, GrantInv, DocumentInv, BookedOnce, VendorInv, TokenInv

LEMMA Invariant == Spec => []IInv
<1>1. IInv /\ [Next]_vars => IInv'
  BY TypeStep, DocumentStep, VendorStep, TokenStep DEF IInv
<1> QED BY InitOK, <1>1, PTL DEF Spec

(* Each event that two deliveries never had in hand at once has one        *)
(* document at most, besides those whose creation was not recorded, for    *)
(* any number of deliveries, failures, crashes and reconnections.          *)
THEOREM QboOneDocument == Spec => []OneDocument
<1>1. TypeOK /\ DocumentInv => OneDocument
  <2> SUFFICES ASSUME TypeOK, DocumentInv, NEW e \in Event \ raced
               PROVE  Len(docs[e]) <= 1 + lost[e]
    BY DEF OneDocument
  <2>1. Len(docs[e]) \in Nat /\ lost[e] \in Nat
    BY LenProperties DEF TypeOK
  <2>2. BookedOnce(e)
    BY DEF DocumentInv
  <2>3. CASE \E d \in Call : call[d].phase = "record" /\ call[d].event = e
    BY <2>2, <2>3 DEF BookedOnce, Idle
  <2>4. CASE \A d \in Call : call[d].phase = "record" => call[d].event # e
    BY <2>1, <2>2, <2>4 DEF BookedOnce
  <2> QED BY <2>3, <2>4
<1> QED BY Invariant, <1>1, PTL DEF IInv

(* Whatever races, reconnections to other companies and renames there are, *)
(* the documents of a supplier in one company name one vendor.             *)
THEOREM QboOneVendor == Spec => []OneVendor
<1>1. VendorInv => OneVendor
  BY DEF VendorInv, OneVendor
<1> QED BY Invariant, <1>1, PTL DEF IInv

(* An active connection that no unguarded overlap of refreshes has touched *)
(* holds the newest refresh token of a grant of its company.               *)
THEOREM QboTokenIsNewest == Spec => []TokenIsNewest
<1>1. TokenInv => TokenIsNewest
  BY DEF TokenInv, TokenIsNewest, InRefresh
<1> QED BY Invariant, <1>1, PTL DEF IInv
=============================================================================
