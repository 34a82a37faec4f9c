-------------------------------- MODULE Access --------------------------------
(***************************************************************************)
(* Sessions and API tokens (src/lib/services/sessions.ts, auth.ts,         *)
(* api-tokens.ts) and how a request is identified by one (getActor).       *)
(*                                                                         *)
(* Log-in, identification and the handler behind it are separate steps of  *)
(* a request: sessions are revoked, expire and are purged between them.    *)
(***************************************************************************)
EXTENDS Naturals, FiniteSets

CONSTANTS User, Admin,
          Credential,            \* identities of sessions and of API tokens
          Request,               \* requests that may be in progress at a time
          SessionTtl, PurgeAfter, PurgeBatch,
          MaxTime,               \* bound on the clock
          None

ASSUME AccessAssumption ==
  /\ Admin \subseteq User /\ None \notin User
  /\ SessionTtl \in Nat \ {0} /\ PurgeAfter \in Nat /\ PurgeBatch \in Nat \ {0}

VARIABLES
  credential,   \* rows of sessions and api_tokens; a purged one is kept as history
  request,      \* requests in progress; history: dead, the credential was dead at the start
  now

accessVars == <<credential, request, now>>

Issued(kind, u) ==
  [kind |-> kind, user |-> u, issued |-> now, revoked |-> FALSE, purged |-> FALSE]
Unissued ==
  [kind |-> "unissued", user |-> None, issued |-> 0, revoked |-> FALSE, purged |-> FALSE]
Idle ==
  [phase |-> "idle", user |-> None, credential |-> None, dead |-> FALSE, attachment |-> None]

AccessInit ==
  /\ credential = [k \in Credential |-> Unissued]
  /\ request = [r \in Request |-> Idle]
  /\ now = 0

Sessions == {k \in Credential : credential[k].kind = "session" /\ ~credential[k].purged}
Expires(k) == credential[k].issued + SessionTtl
Expired(k) == credential[k].kind = "session" /\ Expires(k) <= now
Dead(k) == credential[k].revoked \/ Expired(k)

(* Mutant of Live: a revoked session is still good. *)
LiveUntilExpired(k) ==
  IF credential[k].kind = "session" THEN k \in Sessions /\ Expires(k) > now
  ELSE ~credential[k].revoked

(* isSessionLive, verifyApiToken *)
Live(k) ==
  /\ ~credential[k].revoked
  /\ credential[k].kind = "session" => k \in Sessions /\ Expires(k) > now

Continues(r, phase) == request' = [request EXCEPT ![r].phase = phase]
Ends(r) == request' = [request EXCEPT ![r] = Idle]

-----------------------------------------------------------------------------
(* login: the password, the purge, the new session *)

LoginVerified(r, u) ==
  /\ request[r] = Idle
  /\ request' = [request EXCEPT ![r].phase = "verified", ![r].user = u]
  /\ UNCHANGED <<credential, now>>

(* Mutant of Stale: the grace period is added where it is subtracted. *)
StaleEarly == {k \in Sessions : Expires(k) < now + PurgeAfter}
Stale == {k \in Sessions : Expires(k) + PurgeAfter < now}

LoginPurges(r) ==
  /\ request[r].phase = "verified"
  /\ \E K \in SUBSET Stale :
       /\ Cardinality(K) <= PurgeBatch
       /\ Cardinality(K) = PurgeBatch \/ K = Stale
       /\ credential' = [k \in Credential |->
            IF k \in K THEN [credential[k] EXCEPT !.purged = TRUE] ELSE credential[k]]
  /\ Continues(r, "purged") /\ UNCHANGED now

LoginStarts(r) ==
  /\ request[r].phase = "purged"
  /\ \E k \in Credential :
       /\ credential[k] = Unissued
       /\ credential' = [credential EXCEPT ![k] = Issued("session", request[r].user)]
  /\ Ends(r) /\ UNCHANGED now

(* POST /auth/logout asks for nothing but the cookie. *)
Logout(k) ==
  /\ k \in Sessions /\ ~credential[k].revoked
  /\ credential' = [credential EXCEPT ![k].revoked = TRUE]
  /\ UNCHANGED <<request, now>>

-----------------------------------------------------------------------------
(* getActor; getCurrentUser does the same for pages. *)

(* A session token carries its end with it: an expired one is refused     *)
(* without a look at the table.                                            *)
Arrive(r, k) ==
  /\ request[r] = Idle /\ credential[k] # Unissued /\ ~Expired(k)
  /\ request' = [request EXCEPT ![r].phase = "arrived", ![r].credential = k,
                               ![r].user = credential[k].user, ![r].dead = Dead(k)]
  /\ UNCHANGED <<credential, now>>

Identify(r) ==
  /\ request[r].phase = "arrived" /\ Live(request[r].credential)
  /\ Continues(r, "acting") /\ UNCHANGED <<credential, now>>

Refuse(r) ==
  /\ request[r].phase = "arrived" /\ ~Live(request[r].credential)
  /\ Ends(r) /\ UNCHANGED <<credential, now>>

Acting(r) == request[r].phase = "acting"
ActingAdmin(r) == Acting(r) /\ request[r].user \in Admin

-----------------------------------------------------------------------------
(* Handlers *)

RevokedOf(u) == {k \in Sessions : credential[k].user = u /\ ~Dead(k)}

(* POST /users/:id/sessions/revoke *)
RevokeUserSessions(r, u) ==
  /\ ActingAdmin(r)
  /\ credential' = [k \in Credential |->
       IF k \in RevokedOf(u) THEN [credential[k] EXCEPT !.revoked = TRUE] ELSE credential[k]]
  /\ Ends(r) /\ UNCHANGED now

(* POST /auth/tokens: a token of the administrator's own *)
CreateApiToken(r) ==
  /\ ActingAdmin(r)
  /\ \E k \in Credential :
       /\ credential[k] = Unissued
       /\ credential' = [credential EXCEPT ![k] = Issued("token", request[r].user)]
  /\ Ends(r) /\ UNCHANGED now

(* DELETE /auth/tokens/:id, of any administrator's token *)
RevokeApiToken(r, k) ==
  /\ ActingAdmin(r) /\ credential[k].kind = "token"
  /\ credential' = [credential EXCEPT ![k].revoked = TRUE]
  /\ Ends(r) /\ UNCHANGED now

(* Handlers that change nothing here, or find that the request may not. *)
Respond(r) == Acting(r) /\ Ends(r) /\ UNCHANGED <<credential, now>>

Tick == now < MaxTime /\ now' = now + 1 /\ UNCHANGED <<credential, request>>

AccessStep(r) ==
  \/ \E u \in User : LoginVerified(r, u) \/ RevokeUserSessions(r, u)
  \/ LoginPurges(r) \/ LoginStarts(r)
  \/ \E k \in Credential : Arrive(r, k) \/ RevokeApiToken(r, k)
  \/ Identify(r) \/ Refuse(r) \/ CreateApiToken(r) \/ Respond(r)

AccessNext == Tick \/ (\E k \in Credential : Logout(k)) \/ \E r \in Request : AccessStep(r)

-----------------------------------------------------------------------------
(* Properties *)

(* Whoever holds a session or a token that was not revoked and has not     *)
(* expired is let in: no purge, log-out or revocation of others takes it   *)
(* (sessions.ts:60-67 purges what expired thirty days ago).                *)
RefusedOnlyWhenDead ==
  [][\A r \in Request : Refuse(r) => Dead(request[r].credential)]_accessVars

(* No request acts, whatever it does later, by a credential that had       *)
(* expired or been revoked before the request arrived: by log-out, by an   *)
(* administrator or with its token (sessions.ts:41-58, api-tokens.ts:63).  *)
ActsByLiveCredential ==
  \A r \in Request : request[r].phase \notin {"idle", "verified", "purged", "arrived"} =>
    ~request[r].dead
=============================================================================
