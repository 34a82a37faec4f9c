-------------------------- MODULE AttachmentsProofs --------------------------
(***************************************************************************)
(* Proofs about Access and Attachments for any users, credentials,         *)
(* requests and attachments, any session lifetime and any number of faults.*)
(*                                                                         *)
(* The invariant adds to the properties what they lean on: who a request   *)
(* acts for and by what (IdentityInv), and that an upload or a deletion in *)
(* progress keeps its key to itself (HeldInv).                             *)
(***************************************************************************)
EXTENDS Attachments, TLAPS

CredentialRow ==
  [kind: {"session", "token"}, user: User, issued: Nat, revoked: BOOLEAN, purged: BOOLEAN]

Phases == {"idle", "verified", "purged", "arrived", "acting",
           "stored", "reading", "deleting", "deleted"}

RequestState ==
  [phase: Phases, user: User \cup {None}, credential: Credential \cup {None},
   dead: BOOLEAN, attachment: Attachment \cup {None}]

TypeOK ==
  /\ credential \in [Credential -> CredentialRow \cup {Unissued}]
  /\ request \in [Request -> RequestState]
  /\ now \in Nat
  /\ file \subseteq Attachment
  /\ uploader \in [Attachment -> User \cup {None}]
  /\ torn \subseteq Attachment

(* A request past its log-in or its arrival has a user; the credential it  *)
(* arrived with exists, and is dead if it was dead then; and a request     *)
(* about an attachment names one.                                          *)
IdentityInv ==
  \A r \in Request :
    /\ request[r].phase # "idle" => request[r].user \in User
    /\ request[r].phase \in {"stored", "reading", "deleting", "deleted"}
         => request[r].attachment \in Attachment
    /\ request[r].phase = "arrived" =>
         /\ request[r].credential \in Credential
         /\ credential[request[r].credential] # Unissued
         /\ request[r].dead => Dead(request[r].credential)

(* An upload that wrote its file has its key to itself; a deletion that    *)
(* removed the file leaves none behind.                                    *)
HeldInv ==
  \A r \in Request :
    /\ request[r].phase = "stored" =>
         /\ request[r].attachment \in file
         /\ uploader[request[r].attachment] = None
         /\ \A o \in Request \ {r} : request[o].attachment # request[r].attachment
    /\ request[r].phase = "deleted" => request[r].attachment \notin file

(* FilesMatchRows, attachment by attachment. *)
FilesInv ==
  \A a \in Attachment :
    /\ a \in file /\ uploader[a] = None =>
         a \in torn \/ \E r \in Request : request[r].phase = "stored" /\ request[r].attachment = a
    /\ a \notin file /\ uploader[a] # None =>
         a \in torn \/ \E r \in Request : request[r].phase = "deleted" /\ request[r].attachment = a

(* Only expired sessions are purged. *)
PurgedInv == \A k \in Credential : credential[k].purged => Expired(k)

IInv == /\ TypeOK /\ IdentityInv /\ ActsByLiveCredential /\ PurgedInv
        /\ HeldInv /\ FilesInv

-----------------------------------------------------------------------------
(* Every type is kept. *)
LEMMA TypeStep == TypeOK /\ IdentityInv /\ [Next]_vars => TypeOK'
<1> SUFFICES ASSUME TypeOK, IdentityInv, [Next]_vars PROVE TypeOK'
  OBVIOUS
<1> USE DEF TypeOK
<1>1. CASE UNCHANGED vars
  BY <1>1 DEF vars, accessVars, attachmentVars
<1>2. ASSUME NEW r \in Request, Ends(r) PROVE request' \in [Request -> RequestState]
  BY <1>2 DEF Ends, Idle, RequestState, Phases
<1>3. ASSUME NEW r \in Request, NEW p \in Phases, Continues(r, p)
      PROVE request' \in [Request -> RequestState]
  BY <1>3 DEF Continues, RequestState
<1>4. ASSUME NEW r \in Request, NEW p \in Phases, NEW a \in Attachment, Begins(r, p, a)
      PROVE request' \in [Request -> RequestState]
  BY <1>4 DEF Begins, RequestState
<1>5. ASSUME NEW k \in Credential, NEW u \in User, NEW kind \in {"session", "token"},
             credential' = [credential EXCEPT ![k] = Issued(kind, u)]
      PROVE credential' \in [Credential -> CredentialRow \cup {Unissued}]
  <2>1. Issued(kind, u) \in CredentialRow
    BY DEF Issued, CredentialRow
  <2> QED BY <2>1, <1>5
<1>6. ASSUME NEW K \in SUBSET Credential, \A k \in K : credential[k] # Unissued,
             \/ credential' = [k \in Credential |->
                  IF k \in K THEN [credential[k] EXCEPT !.purged = TRUE] ELSE credential[k]]
             \/ credential' = [k \in Credential |->
                  IF k \in K THEN [credential[k] EXCEPT !.revoked = TRUE] ELSE credential[k]]
      PROVE credential' \in [Credential -> CredentialRow \cup {Unissued}]
  <2>1. ASSUME NEW k \in K
        PROVE /\ [credential[k] EXCEPT !.revoked = TRUE] \in CredentialRow
              /\ [credential[k] EXCEPT !.purged = TRUE] \in CredentialRow
    BY <1>6 DEF CredentialRow
  <2>2. ASSUME NEW k \in Credential
        PROVE /\ (IF k \in K THEN [credential[k] EXCEPT !.purged = TRUE] ELSE credential[k])
                   \in CredentialRow \cup {Unissued}
              /\ (IF k \in K THEN [credential[k] EXCEPT !.revoked = TRUE] ELSE credential[k])
                   \in CredentialRow \cup {Unissued}
    <3>1. credential[k] \in CredentialRow \cup {Unissued}
      OBVIOUS
    <3> QED BY <3>1, <2>1
  <2>3. CASE credential' = [k \in Credential |->
               IF k \in K THEN [credential[k] EXCEPT !.purged = TRUE] ELSE credential[k]]
    BY <2>2, <2>3
  <2>4. CASE credential' = [k \in Credential |->
               IF k \in K THEN [credential[k] EXCEPT !.revoked = TRUE] ELSE credential[k]]
    BY <2>2, <2>4
  <2> QED BY <1>6, <2>3, <2>4
<1>7. ASSUME NEW k \in Credential, credential[k] # Unissued,
             credential' = [credential EXCEPT ![k].revoked = TRUE]
      PROVE credential' \in [Credential -> CredentialRow \cup {Unissued}]
  <2>1. [credential[k] EXCEPT !.revoked = TRUE] \in CredentialRow
    BY <1>7 DEF CredentialRow
  <2> QED BY <1>7, <2>1
<1>8. ASSUME NEW k \in Credential, k \in Sessions \/ credential[k].kind = "token"
      PROVE credential[k] # Unissued
  BY <1>8 DEF Sessions, Unissued
<1>9. CASE AccessNext /\ UNCHANGED attachmentVars
  <2> USE <1>9 DEF attachmentVars
  <2>1. CASE Tick
    BY <2>1 DEF Tick
  <2>2. ASSUME NEW k \in Credential, Logout(k) PROVE TypeOK'
    BY <2>2, <1>7, <1>8 DEF Logout
  <2>3. ASSUME NEW r \in Request, AccessStep(r) PROVE TypeOK'
    <3>1. ASSUME NEW u \in User, LoginVerified(r, u) PROVE TypeOK'
      <4>1. [request[r] EXCEPT !.phase = "verified", !.user = u] \in RequestState
        BY DEF RequestState, Phases
      <4> QED BY <3>1, <4>1 DEF LoginVerified
    <3>2. ASSUME NEW u \in User, RevokeUserSessions(r, u) PROVE TypeOK'
      <4>1. RevokedOf(u) \in SUBSET Credential /\ \A k \in RevokedOf(u) : credential[k] # Unissued
        BY <1>8 DEF RevokedOf, Sessions
      <4> QED BY <3>2, <4>1, <1>2, <1>6 DEF RevokeUserSessions
    <3>3. CASE LoginPurges(r)
      <4>1. PICK K \in SUBSET Stale :
              credential' = [k \in Credential |->
                IF k \in K THEN [credential[k] EXCEPT !.purged = TRUE] ELSE credential[k]]
        BY <3>3 DEF LoginPurges
      <4>2. K \in SUBSET Credential /\ \A k \in K : credential[k] # Unissued
        BY <1>8 DEF Stale, Sessions
      <4>3. "purged" \in Phases
        BY DEF Phases
      <4> QED BY <3>3, <4>1, <4>2, <4>3, <1>3, <1>6 DEF LoginPurges
    <3>4. CASE LoginStarts(r)
      <4>1. request[r].user \in User
        BY <3>4 DEF LoginStarts, IdentityInv
      <4> QED BY <3>4, <4>1, <1>2, <1>5 DEF LoginStarts
    <3>5. ASSUME NEW k \in Credential, Arrive(r, k) PROVE TypeOK'
      <4>1. credential[k].user \in User
        BY <3>5 DEF Arrive, CredentialRow
      <4>2. Dead(k) \in BOOLEAN
        BY <3>5 DEF Arrive, CredentialRow, Dead, Expired
      <4>3. [request[r] EXCEPT !.phase = "arrived", !.credential = k,
                               !.user = credential[k].user, !.dead = Dead(k)] \in RequestState
        BY <4>1, <4>2 DEF RequestState, Phases
      <4> QED BY <3>5, <4>3 DEF Arrive
    <3>6. ASSUME NEW k \in Credential, RevokeApiToken(r, k) PROVE TypeOK'
      BY <3>6, <1>2, <1>7, <1>8 DEF RevokeApiToken
    <3>7. CASE Identify(r)
      <4>1. "acting" \in Phases
        BY DEF Phases
      <4> QED BY <3>7, <4>1, <1>3 DEF Identify
    <3>8. CASE Refuse(r) \/ Respond(r)
      BY <3>8, <1>2 DEF Refuse, Respond
    <3>9. CASE CreateApiToken(r)
      <4>1. request[r].user \in User
        BY <3>9 DEF CreateApiToken, ActingAdmin, Acting, IdentityInv
      <4> QED BY <3>9, <4>1, <1>2, <1>5 DEF CreateApiToken
    <3> QED BY <2>3, <3>1, <3>2, <3>3, <3>4, <3>5, <3>6, <3>7, <3>8, <3>9 DEF AccessStep
  <2> QED BY <2>1, <2>2, <2>3 DEF AccessNext
<1>10. ASSUME NEW r \in Request, AttachmentStep(r) PROVE TypeOK'
  <2> USE DEF attachmentVars
  <2>0. {"stored", "reading", "deleting", "deleted"} \subseteq Phases
    BY DEF Phases
  <2>1. ASSUME NEW a \in Attachment, UploadFile(r, a) PROVE TypeOK'
    BY <2>0, <2>1, <1>4 DEF UploadFile, Put
  <2>2. ASSUME NEW a \in Attachment, ReadRow(r, a) \/ DeleteRead(r, a) PROVE TypeOK'
    BY <2>0, <2>2, <1>4 DEF ReadRow, DeleteRead
  <2>3. CASE UploadRow(r)
    <3>1. request[r].user \in User
      BY <2>3 DEF UploadRow, IdentityInv
    <3> QED BY <2>3, <3>1, <1>2 DEF UploadRow
  <2>4. CASE ReadFile(r)
    BY <2>4, <1>2 DEF ReadFile
  <2>5. CASE DeleteFile(r)
    BY <2>0, <2>5, <1>3 DEF DeleteFile
  <2>6. CASE DeleteRow(r)
    BY <2>6, <1>2 DEF DeleteRow
  <2>7. CASE Fail(r)
    BY <2>7, <1>2 DEF Fail, IdentityInv
  <2> QED BY <1>10, <2>1, <2>2, <2>3, <2>4, <2>5, <2>6, <2>7 DEF AttachmentStep
<1> QED BY <1>1, <1>9, <1>10 DEF Next

-----------------------------------------------------------------------------
(* What a step may make of a credential. *)
Evolves(k) ==
  /\ now' = now \/ now' = now + 1
  /\ \/ credential'[k] = credential[k]
     \/ credential'[k] = [credential[k] EXCEPT !.revoked = TRUE]
     \/ k \in Stale /\ credential'[k] = [credential[k] EXCEPT !.purged = TRUE]
     \/ credential[k] = Unissued /\ \E u, kind : credential'[k] = Issued(kind, u)

LEMMA CredentialEvolves ==
  ASSUME TypeOK, [Next]_vars, NEW k \in Credential
  PROVE  Evolves(k)
<1> USE DEF TypeOK, Evolves
<1>1. CASE UNCHANGED <<credential, now>>
  BY <1>1
<1>2. ASSUME NEW j \in Credential, NEW u, NEW kind, now' = now, credential[j] = Unissued,
             credential' = [credential EXCEPT ![j] = Issued(kind, u)]
      PROVE Evolves(k)
  BY <1>2
<1>3. CASE AccessNext
  <2>1. CASE Tick
    BY <2>1 DEF Tick
  <2>2. ASSUME NEW j \in Credential, Logout(j) PROVE Evolves(k)
    BY <2>2 DEF Logout
  <2>3. ASSUME NEW r \in Request, AccessStep(r) PROVE Evolves(k)
    <3>1. ASSUME NEW u \in User, RevokeUserSessions(r, u) PROVE Evolves(k)
      BY <3>1 DEF RevokeUserSessions
    <3>2. CASE LoginPurges(r)
      BY <3>2 DEF LoginPurges
    <3>3. CASE LoginStarts(r)
      BY <1>2, <3>3 DEF LoginStarts
    <3>4. CASE CreateApiToken(r)
      BY <1>2, <3>4 DEF CreateApiToken
    <3>5. ASSUME NEW j \in Credential, RevokeApiToken(r, j) PROVE Evolves(k)
      BY <3>5 DEF RevokeApiToken
    <3> QED BY <1>1, <2>3, <3>1, <3>2, <3>3, <3>4, <3>5
            DEF AccessStep, LoginVerified, Arrive, Identify, Refuse, Respond
  <2> QED BY <1>3, <2>1, <2>2, <2>3 DEF AccessNext
<1>4. ASSUME NEW r \in Request, AttachmentStep(r)
      PROVE UNCHANGED <<credential, now>>
  BY <1>4 DEF AttachmentStep, UploadFile, UploadRow, ReadRow, ReadFile, DeleteRead, DeleteFile,
              DeleteRow, Fail
<1>5. CASE UNCHANGED vars
  BY <1>1, <1>5 DEF vars, accessVars
<1> QED BY <1>1, <1>3, <1>4, <1>5 DEF Next

(* A credential stays what it is; a revocation and the passing of time are *)
(* never undone.                                                           *)
LEMMA CredentialsPersist ==
  ASSUME TypeOK, [Next]_vars, NEW k \in Credential, credential[k] # Unissued
  PROVE  /\ credential'[k] # Unissued
         /\ Expired(k) => Expired(k)'
         /\ Dead(k) => Dead(k)'
<1>1. credential[k] \in CredentialRow
  BY DEF TypeOK
<1>2. Evolves(k)
  BY CredentialEvolves
<1>3. /\ credential'[k].kind = credential[k].kind
      /\ credential'[k].issued = credential[k].issued
      /\ credential[k].revoked => credential'[k].revoked
  BY <1>1, <1>2 DEF Evolves, CredentialRow
<1>4. credential'[k] # Unissued
  BY <1>1, <1>3 DEF CredentialRow, Unissued
<1>5. Expired(k) => Expired(k)'
  BY <1>1, <1>2, <1>3, AccessAssumption DEF Evolves, Expired, Expires, CredentialRow, TypeOK
<1> QED BY <1>3, <1>4, <1>5 DEF Dead

Busy == {"stored", "reading", "deleting", "deleted"}

(* What a step of Access does to a request: it is no concern of the        *)
(* attachments.                                                            *)
LEMMA AccessQuiet ==
  ASSUME TypeOK, AccessNext, NEW q \in Request
  PROVE  \/ request'[q] = request[q]
         \/ /\ request[q].phase \notin Busy /\ request'[q].phase \notin Busy
            /\ request'[q].attachment \in {request[q].attachment, None}
<1> USE DEF TypeOK
<1>1. ASSUME NEW r \in Request, Ends(r), request[r].phase \notin Busy
      PROVE \/ request'[q] = request[q]
            \/ /\ request[q].phase \notin Busy /\ request'[q].phase \notin Busy
               /\ request'[q].attachment \in {request[q].attachment, None}
  BY <1>1 DEF Ends, Idle, Busy
<1>2. ASSUME NEW r \in Request, request[r].phase \notin Busy, NEW p, p \notin Busy, Continues(r, p)
      PROVE \/ request'[q] = request[q]
            \/ /\ request[q].phase \notin Busy /\ request'[q].phase \notin Busy
               /\ request'[q].attachment \in {request[q].attachment, None}
  BY <1>2 DEF Continues, RequestState
<1>3. CASE Tick \/ \E k \in Credential : Logout(k)
  BY <1>3 DEF Tick, Logout
<1>4. ASSUME NEW r \in Request, AccessStep(r)
      PROVE \/ request'[q] = request[q]
            \/ /\ request[q].phase \notin Busy /\ request'[q].phase \notin Busy
               /\ request'[q].attachment \in {request[q].attachment, None}
  <2>1. CASE \E u \in User : LoginVerified(r, u)
    BY <2>1 DEF LoginVerified, Idle, RequestState, Busy
  <2>2. CASE \E k \in Credential : Arrive(r, k)
    BY <2>2 DEF Arrive, Idle, RequestState, Busy
  <2>3. CASE LoginPurges(r) \/ Identify(r)
    BY <2>3, <1>2 DEF LoginPurges, Identify, Busy
  <2>4. CASE \/ LoginStarts(r) \/ Refuse(r) \/ CreateApiToken(r) \/ Respond(r)
             \/ \E u \in User : RevokeUserSessions(r, u)
             \/ \E k \in Credential : RevokeApiToken(r, k)
    BY <2>4, <1>1 DEF LoginStarts, Refuse, CreateApiToken, Respond, RevokeUserSessions,
                      RevokeApiToken, ActingAdmin, Acting, Busy
  <2> QED BY <1>4, <2>1, <2>2, <2>3, <2>4 DEF AccessStep
<1> QED BY <1>3, <1>4 DEF AccessNext

-----------------------------------------------------------------------------
LEMMA IdentityStep == TypeOK /\ IdentityInv /\ [Next]_vars => IdentityInv'
<1> SUFFICES ASSUME TypeOK, IdentityInv, [Next]_vars, NEW q \in Request
             PROVE  /\ request'[q].phase # "idle" => request'[q].user \in User
                    /\ request'[q].phase \in Busy => request'[q].attachment \in Attachment
                    /\ request'[q].phase = "arrived" =>
                         \E k \in Credential : /\ k = request'[q].credential
                                               /\ credential'[k] # Unissued
                                               /\ request'[q].dead => Dead(k)'
  BY DEF IdentityInv, Busy, Dead, Expired, Expires
<1> DEFINE Good == /\ request'[q].phase # "idle" => request'[q].user \in User
                   /\ request'[q].phase \in Busy => request'[q].attachment \in Attachment
                   /\ request'[q].phase = "arrived" =>
                        \E k \in Credential : /\ k = request'[q].credential
                                              /\ credential'[k] # Unissued
                                              /\ request'[q].dead => Dead(k)'
<1>1. ASSUME request'[q] = request[q] PROVE Good
  <2>1. CASE request[q].phase = "arrived"
    <3>1. PICK k \in Credential : /\ k = request[q].credential
                                  /\ credential[k] # Unissued
                                  /\ request[q].dead => Dead(k)
      BY <2>1 DEF IdentityInv
    <3>2. credential'[k] # Unissued /\ (request[q].dead => Dead(k)')
      BY <3>1, CredentialsPersist
    <3> QED BY <1>1, <2>1, <3>1, <3>2 DEF IdentityInv, Busy
  <2> QED BY <1>1, <2>1 DEF IdentityInv, Busy
<1>2. ASSUME NEW r \in Request, Ends(r) PROVE Good
  <2>1. CASE q = r
    BY <1>2, <2>1 DEF Ends, Idle, TypeOK, Busy
  <2> QED BY <1>1, <1>2, <2>1 DEF Ends, TypeOK
<1>3. ASSUME NEW r \in Request, NEW p \in {"purged", "acting", "deleted"}, Continues(r, p),
             request[r].phase # "idle",
             p = "deleted" => request[r].phase \in Busy
      PROVE Good
  <2>1. CASE q = r
    <3>1. request'[r].phase = p /\ request'[r].user = request[r].user
            /\ request'[r].attachment = request[r].attachment
      BY <1>3 DEF Continues, TypeOK, RequestState
    <3> QED BY <1>3, <2>1, <3>1 DEF IdentityInv, Busy
  <2> QED BY <1>1, <1>3, <2>1 DEF Continues, TypeOK
<1>4. ASSUME NEW r \in Request, NEW p \in Busy, NEW a \in Attachment, Begins(r, p, a)
      PROVE Good
  <2>1. CASE q = r
    <3>1. request'[r].phase = p /\ request'[r].user = request[r].user /\ request'[r].attachment = a
      BY <1>4 DEF Begins, TypeOK, RequestState
    <3> QED BY <1>4, <2>1, <3>1 DEF IdentityInv, Begins, Acting, Busy
  <2> QED BY <1>1, <1>4, <2>1 DEF Begins, TypeOK
<1>5. CASE UNCHANGED request
  BY <1>1, <1>5
<1>6. ASSUME NEW r \in Request, NEW u \in User, LoginVerified(r, u) PROVE Good
  <2>1. CASE q = r
    <3>1. request'[r].phase = "verified" /\ request'[r].user = u
      BY <1>6 DEF LoginVerified, TypeOK, RequestState
    <3> QED BY <2>1, <3>1 DEF Busy
  <2> QED BY <1>1, <1>6, <2>1 DEF LoginVerified, TypeOK
<1>7. ASSUME NEW r \in Request, NEW k \in Credential, Arrive(r, k) PROVE Good
  <2>1. CASE q = r
    <3>1. /\ request'[r].phase = "arrived" /\ request'[r].credential = k
          /\ request'[r].user = credential[k].user /\ request'[r].dead = Dead(k)
      BY <1>7 DEF Arrive, TypeOK, RequestState
    <3>2. credential[k].user \in User
      BY <1>7 DEF Arrive, TypeOK, CredentialRow
    <3>3. credential'[k] # Unissued /\ (Dead(k) => Dead(k)')
      BY <1>7, CredentialsPersist DEF Arrive
    <3> QED BY <2>1, <3>1, <3>2, <3>3 DEF Busy
  <2> QED BY <1>1, <1>7, <2>1 DEF Arrive, TypeOK
<1>8. CASE AccessNext
  <2>1. CASE Tick \/ \E k \in Credential : Logout(k)
    BY <1>5, <2>1 DEF Tick, Logout
  <2>2. ASSUME NEW r \in Request, AccessStep(r) PROVE Good
    <3>1. CASE LoginPurges(r) \/ Identify(r)
      BY <1>3, <3>1 DEF LoginPurges, Identify
    <3>2. CASE \/ LoginStarts(r) \/ Refuse(r) \/ CreateApiToken(r) \/ Respond(r)
               \/ \E u \in User : RevokeUserSessions(r, u)
               \/ \E k \in Credential : RevokeApiToken(r, k)
      BY <1>2, <3>2 DEF LoginStarts, Refuse, CreateApiToken, Respond, RevokeUserSessions,
                        RevokeApiToken
    <3> QED BY <1>6, <1>7, <2>2, <3>1, <3>2 DEF AccessStep
  <2> QED BY <1>8, <2>1, <2>2 DEF AccessNext
<1>9. ASSUME NEW r \in Request, AttachmentStep(r) PROVE Good
  <2>1. ASSUME NEW a \in Attachment, UploadFile(r, a) \/ ReadRow(r, a) \/ DeleteRead(r, a)
        PROVE Good
    BY <1>4, <2>1 DEF UploadFile, ReadRow, DeleteRead, Busy
  <2>2. CASE DeleteFile(r)
    BY <1>3, <2>2 DEF DeleteFile, Busy
  <2>3. CASE UploadRow(r) \/ ReadFile(r) \/ DeleteRow(r) \/ Fail(r)
    BY <1>2, <2>3 DEF UploadRow, ReadFile, DeleteRow, Fail
  <2> QED BY <1>9, <2>1, <2>2, <2>3 DEF AttachmentStep
<1>10. CASE UNCHANGED vars
  BY <1>5, <1>10 DEF vars, accessVars
<1> QED BY <1>8, <1>9, <1>10 DEF Next

(* A dead credential is not Live: Identify takes no dead request along. *)
LEMMA ActsStep ==
  TypeOK /\ IdentityInv /\ ActsByLiveCredential /\ [Next]_vars => ActsByLiveCredential'
<1> SUFFICES ASSUME TypeOK, IdentityInv, ActsByLiveCredential, [Next]_vars, NEW q \in Request,
                    request'[q].phase \notin {"idle", "verified", "purged", "arrived"}
             PROVE  ~request'[q].dead
  BY DEF ActsByLiveCredential
<1>1. ASSUME request'[q] = request[q] PROVE ~request'[q].dead
  BY <1>1 DEF ActsByLiveCredential
<1>2. ASSUME NEW r \in Request, Ends(r) PROVE ~request'[q].dead
  BY <1>1, <1>2 DEF Ends, Idle, TypeOK
<1>3. ASSUME NEW r \in Request, NEW p, NEW a, Begins(r, p, a) PROVE ~request'[q].dead
  <2>1. CASE q = r
    <3>1. request'[q].dead = request[q].dead
      BY <1>3, <2>1 DEF Begins, TypeOK, RequestState
    <3> QED BY <1>3, <2>1, <3>1 DEF Begins, Acting, ActsByLiveCredential
  <2> QED BY <1>1, <1>3, <2>1 DEF Begins, TypeOK
<1>4. CASE AccessNext
  <2>1. CASE Tick \/ \E k \in Credential : Logout(k)
    BY <1>1, <2>1 DEF Tick, Logout
  <2>2. ASSUME NEW r \in Request, AccessStep(r) PROVE ~request'[q].dead
    <3>1. CASE Identify(r)
      <4>1. CASE q = r
        <5>1. request'[q].dead = request[q].dead /\ request[q].phase = "arrived"
          BY <3>1, <4>1 DEF Identify, Continues, TypeOK, RequestState
        <5>2. ~Dead(request[q].credential)
          <6> DEFINE k == request[q].credential
          <6>1. k \in Credential /\ credential[k] \in CredentialRow
            BY <5>1 DEF IdentityInv, TypeOK
          <6>2. Live(k)
            BY <3>1, <4>1 DEF Identify
          <6>3. ~Expired(k)
            BY <6>1, <6>2, AccessAssumption DEF Live, Expired, Expires, CredentialRow, TypeOK
          <6> QED BY <6>2, <6>3 DEF Live, Dead
        <5> QED BY <5>1, <5>2 DEF IdentityInv
      <4> QED BY <1>1, <3>1, <4>1 DEF Identify, Continues, TypeOK
    <3>2. CASE LoginPurges(r)
      <4>1. CASE q = r
        BY <3>2, <4>1 DEF LoginPurges, Continues, TypeOK, RequestState
      <4> QED BY <1>1, <3>2, <4>1 DEF LoginPurges, Continues, TypeOK
    <3>3. CASE \E u \in User : LoginVerified(r, u)
      <4>1. CASE q = r
        BY <3>3, <4>1 DEF LoginVerified, TypeOK, RequestState
      <4> QED BY <1>1, <3>3, <4>1 DEF LoginVerified, TypeOK
    <3>4. CASE \E k \in Credential : Arrive(r, k)
      <4>1. CASE q = r
        BY <3>4, <4>1 DEF Arrive, TypeOK, RequestState
      <4> QED BY <1>1, <3>4, <4>1 DEF Arrive, TypeOK
    <3>5. CASE \/ LoginStarts(r) \/ Refuse(r) \/ CreateApiToken(r) \/ Respond(r)
               \/ \E u \in User : RevokeUserSessions(r, u)
               \/ \E k \in Credential : RevokeApiToken(r, k)
      BY <1>2, <3>5 DEF LoginStarts, Refuse, CreateApiToken, Respond, RevokeUserSessions,
                        RevokeApiToken
    <3> QED BY <2>2, <3>1, <3>2, <3>3, <3>4, <3>5 DEF AccessStep
  <2> QED BY <1>4, <2>1, <2>2 DEF AccessNext
<1>5. ASSUME NEW r \in Request, AttachmentStep(r) PROVE ~request'[q].dead
  <2>1. CASE DeleteFile(r)
    <3>1. CASE q = r
      <4>1. request'[q].dead = request[q].dead
        BY <2>1, <3>1 DEF DeleteFile, Continues, TypeOK, RequestState
      <4> QED BY <2>1, <3>1, <4>1 DEF DeleteFile, ActsByLiveCredential
    <3> QED BY <1>1, <2>1, <3>1 DEF DeleteFile, Continues, TypeOK
  <2>2. CASE UploadRow(r) \/ ReadFile(r) \/ DeleteRow(r) \/ Fail(r)
    BY <1>2, <2>2 DEF UploadRow, ReadFile, DeleteRow, Fail
  <2>3. CASE \E a \in Attachment : UploadFile(r, a) \/ ReadRow(r, a) \/ DeleteRead(r, a)
    BY <1>3, <2>3 DEF UploadFile, ReadRow, DeleteRead
  <2> QED BY <1>5, <2>1, <2>2, <2>3 DEF AttachmentStep
<1>6. CASE UNCHANGED vars
  BY <1>1, <1>6 DEF vars, accessVars
<1> QED BY <1>4, <1>5, <1>6 DEF Next

LEMMA PurgedStep == TypeOK /\ PurgedInv /\ [Next]_vars => PurgedInv'
<1> SUFFICES ASSUME TypeOK, PurgedInv, [Next]_vars, NEW k \in Credential, credential'[k].purged
             PROVE  Expired(k)'
  BY DEF PurgedInv
<1>1. Evolves(k)
  BY CredentialEvolves
<1>2. CASE credential[k] = Unissued
  <2>1. k \notin Stale /\ ~credential[k].purged
    BY <1>2 DEF Unissued, Stale, Sessions
  <2>2. [credential[k] EXCEPT !.revoked = TRUE].purged = FALSE
    BY <1>2 DEF Unissued
  <2>3. \A u, kind : Issued(kind, u).purged = FALSE
    BY DEF Issued
  <2> QED BY <1>1, <2>1, <2>2, <2>3 DEF Evolves
<1>3. CASE credential[k] # Unissued
  <2>1. credential[k] \in CredentialRow
    BY <1>3 DEF TypeOK
  <2>2. credential[k].purged \/ k \in Stale
    BY <1>1, <1>3, <2>1 DEF Evolves, CredentialRow
  <2>3. Expired(k)
    BY <2>1, <2>2, AccessAssumption
       DEF PurgedInv, Stale, Sessions, Expired, Expires, CredentialRow, TypeOK
  <2> QED BY <1>3, <2>3, CredentialsPersist
<1> QED BY <1>2, <1>3

-----------------------------------------------------------------------------
(* What a step on request r makes of the requests. *)
LEMMA EndsResult ==
  ASSUME TypeOK, NEW r \in Request, Ends(r)
  PROVE  /\ request'[r].phase = "idle" /\ request'[r].attachment = None
         /\ \A o \in Request \ {r} : request'[o] = request[o]
BY DEF Ends, Idle, TypeOK

LEMMA BeginsResult ==
  ASSUME TypeOK, NEW r \in Request, NEW p, NEW a, Begins(r, p, a)
  PROVE  /\ request'[r].phase = p /\ request'[r].attachment = a
         /\ \A o \in Request \ {r} : request'[o] = request[o]
BY DEF Begins, TypeOK, RequestState

LEMMA ContinuesResult ==
  ASSUME TypeOK, NEW r \in Request, NEW p, Continues(r, p)
  PROVE  /\ request'[r].phase = p /\ request'[r].attachment = request[r].attachment
         /\ \A o \in Request \ {r} : request'[o] = request[o]
BY DEF Continues, TypeOK, RequestState

LEMMA HeldStep == TypeOK /\ IdentityInv /\ HeldInv /\ [Next]_vars => HeldInv'
<1> SUFFICES ASSUME TypeOK, IdentityInv, HeldInv, [Next]_vars PROVE HeldInv'
  OBVIOUS
<1>1. CASE AccessNext /\ UNCHANGED attachmentVars
  <2>1. ASSUME NEW q \in Request, request'[q].phase \in {"stored", "deleted"}
        PROVE request'[q] = request[q]
    BY <1>1, <2>1, AccessQuiet DEF Busy
  <2>2. ASSUME NEW q \in Request
        PROVE request'[q].attachment \in {request[q].attachment, None}
    BY <1>1, AccessQuiet
  <2>3. UNCHANGED <<file, uploader>>
    BY <1>1 DEF attachmentVars
  <2>4. ASSUME NEW q \in Request, request[q].phase = "stored" PROVE request[q].attachment # None
    BY <2>4, AttachmentAssumption DEF IdentityInv
  <2> QED BY <2>1, <2>2, <2>3, <2>4 DEF HeldInv
<1>2. ASSUME NEW r \in Request, NEW a \in Attachment, UploadFile(r, a) PROVE HeldInv'
  <2>1. /\ request'[r].phase = "stored" /\ request'[r].attachment = a
        /\ \A o \in Request \ {r} : request'[o] = request[o]
    BY <1>2, BeginsResult DEF UploadFile
  <2>2. /\ \A o \in Request : request[o].attachment # a
        /\ file' = file \cup {a} /\ uploader' = uploader /\ uploader[a] = None
    BY <1>2 DEF UploadFile, Put
  <2> QED BY <2>1, <2>2 DEF HeldInv
<1>3. ASSUME NEW r \in Request, NEW a \in Attachment, ReadRow(r, a) \/ DeleteRead(r, a)
      PROVE HeldInv'
  <2>1. /\ request'[r].phase \in {"reading", "deleting"} /\ request'[r].attachment = a
        /\ \A o \in Request \ {r} : request'[o] = request[o]
    BY <1>3, BeginsResult DEF ReadRow, DeleteRead
  <2>2. UNCHANGED <<file, uploader>> /\ uploader[a] # None
    BY <1>3 DEF ReadRow, DeleteRead, attachmentVars
  <2> QED BY <2>1, <2>2 DEF HeldInv
<1>4. ASSUME NEW r \in Request, Ends(r), file' = file,
             \A q \in Request \ {r} :
               request[q].phase = "stored" =>
                 uploader'[request[q].attachment] = uploader[request[q].attachment]
      PROVE HeldInv'
  <2>1. /\ request'[r].phase = "idle" /\ request'[r].attachment = None
        /\ \A o \in Request \ {r} : request'[o] = request[o]
    BY <1>4, EndsResult
  <2>2. ASSUME NEW q \in Request, request[q].phase = "stored" PROVE request[q].attachment # None
    BY <2>2, AttachmentAssumption DEF IdentityInv
  <2> QED BY <1>4, <2>1, <2>2 DEF HeldInv
<1>5. ASSUME NEW r \in Request, UploadRow(r) \/ DeleteRow(r) PROVE HeldInv'
  <2>1. Ends(r) /\ file' = file /\ request[r].attachment \in Attachment
    BY <1>5 DEF UploadRow, DeleteRow, IdentityInv
  <2>2. ASSUME NEW q \in Request \ {r}, request[q].phase = "stored"
        PROVE uploader'[request[q].attachment] = uploader[request[q].attachment]
    <3>1. request[r].attachment # request[q].attachment /\ request[q].attachment \in Attachment
      BY <2>2 DEF HeldInv, IdentityInv
    <3> QED BY <1>5, <3>1 DEF UploadRow, DeleteRow, TypeOK
  <2> QED BY <1>4, <2>1, <2>2
<1>6. ASSUME NEW r \in Request, ReadFile(r) \/ Fail(r) PROVE HeldInv'
  BY <1>4, <1>6 DEF ReadFile, Fail, attachmentVars
<1>7. ASSUME NEW r \in Request, DeleteFile(r) PROVE HeldInv'
  <2>1. /\ request'[r].phase = "deleted" /\ request'[r].attachment = request[r].attachment
        /\ \A o \in Request \ {r} : request'[o] = request[o]
    BY <1>7, ContinuesResult DEF DeleteFile
  <2>2. /\ request[r].phase = "deleting" /\ file' = file \ {request[r].attachment}
        /\ uploader' = uploader
    BY <1>7 DEF DeleteFile
  <2> QED BY <2>1, <2>2 DEF HeldInv
<1>8. CASE UNCHANGED vars
  BY <1>8 DEF vars, accessVars, attachmentVars, HeldInv
<1> QED BY <1>1, <1>2, <1>3, <1>5, <1>6, <1>7, <1>8 DEF Next, AttachmentStep

LEMMA FilesStep == TypeOK /\ IdentityInv /\ HeldInv /\ FilesInv /\ [Next]_vars => FilesInv'
<1> SUFFICES ASSUME TypeOK, IdentityInv, HeldInv, FilesInv, [Next]_vars PROVE FilesInv'
  OBVIOUS
<1>1. CASE AccessNext /\ UNCHANGED attachmentVars
  <2>1. ASSUME NEW q \in Request, request[q].phase \in {"stored", "deleted"}
        PROVE request'[q] = request[q]
    BY <1>1, <2>1, AccessQuiet DEF Busy
  <2>2. UNCHANGED <<file, uploader, torn>>
    BY <1>1 DEF attachmentVars
  <2> QED BY <2>1, <2>2 DEF FilesInv
<1>2. ASSUME NEW r \in Request, NEW a \in Attachment,
             UploadFile(r, a) \/ ReadRow(r, a) \/ DeleteRead(r, a)
      PROVE FilesInv'
  <2>1. request[r].phase = "acting"
    BY <1>2 DEF UploadFile, ReadRow, DeleteRead, Begins, Acting
  <2>2. \A o \in Request \ {r} : request'[o] = request[o]
    BY <1>2, BeginsResult DEF UploadFile, ReadRow, DeleteRead
  <2>3. CASE UploadFile(r, a)
    <3>1. request'[r].phase = "stored" /\ request'[r].attachment = a
      BY <2>3, BeginsResult DEF UploadFile
    <3>2. file' = file \cup {a} /\ UNCHANGED <<uploader, torn>> /\ uploader[a] = None
      BY <2>3 DEF UploadFile, Put
    <3> QED BY <2>1, <2>2, <3>1, <3>2 DEF FilesInv
  <2>4. CASE UNCHANGED <<file, uploader, torn>>
    BY <2>1, <2>2, <2>4 DEF FilesInv
  <2> QED BY <1>2, <2>3, <2>4 DEF ReadRow, DeleteRead, attachmentVars
<1>3. ASSUME NEW r \in Request, UploadRow(r) \/ DeleteRow(r) PROVE FilesInv'
  <2>1. \A o \in Request \ {r} : request'[o] = request[o]
    BY <1>3, EndsResult DEF UploadRow, DeleteRow
  <2>2. UNCHANGED <<file, torn>> /\ request[r].attachment \in Attachment /\ request[r].user \in User
    BY <1>3 DEF UploadRow, DeleteRow, IdentityInv
  <2>3. CASE UploadRow(r)
    <3>1. request[r].attachment \in file /\ request[r].phase = "stored"
      BY <2>3 DEF UploadRow, HeldInv
    <3>2. uploader' = [uploader EXCEPT ![request[r].attachment] = request[r].user]
      BY <2>3 DEF UploadRow
    <3> QED BY <2>1, <2>2, <3>1, <3>2, AccessAssumption DEF FilesInv, TypeOK
  <2>4. CASE DeleteRow(r)
    <3>1. request[r].attachment \notin file /\ request[r].phase = "deleted"
      BY <2>4 DEF DeleteRow, HeldInv
    <3>2. uploader' = [uploader EXCEPT ![request[r].attachment] = None]
      BY <2>4 DEF DeleteRow
    <3> QED BY <2>1, <2>2, <3>1, <3>2 DEF FilesInv, TypeOK
  <2> QED BY <1>3, <2>3, <2>4
<1>4. ASSUME NEW r \in Request, ReadFile(r) \/ Fail(r) PROVE FilesInv'
  <2>1. \A o \in Request \ {r} : request'[o] = request[o]
    BY <1>4, EndsResult DEF ReadFile, Fail
  <2>2. UNCHANGED <<file, uploader>> /\ torn \subseteq torn'
    BY <1>4 DEF ReadFile, Fail, attachmentVars
  <2>3. request[r].phase \in {"stored", "deleted"} => request[r].attachment \in torn'
    BY <1>4 DEF ReadFile, Fail
  <2> QED BY <2>1, <2>2, <2>3 DEF FilesInv
<1>5. ASSUME NEW r \in Request, DeleteFile(r) PROVE FilesInv'
  <2>1. /\ request'[r].phase = "deleted" /\ request'[r].attachment = request[r].attachment
        /\ \A o \in Request \ {r} : request'[o] = request[o]
    BY <1>5, ContinuesResult DEF DeleteFile
  <2>2. /\ request[r].phase = "deleting" /\ file' = file \ {request[r].attachment}
        /\ UNCHANGED <<uploader, torn>>
    BY <1>5 DEF DeleteFile
  <2> QED BY <2>1, <2>2 DEF FilesInv
<1>6. CASE UNCHANGED vars
  BY <1>6 DEF vars, accessVars, attachmentVars, FilesInv
<1> QED BY <1>1, <1>2, <1>3, <1>4, <1>5, <1>6 DEF Next, AttachmentStep

-----------------------------------------------------------------------------
LEMMA InitIInv == Init => IInv
<1> SUFFICES ASSUME Init PROVE IInv
  OBVIOUS
<1>1. TypeOK
  BY DEF Init, AccessInit, TypeOK, Idle, RequestState, Phases
<1>2. \A r \in Request : request[r] = Idle
  BY DEF Init, AccessInit
<1>3. IdentityInv /\ ActsByLiveCredential /\ HeldInv
  BY <1>2 DEF Idle, IdentityInv, ActsByLiveCredential, HeldInv
<1>5. PurgedInv
  BY DEF Init, AccessInit, Unissued, PurgedInv
<1>4. FilesInv
  BY DEF Init, FilesInv
<1> QED BY <1>1, <1>3, <1>4, <1>5 DEF IInv

LEMMA FilesInvImplies == TypeOK /\ FilesInv => FilesMatchRows
BY DEF TypeOK, FilesInv, FilesMatchRows, InHand

(* The strengthened invariant holds in every reachable state. *)
THEOREM Invariance == Spec => []IInv
<1>1. IInv /\ [Next]_vars => IInv'
  BY TypeStep, IdentityStep, ActsStep, PurgedStep, HeldStep, FilesStep DEF IInv
<1> QED BY InitIInv, <1>1, PTL DEF Spec

(* For any number of users, credentials, requests and attachments and any  *)
(* faults: no request acts by a credential that was dead before it arrived *)
(* (sessions.ts:41-58, api-tokens.ts:63).                                  *)
THEOREM OnlyLiveCredentialsAct == Spec => []ActsByLiveCredential
<1>1. IInv => ActsByLiveCredential
  BY DEF IInv
<1> QED BY Invariance, <1>1, PTL

(* Likewise: files and rows differ only by the requests in between and by  *)
(* what failed requests left (attachments.ts:90-92, 134-135).              *)
THEOREM FilesAlwaysMatchRows == Spec => []FilesMatchRows
<1>1. IInv => FilesMatchRows
  BY FilesInvImplies DEF IInv
<1> QED BY Invariance, <1>1, PTL

(* A request is refused only if its credential was revoked or has expired: *)
(* log-ins that purge old sessions take nobody's (sessions.ts:60-67).      *)
THEOREM RefusalsAreDeserved == Spec => RefusedOnlyWhenDead
<1>1. ASSUME IInv, NEW r \in Request, Refuse(r) PROVE Dead(request[r].credential)
  <2> DEFINE k == request[r].credential
  <2>1. k \in Credential /\ credential[k] \in CredentialRow
    BY <1>1 DEF IInv, TypeOK, IdentityInv, Refuse
  <2>2. ~Live(k) /\ (credential[k].purged => Expired(k))
    BY <1>1, <2>1 DEF IInv, PurgedInv, Refuse
  <2> QED BY <2>1, <2>2, <1>1, AccessAssumption
          DEF Live, Dead, Expired, Expires, Sessions, CredentialRow, IInv, TypeOK
<1>2. IInv => [\A r \in Request : Refuse(r) => Dead(request[r].credential)]_accessVars
  BY <1>1
<1> QED BY Invariance, <1>2, PTL DEF RefusedOnlyWhenDead
=============================================================================
