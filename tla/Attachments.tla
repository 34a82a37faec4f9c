----------------------------- MODULE Attachments -----------------------------
(***************************************************************************)
(* Attachments (src/lib/services/attachments.ts) and the file store behind *)
(* them (src/lib/storage/file-store.ts), served to the requests of Access. *)
(*                                                                         *)
(* A file and its row are written and deleted one after the other, outside *)
(* any transaction; a request may fail between two steps.  Every upload    *)
(* has a storage key of its own, which stands for the attachment here.     *)
(***************************************************************************)
EXTENDS Access

CONSTANTS Attachment,
          MaxFaults          \* bound on the requests that fail

ASSUME AttachmentAssumption == None \notin Attachment

VARIABLES
  file,       \* keys in the file store
  uploader,   \* attachments rows: the uploader, None where there is no row
  faults,
  torn        \* history: attachments of which a request failed half-way

attachmentVars == <<file, uploader, faults, torn>>
vars == <<accessVars, attachmentVars>>

Init ==
  /\ AccessInit
  /\ file = {} /\ uploader = [a \in Attachment |-> None]
  /\ faults = 0 /\ torn = {}

(* The attachments requests in a phase have in hand. *)
InHand(phase) == {request[r].attachment : r \in {o \in Request : request[o].phase = phase}}
Begins(r, phase, a) ==
  Acting(r) /\ request' = [request EXCEPT ![r].phase = phase, ![r].attachment = a]

-----------------------------------------------------------------------------
(* uploadAttachment *)

(* Mutant of Put: a failed write goes unnoticed. *)
PutUnnoticed(a) == file
Put(a) == file \cup {a}

UploadFile(r, a) ==
  /\ Begins(r, "stored", a)
  /\ a \notin file \cup torn /\ uploader[a] = None
  /\ \A o \in Request : request[o].attachment # a
  /\ file' = Put(a)
  /\ UNCHANGED <<credential, now, uploader, faults, torn>>

UploadRow(r) ==
  /\ request[r].phase = "stored"
  /\ uploader' = [uploader EXCEPT ![request[r].attachment] = request[r].user]
  /\ Ends(r) /\ UNCHANGED <<credential, now, file, faults, torn>>

-----------------------------------------------------------------------------
(* getAttachmentContent *)

ReadRow(r, a) ==
  /\ Begins(r, "reading", a) /\ uploader[a] # None
  /\ UNCHANGED <<credential, now, attachmentVars>>

(* The content, or an error when the file is gone. *)
ReadFile(r) ==
  /\ request[r].phase = "reading"
  /\ Ends(r) /\ UNCHANGED <<credential, now, attachmentVars>>

-----------------------------------------------------------------------------
(* deleteAttachment *)

MayDelete(u, a) == uploader[a] = u \/ u \in Admin

DeleteRead(r, a) ==
  /\ Begins(r, "deleting", a)
  /\ uploader[a] # None /\ MayDelete(request[r].user, a)
  /\ UNCHANGED <<credential, now, attachmentVars>>

(* A file that is gone already is no error. *)
DeleteFile(r) ==
  /\ request[r].phase = "deleting"
  /\ file' = file \ {request[r].attachment}
  /\ Continues(r, "deleted")
  /\ UNCHANGED <<credential, now, uploader, faults, torn>>

DeleteRow(r) ==
  /\ request[r].phase = "deleted"
  /\ uploader' = [uploader EXCEPT ![request[r].attachment] = None]
  /\ Ends(r) /\ UNCHANGED <<credential, now, file, faults, torn>>

(* The disk, the database or the server fails: the request ends here. *)
Fail(r) ==
  /\ request[r] # Idle /\ faults < MaxFaults
  /\ faults' = faults + 1
  /\ torn' = IF request[r].phase \in {"stored", "deleted"}
             THEN torn \cup {request[r].attachment} ELSE torn
  /\ Ends(r) /\ UNCHANGED <<credential, now, file, uploader>>

AttachmentStep(r) ==
  \/ \E a \in Attachment : UploadFile(r, a) \/ ReadRow(r, a) \/ DeleteRead(r, a)
  \/ UploadRow(r) \/ ReadFile(r) \/ DeleteFile(r) \/ DeleteRow(r) \/ Fail(r)

Next ==
  \/ AccessNext /\ UNCHANGED attachmentVars
  \/ \E r \in Request : AttachmentStep(r)

Spec == Init /\ [][Next]_vars

-----------------------------------------------------------------------------
(* Properties *)

(* Files and rows are the same attachments, but for the upload that has    *)
(* not written its row, the deletion that has not removed it, and what a   *)
(* request that failed at that very point left behind                      *)
(* (attachments.ts:90-92, 134-135).                                        *)
FilesMatchRows ==
  LET rows == {a \in Attachment : uploader[a] # None} IN
  /\ file \ rows \subseteq InHand("stored") \cup torn
  /\ rows \ file \subseteq InHand("deleted") \cup torn
=============================================================================
