---------------------------- MODULE Attachments -----------------------------
(***************************************************************************)
(* Documents of a lead: rows in Postgres, bytes in object storage, and no  *)
(* transaction over both (lead-attachments.ts, attachments/cleanup.ts,     *)
(* deleteLead and deleteContact, the upload of lead-files-panel.tsx).  One *)
(* lead; f is a document, p a request being served.  The browser sends the *)
(* bytes to the storage itself, between two requests.                      *)
(***************************************************************************)
EXTENDS Naturals, FiniteSets

CONSTANTS
  Files, Servings,   \* documents, requests
  FileLimit,         \* MAX_ATTACHMENTS_PER_LEAD
  NoFile,
  MaxFaults          \* bounds the storage's failures and the requests cut off

ASSUME AttachmentConstants ==
  FileLimit \in Nat \ {0} /\ MaxFaults \in Nat /\ NoFile \notin Files

VARIABLES
  row,         \* [Files -> Attachment.status, or "none" before and "gone" after it]
  object,      \* [Files -> "missing", "whole", or "broken" when it is not what was announced]
  overdue,     \* documents PENDING for longer than an hour
  leadExists,
  tab,         \* [Files -> what the page uploading it does]
  serving,     \* [Servings -> next statement]
  file,        \* [Servings -> the document it is about]
  keys,        \* [Servings -> documents it has still to go through]
  failed,      \* [Servings -> those whose removal failed]
  orphaned,    \* keys in the audit log, ATTACHMENT_STORAGE_ORPHANED
  \* history
  crossed,     \* documents verified and discarded by two requests at once
  halfDeleted, \* documents whose deletion stopped between its two statements
  stray,       \* objects left behind: by a removal whose failure is ignored, by a request
               \* cut off, by bytes or a row that came after the deletion had begun
  faults

attachmentRows == <<row, object, overdue, leadExists>>
attachmentWork == <<serving, file, keys, failed>>
attachmentHistory == <<crossed, halfDeleted, stray>>
attachmentVars == <<attachmentRows, tab, attachmentWork, orphaned, attachmentHistory, faults>>

Present == {f \in Files : row[f] \in {"PENDING", "READY"}}
Serve(p, label) == serving' = [serving EXCEPT ![p] = label]

Take(p, label, f) == Serve(p, label) /\ file' = [file EXCEPT ![p] = f] /\ UNCHANGED <<keys, failed>>

Served(p) ==
  /\ Serve(p, "idle") /\ file' = [file EXCEPT ![p] = NoFile]
  /\ keys' = [keys EXCEPT ![p] = {}] /\ failed' = [failed EXCEPT ![p] = {}]

Goes(p, label) == Serve(p, label) /\ UNCHANGED <<file, keys, failed>>
Fault == faults < MaxFaults /\ faults' = faults + 1

\* Requests about to set f READY, and requests about to discard it as PENDING.
Verified(f) == \E p \in Servings : file[p] = f /\ serving[p] = "ready"
Discarded(f) ==
  \E p \in Servings :
    \/ file[p] = f /\ serving[p] \in {"discard", "deletePending", "unrow"}
    \/ f \in keys[p] /\ serving[p] \in {"sweep", "unrow"}

CollectsKeys == \E p \in Servings : serving[p] \in {"deleteLead", "purge"}
-----------------------------------------------------------------------------
(* Uploading *)

\* requestLeadAttachmentUpload reads the lead and the number of its documents ...
RequestUpload(p, f) ==
  /\ serving[p] = "idle" /\ row[f] = "none" /\ tab[f] = "idle"
  /\ leadExists /\ Cardinality(Present) < FileLimit
  /\ tab' = [tab EXCEPT ![f] = "preparing"]
  /\ Take(p, "create", f)
  /\ UNCHANGED <<attachmentRows, orphaned, attachmentHistory, faults>>

\* ... and adds a row, unless the lead has gone.
CreatePending(p) ==
  /\ serving[p] = "create"
  /\ IF leadExists
     THEN /\ row' = [row EXCEPT ![file[p]] = "PENDING"]
          /\ stray' = IF CollectsKeys THEN stray \cup {file[p]} ELSE stray
          /\ \/ tab' = [tab EXCEPT ![file[p]] = "uploading"] /\ Served(p) /\ UNCHANGED faults
             \/ Fault /\ Goes(p, "deletePending") /\ tab' = [tab EXCEPT ![file[p]] = "closed"]
     ELSE Served(p) /\ tab' = [tab EXCEPT ![file[p]] = "closed"] /\ UNCHANGED <<row, stray, faults>>
  /\ UNCHANGED <<object, overdue, leadExists, orphaned, crossed, halfDeleted>>

\* The address is valid for minutes, less than the hour.
Put(f, content) ==
  /\ tab[f] = "uploading" /\ f \notin overdue
  /\ object' = [object EXCEPT ![f] = content]
  /\ stray' = IF row[f] = "gone" \/ CollectsKeys \/ Discarded(f) THEN stray \cup {f} ELSE stray
  /\ \/ tab' = [tab EXCEPT ![f] = "verifying"] /\ UNCHANGED faults
     \/ Fault /\ tab' = [tab EXCEPT ![f] = "failed"]
  /\ UNCHANGED <<row, overdue, leadExists, attachmentWork, orphaned, crossed, halfDeleted>>

\* Canceled, refused, or never answered; a verification may go on behind it.
GivesUp(f) ==
  /\ tab[f] \in {"uploading", "verifying"} \/ (tab[f] = "answering" /\ \E p \in Servings : file[p] = f)
  /\ Fault
  /\ tab' = [tab EXCEPT ![f] = "failed"]
  /\ UNCHANGED <<attachmentRows, attachmentWork, orphaned, attachmentHistory>>

\* completeLeadAttachmentUpload
CompleteUpload(p, f) ==
  /\ serving[p] = "idle" /\ tab[f] = "verifying"
  /\ IF row[f] = "PENDING" THEN Take(p, "verify", f) /\ tab' = [tab EXCEPT ![f] = "answering"]
     ELSE UNCHANGED attachmentWork /\ tab' = [tab EXCEPT ![f] = IF row[f] = "READY" THEN "closed" ELSE "failed"]
  /\ UNCHANGED <<attachmentRows, orphaned, attachmentHistory, faults>>

\* What the page does with the answer, if it still waits for it.
Answer(f, state) == tab' = [tab EXCEPT ![f] = IF @ = "answering" THEN state ELSE @]

\* The object's size and first bytes; when the storage is down the row stays.
VerifyObject(p) ==
  /\ serving[p] = "verify"
  /\ \/ Goes(p, IF object[file[p]] = "whole" THEN "ready" ELSE "discard") /\ UNCHANGED <<tab, faults>>
     \/ Fault /\ Served(p) /\ Answer(file[p], "failed")
  /\ UNCHANGED <<attachmentRows, orphaned, attachmentHistory>>

MarkReady(p) ==
  LET f == file[p] IN
  /\ serving[p] = "ready"
  /\ row' = [row EXCEPT ![f] = IF @ = "PENDING" THEN "READY" ELSE @]
  /\ overdue' = overdue \ {f}
  /\ crossed' = IF Discarded(f) THEN crossed \cup {f} ELSE crossed
  /\ Answer(f, "closed") /\ Served(p)
  /\ UNCHANGED <<object, leadExists, orphaned, halfDeleted, stray, faults>>

\* abandonLeadAttachmentUpload
AbandonUpload(p, f) ==
  /\ serving[p] = "idle" /\ tab[f] = "failed"
  /\ tab' = [tab EXCEPT ![f] = "closed"]
  /\ IF row[f] = "PENDING" THEN Take(p, "discard", f) ELSE UNCHANGED attachmentWork
  /\ UNCHANGED <<attachmentRows, orphaned, attachmentHistory, faults>>

Drops(f) ==
  /\ object' = [object EXCEPT ![f] = "missing"] /\ stray' = stray \ {f}
  /\ crossed' = IF Verified(f) THEN crossed \cup {f} ELSE crossed

\* discardPending removes the object, ignoring a failure ...
DiscardObject(p) ==
  /\ serving[p] = "discard"
  /\ \/ Drops(file[p]) /\ UNCHANGED faults
     \/ Fault /\ stray' = stray \cup {file[p]} /\ UNCHANGED <<object, crossed>>
  /\ Goes(p, "deletePending")
  /\ UNCHANGED <<row, overdue, leadExists, tab, orphaned, halfDeleted>>

Unrow(f, statuses) ==
  /\ row' = [row EXCEPT ![f] = IF @ \in statuses THEN "gone" ELSE @]
  /\ overdue' = IF row[f] \in statuses THEN overdue \ {f} ELSE overdue

\* ... and then the row.
DeletePending(p) ==
  /\ serving[p] = "deletePending"
  /\ Unrow(file[p], {"PENDING"})
  /\ Answer(file[p], "failed") /\ Served(p)
  /\ UNCHANGED <<object, leadExists, orphaned, attachmentHistory, faults>>
-----------------------------------------------------------------------------
(* Deleting *)

HourPasses(f) ==
  /\ row[f] = "PENDING" /\ f \notin overdue
  /\ overdue' = overdue \cup {f}
  /\ UNCHANGED <<row, object, leadExists, tab, attachmentWork, orphaned, attachmentHistory, faults>>

\* sweepStalePendingAttachments; the row stays when its object does.
StartSweep(p) ==
  /\ serving[p] = "idle" /\ overdue # {}
  /\ keys' = [keys EXCEPT ![p] = overdue] /\ Serve(p, "sweep") /\ UNCHANGED <<file, failed>>
  /\ UNCHANGED <<attachmentRows, tab, orphaned, attachmentHistory, faults>>

SweepObject(p, f) ==
  /\ serving[p] = "sweep" /\ f \in keys[p]
  /\ keys' = [keys EXCEPT ![p] = @ \ {f}] /\ UNCHANGED failed
  /\ \/ Drops(f) /\ file' = [file EXCEPT ![p] = f] /\ Serve(p, "unrow") /\ UNCHANGED faults
     \/ Fault /\ UNCHANGED <<object, stray, crossed, file, serving>>
  /\ UNCHANGED <<row, overdue, leadExists, tab, orphaned, halfDeleted>>

SweepRow(p) ==
  /\ serving[p] = "unrow"
  /\ Unrow(file[p], {"PENDING"})
  /\ file' = [file EXCEPT ![p] = NoFile] /\ Serve(p, "sweep") /\ UNCHANGED <<keys, failed>>
  /\ UNCHANGED <<object, leadExists, tab, orphaned, attachmentHistory, faults>>

SweepEnds(p) ==
  /\ serving[p] = "sweep" /\ keys[p] = {}
  /\ Served(p)
  /\ UNCHANGED <<attachmentRows, tab, orphaned, attachmentHistory, faults>>

\* deleteLeadAttachment: object first, row second.
DeleteAttachment(p, f) ==
  /\ serving[p] = "idle" /\ row[f] = "READY"
  /\ Take(p, "remove", f)
  /\ UNCHANGED <<attachmentRows, tab, orphaned, attachmentHistory, faults>>

RemoveObject(p) ==
  LET f == file[p] IN
  /\ serving[p] = "remove"
  /\ \/ Drops(f) /\ halfDeleted' = halfDeleted \cup {f} /\ Goes(p, "deleteRow") /\ UNCHANGED faults
     \/ Fault /\ Served(p) /\ UNCHANGED <<object, stray, crossed, halfDeleted>>
  /\ UNCHANGED <<row, overdue, leadExists, tab, orphaned>>

DeleteRow(p) ==
  /\ serving[p] = "deleteRow"
  /\ Unrow(file[p], {"PENDING", "READY"})
  /\ halfDeleted' = halfDeleted \ {file[p]}
  /\ Served(p)
  /\ UNCHANGED <<object, leadExists, tab, orphaned, crossed, stray, faults>>

\* deleteLead, deleteContact: the keys first, then the rows by cascade, then the objects.
CollectKeys(p) ==
  /\ serving[p] = "idle" /\ leadExists
  /\ keys' = [keys EXCEPT ![p] = Present] /\ Serve(p, "deleteLead") /\ UNCHANGED <<file, failed>>
  /\ UNCHANGED <<attachmentRows, tab, orphaned, attachmentHistory, faults>>

DeleteLead(p) ==
  /\ serving[p] = "deleteLead"
  /\ IF leadExists THEN Goes(p, "purge") ELSE Served(p)  \* deleted by another request: throws
  /\ leadExists' = FALSE /\ overdue' = {}
  /\ row' = [f \in Files |-> IF f \in Present THEN "gone" ELSE row[f]]
  /\ halfDeleted' = {}
  /\ UNCHANGED <<object, tab, orphaned, crossed, stray, faults>>

PurgeObject(p, f) ==
  /\ serving[p] = "purge" /\ f \in keys[p]
  /\ keys' = [keys EXCEPT ![p] = @ \ {f}]
  /\ \/ Drops(f) /\ UNCHANGED <<failed, faults>>
     \/ Fault /\ failed' = [failed EXCEPT ![p] = @ \cup {f}] /\ UNCHANGED <<object, stray, crossed>>
  /\ UNCHANGED <<row, overdue, leadExists, tab, serving, file, orphaned, halfDeleted>>

AuditOrphans(p) ==
  /\ serving[p] = "purge" /\ keys[p] = {}
  /\ orphaned' = orphaned \cup failed[p]
  /\ Served(p)
  /\ UNCHANGED <<attachmentRows, tab, attachmentHistory, faults>>

CutOff(p) ==
  /\ serving[p] # "idle" /\ Fault
  /\ stray' = stray \cup (IF serving[p] = "purge" THEN keys[p] \cup failed[p] ELSE {})
  /\ IF file[p] = NoFile THEN UNCHANGED tab
     ELSE tab' = [tab EXCEPT ![file[p]] = IF @ \in {"preparing", "answering"} THEN "failed" ELSE @]
  /\ Served(p)
  /\ UNCHANGED <<attachmentRows, orphaned, crossed, halfDeleted>>
-----------------------------------------------------------------------------
AttachmentInit ==
  /\ row = [f \in Files |-> "none"] /\ object = [f \in Files |-> "missing"]
  /\ overdue = {} /\ leadExists = TRUE /\ tab = [f \in Files |-> "idle"]
  /\ serving = [p \in Servings |-> "idle"] /\ file = [p \in Servings |-> NoFile]
  /\ keys = [p \in Servings |-> {}] /\ failed = [p \in Servings |-> {}]
  /\ orphaned = {} /\ crossed = {} /\ halfDeleted = {} /\ stray = {} /\ faults = 0

Uploads(p) ==
  \/ CreatePending(p) \/ VerifyObject(p) \/ MarkReady(p) \/ DiscardObject(p) \/ DeletePending(p)
  \/ \E f \in Files : RequestUpload(p, f) \/ CompleteUpload(p, f) \/ AbandonUpload(p, f)

Deletes(p) ==
  \/ StartSweep(p) \/ SweepRow(p) \/ SweepEnds(p)
  \/ RemoveObject(p) \/ DeleteRow(p) \/ CollectKeys(p) \/ DeleteLead(p) \/ AuditOrphans(p)
  \/ \E f \in Files : SweepObject(p, f) \/ DeleteAttachment(p, f) \/ PurgeObject(p, f)

Browser(f) == GivesUp(f) \/ HourPasses(f) \/ \E content \in {"whole", "broken"} : Put(f, content)

AttachmentNext ==
  \/ \E p \in Servings : Uploads(p) \/ Deletes(p) \/ CutOff(p)
  \/ \E f \in Files : Browser(f)

AttachmentSpec == AttachmentInit /\ [][AttachmentNext]_attachmentVars
-----------------------------------------------------------------------------
(* What must hold of the documents of a lead. *)
AttachmentTypeOK ==
  /\ row \in [Files -> {"none", "PENDING", "READY", "gone"}]
  /\ object \in [Files -> {"missing", "whole", "broken"}]
  /\ overdue \subseteq {f \in Files : row[f] = "PENDING"}
  /\ leadExists \in BOOLEAN /\ (~leadExists => Present = {})
  /\ \A f \in Files : tab[f] \in {"idle", "preparing", "uploading", "verifying", "answering", "failed", "closed"}
  /\ \A p \in Servings : serving[p] = "idle" => file[p] = NoFile /\ keys[p] = {} /\ failed[p] = {}
  /\ orphaned \cup crossed \cup halfDeleted \cup stray \subseteq Files
  /\ faults \in 0..MaxFaults

\* A document in the list has its bytes, and the ones that were announced
\* (cleanup.ts 6-10), whatever the sweep, an abandoned upload and a deletion do
\* meanwhile.  Excepted: one verified while another request was discarding it
\* (neither holds a lock), and one whose deletion stopped half way.
ReadyHasBytes ==
  \A f \in Files : row[f] = "READY" => object[f] = "whole" \/ f \in crossed \cup halfDeleted

\* What was deleted leaves nothing in the storage that the audit log does not
\* name (cleanup.ts 11-12, 23), once the deletion is through.  Excepted: bytes
\* and rows that came after it had begun, the failures discardPending ignores,
\* and requests cut off.
NothingIsOrphanedSilently ==
  \A f \in Files :
    row[f] = "gone" /\ object[f] # "missing" =>
      \/ f \in orphaned \cup stray
      \/ \E p \in Servings : serving[p] = "purge" /\ f \in keys[p] \cup failed[p]
=============================================================================
