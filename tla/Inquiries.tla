----------------------------- MODULE Inquiries -----------------------------
(***************************************************************************)
(* Website inquiries and the notifications about them:                     *)
(* server/public-inquiry.ts, server/admin-notifications.ts and             *)
(* server/actions/contact-inquiries.ts.  One form of the CRM's own website *)
(* (the route that screens duplicates), and the other website, which       *)
(* writes its rows straight into the table.  One action is one database    *)
(* statement of one request v; a transaction's last one commits it.        *)
(***************************************************************************)
EXTENDS Integers, FiniteSets

CONSTANTS
  InquiryRows,    \* rows of ContactInquiry, in the order of their names
  ExternalRows,   \* those the other website writes
  Messages,       \* what makes two submissions the same
  Visits,         \* requests and polls
  CatchUpTake,    \* rows per catch-up, 50 in the code
  MaxAborts,      \* bounds the invocations that die
  NoInquiry, NoMessage

ASSUME InquiryConstants ==
  /\ InquiryRows \subseteq Nat /\ ExternalRows \subseteq InquiryRows
  /\ NoInquiry \notin InquiryRows /\ NoMessage \notin Messages
  /\ CatchUpTake \in Nat \ {0} /\ MaxAborts \in Nat

VARIABLES
  inquiry,      \* "none", "unread", "read" (readAt is set) or "deleted"
  message,      \* [InquiryRows -> its sender and text]
  recent,       \* created within duplicateWindowMs
  alerts,       \* notifications per inquiry and Admin
  textLock,     \* [Messages -> the request that holds its advisory lock]
  catchUpLock,  \* the poll that holds CATCH_UP_LOCK_KEY
  visit,        \* [Visits -> the next statement]
  typed,        \* the message a request submits
  created,      \* the inquiry a request created
  missing,      \* the inquiries a poll found without notification
  aborts        \* history: invocations that died

inquiryVars == <<inquiry, message, recent>>
lockVars == <<textLock, catchUpLock>>
visitVars == <<visit, typed, created, missing, aborts>>
inboxVars == <<inquiryVars, alerts, lockVars, visitVars>>

Inbox == {i \in InquiryRows : inquiry[i] \in {"unread", "read"}}
Silent == {i \in InquiryRows : inquiry[i] = "unread" /\ alerts[i] = 0}
OldestSilent == {i \in Silent : Cardinality({j \in Silent : j < i}) < CatchUpTake}
FreeRows == {i \in InquiryRows \ ExternalRows : inquiry[i] = "none"}

\* Bounds the submissions to the rows there are.
RowLeft == Cardinality({w \in Visits : visit[w] \in {"lock", "look", "create"}}) < Cardinality(FreeRows)

VisitGoto(v, label) == visit' = [visit EXCEPT ![v] = label]

\* The end of a request, however it ends: a transaction gives up its locks.
Depart(v) ==
  /\ VisitGoto(v, "idle")
  /\ typed' = [typed EXCEPT ![v] = NoMessage]
  /\ created' = [created EXCEPT ![v] = NoInquiry]
  /\ missing' = [missing EXCEPT ![v] = {}]
  /\ textLock' = [m \in Messages |-> IF textLock[m] = {v} THEN {} ELSE textLock[m]]
  /\ catchUpLock' = catchUpLock \ {v}

Arrive(i, m) ==
  /\ inquiry' = [inquiry EXCEPT ![i] = "unread"]
  /\ message' = [message EXCEPT ![i] = m]
  /\ recent' = [recent EXCEPT ![i] = TRUE]
-----------------------------------------------------------------------------
(* handlePublicInquiryPost *)

Submit(v, m) ==
  /\ visit[v] = "idle" /\ RowLeft
  /\ typed' = [typed EXCEPT ![v] = m]
  /\ VisitGoto(v, "lock")
  /\ UNCHANGED <<inquiryVars, alerts, lockVars, created, missing, aborts>>

LockText(v) ==
  /\ visit[v] = "lock" /\ textLock[typed[v]] = {}
  /\ textLock' = [textLock EXCEPT ![typed[v]] = {v}]
  /\ VisitGoto(v, "look")
  /\ UNCHANGED <<inquiryVars, alerts, catchUpLock, typed, created, missing, aborts>>

SameRecently(m) == \E i \in Inbox \ ExternalRows : recent[i] /\ message[i] = m

LookForCopy(v) ==
  /\ visit[v] = "look"
  /\ IF SameRecently(typed[v])
     THEN Depart(v)
     ELSE VisitGoto(v, "create") /\ UNCHANGED <<lockVars, typed, created, missing>>
  /\ UNCHANGED <<inquiryVars, alerts, aborts>>

\* The insert, and the commit that lets go of the lock.
CreateInquiry(v, i) ==
  /\ visit[v] = "create" /\ i \in FreeRows
  /\ Arrive(i, typed[v])
  /\ created' = [created EXCEPT ![v] = i]
  /\ textLock' = [textLock EXCEPT ![typed[v]] = {}]
  /\ VisitGoto(v, "notify")
  /\ UNCHANGED <<alerts, catchUpLock, typed, missing, aborts>>

\* Not part of that transaction; a failure is swallowed.
NotifyNewInquiry(v) ==
  /\ visit[v] = "notify"
  /\ \/ /\ created[v] \in Inbox
        /\ alerts' = [alerts EXCEPT ![created[v]] = @ + 1]
     \/ UNCHANGED alerts
  /\ Depart(v)
  /\ UNCHANGED <<inquiryVars, aborts>>

\* The other website's own insert; its text is never compared.
InsertExternally(i) ==
  /\ i \in ExternalRows /\ inquiry[i] = "none"
  /\ Arrive(i, NoMessage)
  /\ UNCHANGED <<alerts, lockVars, visitVars>>
-----------------------------------------------------------------------------
(* ensureInquiryNotifications; its throttle only makes polls rarer. *)

TryCatchUp(v) ==
  /\ visit[v] = "idle" /\ catchUpLock = {}
  /\ catchUpLock' = {v}
  /\ VisitGoto(v, "missing")
  /\ UNCHANGED <<inquiryVars, alerts, textLock, typed, created, missing, aborts>>
\* Defect: only the rows of the own form are looked at.
FindOwnMissing(v) ==
  /\ visit[v] = "missing"
  /\ missing' = [missing EXCEPT ![v] = OldestSilent \ ExternalRows]
  /\ VisitGoto(v, "tell")
  /\ UNCHANGED <<lockVars, typed, created, inquiryVars, alerts, aborts>>

FindMissing(v) ==
  /\ visit[v] = "missing"
  /\ IF Silent = {}
     THEN Depart(v)
     ELSE /\ missing' = [missing EXCEPT ![v] = OldestSilent]
          /\ VisitGoto(v, "tell")
          /\ UNCHANGED <<lockVars, typed, created>>
  /\ UNCHANGED <<inquiryVars, alerts, aborts>>

\* A deleted inquiry fails the whole insert.
TellAdmins(v) ==
  /\ visit[v] = "tell"
  /\ alerts' = IF missing[v] \subseteq Inbox
               THEN [i \in InquiryRows |-> IF i \in missing[v] THEN alerts[i] + 1 ELSE alerts[i]]
               ELSE alerts
  /\ Depart(v)
  /\ UNCHANGED <<inquiryVars, aborts>>
-----------------------------------------------------------------------------
(* The Admins' inbox, and time *)

MarkInquiryRead(i) ==
  /\ inquiry[i] = "unread"
  /\ inquiry' = [inquiry EXCEPT ![i] = "read"]
  /\ UNCHANGED <<message, recent, alerts, lockVars, visitVars>>

\* Its notifications go with it.
DeleteInquiry(i) ==
  /\ i \in Inbox
  /\ inquiry' = [inquiry EXCEPT ![i] = "deleted"]
  /\ alerts' = [alerts EXCEPT ![i] = 0]
  /\ UNCHANGED <<message, recent, lockVars, visitVars>>

WindowPasses(i) ==
  /\ recent[i]
  /\ recent' = [recent EXCEPT ![i] = FALSE]
  /\ UNCHANGED <<inquiry, message, alerts, lockVars, visitVars>>

VisitDies(v) ==
  /\ visit[v] # "idle" /\ aborts < MaxAborts
  /\ aborts' = aborts + 1
  /\ Depart(v)
  /\ UNCHANGED <<inquiryVars, alerts>>

InboxInit ==
  /\ inquiry = [i \in InquiryRows |-> "none"]
  /\ message = [i \in InquiryRows |-> NoMessage]
  /\ recent = [i \in InquiryRows |-> FALSE]
  /\ alerts = [i \in InquiryRows |-> 0]
  /\ textLock = [m \in Messages |-> {}]
  /\ catchUpLock = {}
  /\ visit = [v \in Visits |-> "idle"]
  /\ typed = [v \in Visits |-> NoMessage]
  /\ created = [v \in Visits |-> NoInquiry]
  /\ missing = [v \in Visits |-> {}]
  /\ aborts = 0

VisitStep(v) ==
  \/ LockText(v) \/ LookForCopy(v) \/ NotifyNewInquiry(v)
  \/ \E i \in InquiryRows : CreateInquiry(v, i)
  \/ FindMissing(v) \/ TellAdmins(v)

InboxNext ==
  \/ \E v \in Visits :
       VisitStep(v) \/ TryCatchUp(v) \/ VisitDies(v) \/ \E m \in Messages : Submit(v, m)
  \/ \E i \in InquiryRows :
       MarkInquiryRead(i) \/ DeleteInquiry(i) \/ WindowPasses(i) \/ InsertExternally(i)

InboxSpec == InboxInit /\ [][InboxNext]_inboxVars
-----------------------------------------------------------------------------
(* What the inquiry form and its notifications promise. *)
VisitLabels == {"idle", "lock", "look", "create", "notify", "missing", "tell"}

\* Every column and local variable keeps its type, and a lock is held exactly
\* within its transaction, however the request ends.
InboxTypeOK ==
  /\ inquiry \in [InquiryRows -> {"none", "unread", "read", "deleted"}]
  /\ message \in [InquiryRows -> Messages \cup {NoMessage}]
  /\ recent \in [InquiryRows -> BOOLEAN] /\ alerts \in [InquiryRows -> Nat]
  /\ textLock \in [Messages -> SUBSET Visits] /\ catchUpLock \in SUBSET Visits
  /\ visit \in [Visits -> VisitLabels] /\ typed \in [Visits -> Messages \cup {NoMessage}]
  /\ created \in [Visits -> InquiryRows \cup {NoInquiry}]
  /\ missing \in [Visits -> SUBSET InquiryRows] /\ aborts \in Nat
  /\ \A v \in Visits, m \in Messages : v \in textLock[m] <=> visit[v] \in {"look", "create"} /\ typed[v] = m
  /\ \A v \in Visits : v \in catchUpLock <=> visit[v] \in {"missing", "tell"}

\* A double click or a retry creates one inquiry: no two rows of the same
\* sender and text lie within the window (public-inquiry.ts 146-172).
OneCopyPerWindow ==
  \A i, j \in Inbox \ ExternalRows :
    i # j /\ recent[i] /\ recent[j] => message[i] # message[j]

\* Polls that overlap tell of an inquiry once; only the request that created
\* it can add a second notification, for it takes no part in the lock
\* (admin-notifications.ts 69-107).
NoDuplicateAlerts ==
  \A i \in InquiryRows : alerts[i] <= IF i \in ExternalRows THEN 1 ELSE 2

\* While Admins poll, no unread inquiry stays without a notification: not one
\* the other website wrote, nor one whose request died before it told.
UnreadIsAnnounced ==
  \A i \in InquiryRows : i \in Silent ~> i \notin Silent

AwaitedCatchUp(v) == Silent # {} /\ TryCatchUp(v)

\* While an inquiry waits polls keep coming, and get the lock in the end;
\* what is not killed goes on.
InboxFairness(v) ==
  /\ SF_inboxVars(AwaitedCatchUp(v))
  /\ \A w \in Visits : WF_inboxVars(VisitStep(w)) /\ SF_inboxVars(LockText(w))
=============================================================================
