------------------------------ MODULE StaffMail -----------------------------
(***************************************************************************)
(* Gmail connections, and the e-mails that go out through them one at a    *)
(* time: the team's announcement of a sale or a cancellation and the note  *)
(* that a booking form was signed (booking-notification.ts), the airline   *)
(* confirmation (sendAirlineConfirmationEmail), the new lead of an agent   *)
(* (lead-assignment-email.ts) and a lead or contact that changed hands     *)
(* (reassignment-email.ts).  One booking, one lead; p is an invocation.    *)
(* There is no common mailbox: each mail is sent as an account, and some   *)
(* try one account after the other.                                        *)
(***************************************************************************)
EXTENDS Naturals, Sequences

CONSTANTS
  Creator, Colleague,  \* who sent the quote, and another account
  Mailings,            \* invocations
  NoMailer,
  MaxGrants,           \* bounds the connections to Gmail
  MaxMails,            \* bounds the invocations
  MaxMailFaults        \* bounds what Gmail refuses or loses, and the invocations cut off

Mailers == {Creator, Colleague}

ASSUME MailerConstants ==
  /\ Creator # Colleague /\ NoMailer \notin Mailers
  /\ MaxGrants \in Nat /\ MaxMails \in Nat /\ MaxMailFaults \in Nat

Announcements == {"sale", "cancellation"}
Notices == {"signed", "newLead", "away", "toYou"}
Events == Announcements \cup Notices \cup {"first", "resend"}

VARIABLES
  connection,   \* [Mailers -> "NOT_CONNECTED", or GmailConnection.status]
  token,        \* [Mailers -> the grant stored with it, 0 for none]
  dead,         \* grants that Google does not honor any more
  grants,       \* grants given so far
  mailing,      \* [Mailings -> next statement]
  event,        \* [Mailings -> what it is about, "none" when idle]
  nextCandidate, \* [Mailings -> which of the candidates is next]
  sendingAs,    \* [Mailings -> whom it is sending as]
  bearer,       \* [Mailings -> the grant it read]
  wentOut,      \* [Mailings -> whether a mail was taken]
  sentLog,      \* events with an EmailLog row SENT
  firstSentAt,  \* whether Booking.airlineConfirmationFirstSentAt is set
  noticed,      \* notices whose one caller has made its call
  \* history
  delivered,    \* [Events -> mails taken by Gmail, up to 2]
  doubtful,     \* events with a mail that was taken and its answer, or its record, lost
  deserted,     \* events whose invocation was cut off
  reconnected,  \* accounts marked as revoked because of a grant since replaced
  started, mailFaults

gmailRows == <<connection, token, dead, grants>>
mailingState == <<mailing, event, nextCandidate, sendingAs, bearer, wentOut>>
mailRecords == <<sentLog, firstSentAt, noticed>>
mailHistory == <<delivered, doubtful, deserted, reconnected>>
staffMailVars == <<gmailRows, mailingState, mailRecords, mailHistory, started, mailFaults>>

\* The creator, the signed or the accepting agent first, and then the others;
\* a customer's mail and a personal note have one sender.
Candidates(e) ==
  IF e \in {"first", "resend", "away"} THEN <<Creator>>
  ELSE IF e = "toYou" THEN <<Colleague>> ELSE <<Creator, Colleague>>

MailingTo(p, label) == mailing' = [mailing EXCEPT ![p] = label]

EndsMailing(p) ==
  /\ MailingTo(p, "idle")
  /\ event' = [event EXCEPT ![p] = "none"] /\ nextCandidate' = [nextCandidate EXCEPT ![p] = 1]
  /\ sendingAs' = [sendingAs EXCEPT ![p] = NoMailer] /\ bearer' = [bearer EXCEPT ![p] = 0]
  /\ wentOut' = [wentOut EXCEPT ![p] = FALSE]

BeginsMailing(p, e) ==
  /\ MailingTo(p, "pick") /\ event' = [event EXCEPT ![p] = e]
  /\ UNCHANGED <<nextCandidate, sendingAs, bearer, wentOut>>

MayBegin(p) == mailing[p] = "idle" /\ started < MaxMails /\ started' = started + 1
MailFault == mailFaults < MaxMailFaults /\ mailFaults' = mailFaults + 1
-----------------------------------------------------------------------------
(* Connections *)

\* The OAuth callback.
ConnectGmail(a) ==
  /\ grants < MaxGrants
  /\ grants' = grants + 1
  /\ connection' = [connection EXCEPT ![a] = "CONNECTED"] /\ token' = [token EXCEPT ![a] = grants + 1]
  /\ reconnected' = reconnected \ {a}
  /\ UNCHANGED <<dead, mailingState, mailRecords, delivered, doubtful, deserted, started, mailFaults>>

RevokeAtGoogle(a) ==
  /\ token[a] \notin dead \cup {0}
  /\ dead' = dead \cup {token[a]}
  /\ UNCHANGED <<connection, token, grants, mailingState, mailRecords, mailHistory, started, mailFaults>>

\* disconnectGmail: Google's side too, if it can be reached.
DisconnectGmail(a) ==
  /\ connection[a] # "NOT_CONNECTED"
  /\ connection' = [connection EXCEPT ![a] = "NOT_CONNECTED"] /\ token' = [token EXCEPT ![a] = 0]
  /\ \/ dead' = dead \cup {token[a]} /\ UNCHANGED mailFaults
     \/ MailFault /\ UNCHANGED dead
  /\ reconnected' = reconnected \ {a}
  /\ UNCHANGED <<grants, mailingState, mailRecords, delivered, doubtful, deserted, started>>
-----------------------------------------------------------------------------
(* Beginning a mail *)

\* sendBookingProfitNotification: a row SENT is the claim, unique per booking and kind.
ClaimAnnouncement(p, e) ==
  /\ MayBegin(p) /\ e \in Announcements
  /\ IF e \in sentLog THEN UNCHANGED <<mailingState, sentLog>> ELSE BeginsMailing(p, e) /\ sentLog' = sentLog \cup {e}
  /\ UNCHANGED <<gmailRows, firstSentAt, noticed, mailHistory, mailFaults>>

\* sendAirlineConfirmationEmail
ClaimFirstSend(p) ==
  /\ MayBegin(p)
  /\ IF firstSentAt THEN UNCHANGED <<mailingState, firstSentAt>> ELSE BeginsMailing(p, "first") /\ firstSentAt' = TRUE
  /\ UNCHANGED <<gmailRows, sentLog, noticed, mailHistory, mailFaults>>

\* The dialog offers it once there was a first one; the look for one within a
\* minute may find it or be too early.
Resend(p) ==
  /\ MayBegin(p) /\ firstSentAt
  /\ BeginsMailing(p, "resend") \/ ("resend" \in sentLog /\ UNCHANGED mailingState)
  /\ UNCHANGED <<gmailRows, mailRecords, mailHistory, mailFaults>>

\* The caller of a notice has won a claim of its own: it calls once.
Notify(p, e) ==
  /\ MayBegin(p) /\ e \in Notices \ noticed
  /\ noticed' = noticed \cup {e}
  /\ BeginsMailing(p, e)
  /\ UNCHANGED <<gmailRows, sentLog, firstSentAt, mailHistory, mailFaults>>
-----------------------------------------------------------------------------
(* Sending *)

\* The next candidate whose connection looks usable, or nobody.
PickSender(p) ==
  LET cs == Candidates(event[p])
      usable == {i \in nextCandidate[p]..Len(cs) : connection[cs[i]] = "CONNECTED"} IN
  /\ mailing[p] = "pick"
  /\ IF usable = {} THEN MailingTo(p, "log") /\ UNCHANGED <<nextCandidate, sendingAs, bearer>>
     ELSE \E i \in usable :
       /\ \A j \in usable : i <= j
       /\ nextCandidate' = [nextCandidate EXCEPT ![p] = i + 1]
       /\ sendingAs' = [sendingAs EXCEPT ![p] = cs[i]] /\ bearer' = [bearer EXCEPT ![p] = token[cs[i]]]
       /\ MailingTo(p, "send")
  /\ UNCHANGED <<gmailRows, event, wentOut, mailRecords, mailHistory, started, mailFaults>>

Delivers(e) == delivered' = [delivered EXCEPT ![e] = IF @ < 2 THEN @ + 1 ELSE @]

\* sendViaGmail
GmailAccepts(p) ==
  /\ mailing[p] = "send" /\ bearer[p] \notin dead
  /\ Delivers(event[p])
  /\ wentOut' = [wentOut EXCEPT ![p] = TRUE] /\ MailingTo(p, "log")
  /\ UNCHANGED <<gmailRows, event, nextCandidate, sendingAs, bearer, mailRecords, doubtful, deserted, reconnected, started, mailFaults>>

GmailRefuses(p) ==
  /\ mailing[p] = "send" /\ bearer[p] \in dead
  /\ MailingTo(p, "revoke")
  /\ UNCHANGED <<gmailRows, event, nextCandidate, sendingAs, bearer, wentOut, mailRecords, mailHistory, started, mailFaults>>

\* Defect: every failure of the request revokes the connection.
FailureRevokes(p) ==
  /\ mailing[p] = "send" /\ MailFault
  /\ MailingTo(p, "revoke")
  /\ UNCHANGED <<gmailRows, event, nextCandidate, sendingAs, bearer, wentOut, mailRecords, mailHistory, started>>

\* A limit, or a request that failed: the next one is tried, though the mail may be out.
GmailFails(p) ==
  /\ mailing[p] = "send" /\ MailFault
  /\ \/ UNCHANGED <<delivered, doubtful>>
     \/ bearer[p] \notin dead /\ Delivers(event[p]) /\ doubtful' = doubtful \cup {event[p]}
  /\ MailingTo(p, "pick")
  /\ UNCHANGED <<gmailRows, event, nextCandidate, sendingAs, bearer, wentOut, mailRecords, deserted, reconnected, started>>

\* By account, whatever has been stored since.  Without a row the update throws:
\* a notice then ends without a trace.
MarkRevoked(p) ==
  LET a == sendingAs[p] IN
  /\ mailing[p] = "revoke"
  /\ IF connection[a] = "NOT_CONNECTED"
     THEN /\ IF event[p] \in Notices THEN EndsMailing(p)
             ELSE MailingTo(p, "log") /\ UNCHANGED <<event, nextCandidate, sendingAs, bearer, wentOut>>
          /\ UNCHANGED <<connection, reconnected>>
     ELSE /\ connection' = [connection EXCEPT ![a] = "REVOKED"]
          /\ reconnected' = IF token[a] # bearer[p] THEN reconnected \cup {a} ELSE reconnected
          /\ MailingTo(p, "pick") /\ UNCHANGED <<event, nextCandidate, sendingAs, bearer, wentOut>>
  /\ UNCHANGED <<token, dead, grants, mailRecords, delivered, doubtful, deserted, started, mailFaults>>

\* EmailLog: SENT, or FAILED, which takes back a claim.  A row that cannot be
\* written ends the mailing as a cut-off does, but for an announcement, next.
RecordMail(p) ==
  LET e == event[p] IN
  /\ mailing[p] = "log"
  /\ sentLog' = IF wentOut[p] THEN sentLog \cup {e} ELSE IF e \in Announcements THEN sentLog \ {e} ELSE sentLog
  /\ IF e = "first" /\ ~wentOut[p] THEN MailingTo(p, "release") /\ UNCHANGED <<event, nextCandidate, sendingAs, bearer, wentOut>>
     ELSE EndsMailing(p)
  /\ UNCHANGED <<gmailRows, firstSentAt, noticed, mailHistory, started, mailFaults>>

\* Whatever throws on the way of an announcement, the update of its row included,
\* takes the claim back, be the mail out or not; if that fails too, it stays.
AnnouncementThrows(p) ==
  LET e == event[p] IN
  /\ mailing[p] \in {"pick", "log"} /\ e \in Announcements /\ MailFault
  /\ sentLog' = sentLog \ {e}
  /\ doubtful' = IF wentOut[p] THEN doubtful \cup {e} ELSE doubtful
  /\ EndsMailing(p)
  /\ UNCHANGED <<gmailRows, firstSentAt, noticed, delivered, deserted, reconnected, started>>

\* Defect: the next one is started from where this one stopped.
ReleasesOnly(p) ==
  /\ mailing[p] = "release"
  /\ firstSentAt' = FALSE
  /\ MailingTo(p, "idle")
  /\ UNCHANGED <<gmailRows, event, nextCandidate, sendingAs, bearer, wentOut, sentLog, noticed, mailHistory, started, mailFaults>>

ReleaseFirstSend(p) ==
  /\ mailing[p] = "release"
  /\ firstSentAt' = FALSE
  /\ EndsMailing(p)
  /\ UNCHANGED <<gmailRows, sentLog, noticed, mailHistory, started, mailFaults>>

MailingCutOff(p) ==
  /\ mailing[p] # "idle" /\ MailFault
  /\ deserted' = deserted \cup {event[p]}
  /\ EndsMailing(p)
  /\ UNCHANGED <<gmailRows, mailRecords, delivered, doubtful, reconnected, started>>
-----------------------------------------------------------------------------
StaffMailInit ==
  /\ connection \in [Mailers -> {"NOT_CONNECTED", "CONNECTED"}]
  /\ token = [a \in Mailers |-> IF connection[a] = "CONNECTED" THEN 1 ELSE 0]
  /\ dead = {} /\ grants = 1
  /\ mailing = [p \in Mailings |-> "idle"] /\ event = [p \in Mailings |-> "none"]
  /\ nextCandidate = [p \in Mailings |-> 1] /\ sendingAs = [p \in Mailings |-> NoMailer]
  /\ bearer = [p \in Mailings |-> 0] /\ wentOut = [p \in Mailings |-> FALSE]
  /\ sentLog = {} /\ firstSentAt = FALSE /\ noticed = {}
  /\ delivered = [e \in Events |-> 0] /\ doubtful = {} /\ deserted = {} /\ reconnected = {}
  /\ started = 0 /\ mailFaults = 0

Connects == \E a \in Mailers : ConnectGmail(a) \/ RevokeAtGoogle(a) \/ DisconnectGmail(a)

BeginsMail(p) ==
  \/ ClaimFirstSend(p) \/ Resend(p)
  \/ \E e \in Announcements : ClaimAnnouncement(p, e)
  \/ \E e \in Notices : Notify(p, e)

Sends(p) ==
  \/ PickSender(p) \/ GmailAccepts(p) \/ GmailRefuses(p) \/ GmailFails(p) \/ MarkRevoked(p)
  \/ RecordMail(p) \/ AnnouncementThrows(p) \/ ReleaseFirstSend(p) \/ MailingCutOff(p)

StaffMailNext == Connects \/ \E p \in Mailings : BeginsMail(p) \/ Sends(p)
StaffMailSpec == StaffMailInit /\ [][StaffMailNext]_staffMailVars
-----------------------------------------------------------------------------
(* What must hold of the mails sent through the accounts' own mailboxes. *)
StaffMailTypeOK ==
  /\ connection \in [Mailers -> {"NOT_CONNECTED", "CONNECTED", "REVOKED"}]
  /\ \A a \in Mailers : token[a] \in 0..grants /\ (token[a] = 0 <=> connection[a] = "NOT_CONNECTED")
  /\ dead \subseteq 1..grants /\ grants \in 1..(MaxGrants + 1)
  /\ \A p \in Mailings : (mailing[p] = "idle" <=> event[p] = "none") /\ event[p] \in Events \cup {"none"}
  /\ \A p \in Mailings : mailing[p] \in {"send", "revoke"} => sendingAs[p] \in Mailers
  /\ sentLog \subseteq Events /\ firstSentAt \in BOOLEAN /\ noticed \subseteq Notices
  /\ started \in 0..MaxMails /\ mailFaults \in 0..MaxMailFaults

\* However often and by however many it is asked for, the team is told once of
\* a sale, the customer gets one first confirmation, and the owners one note
\* (booking-notification.ts 262-276, bookings.ts 606-622, reassignment-email.ts
\* 15-21), although one account is tried after the other.  Excepted: a mail
\* that went out while its answer was lost, or the record of it (428, 440-452).
OneMailPerEvent == \A e \in Events \ {"resend"} : delivered[e] <= 1 \/ e \in doubtful

\* A claim that nobody is working on any more stands for a mail that went out:
\* a failed announcement can be tried again, and so can a first confirmation
\* (booking-notification.ts 275-277, bookings.ts 643-652).  A claim whose
\* invocation was cut off stays.
IdleClaimWasMailed ==
  /\ \A e \in Announcements : e \in sentLog /\ (\A p \in Mailings : event[p] # e) => delivered[e] > 0 \/ e \in deserted
  /\ firstSentAt /\ (\A p \in Mailings : event[p] # "first") => delivered["first"] > 0 \/ "first" \in deserted

\* Nobody is told to connect Gmail again for a limit or a lost request: a
\* connection marked as revoked has a grant that is dead.  Excepted: one made
\* anew while a mail was still under way with the old grant.
RevokedIsDead == \A a \in Mailers : connection[a] = "REVOKED" => token[a] \in dead \/ a \in reconnected
=============================================================================
