----------------------------- MODULE MCOutbound -----------------------------
(***************************************************************************)
(* What the office sends by itself: sequences, campaigns, task reminders,  *)
(* inquiry notifications and health notifications; and what it mails from  *)
(* the accounts' own mailboxes.  The six share no state, so one of them    *)
(* moves per behaviour, chosen at the start: the graph is the union of     *)
(* theirs and not their product.  Some of them are cut once more into      *)
(* parts that together make all of their moves.                            *)
(***************************************************************************)
EXTENDS SequenceMail, CampaignMail, TaskReminders,
        Inquiries, HealthIncidents,
        StaffMail

CONSTANTS e1, lead1, s1, s2, p1, p2,
          u1, u2, c1, c2,
          t1, a1, a2, d1, d2,
          m1, v1, v2,
          h1, h2, h3, i1, i2, i3,
          Parts      \* those of the parts named below that a run looks at

OneLead == [e \in Enrolments |-> lead1]
TwoSteps == <<s1, s2>>
UsersInOrder == <<u1, u2>>
OnePerInstance == [h \in Evaluations |-> IF h = h1 THEN i1 ELSE IF h = h2 THEN i2 ELSE i3]

VARIABLE focus

OutboundVars == <<sequenceVars, campaignVars, reminderVars, inboxVars, healthVars, staffMailVars, focus>>

CampaignParts == {"campaign", "campaign returning", "campaign failing", "campaign edited"}

OutboundInit ==
  /\ focus \in Parts
  /\ SequenceInit /\ CampaignInit /\ ReminderInit /\ InboxInit /\ HealthInit /\ StaffMailInit
  /\ focus \in CampaignParts => u1 \in Subscribed
  /\ focus \notin CampaignParts =>
       \A u \in Subscribers : subscriber[u] = "none"
  /\ focus # "staff mail" => connection = [a \in Mailers |-> "NOT_CONNECTED"]

SequenceMoves1 ==
  /\ SequenceNext
  /\ focus = "sequence" => position' = position
  /\ focus = "sequence edited" => ~optedOut'[e1] /\ offered'

\* Attempts fail in one part, customers and imports come in another (only one
\* customer in its smaller variant), the draft is edited in the third.
CampaignMoves1 ==
  /\ CampaignNext
  /\ focus # "campaign failing" => failures' = failures /\ unsure' = unsure
  /\ focus # "campaign" => newcomers' = newcomers
  /\ focus = "campaign returning" => subscriber'[u2] = subscriber[u2]
  /\ focus \in {"campaign failing", "campaign edited"} => subscriber' = subscriber
  /\ focus # "campaign edited" => wording' # "unfilled" /\ \A c \in Clerks : copy'[c] # "unfilled"
  /\ focus \in {"campaign", "campaign returning"} => campaign' # "deleted"

\* A cancellation is announced as a sale is, and a new lead's mail goes out as
\* the note on a signed form does.
StaffMailMoves == StaffMailNext /\ \A p \in Mailings : event'[p] \notin {"cancellation", "newLead", "away"}

OnlySequences == focus \in {"sequence", "sequence edited"} /\ UNCHANGED <<campaignVars, reminderVars, inboxVars, healthVars, staffMailVars, focus>>
OnlyCampaigns == focus \in CampaignParts /\ UNCHANGED <<sequenceVars, reminderVars, inboxVars, healthVars, staffMailVars, focus>>
OnlyTasks == focus = "tasks" /\ UNCHANGED <<sequenceVars, campaignVars, inboxVars, healthVars, staffMailVars, focus>>
OnlyInquiries == focus = "inquiries" /\ UNCHANGED <<sequenceVars, campaignVars, reminderVars, healthVars, staffMailVars, focus>>
OnlyHealth == focus = "health" /\ UNCHANGED <<sequenceVars, campaignVars, reminderVars, inboxVars, staffMailVars, focus>>
OnlyStaffMail == focus = "staff mail" /\ UNCHANGED <<sequenceVars, campaignVars, reminderVars, inboxVars, healthVars, focus>>

OutboundNext ==
  \/ OnlySequences /\ SequenceMoves1
  \/ OnlyCampaigns /\ CampaignMoves1
  \/ OnlyTasks /\ ReminderNext
  \/ OnlyInquiries /\ InboxNext
  \/ OnlyHealth /\ HealthNext
  \/ OnlyStaffMail /\ StaffMailMoves

\* The fairness of five of them, SequenceFairness(p1) and so on, in few formulas:
\* the actions of components not in focus are disabled for good, so that
\* fairness of a disjunction over components is fairness of each.
Goes(p, c, d, v, h) ==
  \/ OnlySequences /\ SenderStep(p)
  \/ OnlyCampaigns /\ ClerkStep(c)
  \/ OnlyTasks /\ DeskStep(d)
  \/ OnlyInquiries /\ VisitStep(v)
  \/ OnlyHealth /\ EvaluationStep(h)

Begins ==
  \/ OnlySequences /\ ReadDue(p1)
  \/ OnlyCampaigns /\ StartCampaign(c1)
  \/ OnlyTasks /\ ReadReminders(d1)
  \/ OnlyInquiries /\ AwaitedCatchUp(v1)

Claims ==
  \/ OnlySequences /\ \E e \in Enrolments : ClaimRow(p1, e)
  \/ OnlyTasks /\ \E t \in Tasks : ClaimReminder(d1, t)
  \/ OnlyInquiries /\ LockText(v1)
  \/ OnlyHealth /\ RecordHealthEvent(h1)

OutboundFairness ==
  /\ WF_OutboundVars(Goes(p1, c1, d1, v1, h1))
  /\ WF_OutboundVars(Goes(p2, c2, d2, v2, h2))
  /\ SF_OutboundVars(Begins)
  /\ SF_OutboundVars(Claims)
  /\ WF_OutboundVars((OnlySequences /\ SequenceTick) \/ (OnlyHealth /\ AwaitedEvaluation(h1)))
  /\ WF_OutboundVars(OnlyHealth /\ ThrottleEnds(i1))
  /\ SF_OutboundVars(OnlyInquiries /\ LockText(v2))

OutboundSpec == OutboundInit /\ [][OutboundNext]_OutboundVars
FairOutboundSpec == OutboundSpec /\ OutboundFairness
-----------------------------------------------------------------------------
(* What holds of all that is sent. *)

OutboundTypeOK ==
  SequenceTypeOK /\ CampaignTypeOK /\ ReminderTypeOK /\ InboxTypeOK /\ HealthTypeOK /\ StaffMailTypeOK

\* However its invocations overlap, retry and die, no component sends or tells
\* twice, but for the causes its own part names: a lapsed lease, an attempt that
\* failed without certainty, a lost answer of the mail service.
NothingIsSentTwice ==
  /\ HolderIsAlone /\ RepeatsNeedALapse
  /\ OneDelivery
  /\ OneReminderPerCycle
  /\ OneCopyPerWindow /\ NoDuplicateAlerts
  /\ OneAnnouncementPerWindow
  /\ OneMailPerEvent

\* What is recorded as sent was sent: a campaign's end, a reminder's mark and a
\* first-send claim, each written apart from the sending.
NothingIsSilentlySkipped == SentReachedTheLoyal /\ NotifiedMeansTold /\ IdleClaimWasMailed

\* Nothing goes to people who opted out before it was read, in words still to be
\* filled in, or from a mailbox whose grant is revoked.
OnlyWantedMailLeaves == OptOutStopsTheRest /\ PlaceholderNeedsLateEdit /\ RevokedIsDead

\* What an invocation leaves behind another one finds: enrolments and campaigns
\* come to an end, and what falls due is reminded of.
WorkEnds == EnrolmentEnds /\ CampaignEnds /\ DueIsReminded

\* Inquiries are announced to the staff whichever site took them, and incidents
\* open and close with the trouble itself.
NewsIsSeen == UnreadIsAnnounced /\ RecoveryIsSeen /\ TroubleIsSeen
=============================================================================
