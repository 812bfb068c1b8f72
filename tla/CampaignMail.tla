---------------------------- MODULE CampaignMail ----------------------------
(***************************************************************************)
(* A marketing campaign and the subscribers it goes to:                    *)
(* server/actions/marketing-campaigns.ts, subscribers.ts and the public    *)
(* subscribe and unsubscribe routes.  One campaign; a subscriber here is a *)
(* row, created once.  One action is one database statement, or the call   *)
(* to the mail service, of one invocation p.                               *)
(***************************************************************************)
EXTENDS Integers, Sequences, FiniteSets

CONSTANTS
  Subscribers,     \* rows of Subscriber
  JoinedFirst,     \* the subscribers in the order of subscribedAt
  Clerks,          \* invocations of staff actions
  BatchSize,       \* MAX_RECIPIENTS_PER_BATCH
  MaxDeaths,       \* bounds the invocations that are killed
  MaxReturns,      \* bounds the re-subscriptions per subscriber
  MaxAttempts,     \* bounds the failed attempts per subscriber
  CampaignMoves,   \* which moves of staff, customer and platform are allowed
  Nobody

ASSUME CampaignConstants ==
  /\ Nobody \notin Subscribers
  /\ BatchSize \in Nat \ {0} /\ MaxDeaths \in Nat /\ MaxReturns \in Nat /\ MaxAttempts \in Nat

VARIABLES
  campaign,     \* MarketingCampaign.status, "none" before and "deleted" after the row
  wording,      \* its subject and body: "ready", or with a [[placeholder]] left in
  subscriber,   \* Subscriber.status, "none" before and "gone" after the row
  attempt,      \* MarketingCampaignSend.status, "none" when there is no row
  clerk,        \* [Clerks -> the invocation's next statement]
  round,        \* the subscribers of its batch it still has to visit
  target,       \* the one it is sending to
  copy,         \* the wording it read, or is to write
  count,        \* what it counted: TRUE when nobody was left to attempt
  newcomers,    \* an import's addresses that it found to be new
  \* history
  mailed,       \* e-mails delivered per row
  unsure,       \* attempts recorded as failed although the mail was taken
  failures,     \* attempts recorded as failed
  loyal,        \* subscribed when the campaign was claimed, and ever since
  deaths,       \* invocations killed
  returns,      \* re-subscriptions per row
  unfilled,     \* somebody was sent a [[placeholder]]
  lateEdit      \* an edit landed after a clerk had checked the draft

subscriberVars == <<subscriber, loyal, returns>>
deliveryVars == <<attempt, mailed, unsure, failures>>
wordingVars == <<wording, unfilled, lateEdit>>
clerkVars == <<clerk, round, target, copy, count, newcomers, deaths>>
campaignVars == <<campaign, wordingVars, subscriberVars, deliveryVars, clerkVars>>

Wordings == {"ready", "unfilled"}

Subscribed == {s \in Subscribers : subscriber[s] = "SUBSCRIBED"}

StillNeedsAttempt == {s \in Subscribed : attempt[s] # "SENT"}

Earlier(s, t) ==
  \E i, j \in DOMAIN JoinedFirst : i < j /\ JoinedFirst[i] = s /\ JoinedFirst[j] = t

\* The first BatchSize of them by subscribedAt.
NextBatch == {s \in StillNeedsAttempt :
                Cardinality({t \in StillNeedsAttempt : Earlier(t, s)}) < BatchSize}

CampaignGoto(p, label) == clerk' = [clerk EXCEPT ![p] = label]

Quit(p) ==
  /\ clerk' = [clerk EXCEPT ![p] = "idle"]
  /\ round' = [round EXCEPT ![p] = {}]
  /\ target' = [target EXCEPT ![p] = Nobody]
  /\ copy' = [copy EXCEPT ![p] = "none"]
  /\ count' = [count EXCEPT ![p] = FALSE]
  /\ newcomers' = [newcomers EXCEPT ![p] = {}]

Leave(p) == Quit(p) /\ UNCHANGED deaths
-----------------------------------------------------------------------------
(* sendMarketingCampaign *)

\* A draft must be worded and have somebody to go to; one in SENDING is
\* continued, with the wording as it is now.
StartCampaign(p) ==
  /\ clerk[p] = "idle"
  /\ \/ campaign = "DRAFT" /\ wording = "ready" /\ Subscribed # {} /\ CampaignGoto(p, "own")
     \/ campaign = "SENDING" /\ CampaignGoto(p, "batch")
  /\ copy' = [copy EXCEPT ![p] = wording]
  /\ UNCHANGED <<wordingVars, campaign, subscriberVars, deliveryVars, round, target, count, newcomers, deaths>>

OwnCampaign(p) ==
  /\ clerk[p] = "own" /\ campaign = "DRAFT"
  /\ campaign' = "SENDING"
  /\ loyal' = Subscribed
  /\ CampaignGoto(p, "batch")
  /\ UNCHANGED <<wordingVars, subscriber, returns, deliveryVars, round, target, copy, count, newcomers, deaths>>

AlreadyOwned(p) ==
  /\ clerk[p] = "own" /\ campaign # "DRAFT"
  /\ Leave(p)
  /\ UNCHANGED <<wordingVars, campaign, subscriberVars, deliveryVars>>

ReadBatch(p) ==
  /\ clerk[p] = "batch"
  /\ round' = [round EXCEPT ![p] = NextBatch]
  /\ CampaignGoto(p, "claim")
  /\ UNCHANGED <<wordingVars, campaign, subscriberVars, deliveryVars, target, copy, count, newcomers, deaths>>

\* Visited in the order of subscribedAt.
FirstOf(p, s) == s \in round[p] /\ \A t \in round[p] : ~Earlier(t, s)

\* create, or after its unique violation the conditional update of a FAILED row.
ClaimSubscriber(p, s) ==
  /\ clerk[p] = "claim" /\ FirstOf(p, s)
  /\ campaign # "deleted" /\ subscriber[s] # "gone"
  /\ attempt[s] \in {"none", "FAILED"}
  /\ attempt' = [attempt EXCEPT ![s] = "PENDING"]
  /\ target' = [target EXCEPT ![p] = s]
  /\ round' = [round EXCEPT ![p] = @ \ {s}]
  /\ CampaignGoto(p, "send")
  /\ UNCHANGED <<wordingVars, campaign, subscriberVars, mailed, unsure, failures, copy, count, newcomers, deaths>>

AttemptedByAnother(p, s) ==
  /\ clerk[p] = "claim" /\ FirstOf(p, s)
  /\ campaign # "deleted" /\ subscriber[s] # "gone"
  /\ attempt[s] \notin {"none", "FAILED"}
  /\ round' = [round EXCEPT ![p] = @ \ {s}]
  /\ UNCHANGED <<wordingVars, campaign, subscriberVars, deliveryVars, clerk, target, copy, count, newcomers, deaths>>

\* A foreign key is gone: the statement throws and ends the invocation.
TargetVanished(p) ==
  /\ \/ clerk[p] = "claim" /\ \E s \in round[p] : FirstOf(p, s) /\ (subscriber[s] = "gone" \/ campaign = "deleted")
     \/ clerk[p] \in {"sent", "rejected"} /\ attempt[target[p]] = "none"
     \/ clerk[p] \in {"finish", "update", "delete"} /\ campaign = "deleted"
  /\ Leave(p)
  /\ UNCHANGED <<wordingVars, campaign, subscriberVars, deliveryVars>>

\* Delivered; refused; or delivered with the answer lost.
SendCampaign(p) ==
  /\ clerk[p] = "send"
  /\ LET s == target[p]
         Delivered == /\ mailed' = [mailed EXCEPT ![s] = @ + 1]
                      /\ unfilled' = (unfilled \/ copy[p] = "unfilled")
     IN  \/ Delivered /\ CampaignGoto(p, "sent") /\ UNCHANGED unsure
         \/ /\ failures[s] < MaxAttempts
            /\ CampaignGoto(p, "rejected")
            /\ \/ UNCHANGED <<mailed, unsure, unfilled>>
               \/ Delivered /\ unsure' = [unsure EXCEPT ![s] = @ + 1]
  /\ UNCHANGED <<wording, lateEdit, campaign, subscriberVars, attempt, failures, round, target, copy, count, newcomers, deaths>>

RecordAttempt(p) ==
  /\ clerk[p] \in {"sent", "rejected"} /\ attempt[target[p]] # "none"
  /\ attempt' = [attempt EXCEPT ![target[p]] = IF clerk[p] = "sent" THEN "SENT" ELSE "FAILED"]
  /\ failures' = [failures EXCEPT ![target[p]] = IF clerk[p] = "sent" THEN @ ELSE @ + 1]
  /\ target' = [target EXCEPT ![p] = Nobody]
  /\ CampaignGoto(p, "claim")
  /\ UNCHANGED <<wordingVars, campaign, subscriberVars, mailed, unsure, round, copy, count, newcomers, deaths>>

\* One row for each subscriber who has left and has none; may fail unheard.
RecordSkipped(p) ==
  /\ clerk[p] = "claim" /\ round[p] = {}
  /\ \/ /\ campaign # "deleted"
        /\ attempt' = [s \in Subscribers |->
             IF subscriber[s] = "UNSUBSCRIBED" /\ attempt[s] = "none" THEN "SKIPPED_UNSUBSCRIBED" ELSE attempt[s]]
     \/ UNCHANGED attempt
  /\ CampaignGoto(p, "count")
  /\ UNCHANGED <<wordingVars, campaign, subscriberVars, mailed, unsure, failures, round, target, copy, count, newcomers, deaths>>

CountRemaining(p) ==
  /\ clerk[p] = "count"
  /\ count' = [count EXCEPT ![p] = StillNeedsAttempt = {}]
  /\ CampaignGoto(p, "finish")
  /\ UNCHANGED <<wordingVars, campaign, subscriberVars, deliveryVars, round, target, copy, newcomers, deaths>>

\* By id, whatever the status is by now.
FinishRound(p) ==
  /\ clerk[p] = "finish" /\ campaign # "deleted"
  /\ campaign' = IF count[p] THEN "SENT" ELSE campaign
  /\ Leave(p)
  /\ UNCHANGED <<wordingVars, subscriberVars, deliveryVars>>
-----------------------------------------------------------------------------
(* createMarketingCampaign, updateMarketingCampaign, deleteMarketingCampaign *)

CreateCampaign(words) ==
  /\ campaign = "none"
  /\ campaign' = "DRAFT" /\ wording' = words
  /\ UNCHANGED <<unfilled, lateEdit, subscriberVars, deliveryVars, clerkVars>>

StartUpdate(p, words) ==
  /\ "edit" \in CampaignMoves
  /\ clerk[p] = "idle" /\ campaign = "DRAFT" /\ words # wording
  /\ copy' = [copy EXCEPT ![p] = words]
  /\ CampaignGoto(p, "update")
  /\ UNCHANGED <<wordingVars, campaign, subscriberVars, deliveryVars, round, target, count, newcomers, deaths>>

\* By id, whatever the status is by now.
UpdateCampaign(p) ==
  /\ clerk[p] = "update" /\ campaign # "deleted"
  /\ wording' = copy[p]
  /\ lateEdit' = (lateEdit \/ campaign # "DRAFT" \/ \E q \in Clerks : clerk[q] = "own")
  /\ Leave(p)
  /\ UNCHANGED <<campaign, unfilled, subscriberVars, deliveryVars>>

StartDelete(p) ==
  /\ "delete" \in CampaignMoves
  /\ clerk[p] = "idle" /\ campaign = "DRAFT"
  /\ CampaignGoto(p, "delete")
  /\ UNCHANGED <<wordingVars, campaign, subscriberVars, deliveryVars, round, target, copy, count, newcomers, deaths>>

\* By id, whatever the status is by now; its send rows go with it.
DeleteCampaign(p) ==
  /\ clerk[p] = "delete" /\ campaign # "deleted"
  /\ campaign' = "deleted"
  /\ attempt' = [s \in Subscribers |-> "none"]
  /\ Leave(p)
  /\ UNCHANGED <<wordingVars, subscriberVars, mailed, unsure, failures>>
-----------------------------------------------------------------------------
(* Subscribers *)

\* The public form: creates the row, or takes back an unsubscribe.
Subscribe(s) ==
  /\ "subscribe" \in CampaignMoves
  /\ subscriber[s] \in {"none", "UNSUBSCRIBED"}
  /\ subscriber[s] = "UNSUBSCRIBED" => returns[s] < MaxReturns
  /\ returns' = [returns EXCEPT ![s] = IF subscriber[s] = "UNSUBSCRIBED" THEN @ + 1 ELSE @]
  /\ subscriber' = [subscriber EXCEPT ![s] = "SUBSCRIBED"]
  /\ UNCHANGED <<wordingVars, loyal, campaign, deliveryVars, clerkVars>>

UnsubscribeCustomer(s) ==
  /\ "leave" \in CampaignMoves
  /\ subscriber[s] = "SUBSCRIBED"
  /\ subscriber' = [subscriber EXCEPT ![s] = "UNSUBSCRIBED"]
  /\ loyal' = loyal \ {s}
  /\ UNCHANGED <<wordingVars, returns, campaign, deliveryVars, clerkVars>>

DeleteSubscriber(s) ==
  /\ "leave" \in CampaignMoves
  /\ subscriber[s] \in {"SUBSCRIBED", "UNSUBSCRIBED"}
  /\ subscriber' = [subscriber EXCEPT ![s] = "gone"]
  /\ attempt' = [attempt EXCEPT ![s] = "none"]
  /\ loyal' = loyal \ {s}
  /\ UNCHANGED <<wordingVars, returns, campaign, mailed, unsure, failures, clerkVars>>

StartImport(p, pasted) ==
  /\ "import" \in CampaignMoves
  /\ clerk[p] = "idle"
  /\ newcomers' = [newcomers EXCEPT ![p] = {s \in pasted : subscriber[s] = "none"}]
  /\ newcomers'[p] # {}
  /\ CampaignGoto(p, "import")
  /\ UNCHANGED <<wordingVars, campaign, subscriberVars, deliveryVars, round, target, copy, count, deaths>>

\* createMany without skipDuplicates: one address taken meanwhile fails all.
CreateSubscribers(p) ==
  /\ clerk[p] = "import"
  /\ subscriber' = IF \A s \in newcomers[p] : subscriber[s] = "none"
                   THEN [s \in Subscribers |-> IF s \in newcomers[p] THEN "SUBSCRIBED" ELSE subscriber[s]]
                   ELSE subscriber
  /\ Leave(p)
  /\ UNCHANGED <<wordingVars, loyal, returns, campaign, deliveryVars>>
-----------------------------------------------------------------------------
ClerkDies(p) ==
  /\ "crash" \in CampaignMoves
  /\ clerk[p] # "idle" /\ deaths < MaxDeaths
  /\ deaths' = deaths + 1
  /\ Quit(p)
  /\ UNCHANGED <<wordingVars, campaign, subscriberVars, deliveryVars>>

CampaignInit ==
  /\ campaign = "none" /\ wording = "none"
  /\ unfilled = FALSE /\ lateEdit = FALSE
  /\ subscriber \in [Subscribers -> {"none", "SUBSCRIBED", "UNSUBSCRIBED"}]
  /\ attempt = [s \in Subscribers |-> "none"]
  /\ clerk = [p \in Clerks |-> "idle"]
  /\ round = [p \in Clerks |-> {}]
  /\ target = [p \in Clerks |-> Nobody]
  /\ copy = [p \in Clerks |-> "none"]
  /\ count = [p \in Clerks |-> FALSE]
  /\ newcomers = [p \in Clerks |-> {}]
  /\ mailed = [s \in Subscribers |-> 0]
  /\ unsure = [s \in Subscribers |-> 0]
  /\ failures = [s \in Subscribers |-> 0]
  /\ loyal = {} /\ deaths = 0
  /\ returns = [s \in Subscribers |-> 0]

ClerkStep(p) ==
  \/ OwnCampaign(p) \/ AlreadyOwned(p) \/ ReadBatch(p)
  \/ \E s \in Subscribers : ClaimSubscriber(p, s) \/ AttemptedByAnother(p, s)
  \/ TargetVanished(p) \/ SendCampaign(p) \/ RecordAttempt(p) \/ RecordSkipped(p)
  \/ CountRemaining(p) \/ FinishRound(p)
  \/ UpdateCampaign(p) \/ DeleteCampaign(p) \/ CreateSubscribers(p)

CampaignNext ==
  \/ \E words \in Wordings : CreateCampaign(words)
  \/ \E p \in Clerks :
       \/ StartCampaign(p) \/ StartDelete(p) \/ ClerkStep(p) \/ ClerkDies(p)
       \/ \E words \in Wordings : StartUpdate(p, words)
       \/ \E pasted \in SUBSET Subscribers : StartImport(p, pasted)
  \/ \E s \in Subscribers : Subscribe(s) \/ UnsubscribeCustomer(s) \/ DeleteSubscriber(s)

CampaignSpec == CampaignInit /\ [][CampaignNext]_campaignVars
-----------------------------------------------------------------------------
(* What a campaign promises. *)
ClerkLabels == {"idle", "own", "batch", "claim", "send", "sent", "rejected", "count", "finish", "update", "delete", "import"}
AttemptStatuses == {"none", "PENDING", "SENT", "FAILED", "SKIPPED_UNSUBSCRIBED"}

\* Every column and local variable keeps its type.
CampaignTypeOK ==
  /\ campaign \in {"none", "DRAFT", "SENDING", "SENT", "deleted"} /\ wording \in Wordings \cup {"none"}
  /\ copy \in [Clerks -> Wordings \cup {"none"}] /\ unfilled \in BOOLEAN /\ lateEdit \in BOOLEAN
  /\ subscriber \in [Subscribers -> {"none", "SUBSCRIBED", "UNSUBSCRIBED", "gone"}]
  /\ attempt \in [Subscribers -> AttemptStatuses]
  /\ clerk \in [Clerks -> ClerkLabels]
  /\ round \in [Clerks -> SUBSET Subscribers] /\ newcomers \in [Clerks -> SUBSET Subscribers]
  /\ target \in [Clerks -> Subscribers \cup {Nobody}] /\ count \in [Clerks -> BOOLEAN]
  /\ mailed \in [Subscribers -> Nat] /\ unsure \in [Subscribers -> Nat]
  /\ failures \in [Subscribers -> Nat] /\ returns \in [Subscribers -> Nat]
  /\ loyal \subseteq Subscribers /\ deaths \in Nat
  /\ \A p \in Clerks : target[p] # Nobody <=> clerk[p] \in {"send", "sent", "rejected"}

\* No subscriber gets a campaign twice, however many clicks overlap, unless
\* the mail service took a message and its answer said otherwise
\* (marketing-campaigns.ts 182-212).
OneDelivery ==
  \A s \in Subscribers : mailed[s] <= 1 + unsure[s]

\* A campaign that says SENT reached everybody who was subscribed when it
\* was started and stayed so (lines 269-281).
SentReachedTheLoyal ==
  campaign = "SENT" => \A s \in loyal : attempt[s] = "SENT" /\ mailed[s] > 0

\* A starter's [[placeholder]] "must never reach subscribers" (lines
\* 136-141): it does only when an edit landed after a click had checked the
\* draft, as updateMarketingCampaign writes by id (48-58).
PlaceholderNeedsLateEdit ==
  unfilled => lateEdit

Abandoned(s) == attempt[s] = "PENDING" /\ \A p \in Clerks : target[p] # s
Overlooked(s) == attempt[s] = "SKIPPED_UNSUBSCRIBED"

\* "Continue Sending" ends every campaign, but for the two kinds of rows that
\* no later click attempts and every later click counts: an attempt whose
\* invocation died (lines 197-212), and a subscriber recorded as having left
\* who came back (lines 257-267).
CampaignEnds ==
  campaign = "SENDING"
    ~> \/ campaign \in {"SENT", "deleted"}
       \/ \E s \in Subscribed : Abandoned(s) \/ Overlooked(s)

\* Somebody keeps clicking, and an invocation that is not killed goes on.
CampaignFairness(p) ==
  /\ SF_campaignVars(StartCampaign(p))
  /\ \A q \in Clerks : WF_campaignVars(ClerkStep(q))
=============================================================================
