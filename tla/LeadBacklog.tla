---------------------------- MODULE LeadBacklog ----------------------------
(***************************************************************************)
(* The scan that hands waiting website leads to the queue, of              *)
(* server/actions/lead-queue.ts: distributePendingWebsiteLeads, started by *)
(* the cron route and by polls, and distributeNewWebsiteLead for a lead    *)
(* just created.  What offerLeadToNextWorker does for one lead is one step *)
(* here, taken apart in LeadQueue; this module is about which leads it is  *)
(* called for.  Leads are numbered in the order of their creation.         *)
(***************************************************************************)
EXTENDS Integers, Sequences, FiniteSets, SequencesExt

CONSTANTS
  Backlog,         \* leads, a set of numbers
  Helpers,         \* accounts that can be offered leads
  Scans,
  CompanyOfLead, CompanyOfHelper,
  MaxLeadsPerRun,  \* MAX_LEADS_PER_RUN
  MaxScanDeaths,   \* bounds the scans that are killed
  NoHelper

ASSUME BacklogConstants ==
  /\ Backlog \subseteq Nat /\ NoHelper \notin Helpers
  /\ MaxLeadsPerRun \in Nat \ {0} /\ MaxScanDeaths \in Nat

VARIABLES
  arrived,     \* leads that exist
  taken,       \* leads with an agent, or handed out before
  offeree,     \* [Backlog -> whom it is offered to]
  accepting,   \* helpers with an active queue row
  scan,        \* [Scans -> next statement]
  list,        \* leads it has still to look at
  exhausted,   \* companies without anybody, as it found
  scanDeaths

backlogVars == <<arrived, taken, offeree, accepting, scan, list, exhausted, scanDeaths>>

Pending == {l \in arrived \ taken : offeree[l] = NoHelper}
Holding == {w \in Helpers : \E l \in Backlog : offeree[l] = w}
Ready(company) == {w \in accepting \ Holding : CompanyOfHelper[w] = company}

\* The oldest, and no more than the limit.
PendingInOrder == SetToSortSeq(Pending, <)

Batch == SubSeq(PendingInOrder, 1, IF Len(PendingInOrder) < MaxLeadsPerRun THEN Len(PendingInOrder) ELSE MaxLeadsPerRun)
-----------------------------------------------------------------------------
StartScan(p) ==
  /\ scan[p] = "idle"
  /\ scan' = [scan EXCEPT ![p] = "read"]
  /\ UNCHANGED <<arrived, taken, offeree, accepting, list, exhausted, scanDeaths>>

CronStarts(p) == StartScan(p)

\* Anybody's poll who holds no live offer.
PollStarts(p) == Helpers \ Holding # {} /\ StartScan(p)

\* A lead just created is offered at once.
CreateLead(p, l) ==
  /\ scan[p] = "idle" /\ l \in Backlog \ arrived
  /\ \A k \in Backlog \ arrived : l <= k
  /\ arrived' = arrived \cup {l}
  /\ scan' = [scan EXCEPT ![p] = "next"]
  /\ list' = [list EXCEPT ![p] = <<l>>]
  /\ UNCHANGED <<taken, offeree, accepting, exhausted, scanDeaths>>

ReadPending(p) ==
  /\ scan[p] = "read"
  /\ scan' = [scan EXCEPT ![p] = "next"]
  /\ list' = [list EXCEPT ![p] = Batch]
  /\ UNCHANGED <<arrived, taken, offeree, accepting, exhausted, scanDeaths>>

Looks(p) == scan[p] = "next" /\ list[p] # <<>>
Company(p) == CompanyOfLead[Head(list[p])]
Waits(p) == Company(p) \notin exhausted[p] /\ Head(list[p]) \in Pending
NextLead(p) == list' = [list EXCEPT ![p] = Tail(@)]

OfferLead(p, w) ==
  /\ Looks(p) /\ Waits(p) /\ w \in Ready(Company(p))
  /\ offeree' = [offeree EXCEPT ![Head(list[p])] = w]
  /\ NextLead(p)
  /\ UNCHANGED <<arrived, taken, accepting, scan, exhausted, scanDeaths>>

\* Defect: the whole scan stops at the first miss.
StopsAtMiss(p) ==
  /\ Looks(p) /\ Waits(p) /\ Ready(Company(p)) = {}
  /\ list' = [list EXCEPT ![p] = <<>>]
  /\ UNCHANGED <<arrived, taken, offeree, accepting, scan, exhausted, scanDeaths>>

\* Nobody, or nobody not locked by a sibling.
MissCompany(p) ==
  /\ Looks(p) /\ Waits(p) /\ Ready(Company(p)) = {}
  /\ exhausted' = [exhausted EXCEPT ![p] = @ \cup {Company(p)}]
  /\ NextLead(p)
  /\ UNCHANGED <<arrived, taken, offeree, accepting, scan, scanDeaths>>

\* Its company is exhausted, or somebody has or is offered the lead by now.
PassOver(p) ==
  /\ Looks(p) /\ ~Waits(p)
  /\ NextLead(p)
  /\ UNCHANGED <<arrived, taken, offeree, accepting, scan, exhausted, scanDeaths>>

ScanEnds(p) ==
  /\ scan[p] = "next" /\ list[p] = <<>>
  /\ scan' = [scan EXCEPT ![p] = "idle"]
  /\ exhausted' = [exhausted EXCEPT ![p] = {}]
  /\ UNCHANGED <<arrived, taken, offeree, accepting, list, scanDeaths>>

ScanDies(p) ==
  /\ scan[p] # "idle" /\ scanDeaths < MaxScanDeaths
  /\ scanDeaths' = scanDeaths + 1
  /\ scan' = [scan EXCEPT ![p] = "idle"]
  /\ list' = [list EXCEPT ![p] = <<>>]
  /\ exhausted' = [exhausted EXCEPT ![p] = {}]
  /\ UNCHANGED <<arrived, taken, offeree, accepting>>
-----------------------------------------------------------------------------
(* The people, as LeadQueue has them in detail *)

TakeOffer(l) ==
  /\ offeree[l] # NoHelper
  /\ taken' = taken \cup {l}
  /\ offeree' = [offeree EXCEPT ![l] = NoHelper]
  /\ UNCHANGED <<arrived, accepting, scan, list, exhausted, scanDeaths>>

\* Skipped or lapsed: the helper is paused, the lead goes to the next one.
PassOnOffer(l) ==
  /\ offeree[l] # NoHelper
  /\ accepting' = accepting \ {offeree[l]}
  /\ \E w \in (IF Ready(CompanyOfLead[l]) = {} THEN {NoHelper} ELSE Ready(CompanyOfLead[l])) :
       offeree' = [offeree EXCEPT ![l] = w]
  /\ UNCHANGED <<arrived, taken, scan, list, exhausted, scanDeaths>>

AssignByHand(l) ==
  /\ l \in arrived \ taken
  /\ taken' = taken \cup {l}
  /\ offeree' = [offeree EXCEPT ![l] = NoHelper]
  /\ UNCHANGED <<arrived, accepting, scan, list, exhausted, scanDeaths>>

SwitchAccepting(w) ==
  /\ accepting' = (accepting \ {w}) \cup ({w} \ accepting)
  /\ UNCHANGED <<arrived, taken, offeree, scan, list, exhausted, scanDeaths>>

BacklogInit ==
  /\ arrived = {} /\ taken = {} /\ accepting = {} /\ scanDeaths = 0
  /\ offeree = [l \in Backlog |-> NoHelper]
  /\ scan = [p \in Scans |-> "idle"]
  /\ list = [p \in Scans |-> <<>>]
  /\ exhausted = [p \in Scans |-> {}]

ScanStep(p) ==
  \/ ReadPending(p) \/ MissCompany(p) \/ PassOver(p) \/ ScanEnds(p)
  \/ \E w \in Helpers : OfferLead(p, w)

BacklogNext ==
  \/ \E p \in Scans : \/ CronStarts(p) \/ PollStarts(p) \/ ScanStep(p) \/ ScanDies(p)
                      \/ \E l \in Backlog : CreateLead(p, l)
  \/ \E l \in Backlog : TakeOffer(l) \/ PassOnOffer(l) \/ AssignByHand(l)
  \/ \E w \in Helpers : SwitchAccepting(w)

\* Somebody has the application open.
BacklogFairness(p) == WF_backlogVars(PollStarts(p) \/ ScanStep(p))

BacklogSpec == BacklogInit /\ [][BacklogNext]_backlogVars
-----------------------------------------------------------------------------
(* What the scan of waiting leads must do. *)
BacklogTypeOK ==
  /\ arrived \subseteq Backlog /\ taken \subseteq arrived /\ accepting \subseteq Helpers
  /\ offeree \in [Backlog -> Helpers \cup {NoHelper}]
  /\ \A l \in Backlog : offeree[l] # NoHelper => l \in arrived \ taken
  /\ scan \in [Scans -> {"idle", "read", "next"}]
  /\ \A p \in Scans : ToSet(list[p]) \subseteq arrived /\ Len(list[p]) <= MaxLeadsPerRun

\* A full batch of older leads waits ahead of l, of companies where nobody is
\* free: the code takes the 50 oldest whatever company they are of.
Crowded(l) ==
  Cardinality({k \in Pending : k < l /\ Ready(CompanyOfLead[k]) = {}}) >= MaxLeadsPerRun

\* A waiting lead is offered, or finds nobody free in its own company at some
\* point: what another company's stranded leads do to a scan is their business
\* (the comment at lead-queue.ts 543-547), as long as they do not fill a batch.
WaitingLeadIsReached ==
  \A l \in Backlog :
    l \in Pending ~> l \notin Pending \/ Ready(CompanyOfLead[l]) = {} \/ Crowded(l)
=============================================================================
