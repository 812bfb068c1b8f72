----------------------------- MODULE LeadOffer -----------------------------
(***************************************************************************)
(* What the lead queue promises, without saying how: leads, workers and a  *)
(* clock, no server invocations, no locks, no transactions.  Each lead is  *)
(* in one hand at a time, and each worker is counting down on at most one  *)
(* lead.  LeadQueue is shown to implement this specification.              *)
(***************************************************************************)
EXTENDS Integers

CONSTANTS Workers, Leads, None, WorkerCompany, LeadCompany, OfferWindow

VARIABLES assigned, offeredTo, expires, distributed, now

leadVars == <<assigned, offeredTo, expires, distributed>>

Live(l, w) == offeredTo[l] = w /\ expires[l] > now

Init ==
  /\ assigned = [l \in Leads |-> None]
  /\ offeredTo = [l \in Leads |-> None]
  /\ expires = [l \in Leads |-> 0]
  /\ distributed = {}
  /\ now = 0

Clear(l) ==
  /\ offeredTo' = [offeredTo EXCEPT ![l] = None]
  /\ expires' = [expires EXCEPT ![l] = 0]

\* Only a lead nobody owns and nobody is deciding on, to a worker of its
\* company who is not deciding on another lead, until at most one window
\* from now.
Offer(l, w, until) ==
  /\ assigned[l] = None
  /\ offeredTo[l] = None \/ expires[l] <= now
  /\ WorkerCompany[w] = LeadCompany[l]
  /\ \A k \in Leads \ {l} : ~Live(k, w)
  /\ offeredTo' = [offeredTo EXCEPT ![l] = w]
  /\ expires' = [expires EXCEPT ![l] = until]
  /\ UNCHANGED <<assigned, distributed, now>>

\* Only the worker holding the offer gets the lead through the queue.
Accept(l) ==
  /\ assigned[l] = None
  /\ offeredTo[l] # None
  /\ assigned' = [assigned EXCEPT ![l] = offeredTo[l]]
  /\ distributed' = distributed \cup {l}
  /\ Clear(l)
  /\ UNCHANGED now

\* Skipped, or missed.
Withdraw(l) ==
  /\ assigned[l] = None
  /\ offeredTo[l] # None
  /\ Clear(l)
  /\ UNCHANGED <<assigned, distributed, now>>

\* A person hands the lead over; whatever offer was out is gone.
HandOver(l, w) ==
  /\ assigned[l] # w
  /\ assigned' = [assigned EXCEPT ![l] = w]
  /\ Clear(l)
  /\ UNCHANGED <<distributed, now>>

TakeAway(l) ==
  /\ assigned[l] # None
  /\ assigned' = [assigned EXCEPT ![l] = None]
  /\ UNCHANGED <<offeredTo, expires, distributed, now>>

Tick == now' = now + 1 /\ UNCHANGED leadVars

Next ==
  \/ \E l \in Leads, w \in Workers :
       HandOver(l, w) \/ \E until \in 0..(now + OfferWindow) : Offer(l, w, until)
  \/ \E l \in Leads : Accept(l) \/ Withdraw(l) \/ TakeAway(l)
  \/ Tick

Spec == Init /\ [][Next]_<<leadVars, now>>
=============================================================================
