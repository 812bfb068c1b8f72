----------------------------- MODULE LeadIntake -----------------------------
(***************************************************************************)
(* A travel request becomes a lead of a contact: server/lead-intake.ts     *)
(* behind the public route and the authenticated API, createLead of        *)
(* server/actions/leads.ts, and server/contact-resolution.ts which all     *)
(* three call.  One action is one database statement, or one transaction,  *)
(* of one request p.  A request without a submission key is one whose key  *)
(* nobody else uses.                                                       *)
(***************************************************************************)
EXTENDS Integers, FiniteSets

CONSTANTS
  Requests,
  Keys,            \* submission keys; the id of a lead derives from its key
  Bodies,          \* what is submitted
  CustomerOf,      \* [Bodies -> whose phone and e-mail it carries]
  ContactRows,     \* rows of Contact
  Agents,
  MaxTries,        \* attempts of the contact transaction, 3 in the code
  MaxDrops,        \* bounds the requests that die
  NoRow, NoKey, NoBody, NoAgent

Customers == {CustomerOf[b] : b \in Bodies}
Channels == {"api", "form", "crm"}

ASSUME IntakeConstants ==
  /\ NoRow \notin ContactRows /\ NoKey \notin Keys /\ NoBody \notin Bodies /\ NoAgent \notin Agents
  /\ MaxTries \in Nat \ {0} /\ MaxDrops \in Nat

VARIABLES
  customer,     \* [ContactRows -> whose row it is, NoBody for none]
  ownerOf,      \* Contact.ownerId
  leadContact,  \* [Keys -> the lead's contact, NoRow when there is no lead]
  agentOf,      \* Lead.assignedAgentId
  offered,      \* the lead has been offered to the queue
  fingerprint,  \* WebsiteLeadFingerprint.requestHash
  stage,        \* [Requests -> its next statement]
  via, key, body,       \* what the request is
  clerk,        \* the agent who types it, and takes the lead
  match,        \* the contact it resolved
  isNew,        \* and whether it created it
  ownerSeen,    \* that contact's owner as it read it
  tries,
  \* history
  content,      \* what the lead was created from
  accepted,     \* what the API has answered 200 or 201 to
  wiped,        \* keys whose lead was deleted
  drops

contactVars == <<customer, ownerOf>>
leadVars == <<leadContact, agentOf, offered, fingerprint, content, wiped>>
formVars == <<via, key, body, clerk>>
requestVars == <<stage, formVars, match, isNew, ownerSeen, tries>>
intakeVars == <<contactVars, leadVars, requestVars, accepted, drops>>

Contacts == {c \in ContactRows : customer[c] # NoBody}
SavedLeads == {k \in Keys : leadContact[k] # NoRow}
Matching(b) == {c \in Contacts : customer[c] = CustomerOf[b]}

IntakeGoto(p, label) == stage' = [stage EXCEPT ![p] = label]

Answered(p) ==
  /\ IntakeGoto(p, "idle")
  /\ via' = [via EXCEPT ![p] = "form"]
  /\ key' = [key EXCEPT ![p] = NoKey]
  /\ body' = [body EXCEPT ![p] = NoBody]
  /\ clerk' = [clerk EXCEPT ![p] = NoAgent]
  /\ match' = [match EXCEPT ![p] = NoRow]
  /\ isNew' = [isNew EXCEPT ![p] = FALSE]
  /\ ownerSeen' = [ownerSeen EXCEPT ![p] = NoAgent]
  /\ tries' = [tries EXCEPT ![p] = 0]

Accept(p) ==
  accepted' = IF via[p] = "api" THEN accepted \cup {<<key[p], body[p]>>} ELSE accepted
-----------------------------------------------------------------------------
Submit(p, k, b, channel, who) ==
  /\ stage[p] = "idle"
  /\ channel = "crm" => k \notin SavedLeads \cup wiped \cup {key[q] : q \in Requests}
  /\ (channel = "crm") <=> (who # NoAgent)
  /\ IntakeGoto(p, IF channel = "crm" THEN "resolve" ELSE "check")
  /\ via' = [via EXCEPT ![p] = channel]
  /\ key' = [key EXCEPT ![p] = k]
  /\ body' = [body EXCEPT ![p] = b]
  /\ clerk' = [clerk EXCEPT ![p] = who]
  /\ UNCHANGED <<contactVars, leadVars, match, isNew, ownerSeen, tries, accepted, drops>>

\* What a repeat is answered: the public route asks no more, the API compares.
CheckKey(p) ==
  /\ stage[p] = "check"
  /\ IF key[p] \notin SavedLeads
     THEN IntakeGoto(p, "resolve") /\ UNCHANGED <<formVars, match, isNew, ownerSeen, tries>>
     ELSE IF via[p] = "api"
     THEN IntakeGoto(p, "compare") /\ UNCHANGED <<formVars, match, isNew, ownerSeen, tries>>
     ELSE Answered(p)
  /\ UNCHANGED <<contactVars, leadVars, accepted, drops>>

ComparesRequest(p) ==
  /\ stage[p] = "compare"
  /\ IF key[p] \in SavedLeads /\ fingerprint[key[p]] = body[p] THEN Accept(p) ELSE UNCHANGED accepted
  /\ Answered(p)
  /\ UNCHANGED <<contactVars, leadVars, drops>>
-----------------------------------------------------------------------------
(* resolveContactForNewLead: one Serializable transaction *)

ReadContact(p) ==
  /\ stage[p] = "resolve"
  /\ IF Matching(body[p]) = {}
     THEN IntakeGoto(p, "insert contact") /\ UNCHANGED match
     ELSE /\ \E c \in Matching(body[p]) : match' = [match EXCEPT ![p] = c]
          /\ IntakeGoto(p, "owner")
  /\ UNCHANGED <<contactVars, leadVars, formVars, isNew, ownerSeen, tries, accepted, drops>>

\* Defect: the transaction is not serializable.
NeverConflicts(p) == FALSE

\* Another transaction has committed a row that this one's read missed.
Conflicts(p) == Matching(body[p]) # {}

InsertContact(p, c) ==
  /\ stage[p] = "insert contact" /\ ~Conflicts(p)
  /\ c \in ContactRows \ Contacts
  /\ customer' = [customer EXCEPT ![c] = CustomerOf[body[p]]]
  /\ match' = [match EXCEPT ![p] = c]
  /\ isNew' = [isNew EXCEPT ![p] = TRUE]
  /\ IntakeGoto(p, "insert lead")
  /\ UNCHANGED <<ownerOf, leadVars, formVars, ownerSeen, tries, accepted, drops>>

SerializationFailure(p) ==
  /\ stage[p] = "insert contact" /\ Conflicts(p)
  /\ IF tries[p] + 1 < MaxTries
     THEN /\ IntakeGoto(p, "resolve")
          /\ tries' = [tries EXCEPT ![p] = @ + 1]
          /\ UNCHANGED <<formVars, match, isNew, ownerSeen>>
     ELSE Answered(p)
  /\ UNCHANGED <<contactVars, leadVars, accepted, drops>>
-----------------------------------------------------------------------------
(* createWebsiteFlightLead and createLead, after that *)

ReadOwner(p) ==
  /\ stage[p] = "owner"
  /\ ownerSeen' = [ownerSeen EXCEPT ![p] = IF match[p] \in Contacts THEN ownerOf[match[p]] ELSE NoAgent]
  /\ IntakeGoto(p, "insert lead")
  /\ UNCHANGED <<contactVars, leadVars, formVars, match, isNew, tries, accepted, drops>>

\* The owner of the contact takes the lead; failing that, who typed it.
LeadAgent(p) == IF ownerSeen[p] # NoAgent THEN ownerSeen[p] ELSE clerk[p]

NextAfterInsert(p) ==
  IF via[p] = "crm" THEN (IF isNew[p] THEN "own contact" ELSE "done")
  ELSE IF LeadAgent(p) = NoAgent THEN "distribute" ELSE "done"

\* One nested insert: the lead, its first activity and its fingerprint.
InsertLead(p) ==
  /\ stage[p] = "insert lead" /\ match[p] \in Contacts /\ key[p] \notin SavedLeads
  /\ leadContact' = [leadContact EXCEPT ![key[p]] = match[p]]
  /\ agentOf' = [agentOf EXCEPT ![key[p]] = LeadAgent(p)]
  /\ fingerprint' = [fingerprint EXCEPT ![key[p]] = IF via[p] = "api" THEN body[p] ELSE NoBody]
  /\ content' = [content EXCEPT ![key[p]] = body[p]]
  /\ IntakeGoto(p, NextAfterInsert(p))
  /\ UNCHANGED <<contactVars, offered, wiped, formVars, match, isNew, ownerSeen, tries, accepted, drops>>

\* The same key won the race for the primary key.
LeadIdCollision(p) ==
  /\ stage[p] = "insert lead" /\ match[p] \in Contacts /\ key[p] \in SavedLeads
  /\ IntakeGoto(p, "collided")
  /\ UNCHANGED <<contactVars, leadVars, formVars, match, isNew, ownerSeen, tries, accepted, drops>>

\* Confirmed by reading that row; if it is gone again, the answer is "failed".
ConfirmDuplicate(p) ==
  /\ stage[p] = "collided"
  /\ IF key[p] \in SavedLeads /\ via[p] = "api"
     THEN IntakeGoto(p, "compare") /\ UNCHANGED <<formVars, match, isNew, ownerSeen, tries>>
     ELSE Answered(p)
  /\ UNCHANGED <<contactVars, leadVars, accepted, drops>>

\* The contact was deleted meanwhile: "failed".
ContactVanished(p) ==
  /\ stage[p] \in {"insert lead", "own contact"} /\ match[p] \notin Contacts
  /\ Answered(p)
  /\ UNCHANGED <<contactVars, leadVars, accepted, drops>>

\* Best effort: what is not distributed here waits for the cron.
DistributeNew(p) ==
  /\ stage[p] = "distribute"
  /\ \/ /\ key[p] \in SavedLeads /\ agentOf[key[p]] = NoAgent
        /\ offered' = [offered EXCEPT ![key[p]] = TRUE]
     \/ UNCHANGED offered
  /\ IntakeGoto(p, "done")
  /\ UNCHANGED <<contactVars, leadContact, agentOf, fingerprint, content, wiped, formVars, match, isNew, ownerSeen, tries, accepted, drops>>

\* By id, whoever owns the contact by now.
OwnContact(p) ==
  /\ stage[p] = "own contact" /\ match[p] \in Contacts
  /\ ownerOf' = [ownerOf EXCEPT ![match[p]] = clerk[p]]
  /\ IntakeGoto(p, "done")
  /\ UNCHANGED <<customer, leadVars, formVars, match, isNew, ownerSeen, tries, accepted, drops>>

AnswerCreated(p) ==
  /\ stage[p] = "done"
  /\ Accept(p)
  /\ Answered(p)
  /\ UNCHANGED <<contactVars, leadVars, drops>>

RequestDies(p) ==
  /\ stage[p] # "idle" /\ drops < MaxDrops
  /\ drops' = drops + 1
  /\ Answered(p)
  /\ UNCHANGED <<contactVars, leadVars, accepted>>
-----------------------------------------------------------------------------
(* What else happens to leads and contacts: acceptLeadOffer, the           *)
(* reassignments, deleteLead and deleteContact.                            *)

CronOffers(k) ==
  /\ k \in SavedLeads /\ agentOf[k] = NoAgent /\ ~offered[k]
  /\ offered' = [offered EXCEPT ![k] = TRUE]
  /\ UNCHANGED <<contactVars, leadContact, agentOf, fingerprint, content, wiped, requestVars, accepted, drops>>

AcceptOffer(k, a) ==
  /\ k \in SavedLeads /\ agentOf[k] = NoAgent /\ offered[k]
  /\ agentOf' = [agentOf EXCEPT ![k] = a]
  /\ ownerOf' = [ownerOf EXCEPT ![leadContact[k]] = IF @ = NoAgent THEN a ELSE @]
  /\ UNCHANGED <<customer, leadContact, offered, fingerprint, content, wiped, requestVars, accepted, drops>>

ContactReassigned(c, a) ==
  /\ c \in Contacts /\ ownerOf[c] # a
  /\ ownerOf' = [ownerOf EXCEPT ![c] = a]
  /\ UNCHANGED <<customer, leadVars, requestVars, accepted, drops>>

Remove(ks) ==
  /\ leadContact' = [k \in Keys |-> IF k \in ks THEN NoRow ELSE leadContact[k]]
  /\ agentOf' = [k \in Keys |-> IF k \in ks THEN NoAgent ELSE agentOf[k]]
  /\ offered' = [k \in Keys |-> offered[k] /\ k \notin ks]
  /\ fingerprint' = [k \in Keys |-> IF k \in ks THEN NoBody ELSE fingerprint[k]]
  /\ wiped' = wiped \cup ks

RemoveLead(k) ==
  /\ k \in SavedLeads
  /\ Remove({k})
  /\ UNCHANGED <<contactVars, content, requestVars, accepted, drops>>

RemoveContact(c) ==
  /\ c \in Contacts
  /\ customer' = [customer EXCEPT ![c] = NoBody]
  /\ ownerOf' = [ownerOf EXCEPT ![c] = NoAgent]
  /\ Remove({k \in SavedLeads : leadContact[k] = c})
  /\ UNCHANGED <<content, requestVars, accepted, drops>>

IntakeInit ==
  /\ customer = [c \in ContactRows |-> NoBody]
  /\ ownerOf = [c \in ContactRows |-> NoAgent]
  /\ leadContact = [k \in Keys |-> NoRow]
  /\ agentOf = [k \in Keys |-> NoAgent]
  /\ offered = [k \in Keys |-> FALSE]
  /\ fingerprint = [k \in Keys |-> NoBody]
  /\ content = [k \in Keys |-> NoBody]
  /\ wiped = {} /\ accepted = {} /\ drops = 0
  /\ stage = [p \in Requests |-> "idle"]
  /\ via = [p \in Requests |-> "form"]
  /\ key = [p \in Requests |-> NoKey]
  /\ body = [p \in Requests |-> NoBody]
  /\ clerk = [p \in Requests |-> NoAgent]
  /\ match = [p \in Requests |-> NoRow]
  /\ isNew = [p \in Requests |-> FALSE]
  /\ ownerSeen = [p \in Requests |-> NoAgent]
  /\ tries = [p \in Requests |-> 0]

RequestStep(p) ==
  \/ CheckKey(p) \/ ComparesRequest(p) \/ ReadContact(p)
  \/ \E c \in ContactRows : InsertContact(p, c)
  \/ SerializationFailure(p) \/ ReadOwner(p) \/ InsertLead(p) \/ LeadIdCollision(p) \/ ConfirmDuplicate(p)
  \/ ContactVanished(p) \/ DistributeNew(p) \/ OwnContact(p) \/ AnswerCreated(p)

IntakeNext ==
  \/ \E p \in Requests :
       \/ RequestStep(p) \/ RequestDies(p)
       \/ \E k \in Keys, b \in Bodies, channel \in Channels, who \in Agents \cup {NoAgent} : Submit(p, k, b, channel, who)
  \/ \E k \in Keys : CronOffers(k) \/ RemoveLead(k) \/ \E a \in Agents : AcceptOffer(k, a)
  \/ \E c \in ContactRows : RemoveContact(c) \/ \E a \in Agents : ContactReassigned(c, a)

IntakeSpec == IntakeInit /\ [][IntakeNext]_intakeVars
-----------------------------------------------------------------------------
(* What must hold of the intake of leads. *)
Stages == {"idle", "check", "compare", "resolve", "insert contact", "owner", "insert lead", "collided",
           "distribute", "own contact", "done"}

IntakeRows ==
  /\ customer \in [ContactRows -> Customers \cup {NoBody}]
  /\ ownerOf \in [ContactRows -> Agents \cup {NoAgent}]
  /\ leadContact \in [Keys -> ContactRows \cup {NoRow}]
  /\ agentOf \in [Keys -> Agents \cup {NoAgent}]
  /\ offered \in [Keys -> BOOLEAN]
  /\ fingerprint \in [Keys -> Bodies \cup {NoBody}]
  /\ content \in [Keys -> Bodies \cup {NoBody}]
  /\ wiped \subseteq Keys /\ accepted \subseteq Keys \X Bodies /\ drops \in 0..MaxDrops

IntakeRequests ==
  /\ stage \in [Requests -> Stages]
  /\ via \in [Requests -> Channels]
  /\ key \in [Requests -> Keys \cup {NoKey}]
  /\ body \in [Requests -> Bodies \cup {NoBody}]
  /\ clerk \in [Requests -> Agents \cup {NoAgent}]
  /\ match \in [Requests -> ContactRows \cup {NoRow}]
  /\ isNew \in [Requests -> BOOLEAN]
  /\ ownerSeen \in [Requests -> Agents \cup {NoAgent}]
  /\ tries \in [Requests -> 0..MaxTries]

\* Every lead is of a contact that exists, with a fingerprint of what it was
\* made from if it has one, and a request in progress knows what it is about.
IntakeTypeOK ==
  /\ IntakeRows /\ IntakeRequests
  /\ \A k \in SavedLeads : leadContact[k] \in Contacts /\ fingerprint[k] \in {NoBody, content[k]}
  /\ \A p \in Requests :
       /\ stage[p] # "idle" => key[p] \in Keys /\ body[p] \in Bodies
       /\ stage[p] \in {"owner", "insert lead", "own contact"} => match[p] \in ContactRows

\* Two requests of one new customer, by whichever of the three ways they come
\* in, find or create one contact: the Serializable transaction turns the
\* second insert into a retry that finds the first (contact-resolution.ts).
OneContactPerCustomer ==
  \A c, d \in Contacts : customer[c] = customer[d] => c = d

\* When the API says a request is saved, the lead under its key was made from
\* that very request: another request under the same key, before or after it
\* or at once, is refused.  Only deleting the lead ends that.
AcceptedRequestIsSaved ==
  \A r \in accepted : content[r[1]] = r[2] \/ r[1] \in wiped
=============================================================================
