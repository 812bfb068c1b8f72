--------------------------- MODULE Records_proofs ---------------------------
(* What holds of lead intake, stored cards and attachments, for any         *)
(* requests, and that the composed records keep what each part promises.    *)
EXTENDS MCRecords, Office_proofs

-----------------------------------------------------------------------------
(* Lead intake *)

\* Only a lead that is there, or was deleted, was made from something.
MadeLeads == \A k \in Keys : content[k] # NoBody => k \in SavedLeads \cup wiped

\* A request past its insert made the lead of its key, unless that was deleted.
InsertsAreSaved ==
  \A p \in Requests :
    stage[p] \in {"distribute", "own contact", "done"} => content[key[p]] = body[p] \/ key[p] \in wiped

\* The inductive invariant of the intake.
IntakeInv ==
  /\ IntakeTypeOK /\ MadeLeads /\ InsertsAreSaved
  /\ OneContactPerCustomer /\ AcceptedRequestIsSaved

LEMMA IntakeStarts == IntakeInit => IntakeInv
<1> SUFFICES ASSUME IntakeInit PROVE IntakeInv
  OBVIOUS
<1> USE IntakeConstants DEF IntakeInit
<1>1. IntakeRows
  BY DEF IntakeRows
<1>2. IntakeRequests
  BY DEF IntakeRequests, Stages, Channels
<1>3. SavedLeads = {} /\ Contacts = {}
  BY DEF SavedLeads, Contacts
<1> QED BY <1>1, <1>2, <1>3 DEF IntakeInv, IntakeTypeOK, MadeLeads, InsertsAreSaved, OneContactPerCustomer,
     AcceptedRequestIsSaved

\* A step that leaves the rows as they are, and moves one request on without
\* changing what it is, keeps all but what its new stage needs.
LEMMA GoingOnKeepsIntake ==
  ASSUME IntakeInv, NEW p \in Requests, NEW label \in Stages \ {"idle"}, stage[p] # "idle",
         IntakeGoto(p, label), UNCHANGED <<contactVars, leadVars, formVars, accepted>>,
         drops' = drops,
         match' \in [Requests -> ContactRows \cup {NoRow}],
         isNew' \in [Requests -> BOOLEAN], ownerSeen' \in [Requests -> Agents \cup {NoAgent}],
         tries' \in [Requests -> 0..MaxTries],
         \A q \in Requests \ {p} : match'[q] = match[q],
         label \in {"owner", "insert lead", "own contact"} => match'[p] \in ContactRows,
         label \in {"distribute", "own contact", "done"} => stage[p] \in {"distribute", "own contact", "done"}
  PROVE  IntakeInv'
<1> USE DEF IntakeInv, contactVars, leadVars, formVars
<1>1. IntakeRows'
  BY DEF IntakeTypeOK, IntakeRows
<1>2. stage' \in [Requests -> Stages] /\ stage'[p] = label /\ \A q \in Requests \ {p} : stage'[q] = stage[q]
  BY DEF IntakeTypeOK, IntakeRequests, IntakeGoto
<1>3. IntakeRequests'
  BY <1>2 DEF IntakeTypeOK, IntakeRequests
<1>4. Contacts' = Contacts /\ SavedLeads' = SavedLeads
  BY DEF Contacts, SavedLeads
<1>5. \A q \in Requests :
        /\ stage'[q] # "idle" => key'[q] \in Keys /\ body'[q] \in Bodies
        /\ stage'[q] \in {"owner", "insert lead", "own contact"} => match'[q] \in ContactRows
  <2> TAKE q \in Requests
  <2>1. CASE q = p
    BY <1>2, <2>1 DEF IntakeTypeOK
  <2>2. CASE q # p
    BY <1>2, <2>2 DEF IntakeTypeOK
  <2> QED BY <2>1, <2>2
<1>6. IntakeTypeOK'
  BY <1>1, <1>3, <1>4, <1>5 DEF IntakeTypeOK
<1>7. MadeLeads' /\ OneContactPerCustomer' /\ AcceptedRequestIsSaved'
  BY <1>4 DEF MadeLeads, OneContactPerCustomer, AcceptedRequestIsSaved
<1>8. InsertsAreSaved'
  BY <1>2 DEF InsertsAreSaved
<1> QED BY <1>6, <1>7, <1>8

\* A new request has made no attempt.
LEMMA NoTries == 0 \in 0..MaxTries
  BY IntakeConstants

\* An answered request leaves nothing behind but what it was told.
LEMMA AnsweringKeepsIntake ==
  ASSUME IntakeInv, NEW p \in Requests, Answered(p), UNCHANGED <<contactVars, leadVars>>, drops' \in 0..MaxDrops,
         accepted' \subseteq Keys \X Bodies, \A r \in accepted' : content[r[1]] = r[2] \/ r[1] \in wiped
  PROVE  IntakeInv'
<1> USE IntakeConstants DEF IntakeInv, contactVars, leadVars
<1>1. IntakeRows'
  BY DEF IntakeTypeOK, IntakeRows
<1>2. IntakeRequests'
  <2> USE DEF IntakeTypeOK, IntakeRequests, Answered
  <2>1. stage' \in [Requests -> Stages] /\ via' \in [Requests -> Channels]
    BY DEF IntakeGoto, Stages, Channels
  <2>2. key' \in [Requests -> Keys \cup {NoKey}] /\ body' \in [Requests -> Bodies \cup {NoBody}]
    OBVIOUS
  <2>3. clerk' \in [Requests -> Agents \cup {NoAgent}] /\ match' \in [Requests -> ContactRows \cup {NoRow}]
    OBVIOUS
  <2>4. isNew' \in [Requests -> BOOLEAN] /\ ownerSeen' \in [Requests -> Agents \cup {NoAgent}]
    OBVIOUS
  <2>5. tries' \in [Requests -> 0..MaxTries]
    BY NoTries
  <2> QED BY <2>1, <2>2, <2>3, <2>4, <2>5
<1>3. stage'[p] = "idle" /\ \A q \in Requests \ {p} :
        stage'[q] = stage[q] /\ key'[q] = key[q] /\ body'[q] = body[q] /\ match'[q] = match[q]
  BY DEF IntakeTypeOK, IntakeRequests, Answered, IntakeGoto
<1>4. Contacts' = Contacts /\ SavedLeads' = SavedLeads
  BY DEF Contacts, SavedLeads
<1>5. IntakeTypeOK'
  BY <1>1, <1>2, <1>3, <1>4 DEF IntakeTypeOK
<1>6. MadeLeads' /\ OneContactPerCustomer' /\ AcceptedRequestIsSaved'
  BY <1>4 DEF MadeLeads, OneContactPerCustomer, AcceptedRequestIsSaved
<1>7. InsertsAreSaved'
  BY <1>3 DEF InsertsAreSaved
<1> QED BY <1>5, <1>6, <1>7

\* A request comes in.
LEMMA SubmitKeepsIntake ==
  ASSUME IntakeInv, NEW p \in Requests, NEW k \in Keys, NEW b \in Bodies, NEW channel \in Channels,
         NEW who \in Agents \cup {NoAgent}, Submit(p, k, b, channel, who)
  PROVE  IntakeInv'
<1> USE IntakeConstants DEF IntakeInv, Submit, contactVars, leadVars
<1>1. IntakeRows'
  BY DEF IntakeTypeOK, IntakeRows
<1>2. IntakeRequests'
  BY DEF IntakeTypeOK, IntakeRequests, IntakeGoto, Stages
<1>3. /\ stage'[p] \in {"resolve", "check"} /\ key'[p] = k /\ body'[p] = b
      /\ \A q \in Requests \ {p} : stage'[q] = stage[q] /\ key'[q] = key[q] /\ body'[q] = body[q] /\ match'[q] = match[q]
  BY DEF IntakeTypeOK, IntakeRequests, IntakeGoto
<1>4. Contacts' = Contacts /\ SavedLeads' = SavedLeads
  BY DEF Contacts, SavedLeads
<1>5. IntakeTypeOK'
  BY <1>1, <1>2, <1>3, <1>4 DEF IntakeTypeOK
<1>6. MadeLeads' /\ OneContactPerCustomer' /\ AcceptedRequestIsSaved'
  BY <1>4 DEF MadeLeads, OneContactPerCustomer, AcceptedRequestIsSaved
<1>7. InsertsAreSaved'
  <2>1. content' = content /\ wiped' = wiped
    OBVIOUS
  <2> HIDE DEF Submit
  <2> QED BY <1>3, <2>1 DEF InsertsAreSaved
<1> QED BY <1>5, <1>6, <1>7

\* A contact is inserted only for a customer who has none: its phone number is unique.
LEMMA InsertContactKeepsIntake ==
  ASSUME IntakeInv, NEW p \in Requests, NEW c \in ContactRows, InsertContact(p, c)
  PROVE  IntakeInv'
<1> USE IntakeConstants DEF IntakeInv, InsertContact, leadVars, formVars
<1>0. body[p] \in Bodies /\ key[p] \in Keys /\ c \notin Contacts
  BY DEF IntakeTypeOK
<1>1. customer' \in [ContactRows -> Customers \cup {NoBody}] /\ customer'[c] = CustomerOf[body[p]]
      /\ \A d \in ContactRows \ {c} : customer'[d] = customer[d]
  BY <1>0 DEF IntakeTypeOK, IntakeRows, Customers
<1>2. IntakeRows'
  BY <1>1 DEF IntakeTypeOK, IntakeRows
<1>3. IntakeRequests'
  BY DEF IntakeTypeOK, IntakeRequests, IntakeGoto, Stages
<1>4. /\ stage'[p] = "insert lead" /\ match'[p] = c
      /\ \A q \in Requests \ {p} : stage'[q] = stage[q] /\ match'[q] = match[q]
  BY DEF IntakeTypeOK, IntakeRequests, IntakeGoto
<1>5. Contacts \subseteq Contacts' /\ Contacts' \subseteq Contacts \cup {c} /\ SavedLeads' = SavedLeads
  BY <1>0, <1>1 DEF Contacts, SavedLeads
<1>6. IntakeTypeOK'
  BY <1>0, <1>2, <1>3, <1>4, <1>5 DEF IntakeTypeOK
<1>7. MadeLeads' /\ AcceptedRequestIsSaved'
  BY <1>5 DEF MadeLeads, AcceptedRequestIsSaved
<1>8. InsertsAreSaved'
  BY <1>4 DEF InsertsAreSaved
<1>9. OneContactPerCustomer'
  <2>1. \A d \in Contacts : customer[d] # CustomerOf[body[p]]
    BY DEF Conflicts, Matching
  <2>2. \A d \in Contacts : d # c /\ customer'[d] = customer[d]
    BY <1>0, <1>1 DEF Contacts
  <2>3. \A d, e \in Contacts : customer[d] = customer[e] => d = e
    BY DEF OneContactPerCustomer
  <2> HIDE DEF IntakeInv, InsertContact
  <2>4. \A d \in Contacts' : d = c \/ d \in Contacts
    BY <1>5
  <2>5. \A d \in Contacts : customer'[d] = customer[d] /\ customer'[d] # customer'[c]
    BY <1>1, <2>1, <2>2
  <2>6. \A d, e \in Contacts' : customer'[d] = customer'[e] => d = e
    BY <2>3, <2>4, <2>5
  <2> QED BY <2>6 DEF OneContactPerCustomer
<1> QED BY <1>6, <1>7, <1>8, <1>9

\* A lead is inserted only under a key that has none.
LEMMA InsertLeadKeepsIntake ==
  ASSUME IntakeInv, NEW p \in Requests, InsertLead(p)
  PROVE  IntakeInv'
<1> USE IntakeConstants DEF IntakeInv, InsertLead, contactVars, formVars
<1>0. body[p] \in Bodies /\ key[p] \in Keys /\ match[p] \in Contacts /\ match[p] \in ContactRows /\ key[p] \notin SavedLeads
  BY DEF IntakeTypeOK, Contacts
<1>a. UNCHANGED <<customer, ownerOf, offered, wiped>>
  OBVIOUS
<1> DEFINE k == key[p]
<1>1. /\ leadContact' \in [Keys -> ContactRows \cup {NoRow}] /\ content' \in [Keys -> Bodies \cup {NoBody}]
      /\ leadContact'[k] = match[p] /\ content'[k] = body[p] /\ fingerprint'[k] \in {NoBody, body[p]}
      /\ \A l \in Keys \ {k} : leadContact'[l] = leadContact[l] /\ content'[l] = content[l] /\ fingerprint'[l] = fingerprint[l]
  BY <1>0 DEF IntakeTypeOK, IntakeRows
<1>2. agentOf' \in [Keys -> Agents \cup {NoAgent}] /\ fingerprint' \in [Keys -> Bodies \cup {NoBody}]
  BY <1>0 DEF IntakeTypeOK, IntakeRows, IntakeRequests, LeadAgent
<1>3. IntakeRows'
  BY <1>1, <1>2 DEF IntakeTypeOK, IntakeRows
<1>4. NextAfterInsert(p) \in {"own contact", "done", "distribute"}
  BY DEF NextAfterInsert
<1>5. /\ stage' \in [Requests -> Stages] /\ stage'[p] \in {"own contact", "done", "distribute"}
      /\ \A q \in Requests \ {p} : stage'[q] = stage[q]
  BY <1>4 DEF IntakeTypeOK, IntakeRequests, IntakeGoto, Stages
<1>6. IntakeRequests'
  BY <1>5 DEF IntakeTypeOK, IntakeRequests
<1>7. Contacts' = Contacts /\ SavedLeads' = SavedLeads \cup {k}
  <2>1. match[p] # NoRow
    BY <1>0
  <2>2. \A l \in Keys : leadContact'[l] # NoRow <=> leadContact[l] # NoRow \/ l = k
    BY <1>0, <1>1, <2>1
  <2> HIDE DEF InsertLead, k
  <2>3. Contacts' = Contacts
    BY <1>a DEF Contacts
  <2> QED BY <1>0, <2>2, <2>3 DEF SavedLeads, k
<1>8. \A l \in SavedLeads' : leadContact'[l] \in Contacts' /\ fingerprint'[l] \in {NoBody, content'[l]}
  <2> TAKE l \in SavedLeads'
  <2>1. l \in Keys
    BY <1>0, <1>7 DEF SavedLeads
  <2>2. CASE l = k
    BY <1>0, <1>1, <1>7, <2>2
  <2>3. CASE l # k
    <3>1. l \in SavedLeads /\ leadContact'[l] = leadContact[l] /\ fingerprint'[l] = fingerprint[l] /\ content'[l] = content[l]
      BY <1>1, <1>7, <2>1, <2>3
    <3>2. leadContact[l] \in Contacts /\ fingerprint[l] \in {NoBody, content[l]}
      BY <3>1 DEF IntakeTypeOK
    <3> HIDE DEF InsertLead, k
    <3> QED BY <1>7, <3>1, <3>2
  <2> QED BY <2>2, <2>3
<1>9. IntakeTypeOK'
  BY <1>0, <1>3, <1>5, <1>6, <1>8 DEF IntakeTypeOK
<1>10. MadeLeads'
  BY <1>0, <1>1, <1>7 DEF MadeLeads
<1>11. content[k] = NoBody \/ k \in wiped
  BY <1>0 DEF MadeLeads
<1>12. InsertsAreSaved'
  <2> SUFFICES ASSUME NEW q \in Requests, stage'[q] \in {"distribute", "own contact", "done"}
               PROVE  content'[key[q]] = body[q] \/ key[q] \in wiped
    BY DEF InsertsAreSaved
  <2>1. CASE q = p
    BY <1>1, <2>1
  <2>2. CASE q # p
    <3>1. (content[key[q]] = body[q] \/ key[q] \in wiped) /\ body[q] \in Bodies /\ key[q] \in Keys
      BY <1>5, <2>2 DEF InsertsAreSaved, IntakeTypeOK
    <3>2. CASE key[q] = k
      BY <1>11, <3>1, <3>2
    <3>3. CASE key[q] # k
      BY <1>1, <3>1, <3>3
    <3> QED BY <3>2, <3>3
  <2> QED BY <2>1, <2>2
<1>13. AcceptedRequestIsSaved'
  <2> SUFFICES ASSUME NEW r \in accepted PROVE content'[r[1]] = r[2] \/ r[1] \in wiped
    BY DEF AcceptedRequestIsSaved
  <2>1. r[1] \in Keys /\ r[2] \in Bodies /\ (content[r[1]] = r[2] \/ r[1] \in wiped)
    BY DEF AcceptedRequestIsSaved, IntakeTypeOK, IntakeRows
  <2>2. CASE r[1] = k
    BY <1>11, <2>1, <2>2
  <2>3. CASE r[1] # k
    BY <1>1, <2>1, <2>3
  <2> QED BY <2>2, <2>3
<1>14. OneContactPerCustomer'
  BY <1>7 DEF OneContactPerCustomer
<1> QED BY <1>9, <1>10, <1>12, <1>13, <1>14

\* Deleting leads loses only what is then known to be wiped.
LEMMA RemovingKeepsIntake ==
  ASSUME IntakeInv, NEW ks \in SUBSET Keys, Remove(ks), UNCHANGED <<content, requestVars, accepted, drops>>,
         customer' \in [ContactRows -> Customers \cup {NoBody}], ownerOf' \in [ContactRows -> Agents \cup {NoAgent}],
         Contacts' \subseteq Contacts, \A c \in Contacts' : customer'[c] = customer[c],
         \A k \in SavedLeads \ ks : leadContact[k] \in Contacts'
  PROVE  IntakeInv'
<1> USE IntakeConstants DEF IntakeInv, requestVars, formVars
<1>1. /\ leadContact' \in [Keys -> ContactRows \cup {NoRow}] /\ agentOf' \in [Keys -> Agents \cup {NoAgent}]
      /\ offered' \in [Keys -> BOOLEAN] /\ fingerprint' \in [Keys -> Bodies \cup {NoBody}]
      /\ wiped' = wiped \cup ks
  BY DEF Remove, IntakeTypeOK, IntakeRows
<1>2. IntakeRows' /\ IntakeRequests'
  BY <1>1 DEF IntakeTypeOK, IntakeRows, IntakeRequests
<1>3. SavedLeads' = SavedLeads \ ks /\ \A k \in SavedLeads' : leadContact'[k] = leadContact[k] /\ fingerprint'[k] = fingerprint[k]
  BY DEF SavedLeads, Remove
<1>4. IntakeTypeOK'
  BY <1>2, <1>3 DEF IntakeTypeOK
<1>5. MadeLeads' /\ InsertsAreSaved' /\ AcceptedRequestIsSaved'
  BY <1>1, <1>3 DEF MadeLeads, InsertsAreSaved, AcceptedRequestIsSaved
<1>6. OneContactPerCustomer'
  BY DEF OneContactPerCustomer
<1> QED BY <1>4, <1>5, <1>6

\* Owners and offers come and go, and nothing of the above is about them.
LEMMA OwnersKeepIntake ==
  ASSUME IntakeInv,
         ownerOf' \in [ContactRows -> Agents \cup {NoAgent}], agentOf' \in [Keys -> Agents \cup {NoAgent}],
         offered' \in [Keys -> BOOLEAN],
         UNCHANGED <<customer, leadContact, fingerprint, content, wiped, requestVars, accepted, drops>>
  PROVE  IntakeInv'
<1> USE DEF IntakeInv, requestVars, formVars
<1>1. IntakeRows' /\ IntakeRequests'
  BY DEF IntakeTypeOK, IntakeRows, IntakeRequests
<1>2. Contacts' = Contacts /\ SavedLeads' = SavedLeads
  BY DEF Contacts, SavedLeads
<1>3. IntakeTypeOK'
  BY <1>1, <1>2 DEF IntakeTypeOK
<1> QED BY <1>2, <1>3 DEF MadeLeads, InsertsAreSaved, OneContactPerCustomer, AcceptedRequestIsSaved

\* Every step of IntakeNext keeps the invariant: one case per statement.
LEMMA IntakeSteps == IntakeInv /\ [IntakeNext]_intakeVars => IntakeInv'
<1> SUFFICES ASSUME IntakeInv, [IntakeNext]_intakeVars PROVE IntakeInv'
  OBVIOUS
<1> USE IntakeConstants
<1>0. IntakeTypeOK /\ IntakeRows /\ IntakeRequests
  BY DEF IntakeInv, IntakeTypeOK
<1>a. drops \in 0..MaxDrops /\ accepted \subseteq Keys \X Bodies
      /\ \A r \in accepted : content[r[1]] = r[2] \/ r[1] \in wiped
  BY <1>0 DEF IntakeInv, IntakeRows, AcceptedRequestIsSaved
<1>1. ASSUME NEW p \in Requests, CheckKey(p) PROVE IntakeInv'
  <2>1. CASE Answered(p)
    BY <1>1, <1>a, <2>1, AnsweringKeepsIntake DEF CheckKey
  <2>2. CASE ~Answered(p)
    <3>1. PICK label \in {"resolve", "compare"} : IntakeGoto(p, label) /\ UNCHANGED <<formVars, match, isNew, ownerSeen, tries>>
      BY <1>1, <2>2 DEF CheckKey
    <3> QED BY <1>0, <1>1, <3>1, GoingOnKeepsIntake DEF CheckKey, Stages, IntakeRequests
  <2> QED BY <2>1, <2>2
<1>2. ASSUME NEW p \in Requests, ComparesRequest(p) PROVE IntakeInv'
  <2>1. key[p] \in Keys /\ body[p] \in Bodies
    BY <1>0, <1>2 DEF IntakeTypeOK, ComparesRequest
  <2>2. accepted' \subseteq Keys \X Bodies /\ \A r \in accepted' : content[r[1]] = r[2] \/ r[1] \in wiped
    <3>1. CASE key[p] \in SavedLeads /\ fingerprint[key[p]] = body[p]
      <4>1. content[key[p]] = body[p]
        BY <1>0, <2>1, <3>1 DEF IntakeTypeOK
      <4>2. accepted' \subseteq accepted \cup {<<key[p], body[p]>>}
        BY <1>2, <3>1 DEF ComparesRequest, Accept
      <4> QED BY <1>a, <2>1, <4>1, <4>2
    <3>2. CASE ~(key[p] \in SavedLeads /\ fingerprint[key[p]] = body[p])
      BY <1>2, <1>a, <3>2 DEF ComparesRequest
    <3> QED BY <3>1, <3>2
  <2> QED BY <1>2, <1>a, <2>2, AnsweringKeepsIntake DEF ComparesRequest
<1>3. ASSUME NEW p \in Requests, ReadContact(p) PROVE IntakeInv'
  <2>1. CASE Matching(body[p]) = {}
    BY <1>0, <1>3, <2>1, GoingOnKeepsIntake DEF ReadContact, Stages, IntakeRequests
  <2>2. CASE Matching(body[p]) # {}
    <3>1. PICK c \in Matching(body[p]) : match' = [match EXCEPT ![p] = c]
      BY <1>3, <2>2 DEF ReadContact
    <3>2. c \in ContactRows
      BY DEF Matching, Contacts
    <3>3. match' \in [Requests -> ContactRows \cup {NoRow}] /\ match'[p] = c /\ \A q \in Requests \ {p} : match'[q] = match[q]
      BY <1>0, <3>1, <3>2 DEF IntakeRequests
    <3> QED BY <1>0, <1>3, <2>2, <3>2, <3>3, GoingOnKeepsIntake DEF ReadContact, Stages, IntakeRequests
  <2> QED BY <2>1, <2>2
<1>4. ASSUME NEW p \in Requests, SerializationFailure(p) PROVE IntakeInv'
  <2>1. CASE tries[p] + 1 < MaxTries
    <3>1. tries' \in [Requests -> 0..MaxTries]
      <4>1. tries[p] \in 0..MaxTries
        BY <1>0 DEF IntakeRequests
      <4>2. tries[p] + 1 \in 0..MaxTries
        BY <2>1, <4>1
      <4> QED BY <1>0, <1>4, <2>1, <4>2 DEF IntakeRequests, SerializationFailure
    <3> QED BY <1>0, <1>4, <2>1, <3>1, GoingOnKeepsIntake DEF SerializationFailure, Stages, IntakeRequests
  <2>2. CASE ~(tries[p] + 1 < MaxTries)
    BY <1>4, <1>a, <2>2, AnsweringKeepsIntake DEF SerializationFailure
  <2> QED BY <2>1, <2>2
<1>5. ASSUME NEW p \in Requests, ReadOwner(p) PROVE IntakeInv'
  <2>1. ownerSeen' \in [Requests -> Agents \cup {NoAgent}]
    BY <1>0, <1>5 DEF ReadOwner, IntakeRequests, IntakeRows, Contacts
  <2> QED BY <1>0, <1>5, <2>1, GoingOnKeepsIntake DEF ReadOwner, Stages, IntakeRequests, IntakeTypeOK
<1>6. ASSUME NEW p \in Requests, LeadIdCollision(p) PROVE IntakeInv'
  BY <1>0, <1>6, GoingOnKeepsIntake DEF LeadIdCollision, Stages, IntakeRequests
<1>7. ASSUME NEW p \in Requests, ConfirmDuplicate(p) PROVE IntakeInv'
  <2>1. CASE key[p] \in SavedLeads /\ via[p] = "api"
    BY <1>0, <1>7, <2>1, GoingOnKeepsIntake DEF ConfirmDuplicate, Stages, IntakeRequests
  <2>2. CASE ~(key[p] \in SavedLeads /\ via[p] = "api")
    BY <1>7, <1>a, <2>2, AnsweringKeepsIntake DEF ConfirmDuplicate
  <2> QED BY <2>1, <2>2
<1>8. ASSUME NEW p \in Requests, ContactVanished(p) PROVE IntakeInv'
  BY <1>8, <1>a, AnsweringKeepsIntake DEF ContactVanished
<1>9. ASSUME NEW p \in Requests, DistributeNew(p) PROVE IntakeInv'
  <2>1. offered' \in [Keys -> BOOLEAN]
    BY <1>0, <1>9 DEF DistributeNew, IntakeRows
  <2>2. /\ stage' \in [Requests -> Stages] /\ stage'[p] = "done" /\ stage[p] = "distribute"
        /\ \A q \in Requests \ {p} : stage'[q] = stage[q]
    BY <1>0, <1>9 DEF DistributeNew, IntakeGoto, IntakeRequests, Stages
  <2> USE <1>9 DEF DistributeNew, IntakeInv, contactVars, formVars
  <2>3. IntakeRows' /\ IntakeRequests'
    BY <1>0, <2>1, <2>2 DEF IntakeRows, IntakeRequests
  <2>4. Contacts' = Contacts /\ SavedLeads' = SavedLeads
    BY DEF Contacts, SavedLeads
  <2>5. IntakeTypeOK'
    BY <1>0, <2>2, <2>3, <2>4 DEF IntakeTypeOK
  <2>6. InsertsAreSaved'
    BY <2>2 DEF InsertsAreSaved
  <2> QED BY <2>4, <2>5, <2>6 DEF MadeLeads, OneContactPerCustomer, AcceptedRequestIsSaved
<1>10. ASSUME NEW p \in Requests, OwnContact(p) PROVE IntakeInv'
  <2>1. ownerOf' \in [ContactRows -> Agents \cup {NoAgent}]
    BY <1>0, <1>10 DEF OwnContact, IntakeRows, IntakeRequests
  <2>2. /\ stage' \in [Requests -> Stages] /\ stage'[p] = "done" /\ stage[p] = "own contact"
        /\ \A q \in Requests \ {p} : stage'[q] = stage[q]
    BY <1>0, <1>10 DEF OwnContact, IntakeGoto, IntakeRequests, Stages
  <2> USE <1>10 DEF OwnContact, IntakeInv, leadVars, formVars
  <2>3. IntakeRows' /\ IntakeRequests'
    BY <1>0, <2>1, <2>2 DEF IntakeRows, IntakeRequests
  <2>4. Contacts' = Contacts /\ SavedLeads' = SavedLeads
    BY DEF Contacts, SavedLeads
  <2>5. IntakeTypeOK'
    BY <1>0, <2>2, <2>3, <2>4 DEF IntakeTypeOK
  <2>6. InsertsAreSaved'
    BY <2>2 DEF InsertsAreSaved
  <2> QED BY <2>4, <2>5, <2>6 DEF MadeLeads, OneContactPerCustomer, AcceptedRequestIsSaved
<1>11. ASSUME NEW p \in Requests, AnswerCreated(p) PROVE IntakeInv'
  <2>1. key[p] \in Keys /\ body[p] \in Bodies /\ (content[key[p]] = body[p] \/ key[p] \in wiped)
    BY <1>0, <1>11 DEF AnswerCreated, IntakeTypeOK, IntakeInv, InsertsAreSaved
  <2>2. accepted' \subseteq Keys \X Bodies /\ \A r \in accepted' : content[r[1]] = r[2] \/ r[1] \in wiped
    BY <1>11, <1>a, <2>1 DEF AnswerCreated, Accept
  <2> QED BY <1>11, <1>a, <2>2, AnsweringKeepsIntake DEF AnswerCreated
<1>12. ASSUME NEW p \in Requests, RequestDies(p) PROVE IntakeInv'
  <2>1. drops' \in 0..MaxDrops
    BY <1>12, <1>a DEF RequestDies
  <2> QED BY <1>12, <1>a, <2>1, AnsweringKeepsIntake DEF RequestDies
<1>13. ASSUME NEW k \in Keys, CronOffers(k) PROVE IntakeInv'
  BY <1>0, <1>13, OwnersKeepIntake DEF CronOffers, contactVars, IntakeRows
<1>14. ASSUME NEW k \in Keys, NEW a \in Agents, AcceptOffer(k, a) PROVE IntakeInv'
  <2>1. ownerOf' \in [ContactRows -> Agents \cup {NoAgent}] /\ agentOf' \in [Keys -> Agents \cup {NoAgent}]
    BY <1>0, <1>14 DEF AcceptOffer, IntakeRows
  <2> QED BY <1>0, <1>14, <2>1, OwnersKeepIntake DEF AcceptOffer, IntakeRows
<1>15. ASSUME NEW c \in ContactRows, NEW a \in Agents, ContactReassigned(c, a) PROVE IntakeInv'
  BY <1>0, <1>15, OwnersKeepIntake DEF ContactReassigned, leadVars, IntakeRows
<1>16. ASSUME NEW k \in Keys, RemoveLead(k) PROVE IntakeInv'
  <2>1. Contacts' = Contacts
    BY <1>16 DEF RemoveLead, contactVars, Contacts
  <2> QED BY <1>0, <1>16, <2>1, RemovingKeepsIntake DEF RemoveLead, contactVars, IntakeRows, IntakeTypeOK
<1>17. ASSUME NEW c \in ContactRows, RemoveContact(c) PROVE IntakeInv'
  <2>1. customer' \in [ContactRows -> Customers \cup {NoBody}] /\ ownerOf' \in [ContactRows -> Agents \cup {NoAgent}]
    BY <1>0, <1>17 DEF RemoveContact, IntakeRows
  <2>2. Contacts' = Contacts \ {c} /\ \A d \in Contacts' : customer'[d] = customer[d]
    BY <1>0, <1>17 DEF RemoveContact, Contacts, IntakeRows
  <2>3. \A k \in SavedLeads \ {l \in SavedLeads : leadContact[l] = c} : leadContact[k] \in Contacts'
    BY <1>0, <2>2 DEF IntakeTypeOK
  <2>4. {l \in SavedLeads : leadContact[l] = c} \in SUBSET Keys
    BY DEF SavedLeads
  <2> QED BY <1>17, <2>1, <2>2, <2>3, <2>4, RemovingKeepsIntake DEF RemoveContact
<1>18. CASE UNCHANGED intakeVars
  <2> USE <1>18 DEF intakeVars, contactVars, leadVars
  <2> QED BY <1>0, OwnersKeepIntake DEF IntakeRows
<1> QED
  BY <1>1, <1>2, <1>3, <1>4, <1>5, <1>6, <1>7, <1>8, <1>9, <1>10, <1>11, <1>12, <1>13, <1>14, <1>15, <1>16,
     <1>17, <1>18,
     SubmitKeepsIntake, InsertContactKeepsIntake, InsertLeadKeepsIntake DEF IntakeNext, RequestStep

LEMMA IntakeSuffices == IntakeInv => IntakeTypeOK /\ OneContactPerCustomer /\ AcceptedRequestIsSaved
BY DEF IntakeInv

\* However often a customer submits and however the submissions race, there is one contact
\* of the customer, and what was accepted is a saved lead, or was deleted as one: for any
\* requests, keys, bodies and customers.
THEOREM IntakeHolds == IntakeSpec => [](IntakeTypeOK /\ OneContactPerCustomer /\ AcceptedRequestIsSaved)
BY IntakeStarts, IntakeSteps, IntakeSuffices, PTL DEF IntakeSpec
-----------------------------------------------------------------------------
(* The card vault *)

\* The columns of the cards.
CardTypes ==
  /\ pan \in [Cards -> CardNumbers \cup {0, Purged}] /\ cardKey \in [Cards -> VaultKeys \cup {0}]
  /\ \A c \in Cards : cardKey[c] = 0 <=> pan[c] \in {0, Purged}
  /\ archived \subseteq Cards /\ workflow \in [Cards -> Outcomes]
  /\ code \in [Cards -> {"none", "held", "destroyed"}]

\* The local variables of the requests, and of the runs.
CardRequestTypes ==
  /\ doing \in [CardRequests -> {"idle", "encrypt", "write", "remove", "destroy", "confirm", "set"}]
  /\ card \in [CardRequests -> Cards \cup {0}] /\ entered \in [CardRequests -> CardNumbers \cup {0}]
  /\ under \in [CardRequests -> VaultKeys \cup {0}]

RunTypes ==
  /\ running \in [Runs -> {"idle", "rotate", "verify", "purge"}]
  /\ after \in [Runs -> Cards \cup {0}] /\ page \in [Runs -> SUBSET Cards]
  /\ readKey \in [Runs -> [Cards -> VaultKeys \cup {0}]]
  /\ readPan \in [Runs -> [Cards -> CardNumbers \cup {0, Purged}]]
  /\ runKey \in [Runs -> VaultKeys \cup {0}] /\ inUse \in [Runs -> SUBSET (VaultKeys \cup {0})]

\* The keyring.
KeyTypes ==
  ring \subseteq VaultKeys /\ currentKey \in ring /\ retirable \subseteq VaultKeys \ {currentKey}

\* A request under way has its card, and what it is to write.
RequestsAreWhole ==
  \A p \in CardRequests :
    /\ doing[p] # "idle" => card[p] \in Cards
    /\ doing[p] \in {"encrypt", "write"} => entered[p] \in CardNumbers
    /\ doing[p] = "write" => under[p] \in VaultKeys
    /\ doing[p] \in {"remove", "destroy", "confirm", "set"} => pan[card[p]] # 0

\* A card that was never written has nothing.
AbsentHaveNothing ==
  \A c \in Cards : pan[c] = 0 => code[c] = "none" /\ workflow[c] = "PENDING" /\ c \notin archived

\* A run has the key that was current when it began, and a purge only matched cards.
RunsAreKept ==
  \A q \in Runs :
    /\ running[q] = "idle" => page[q] = {} /\ after[q] = 0
    /\ running[q] # "idle" => runKey[q] \in VaultKeys /\ runKey[q] =< currentKey
    /\ running[q] = "purge" => \A c \in page[q] : c \in archived \cup Aged /\ pan[c] # 0

\* Nobody writes to a removed card, but an edit it was removed under.
RemovedAreClosed ==
  \A c \in archived \ editedAcross : pan[c] = Purged /\ ~EditsOpen(c)

\* A request is about to destroy the code of c.
BeingDestroyed(c) == \E p \in CardRequests : doing[p] = "destroy" /\ card[p] = c

\* DoneCardHasNoCode, and of removed cards whatever is written to them.
CodesAreAccounted ==
  \A c \in Cards :
    code[c] = "held" /\ (workflow[c] \in Terminal \/ pan[c] = Purged \/ c \in archived) =>
      c \in interrupted \cup Aged \/ BeingDestroyed(c)

\* A card with an older key, not written by a straggler, is known to a
\* verification, has just been read by it, or is still to be read.
Knows(q, c) == cardKey[c] \in inUse[q]
HasRead(q, c) == c \in page[q] /\ readKey[q][c] = cardKey[c] /\ readPan[q][c] # Purged
WillRead(q, c) == c > after[q] /\ \A d \in page[q] : d < c

HasOldKey(q, c) == c \notin slow /\ cardKey[c] # 0 /\ cardKey[c] < runKey[q]

VerifiersMissNothing ==
  \A q \in Runs : running[q] = "verify" =>
    \A c \in Cards : HasOldKey(q, c) => Knows(q, c) \/ HasRead(q, c) \/ WillRead(q, c)

\* RetiredKeysAreUnused, before the key goes.
FreedKeysAreUnused == \A c \in Cards : cardKey[c] \in retirable => c \in slow

\* The inductive invariant of the vault: whatever a verification has not met is still to
\* be read or belongs to a request slower than the new key, a removed card is closed but for
\* edits past their check, and a code outlives the end of a payment only until the same
\* request destroys it.
VaultInv ==
  /\ CardTypes /\ CardRequestTypes /\ RunTypes /\ KeyTypes
  /\ RequestsAreWhole /\ AbsentHaveNothing /\ RunsAreKept
  /\ RemovedAreClosed /\ CodesAreAccounted
  /\ VerifiersMissNothing /\ FreedKeysAreUnused /\ RetiredKeysAreUnused

LEMMA VaultStarts == VaultInit => VaultInv
<1> SUFFICES ASSUME VaultInit PROVE VaultInv
  OBVIOUS
<1> USE VaultConstants DEF VaultInit
<1>1. CardTypes
  BY DEF CardTypes, Exists, Outcomes
<1>2. CardRequestTypes /\ RunTypes /\ KeyTypes
  BY DEF CardRequestTypes, RunTypes, KeyTypes
<1>3. RequestsAreWhole /\ RunsAreKept /\ RemovedAreClosed /\ VerifiersMissNothing
  BY DEF RequestsAreWhole, RunsAreKept, RemovedAreClosed, VerifiersMissNothing
<1>4. AbsentHaveNothing /\ CodesAreAccounted
  BY DEF AbsentHaveNothing, CodesAreAccounted, Exists, Terminal
<1>5. FreedKeysAreUnused /\ RetiredKeysAreUnused
  BY DEF FreedKeysAreUnused, RetiredKeysAreUnused
<1> QED BY <1>1, <1>2, <1>3, <1>4, <1>5 DEF VaultInv

\* A request begins.
LEMMA StartsKeepAll ==
  ASSUME VaultInv, NEW p \in CardRequests, NEW label \in {"encrypt", "remove", "destroy", "confirm", "set"},
         NEW c \in Cards, NEW n \in CardNumbers \cup {0}, Starts(p, label, c, n),
         label = "encrypt" => n \in CardNumbers /\ c \notin archived,
         label # "encrypt" => pan[c] # 0
  PROVE  VaultInv'
<1> USE VaultConstants DEF VaultInv, Starts, DoTo, cardRows, codeRows, keyring, runState, vaultHistory
<1>1. /\ CardTypes' /\ RunTypes' /\ KeyTypes' /\ AbsentHaveNothing' /\ RunsAreKept' /\ VerifiersMissNothing'
      /\ FreedKeysAreUnused' /\ RetiredKeysAreUnused'
  BY DEF CardTypes, RunTypes, KeyTypes, AbsentHaveNothing, RunsAreKept, VerifiersMissNothing, HasOldKey,
     Knows, HasRead, WillRead, FreedKeysAreUnused, RetiredKeysAreUnused
<1>2. CardRequestTypes'
  BY DEF CardRequestTypes
<1>3. RequestsAreWhole'
  BY DEF CardTypes, CardRequestTypes, RequestsAreWhole
<1>4. RemovedAreClosed'
  BY DEF CardTypes, CardRequestTypes, RemovedAreClosed, EditsOpen
<1>5. CodesAreAccounted'
  BY DEF CardTypes, CardRequestTypes, CodesAreAccounted, BeingDestroyed
<1> QED BY <1>1, <1>2, <1>3, <1>4, <1>5

\* The key it encrypts under is the current one.
LEMMA EncryptKeepsAll ==
  ASSUME VaultInv, NEW p \in CardRequests, EncryptForRow(p)
  PROVE  VaultInv'
<1> USE VaultConstants DEF VaultInv, EncryptForRow, DoTo, cardRows, codeRows, keyring, runState, vaultHistory
<1>1. /\ CardTypes' /\ RunTypes' /\ KeyTypes' /\ AbsentHaveNothing' /\ RunsAreKept' /\ VerifiersMissNothing'
      /\ FreedKeysAreUnused' /\ RetiredKeysAreUnused'
  BY DEF CardTypes, RunTypes, KeyTypes, AbsentHaveNothing, RunsAreKept, VerifiersMissNothing, HasOldKey,
     Knows, HasRead, WillRead, FreedKeysAreUnused, RetiredKeysAreUnused
<1>2. CardRequestTypes'
  BY DEF CardRequestTypes, KeyTypes
<1>3. RequestsAreWhole'
  BY DEF CardTypes, CardRequestTypes, KeyTypes, RequestsAreWhole
<1>4. RemovedAreClosed'
  BY DEF CardTypes, CardRequestTypes, RemovedAreClosed, EditsOpen
<1>5. CodesAreAccounted'
  BY DEF CardTypes, CardRequestTypes, CodesAreAccounted, BeingDestroyed
<1> QED BY <1>1, <1>2, <1>3, <1>4, <1>5

\* It is no more, perhaps, when the row is written: the card is slow then.
LEMMA WriteKeepsAll ==
  ASSUME VaultInv, NEW p \in CardRequests, WriteCard(p)
  PROVE  VaultInv'
<1> USE VaultConstants DEF VaultInv
<1>0. card[p] \in Cards /\ entered[p] \in CardNumbers /\ under[p] \in VaultKeys /\ doing[p] = "write"
  BY DEF RequestsAreWhole, WriteCard
<1> DEFINE w == card[p]
<1>1. /\ pan' = [pan EXCEPT ![w] = entered[p]] /\ cardKey' = [cardKey EXCEPT ![w] = under[p]]
      /\ UNCHANGED <<archived, workflow, keyring, runState, editedAcross, interrupted>>
  BY DEF WriteCard
<1>2. /\ pan'[w] = entered[p] /\ cardKey'[w] = under[p]
      /\ \A c \in Cards \ {w} : pan'[c] = pan[c] /\ cardKey'[c] = cardKey[c]
  BY <1>0, <1>1 DEF CardTypes
<1>3. /\ code' \in [Cards -> {"none", "held", "destroyed"}]
      /\ \A c \in Cards : (c # w \/ pan[c] # 0) => code'[c] = code[c]
  BY <1>0 DEF WriteCard, Exists, CardTypes
<1>4. /\ w \in slow' <=> under[p] # currentKey
      /\ \A c \in Cards \ {w} : c \in slow' <=> c \in slow
  BY DEF WriteCard
<1>5. /\ doing'[p] = "idle" /\ card'[p] = 0
      /\ \A r \in CardRequests \ {p} :
           doing'[r] = doing[r] /\ card'[r] = card[r] /\ entered'[r] = entered[r] /\ under'[r] = under[r]
  BY DEF WriteCard, IsDone, DoTo, CardRequestTypes
<1>6. CardRequestTypes'
  BY DEF WriteCard, IsDone, DoTo, CardRequestTypes
<1>7. RunTypes' /\ KeyTypes'
  BY <1>1 DEF RunTypes, KeyTypes, runState, keyring
<1>8. CardTypes'
  <2>1. pan' \in [Cards -> CardNumbers \cup {0, Purged}] /\ cardKey' \in [Cards -> VaultKeys \cup {0}]
    BY <1>0, <1>1 DEF CardTypes
  <2>2. \A c \in Cards : cardKey'[c] = 0 <=> pan'[c] \in {0, Purged}
    BY <1>0, <1>2 DEF CardTypes
  <2> QED BY <1>1, <1>3, <2>1, <2>2 DEF CardTypes
<1>9. RequestsAreWhole'
  <2>1. \A c \in Cards : pan[c] # 0 => pan'[c] # 0
    BY <1>0, <1>2
  <2> SUFFICES ASSUME NEW r \in CardRequests \ {p}
               PROVE  /\ doing'[r] # "idle" => card'[r] \in Cards
                      /\ doing'[r] \in {"encrypt", "write"} => entered'[r] \in CardNumbers
                      /\ doing'[r] = "write" => under'[r] \in VaultKeys
                      /\ doing'[r] \in {"remove", "destroy", "confirm", "set"} => pan'[card'[r]] # 0
    BY <1>5 DEF RequestsAreWhole
  <2>2. doing'[r] = doing[r] /\ card'[r] = card[r] /\ entered'[r] = entered[r] /\ under'[r] = under[r]
    BY <1>5
  <2> QED BY <2>1, <2>2 DEF RequestsAreWhole
<1>10. AbsentHaveNothing'
  BY <1>0, <1>1, <1>2, <1>3 DEF AbsentHaveNothing
<1>11. RunsAreKept'
  BY <1>0, <1>1, <1>2 DEF RunsAreKept, runState, keyring, RunTypes
<1>12. RemovedAreClosed'
  BY <1>0, <1>1, <1>2, <1>5 DEF RemovedAreClosed, EditsOpen, CardTypes
<1>13. CodesAreAccounted'
  <2>1. \A c \in Cards : BeingDestroyed(c) => BeingDestroyed(c)'
    BY <1>0, <1>5 DEF BeingDestroyed
  <2> SUFFICES ASSUME NEW c \in Cards, code'[c] = "held", workflow'[c] \in Terminal \/ pan'[c] = Purged \/ c \in archived'
               PROVE  c \in interrupted' \cup Aged \/ BeingDestroyed(c)'
    BY DEF CodesAreAccounted
  <2>2. pan[c] # 0
    <3>1. CASE pan[c] = 0
      <4>1. workflow[c] = "PENDING" /\ c \notin archived
        BY <3>1 DEF AbsentHaveNothing
      <4> QED BY <1>0, <1>1, <1>2, <3>1, <4>1 DEF Terminal
    <3> QED BY <3>1
  <2>3. code[c] = "held" /\ (workflow[c] \in Terminal \/ pan[c] = Purged \/ c \in archived)
    BY <1>0, <1>1, <1>2, <1>3, <2>2
  <2> QED BY <1>1, <2>1, <2>3 DEF CodesAreAccounted
<1>14. VerifiersMissNothing'
  <2> SUFFICES ASSUME NEW q \in Runs, running[q] = "verify", NEW c \in Cards, HasOldKey(q, c)'
               PROVE  (Knows(q, c) \/ HasRead(q, c) \/ WillRead(q, c))'
    BY <1>1 DEF VerifiersMissNothing, runState
  <2>1. runKey[q] =< currentKey /\ runKey[q] \in Nat /\ currentKey \in Nat
    BY DEF RunsAreKept, KeyTypes
  <2>2. c # w
    BY <1>0, <1>1, <1>2, <1>4, <2>1 DEF HasOldKey, runState
  <2>3. HasOldKey(q, c)
    BY <1>1, <1>2, <1>4, <2>2 DEF HasOldKey, runState
  <2>4. Knows(q, c) \/ HasRead(q, c) \/ WillRead(q, c)
    BY <2>3 DEF VerifiersMissNothing
  <2> QED BY <1>1, <1>2, <2>2, <2>4 DEF Knows, HasRead, WillRead, runState
<1>15. FreedKeysAreUnused' /\ RetiredKeysAreUnused'
  BY <1>0, <1>1, <1>2, <1>4 DEF FreedKeysAreUnused, RetiredKeysAreUnused, keyring, KeyTypes
<1> QED BY <1>6, <1>7, <1>8, <1>9, <1>10, <1>11, <1>12, <1>13, <1>14, <1>15

\* What purging a card leaves of it, and of the rest.
LEMMA TombstoneFacts ==
  ASSUME VaultInv, NEW w \in Cards, pan[w] # 0, Tombstones(w), UNCHANGED <<workflow, codeRows, keyring, interrupted>>
  PROVE  /\ CardTypes' /\ KeyTypes' /\ AbsentHaveNothing' /\ FreedKeysAreUnused' /\ RetiredKeysAreUnused'
         /\ pan'[w] = Purged /\ \A c \in Cards \ {w} : pan'[c] = pan[c]
         /\ archived' = archived \cup {w}
         /\ w \in editedAcross' \/ ~EditsOpen(w)
         /\ \A c \in Cards \ {w} : c \in editedAcross' <=> c \in editedAcross
         /\ \A q \in Runs, c \in Cards :
              /\ cardKey'[c] # 0 => cardKey'[c] = cardKey[c]
              /\ c \notin slow' /\ cardKey'[c] # 0 => c \notin slow
<1> USE VaultConstants DEF VaultInv
<1>1. /\ pan'[w] = Purged /\ cardKey'[w] = 0
      /\ \A c \in Cards \ {w} : pan'[c] = pan[c] /\ cardKey'[c] = cardKey[c]
      /\ archived' = archived \cup {w} /\ slow' = slow \ {w}
  BY DEF Tombstones, CardTypes
<1>2. CardTypes'
  <2>1. pan' \in [Cards -> CardNumbers \cup {0, Purged}] /\ cardKey' \in [Cards -> VaultKeys \cup {0}]
    BY DEF Tombstones, CardTypes
  <2>2. \A c \in Cards : cardKey'[c] = 0 <=> pan'[c] \in {0, Purged}
    BY <1>1 DEF CardTypes
  <2> QED BY <1>1, <2>1, <2>2 DEF CardTypes, codeRows
<1>3. KeyTypes'
  BY DEF KeyTypes, keyring
<1>4. AbsentHaveNothing'
  BY <1>1 DEF AbsentHaveNothing, codeRows
<1>5. FreedKeysAreUnused' /\ RetiredKeysAreUnused'
  <2>1. 0 \notin retirable
    BY DEF KeyTypes
  <2> QED BY <1>1, <2>1 DEF FreedKeysAreUnused, RetiredKeysAreUnused, keyring
<1>6. (w \in editedAcross' \/ ~EditsOpen(w)) /\ \A c \in Cards \ {w} : c \in editedAcross' <=> c \in editedAcross
  BY DEF Tombstones
<1> QED BY <1>1, <1>2, <1>3, <1>4, <1>5, <1>6

\* A removed card is closed, but for edits already past their check.
LEMMA PurgeKeepsAll ==
  ASSUME VaultInv, NEW p \in CardRequests, PurgeRemoved(p)
  PROVE  VaultInv'
<1> USE VaultConstants DEF VaultInv
<1>0. card[p] \in Cards /\ pan[card[p]] # 0 /\ doing[p] = "remove"
  BY DEF RequestsAreWhole, PurgeRemoved
<1> DEFINE w == card[p]
<1>1. Tombstones(w) /\ UNCHANGED <<workflow, codeRows, keyring, card, entered, under, runState, interrupted>>
  BY DEF PurgeRemoved
<1>2. /\ doing'[p] = "destroy" /\ \A r \in CardRequests \ {p} : doing'[r] = doing[r]
      /\ CardRequestTypes'
  BY DEF PurgeRemoved, DoTo, CardRequestTypes
<1>3. /\ CardTypes' /\ KeyTypes' /\ AbsentHaveNothing' /\ FreedKeysAreUnused' /\ RetiredKeysAreUnused'
      /\ pan'[w] = Purged /\ \A c \in Cards \ {w} : pan'[c] = pan[c]
      /\ archived' = archived \cup {w}
      /\ w \in editedAcross' \/ ~EditsOpen(w)
      /\ \A c \in Cards \ {w} : c \in editedAcross' <=> c \in editedAcross
      /\ \A q \in Runs, c \in Cards :
           /\ cardKey'[c] # 0 => cardKey'[c] = cardKey[c]
           /\ c \notin slow' /\ cardKey'[c] # 0 => c \notin slow
  BY <1>0, <1>1, TombstoneFacts
<1>4. RunTypes'
  BY <1>1 DEF RunTypes, runState
<1>5. RequestsAreWhole'
  BY <1>0, <1>1, <1>2, <1>3 DEF RequestsAreWhole
<1>6. RunsAreKept'
  BY <1>1, <1>3 DEF RunsAreKept, runState, keyring, RunTypes
<1>7. RemovedAreClosed'
  <2> SUFFICES ASSUME NEW c \in Cards, c \in archived', c \notin editedAcross'
               PROVE  pan'[c] = Purged /\ ~EditsOpen(c)'
    BY <1>3 DEF RemovedAreClosed, CardTypes
  <2>1. EditsOpen(c)' => EditsOpen(c)
    BY <1>1, <1>2 DEF EditsOpen
  <2>2. CASE c = w
    BY <1>3, <2>1, <2>2
  <2>3. CASE c # w
    BY <1>3, <2>1, <2>3 DEF RemovedAreClosed
  <2> QED BY <2>2, <2>3
<1>8. CodesAreAccounted'
  <2>1. BeingDestroyed(w)'
    BY <1>1, <1>2 DEF BeingDestroyed
  <2>2. \A c \in Cards : BeingDestroyed(c) => BeingDestroyed(c)'
    BY <1>0, <1>1, <1>2 DEF BeingDestroyed
  <2> QED BY <1>1, <1>3, <2>1, <2>2 DEF CodesAreAccounted, codeRows
<1>9. VerifiersMissNothing'
  BY <1>1, <1>3 DEF VerifiersMissNothing, HasOldKey, Knows, HasRead, WillRead, runState
<1> QED BY <1>2, <1>3, <1>4, <1>5, <1>6, <1>7, <1>8, <1>9

\* An outcome that ends the payment leaves the same request to destroy the code.
LEMMA OutcomeKeepsAll ==
  ASSUME VaultInv, NEW p \in CardRequests, NEW outcome \in Outcomes, RecordOutcome(p, outcome)
  PROVE  VaultInv'
<1> USE VaultConstants DEF VaultInv, RecordOutcome, IsDone, DoTo, codeRows, keyring, runState, vaultHistory
<1>0. card[p] \in Cards /\ pan[card[p]] # 0 /\ doing[p] \in {"set", "confirm"}
  BY DEF RequestsAreWhole
<1>1. /\ RunTypes' /\ KeyTypes' /\ RunsAreKept' /\ VerifiersMissNothing' /\ FreedKeysAreUnused'
      /\ RetiredKeysAreUnused'
  BY DEF RunTypes, KeyTypes, RunsAreKept, VerifiersMissNothing, HasOldKey, Knows, HasRead, WillRead,
     FreedKeysAreUnused, RetiredKeysAreUnused
<1>2. CardTypes'
  BY DEF CardTypes
<1>3. CardRequestTypes'
  BY DEF CardRequestTypes
<1>4. RequestsAreWhole'
  BY DEF CardTypes, CardRequestTypes, RequestsAreWhole
<1>5. AbsentHaveNothing'
  BY <1>0 DEF CardTypes, CardRequestTypes, AbsentHaveNothing
<1>6. RemovedAreClosed'
  BY DEF CardTypes, CardRequestTypes, RemovedAreClosed, EditsOpen
<1>7. CodesAreAccounted'
  BY DEF CardTypes, CardRequestTypes, CodesAreAccounted, BeingDestroyed
<1> QED BY <1>1, <1>2, <1>3, <1>4, <1>5, <1>6, <1>7

\* Which it does, or is cut off at.
LEMMA DestroyKeepsAll ==
  ASSUME VaultInv, NEW p \in CardRequests, DestroyCode(p)
  PROVE  VaultInv'
<1> USE VaultConstants DEF VaultInv, DestroyCode, IsDone, DoTo, cardRows, keyring, runState
<1>0. card[p] \in Cards /\ pan[card[p]] # 0 /\ doing[p] = "destroy"
  BY DEF RequestsAreWhole
<1>1. /\ RunTypes' /\ KeyTypes' /\ RunsAreKept' /\ VerifiersMissNothing' /\ FreedKeysAreUnused'
      /\ RetiredKeysAreUnused'
  BY DEF RunTypes, KeyTypes, RunsAreKept, VerifiersMissNothing, HasOldKey, Knows, HasRead, WillRead,
     FreedKeysAreUnused, RetiredKeysAreUnused
<1>2. CardTypes'
  BY DEF CardTypes
<1>3. CardRequestTypes'
  BY DEF CardRequestTypes
<1>4. RequestsAreWhole'
  BY DEF CardTypes, CardRequestTypes, RequestsAreWhole
<1>5. AbsentHaveNothing'
  BY DEF CardTypes, CardRequestTypes, AbsentHaveNothing
<1>6. RemovedAreClosed'
  BY DEF CardTypes, CardRequestTypes, RemovedAreClosed, EditsOpen
<1>7. CodesAreAccounted'
  BY DEF CardTypes, CardRequestTypes, CodesAreAccounted, BeingDestroyed
<1> QED BY <1>1, <1>2, <1>3, <1>4, <1>5, <1>6, <1>7

LEMMA CleanUpKeepsAll ==
  ASSUME VaultInv, NEW cs, CleanUpCodes(cs)
  PROVE  VaultInv'
<1> USE VaultConstants DEF VaultInv, CleanUpCodes, cardRows, keyring, requestState, runState, vaultHistory
<1>1. /\ CardRequestTypes' /\ RunTypes' /\ KeyTypes' /\ RequestsAreWhole' /\ RunsAreKept'
      /\ RemovedAreClosed' /\ VerifiersMissNothing' /\ FreedKeysAreUnused' /\ RetiredKeysAreUnused'
  BY DEF CardRequestTypes, RunTypes, KeyTypes, RequestsAreWhole, RunsAreKept, RemovedAreClosed, EditsOpen,
     VerifiersMissNothing, HasOldKey, Knows, HasRead, WillRead, FreedKeysAreUnused, RetiredKeysAreUnused
<1>2. CardTypes'
  BY DEF CardTypes
<1>3. AbsentHaveNothing'
  BY DEF CardTypes, CardRequestTypes, AbsentHaveNothing
<1>4. CodesAreAccounted'
  BY DEF CardTypes, CardRequestTypes, CodesAreAccounted, BeingDestroyed
<1> QED BY <1>1, <1>2, <1>3, <1>4

LEMMA CutOffKeepsAll ==
  ASSUME VaultInv, NEW p \in CardRequests, RequestCutOff(p)
  PROVE  VaultInv'
<1> USE VaultConstants DEF VaultInv, RequestCutOff, IsDone, DoTo, cardRows, codeRows, keyring, runState
<1>1. /\ CardTypes' /\ RunTypes' /\ KeyTypes' /\ AbsentHaveNothing' /\ RunsAreKept' /\ VerifiersMissNothing'
      /\ FreedKeysAreUnused' /\ RetiredKeysAreUnused'
  BY DEF CardTypes, RunTypes, KeyTypes, AbsentHaveNothing, RunsAreKept, VerifiersMissNothing, HasOldKey,
     Knows, HasRead, WillRead, FreedKeysAreUnused, RetiredKeysAreUnused
<1>2. CardRequestTypes'
  BY DEF CardRequestTypes
<1>3. RequestsAreWhole'
  BY DEF CardTypes, CardRequestTypes, RequestsAreWhole
<1>4. RemovedAreClosed'
  BY DEF CardTypes, CardRequestTypes, RemovedAreClosed, EditsOpen
<1>5. CodesAreAccounted'
  BY DEF CardTypes, CardRequestTypes, CodesAreAccounted, BeingDestroyed
<1> QED BY <1>1, <1>2, <1>3, <1>4, <1>5

\* A page has the lowest cards of those left, and some while any are left.
LEMMA PagesGoInOrder ==
  ASSUME NEW q \in Runs, NEW c \in Cards, NEW d \in NextPage(q), Exists(c), c > after[q], c \notin NextPage(q)
  PROVE  d < c
<1> USE VaultConstants
<1> DEFINE rest == {x \in Cards : Exists(x) /\ x > after[q]}
           below(x) == {y \in rest : y < x}
<1>1. c \in Nat /\ d \in Nat /\ d \in rest /\ c \in rest /\ Cardinality(below(d)) < PageSize /\ ~(Cardinality(below(c)) < PageSize)
  BY DEF NextPage
<1>2. SUFFICES ASSUME ~(d < c) PROVE FALSE
  OBVIOUS
<1>3. below(c) \subseteq below(d) /\ below(d) \subseteq 0..d
  <2>1. \A y \in rest : y \in Nat
    OBVIOUS
  <2>2. c <= d
    BY <1>1, <1>2
  <2> HIDE DEF rest
  <2>3. \A y \in below(c) : y \in rest /\ y < d
    BY <1>1, <2>1, <2>2
  <2>4. \A y \in below(d) : y \in 0..d
    BY <1>1, <2>1
  <2> QED BY <2>3, <2>4
<1> HIDE DEF rest, below
<1>4. IsFiniteSet(0..d)
  BY <1>1, FS_Interval
<1>5. IsFiniteSet(below(d))
  BY <1>3, <1>4, FS_Subset
<1>6. Cardinality(below(c)) <= Cardinality(below(d)) /\ Cardinality(below(d)) \in Nat /\ Cardinality(below(c)) \in Nat
  BY <1>3, <1>5, FS_Subset, FS_CardinalityType
<1> QED BY <1>1, <1>6

\* A page is empty only when no card is left.
LEMMA PagesFindWhatIsLeft ==
  ASSUME NEW q \in Runs, NEW c \in Cards, Exists(c), c > after[q]
  PROVE  NextPage(q) # {}
<1> USE VaultConstants
<1> DEFINE rest == {x \in Cards : Exists(x) /\ x > after[q]}
<1>1. rest \subseteq Nat /\ rest # {}
  OBVIOUS
<1>2. PICK m \in rest : \A y \in rest : ~(<<y, m>> \in OpToRel(<, Nat))
  BY <1>1, NatLessThanWellFounded, WFMin, Zenon
<1>3. \A y \in rest : ~(y < m)
  BY <1>1, <1>2 DEF OpToRel
<1>4. {y \in rest : y < m} = {}
  BY <1>3
<1>5. Cardinality({y \in rest : y < m}) = 0
  BY <1>4, FS_EmptySet
<1> QED BY <1>5 DEF NextPage

\* A run starts before all cards.
LEMMA StartRunKeepsAll ==
  ASSUME VaultInv, NEW q \in Runs, NEW kind \in {"rotate", "verify", "purge"}, StartRun(q, kind)
  PROVE  VaultInv'
<1> USE VaultConstants DEF VaultInv, StartRun, cardRows, codeRows, keyring, requestState, vaultHistory
<1>1. /\ CardTypes' /\ CardRequestTypes' /\ KeyTypes' /\ RequestsAreWhole' /\ AbsentHaveNothing'
      /\ RemovedAreClosed' /\ CodesAreAccounted' /\ FreedKeysAreUnused' /\ RetiredKeysAreUnused'
  BY DEF CardTypes, CardRequestTypes, KeyTypes, RequestsAreWhole, AbsentHaveNothing, RemovedAreClosed,
     EditsOpen, CodesAreAccounted, BeingDestroyed, FreedKeysAreUnused, RetiredKeysAreUnused
<1>2. RunTypes'
  BY DEF RunTypes, KeyTypes
<1>3. RunsAreKept'
  BY DEF CardTypes, CardRequestTypes, RunTypes, KeyTypes, RunsAreKept
<1>4. VerifiersMissNothing'
  <2> SUFFICES ASSUME NEW r \in Runs, running'[r] = "verify", NEW c \in Cards, HasOldKey(r, c)'
               PROVE  (Knows(r, c) \/ HasRead(r, c) \/ WillRead(r, c))'
    BY DEF VerifiersMissNothing
  <2>1. CASE r = q
    <3>1. page[q] = {} /\ after[q] = 0 /\ c > 0
      BY DEF RunsAreKept
    <3> QED BY <2>1, <3>1 DEF WillRead
  <2>2. CASE r # q
    <3>1. running[r] = "verify" /\ HasOldKey(r, c)
      BY <2>2 DEF RunTypes, HasOldKey
    <3> QED BY <3>1 DEF VerifiersMissNothing, Knows, HasRead, WillRead
  <2> QED BY <2>1, <2>2
<1> QED BY <1>1, <1>2, <1>3, <1>4

\* Whatever the page reads is read as it is; whatever it does not is still to come.
LEMMA ReadPageKeepsAll ==
  ASSUME VaultInv, NEW q \in Runs, ReadPage(q)
  PROVE  VaultInv'
<1> USE VaultConstants DEF VaultInv, ReadPage, cardRows, codeRows, keyring, requestState, vaultHistory
<1>1. /\ CardTypes' /\ CardRequestTypes' /\ KeyTypes' /\ RequestsAreWhole' /\ AbsentHaveNothing'
      /\ RemovedAreClosed' /\ CodesAreAccounted' /\ FreedKeysAreUnused' /\ RetiredKeysAreUnused'
  BY DEF CardTypes, CardRequestTypes, KeyTypes, RequestsAreWhole, AbsentHaveNothing, RemovedAreClosed,
     EditsOpen, CodesAreAccounted, BeingDestroyed, FreedKeysAreUnused, RetiredKeysAreUnused
<1>2. RunTypes'
  <2>1. NextPage(q) \subseteq Cards
    BY DEF NextPage
  <2> QED BY <2>1 DEF RunTypes, CardTypes
<1>3. RunsAreKept'
  BY DEF CardTypes, CardRequestTypes, RunTypes, KeyTypes, RunsAreKept
<1>4. VerifiersMissNothing'
  <2> SUFFICES ASSUME NEW r \in Runs, running[r] = "verify", NEW c \in Cards, HasOldKey(r, c)
               PROVE  (Knows(r, c) \/ HasRead(r, c) \/ WillRead(r, c))'
    BY DEF VerifiersMissNothing, HasOldKey
  <2>1. Knows(r, c) \/ HasRead(r, c) \/ WillRead(r, c)
    BY DEF VerifiersMissNothing
  <2>2. CASE r # q
    BY <2>1, <2>2 DEF RunTypes, Knows, HasRead, WillRead
  <2>3. CASE r = q
    <3>1. Knows(q, c) \/ c > after[q]
      BY <2>1, <2>3 DEF HasRead, WillRead
    <3>2. page'[q] = NextPage(q) /\ readKey'[q] = cardKey /\ readPan'[q] = pan
      BY DEF RunTypes
    <3>3. CASE Knows(q, c)
      BY <2>3, <3>3 DEF Knows
    <3>4. CASE c > after[q] /\ c \in NextPage(q)
      BY <2>3, <3>2, <3>4 DEF HasRead, HasOldKey, CardTypes
    <3>5. CASE c > after[q] /\ c \notin NextPage(q)
      <4>1. Exists(c)
        BY DEF HasOldKey, CardTypes, Exists
      <4>2. \A d \in NextPage(q) : d < c
        BY <3>5, <4>1, PagesGoInOrder
      <4> QED BY <2>3, <3>2, <3>5, <4>2 DEF WillRead
    <3> QED BY <3>1, <3>3, <3>4, <3>5
  <2> QED BY <2>2, <2>3
<1> QED BY <1>1, <1>2, <1>3, <1>4

\* A row that is rotated gets the key of the run, which is not older than any a verification
\* looks for.
LEMMA RotateKeepsAll ==
  ASSUME VaultInv, NEW q \in Runs, NEW c \in Cards, RotateRow(q, c)
  PROVE  VaultInv'
<1> USE VaultConstants DEF VaultInv
<1>1. /\ running[q] = "rotate" /\ c \in page[q]
      /\ UNCHANGED <<archived, workflow, codeRows, keyring, requestState, running, readKey, readPan, runKey, inUse, editedAcross, interrupted>>
  BY DEF RotateRow, NextRow
<1>2. RunTypes' /\ page'[q] = page[q] \ {c} /\ \A r \in Runs \ {q} : page'[r] = page[r] /\ after'[r] = after[r]
  BY DEF RotateRow, RowDone, RunTypes
<1>3. runKey[q] \in VaultKeys /\ runKey[q] =< currentKey
  BY <1>1 DEF RunsAreKept
<1>4. \/ UNCHANGED <<cardKey, pan, slow>>
      \/ /\ pan' = pan /\ cardKey' = [cardKey EXCEPT ![c] = runKey[q]] /\ cardKey[c] # 0
         /\ c \in slow' <=> runKey[q] # currentKey
         /\ \A d \in Cards \ {c} : d \in slow' <=> d \in slow
  <2>1. CASE Needs(q, c) /\ SameReference(q, c)
    <3>1. /\ cardKey' = [cardKey EXCEPT ![c] = runKey[q]] /\ pan' = [pan EXCEPT ![c] = readPan[q][c]]
          /\ slow' = IF runKey[q] # currentKey THEN slow \cup {c} ELSE slow \ {c}
      BY <2>1 DEF RotateRow
    <3>2. pan[c] = readPan[q][c] /\ cardKey[c] = readKey[q][c] /\ readKey[q][c] \in ring
      BY <2>1 DEF SameReference, Needs, RunRing
    <3>3. pan' = pan
      BY <3>1, <3>2 DEF CardTypes
    <3>4. cardKey[c] # 0
      BY <3>2 DEF KeyTypes
    <3> QED BY <3>1, <3>3, <3>4
  <2> QED BY <2>1 DEF RotateRow
<1>5. pan' = pan /\ cardKey' \in [Cards -> VaultKeys \cup {0}] /\ \A d \in Cards : cardKey'[d] = 0 <=> cardKey[d] = 0
  BY <1>3, <1>4 DEF CardTypes
<1>6. CardTypes' /\ CardRequestTypes' /\ KeyTypes'
  BY <1>1, <1>5 DEF CardTypes, CardRequestTypes, KeyTypes, codeRows, requestState, keyring
<1>7. RequestsAreWhole' /\ AbsentHaveNothing' /\ RemovedAreClosed' /\ CodesAreAccounted'
  BY <1>1, <1>5 DEF RequestsAreWhole, AbsentHaveNothing, RemovedAreClosed, EditsOpen, CodesAreAccounted,
     BeingDestroyed,
                    codeRows, requestState
<1>8. RunsAreKept'
  BY <1>1, <1>2, <1>5 DEF RunsAreKept, keyring
<1>9. VerifiersMissNothing'
  <2> SUFFICES ASSUME NEW r \in Runs, running[r] = "verify", NEW e \in Cards, HasOldKey(r, e)'
               PROVE  (Knows(r, e) \/ HasRead(r, e) \/ WillRead(r, e))'
    BY <1>1 DEF VerifiersMissNothing
  <2>1. runKey[r] =< currentKey /\ runKey[r] \in Nat /\ currentKey \in Nat
    BY DEF RunsAreKept, KeyTypes
  <2>2. cardKey'[e] = cardKey[e] /\ HasOldKey(r, e)
    BY <1>1, <1>4, <2>1 DEF HasOldKey, CardTypes
  <2>3. Knows(r, e) \/ HasRead(r, e) \/ WillRead(r, e)
    BY <2>2 DEF VerifiersMissNothing
  <2> QED BY <1>1, <1>2, <2>2, <2>3 DEF Knows, HasRead, WillRead
<1>10. FreedKeysAreUnused' /\ RetiredKeysAreUnused'
  BY <1>1, <1>4 DEF FreedKeysAreUnused, RetiredKeysAreUnused, CardTypes, KeyTypes, keyring
<1> QED BY <1>2, <1>6, <1>7, <1>8, <1>9, <1>10

\* A row that is verified is known, or was changed since it was read.
LEMMA VerifyKeepsAll ==
  ASSUME VaultInv, NEW q \in Runs, NEW c \in Cards, VerifyRow(q, c)
  PROVE  VaultInv'
<1> USE VaultConstants DEF VaultInv, VerifyRow, RowDone, NextRow, cardRows, codeRows, keyring, requestState,
     vaultHistory
<1>1. /\ CardTypes' /\ CardRequestTypes' /\ KeyTypes' /\ RequestsAreWhole' /\ AbsentHaveNothing'
      /\ RemovedAreClosed' /\ CodesAreAccounted' /\ FreedKeysAreUnused' /\ RetiredKeysAreUnused'
  BY DEF CardTypes, CardRequestTypes, KeyTypes, RequestsAreWhole, AbsentHaveNothing, RemovedAreClosed,
     EditsOpen, CodesAreAccounted, BeingDestroyed, FreedKeysAreUnused, RetiredKeysAreUnused
<1>2. RunTypes'
  <2>1. page' \in [Runs -> SUBSET Cards] /\ after' \in [Runs -> Cards \cup {0}]
    BY DEF RunTypes
  <2>2. readKey[q][c] \in VaultKeys \cup {0}
    BY DEF RunTypes
  <2>3. inUse' \in [Runs -> SUBSET (VaultKeys \cup {0})]
    BY <2>2 DEF RunTypes
  <2> QED BY <2>1, <2>3 DEF RunTypes
<1>3. RunsAreKept'
  BY DEF CardTypes, CardRequestTypes, RunTypes, KeyTypes, RunsAreKept
<1>4. VerifiersMissNothing'
  <2> SUFFICES ASSUME NEW r \in Runs, running[r] = "verify", NEW e \in Cards, HasOldKey(r, e)
               PROVE  (Knows(r, e) \/ HasRead(r, e) \/ WillRead(r, e))'
    BY DEF VerifiersMissNothing, HasOldKey
  <2>1. Knows(r, e) \/ HasRead(r, e) \/ WillRead(r, e)
    BY DEF VerifiersMissNothing
  <2>2. CASE r # q
    BY <2>1, <2>2 DEF RunTypes, Knows, HasRead, WillRead
  <2>3. CASE r = q
    <3>1. page'[q] = page[q] \ {c} /\ after'[q] = c /\ inUse[q] \subseteq inUse'[q]
      BY DEF RunTypes
    <3>2. CASE Knows(q, e)
      BY <2>3, <3>1, <3>2 DEF Knows
    <3>3. CASE HasRead(q, e) /\ e # c
      BY <2>3, <3>1, <3>3 DEF HasRead
    <3>4. CASE HasRead(q, e) /\ e = c
      <4>1. readKey[q][c] \in inUse'[q]
        BY <3>4 DEF HasRead, RunTypes
      <4> QED BY <2>3, <3>4, <4>1 DEF HasRead, Knows
    <3>5. CASE WillRead(q, e)
      BY <2>3, <3>1, <3>5 DEF WillRead
    <3> QED BY <2>1, <2>3, <3>2, <3>3, <3>4, <3>5
  <2> QED BY <2>2, <2>3
<1> QED BY <1>1, <1>2, <1>3, <1>4

LEMMA RunEndKeepsAll ==
  ASSUME VaultInv, NEW q \in Runs, RunEnds(q), UNCHANGED <<cardRows, codeRows, ring, currentKey, requestState, vaultHistory>>,
         retirable' \subseteq VaultKeys \ {currentKey}, \A c \in Cards : cardKey[c] \in retirable' => c \in slow
  PROVE  VaultInv'
<1> USE VaultConstants DEF VaultInv, RunEnds, cardRows, codeRows, requestState, vaultHistory
<1>1. /\ CardTypes' /\ CardRequestTypes' /\ RequestsAreWhole' /\ AbsentHaveNothing' /\ RemovedAreClosed'
      /\ CodesAreAccounted' /\ RetiredKeysAreUnused'
  BY DEF CardTypes, CardRequestTypes, RequestsAreWhole, AbsentHaveNothing, RemovedAreClosed, EditsOpen,
     CodesAreAccounted, BeingDestroyed, RetiredKeysAreUnused
<1>2. RunTypes'
  BY DEF RunTypes
<1>3. KeyTypes'
  BY DEF KeyTypes
<1>4. RunsAreKept'
  BY DEF CardTypes, CardRequestTypes, RunTypes, KeyTypes, RunsAreKept
<1>5. VerifiersMissNothing'
  BY DEF CardTypes, CardRequestTypes, RunTypes, KeyTypes, VerifiersMissNothing, HasOldKey, Knows, HasRead,
     WillRead
<1>6. FreedKeysAreUnused'
  BY DEF CardTypes, CardRequestTypes, RunTypes, KeyTypes, FreedKeysAreUnused
<1> QED BY <1>1, <1>2, <1>3, <1>4, <1>5, <1>6

\* A purge closes what it tombstones, like a removal.
LEMMA PurgeRowKeepsAll ==
  ASSUME VaultInv, NEW q \in Runs, NEW c \in Cards, PurgeRow(q, c)
  PROVE  VaultInv'
<1> USE VaultConstants DEF VaultInv
<1>1. /\ running[q] = "purge" /\ c \in page[q] /\ c \in archived \cup Aged /\ pan[c] # 0
      /\ UNCHANGED <<workflow, codeRows, keyring, requestState, interrupted>>
  BY DEF PurgeRow, NextRow, RunsAreKept
<1>2. /\ CardTypes' /\ KeyTypes' /\ AbsentHaveNothing' /\ FreedKeysAreUnused' /\ RetiredKeysAreUnused'
      /\ pan'[c] = Purged /\ \A d \in Cards \ {c} : pan'[d] = pan[d]
      /\ archived' \in {archived, archived \cup {c}}
      /\ \A d \in archived' \ editedAcross' : d \in archived \ editedAcross \/ (d = c /\ ~EditsOpen(c))
      /\ \A r \in Runs, d \in Cards :
           /\ cardKey'[d] # 0 => cardKey'[d] = cardKey[d]
           /\ d \notin slow' /\ cardKey'[d] # 0 => d \notin slow
  <2>1. CASE pan[c] = Purged
    <3>1. UNCHANGED <<cardKey, pan, archived, editedAcross, slow>>
      BY <2>1 DEF PurgeRow
    <3> QED BY <1>1, <2>1, <3>1 DEF CardTypes, KeyTypes, AbsentHaveNothing, FreedKeysAreUnused,
       RetiredKeysAreUnused, codeRows, keyring
  <2>2. CASE pan[c] # Purged
    <3>1. Tombstones(c)
      BY <2>2 DEF PurgeRow
    <3>2. \A d \in archived' \ editedAcross' : d \in archived \ editedAcross \/ (d = c /\ ~EditsOpen(c))
      BY <3>1 DEF Tombstones
    <3> QED BY <1>1, <3>1, <3>2, TombstoneFacts
  <2> QED BY <2>1, <2>2
<1>3. /\ running' \in [Runs -> {"idle", "rotate", "verify", "purge"}] /\ RunTypes'
      /\ \A r \in Runs \ {q} : /\ running'[r] = running[r] /\ page'[r] = page[r] /\ after'[r] = after[r]
                              /\ readKey'[r] = readKey[r] /\ readPan'[r] = readPan[r]
                              /\ runKey'[r] = runKey[r] /\ inUse'[r] = inUse[r]
      /\ \/ running'[q] = "idle" /\ page'[q] = {} /\ after'[q] = 0
         \/ running'[q] = "purge" /\ page'[q] \subseteq page[q] /\ runKey'[q] = runKey[q]
  <2>1. CASE page[q] = {c}
    <3> USE <2>1 DEF RunTypes
    <3>1. RunEnds(q)
      BY DEF PurgeRow
    <3>2. /\ running' \in [Runs -> {"idle", "rotate", "verify", "purge"}]
          /\ after' \in [Runs -> Cards \cup {0}] /\ page' \in [Runs -> SUBSET Cards]
      BY <3>1 DEF RunEnds
    <3>3. readKey' \in [Runs -> [Cards -> VaultKeys \cup {0}]]
      BY <3>1 DEF RunEnds
    <3>4. readPan' \in [Runs -> [Cards -> CardNumbers \cup {0, Purged}]]
      BY <3>1 DEF RunEnds
    <3>5. runKey' \in [Runs -> VaultKeys \cup {0}] /\ inUse' \in [Runs -> SUBSET (VaultKeys \cup {0})]
      BY <3>1 DEF RunEnds
    <3>6. \A r \in Runs \ {q} : /\ running'[r] = running[r] /\ page'[r] = page[r] /\ after'[r] = after[r]
                              /\ readKey'[r] = readKey[r] /\ readPan'[r] = readPan[r]
                              /\ runKey'[r] = runKey[r] /\ inUse'[r] = inUse[r]
      BY <3>1 DEF RunEnds
    <3>7. running'[q] = "idle" /\ page'[q] = {} /\ after'[q] = 0
      BY <3>1 DEF RunEnds
    <3> QED BY <3>2, <3>3, <3>4, <3>5, <3>6, <3>7
  <2>2. CASE page[q] # {c}
    BY <2>2, <1>1 DEF PurgeRow, RowDone, RunTypes
  <2> QED BY <2>1, <2>2
<1>4. CardRequestTypes'
  BY <1>1 DEF CardRequestTypes, requestState
<1>5. RequestsAreWhole'
  BY <1>1, <1>2 DEF RequestsAreWhole, requestState
<1>6. RunsAreKept'
  <2>1. \A d \in Cards : (d \in archived \cup Aged => d \in archived' \cup Aged) /\ (pan[d] # 0 => pan'[d] # 0)
    BY <1>2
  <2>2. currentKey' = currentKey
    BY <1>1 DEF keyring
  <2> SUFFICES ASSUME NEW r \in Runs
               PROVE  /\ running'[r] = "idle" => page'[r] = {} /\ after'[r] = 0
                      /\ running'[r] # "idle" => runKey'[r] \in VaultKeys /\ runKey'[r] =< currentKey
                      /\ running'[r] = "purge" => \A d \in page'[r] : d \in archived' \cup Aged /\ pan'[d] # 0
    BY <2>2 DEF RunsAreKept
  <2>3. CASE r = q
    BY <1>1, <1>3, <2>1, <2>3 DEF RunsAreKept, RunTypes
  <2>4. CASE r # q
    BY <1>3, <2>1, <2>4 DEF RunsAreKept, RunTypes
  <2> QED BY <2>3, <2>4
<1>7. RemovedAreClosed'
  BY <1>1, <1>2 DEF RemovedAreClosed, EditsOpen, requestState, CardTypes
<1>8. CodesAreAccounted'
  <2> SUFFICES ASSUME NEW d \in Cards, code[d] = "held", workflow[d] \in Terminal \/ pan'[d] = Purged \/ d \in archived'
               PROVE  d \in interrupted \cup Aged \/ BeingDestroyed(d)
    BY <1>1 DEF CodesAreAccounted, BeingDestroyed, requestState, codeRows
  <2>1. CASE d = c
    BY <1>1, <2>1 DEF CodesAreAccounted
  <2>2. CASE d # c
    BY <1>2, <2>2 DEF CodesAreAccounted
  <2> QED BY <2>1, <2>2
<1>9. VerifiersMissNothing'
  <2> SUFFICES ASSUME NEW r \in Runs, running'[r] = "verify", NEW e \in Cards, HasOldKey(r, e)'
               PROVE  (Knows(r, e) \/ HasRead(r, e) \/ WillRead(r, e))'
    BY DEF VerifiersMissNothing
  <2>1. r # q /\ running[r] = "verify"
    BY <1>3
  <2>2. cardKey'[e] = cardKey[e] /\ HasOldKey(r, e)
    BY <1>2, <1>3, <2>1 DEF HasOldKey
  <2>3. Knows(r, e) \/ HasRead(r, e) \/ WillRead(r, e)
    BY <2>1, <2>2 DEF VerifiersMissNothing
  <2> QED BY <1>3, <2>1, <2>2, <2>3 DEF Knows, HasRead, WillRead
<1> QED BY <1>2, <1>3, <1>4, <1>5, <1>6, <1>7, <1>8, <1>9

\* A new current key is newer than those of all runs under way.
LEMMA DeployKeepsAll ==
  ASSUME VaultInv, NEW k \in VaultKeys, DeployKey(k)
  PROVE  VaultInv'
<1> USE VaultConstants DEF VaultInv, DeployKey, cardRows, codeRows, requestState, runState, vaultHistory
<1>1. /\ CardTypes' /\ CardRequestTypes' /\ RunTypes' /\ RequestsAreWhole' /\ AbsentHaveNothing'
      /\ RemovedAreClosed' /\ CodesAreAccounted' /\ VerifiersMissNothing'
  BY DEF CardTypes, CardRequestTypes, RunTypes, RequestsAreWhole, AbsentHaveNothing, RemovedAreClosed,
     EditsOpen, CodesAreAccounted, BeingDestroyed, VerifiersMissNothing, HasOldKey, Knows, HasRead, WillRead
<1>2. KeyTypes'
  BY DEF KeyTypes
<1>3. RunsAreKept'
  <2>1. currentKey \in Nat /\ k \in Nat /\ currentKey < k
    BY DEF KeyTypes
  <2>2. \A q \in Runs : runKey[q] \in VaultKeys => runKey[q] \in Nat
    OBVIOUS
  <2> QED BY <2>1, <2>2 DEF RunsAreKept
<1>4. FreedKeysAreUnused'
  BY DEF CardTypes, CardRequestTypes, RunTypes, KeyTypes, FreedKeysAreUnused
<1>5. RetiredKeysAreUnused'
  BY DEF CardTypes, CardRequestTypes, RunTypes, KeyTypes, RetiredKeysAreUnused
<1> QED BY <1>1, <1>2, <1>3, <1>4, <1>5

\* A key goes only when no row has it, but those of stragglers.
LEMMA RetireKeepsAll ==
  ASSUME VaultInv, NEW k \in VaultKeys, RetireKey(k)
  PROVE  VaultInv'
<1> USE VaultConstants DEF VaultInv, RetireKey, cardRows, codeRows, requestState, runState, vaultHistory
<1>1. /\ CardTypes' /\ CardRequestTypes' /\ RunTypes' /\ RequestsAreWhole' /\ AbsentHaveNothing'
      /\ RunsAreKept' /\ RemovedAreClosed' /\ CodesAreAccounted' /\ VerifiersMissNothing'
  BY DEF CardTypes, CardRequestTypes, RunTypes, RequestsAreWhole, AbsentHaveNothing, RunsAreKept,
     RemovedAreClosed, EditsOpen, CodesAreAccounted, BeingDestroyed, VerifiersMissNothing, HasOldKey, Knows,
     HasRead, WillRead
<1>2. KeyTypes'
  BY DEF KeyTypes
<1>3. FreedKeysAreUnused'
  BY DEF CardTypes, CardRequestTypes, RunTypes, KeyTypes, FreedKeysAreUnused
<1>4. RetiredKeysAreUnused'
  BY DEF CardTypes, CardRequestTypes, RunTypes, KeyTypes, RetiredKeysAreUnused, FreedKeysAreUnused
<1> QED BY <1>1, <1>2, <1>3, <1>4

\* A verification that ends has seen every card that had an old key.
LEMMA FinishKeepsAll ==
  ASSUME VaultInv, NEW q \in Runs, FinishRun(q)
  PROVE  VaultInv'
<1> USE VaultConstants DEF VaultInv
<1>1. /\ RunEnds(q) /\ UNCHANGED <<cardRows, codeRows, ring, currentKey, requestState, vaultHistory>>
      /\ running[q] \in {"rotate", "verify"} /\ page[q] = {} /\ NextPage(q) = {}
      /\ retirable' = IF running[q] = "rotate" THEN retirable
                      ELSE IF NoVaultKey \in inUse[q] THEN {} ELSE (RunRing(q) \ {runKey[q]}) \ inUse[q]
  BY DEF FinishRun
<1>2. CASE running[q] = "rotate"
  BY <1>1, <1>2, RunEndKeepsAll DEF KeyTypes, FreedKeysAreUnused
<1>3. CASE running[q] = "verify"
  <2>1. \A k \in retirable' : k \in VaultKeys /\ k < runKey[q] /\ k \notin inUse[q]
    <3> SUFFICES ASSUME NEW k \in retirable' PROVE k \in VaultKeys /\ k < runKey[q] /\ k \notin inUse[q]
      OBVIOUS
    <3>1. k \in ring /\ k <= runKey[q] /\ k # runKey[q] /\ k \notin inUse[q]
      BY <1>1, <1>3 DEF RunRing
    <3>2. runKey[q] \in VaultKeys /\ k \in VaultKeys
      BY <1>3, <3>1 DEF RunsAreKept, KeyTypes
    <3>3. runKey[q] \in Nat /\ k \in Nat
      BY <3>2
    <3> QED BY <3>1, <3>2, <3>3
  <2>2. retirable' \subseteq VaultKeys \ {currentKey}
    <3>1. runKey[q] \in VaultKeys /\ runKey[q] =< currentKey /\ currentKey \in VaultKeys
      BY <1>3 DEF RunsAreKept, KeyTypes
    <3>2. runKey[q] \in Nat /\ currentKey \in Nat
      BY <3>1
    <3>3. \A k \in retirable' : k \in VaultKeys /\ k \in Nat /\ k < runKey[q]
      BY <2>1
    <3>4. \A k \in retirable' : k # currentKey
      BY <3>1, <3>2, <3>3
    <3> QED BY <3>3, <3>4
  <2>3. ASSUME NEW c \in Cards, cardKey[c] \in retirable', c \notin slow PROVE FALSE
    <3>1. HasOldKey(q, c) /\ ~Knows(q, c)
      BY <2>1, <2>3 DEF HasOldKey, Knows
    <3>2. WillRead(q, c)
      BY <1>1, <1>3, <3>1 DEF VerifiersMissNothing, HasRead
    <3>3. Exists(c) /\ c > after[q]
      BY <3>1, <3>2 DEF HasOldKey, WillRead, CardTypes, Exists
    <3> QED BY <1>1, <3>3, PagesFindWhatIsLeft
  <2> QED BY <1>1, <2>2, <2>3, RunEndKeepsAll
<1> QED BY <1>1, <1>2, <1>3

LEMMA MatchKeepsAll ==
  ASSUME VaultInv, NEW q \in Runs, MatchPurge(q)
  PROVE  VaultInv'
<1> USE VaultConstants DEF VaultInv
<1> DEFINE matched == {c \in archived \cup Aged : Exists(c) /\ pan[c] # Purged}
<1>1. /\ running[q] = "purge" /\ UNCHANGED <<cardRows, codeRows, keyring, requestState, vaultHistory>>
      /\ IF matched = {} THEN RunEnds(q)
         ELSE page' = [page EXCEPT ![q] = matched] /\ UNCHANGED <<running, after, readKey, readPan, runKey, inUse>>
  BY DEF MatchPurge
<1>2. CASE matched = {}
  BY <1>1, <1>2, RunEndKeepsAll DEF keyring, KeyTypes, FreedKeysAreUnused
<1>3. CASE matched # {}
  <2>1. page' = [page EXCEPT ![q] = matched] /\ UNCHANGED <<running, after, readKey, readPan, runKey, inUse>>
    BY <1>1, <1>3
  <2>2. matched \subseteq Cards /\ \A c \in matched : c \in archived \cup Aged /\ pan[c] # 0
    BY DEF CardTypes, Exists
  <2> HIDE DEF matched
  <2> USE <1>1 DEF cardRows, codeRows, keyring, requestState, vaultHistory
  <2>3. /\ CardTypes' /\ CardRequestTypes' /\ KeyTypes' /\ RequestsAreWhole' /\ AbsentHaveNothing'
        /\ RemovedAreClosed'
    BY DEF CardTypes, CardRequestTypes, KeyTypes, RequestsAreWhole, AbsentHaveNothing, RemovedAreClosed,
       EditsOpen
  <2>4. CodesAreAccounted' /\ FreedKeysAreUnused' /\ RetiredKeysAreUnused'
    BY DEF CodesAreAccounted, BeingDestroyed, FreedKeysAreUnused, RetiredKeysAreUnused
  <2>5. RunTypes'
    BY <2>1, <2>2 DEF RunTypes
  <2>6. RunsAreKept'
    BY <2>1, <2>2 DEF RunsAreKept, RunTypes
  <2>7. VerifiersMissNothing'
    BY <2>1 DEF VerifiersMissNothing, HasOldKey, Knows, HasRead, WillRead, RunTypes
  <2> QED BY <2>3, <2>4, <2>5, <2>6, <2>7
<1> QED BY <1>2, <1>3

\* Every step of VaultNext keeps the invariant: one case per statement.
LEMMA VaultSteps == VaultInv /\ [VaultNext]_vaultVars => VaultInv'
<1> SUFFICES ASSUME VaultInv, [VaultNext]_vaultVars PROVE VaultInv'
  OBVIOUS
<1> USE VaultConstants
<1>1. ASSUME NEW p \in CardRequests, NumberRequests(p) PROVE VaultInv'
  <2>1. CASE EncryptForRow(p) \/ WriteCard(p) \/ PurgeRemoved(p)
    BY <2>1, EncryptKeepsAll, WriteKeepsAll, PurgeKeepsAll
  <2>2. ASSUME NEW c \in Cards, RemovePaymentMethod(p, c) PROVE VaultInv'
    BY <2>2, StartsKeepAll DEF RemovePaymentMethod, Exists
  <2>3. ASSUME NEW c \in Cards, NEW n \in CardNumbers, AddPaymentMethod(p, c, n) PROVE VaultInv'
    <3>1. c \notin archived
      BY <2>3 DEF AddPaymentMethod, Exists, VaultInv, AbsentHaveNothing
    <3> QED BY <2>3, <3>1, StartsKeepAll DEF AddPaymentMethod
  <2>4. ASSUME NEW c \in Cards, NEW n \in CardNumbers, EditPaymentMethod(p, c, n) PROVE VaultInv'
    BY <2>4, StartsKeepAll DEF EditPaymentMethod
  <2> QED BY <1>1, <2>1, <2>2, <2>3, <2>4 DEF NumberRequests
<1>2. ASSUME NEW p \in CardRequests, CodeRequests(p) PROVE VaultInv'
  <2>1. ASSUME NEW c \in Cards, ConfirmPayment(p, c) \/ SetStatus(p, c) \/ DestroyBookingCvv(p, c) PROVE VaultInv'
    <3>1. PICK label \in {"confirm", "set", "destroy"} : Starts(p, label, c, 0) /\ pan[c] # 0
      BY <2>1 DEF ConfirmPayment, SetStatus, DestroyBookingCvv, Exists
    <3> QED BY <3>1, StartsKeepAll
  <2> QED BY <1>2, <2>1, DestroyKeepsAll, OutcomeKeepsAll DEF CodeRequests
<1>3. ASSUME NEW p \in CardRequests, RequestCutOff(p) PROVE VaultInv'
  BY <1>3, CutOffKeepsAll
<1>4. ASSUME NEW q \in Runs, RunSteps(q) PROVE VaultInv'
  BY <1>4, ReadPageKeepsAll, FinishKeepsAll, MatchKeepsAll, RotateKeepsAll, VerifyKeepsAll,
     PurgeRowKeepsAll DEF RunSteps
<1>5. ASSUME NEW q \in Runs, RunCutOff(q) PROVE VaultInv'
  <2>1. RunEnds(q) /\ UNCHANGED <<cardRows, codeRows, keyring, requestState, vaultHistory>>
    BY <1>5 DEF RunCutOff
  <2> QED BY <2>1, RunEndKeepsAll DEF keyring, VaultInv, KeyTypes, FreedKeysAreUnused
<1>6. ASSUME NEW q \in Runs, NEW kind \in {"rotate", "verify", "purge"}, StartRun(q, kind) PROVE VaultInv'
  BY <1>6, StartRunKeepsAll
<1>7. CASE Expiries
  <2>1. ASSUME NEW c \in Cards, TwentyFourHoursPass(c) PROVE VaultInv'
    <3> USE <2>1 DEF TwentyFourHoursPass, VaultInv, cardRows, keyring, requestState, runState, vaultHistory
    <3>1. /\ CardTypes' /\ CardRequestTypes' /\ RunTypes' /\ KeyTypes' /\ RequestsAreWhole'
          /\ AbsentHaveNothing' /\ RunsAreKept'
      BY DEF CardTypes, CardRequestTypes, RunTypes, KeyTypes, RequestsAreWhole, AbsentHaveNothing, RunsAreKept
    <3>2. /\ RemovedAreClosed' /\ CodesAreAccounted' /\ VerifiersMissNothing' /\ FreedKeysAreUnused'
          /\ RetiredKeysAreUnused'
      BY DEF RemovedAreClosed, EditsOpen, CodesAreAccounted, BeingDestroyed, VerifiersMissNothing,
         HasOldKey, Knows, HasRead,
             WillRead, FreedKeysAreUnused, RetiredKeysAreUnused
    <3> QED BY <3>1, <3>2
  <2> QED BY <1>7, <2>1, CleanUpKeepsAll DEF Expiries, DestroyExpiredCvvs, RevealExpired
<1>8. CASE Operates
  BY <1>8, DeployKeepsAll, RetireKeepsAll DEF Operates
<1>9. CASE UNCHANGED vaultVars
  <2> USE <1>9 DEF vaultVars, VaultInv, cardRows, codeRows, keyring, requestState, runState, vaultHistory
  <2>1. /\ CardTypes' /\ CardRequestTypes' /\ RunTypes' /\ KeyTypes' /\ RequestsAreWhole'
        /\ AbsentHaveNothing' /\ RunsAreKept'
    BY DEF CardTypes, CardRequestTypes, RunTypes, KeyTypes, RequestsAreWhole, AbsentHaveNothing, RunsAreKept
  <2>2. /\ RemovedAreClosed' /\ CodesAreAccounted' /\ VerifiersMissNothing' /\ FreedKeysAreUnused'
        /\ RetiredKeysAreUnused'
    BY DEF RemovedAreClosed, EditsOpen, CodesAreAccounted, BeingDestroyed, VerifiersMissNothing, HasOldKey,
       Knows, HasRead,
           WillRead, FreedKeysAreUnused, RetiredKeysAreUnused
  <2> QED BY <2>1, <2>2
<1> QED BY <1>1, <1>2, <1>3, <1>4, <1>5, <1>6, <1>7, <1>8, <1>9 DEF VaultNext

\* What else is kept of the vault, and needed of nothing above: codes past their
\* day are of cards, keys found free are in the ring, and the counts end.
LateHaveCodes == late \subseteq Cards /\ \A c \in late : code[c] # "none"
FreedAreOwn == retirable \subseteq ring
IdleHaveNoCard == \A p \in CardRequests : doing[p] = "idle" <=> card[p] = 0
LatestAreNumbers == latest \in [Cards -> CardNumbers \cup {0}]
CountsAreBounded == editions \in 0..MaxEditions /\ failures \in 0..MaxFailures

VaultRest == LateHaveCodes /\ FreedAreOwn /\ IdleHaveNoCard /\ LatestAreNumbers /\ CountsAreBounded /\ RotationKeepsNumbers

LEMMA VaultRestStarts == VaultInit => VaultRest
<1> SUFFICES ASSUME VaultInit PROVE VaultRest
  OBVIOUS
<1> USE VaultConstants DEF VaultInit
<1>1. LateHaveCodes /\ FreedAreOwn /\ IdleHaveNoCard /\ LatestAreNumbers /\ RotationKeepsNumbers
  BY DEF LatestAreNumbers, LateHaveCodes, FreedAreOwn, IdleHaveNoCard, RotationKeepsNumbers
<1>2. CountsAreBounded
  BY DEF CountsAreBounded
<1> QED BY <1>1, <1>2 DEF VaultRest

LEMMA VaultRestSteps == VaultInv /\ VaultRest /\ [VaultNext]_vaultVars => VaultRest'
<1> SUFFICES ASSUME VaultInv, VaultRest, [VaultNext]_vaultVars PROVE VaultRest'
  OBVIOUS
<1> USE VaultConstants DEF VaultRest, cardRows, codeRows, keyring, requestState, runState, vaultHistory
<1>0. CardTypes /\ CardRequestTypes /\ RunTypes /\ KeyTypes /\ RequestsAreWhole /\ AbsentHaveNothing
  BY DEF VaultInv
<1>1. ASSUME NEW p \in CardRequests, EncryptForRow(p)
      PROVE  VaultRest'
  BY <1>0, <1>1 DEF EncryptForRow, DoTo,
     LateHaveCodes, FreedAreOwn, CountsAreBounded, IdleHaveNoCard, LatestAreNumbers, RotationKeepsNumbers,
     CardTypes, CardRequestTypes, KeyTypes, RequestsAreWhole, AbsentHaveNothing
<1>2. ASSUME NEW p \in CardRequests, WriteCard(p)
      PROVE  VaultRest'
  <2> USE <1>2 DEF WriteCard, IsDone, DoTo, Exists
  <2>1. LateHaveCodes'
    BY <1>0 DEF LateHaveCodes, CardTypes, CardRequestTypes, RequestsAreWhole, AbsentHaveNothing
  <2>2. FreedAreOwn' /\ CountsAreBounded'
    BY <1>0 DEF FreedAreOwn, CountsAreBounded, KeyTypes
  <2>3. IdleHaveNoCard' /\ LatestAreNumbers'
    BY <1>0 DEF IdleHaveNoCard, LatestAreNumbers, CardRequestTypes, RequestsAreWhole
  <2>4. RotationKeepsNumbers'
    <3>1. latest' = [latest EXCEPT ![card[p]] = entered[p]] /\ pan' = [pan EXCEPT ![card[p]] = entered[p]] /\ card[p] \in Cards
      BY <1>0 DEF RequestsAreWhole
    <3>2. latest \in [Cards -> CardNumbers \cup {0}] /\ pan \in [Cards -> CardNumbers \cup {0, Purged}]
      BY <1>0 DEF CardTypes, LatestAreNumbers
    <3> HIDE DEF WriteCard
    <3>3. ASSUME NEW c \in Cards PROVE pan'[c] \in {0, Purged, latest'[c]}
      BY <3>1, <3>2, <3>3 DEF RotationKeepsNumbers
    <3> QED BY <3>3 DEF RotationKeepsNumbers
  <2> QED BY <2>1, <2>2, <2>3, <2>4
<1>3. ASSUME NEW p \in CardRequests, PurgeRemoved(p)
      PROVE  VaultRest'
  BY <1>0, <1>3 DEF PurgeRemoved, Tombstones, DoTo,
     LateHaveCodes, FreedAreOwn, CountsAreBounded, IdleHaveNoCard, LatestAreNumbers, RotationKeepsNumbers,
     CardTypes, CardRequestTypes, KeyTypes, RequestsAreWhole, AbsentHaveNothing
<1>4. ASSUME NEW p \in CardRequests, NEW label \in {"encrypt", "remove", "destroy", "confirm", "set"}, NEW c \in Cards, NEW n, Starts(p, label, c, n)
      PROVE  VaultRest'
  BY <1>0, <1>4 DEF Starts, DoTo,
     LateHaveCodes, FreedAreOwn, CountsAreBounded, IdleHaveNoCard, LatestAreNumbers, RotationKeepsNumbers,
     CardTypes, CardRequestTypes, KeyTypes, RequestsAreWhole, AbsentHaveNothing
<1>5. ASSUME NEW p \in CardRequests, DestroyCode(p)
      PROVE  VaultRest'
  BY <1>0, <1>5 DEF DestroyCode, IsDone, DoTo,
     LateHaveCodes, FreedAreOwn, CountsAreBounded, IdleHaveNoCard, LatestAreNumbers, RotationKeepsNumbers,
     CardTypes, CardRequestTypes, KeyTypes, RequestsAreWhole, AbsentHaveNothing
<1>6. ASSUME NEW p \in CardRequests, NEW outcome \in Outcomes, RecordOutcome(p, outcome)
      PROVE  VaultRest'
  BY <1>0, <1>6 DEF RecordOutcome, IsDone, DoTo,
     LateHaveCodes, FreedAreOwn, CountsAreBounded, IdleHaveNoCard, LatestAreNumbers, RotationKeepsNumbers,
     CardTypes, CardRequestTypes, KeyTypes, RequestsAreWhole, AbsentHaveNothing
<1>7. ASSUME NEW p \in CardRequests, RequestCutOff(p)
      PROVE  VaultRest'
  BY <1>0, <1>7 DEF RequestCutOff, IsDone, DoTo,
     LateHaveCodes, FreedAreOwn, CountsAreBounded, IdleHaveNoCard, LatestAreNumbers, RotationKeepsNumbers,
     CardTypes, CardRequestTypes, KeyTypes, RequestsAreWhole, AbsentHaveNothing
<1>8. ASSUME NEW q \in Runs, ReadPage(q)
      PROVE  VaultRest'
  BY <1>0, <1>8 DEF ReadPage,
     LateHaveCodes, FreedAreOwn, CountsAreBounded, IdleHaveNoCard, LatestAreNumbers, RotationKeepsNumbers,
     CardTypes, CardRequestTypes, KeyTypes, RequestsAreWhole, AbsentHaveNothing
<1>9. ASSUME NEW q \in Runs, FinishRun(q)
      PROVE  VaultRest'
  BY <1>0, <1>9 DEF FinishRun, RunEnds, RunRing,
     LateHaveCodes, FreedAreOwn, CountsAreBounded, IdleHaveNoCard, LatestAreNumbers, RotationKeepsNumbers,
     CardTypes, CardRequestTypes, KeyTypes, RequestsAreWhole, AbsentHaveNothing
<1>10. ASSUME NEW q \in Runs, MatchPurge(q)
      PROVE  VaultRest'
  BY <1>0, <1>10 DEF MatchPurge, RunEnds,
     LateHaveCodes, FreedAreOwn, CountsAreBounded, IdleHaveNoCard, LatestAreNumbers, RotationKeepsNumbers,
     CardTypes, CardRequestTypes, KeyTypes, RequestsAreWhole, AbsentHaveNothing
<1>11. ASSUME NEW q \in Runs, NEW c \in Cards, RotateRow(q, c)
      PROVE  VaultRest'
  BY <1>0, <1>11 DEF RotateRow, RowDone, SameReference,
     LateHaveCodes, FreedAreOwn, CountsAreBounded, IdleHaveNoCard, LatestAreNumbers, RotationKeepsNumbers,
     CardTypes, CardRequestTypes, KeyTypes, RequestsAreWhole, AbsentHaveNothing
<1>12. ASSUME NEW q \in Runs, NEW c \in Cards, VerifyRow(q, c)
      PROVE  VaultRest'
  BY <1>0, <1>12 DEF VerifyRow, RowDone,
     LateHaveCodes, FreedAreOwn, CountsAreBounded, IdleHaveNoCard, LatestAreNumbers, RotationKeepsNumbers,
     CardTypes, CardRequestTypes, KeyTypes, RequestsAreWhole, AbsentHaveNothing
<1>13. ASSUME NEW q \in Runs, NEW c \in Cards, PurgeRow(q, c)
      PROVE  VaultRest'
  BY <1>0, <1>13 DEF PurgeRow, RowDone, RunEnds, Tombstones,
     LateHaveCodes, FreedAreOwn, CountsAreBounded, IdleHaveNoCard, LatestAreNumbers, RotationKeepsNumbers,
     CardTypes, CardRequestTypes, KeyTypes, RequestsAreWhole, AbsentHaveNothing
<1>14. ASSUME NEW q \in Runs, NEW kind \in {"rotate", "verify", "purge"}, StartRun(q, kind)
      PROVE  VaultRest'
  BY <1>0, <1>14 DEF StartRun,
     LateHaveCodes, FreedAreOwn, CountsAreBounded, IdleHaveNoCard, LatestAreNumbers, RotationKeepsNumbers,
     CardTypes, CardRequestTypes, KeyTypes, RequestsAreWhole, AbsentHaveNothing
<1>15. ASSUME NEW q \in Runs, RunCutOff(q)
      PROVE  VaultRest'
  BY <1>0, <1>15 DEF RunCutOff, RunEnds,
     LateHaveCodes, FreedAreOwn, CountsAreBounded, IdleHaveNoCard, LatestAreNumbers, RotationKeepsNumbers,
     CardTypes, CardRequestTypes, KeyTypes, RequestsAreWhole, AbsentHaveNothing
<1>16. ASSUME NEW cs, CleanUpCodes(cs)
      PROVE  VaultRest'
  BY <1>0, <1>16 DEF CleanUpCodes,
     LateHaveCodes, FreedAreOwn, CountsAreBounded, IdleHaveNoCard, LatestAreNumbers, RotationKeepsNumbers,
     CardTypes, CardRequestTypes, KeyTypes, RequestsAreWhole, AbsentHaveNothing
<1>17. ASSUME NEW c \in Cards, TwentyFourHoursPass(c)
      PROVE  VaultRest'
  BY <1>0, <1>17 DEF TwentyFourHoursPass,
     LateHaveCodes, FreedAreOwn, CountsAreBounded, IdleHaveNoCard, LatestAreNumbers, RotationKeepsNumbers,
     CardTypes, CardRequestTypes, KeyTypes, RequestsAreWhole, AbsentHaveNothing
<1>18. ASSUME NEW k \in VaultKeys, DeployKey(k)
      PROVE  VaultRest'
  BY <1>0, <1>18 DEF DeployKey,
     LateHaveCodes, FreedAreOwn, CountsAreBounded, IdleHaveNoCard, LatestAreNumbers, RotationKeepsNumbers,
     CardTypes, CardRequestTypes, KeyTypes, RequestsAreWhole, AbsentHaveNothing
<1>19. ASSUME NEW k \in VaultKeys, RetireKey(k)
      PROVE  VaultRest'
  BY <1>0, <1>19 DEF RetireKey,
     LateHaveCodes, FreedAreOwn, CountsAreBounded, IdleHaveNoCard, LatestAreNumbers, RotationKeepsNumbers,
     CardTypes, CardRequestTypes, KeyTypes, RequestsAreWhole, AbsentHaveNothing
<1>20. ASSUME NEW p \in CardRequests, NumberRequests(p) PROVE VaultRest'
  BY <1>20, <1>1, <1>2, <1>3, <1>4 DEF NumberRequests, RemovePaymentMethod, AddPaymentMethod, EditPaymentMethod
<1>21. ASSUME NEW p \in CardRequests, CodeRequests(p) PROVE VaultRest'
  BY <1>21, <1>5, <1>6, <1>4 DEF CodeRequests, ConfirmPayment, SetStatus, DestroyBookingCvv
<1>22. ASSUME NEW q \in Runs, RunSteps(q) PROVE VaultRest'
  BY <1>22, <1>8, <1>9, <1>10, <1>11, <1>12, <1>13 DEF RunSteps
<1>23. CASE Expiries
  BY <1>23, <1>16, <1>17 DEF Expiries, DestroyExpiredCvvs, RevealExpired
<1>24. CASE Operates
  BY <1>24, <1>18, <1>19 DEF Operates
<1>25. CASE UNCHANGED vaultVars
  BY <1>25 DEF vaultVars, LateHaveCodes, FreedAreOwn, IdleHaveNoCard, LatestAreNumbers, CountsAreBounded,
     RotationKeepsNumbers
<1> QED BY <1>7, <1>14, <1>15, <1>20, <1>21, <1>22, <1>23, <1>24, <1>25 DEF VaultNext

LEMMA VaultSuffices ==
  VaultInv /\ VaultRest =>
    /\ VaultTypeOK /\ RotationKeepsNumbers
    /\ RemovedStaysPurged /\ DoneCardHasNoCode /\ RetiredKeysAreUnused
<1> SUFFICES ASSUME VaultInv, VaultRest
             PROVE  /\ VaultTypeOK /\ RotationKeepsNumbers
                    /\ RemovedStaysPurged /\ DoneCardHasNoCode /\ RetiredKeysAreUnused
  OBVIOUS
<1> USE VaultConstants DEF VaultInv, VaultRest
<1>1. VaultTypeOK
  BY DEF VaultTypeOK, CardTypes, RunTypes, KeyTypes, RunsAreKept, LateHaveCodes, FreedAreOwn,
     IdleHaveNoCard, CountsAreBounded
<1>2. RemovedStaysPurged /\ DoneCardHasNoCode
  BY DEF CardTypes, RemovedAreClosed, CodesAreAccounted, BeingDestroyed, RemovedStaysPurged, DoneCardHasNoCode
<1> QED BY <1>1, <1>2

\* Rotation writes no older number over an edit, a removed card stays purged, a card that is
\* done keeps no code, and a key found unused decrypts nothing that is stored
\* (card-key-rotation.ts 12-13, 119-124, contact-payment-methods.ts 216-224): for any cards,
\* keys, requests, runs and page size.
THEOREM VaultHolds ==
  VaultSpec => [](/\ VaultTypeOK /\ RotationKeepsNumbers
                  /\ RemovedStaysPurged /\ DoneCardHasNoCode /\ RetiredKeysAreUnused)
<1>1. VaultInit => VaultInv /\ VaultRest
  BY VaultStarts, VaultRestStarts
<1>2. (VaultInv /\ VaultRest) /\ [VaultNext]_vaultVars => (VaultInv /\ VaultRest)'
  BY VaultSteps, VaultRestSteps
<1> QED BY <1>1, <1>2, VaultSuffices, PTL DEF VaultSpec
-----------------------------------------------------------------------------
(* Attachments *)

\* What the page does before the document has been verified.
Early == {"idle", "preparing", "uploading", "verifying"}

\* Statements about one document.
Handling == {"create", "verify", "ready", "discard", "deletePending", "unrow", "remove", "deleteRow"}

\* Rows, objects and what the page knows.
DocumentTypes ==
  /\ row \in [Files -> {"none", "PENDING", "READY", "gone"}]
  /\ object \in [Files -> {"missing", "whole", "broken"}]
  /\ tab \in [Files -> Early \cup {"answering", "failed", "closed"}]
  /\ overdue \subseteq {f \in Files : row[f] = "PENDING"}
  /\ leadExists \in BOOLEAN /\ (~leadExists => Present = {})

\* The local variables of the requests.
ServingTypes ==
  /\ serving \in [Servings -> Handling \cup {"idle", "sweep", "deleteLead", "purge"}]
  /\ file \in [Servings -> Files \cup {NoFile}]
  /\ keys \in [Servings -> SUBSET Files] /\ failed \in [Servings -> SUBSET Files]
  /\ \A p \in Servings : serving[p] = "idle" => keys[p] = {} /\ failed[p] = {}
  /\ \A p \in Servings : file[p] # NoFile <=> serving[p] \in Handling

HistoryTypes == orphaned \cup crossed \cup halfDeleted \cup stray \subseteq Files /\ faults \in 0..MaxFaults

\* Whoever announces a document is alone with it.
BeginsAlone ==
  \A p \in Servings : serving[p] = "create" =>
    /\ tab[file[p]] = "preparing" /\ row[file[p]] = "none"
    /\ \A q \in Servings \ {p} : file[q] # file[p]

\* All other requests are about documents that have, or had, a row.
RowsAreKnown ==
  /\ \A p \in Servings : serving[p] \in Handling \ {"create"} => row[file[p]] # "none"
  /\ \A p \in Servings : \A f \in keys[p] \cup failed[p] : row[f] # "none"
  /\ \A f \in Files : row[f] = "none" => object[f] = "missing" /\ tab[f] # "uploading"

\* A document is verified once, and after the page has sent it.
VerifiedOnce ==
  \A p \in Servings : serving[p] \in {"verify", "ready"} =>
    /\ tab[file[p]] \notin Early /\ row[file[p]] # "READY"
    /\ \A q \in Servings \ {p} : serving[q] \in {"verify", "ready"} => file[q] # file[p]

\* A finished document was sent before.
ReadyIsSent ==
  /\ \A f \in Files : row[f] = "READY" => tab[f] \notin Early
  /\ \A p \in Servings : serving[p] \in {"remove", "deleteRow"} => tab[file[p]] \notin Early

\* What was verified is whole when it is marked, or was crossed by another request.
VerifiedIsWhole ==
  \A p \in Servings : serving[p] = "ready" => object[file[p]] = "whole" \/ file[p] \in crossed

ReadyIsKept == \A f \in Files : row[f] = "READY" /\ Discarded(f) => f \in crossed

\* A row is deleted after its object, or with a trace of it.
ObjectsGoFirst ==
  \A p \in Servings : serving[p] \in {"deletePending", "unrow", "deleteRow"} =>
    object[file[p]] = "missing" \/ file[p] \in stray

\* The deletion of the lead knows every document with bytes.
DeletionKnowsAll ==
  \A p \in Servings :
    /\ serving[p] = "deleteLead" => \A f \in Present : f \in keys[p] \cup stray \/ object[f] = "missing"
    /\ serving[p] = "purge" => ~leadExists

\* The inductive invariant of attachments.
AttachmentInv ==
  /\ DocumentTypes /\ ServingTypes /\ HistoryTypes
  /\ BeginsAlone /\ RowsAreKnown /\ VerifiedOnce /\ ReadyIsSent /\ VerifiedIsWhole
  /\ ReadyIsKept /\ ObjectsGoFirst /\ DeletionKnowsAll
  /\ ReadyHasBytes /\ NothingIsOrphanedSilently

LEMMA AttachmentStarts == AttachmentInit => AttachmentInv
<1> SUFFICES ASSUME AttachmentInit PROVE AttachmentInv
  OBVIOUS
<1> USE AttachmentConstants DEF AttachmentInit
<1>1. DocumentTypes /\ ServingTypes /\ HistoryTypes
  BY DEF DocumentTypes, ServingTypes, HistoryTypes, Early, Handling, Present
<1>2. BeginsAlone /\ RowsAreKnown /\ VerifiedOnce /\ ReadyIsSent /\ VerifiedIsWhole
  BY DEF BeginsAlone, RowsAreKnown, VerifiedOnce, ReadyIsSent, VerifiedIsWhole, Handling, Early
<1>3. ReadyIsKept /\ ObjectsGoFirst /\ DeletionKnowsAll
  BY DEF ReadyIsKept, ObjectsGoFirst, DeletionKnowsAll
<1>4. ReadyHasBytes /\ NothingIsOrphanedSilently
  BY DEF ReadyHasBytes, NothingIsOrphanedSilently
<1> QED BY <1>1, <1>2, <1>3, <1>4 DEF AttachmentInv

\* The statements, one by one.
LEMMA RequestUploadKeeps ==
  ASSUME AttachmentInv, NEW p \in Servings, NEW f \in Files, RequestUpload(p, f)
  PROVE  AttachmentInv'
<1> USE AttachmentConstants DEF AttachmentInv, RequestUpload, attachmentRows, attachmentHistory, Present,
     Serve, Take
<1>1. DocumentTypes'
  BY DEF DocumentTypes, ServingTypes, HistoryTypes, Early, Present
<1>2. ServingTypes' /\ HistoryTypes' /\ BeginsAlone' /\ RowsAreKnown'
  BY DEF DocumentTypes, ServingTypes, HistoryTypes, Handling, BeginsAlone, RowsAreKnown
<1>3. VerifiedOnce' /\ ReadyIsSent' /\ VerifiedIsWhole'
  BY DEF DocumentTypes, ServingTypes, HistoryTypes, VerifiedOnce, Early, ReadyIsSent, VerifiedIsWhole, Verified
<1>4. ReadyIsKept' /\ ObjectsGoFirst' /\ DeletionKnowsAll'
  BY DEF DocumentTypes, ServingTypes, HistoryTypes, ReadyIsKept, Discarded, ObjectsGoFirst,
     DeletionKnowsAll, Present, CollectsKeys
<1>5. ReadyHasBytes' /\ NothingIsOrphanedSilently'
  BY DEF DocumentTypes, ServingTypes, HistoryTypes, ReadyHasBytes, Discarded, Verified,
     NothingIsOrphanedSilently
<1> QED BY <1>1, <1>2, <1>3, <1>4, <1>5

LEMMA CreatePendingKeeps ==
  ASSUME AttachmentInv, NEW p \in Servings, CreatePending(p)
  PROVE  AttachmentInv'
<1> USE AttachmentConstants DEF AttachmentInv, CreatePending, Serve, Served, Goes, Fault, CollectsKeys
<1>1. DocumentTypes'
  BY DEF DocumentTypes, ServingTypes, HistoryTypes, Early, Present
<1>2. ServingTypes' /\ HistoryTypes' /\ BeginsAlone' /\ RowsAreKnown'
  BY DEF DocumentTypes, ServingTypes, HistoryTypes, Handling, BeginsAlone, RowsAreKnown
<1>3. VerifiedOnce' /\ ReadyIsSent' /\ VerifiedIsWhole'
  BY DEF DocumentTypes, ServingTypes, HistoryTypes, VerifiedOnce, Early, BeginsAlone, ReadyIsSent,
     VerifiedIsWhole, Verified
<1>4. ReadyIsKept' /\ ObjectsGoFirst' /\ DeletionKnowsAll'
  BY SMTT(30) DEF DocumentTypes, ServingTypes, HistoryTypes, ReadyIsKept, Discarded, ObjectsGoFirst, RowsAreKnown,
     BeginsAlone, DeletionKnowsAll, Present, CollectsKeys
<1>5. ReadyHasBytes' /\ NothingIsOrphanedSilently'
  BY DEF DocumentTypes, ServingTypes, HistoryTypes, ReadyHasBytes, Discarded, Verified,
     NothingIsOrphanedSilently
<1> QED BY <1>1, <1>2, <1>3, <1>4, <1>5

LEMMA PutKeeps ==
  ASSUME AttachmentInv, NEW f \in Files, NEW stored \in {"whole", "broken"}, Put(f, stored)
  PROVE  AttachmentInv'
<1> USE AttachmentConstants DEF AttachmentInv, Put, attachmentWork, Fault, CollectsKeys
<1>1. DocumentTypes'
  BY DEF DocumentTypes, ServingTypes, HistoryTypes, Early, Present
<1>2. ServingTypes' /\ HistoryTypes' /\ BeginsAlone' /\ RowsAreKnown'
  BY DEF DocumentTypes, ServingTypes, HistoryTypes, Handling, BeginsAlone, RowsAreKnown
<1>3. VerifiedOnce' /\ ReadyIsSent' /\ VerifiedIsWhole'
  BY DEF DocumentTypes, ServingTypes, HistoryTypes, VerifiedOnce, Early, ReadyIsSent, VerifiedIsWhole, Verified
<1>4. ReadyIsKept' /\ ObjectsGoFirst' /\ DeletionKnowsAll'
  BY DEF DocumentTypes, ServingTypes, HistoryTypes, ReadyIsKept, Discarded, ObjectsGoFirst, ReadyIsSent,
     Early, DeletionKnowsAll, Present, CollectsKeys
<1>5. ReadyHasBytes' /\ NothingIsOrphanedSilently'
  BY DEF DocumentTypes, ServingTypes, HistoryTypes, ReadyHasBytes, Discarded, Verified, ReadyIsSent, Early,
     NothingIsOrphanedSilently
<1> QED BY <1>1, <1>2, <1>3, <1>4, <1>5

LEMMA GivesUpKeeps ==
  ASSUME AttachmentInv, NEW f \in Files, GivesUp(f)
  PROVE  AttachmentInv'
<1> USE AttachmentConstants DEF AttachmentInv, GivesUp, attachmentRows, attachmentWork, attachmentHistory, Fault
<1>1. DocumentTypes'
  BY DEF DocumentTypes, ServingTypes, HistoryTypes, Early, Present
<1>2. ServingTypes' /\ HistoryTypes' /\ BeginsAlone' /\ RowsAreKnown'
  BY DEF DocumentTypes, ServingTypes, HistoryTypes, Handling, BeginsAlone, RowsAreKnown
<1>3. VerifiedOnce' /\ ReadyIsSent' /\ VerifiedIsWhole'
  BY DEF DocumentTypes, ServingTypes, HistoryTypes, VerifiedOnce, Early, ReadyIsSent, VerifiedIsWhole, Verified
<1>4. ReadyIsKept' /\ ObjectsGoFirst' /\ DeletionKnowsAll'
  BY DEF DocumentTypes, ServingTypes, HistoryTypes, ReadyIsKept, Discarded, ObjectsGoFirst,
     DeletionKnowsAll, Present, CollectsKeys
<1>5. ReadyHasBytes' /\ NothingIsOrphanedSilently'
  BY DEF DocumentTypes, ServingTypes, HistoryTypes, ReadyHasBytes, Discarded, Verified,
     NothingIsOrphanedSilently
<1> QED BY <1>1, <1>2, <1>3, <1>4, <1>5

LEMMA CompleteUploadKeeps ==
  ASSUME AttachmentInv, NEW p \in Servings, NEW f \in Files, CompleteUpload(p, f)
  PROVE  AttachmentInv'
<1> USE AttachmentConstants DEF AttachmentInv, CompleteUpload, attachmentRows, attachmentWork,
     attachmentHistory, Serve, Take
<1>1. DocumentTypes'
  BY DEF DocumentTypes, ServingTypes, HistoryTypes, Early, Present
<1>2. ServingTypes' /\ HistoryTypes' /\ BeginsAlone' /\ RowsAreKnown'
  BY DEF DocumentTypes, ServingTypes, HistoryTypes, Handling, BeginsAlone, RowsAreKnown
<1>3. VerifiedOnce' /\ ReadyIsSent' /\ VerifiedIsWhole'
  BY DEF DocumentTypes, ServingTypes, HistoryTypes, VerifiedOnce, Early, ReadyIsSent, VerifiedIsWhole, Verified
<1>4. ReadyIsKept' /\ ObjectsGoFirst' /\ DeletionKnowsAll'
  BY DEF DocumentTypes, ServingTypes, HistoryTypes, ReadyIsKept, Discarded, ObjectsGoFirst,
     DeletionKnowsAll, Present, CollectsKeys
<1>5. ReadyHasBytes' /\ NothingIsOrphanedSilently'
  BY DEF DocumentTypes, ServingTypes, HistoryTypes, ReadyHasBytes, Discarded, Verified,
     NothingIsOrphanedSilently
<1> QED BY <1>1, <1>2, <1>3, <1>4, <1>5

LEMMA VerifyObjectKeeps ==
  ASSUME AttachmentInv, NEW p \in Servings, VerifyObject(p)
  PROVE  AttachmentInv'
<1> USE AttachmentConstants DEF AttachmentInv, VerifyObject, attachmentRows, attachmentHistory, Serve,
     Served, Goes, Fault, Answer
<1>1. DocumentTypes'
  BY DEF DocumentTypes, ServingTypes, HistoryTypes, Early, Present
<1>2. ServingTypes' /\ HistoryTypes' /\ BeginsAlone' /\ RowsAreKnown'
  BY DEF DocumentTypes, ServingTypes, HistoryTypes, Handling, BeginsAlone, RowsAreKnown
<1>3. VerifiedOnce' /\ ReadyIsSent' /\ VerifiedIsWhole'
  BY DEF DocumentTypes, ServingTypes, HistoryTypes, VerifiedOnce, Early, ReadyIsSent, VerifiedIsWhole, Verified
<1>4. ReadyIsKept' /\ ObjectsGoFirst' /\ DeletionKnowsAll'
  BY DEF DocumentTypes, ServingTypes, HistoryTypes, ReadyIsKept, Discarded, VerifiedOnce, ObjectsGoFirst,
     DeletionKnowsAll, Present, CollectsKeys
<1>5. ReadyHasBytes' /\ NothingIsOrphanedSilently'
  BY DEF DocumentTypes, ServingTypes, HistoryTypes, ReadyHasBytes, Discarded, Verified,
     NothingIsOrphanedSilently
<1> QED BY <1>1, <1>2, <1>3, <1>4, <1>5

LEMMA MarkReadyKeeps ==
  ASSUME AttachmentInv, NEW p \in Servings, MarkReady(p)
  PROVE  AttachmentInv'
<1> USE AttachmentConstants DEF AttachmentInv, MarkReady, Serve, Served, Answer
<1>1. DocumentTypes'
  BY DEF DocumentTypes, ServingTypes, HistoryTypes, Early, Present
<1>2. ServingTypes' /\ HistoryTypes' /\ BeginsAlone' /\ RowsAreKnown'
  BY DEF DocumentTypes, ServingTypes, HistoryTypes, Handling, BeginsAlone, RowsAreKnown
<1>3. VerifiedOnce' /\ ReadyIsSent' /\ VerifiedIsWhole'
  BY DEF DocumentTypes, ServingTypes, HistoryTypes, VerifiedOnce, Early, ReadyIsSent, VerifiedIsWhole, Verified
<1>4. ReadyIsKept' /\ ObjectsGoFirst' /\ DeletionKnowsAll'
  BY DEF DocumentTypes, ServingTypes, HistoryTypes, ReadyIsKept, Discarded, ObjectsGoFirst,
     DeletionKnowsAll, Present, CollectsKeys
<1>5. ReadyHasBytes' /\ NothingIsOrphanedSilently'
  BY DEF DocumentTypes, ServingTypes, HistoryTypes, ReadyHasBytes, Discarded, Verified, VerifiedIsWhole,
     NothingIsOrphanedSilently
<1> QED BY <1>1, <1>2, <1>3, <1>4, <1>5

LEMMA AbandonUploadKeeps ==
  ASSUME AttachmentInv, NEW p \in Servings, NEW f \in Files, AbandonUpload(p, f)
  PROVE  AttachmentInv'
<1> USE AttachmentConstants DEF AttachmentInv, AbandonUpload, attachmentRows, attachmentWork,
     attachmentHistory, Serve, Take
<1>1. DocumentTypes'
  BY DEF DocumentTypes, ServingTypes, HistoryTypes, Early, Present
<1>2. ServingTypes' /\ HistoryTypes' /\ BeginsAlone' /\ RowsAreKnown'
  BY DEF DocumentTypes, ServingTypes, HistoryTypes, Handling, BeginsAlone, RowsAreKnown
<1>3. VerifiedOnce' /\ ReadyIsSent' /\ VerifiedIsWhole'
  BY DEF DocumentTypes, ServingTypes, HistoryTypes, VerifiedOnce, Early, ReadyIsSent, VerifiedIsWhole, Verified
<1>4. ReadyIsKept' /\ ObjectsGoFirst' /\ DeletionKnowsAll'
  BY DEF DocumentTypes, ServingTypes, HistoryTypes, ReadyIsKept, Discarded, ObjectsGoFirst,
     DeletionKnowsAll, Present, CollectsKeys
<1>5. ReadyHasBytes' /\ NothingIsOrphanedSilently'
  BY DEF DocumentTypes, ServingTypes, HistoryTypes, ReadyHasBytes, Discarded, Verified,
     NothingIsOrphanedSilently
<1> QED BY <1>1, <1>2, <1>3, <1>4, <1>5

LEMMA DiscardObjectKeeps ==
  ASSUME AttachmentInv, NEW p \in Servings, DiscardObject(p)
  PROVE  AttachmentInv'
<1> USE AttachmentConstants DEF AttachmentInv, DiscardObject, Serve, Goes, Fault, Drops
<1>1. DocumentTypes'
  BY DEF DocumentTypes, ServingTypes, HistoryTypes, Early, Present
<1>2. ServingTypes' /\ HistoryTypes' /\ BeginsAlone' /\ RowsAreKnown'
  BY DEF DocumentTypes, ServingTypes, HistoryTypes, Handling, BeginsAlone, RowsAreKnown
<1>3. VerifiedOnce' /\ ReadyIsSent' /\ VerifiedIsWhole'
  BY DEF DocumentTypes, ServingTypes, HistoryTypes, VerifiedOnce, Early, ReadyIsSent, VerifiedIsWhole, Verified
<1>4. ReadyIsKept' /\ ObjectsGoFirst' /\ DeletionKnowsAll'
  BY DEF DocumentTypes, ServingTypes, HistoryTypes, ReadyIsKept, Discarded, ObjectsGoFirst,
     DeletionKnowsAll, Present, CollectsKeys
<1>5. ReadyHasBytes' /\ NothingIsOrphanedSilently'
  BY DEF DocumentTypes, ServingTypes, HistoryTypes, ReadyHasBytes, Discarded, Verified, ReadyIsKept,
     NothingIsOrphanedSilently
<1> QED BY <1>1, <1>2, <1>3, <1>4, <1>5

LEMMA DeletePendingKeeps ==
  ASSUME AttachmentInv, NEW p \in Servings, DeletePending(p)
  PROVE  AttachmentInv'
<1> USE AttachmentConstants DEF AttachmentInv, DeletePending, attachmentHistory, Serve, Served, Answer, Unrow
<1>1. DocumentTypes'
  BY DEF DocumentTypes, ServingTypes, HistoryTypes, Early, Present
<1>2. ServingTypes' /\ HistoryTypes' /\ BeginsAlone' /\ RowsAreKnown'
  BY DEF DocumentTypes, ServingTypes, HistoryTypes, Handling, BeginsAlone, RowsAreKnown
<1>3. VerifiedOnce' /\ ReadyIsSent' /\ VerifiedIsWhole'
  BY DEF DocumentTypes, ServingTypes, HistoryTypes, VerifiedOnce, Early, ReadyIsSent, VerifiedIsWhole, Verified
<1>4. ReadyIsKept' /\ ObjectsGoFirst' /\ DeletionKnowsAll'
  BY DEF DocumentTypes, ServingTypes, HistoryTypes, ReadyIsKept, Discarded, ObjectsGoFirst,
     DeletionKnowsAll, Present, CollectsKeys
<1>5. ReadyHasBytes' /\ NothingIsOrphanedSilently'
  BY DEF DocumentTypes, ServingTypes, HistoryTypes, ReadyHasBytes, Discarded, Verified,
     NothingIsOrphanedSilently, ObjectsGoFirst
<1> QED BY <1>1, <1>2, <1>3, <1>4, <1>5

LEMMA HourPassesKeeps ==
  ASSUME AttachmentInv, NEW f \in Files, HourPasses(f)
  PROVE  AttachmentInv'
<1> USE AttachmentConstants DEF AttachmentInv, HourPasses, attachmentWork, attachmentHistory
<1>1. DocumentTypes'
  BY DEF DocumentTypes, ServingTypes, HistoryTypes, Early, Present
<1>2. ServingTypes' /\ HistoryTypes' /\ BeginsAlone' /\ RowsAreKnown'
  BY DEF DocumentTypes, ServingTypes, HistoryTypes, Handling, BeginsAlone, RowsAreKnown
<1>3. VerifiedOnce' /\ ReadyIsSent' /\ VerifiedIsWhole'
  BY DEF DocumentTypes, ServingTypes, HistoryTypes, VerifiedOnce, Early, ReadyIsSent, VerifiedIsWhole, Verified
<1>4. ReadyIsKept' /\ ObjectsGoFirst' /\ DeletionKnowsAll'
  BY DEF DocumentTypes, ServingTypes, HistoryTypes, ReadyIsKept, Discarded, ObjectsGoFirst,
     DeletionKnowsAll, Present, CollectsKeys
<1>5. ReadyHasBytes' /\ NothingIsOrphanedSilently'
  BY DEF DocumentTypes, ServingTypes, HistoryTypes, ReadyHasBytes, Discarded, Verified,
     NothingIsOrphanedSilently
<1> QED BY <1>1, <1>2, <1>3, <1>4, <1>5

LEMMA StartSweepKeeps ==
  ASSUME AttachmentInv, NEW p \in Servings, StartSweep(p)
  PROVE  AttachmentInv'
<1> USE AttachmentConstants DEF AttachmentInv, StartSweep, attachmentRows, attachmentHistory, Serve
<1>1. DocumentTypes'
  BY DEF DocumentTypes, ServingTypes, HistoryTypes, Early, Present
<1>2. ServingTypes' /\ HistoryTypes' /\ BeginsAlone' /\ RowsAreKnown'
  BY DEF DocumentTypes, ServingTypes, HistoryTypes, Handling, BeginsAlone, RowsAreKnown
<1>3. VerifiedOnce' /\ ReadyIsSent' /\ VerifiedIsWhole'
  BY DEF DocumentTypes, ServingTypes, HistoryTypes, VerifiedOnce, Early, ReadyIsSent, VerifiedIsWhole, Verified
<1>4. ReadyIsKept' /\ ObjectsGoFirst' /\ DeletionKnowsAll'
  BY DEF DocumentTypes, ServingTypes, HistoryTypes, ReadyIsKept, Discarded, ObjectsGoFirst,
     DeletionKnowsAll, Present, CollectsKeys
<1>5. ReadyHasBytes' /\ NothingIsOrphanedSilently'
  BY DEF DocumentTypes, ServingTypes, HistoryTypes, ReadyHasBytes, Discarded, Verified,
     NothingIsOrphanedSilently
<1> QED BY <1>1, <1>2, <1>3, <1>4, <1>5

LEMMA SweepObjectKeeps ==
  ASSUME AttachmentInv, NEW p \in Servings, NEW f \in Files, SweepObject(p, f)
  PROVE  AttachmentInv'
<1> USE AttachmentConstants DEF AttachmentInv, SweepObject, Serve, Fault, Drops
<1>1. DocumentTypes'
  BY DEF DocumentTypes, ServingTypes, HistoryTypes, Early, Present
<1>2. ServingTypes' /\ HistoryTypes' /\ BeginsAlone' /\ RowsAreKnown'
  BY DEF DocumentTypes, ServingTypes, HistoryTypes, Handling, BeginsAlone, RowsAreKnown
<1>3. VerifiedOnce' /\ ReadyIsSent' /\ VerifiedIsWhole'
  BY DEF DocumentTypes, ServingTypes, HistoryTypes, VerifiedOnce, Early, ReadyIsSent, VerifiedIsWhole, Verified
<1>4. ReadyIsKept' /\ ObjectsGoFirst' /\ DeletionKnowsAll'
  BY DEF DocumentTypes, ServingTypes, HistoryTypes, ReadyIsKept, Discarded, ObjectsGoFirst,
     DeletionKnowsAll, Present, CollectsKeys
<1>5. ReadyHasBytes' /\ NothingIsOrphanedSilently'
  BY DEF DocumentTypes, ServingTypes, HistoryTypes, ReadyHasBytes, Discarded, Verified, ReadyIsKept,
     NothingIsOrphanedSilently
<1> QED BY <1>1, <1>2, <1>3, <1>4, <1>5

LEMMA SweepRowKeeps ==
  ASSUME AttachmentInv, NEW p \in Servings, SweepRow(p)
  PROVE  AttachmentInv'
<1> USE AttachmentConstants DEF AttachmentInv, SweepRow, attachmentHistory, Serve, Unrow
<1>1. DocumentTypes'
  BY DEF DocumentTypes, ServingTypes, HistoryTypes, Early, Present
<1>2. ServingTypes' /\ HistoryTypes' /\ BeginsAlone' /\ RowsAreKnown'
  BY DEF DocumentTypes, ServingTypes, HistoryTypes, Handling, BeginsAlone, RowsAreKnown
<1>3. VerifiedOnce' /\ ReadyIsSent' /\ VerifiedIsWhole'
  BY DEF DocumentTypes, ServingTypes, HistoryTypes, VerifiedOnce, Early, ReadyIsSent, VerifiedIsWhole, Verified
<1>4. ReadyIsKept' /\ ObjectsGoFirst' /\ DeletionKnowsAll'
  BY DEF DocumentTypes, ServingTypes, HistoryTypes, ReadyIsKept, Discarded, ObjectsGoFirst,
     DeletionKnowsAll, Present, CollectsKeys
<1>5. ReadyHasBytes' /\ NothingIsOrphanedSilently'
  BY DEF DocumentTypes, ServingTypes, HistoryTypes, ReadyHasBytes, Discarded, Verified,
     NothingIsOrphanedSilently, ObjectsGoFirst
<1> QED BY <1>1, <1>2, <1>3, <1>4, <1>5

LEMMA SweepEndsKeeps ==
  ASSUME AttachmentInv, NEW p \in Servings, SweepEnds(p)
  PROVE  AttachmentInv'
<1> USE AttachmentConstants DEF AttachmentInv, SweepEnds, attachmentRows, attachmentHistory, Serve, Served
<1>1. DocumentTypes'
  BY DEF DocumentTypes, ServingTypes, HistoryTypes, Early, Present
<1>2. ServingTypes' /\ HistoryTypes' /\ BeginsAlone' /\ RowsAreKnown'
  BY DEF DocumentTypes, ServingTypes, HistoryTypes, Handling, BeginsAlone, RowsAreKnown
<1>3. VerifiedOnce' /\ ReadyIsSent' /\ VerifiedIsWhole'
  BY DEF DocumentTypes, ServingTypes, HistoryTypes, VerifiedOnce, Early, ReadyIsSent, VerifiedIsWhole, Verified
<1>4. ReadyIsKept' /\ ObjectsGoFirst' /\ DeletionKnowsAll'
  BY DEF DocumentTypes, ServingTypes, HistoryTypes, ReadyIsKept, Discarded, ObjectsGoFirst,
     DeletionKnowsAll, Present, CollectsKeys
<1>5. ReadyHasBytes' /\ NothingIsOrphanedSilently'
  BY DEF DocumentTypes, ServingTypes, HistoryTypes, ReadyHasBytes, Discarded, Verified,
     NothingIsOrphanedSilently
<1> QED BY <1>1, <1>2, <1>3, <1>4, <1>5

LEMMA DeleteAttachmentKeeps ==
  ASSUME AttachmentInv, NEW p \in Servings, NEW f \in Files, DeleteAttachment(p, f)
  PROVE  AttachmentInv'
<1> USE AttachmentConstants DEF AttachmentInv, DeleteAttachment, attachmentRows, attachmentHistory, Serve, Take
<1>1. DocumentTypes'
  BY DEF DocumentTypes, ServingTypes, HistoryTypes, Early, Present
<1>2. ServingTypes' /\ HistoryTypes' /\ BeginsAlone' /\ RowsAreKnown'
  BY DEF DocumentTypes, ServingTypes, HistoryTypes, Handling, BeginsAlone, RowsAreKnown
<1>3. VerifiedOnce' /\ ReadyIsSent' /\ VerifiedIsWhole'
  BY DEF DocumentTypes, ServingTypes, HistoryTypes, VerifiedOnce, Early, ReadyIsSent, VerifiedIsWhole, Verified
<1>4. ReadyIsKept' /\ ObjectsGoFirst' /\ DeletionKnowsAll'
  BY DEF DocumentTypes, ServingTypes, HistoryTypes, ReadyIsKept, Discarded, ObjectsGoFirst,
     DeletionKnowsAll, Present, CollectsKeys
<1>5. ReadyHasBytes' /\ NothingIsOrphanedSilently'
  BY DEF DocumentTypes, ServingTypes, HistoryTypes, ReadyHasBytes, Discarded, Verified,
     NothingIsOrphanedSilently
<1> QED BY <1>1, <1>2, <1>3, <1>4, <1>5

LEMMA RemoveObjectKeeps ==
  ASSUME AttachmentInv, NEW p \in Servings, RemoveObject(p)
  PROVE  AttachmentInv'
<1> USE AttachmentConstants DEF AttachmentInv, RemoveObject, Serve, Served, Goes, Fault, Drops
<1>1. DocumentTypes'
  BY DEF DocumentTypes, ServingTypes, HistoryTypes, Early, Present
<1>2. ServingTypes' /\ HistoryTypes' /\ BeginsAlone' /\ RowsAreKnown'
  BY DEF DocumentTypes, ServingTypes, HistoryTypes, Handling, BeginsAlone, RowsAreKnown
<1>3. VerifiedOnce' /\ ReadyIsSent' /\ VerifiedIsWhole'
  BY DEF DocumentTypes, ServingTypes, HistoryTypes, VerifiedOnce, Early, ReadyIsSent, VerifiedIsWhole, Verified
<1>4. ReadyIsKept' /\ ObjectsGoFirst' /\ DeletionKnowsAll'
  BY DEF DocumentTypes, ServingTypes, HistoryTypes, ReadyIsKept, Discarded, ObjectsGoFirst,
     DeletionKnowsAll, Present, CollectsKeys
<1>5. ReadyHasBytes' /\ NothingIsOrphanedSilently'
  BY DEF DocumentTypes, ServingTypes, HistoryTypes, ReadyHasBytes, Discarded, Verified,
     NothingIsOrphanedSilently
<1> QED BY <1>1, <1>2, <1>3, <1>4, <1>5

LEMMA DeleteRowKeeps ==
  ASSUME AttachmentInv, NEW p \in Servings, DeleteRow(p)
  PROVE  AttachmentInv'
<1> USE AttachmentConstants DEF AttachmentInv, DeleteRow, Serve, Served, Unrow
<1>1. DocumentTypes'
  BY DEF DocumentTypes, ServingTypes, HistoryTypes, Early, Present
<1>2. ServingTypes' /\ HistoryTypes' /\ BeginsAlone' /\ RowsAreKnown'
  BY DEF DocumentTypes, ServingTypes, HistoryTypes, Handling, BeginsAlone, RowsAreKnown
<1>3. VerifiedOnce' /\ ReadyIsSent' /\ VerifiedIsWhole'
  BY DEF DocumentTypes, ServingTypes, HistoryTypes, VerifiedOnce, Early, ReadyIsSent, VerifiedIsWhole, Verified
<1>4. ReadyIsKept' /\ ObjectsGoFirst' /\ DeletionKnowsAll'
  BY DEF DocumentTypes, ServingTypes, HistoryTypes, ReadyIsKept, Discarded, ObjectsGoFirst,
     DeletionKnowsAll, Present, CollectsKeys
<1>5. ReadyHasBytes' /\ NothingIsOrphanedSilently'
  BY DEF DocumentTypes, ServingTypes, HistoryTypes, ReadyHasBytes, Discarded, Verified,
     NothingIsOrphanedSilently, ObjectsGoFirst
<1> QED BY <1>1, <1>2, <1>3, <1>4, <1>5

LEMMA CollectKeysKeeps ==
  ASSUME AttachmentInv, NEW p \in Servings, CollectKeys(p)
  PROVE  AttachmentInv'
<1> USE AttachmentConstants DEF AttachmentInv, CollectKeys, attachmentRows, attachmentHistory, Present, Serve
<1>1. DocumentTypes'
  BY DEF DocumentTypes, ServingTypes, HistoryTypes, Early, Present
<1>2. ServingTypes' /\ HistoryTypes' /\ BeginsAlone' /\ RowsAreKnown'
  BY DEF DocumentTypes, ServingTypes, HistoryTypes, Handling, BeginsAlone, RowsAreKnown
<1>3. VerifiedOnce' /\ ReadyIsSent' /\ VerifiedIsWhole'
  BY DEF DocumentTypes, ServingTypes, HistoryTypes, VerifiedOnce, Early, ReadyIsSent, VerifiedIsWhole, Verified
<1>4. ReadyIsKept' /\ ObjectsGoFirst' /\ DeletionKnowsAll'
  BY DEF DocumentTypes, ServingTypes, HistoryTypes, ReadyIsKept, Discarded, ObjectsGoFirst,
     DeletionKnowsAll, Present, CollectsKeys
<1>5. ReadyHasBytes' /\ NothingIsOrphanedSilently'
  BY DEF DocumentTypes, ServingTypes, HistoryTypes, ReadyHasBytes, Discarded, Verified,
     NothingIsOrphanedSilently
<1> QED BY <1>1, <1>2, <1>3, <1>4, <1>5

LEMMA DeleteLeadKeeps ==
  ASSUME AttachmentInv, NEW p \in Servings, DeleteLead(p)
  PROVE  AttachmentInv'
<1> USE AttachmentConstants DEF AttachmentInv, DeleteLead, Present, Serve, Served, Goes
<1>1. DocumentTypes'
  BY DEF DocumentTypes, ServingTypes, HistoryTypes, Early, Present
<1>2. ServingTypes' /\ HistoryTypes' /\ BeginsAlone' /\ RowsAreKnown'
  BY DEF DocumentTypes, ServingTypes, HistoryTypes, Handling, BeginsAlone, RowsAreKnown
<1>3. VerifiedOnce' /\ ReadyIsSent' /\ VerifiedIsWhole'
  BY DEF DocumentTypes, ServingTypes, HistoryTypes, VerifiedOnce, Early, ReadyIsSent, VerifiedIsWhole, Verified
<1>4. ReadyIsKept' /\ ObjectsGoFirst' /\ DeletionKnowsAll'
  BY DEF DocumentTypes, ServingTypes, HistoryTypes, ReadyIsKept, Discarded, ObjectsGoFirst,
     DeletionKnowsAll, Present, CollectsKeys
<1>5. ReadyHasBytes' /\ NothingIsOrphanedSilently'
  BY DEF DocumentTypes, ServingTypes, HistoryTypes, ReadyHasBytes, Discarded, Verified,
     NothingIsOrphanedSilently, DeletionKnowsAll
<1> QED BY <1>1, <1>2, <1>3, <1>4, <1>5

LEMMA PurgeObjectKeeps ==
  ASSUME AttachmentInv, NEW p \in Servings, NEW f \in Files, PurgeObject(p, f)
  PROVE  AttachmentInv'
<1> USE AttachmentConstants DEF AttachmentInv, PurgeObject, Fault, Drops
<1>1. DocumentTypes'
  BY DEF DocumentTypes, ServingTypes, HistoryTypes, Early, Present
<1>2. ServingTypes' /\ HistoryTypes' /\ BeginsAlone' /\ RowsAreKnown'
  BY DEF DocumentTypes, ServingTypes, HistoryTypes, Handling, BeginsAlone, RowsAreKnown
<1>3. VerifiedOnce' /\ ReadyIsSent' /\ VerifiedIsWhole'
  BY DEF DocumentTypes, ServingTypes, HistoryTypes, VerifiedOnce, Early, ReadyIsSent, VerifiedIsWhole, Verified
<1>4. ReadyIsKept' /\ ObjectsGoFirst' /\ DeletionKnowsAll'
  BY DEF DocumentTypes, ServingTypes, HistoryTypes, ReadyIsKept, Discarded, ObjectsGoFirst,
     DeletionKnowsAll, Present, CollectsKeys
<1>5. ReadyHasBytes' /\ NothingIsOrphanedSilently'
  BY DEF DocumentTypes, ServingTypes, HistoryTypes, ReadyHasBytes, Discarded, Verified, DeletionKnowsAll,
     Present, NothingIsOrphanedSilently
<1> QED BY <1>1, <1>2, <1>3, <1>4, <1>5

LEMMA AuditOrphansKeeps ==
  ASSUME AttachmentInv, NEW p \in Servings, AuditOrphans(p)
  PROVE  AttachmentInv'
<1> USE AttachmentConstants DEF AttachmentInv, AuditOrphans, attachmentRows, attachmentHistory, Serve, Served
<1>1. DocumentTypes'
  BY DEF DocumentTypes, ServingTypes, HistoryTypes, Early, Present
<1>2. ServingTypes' /\ HistoryTypes' /\ BeginsAlone' /\ RowsAreKnown'
  BY DEF DocumentTypes, ServingTypes, HistoryTypes, Handling, BeginsAlone, RowsAreKnown
<1>3. VerifiedOnce' /\ ReadyIsSent' /\ VerifiedIsWhole'
  BY DEF DocumentTypes, ServingTypes, HistoryTypes, VerifiedOnce, Early, ReadyIsSent, VerifiedIsWhole, Verified
<1>4. ReadyIsKept' /\ ObjectsGoFirst' /\ DeletionKnowsAll'
  BY DEF DocumentTypes, ServingTypes, HistoryTypes, ReadyIsKept, Discarded, ObjectsGoFirst,
     DeletionKnowsAll, Present, CollectsKeys
<1>5. ReadyHasBytes' /\ NothingIsOrphanedSilently'
  BY DEF DocumentTypes, ServingTypes, HistoryTypes, ReadyHasBytes, Discarded, Verified,
     NothingIsOrphanedSilently
<1> QED BY <1>1, <1>2, <1>3, <1>4, <1>5

LEMMA CutOffKeeps ==
  ASSUME AttachmentInv, NEW p \in Servings, CutOff(p)
  PROVE  AttachmentInv'
<1> USE AttachmentConstants DEF AttachmentInv, CutOff, attachmentRows, Serve, Served, Fault
<1>1. DocumentTypes'
  BY DEF DocumentTypes, ServingTypes, HistoryTypes, Early, Present
<1>2. ServingTypes' /\ HistoryTypes' /\ BeginsAlone' /\ RowsAreKnown'
  BY DEF DocumentTypes, ServingTypes, HistoryTypes, Handling, BeginsAlone, RowsAreKnown
<1>3. VerifiedOnce' /\ ReadyIsSent' /\ VerifiedIsWhole'
  BY DEF DocumentTypes, ServingTypes, HistoryTypes, VerifiedOnce, Early, ReadyIsSent, VerifiedIsWhole, Verified
<1>4. ReadyIsKept' /\ ObjectsGoFirst' /\ DeletionKnowsAll'
  BY DEF DocumentTypes, ServingTypes, HistoryTypes, ReadyIsKept, Discarded, ObjectsGoFirst,
     DeletionKnowsAll, Present, CollectsKeys
<1>5. ReadyHasBytes' /\ NothingIsOrphanedSilently'
  BY DEF DocumentTypes, ServingTypes, HistoryTypes, ReadyHasBytes, Discarded, Verified,
     NothingIsOrphanedSilently
<1> QED BY <1>1, <1>2, <1>3, <1>4, <1>5

\* Every step of AttachmentNext keeps the invariant.
LEMMA AttachmentSteps == AttachmentInv /\ [AttachmentNext]_attachmentVars => AttachmentInv'
<1> SUFFICES ASSUME AttachmentInv, [AttachmentNext]_attachmentVars PROVE AttachmentInv'
  OBVIOUS
<1>1. ASSUME NEW p \in Servings, Uploads(p) PROVE AttachmentInv'
  BY <1>1, CreatePendingKeeps, VerifyObjectKeeps, MarkReadyKeeps, DiscardObjectKeeps, DeletePendingKeeps,
     RequestUploadKeeps, CompleteUploadKeeps, AbandonUploadKeeps DEF Uploads
<1>2. ASSUME NEW p \in Servings, Deletes(p) PROVE AttachmentInv'
  BY <1>2, StartSweepKeeps, SweepRowKeeps, SweepEndsKeeps, RemoveObjectKeeps, DeleteRowKeeps,
     CollectKeysKeeps, DeleteLeadKeeps,
     AuditOrphansKeeps, SweepObjectKeeps, DeleteAttachmentKeeps, PurgeObjectKeeps DEF Deletes
<1>3. ASSUME NEW p \in Servings, CutOff(p) PROVE AttachmentInv'
  BY <1>3, CutOffKeeps
<1>4. ASSUME NEW f \in Files, Browser(f) PROVE AttachmentInv'
  BY <1>4, GivesUpKeeps, HourPassesKeeps, PutKeeps DEF Browser
<1>5. CASE UNCHANGED attachmentVars
  <2> USE <1>5 DEF AttachmentInv, attachmentVars, attachmentRows, attachmentWork, attachmentHistory
  <2>1. DocumentTypes' /\ ServingTypes' /\ HistoryTypes' /\ BeginsAlone' /\ RowsAreKnown' /\ VerifiedOnce'
    BY DEF DocumentTypes, ServingTypes, HistoryTypes, BeginsAlone, RowsAreKnown, VerifiedOnce, Present
  <2>2. /\ ReadyIsSent' /\ VerifiedIsWhole' /\ ReadyIsKept' /\ ObjectsGoFirst' /\ DeletionKnowsAll'
        /\ ReadyHasBytes' /\ NothingIsOrphanedSilently'
    BY DEF ReadyIsSent, VerifiedIsWhole, ReadyIsKept, Discarded, ObjectsGoFirst, DeletionKnowsAll, Present,
       ReadyHasBytes, NothingIsOrphanedSilently
  <2> QED BY <2>1, <2>2
<1> QED BY <1>1, <1>2, <1>3, <1>4, <1>5 DEF AttachmentNext

LEMMA AttachmentsSuffice == AttachmentInv => AttachmentTypeOK /\ ReadyHasBytes /\ NothingIsOrphanedSilently
BY DEF AttachmentInv, DocumentTypes, ServingTypes, HistoryTypes, AttachmentTypeOK, Early, Handling

\* A finished document has its bytes, and no bytes are left that nothing records, through
\* failures of the store, the sweep, deletions and dying requests: for any documents and
\* requests.
THEOREM AttachmentsHold == AttachmentSpec => [](AttachmentTypeOK /\ ReadyHasBytes /\ NothingIsOrphanedSilently)
BY AttachmentStarts, AttachmentSteps, AttachmentsSuffice, PTL DEF AttachmentSpec
-----------------------------------------------------------------------------
(* The parts together *)

\* The parts share no state: what each keeps, all keep.
RecordsInv ==
  /\ IntakeInv /\ AttachmentInv
  /\ HandoverInv /\ ChannelInv /\ SessionInv /\ BootstrapInv
  /\ AccountInv /\ RequestsAreBounded /\ ChangesEnd
  /\ VaultInv /\ VaultRest

LEMMA RecordsStart == RecordsInit => RecordsInv
BY IntakeStarts, AttachmentStarts, HandoverStarts, ChannelStarts, SessionStarts, BootstrapStarts,
   AccountStarts, AccountRestStarts, VaultStarts, VaultRestStarts
DEF RecordsInit, RecordsInv

\* A step of the records is a step of one part, and leaves the others as they are;
\* what a focus leaves out of a part's moves are still moves of the part.
LEMMA RecordsStepsAreTheirs ==
  ASSUME [RecordsNext]_RecordsVars
  PROVE  /\ [IntakeNext]_intakeVars /\ [AttachmentNext]_attachmentVars
         /\ [HandoverNext]_handoverVars /\ [ChannelNext]_phoneVars
         /\ [SessionNext]_sessionVars /\ [BootstrapNext]_bootVars
         /\ [AccountNext]_accountVars /\ [VaultNext]_vaultVars
<1>1. CASE IntakeMoves /\ OnlyIntake
  BY <1>1 DEF IntakeMoves, OnlyIntake
<1>2. CASE HandoverMoves /\ OnlyHandover
  BY <1>2 DEF HandoverMoves, OnlyHandover
<1>3. CASE ChannelMoves /\ OnlyChannels
  BY <1>3 DEF ChannelMoves, OnlyChannels
<1>4. CASE AccountMoves /\ OnlyAccounts
  <2>1. AccountNext
    BY <1>4 DEF AccountMoves, AccountNext
  <2> QED BY <1>4, <2>1 DEF OnlyAccounts
<1>5. CASE SessionMoves /\ OnlySessions
  BY <1>5 DEF SessionMoves, OnlySessions
<1>6. CASE BootstrapNext /\ OnlyBootstrap
  BY <1>6 DEF OnlyBootstrap
<1>7. CASE VaultMoves /\ OnlyVault
  <2>1. VaultNext
    BY <1>7 DEF VaultMoves, VaultNext
  <2> QED BY <1>7, <2>1 DEF OnlyVault
<1>8. CASE DocumentMoves /\ OnlyAttachments
  BY <1>8 DEF DocumentMoves, OnlyAttachments
<1>9. CASE UNCHANGED RecordsVars
  BY <1>9 DEF RecordsVars
<1> QED BY <1>1, <1>2, <1>3, <1>4, <1>5, <1>6, <1>7, <1>8, <1>9 DEF RecordsNext

LEMMA RecordsStep == RecordsInv /\ [RecordsNext]_RecordsVars => RecordsInv'
BY RecordsStepsAreTheirs, IntakeSteps, AttachmentSteps, HandoverSteps, ChannelSteps, SessionSteps,
     BootstrapSteps,
   AccountSteps, AccountRestSteps, VaultSteps, VaultRestSteps
DEF RecordsInv

LEMMA RecordsStay == RecordsSpec => []RecordsInv
BY RecordsStart, RecordsStep, PTL DEF RecordsSpec

\* Every row, local variable and bound of the eight parts keeps its type.
THEOREM RecordsTypesHold == RecordsSpec => []RecordsTypeOK
<1>1. RecordsInv => RecordsTypeOK
  BY IntakeSuffices, AttachmentsSuffice, MovesSuffice, ChannelsSuffice, AccountsSuffice, SessionsSuffice,
     BootstrapSuffices, VaultSuffices
  DEF RecordsInv, RecordsTypeOK
<1> QED BY <1>1, RecordsStay, PTL

\* Requests that find nothing and insert, at once, end with one of it: contact,
\* primary number, company and administrator.
THEOREM RacersAgreeOnOneHolds == RecordsSpec => []RacersAgreeOnOne
<1>1. RecordsInv => RacersAgreeOnOne
  BY IntakeSuffices, ChannelsSuffice, BootstrapSuffices DEF RecordsInv, RacersAgreeOnOne
<1> QED BY <1>1, RecordsStay, PTL

\* What is written of reassignments and of sessions that ended is what happened.
THEOREM HistoryIsTrueHolds == RecordsSpec => []HistoryIsTrue
<1>1. RecordsInv => HistoryIsTrue
  BY MovesSuffice, SessionsSuffice DEF RecordsInv, HistoryIsTrue
<1> QED BY <1>1, RecordsStay, PTL

\* An accepted lead, a card's number, the bytes of a document and the record of
\* bytes still stored are never lost.
THEOREM NothingIsLostHolds == RecordsSpec => []NothingIsLost
<1>1. RecordsInv => NothingIsLost
  BY IntakeSuffices, AttachmentsSuffice, VaultSuffices DEF RecordsInv, NothingIsLost
<1> QED BY <1>1, RecordsStay, PTL

\* No request under way brings back a session, a card, a security code or a key
\* that ended.
THEOREM WhatEndedStaysEndedHolds == RecordsSpec => []WhatEndedStaysEnded
<1>1. RecordsInv => WhatEndedStaysEnded
  BY SessionsSuffice, VaultSuffices DEF RecordsInv, WhatEndedStaysEnded
<1> QED BY <1>1, RecordsStay, PTL

\* Changes of accounts at once leave an administrator, teams that match the roles
\* and no unproven right to reveal.
THEOREM OfficeStaysInOrderHolds == RecordsSpec => []OfficeStaysInOrder
<1>1. RecordsInv => OfficeStaysInOrder
  BY AccountsSuffice DEF RecordsInv, OfficeStaysInOrder
<1> QED BY <1>1, RecordsStay, PTL
=============================================================================
