----------------------------- MODULE MCRecords -----------------------------
(***************************************************************************)
(* What the office keeps: incoming leads, changes of owner, a contact's    *)
(* phones, accounts and their sessions, the first account, card data and   *)
(* documents.  The eight share no state, so one of them moves per          *)
(* behaviour, chosen at the start; most are cut once more into parts that  *)
(* together make all of their moves.                                       *)
(***************************************************************************)
EXTENDS LeadIntake, Handover, ContactChannels,
        Accounts, Sessions, InitialAdmin,
        CardVault, Attachments

CONSTANTS b1, b2, b3,
          Parts      \* those of the parts named below that a run looks at

OneCustomer == [b \in Bodies |-> b1]

VARIABLE focus

RecordsVars == <<intakeVars, handoverVars, phoneVars, accountVars, sessionVars,
                 bootVars, vaultVars, attachmentVars, focus>>

\* The state of a part is what its checks need; the others stand still.
RecordsInit ==
  /\ focus \in Parts
  /\ IntakeInit /\ SessionInit /\ AttachmentInit
  /\ HandoverInit
  /\ (focus # "leads" => holder[1] = Unowned)
  /\ (focus # "contacts" => \A r \in ContactRecords : holder[r] = Unowned /\ creator[r] = Unowned)
  /\ creator[3] = Unowned
  /\ ChannelInit /\ newestId = 1 /\ number[1] = 21
  /\ AccountInit
  /\ (focus \notin {"teams", "grants"} => \A a \in Users : status[a] = "ACTIVE")
  /\ (\A a \in Users : role[a] \in {"ADMIN", "TRAVEL_AGENT"})
  /\ revealers = (IF focus = "grants" THEN {2} ELSE {})
  /\ BootstrapInit /\ (focus # "first account" => companies = {})
  /\ VaultInit /\ pan[1] = 51 /\ pan[2] # 52
  /\ (focus # "numbers" => pan[2] = 51)
  /\ (focus # "codes" => \A c \in Cards : code[c] = "none")

\* Repeated submissions of a customer nobody owns, of which one may have another
\* key and one other contents, and of which one dies or has its lead removed; and
\* submissions whose contact changes or vanishes meanwhile.
IntakeMoves ==
  /\ IntakeNext
  /\ focus = "repeats" => /\ \A p \in Requests : key'[p] # 2 /\ via'[p] # "crm"
                          /\ ownerOf' = ownerOf /\ customer'[2] = NoBody /\ offered' = offered /\ body'[1] # b2
                          /\ (wiped' = {} \/ drops' = 0)
  /\ focus = "intake" => /\ \A p \in Requests : body'[p] # b2 /\ (via'[p] = "api" => via[p] = "api")
                         /\ key'[1] # 2 /\ wiped' = wiped

HandoverMoves ==
  /\ HandoverNext
  /\ focus = "leads" => /\ \A r \in {2, 3} : holder'[r] = holder[r] /\ \A p \in Movers : record'[p] # r
                        /\ \A g \in granted' : g[1] = 1
  /\ focus = "contacts" => /\ \A r \in {1, 3} : holder'[r] = holder[r] /\ \A p \in Movers : record'[p] # r
                           /\ \A g \in granted' : g[1] = 2

\* Editor 1 brings another number, and deletes none; editor 2 brings the one there
\* is, as primary, and does not edit in place; the first may die, alone, and requests
\* go one at a time from then.
ChannelMoves ==
  /\ ChannelNext
  /\ step'[1] # "delete" /\ step'[2] # "find" /\ (step[2] = "idle" => step'[2] # "count")
  /\ (step[1] = "idle" => written'[1] # 21) /\ (step[2] = "idle" => written'[2] # 22)
  /\ (cuts' # cuts => step'[2] = step[2]) /\ (cuts' = 0 \/ Cardinality(Editing') <= 1)

\* Only document 1 is left waiting for an hour.
DocumentMoves == AttachmentNext /\ 2 \notin overdue'

AccountMoves ==
  \/ \E p \in AdminRequests :
       \/ AdminStep(p)
       \/ /\ focus = "admins"
          /\ (AsksForStatus(p) \/ AsksForRole(p) \/ Creates) /\ \A q \in AdminRequests : wish'[q] # "MANAGER"
       \/ /\ focus = "teams"
          /\ AsksForTeam(p) \/ AsksForRole(p)
          /\ changes' < MaxAdminChanges /\ wish'[p] # "ADMIN" /\ subject'[p] # 1 /\ joining'[p] \subseteq {3} /\ leaving'[p] \subseteq {2, 3}
       \/ focus = "grants" /\ AsksForGrant(p) /\ subject'[p] # 1
       \/ focus = "grants" /\ AsksForRole(p) /\ subject'[p] = 2 /\ wish'[p] # "MANAGER"

\* Member 2 stays, and one session at most gets old.
SessionMoves == SessionNext /\ 2 \in active' /\ Cardinality(expired') <= 1

VaultMoves ==
  IF focus = "numbers"
  THEN \/ \E p \in CardRequests : NumberRequests(p)
       \/ \E q \in Runs :
            RunSteps(q) \/ RunCutOff(q) \/ \E kind \in {"rotate", "verify", "purge"} : StartRun(q, kind)
       \/ Operates
  ELSE /\ (\E p \in CardRequests : NumberRequests(p) \/ CodeRequests(p) \/ RequestCutOff(p)) \/ Expiries
       /\ \A p \in CardRequests : entered'[p] # 52

OnlyIntake      == UNCHANGED <<handoverVars, phoneVars, accountVars, sessionVars, bootVars, vaultVars, attachmentVars, focus>>
OnlyHandover    == UNCHANGED <<intakeVars, phoneVars, accountVars, sessionVars, bootVars, vaultVars, attachmentVars, focus>>
OnlyChannels    == UNCHANGED <<intakeVars, handoverVars, accountVars, sessionVars, bootVars, vaultVars, attachmentVars, focus>>
OnlyAccounts    == UNCHANGED <<intakeVars, handoverVars, phoneVars, sessionVars, bootVars, vaultVars, attachmentVars, focus>>
OnlySessions    == UNCHANGED <<intakeVars, handoverVars, phoneVars, accountVars, bootVars, vaultVars, attachmentVars, focus>>
OnlyBootstrap   == UNCHANGED <<intakeVars, handoverVars, phoneVars, accountVars, sessionVars, vaultVars, attachmentVars, focus>>
OnlyVault       == UNCHANGED <<intakeVars, handoverVars, phoneVars, accountVars, sessionVars, bootVars, attachmentVars, focus>>
OnlyAttachments == UNCHANGED <<intakeVars, handoverVars, phoneVars, accountVars, sessionVars, bootVars, vaultVars, focus>>

RecordsNext ==
  \/ focus \in {"repeats", "intake"} /\ IntakeMoves /\ OnlyIntake
  \/ focus \in {"leads", "contacts"} /\ HandoverMoves /\ OnlyHandover
  \/ focus = "phones" /\ ChannelMoves /\ OnlyChannels
  \/ focus \in {"admins", "teams", "grants"} /\ AccountMoves /\ OnlyAccounts
  \/ focus = "sessions" /\ SessionMoves /\ OnlySessions
  \/ focus = "first account" /\ BootstrapNext /\ OnlyBootstrap
  \/ focus \in {"numbers", "codes"} /\ VaultMoves /\ OnlyVault
  \/ focus = "documents" /\ DocumentMoves /\ OnlyAttachments

RecordsSpec == RecordsInit /\ [][RecordsNext]_RecordsVars
-----------------------------------------------------------------------------
(* What holds of all that is kept. *)

RecordsTypeOK ==
  /\ IntakeTypeOK /\ HandoverTypeOK /\ ChannelTypeOK /\ AccountsTypeOK
  /\ SessionTypeOK /\ BootstrapTypeOK /\ VaultTypeOK /\ AttachmentTypeOK

\* Requests that find nothing and insert, at once, end with one where a key or a
\* lock settles it: one contact of a customer, one company with one administrator.
\* Nothing settles it for the primary numbers of a contact: two of them come only
\* from a request that met another, and one edit by itself shows the contact with
\* a number it has.
RacersAgreeOnOne ==
  OneContactPerCustomer /\ OnePrimaryUnlessCrowded /\ SoloEditRepairs /\ OneCompanyOneAdmin

\* The trail tells what happened: each recorded handover took the record from
\* whoever had it, only its winner notifies, and a session that ended says why.
HistoryIsTrue == GrantedWasHeld /\ OnlyWinnersNotify /\ ContactTrailIsOneHistory /\ EndedIsRecorded

\* Nothing that was accepted disappears: an answered request, a card's number
\* while its key is rotated, the bytes of a finished upload, the record of bytes
\* still stored.
NothingIsLost ==
  AcceptedRequestIsSaved /\ RotationKeepsNumbers /\ ReadyHasBytes /\ NothingIsOrphanedSilently

\* Nothing that ended comes back through a request that was under way: a revoked
\* session, a disabled account's, a removed card, a used security code, a
\* retired key.
WhatEndedStaysEnded ==
  /\ RevokedIsOver /\ DisablingEndsSessions
  /\ RemovedStaysPurged /\ DoneCardHasNoCode /\ RetiredKeysAreUnused

\* Administrators changing accounts at once leave one of them in office, teams
\* that match the roles, and no new right to reveal cards without a step-up.
OfficeStaysInOrder == AnAdminRemains /\ TeamsMatchRoles /\ RevealNeedsStepUp
=============================================================================
