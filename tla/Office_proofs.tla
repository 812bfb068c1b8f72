--------------------------- MODULE Office_proofs ----------------------------
(* What holds of accounts, sessions, the first administrator, contacts'     *)
(* phones and reassignments, for any numbers of them and of concurrent      *)
(* requests: one inductive invariant for each.                              *)
EXTENDS Accounts, Sessions, InitialAdmin, ContactChannels, Handover,
        FiniteSetTheorems, WellFoundedInduction, TLAPS

-----------------------------------------------------------------------------
(* Accounts *)

\* The columns of the accounts.
RowTypes ==
  /\ role \in [Users -> Roles] /\ status \in [Users -> {"none", "ACTIVE", "INACTIVE"}]
  /\ manager \in [Users -> Users \cup {Nobody}] /\ revealers \subseteq Users

\* The local variables of the requests of administrators.
RequestTypes ==
  /\ phase \in [AdminRequests -> Committing \cup {"idle", "role", "status", "team", "ceiling", "before", "grant"}]
  /\ subject \in [AdminRequests -> Users \cup {Nobody}]
  /\ wish \in [AdminRequests -> Roles \cup {"none", "ACTIVE", "INACTIVE", "grant", "revoke"}]
  /\ joining \in [AdminRequests -> SUBSET Users] /\ leaving \in [AdminRequests -> SUBSET Users]
  /\ recent \in [AdminRequests -> BOOLEAN] /\ allowed \in [AdminRequests -> BOOLEAN]
  /\ tried \in [AdminRequests -> Nat]

AccountTypes == RowTypes /\ RequestTypes /\ overtaken \subseteq AdminRequests

\* A request under way is about an account, and a role or a status is wanted of
\* one that exists.
RequestsNameAccounts ==
  \A p \in AdminRequests :
    /\ phase[p] # "idle" => subject[p] \in Users
    /\ phase[p] \in {"role", "role commit"} => wish[p] \in Roles /\ status[subject[p]] # "none"
    /\ phase[p] \in {"status", "status commit"} => wish[p] \in {"ACTIVE", "INACTIVE"} /\ status[subject[p]] # "none"
    /\ phase[p] \in {"ceiling", "before", "grant"} => wish[p] \in {"grant", "revoke"}

\* What a transaction that nobody has overtaken read is still so.
RoleReadStands(p) ==
  \/ wish[p] = "ADMIN" \/ ~CanManage(subject[p])
  \/ \E b \in Users : b # subject[p] /\ CanManage(b)
StatusReadStands(p) ==
  \/ wish[p] = "ACTIVE" \/ role[subject[p]] # "ADMIN"
  \/ \E b \in Users : b # subject[p] /\ CanManage(b)
TeamReadStands(p) ==
  /\ status[subject[p]] # "none" /\ role[subject[p]] = "MANAGER"
  /\ \A a \in joining[p] : status[a] # "none" /\ role[a] = "TRAVEL_AGENT"

ReadsStand ==
  \A p \in AdminRequests \ overtaken : allowed[p] =>
    /\ phase[p] = "role commit" => RoleReadStands(p)
    /\ phase[p] = "status commit" => StatusReadStands(p)
    /\ phase[p] = "team commit" => TeamReadStands(p)

\* Teams are of accounts that exist.
TeamsAreReal ==
  \A a \in Users : manager[a] # Nobody => status[a] # "none" /\ status[manager[a]] # "none"

\* A grant without a recent sign-in is of an account that holds it, or whose
\* grant went meanwhile.
GrantsWereStanding ==
  \A p \in AdminRequests :
    phase[p] = "grant" /\ wish[p] = "grant" /\ ~recent[p] => subject[p] \in revealers \cup revokedUnder

\* The inductive invariant of accounts: what a transaction has read, and what it is
\* to keep, together.
AccountInv ==
  /\ AccountTypes /\ RequestsNameAccounts /\ ReadsStand /\ TeamsAreReal /\ GrantsWereStanding
  /\ AnAdminRemains /\ TeamsMatchRoles /\ RevealNeedsStepUp

\* The accounts a company begins with are in order.
LEMMA AccountStarts == AccountInit => AccountInv
<1> SUFFICES ASSUME AccountInit PROVE AccountInv
  OBVIOUS
<1> USE AccountConstants DEF AccountInit
<1>1. AccountTypes
  BY DEF AccountTypes, RowTypes, RequestTypes
<1>2. RequestsNameAccounts /\ ReadsStand /\ GrantsWereStanding
  BY DEF RequestsNameAccounts, ReadsStand, GrantsWereStanding
<1>3. TeamsAreReal /\ TeamsMatchRoles /\ RevealNeedsStepUp
  BY DEF TeamsAreReal, TeamsMatchRoles, RevealNeedsStepUp
<1>4. AnAdminRemains
  BY DEF AnAdminRemains, CanManage
<1> QED BY <1>1, <1>2, <1>3, <1>4 DEF AccountInv

\* What a change of the rows leaves of the invariant is about rows alone; what a
\* request's own step leaves of it is about that request.
LEMMA RowsStand ==
  ASSUME AccountInv, UNCHANGED rowVars
  PROVE  AnAdminRemains' /\ TeamsMatchRoles' /\ TeamsAreReal'
  BY DEF AccountInv, rowVars, AnAdminRemains, CanManage, TeamsMatchRoles, TeamsAreReal

LEMMA AnsweringKeepsTypes ==
  ASSUME RequestTypes, NEW p \in AdminRequests, AdminAnswered(p)
  PROVE  RequestTypes'
  BY AccountConstants DEF RequestTypes, AdminAnswered, PhaseTo

\* Every statement keeps the types.
LEMMA AccountTypesHold == AccountInv /\ [AccountNext]_accountVars => AccountTypes'
<1> SUFFICES ASSUME AccountInv, [AccountNext]_accountVars PROVE AccountTypes'
  OBVIOUS
<1> USE AccountConstants DEF AccountInv, AccountTypes
<1>1. ASSUME NEW p \in AdminRequests, ReadForRole(p) \/ ReadForStatus(p) \/ ReadForTeam(p) PROVE AccountTypes'
  <2>1. PICK label \in {"role commit", "status commit", "team commit"}, v \in BOOLEAN :
          /\ allowed' = [allowed EXCEPT ![p] = v]
          /\ overtaken' = overtaken \ {p}
          /\ phase' = [phase EXCEPT ![p] = label]
          /\ UNCHANGED <<rowVars, subject, wish, joining, leaving, recent, tried, grantHistory, changes>>
    BY <1>1 DEF ReadForRole, ReadForStatus, ReadForTeam, Reads, PhaseTo
  <2> QED BY <2>1 DEF Committing, rowVars, RowTypes, RequestTypes
<1>2. ASSUME NEW p \in AdminRequests, CommitRole(p) \/ CommitStatus(p) \/ CommitTeam(p) PROVE AccountTypes'
  <2>1. phase[p] \in Committing /\ Commits(p) /\ subject[p] \in Users
    BY <1>2 DEF CommitRole, CommitStatus, CommitTeam, MayCommit, RequestsNameAccounts, Committing
  <2>2. role' \in [Users -> Roles]
    BY <1>2, <2>1 DEF CommitRole, CommitStatus, CommitTeam, MayCommit, RequestsNameAccounts, RowTypes
  <2>3. status' \in [Users -> {"none", "ACTIVE", "INACTIVE"}]
    BY <1>2, <2>1 DEF CommitRole, CommitStatus, CommitTeam, MayCommit, RequestsNameAccounts, RowTypes
  <2>4. manager' \in [Users -> Users \cup {Nobody}]
    BY <1>2, <2>1 DEF CommitRole, CommitStatus, CommitTeam, RowTypes
  <2>5. revealers' \subseteq Users /\ overtaken' \subseteq AdminRequests /\ AdminAnswered(p)
    BY <2>1 DEF Commits, RowTypes
  <2> QED BY <2>2, <2>3, <2>4, <2>5, AnsweringKeepsTypes DEF RowTypes
<1>3. ASSUME NEW p \in AdminRequests, Refuse(p) \/ GiveUpConflict(p) PROVE AccountTypes'
  <2>1. AdminAnswered(p) /\ UNCHANGED rowVars /\ overtaken' = overtaken \ {p}
    BY <1>3 DEF Refuse, GiveUpConflict
  <2> QED BY <2>1, AnsweringKeepsTypes DEF RowTypes, rowVars
<1>4. ASSUME NEW p \in AdminRequests, RetryConflict(p) PROVE AccountTypes'
  <2>1. PICK label \in {"role", "status", "team"} : PhaseTo(p, label)
    BY <1>4 DEF RetryConflict, Uncommitted, Committing
  <2>2. tried' \in [AdminRequests -> Nat] /\ UNCHANGED <<rowVars, subject, wish, joining, leaving, recent, allowed, overtaken>>
    BY <1>4 DEF RetryConflict, RequestTypes
  <2> QED BY <2>1, <2>2 DEF PhaseTo, RowTypes, RequestTypes, rowVars
<1>5. ASSUME NEW p \in AdminRequests, CheckCeiling(p) \/ CheckStepUp(p) PROVE AccountTypes'
  <2>1. UNCHANGED rowVars /\ overtaken' = overtaken
    BY <1>5 DEF CheckCeiling, CheckStepUp
  <2>2. CASE AdminAnswered(p)
    BY <2>1, <2>2, AnsweringKeepsTypes DEF RowTypes, rowVars
  <2>3. CASE ~AdminAnswered(p)
    <3>1. PICK label \in {"before", "grant"} :
            PhaseTo(p, label) /\ UNCHANGED <<subject, wish, joining, leaving, recent, allowed, tried>>
      BY <1>5, <2>3 DEF CheckCeiling, CheckStepUp
    <3> QED BY <2>1, <3>1 DEF PhaseTo, RowTypes, RequestTypes, rowVars
  <2> QED BY <2>2, <2>3
<1>6. ASSUME NEW p \in AdminRequests, WriteGrant(p) PROVE AccountTypes'
  <2>1. subject[p] \in Users /\ AdminAnswered(p) /\ UNCHANGED <<role, status, manager, overtaken>>
    BY <1>6 DEF WriteGrant, RequestsNameAccounts
  <2>2. revealers' \subseteq Users
    BY <1>6, <2>1 DEF WriteGrant, RowTypes
  <2> QED BY <2>1, <2>2, AnsweringKeepsTypes DEF RowTypes
<1>7. ASSUME NEW p \in AdminRequests,
             AsksForRole(p) \/ AsksForStatus(p) \/ AsksForTeam(p) \/ AsksForGrant(p)
      PROVE AccountTypes'
  <2>1. ASSUME NEW label \in {"role", "status", "team", "ceiling"}, NEW a \in Users,
               NEW w \in Roles \cup {"none", "ACTIVE", "INACTIVE", "grant", "revoke"},
               NEW in \in SUBSET Users, NEW out \in SUBSET Users, NEW fresh \in BOOLEAN,
               Asks(p, label, a, w, in, out, fresh)
        PROVE  AccountTypes'
    BY <2>1 DEF Asks, PhaseTo, RowTypes, RequestTypes, rowVars
  <2>2. CASE AsksForRole(p)
    BY <2>1, <2>2 DEF AsksForRole, UpdateAccount
  <2>3. CASE AsksForStatus(p)
    BY <2>1, <2>3 DEF AsksForStatus, SetAccountStatus
  <2>4. CASE AsksForTeam(p)
    BY <2>1, <2>4 DEF AsksForTeam, SetManagerTeam, ChangeManagerTeam
  <2>5. CASE AsksForGrant(p)
    <3>1. PICK a \in Users, w \in {"grant", "revoke"}, fresh \in BOOLEAN : Asks(p, "ceiling", a, w, {}, {}, fresh)
      BY <2>5 DEF AsksForGrant, UpdatePermissions
    <3> QED BY <2>1, <3>1
  <2> QED BY <1>7, <2>2, <2>3, <2>4, <2>5
<1>8. CASE Creates
  <2>1. PICK c \in Users, a \in Users, r \in Roles : CreateAccount(c, a, r)
    BY <1>8 DEF Creates
  <2>2. PICK s \in {"ACTIVE", "INACTIVE"} : status' = [status EXCEPT ![a] = s]
    BY <2>1 DEF CreateAccount
  <2> QED BY <2>1, <2>2 DEF CreateAccount, RowTypes, RequestTypes, adminVars
<1>9. CASE UNCHANGED accountVars
  BY <1>9 DEF accountVars, rowVars, adminVars, RowTypes, RequestTypes
<1> QED BY <1>1, <1>2, <1>3, <1>4, <1>5, <1>6, <1>7, <1>8, <1>9 DEF AccountNext, AdminStep

\* The rows change with a commit, or as an account is created.
LEMMA CommitsKeepOffice ==
  ASSUME AccountInv, NEW p \in AdminRequests, CommitRole(p) \/ CommitStatus(p) \/ CommitTeam(p)
  PROVE  AnAdminRemains' /\ TeamsMatchRoles' /\ TeamsAreReal'
<1> USE AccountConstants DEF AccountInv, AccountTypes, RowTypes, RequestTypes, TeamsMatchRoles, TeamsAreReal
<1>0. p \notin overtaken /\ allowed[p] /\ phase[p] \in Committing /\ subject[p] \in Users
  BY DEF CommitRole, CommitStatus, CommitTeam, MayCommit, RequestsNameAccounts, Committing
<1>1. CASE CommitRole(p)
  <2>1. RoleReadStands(p) /\ wish[p] \in Roles /\ status[subject[p]] # "none"
    BY <1>0, <1>1 DEF CommitRole, MayCommit, ReadsStand, RequestsNameAccounts
  <2>2. /\ role' = [role EXCEPT ![subject[p]] = wish[p]] /\ status' = status
        /\ manager' = [a \in Users |->
             IF (manager[a] = subject[p] /\ wish[p] # "MANAGER") \/ (a = subject[p] /\ wish[p] # "TRAVEL_AGENT")
             THEN Nobody ELSE manager[a]]
    BY <1>1 DEF CommitRole
  <2>3. AnAdminRemains'
    <3>1. PICK b \in Users : CanManage(b)
      BY DEF AnAdminRemains
    <3>2. CASE wish[p] = "ADMIN" \/ b # subject[p]
      BY <1>0, <2>2, <3>1, <3>2 DEF AnAdminRemains, CanManage
    <3>3. CASE wish[p] # "ADMIN" /\ b = subject[p]
      BY <1>0, <2>1, <2>2, <3>1, <3>3 DEF RoleReadStands, AnAdminRemains, CanManage
    <3> QED BY <3>2, <3>3
  <2>4. TeamsMatchRoles' /\ TeamsAreReal'
    BY <1>0, <2>1, <2>2
  <2> QED BY <2>3, <2>4
<1>2. CASE CommitStatus(p)
  <2>1. StatusReadStands(p) /\ wish[p] \in {"ACTIVE", "INACTIVE"}
    BY <1>0, <1>2 DEF CommitStatus, MayCommit, ReadsStand, RequestsNameAccounts
  <2>2. /\ status' = [status EXCEPT ![subject[p]] = wish[p]]
        /\ role' = role /\ manager' = manager
    BY <1>2 DEF CommitStatus
  <2>3. AnAdminRemains'
    <3>1. PICK b \in Users : CanManage(b)
      BY DEF AnAdminRemains
    <3>2. CASE wish[p] = "ACTIVE" \/ b # subject[p]
      BY <1>0, <2>2, <3>1, <3>2 DEF AnAdminRemains, CanManage
    <3>3. CASE wish[p] # "ACTIVE" /\ b = subject[p]
      BY <1>0, <2>1, <2>2, <3>1, <3>3 DEF StatusReadStands, AnAdminRemains, CanManage
    <3> QED BY <3>2, <3>3
  <2>4. TeamsMatchRoles' /\ TeamsAreReal'
    BY <1>0, <2>1, <2>2
  <2> QED BY <2>3, <2>4
<1>3. CASE CommitTeam(p)
  <2>1. TeamReadStands(p)
    BY <1>0, <1>3 DEF CommitTeam, MayCommit, ReadsStand
  <2>2. /\ manager' = [a \in Users |->
             IF a \in joining[p] THEN subject[p]
             ELSE IF a \in leaving[p] /\ manager[a] = subject[p] THEN Nobody ELSE manager[a]]
        /\ role' = role /\ status' = status
    BY <1>3 DEF CommitTeam
  <2>3. AnAdminRemains'
    BY <2>2 DEF AnAdminRemains, CanManage
  <2>4. TeamsMatchRoles' /\ TeamsAreReal'
    BY <1>0, <2>1, <2>2 DEF TeamReadStands
  <2> QED BY <2>3, <2>4
<1> QED BY <1>1, <1>2, <1>3

\* A new account is nobody's subject, member or manager yet.
LEMMA CreationKeepsAll ==
  ASSUME AccountInv, AccountTypes', Creates
  PROVE  AccountInv'
<1> USE AccountConstants DEF AccountInv, AccountTypes, RowTypes, RequestTypes
<1>1. PICK a \in Users, r \in Roles, s \in {"ACTIVE", "INACTIVE"} :
        /\ status[a] = "none"
        /\ role' = [role EXCEPT ![a] = r] /\ status' = [status EXCEPT ![a] = s]
        /\ UNCHANGED <<manager, revealers, adminVars, grantHistory>>
  <2>1. PICK c \in Users, a \in Users, r \in Roles : CreateAccount(c, a, r)
    BY DEF Creates
  <2>2. PICK s \in {"ACTIVE", "INACTIVE"} : status' = [status EXCEPT ![a] = s]
    BY <2>1 DEF CreateAccount
  <2> QED BY <2>1, <2>2 DEF CreateAccount
<1>2. \A b \in Users \ {a} : role'[b] = role[b] /\ status'[b] = status[b]
  BY <1>1
<1>3. \A b \in Users : CanManage(b) => b # a /\ CanManage(b)'
  BY <1>1, <1>2 DEF CanManage
<1>4. AnAdminRemains'
  BY <1>3 DEF AnAdminRemains
<1>5. TeamsMatchRoles' /\ TeamsAreReal'
  BY <1>1, <1>2 DEF TeamsMatchRoles, TeamsAreReal
<1>6. RequestsNameAccounts'
  BY <1>1, <1>2 DEF RequestsNameAccounts, adminVars
<1>7. GrantsWereStanding' /\ RevealNeedsStepUp'
  BY <1>1 DEF GrantsWereStanding, RevealNeedsStepUp, adminVars, grantHistory
<1>8. ReadsStand'
  <2> SUFFICES ASSUME NEW p \in AdminRequests, p \notin overtaken, allowed[p]
               PROVE  /\ phase[p] = "role commit" => RoleReadStands(p)'
                      /\ phase[p] = "status commit" => StatusReadStands(p)'
                      /\ phase[p] = "team commit" => TeamReadStands(p)'
    BY <1>1 DEF ReadsStand, adminVars
  <2>0. wish'[p] = wish[p] /\ subject'[p] = subject[p] /\ joining'[p] = joining[p]
    BY <1>1 DEF adminVars
  <2>1. CASE phase[p] = "role commit"
    <3>1. RoleReadStands(p) /\ subject[p] \in Users /\ subject[p] # a
      BY <1>1, <2>1 DEF ReadsStand, RequestsNameAccounts
    <3>2. CASE \E b \in Users : b # subject[p] /\ CanManage(b)
      BY <1>3, <2>0, <2>1, <3>2 DEF RoleReadStands
    <3>3. CASE wish[p] = "ADMIN" \/ ~CanManage(subject[p])
      <4>1. role'[subject[p]] = role[subject[p]] /\ status'[subject[p]] = status[subject[p]]
        BY <1>2, <3>1
      <4>2. CASE wish[p] = "ADMIN"
        BY <2>0, <2>1, <4>2 DEF RoleReadStands
      <4>3. CASE ~CanManage(subject[p])
        <5>1. ~CanManage(subject[p])'
          BY <2>0, <4>1, <4>3 DEF CanManage
        <5> QED BY <2>1, <5>1 DEF RoleReadStands
      <4> QED BY <3>3, <4>2, <4>3
    <3> QED BY <2>1, <3>1, <3>2, <3>3 DEF RoleReadStands
  <2>2. CASE phase[p] = "status commit"
    <3>1. StatusReadStands(p) /\ subject[p] \in Users /\ subject[p] # a
      BY <1>1, <2>2 DEF ReadsStand, RequestsNameAccounts
    <3>2. CASE \E b \in Users : b # subject[p] /\ CanManage(b)
      BY <1>3, <2>0, <2>2, <3>2 DEF StatusReadStands
    <3>3. CASE wish[p] = "ACTIVE" \/ role[subject[p]] # "ADMIN"
      BY <1>2, <2>0, <2>2, <3>1, <3>3 DEF StatusReadStands
    <3> QED BY <2>2, <3>1, <3>2, <3>3 DEF StatusReadStands
  <2>3. CASE phase[p] = "team commit"
    <3>1. TeamReadStands(p) /\ subject[p] \in Users
      BY <2>3 DEF ReadsStand, RequestsNameAccounts
    <3>2. joining[p] \subseteq Users /\ subject[p] # a /\ a \notin joining[p]
      BY <1>1, <3>1 DEF TeamReadStands
    <3> QED BY ZenonT(40), <1>2, <2>0, <2>3, <3>1, <3>2 DEF TeamReadStands
  <2> QED BY <2>1, <2>2, <2>3
<1> QED BY <1>4, <1>5, <1>6, <1>7, <1>8

\* Requests other than p keep their place; so does what they were given.
LEMMA OthersAreUntouched ==
  ASSUME AccountInv, NEW p \in AdminRequests, AdminAnswered(p)
  PROVE  /\ phase'[p] = "idle"
         /\ \A q \in AdminRequests \ {p} :
              /\ phase'[q] = phase[q] /\ subject'[q] = subject[q] /\ wish'[q] = wish[q]
              /\ joining'[q] = joining[q] /\ recent'[q] = recent[q] /\ allowed'[q] = allowed[q]
  BY DEF AccountInv, AccountTypes, RequestTypes, AdminAnswered, PhaseTo

\* Reading what permits a change makes the permission true of what is there.
LEMMA ReadsKeepAll ==
  ASSUME AccountInv, AccountTypes', NEW p \in AdminRequests, ReadForRole(p) \/ ReadForStatus(p) \/ ReadForTeam(p)
  PROVE  AccountInv'
<1> USE DEF AccountInv, AccountTypes
<1>0. UNCHANGED <<rowVars, subject, wish, joining, leaving, recent, tried, grantHistory>> /\ overtaken' = overtaken \ {p}
  BY DEF ReadForRole, ReadForStatus, ReadForTeam, Reads
<1>1. \A q \in AdminRequests \ {p} : phase'[q] = phase[q] /\ allowed'[q] = allowed[q]
  <2>1. PICK label, v : allowed' = [allowed EXCEPT ![p] = v] /\ phase' = [phase EXCEPT ![p] = label]
    BY DEF ReadForRole, ReadForStatus, ReadForTeam, Reads, PhaseTo
  <2> QED BY <2>1 DEF RequestTypes
<1>2. \/ /\ phase[p] = "role" /\ phase'[p] = "role commit"
         /\ allowed'[p] => RoleReadStands(p)
      \/ /\ phase[p] = "status" /\ phase'[p] = "status commit"
         /\ allowed'[p] => StatusReadStands(p)
      \/ /\ phase[p] = "team" /\ phase'[p] = "team commit"
         /\ allowed'[p] => TeamReadStands(p)
  <2>1. ASSUME NEW label, NEW next, NEW v, Reads(p, label, next, v)
        PROVE  phase[p] = label /\ phase'[p] = next /\ allowed'[p] = v
    BY <2>1 DEF Reads, PhaseTo, RequestTypes
  <2>2. CASE ReadForRole(p)
    <3>1. allowed'[p] = (wish[p] = "ADMIN" \/ ~CanManage(subject[p]) \/ OtherActiveAdmins(subject[p]) # {})
      BY <2>1, <2>2 DEF ReadForRole
    <3>2. phase[p] = "role" /\ phase'[p] = "role commit"
      BY <2>2 DEF ReadForRole, Reads, PhaseTo, RequestTypes
    <3> QED BY <3>1, <3>2 DEF RoleReadStands, OtherActiveAdmins
  <2>3. CASE ReadForStatus(p)
    <3>1. allowed'[p] = (wish[p] = "ACTIVE" \/ role[subject[p]] # "ADMIN" \/ OtherActiveAdmins(subject[p]) # {})
      BY <2>1, <2>3 DEF ReadForStatus
    <3>2. phase[p] = "status" /\ phase'[p] = "status commit"
      BY <2>3 DEF ReadForStatus, Reads, PhaseTo, RequestTypes
    <3> QED BY <3>1, <3>2 DEF StatusReadStands, OtherActiveAdmins
  <2>4. CASE ReadForTeam(p)
    <3>1. allowed'[p] = (/\ status[subject[p]] # "none" /\ role[subject[p]] = "MANAGER"
                        /\ \A a \in joining[p] : status[a] # "none" /\ role[a] = "TRAVEL_AGENT")
      BY <2>1, <2>4 DEF ReadForTeam
    <3>2. phase[p] = "team" /\ phase'[p] = "team commit"
      BY <2>4 DEF ReadForTeam, Reads, PhaseTo, RequestTypes
    <3> QED BY <3>1, <3>2 DEF TeamReadStands
  <2> QED BY <2>2, <2>3, <2>4
<1>3. AnAdminRemains' /\ TeamsMatchRoles' /\ TeamsAreReal'
  BY <1>0, RowsStand
<1>4. RequestsNameAccounts'
  BY <1>0, <1>1, <1>2 DEF RequestsNameAccounts, rowVars
<1>5. GrantsWereStanding' /\ RevealNeedsStepUp'
  BY <1>0, <1>1, <1>2 DEF GrantsWereStanding, RevealNeedsStepUp, rowVars, grantHistory
<1>6. ReadsStand'
  <2>1. \A q \in AdminRequests :
          /\ RoleReadStands(q) => RoleReadStands(q)'
          /\ StatusReadStands(q) => StatusReadStands(q)'
          /\ TeamReadStands(q) => TeamReadStands(q)'
    BY <1>0 DEF RoleReadStands, StatusReadStands, TeamReadStands, CanManage, rowVars
  <2> QED BY <1>0, <1>1, <1>2, <2>1 DEF ReadsStand
<1> QED BY <1>3, <1>4, <1>5, <1>6

\* A commit makes everyone else who has read a loser, so that nothing is assumed of
\* what they read.
LEMMA CommitsKeepAll ==
  ASSUME AccountInv, AccountTypes', NEW p \in AdminRequests, CommitRole(p) \/ CommitStatus(p) \/ CommitTeam(p)
  PROVE  AccountInv'
<1> USE DEF AccountInv
<1>0. /\ AdminAnswered(p) /\ UNCHANGED <<revealers, grantHistory>>
      /\ overtaken' = {q \in AdminRequests : phase[q] \in Committing} \ {p}
  BY DEF CommitRole, CommitStatus, CommitTeam, Commits
<1>1. /\ phase'[p] = "idle"
      /\ \A q \in AdminRequests \ {p} :
           phase'[q] = phase[q] /\ subject'[q] = subject[q] /\ wish'[q] = wish[q] /\ recent'[q] = recent[q]
  BY <1>0, OthersAreUntouched
<1>2. \A a \in Users : status[a] # "none" => status'[a] # "none"
  BY DEF CommitRole, CommitStatus, CommitTeam, MayCommit, RequestsNameAccounts, AccountTypes, RowTypes
<1>3. AnAdminRemains' /\ TeamsMatchRoles' /\ TeamsAreReal'
  BY CommitsKeepOffice
<1>4. RequestsNameAccounts'
  <2>1. ASSUME NEW q \in AdminRequests, q # p, phase[q] # "idle" PROVE status'[subject[q]] # "none" \/ status[subject[q]] = "none"
    BY <1>2, <2>1 DEF RequestsNameAccounts
  <2>2. ASSUME NEW q \in AdminRequests \ {p}
        PROVE  phase'[q] = phase[q] /\ subject'[q] = subject[q] /\ wish'[q] = wish[q]
    BY <1>1
  <2>3. RequestsNameAccounts
    OBVIOUS
  <2> HIDE DEF AccountInv
  <2> SUFFICES ASSUME NEW q \in AdminRequests
               PROVE  /\ phase'[q] # "idle" => subject'[q] \in Users
                      /\ phase'[q] \in {"role", "role commit"} => wish'[q] \in Roles /\ status'[subject'[q]] # "none"
                      /\ phase'[q] \in {"status", "status commit"} => wish'[q] \in {"ACTIVE", "INACTIVE"} /\ status'[subject'[q]] # "none"
                      /\ phase'[q] \in {"ceiling", "before", "grant"} => wish'[q] \in {"grant", "revoke"}
    BY DEF RequestsNameAccounts
  <2>4. CASE q = p
    BY <1>1, <2>4
  <2>5. CASE q # p
    <3>1. phase'[q] = phase[q] /\ subject'[q] = subject[q] /\ wish'[q] = wish[q]
      BY <2>2, <2>5
    <3>2. phase[q] # "idle" => status'[subject[q]] # "none" \/ status[subject[q]] = "none"
      BY <2>1, <2>5
    <3> QED BY <2>3, <3>1, <3>2 DEF RequestsNameAccounts
  <2> QED BY <2>4, <2>5
<1>5. GrantsWereStanding' /\ RevealNeedsStepUp'
  BY <1>0, <1>1 DEF GrantsWereStanding, RevealNeedsStepUp, grantHistory
<1>6. ReadsStand'
  BY <1>0, <1>1 DEF ReadsStand, Committing
<1> QED BY <1>3, <1>4, <1>5, <1>6

\* A request that ends leaves the others what they knew.
LEMMA AnswersKeepAll ==
  ASSUME AccountInv, AccountTypes', NEW p \in AdminRequests, AdminAnswered(p),
         UNCHANGED <<rowVars, grantHistory>>, overtaken' \cup {p} = overtaken \cup {p}
  PROVE  AccountInv'
<1> USE DEF AccountInv
<1>1. /\ phase'[p] = "idle"
      /\ \A q \in AdminRequests \ {p} :
           /\ phase'[q] = phase[q] /\ subject'[q] = subject[q] /\ wish'[q] = wish[q]
           /\ joining'[q] = joining[q] /\ recent'[q] = recent[q] /\ allowed'[q] = allowed[q]
  BY OthersAreUntouched
<1>2. AnAdminRemains' /\ TeamsMatchRoles' /\ TeamsAreReal'
  BY RowsStand
<1>3. RequestsNameAccounts'
  BY <1>1 DEF RequestsNameAccounts, rowVars
<1>4. GrantsWereStanding' /\ RevealNeedsStepUp'
  BY <1>1 DEF GrantsWereStanding, RevealNeedsStepUp, rowVars, grantHistory
<1>5. ReadsStand'
  <2>1. \A q \in AdminRequests \ {p} :
          /\ RoleReadStands(q) => RoleReadStands(q)'
          /\ StatusReadStands(q) => StatusReadStands(q)'
          /\ TeamReadStands(q) => TeamReadStands(q)'
    BY <1>1 DEF RoleReadStands, StatusReadStands, TeamReadStands, CanManage, rowVars
  <2> QED BY <1>1, <2>1 DEF ReadsStand
<1> QED BY <1>2, <1>3, <1>4, <1>5

\* A request that goes on to a statement which is no commit.
LEMMA GoingOnKeepsAll ==
  ASSUME AccountInv, AccountTypes', NEW p \in AdminRequests,
         NEW label \in {"role", "status", "team", "ceiling", "before", "grant"}, PhaseTo(p, label),
         UNCHANGED <<rowVars, allowed, overtaken, grantHistory>>,
         \A q \in AdminRequests \ {p} :
           subject'[q] = subject[q] /\ wish'[q] = wish[q] /\ joining'[q] = joining[q] /\ recent'[q] = recent[q],
         subject'[p] \in Users,
         label = "role" => wish'[p] \in Roles /\ status[subject'[p]] # "none",
         label = "status" => wish'[p] \in {"ACTIVE", "INACTIVE"} /\ status[subject'[p]] # "none",
         label \in {"ceiling", "before", "grant"} => wish'[p] \in {"grant", "revoke"},
         label = "grant" /\ wish'[p] = "grant" /\ ~recent'[p] => subject'[p] \in revealers \cup revokedUnder
  PROVE  AccountInv'
<1> USE DEF AccountInv
<1>1. phase'[p] = label /\ \A q \in AdminRequests \ {p} : phase'[q] = phase[q]
  BY DEF PhaseTo, AccountTypes, RequestTypes
<1>2. AnAdminRemains' /\ TeamsMatchRoles' /\ TeamsAreReal'
  BY RowsStand
<1>3. RequestsNameAccounts'
  BY <1>1 DEF RequestsNameAccounts, rowVars
<1>4. GrantsWereStanding' /\ RevealNeedsStepUp'
  BY <1>1 DEF GrantsWereStanding, RevealNeedsStepUp, rowVars, grantHistory
<1>5. ReadsStand'
  <2>1. \A q \in AdminRequests \ {p} :
          /\ RoleReadStands(q) => RoleReadStands(q)'
          /\ StatusReadStands(q) => StatusReadStands(q)'
          /\ TeamReadStands(q) => TeamReadStands(q)'
    BY DEF RoleReadStands, StatusReadStands, TeamReadStands, CanManage, rowVars
  <2> QED BY <1>1, <2>1 DEF ReadsStand
<1> QED BY <1>2, <1>3, <1>4, <1>5

\* A grant that needed no step-up was there when it was checked, or went since.
LEMMA WritingKeepsAll ==
  ASSUME AccountInv, AccountTypes', NEW p \in AdminRequests, WriteGrant(p)
  PROVE  AccountInv'
<1> USE DEF AccountInv
<1>0. AdminAnswered(p) /\ UNCHANGED <<role, status, manager, overtaken>> /\ subject[p] \in Users
  BY DEF WriteGrant, RequestsNameAccounts
<1>1. /\ phase'[p] = "idle"
      /\ \A q \in AdminRequests \ {p} :
           /\ phase'[q] = phase[q] /\ subject'[q] = subject[q] /\ wish'[q] = wish[q]
           /\ joining'[q] = joining[q] /\ recent'[q] = recent[q] /\ allowed'[q] = allowed[q]
  BY <1>0, OthersAreUntouched
<1>2. AnAdminRemains' /\ TeamsMatchRoles' /\ TeamsAreReal'
  BY <1>0 DEF AnAdminRemains, TeamsMatchRoles, TeamsAreReal, CanManage
<1>3. RequestsNameAccounts'
  BY <1>0, <1>1 DEF RequestsNameAccounts
<1>4. ReadsStand'
  <2>1. \A q \in AdminRequests \ {p} :
          /\ RoleReadStands(q) => RoleReadStands(q)'
          /\ StatusReadStands(q) => StatusReadStands(q)'
          /\ TeamReadStands(q) => TeamReadStands(q)'
    BY <1>0, <1>1 DEF RoleReadStands, StatusReadStands, TeamReadStands, CanManage
  <2> QED BY <1>0, <1>1, <2>1 DEF ReadsStand
<1>5. GrantsWereStanding'
  <2> SUFFICES ASSUME NEW q \in AdminRequests \ {p}, phase[q] = "grant", wish[q] = "grant", ~recent[q]
               PROVE  subject[q] \in revealers' \cup revokedUnder'
    BY <1>1 DEF GrantsWereStanding
  <2>1. subject[q] \in revealers \cup revokedUnder
    BY DEF GrantsWereStanding
  <2>2. CASE wish[p] = "grant"
    BY <2>1, <2>2 DEF WriteGrant
  <2>3. CASE wish[p] # "grant" /\ subject[q] # subject[p]
    BY <2>1, <2>3 DEF WriteGrant
  <2>4. CASE wish[p] # "grant" /\ subject[q] = subject[p]
    <3>1. wish[p] = "revoke" => revokedUnder' = revokedUnder \cup {subject[p]}
      BY <2>4 DEF WriteGrant
    <3>2. wish[p] = "revoke"
      BY <2>4 DEF WriteGrant, RequestsNameAccounts
    <3> QED BY <2>4, <3>1, <3>2
  <2> QED BY <2>2, <2>3, <2>4
<1>6. RevealNeedsStepUp'
  BY DEF WriteGrant, RevealNeedsStepUp, GrantsWereStanding
<1> QED BY <1>2, <1>3, <1>4, <1>5, <1>6

\* Every step of AccountNext keeps the invariant: one case per statement.
LEMMA AccountSteps == AccountInv /\ [AccountNext]_accountVars => AccountInv'
<1> SUFFICES ASSUME AccountInv, [AccountNext]_accountVars PROVE AccountInv'
  OBVIOUS
<1>0. AccountTypes'
  BY AccountTypesHold
<1>1. ASSUME NEW p \in AdminRequests, ReadForRole(p) \/ ReadForStatus(p) \/ ReadForTeam(p) PROVE AccountInv'
  BY <1>0, <1>1, ReadsKeepAll
<1>2. ASSUME NEW p \in AdminRequests, CommitRole(p) \/ CommitStatus(p) \/ CommitTeam(p) PROVE AccountInv'
  BY <1>0, <1>2, CommitsKeepAll
<1>3. ASSUME NEW p \in AdminRequests, Refuse(p) \/ GiveUpConflict(p) PROVE AccountInv'
  <2>1. AdminAnswered(p) /\ UNCHANGED <<rowVars, grantHistory>> /\ overtaken' \cup {p} = overtaken \cup {p}
    BY <1>3 DEF Refuse, GiveUpConflict
  <2> QED BY <1>0, <2>1, AnswersKeepAll
<1>4. ASSUME NEW p \in AdminRequests, RetryConflict(p) PROVE AccountInv'
  <2>1. UNCHANGED <<rowVars, subject, wish, joining, leaving, recent, allowed, overtaken, grantHistory>>
    BY <1>4 DEF RetryConflict
  <2>2. CASE phase[p] = "role commit"
    <3>1. PhaseTo(p, "role")
      BY <1>4, <2>2 DEF RetryConflict, Uncommitted, Committing
    <3>2. subject[p] \in Users /\ wish[p] \in Roles /\ status[subject[p]] # "none"
      BY <2>2 DEF AccountInv, RequestsNameAccounts
    <3> QED BY <1>0, <2>1, <3>1, <3>2, GoingOnKeepsAll
  <2>3. CASE phase[p] = "status commit"
    <3>1. PhaseTo(p, "status")
      BY <1>4, <2>3 DEF RetryConflict, Uncommitted, Committing
    <3>2. subject[p] \in Users /\ wish[p] \in {"ACTIVE", "INACTIVE"} /\ status[subject[p]] # "none"
      BY <2>3 DEF AccountInv, RequestsNameAccounts
    <3> QED BY <1>0, <2>1, <3>1, <3>2, GoingOnKeepsAll
  <2>4. CASE phase[p] = "team commit"
    <3>1. PhaseTo(p, "team")
      BY <1>4, <2>4 DEF RetryConflict, Uncommitted, Committing
    <3>2. subject[p] \in Users
      BY <2>4 DEF AccountInv, RequestsNameAccounts
    <3> QED BY <1>0, <2>1, <3>1, <3>2, GoingOnKeepsAll
  <2> QED BY <1>4, <2>2, <2>3, <2>4 DEF RetryConflict, Committing
<1>5. ASSUME NEW p \in AdminRequests, CheckCeiling(p) PROVE AccountInv'
  <2>1. UNCHANGED <<rowVars, overtaken, grantHistory>> /\ subject[p] \in Users /\ wish[p] \in {"grant", "revoke"}
    BY <1>5 DEF CheckCeiling, AccountInv, RequestsNameAccounts
  <2>2. CASE AdminAnswered(p)
    BY <1>0, <2>1, <2>2, AnswersKeepAll
  <2>3. CASE PhaseTo(p, "before") /\ UNCHANGED <<subject, wish, joining, recent, allowed>>
    BY <1>0, <2>1, <2>3, GoingOnKeepsAll
  <2> QED BY <1>5, <2>2, <2>3 DEF CheckCeiling
<1>6. ASSUME NEW p \in AdminRequests, CheckStepUp(p) PROVE AccountInv'
  <2>1. UNCHANGED <<rowVars, overtaken, grantHistory>> /\ subject[p] \in Users /\ wish[p] \in {"grant", "revoke"}
    BY <1>6 DEF CheckStepUp, AccountInv, RequestsNameAccounts
  <2>2. CASE AdminAnswered(p)
    BY <1>0, <2>1, <2>2, AnswersKeepAll
  <2>3. CASE /\ PhaseTo(p, "grant") /\ UNCHANGED <<subject, wish, joining, recent, allowed>>
             /\ ~(wish[p] = "grant" /\ subject[p] \notin revealers /\ ~recent[p])
    BY <1>0, <2>1, <2>3, GoingOnKeepsAll
  <2> QED BY <1>6, <2>2, <2>3 DEF CheckStepUp
<1>7. ASSUME NEW p \in AdminRequests, WriteGrant(p) PROVE AccountInv'
  BY <1>0, <1>7, WritingKeepsAll
<1>8. ASSUME NEW p \in AdminRequests, NEW label \in {"role", "status", "team", "ceiling"},
             NEW a \in Users, NEW w, NEW in, NEW out, NEW fresh, Asks(p, label, a, w, in, out, fresh),
             label = "role" => w \in Roles /\ status[a] # "none",
             label = "status" => w \in {"ACTIVE", "INACTIVE"} /\ status[a] # "none",
             label = "ceiling" => w \in {"grant", "revoke"}
      PROVE AccountInv'
  <2>1. PhaseTo(p, label) /\ UNCHANGED <<rowVars, allowed, overtaken, grantHistory>>
    BY <1>8 DEF Asks
  <2>2. /\ subject'[p] = a /\ wish'[p] = w
        /\ \A q \in AdminRequests \ {p} :
             subject'[q] = subject[q] /\ wish'[q] = wish[q] /\ joining'[q] = joining[q] /\ recent'[q] = recent[q]
    BY <1>8 DEF Asks, AccountInv, AccountTypes, RequestTypes
  <2> QED BY <1>0, <1>8, <2>1, <2>2, GoingOnKeepsAll
<1>9. ASSUME NEW p \in AdminRequests,
             AsksForRole(p) \/ AsksForStatus(p) \/ AsksForTeam(p) \/ AsksForGrant(p)
      PROVE AccountInv'
  <2>1. CASE AsksForRole(p)
    BY <1>8, <2>1 DEF AsksForRole, UpdateAccount
  <2>2. CASE AsksForStatus(p)
    BY <1>8, <2>2 DEF AsksForStatus, SetAccountStatus
  <2>3. CASE AsksForTeam(p)
    BY <1>8, <2>3 DEF AsksForTeam, SetManagerTeam, ChangeManagerTeam
  <2>4. CASE AsksForGrant(p)
    BY <1>8, <2>4 DEF AsksForGrant, UpdatePermissions
  <2> QED BY <1>9, <2>1, <2>2, <2>3, <2>4
<1>10. CASE Creates
  BY <1>0, <1>10, CreationKeepsAll
<1>11. CASE UNCHANGED accountVars
  <2> USE <1>11 DEF accountVars, rowVars, adminVars, grantHistory, AccountInv
  <2>1. RequestsNameAccounts' /\ GrantsWereStanding' /\ RevealNeedsStepUp'
    BY DEF RequestsNameAccounts, GrantsWereStanding, RevealNeedsStepUp
  <2>2. AnAdminRemains' /\ TeamsMatchRoles' /\ TeamsAreReal'
    BY RowsStand
  <2>3. ReadsStand'
    BY ZenonT(40) DEF ReadsStand, RoleReadStands, StatusReadStands, TeamReadStands, CanManage
  <2> QED BY <1>0, <2>1, <2>2, <2>3
<1> QED BY <1>1, <1>2, <1>3, <1>4, <1>5, <1>6, <1>7, <1>9, <1>10, <1>11 DEF AccountNext, AdminStep

\* What else is kept of accounts: a request under way has its account, tries and
\* changes end, and only a transaction can have been overtaken.
RequestsAreBounded ==
  \A p \in AdminRequests :
    /\ phase[p] = "idle" <=> subject[p] = Nobody
    /\ tried[p] \in 0..Attempts
    /\ p \in overtaken => phase[p] \in Committing \cup {"role", "status", "team"}
ChangesEnd == changes \in 0..MaxAdminChanges

LEMMA AccountRestStarts == AccountInit => RequestsAreBounded /\ ChangesEnd
<1> SUFFICES ASSUME AccountInit PROVE RequestsAreBounded /\ ChangesEnd
  OBVIOUS
<1> USE AccountConstants DEF AccountInit
<1>1. 0 \in 0..Attempts /\ 0 \in 0..MaxAdminChanges
  OBVIOUS
<1> QED BY <1>1 DEF RequestsAreBounded, ChangesEnd

\* p is answered, and whoever a commit overtakes is in a transaction.
LEMMA AnsweredIsBounded ==
  ASSUME RequestTypes, RequestsAreBounded, NEW p \in AdminRequests, AdminAnswered(p), p \notin overtaken',
         \A q \in AdminRequests \ {p} : q \in overtaken' => q \in overtaken \/ phase[q] \in Committing
  PROVE  RequestsAreBounded'
<1> USE AccountConstants DEF RequestTypes, AdminAnswered, PhaseTo
<1>1. phase'[p] = "idle" /\ subject'[p] = Nobody /\ tried'[p] = 0
  OBVIOUS
<1>2. \A q \in AdminRequests \ {p} : phase'[q] = phase[q] /\ subject'[q] = subject[q] /\ tried'[q] = tried[q]
  OBVIOUS
<1> HIDE DEF AdminAnswered, RequestTypes
<1> QED BY <1>1, <1>2 DEF RequestsAreBounded

\* p goes on to another statement, as a transaction or not.
LEMMA GoingOnIsBounded ==
  ASSUME RequestTypes, RequestsAreBounded, NEW p \in AdminRequests, NEW label, PhaseTo(p, label), label # "idle",
         subject'[p] # Nobody, tried'[p] \in 0..Attempts, overtaken' \subseteq overtaken,
         p \in overtaken' => label \in Committing \cup {"role", "status", "team"},
         \A q \in AdminRequests \ {p} : subject'[q] = subject[q] /\ tried'[q] = tried[q]
  PROVE  RequestsAreBounded'
<1>1. phase'[p] = label /\ \A q \in AdminRequests \ {p} : phase'[q] = phase[q]
  BY DEF PhaseTo, RequestTypes
<1> QED BY <1>1 DEF RequestsAreBounded

LEMMA AccountRestSteps ==
  AccountInv /\ RequestsAreBounded /\ ChangesEnd /\ [AccountNext]_accountVars => RequestsAreBounded' /\ ChangesEnd'
<1> SUFFICES ASSUME AccountInv, RequestsAreBounded, ChangesEnd, [AccountNext]_accountVars
             PROVE  RequestsAreBounded' /\ ChangesEnd'
  OBVIOUS
<1>0. RequestTypes /\ RequestsNameAccounts /\ \A p \in AdminRequests : tried[p] \in 0..Attempts /\ (phase[p] # "idle" => subject[p] # Nobody)
  BY DEF AccountInv, AccountTypes, RequestsAreBounded
<1>1. ASSUME NEW p \in AdminRequests, ReadForRole(p) \/ ReadForStatus(p) \/ ReadForTeam(p)
      PROVE  RequestsAreBounded' /\ ChangesEnd'
  <2>1. PICK label \in Committing : PhaseTo(p, label)
    BY <1>1 DEF ReadForRole, ReadForStatus, ReadForTeam, Reads, Committing
  <2>2. UNCHANGED <<subject, tried, changes>> /\ overtaken' = overtaken \ {p} /\ phase[p] # "idle"
    BY <1>1 DEF ReadForRole, ReadForStatus, ReadForTeam, Reads
  <2>3. label # "idle"
    BY DEF Committing
  <2> QED BY <1>0, <2>1, <2>2, <2>3, GoingOnIsBounded DEF ChangesEnd
<1>2. ASSUME NEW p \in AdminRequests, CommitRole(p) \/ CommitStatus(p) \/ CommitTeam(p)
      PROVE  RequestsAreBounded' /\ ChangesEnd'
  <2>1. Commits(p)
    BY <1>2 DEF CommitRole, CommitStatus, CommitTeam
  <2> QED BY <1>0, <2>1, AnsweredIsBounded DEF Commits, ChangesEnd
<1>3. ASSUME NEW p \in AdminRequests, Refuse(p) \/ GiveUpConflict(p) PROVE RequestsAreBounded' /\ ChangesEnd'
  <2>1. AdminAnswered(p) /\ overtaken' = overtaken \ {p} /\ UNCHANGED changes
    BY <1>3 DEF Refuse, GiveUpConflict
  <2> QED BY <1>0, <2>1, AnsweredIsBounded DEF ChangesEnd
<1>4. ASSUME NEW p \in AdminRequests, RetryConflict(p) PROVE RequestsAreBounded' /\ ChangesEnd'
  <2>1. PICK label \in {"role", "status", "team"} : PhaseTo(p, label)
    BY <1>4 DEF RetryConflict, Uncommitted, Committing
  <2>2. /\ UNCHANGED <<subject, overtaken, changes>> /\ phase[p] # "idle"
        /\ tried' = [tried EXCEPT ![p] = @ + 1] /\ tried[p] < Attempts
    BY <1>4 DEF RetryConflict, Committing
  <2>3. tried'[p] \in 0..Attempts /\ \A q \in AdminRequests \ {p} : tried'[q] = tried[q]
    BY <1>0, <2>2, AccountConstants DEF RequestTypes
  <2> QED BY <1>0, <2>1, <2>2, <2>3, GoingOnIsBounded DEF ChangesEnd
<1>5. ASSUME NEW p \in AdminRequests, CheckCeiling(p) \/ CheckStepUp(p) PROVE RequestsAreBounded' /\ ChangesEnd'
  <2>1. UNCHANGED <<overtaken, changes>> /\ phase[p] \in {"ceiling", "before"}
    BY <1>5 DEF CheckCeiling, CheckStepUp
  <2>2. p \notin overtaken
    BY <2>1 DEF RequestsAreBounded, Committing
  <2>3. CASE AdminAnswered(p)
    BY <1>0, <2>1, <2>2, <2>3, AnsweredIsBounded DEF ChangesEnd
  <2>4. CASE ~AdminAnswered(p)
    <3>1. PICK label \in {"before", "grant"} : PhaseTo(p, label) /\ UNCHANGED <<subject, tried>>
      BY <1>5, <2>4 DEF CheckCeiling, CheckStepUp
    <3> QED BY <1>0, <2>1, <2>2, <3>1, GoingOnIsBounded DEF ChangesEnd
  <2> QED BY <2>3, <2>4
<1>6. ASSUME NEW p \in AdminRequests, WriteGrant(p) PROVE RequestsAreBounded' /\ ChangesEnd'
  <2>1. UNCHANGED <<overtaken, changes>> /\ phase[p] = "grant" /\ AdminAnswered(p)
    BY <1>6 DEF WriteGrant
  <2>2. p \notin overtaken
    BY <2>1 DEF RequestsAreBounded, Committing
  <2> QED BY <1>0, <2>1, <2>2, AnsweredIsBounded DEF ChangesEnd
<1>7. ASSUME NEW p \in AdminRequests, NEW label \in {"role", "status", "team", "ceiling"},
             NEW a \in Users, NEW w, NEW in, NEW out, NEW fresh, Asks(p, label, a, w, in, out, fresh)
      PROVE  RequestsAreBounded' /\ ChangesEnd'
  <2>1. /\ PhaseTo(p, label) /\ overtaken' = overtaken /\ phase[p] = "idle"
        /\ subject' = [subject EXCEPT ![p] = a] /\ tried' = [tried EXCEPT ![p] = 1]
        /\ changes < MaxAdminChanges /\ changes' = changes + 1
    BY <1>7 DEF Asks
  <2>2. p \notin overtaken
    BY <2>1 DEF RequestsAreBounded, Committing
  <2>3. /\ subject'[p] = a /\ tried'[p] = 1
        /\ \A q \in AdminRequests \ {p} : subject'[q] = subject[q] /\ tried'[q] = tried[q]
    BY <1>0, <2>1 DEF RequestTypes
  <2>4. ChangesEnd'
    BY <2>1, AccountConstants DEF ChangesEnd
  <2>5. a # Nobody /\ 1 \in 0..Attempts
    BY AccountConstants
  <2> QED BY <1>0, <2>1, <2>2, <2>3, <2>4, <2>5, GoingOnIsBounded
<1>8. ASSUME NEW p \in AdminRequests, AsksForRole(p) \/ AsksForStatus(p) \/ AsksForTeam(p) \/ AsksForGrant(p)
      PROVE  RequestsAreBounded' /\ ChangesEnd'
  BY <1>7, <1>8 DEF AsksForRole, AsksForStatus, AsksForTeam, AsksForGrant,
     UpdateAccount, SetAccountStatus, SetManagerTeam, ChangeManagerTeam, UpdatePermissions
<1>9. CASE Creates
  BY <1>9, AccountConstants DEF Creates, CreateAccount, adminVars, RequestsAreBounded, ChangesEnd
<1>10. CASE UNCHANGED accountVars
  BY <1>10 DEF accountVars, adminVars, RequestsAreBounded, ChangesEnd
<1> QED BY <1>1, <1>2, <1>3, <1>4, <1>5, <1>6, <1>8, <1>9, <1>10 DEF AccountNext, AdminStep

LEMMA AccountsSuffice ==
  AccountInv /\ RequestsAreBounded /\ ChangesEnd =>
    AccountsTypeOK /\ AnAdminRemains /\ TeamsMatchRoles /\ RevealNeedsStepUp
BY DEF AccountInv, AccountTypes, RowTypes, RequestTypes, RequestsAreBounded, ChangesEnd, AccountsTypeOK

\* Whatever the administrators of a company ask for at once, one of them stays in office,
\* teams match the roles, and nobody comes to reveal cards without a step-up (accounts.ts
\* 104-123, 236-248): for any accounts, requests, roles and attempts.
THEOREM AccountsInOrder ==
  AccountSpec => [](AccountsTypeOK /\ AnAdminRemains /\ TeamsMatchRoles /\ RevealNeedsStepUp)
<1>1. AccountInit => AccountInv /\ RequestsAreBounded /\ ChangesEnd
  BY AccountStarts, AccountRestStarts
<1>2. (AccountInv /\ RequestsAreBounded /\ ChangesEnd) /\ [AccountNext]_accountVars
        => (AccountInv /\ RequestsAreBounded /\ ChangesEnd)'
  BY AccountSteps, AccountRestSteps
<1> QED BY <1>1, <1>2, AccountsSuffice, PTL DEF AccountSpec
-----------------------------------------------------------------------------
(* Sessions *)

\* Tokens are numbered as they are drawn.
SessionTypes ==
  /\ drawn \in Nat /\ 1..drawn \subseteq Tokens
  /\ activeSession \in [Members -> 0..drawn] /\ active \subseteq Members
  /\ cookie \in [Browsers -> 0..drawn] /\ signing \in [Browsers -> Members \cup {NoMember}]
  /\ expired \subseteq 1..drawn /\ revoked \subseteq 1..drawn /\ wasDisabled \subseteq 1..drawn /\ leftByItself \subseteq 1..drawn
  /\ owner \in [Tokens -> Members \cup {NoMember}]
  /\ era \in [Members -> Nat] /\ issuedIn \in [Tokens -> Nat]

\* A session is its owner's, and was written since the account was last disabled.
SessionsAreOwned ==
  \A a \in Members : activeSession[a] # 0 =>
    owner[activeSession[a]] = a /\ issuedIn[activeSession[a]] = era[a]

\* No account has a session that ended.
EndedIsGone ==
  \A t \in revoked \cup wasDisabled \cup leftByItself, a \in Members : activeSession[a] # t

\* The inductive invariant of sessions.
SessionInv == SessionTypes /\ SessionsAreOwned /\ EndedIsGone /\ EndedIsRecorded

LEMMA SessionStarts == SessionInit => SessionInv
  BY SessionConstants DEF SessionInit, SessionInv, SessionTypes, SessionsAreOwned, EndedIsGone, EndedIsRecorded

\* Every step of SessionNext keeps the invariant: one case per statement.
LEMMA SessionSteps == SessionInv /\ [SessionNext]_sessionVars => SessionInv'
<1> SUFFICES ASSUME SessionInv, [SessionNext]_sessionVars PROVE SessionInv'
  OBVIOUS
<1> USE SessionConstants DEF SessionInv
<1>1. ASSUME NEW b \in Browsers, EstablishSession(b) PROVE SessionInv'
  <2> DEFINE a == signing[b]
             t == drawn + 1
  <2>1. a \in Members /\ t \in Tokens /\ drawn' = t /\ t \in Nat \ {0} /\ t \notin 0..drawn
    BY <1>1 DEF EstablishSession, Draws, SessionTypes
  <2>2. /\ owner' = [owner EXCEPT ![t] = a] /\ issuedIn' = [issuedIn EXCEPT ![t] = era[a]]
        /\ activeSession' = [activeSession EXCEPT ![a] = t]
        /\ revoked' = (revoked \ expired) \cup ({activeSession[a]} \ {0})
        /\ signing' = [signing EXCEPT ![b] = NoMember]
        /\ cookie' = [cookie EXCEPT ![b] = t] \/ cookie' = cookie
        /\ UNCHANGED <<active, expired, era, wasDisabled, leftByItself>>
    BY <1>1 DEF EstablishSession, Draws
  <2> HIDE DEF a, t
  <2>3. 0..drawn \subseteq 0..drawn' /\ 1..drawn \subseteq 1..drawn' /\ 1..drawn' = 1..drawn \cup {t}
    BY <2>1 DEF SessionTypes, t
  <2>4. SessionTypes'
    <3>1. activeSession' \in [Members -> 0..drawn'] /\ cookie' \in [Browsers -> 0..drawn']
      BY <2>1, <2>2, <2>3 DEF SessionTypes
    <3>2. revoked' \subseteq 1..drawn'
      <4>1. activeSession[a] \in 0..drawn
        BY <2>1 DEF SessionTypes
      <4>2. {activeSession[a]} \ {0} \subseteq 1..drawn
        BY <4>1 DEF SessionTypes
      <4>3. revoked' \subseteq 1..drawn
        BY <2>2, <4>2 DEF SessionTypes
      <4> QED BY <2>3, <4>3
    <3>3. owner' \in [Tokens -> Members \cup {NoMember}] /\ issuedIn' \in [Tokens -> Nat]
      BY <2>1, <2>2 DEF SessionTypes
    <3> QED BY <2>1, <2>2, <2>3, <3>1, <3>2, <3>3 DEF SessionTypes
  <2>5. SessionsAreOwned'
    BY <2>1, <2>2 DEF SessionTypes, SessionsAreOwned
  <2>6. EndedIsGone'
    <3> SUFFICES ASSUME NEW u \in revoked' \cup wasDisabled' \cup leftByItself', NEW m \in Members
                 PROVE  activeSession'[m] # u
      BY DEF EndedIsGone
    <3>1. activeSession[a] \in 0..drawn
      BY <2>1 DEF SessionTypes
    <3>2. u \in 1..drawn
      BY <2>2, <3>1 DEF SessionTypes
    <3>3. CASE m = a
      BY <2>1, <2>2, <3>2, <3>3 DEF SessionTypes
    <3>4. CASE m # a
      BY <2>1, <2>2, <3>2, <3>4 DEF SessionTypes, EndedIsGone, SessionsAreOwned
    <3> QED BY <3>3, <3>4
  <2>7. EndedIsRecorded'
    <3> SUFFICES ASSUME NEW u \in 1..drawn'
                 PROVE  \/ \E m \in Members : activeSession'[m] = u
                        \/ u \in revoked' \cup expired' \cup wasDisabled' \cup leftByItself'
      BY DEF EndedIsRecorded
    <3>1. CASE u = t
      BY <2>1, <2>2, <3>1 DEF SessionTypes
    <3>2. CASE u # t
      <4>1. \/ \E m \in Members : activeSession[m] = u
            \/ u \in revoked \cup expired \cup wasDisabled \cup leftByItself
        BY <2>3, <3>2 DEF EndedIsRecorded
      <4>2. CASE u \in revoked \cup expired \cup wasDisabled \cup leftByItself
        BY <2>2, <4>2
      <4>3. CASE \E m \in Members : activeSession[m] = u
        BY <2>1, <2>2, <3>2, <4>3 DEF SessionTypes
      <4> QED BY <4>1, <4>2, <4>3
    <3> QED BY <3>1, <3>2
  <2> QED BY <2>4, <2>5, <2>6, <2>7
<1>2. ASSUME NEW b \in Browsers, SignOut(b) PROVE SessionInv'
  <2>1. SessionTypes'
    <3>1. cookie[b] \in 1..drawn
      BY <1>2 DEF SignOut, SessionTypes
    <3>2. leftByItself' \subseteq leftByItself \cup {cookie[b]}
      BY <1>2 DEF SignOut
    <3>3. leftByItself' \subseteq 1..drawn
      BY <3>1, <3>2 DEF SessionTypes
    <3>4. activeSession' \in [Members -> 0..drawn] /\ cookie' \in [Browsers -> 0..drawn]
      BY <1>2 DEF SignOut, SessionTypes
    <3> QED BY <1>2, <3>3, <3>4 DEF SignOut, SessionTypes
  <2>2. SessionsAreOwned'
    BY <1>2 DEF SignOut, SessionTypes, SessionsAreOwned
  <2>3. EndedIsGone'
    BY <1>2 DEF SignOut, SessionTypes, EndedIsGone
  <2>4. EndedIsRecorded'
    BY <1>2 DEF SignOut, SessionTypes, EndedIsRecorded
  <2> QED BY <2>1, <2>2, <2>3, <2>4
<1>3. ASSUME NEW b \in Browsers, SignOutAllUsers(b) PROVE SessionInv'
  <2>1. SessionTypes'
    <3>1. {activeSession[a] : a \in Members} \ {0} \subseteq 1..drawn
      BY DEF SessionTypes
    <3>2. revoked' \subseteq 1..drawn
      BY <1>3, <3>1 DEF SignOutAllUsers, SessionTypes
    <3>3. activeSession' \in [Members -> 0..drawn] /\ cookie' \in [Browsers -> 0..drawn]
      BY <1>3 DEF SignOutAllUsers, SessionTypes
    <3> QED BY <1>3, <3>2, <3>3 DEF SignOutAllUsers, SessionTypes, sessionPast
  <2>2. SessionsAreOwned'
    BY <1>3 DEF SignOutAllUsers, SessionTypes, SessionsAreOwned, sessionPast
  <2>3. EndedIsGone'
    BY <1>3 DEF SignOutAllUsers, SessionTypes, EndedIsGone, sessionPast
  <2>4. EndedIsRecorded'
    BY <1>3 DEF SignOutAllUsers, SessionTypes, EndedIsRecorded, sessionPast
  <2> QED BY <2>1, <2>2, <2>3, <2>4
<1>4. ASSUME NEW a \in Members, Disable(a) PROVE SessionInv'
  <2>1. SessionTypes'
    <3>1. {activeSession[a]} \ {0} \subseteq 1..drawn
      BY DEF SessionTypes
    <3>2. wasDisabled' \subseteq 1..drawn
      BY <1>4, <3>1 DEF Disable, SessionTypes
    <3>3. activeSession' \in [Members -> 0..drawn] /\ era' \in [Members -> Nat]
      BY <1>4 DEF Disable, SessionTypes
    <3> QED BY <1>4, <3>2, <3>3 DEF Disable, SessionTypes, browserVars
  <2>2. SessionsAreOwned'
    BY <1>4 DEF Disable, SessionTypes, SessionsAreOwned, browserVars
  <2>3. EndedIsGone'
    BY <1>4 DEF Disable, SessionTypes, EndedIsGone, SessionsAreOwned, browserVars
  <2>4. EndedIsRecorded'
    BY <1>4 DEF Disable, SessionTypes, EndedIsRecorded, browserVars
  <2> QED BY <2>1, <2>2, <2>3, <2>4
<1>5. ASSUME NEW b \in Browsers, SignInFails(b) \/ \E a \in Members : Authorize(b, a) PROVE SessionInv'
  <2>1. UNCHANGED <<sessionRows, cookie, sessionPast>> /\ signing' \in [Browsers -> Members \cup {NoMember}]
    BY <1>5 DEF SignInFails, Authorize, SessionTypes
  <2> QED BY <2>1 DEF SessionTypes, SessionsAreOwned, EndedIsGone, EndedIsRecorded, sessionRows, sessionPast
<1>6. ASSUME NEW a \in Members, Enable(a) PROVE SessionInv'
  BY <1>6 DEF Enable, SessionTypes, SessionsAreOwned, EndedIsGone, EndedIsRecorded, browserVars, sessionPast
<1>7. CASE DayPasses
  BY <1>7 DEF DayPasses, SessionTypes, SessionsAreOwned, EndedIsGone, EndedIsRecorded, browserVars, sessionPast
<1>8. CASE UNCHANGED sessionVars
  BY <1>8 DEF sessionVars, SessionTypes, SessionsAreOwned, EndedIsGone, EndedIsRecorded, sessionRows,
     browserVars, sessionPast
<1> QED BY <1>1, <1>2, <1>3, <1>4, <1>5, <1>6, <1>7, <1>8 DEF SessionNext

LEMMA SessionsSuffice ==
  SessionInv => SessionTypeOK /\ EndedIsRecorded /\ RevokedIsOver /\ DisablingEndsSessions
<1> SUFFICES ASSUME SessionInv
             PROVE  SessionTypeOK /\ EndedIsRecorded /\ RevokedIsOver /\ DisablingEndsSessions
  OBVIOUS
<1> USE SessionConstants DEF SessionInv, SessionTypes
<1>1. drawn \in Tokens \cup {0}
  <2>1. drawn = 0 \/ drawn \in 1..drawn
    OBVIOUS
  <2> QED BY <2>1
<1>2. (1..drawn) \cup {NoToken} = 0..drawn
  OBVIOUS
<1>3. SessionTypeOK
  BY <1>1, <1>2 DEF SessionTypeOK, SessionsAreOwned
<1> QED BY <1>3 DEF SessionsAreOwned, EndedIsGone, RevokedIsOver, DisablingEndsSessions, Accepts

\* A session that ended is recorded, and is accepted nowhere again, nor is one of an
\* account disabled since (establish-session.ts 21-25, session-admin.ts 20-22): for any
\* members and browsers, and any order of sign-ins, sign-outs and expiries.
THEOREM SessionsHold ==
  SessionSpec => [](SessionTypeOK /\ EndedIsRecorded /\ RevokedIsOver /\ DisablingEndsSessions)
<1> QED BY SessionStarts, SessionSteps, SessionsSuffice, PTL DEF SessionSpec
-----------------------------------------------------------------------------
(* The first administrator *)

\* A transaction that nobody has overtaken began when there was no account, and
\* found the company there was, if any.
NobodyOvertook ==
  /\ accounts = {} => behind = {} /\ companies \subseteq {"migration"}
  /\ \A s \in SignIns : bootAt[s] = "commit" =>
       /\ s \notin behind => accounts = {}
       /\ accounts = {} => (companies = {} /\ saw[s] = s) \/ (companies = {"migration"} /\ saw[s] = "migration")
       /\ saw[s] \in {s, "migration"}

\* One account at most, whose sign-in is done, and whose company stands.
OneAccount ==
  /\ \A a, b \in accounts : a = b
  /\ \A a \in accounts : bootAt[a] = "authorize" /\ saw[a] \in companies /\ saw[a] \in {a, "migration"}

\* Beside its company there are those of sign-ins that have still to remove theirs, or died.
CompaniesAreOwned ==
  accounts # {} => \A c \in companies :
    \/ \E a \in accounts : c = saw[a]
    \/ c \in SignIns /\ bootAt[c] \in {"compensate", "gone"} /\ saw[c] = c

\* Who has given up trying has seen an account.
AuthorizedAreBehind == \A s \in SignIns : bootAt[s] \in {"authorize", "compensate"} => accounts # {}

\* A sign-in tries a bounded number of times.
RoundsLeft ==
  /\ attempts \in [SignIns -> 0..Rounds]
  /\ \A s \in SignIns : bootAt[s] \in {"count", "transaction"} => attempts[s] < Rounds

\* The inductive invariant of the first sign-ins.
BootstrapInv ==
  BootstrapTypeOK /\ NobodyOvertook /\ OneAccount /\ CompaniesAreOwned /\ AuthorizedAreBehind /\ RoundsLeft

LEMMA BootstrapStarts == BootstrapInit => BootstrapInv
  BY BootstrapConstants DEF BootstrapInit, BootstrapInv, BootstrapTypeOK, NobodyOvertook, OneAccount,
     CompaniesAreOwned, AuthorizedAreBehind, RoundsLeft

\* Every step of BootstrapNext keeps the invariant.
LEMMA BootstrapSteps == BootstrapInv /\ [BootstrapNext]_bootVars => BootstrapInv'
<1> SUFFICES ASSUME BootstrapInv, [BootstrapNext]_bootVars PROVE BootstrapInv'
  OBVIOUS
<1> USE BootstrapConstants DEF BootstrapInv, BootTo
<1>1. ASSUME NEW s \in SignIns, CountAccounts(s) PROVE BootstrapInv'
  <2> USE <1>1 DEF CountAccounts
  <2>1. BootstrapTypeOK' /\ AuthorizedAreBehind' /\ RoundsLeft'
    BY DEF BootstrapTypeOK, NobodyOvertook, OneAccount, CompaniesAreOwned, AuthorizedAreBehind, RoundsLeft
  <2>2. NobodyOvertook' /\ OneAccount' /\ CompaniesAreOwned'
    BY DEF BootstrapTypeOK, NobodyOvertook, OneAccount, CompaniesAreOwned, AuthorizedAreBehind, RoundsLeft
  <2> QED BY <2>1, <2>2
<1>2. ASSUME NEW s \in SignIns, BeginBootstrap(s) PROVE BootstrapInv'
  <2> USE <1>2 DEF BeginBootstrap
  <2>1. BootstrapTypeOK' /\ AuthorizedAreBehind' /\ RoundsLeft'
    BY DEF BootstrapTypeOK, NobodyOvertook, OneAccount, CompaniesAreOwned, AuthorizedAreBehind, RoundsLeft
  <2>2. NobodyOvertook' /\ OneAccount' /\ CompaniesAreOwned'
    BY DEF BootstrapTypeOK, NobodyOvertook, OneAccount, CompaniesAreOwned, AuthorizedAreBehind, RoundsLeft
  <2> QED BY <2>1, <2>2
<1>3. ASSUME NEW s \in SignIns, CommitBootstrap(s) PROVE BootstrapInv'
  <2> USE <1>3 DEF CommitBootstrap
  <2>1. BootstrapTypeOK' /\ AuthorizedAreBehind' /\ RoundsLeft'
    BY DEF BootstrapTypeOK, NobodyOvertook, OneAccount, CompaniesAreOwned, AuthorizedAreBehind, RoundsLeft
  <2>2. NobodyOvertook' /\ OneAccount' /\ CompaniesAreOwned'
    BY DEF BootstrapTypeOK, NobodyOvertook, OneAccount, CompaniesAreOwned, AuthorizedAreBehind, RoundsLeft
  <2> QED BY <2>1, <2>2
<1>4. ASSUME NEW s \in SignIns, AbortBootstrap(s) PROVE BootstrapInv'
  <2> USE <1>4 DEF AbortBootstrap
  <2>1. BootstrapTypeOK' /\ AuthorizedAreBehind' /\ RoundsLeft'
    BY DEF BootstrapTypeOK, NobodyOvertook, OneAccount, CompaniesAreOwned, AuthorizedAreBehind, RoundsLeft
  <2>2. NobodyOvertook' /\ OneAccount' /\ CompaniesAreOwned'
    BY DEF BootstrapTypeOK, NobodyOvertook, OneAccount, CompaniesAreOwned, AuthorizedAreBehind, RoundsLeft
  <2> QED BY <2>1, <2>2
<1>5. ASSUME NEW s \in SignIns, Compensate(s) PROVE BootstrapInv'
  <2> USE <1>5 DEF Compensate
  <2>1. BootstrapTypeOK' /\ AuthorizedAreBehind' /\ RoundsLeft'
    BY DEF BootstrapTypeOK, NobodyOvertook, OneAccount, CompaniesAreOwned, AuthorizedAreBehind, RoundsLeft
  <2>2. NobodyOvertook' /\ OneAccount' /\ CompaniesAreOwned'
    BY DEF BootstrapTypeOK, NobodyOvertook, OneAccount, CompaniesAreOwned, AuthorizedAreBehind, RoundsLeft
  <2> QED BY <2>1, <2>2
<1>6. ASSUME NEW s \in SignIns, Recount(s) PROVE BootstrapInv'
  <2> USE <1>6 DEF Recount
  <2>1. BootstrapTypeOK' /\ AuthorizedAreBehind' /\ RoundsLeft'
    BY DEF BootstrapTypeOK, NobodyOvertook, OneAccount, CompaniesAreOwned, AuthorizedAreBehind, RoundsLeft
  <2>2. NobodyOvertook' /\ OneAccount' /\ CompaniesAreOwned'
    BY DEF BootstrapTypeOK, NobodyOvertook, OneAccount, CompaniesAreOwned, AuthorizedAreBehind, RoundsLeft
  <2> QED BY <2>1, <2>2
<1>7. ASSUME NEW s \in SignIns, SignInDies(s) PROVE BootstrapInv'
  <2> USE <1>7 DEF SignInDies
  <2>1. BootstrapTypeOK' /\ AuthorizedAreBehind' /\ RoundsLeft'
    BY DEF BootstrapTypeOK, NobodyOvertook, OneAccount, CompaniesAreOwned, AuthorizedAreBehind, RoundsLeft
  <2>2. NobodyOvertook' /\ OneAccount' /\ CompaniesAreOwned'
    BY DEF BootstrapTypeOK, NobodyOvertook, OneAccount, CompaniesAreOwned, AuthorizedAreBehind, RoundsLeft
  <2> QED BY <2>1, <2>2
<1>8. CASE UNCHANGED bootVars
  BY <1>8 DEF bootVars, BootstrapTypeOK, NobodyOvertook, OneAccount, CompaniesAreOwned, AuthorizedAreBehind,
     RoundsLeft
<1> QED BY <1>1, <1>2, <1>3, <1>4, <1>5, <1>6, <1>7, <1>8 DEF BootstrapNext, BootstrapStep

LEMMA BootstrapSuffices == BootstrapInv => BootstrapTypeOK /\ OneCompanyOneAdmin
<1>1. ASSUME BootstrapInv PROVE OneCompanyOneAdmin
  <2> USE <1>1 DEF BootstrapInv
  <2>1. Cardinality(accounts) <= 1
    <3>1. CASE accounts = {}
      BY <3>1, FS_EmptySet
    <3>2. CASE accounts # {}
      <4>1. PICK a \in accounts : accounts = {a}
        BY <3>2 DEF OneAccount
      <4>2. Cardinality({a}) = 1
        BY FS_Singleton
      <4> QED BY <4>1, <4>2
    <3> QED BY <3>1, <3>2
  <2>2. ASSUME \A s \in SignIns : bootAt[s] = "authorize" PROVE Cardinality(companies) = 1
    <3>1. PICK a \in accounts : accounts = {a}
      BY <2>2, BootstrapConstants DEF AuthorizedAreBehind, OneAccount
    <3>2. companies = {saw[a]}
      BY <2>2, <3>1 DEF CompaniesAreOwned, OneAccount
    <3> QED BY <3>2, FS_Singleton
  <2> QED BY <2>1, <2>2 DEF OneCompanyOneAdmin
<1> QED BY <1>1 DEF BootstrapInv

\* However many first sign-ins race, one account is created, and one company is left when
\* all are done: for any number of sign-ins and of attempts.
THEOREM BootstrapHolds == BootstrapSpec => [](BootstrapTypeOK /\ OneCompanyOneAdmin)
BY BootstrapStarts, BootstrapSteps, BootstrapSuffices, PTL DEF BootstrapSpec
-----------------------------------------------------------------------------
(* Contacts' phones *)

\* A statement that will add a row has a number for it.
StepsKnow ==
  \A p \in Editors :
    /\ step[p] = "find" => target[p] = NoPhone /\ written[p] # NoNumber
    /\ step[p] = "clear" /\ target[p] = NoPhone => written[p] # NoNumber

\* A request that none has overlapped runs by itself, and finds what it has left.
AloneRepairs ==
  /\ \A p \in alone : \A q \in Editing : q = p
  /\ \A p \in alone :
       /\ step[p] = "put" => target[p] \in OnFile \cup {NoPhone}
       /\ step[p] = "promote" => target[p] \in OnFile
       /\ step[p] = "mirror" =>
            IF OnFile = {} THEN written[p] = NoNumber ELSE \E r \in primaries : number[r] = written[p]
  /\ settled => Editing = {} /\ Mirrored

\* Unless requests met there is one primary at most, and none when a request by itself is
\* about to add one.
LoneHasOne ==
  /\ crowded \/ \A r, s \in primaries : r = s
  /\ \A p \in alone :
       /\ step[p] \in {"mark", "promote", "fallback"} => primaries = {}
       /\ step[p] = "put" /\ target[p] = NoPhone => primaries = {}
       /\ step[p] \in {"count", "insert"} /\ asPrimary[p] => primaries = {}

\* The inductive invariant of the phones of a contact.
ChannelInv == ChannelTypeOK /\ StepsKnow /\ AloneRepairs /\ LoneHasOne

\* A contact with numbers has a newest one.
LEMMA NewestIsOnFile ==
  ASSUME ChannelTypeOK, OnFile # {}
  PROVE  Newest \in OnFile
<1> USE ChannelConstants
<1>1. OnFile \subseteq Nat /\ newestId \in Nat /\ \A r \in OnFile : r <= newestId
  <2>1. OnFile \subseteq Phones /\ newestId \in Phones \cup {0} /\ \A r \in OnFile : r <= newestId
    BY DEF OnFile, ChannelTypeOK
  <2> QED BY <2>1
<1> DEFINE younger == {newestId - r : r \in OnFile}
<1>2. younger \subseteq Nat /\ younger # {}
  <2>1. \A r \in OnFile : newestId - r \in Nat
    BY <1>1
  <2> QED BY <2>1
<1>3. PICK m \in younger : \A y \in younger : ~(<<y, m>> \in OpToRel(<, Nat))
  <2> HIDE DEF younger
  <2> QED BY <1>2, NatLessThanWellFounded, WFMin, Zenon
<1>4. \A y \in younger : ~(y < m)
  <2> HIDE DEF younger
  <2> QED BY <1>2, <1>3 DEF OpToRel
<1>5. PICK r \in OnFile : m = newestId - r
  OBVIOUS
<1>6. \A s \in OnFile : s <= r
  BY <1>1, <1>4, <1>5
<1> QED BY <1>5, <1>6 DEF Newest

LEMMA ChannelStarts == ChannelInit => ChannelInv
<1> SUFFICES ASSUME ChannelInit PROVE ChannelInv
  OBVIOUS
<1> USE ChannelConstants DEF ChannelInit
<1>1. Editing = {}
  BY DEF Editing
<1>2. ChannelTypeOK
  <2>1. crowded \in BOOLEAN /\ settled \in BOOLEAN
    OBVIOUS
  <2>2. cuts \in 0..MaxCuts /\ alone \subseteq Editing
    OBVIOUS
  <2> QED BY <1>1, <2>1, <2>2 DEF ChannelTypeOK, OnFile
<1>3. StepsKnow /\ AloneRepairs /\ LoneHasOne
  BY <1>1 DEF StepsKnow, AloneRepairs, LoneHasOne, Mirrored
<1> QED BY <1>2, <1>3 DEF ChannelInv

\* The statements of an edit, one by one.
LEMMA FindPrimaryKeeps ==
  ASSUME ChannelInv, NEW p \in Editors, FindPrimary(p)
  PROVE  ChannelInv'
<1> USE ChannelConstants DEF ChannelInv, FindPrimary, StepTo, channelVars, soloVars, OnFile, Editing
<1>1. ChannelTypeOK'
  BY DEF ChannelTypeOK, StepsKnow
<1>2. StepsKnow'
  BY DEF ChannelTypeOK, StepsKnow
<1>0. target'[p] \in OnFile \cup {NoPhone} /\ \A q \in Editors \ {p} : target'[q] = target[q]
  BY DEF ChannelTypeOK, StepsKnow
<1>3. AloneRepairs'
  BY <1>0 DEF ChannelTypeOK, AloneRepairs, Mirrored
<1>4. LoneHasOne'
  BY DEF ChannelTypeOK, LoneHasOne, Mirrored, AloneRepairs
<1> QED BY <1>1, <1>2, <1>3, <1>4

LEMMA PutNumberKeeps ==
  ASSUME ChannelInv, NEW p \in Editors, PutNumber(p)
  PROVE  ChannelInv'
<1> USE ChannelConstants DEF ChannelInv, PutNumber, StepTo, soloVars, OnFile, Editing
<1>1. ChannelTypeOK'
  BY DEF ChannelTypeOK, StepsKnow
<1>2. StepsKnow'
  BY DEF ChannelTypeOK, StepsKnow
<1>3. AloneRepairs'
  BY DEF ChannelTypeOK, AloneRepairs, Mirrored
<1>4. LoneHasOne'
  BY DEF ChannelTypeOK, LoneHasOne, Mirrored, AloneRepairs
<1> QED BY <1>1, <1>2, <1>3, <1>4

LEMMA PutVanishedKeeps ==
  ASSUME ChannelInv, NEW p \in Editors, PutVanished(p)
  PROVE  ChannelInv'
<1> USE ChannelConstants DEF ChannelInv, PutVanished, Throws, EditEnds, StepTo, channelVars, OnFile, Editing
<1>1. ChannelTypeOK'
  BY DEF ChannelTypeOK, StepsKnow
<1>2. StepsKnow'
  BY DEF ChannelTypeOK, StepsKnow
<1>3. AloneRepairs'
  BY DEF ChannelTypeOK, AloneRepairs, Mirrored
<1>4. LoneHasOne'
  BY DEF ChannelTypeOK, LoneHasOne, Mirrored, AloneRepairs
<1> QED BY <1>1, <1>2, <1>3, <1>4

LEMMA CreatePrimaryKeeps ==
  ASSUME ChannelInv, NEW p \in Editors, CreatePrimary(p)
  PROVE  ChannelInv'
<1> USE ChannelConstants DEF ChannelInv, CreatePrimary, Inserts, MakesPrimary, StepTo, soloVars, OnFile, Editing
<1>0. /\ newestId' \in Phones /\ newestId' = newestId + 1 /\ newestId' \in Nat
      /\ OnFile' = OnFile \cup {newestId'} /\ number' \in [Phones -> Numbers \cup {NoNumber}]
  BY DEF ChannelTypeOK
<1>5. /\ step' \in [Editors -> {"idle", "find", "put", "clear", "count", "insert", "mark", "delete",
                                "sync", "fallback", "promote", "mirror"}]
      /\ step'[p] = "sync" /\ \A q \in Editors \ {p} : step'[q] = step[q]
      /\ \A q \in Editors : target'[q] = target[q] /\ asPrimary'[q] = asPrimary[q]
      /\ alone' = alone
  BY DEF ChannelTypeOK
<1>6. /\ crowded' \in BOOLEAN
      /\ \/ primaries' = primaries /\ crowded' = crowded
         \/ /\ primaries' = primaries \cup {newestId'} /\ crowded' = (p \notin alone)
            /\ p \in alone => primaries = {}
  BY DEF ChannelTypeOK, LoneHasOne
<1>1. ChannelTypeOK'
  <2>1. alone' \subseteq Editing' /\ settled' \in BOOLEAN /\ cuts' \in 0..MaxCuts
    BY <1>5 DEF ChannelTypeOK
  <2>2. \A r \in OnFile' : r <= newestId'
    BY <1>0 DEF ChannelTypeOK
  <2>3. primaries' \subseteq OnFile' /\ primaryPhone' \in Numbers \cup {NoNumber}
    BY <1>0, <1>6 DEF ChannelTypeOK
  <2>4. \A q \in Editors :
          /\ step'[q] \in {"mark", "delete", "promote"} => target'[q] # NoPhone
          /\ step'[q] \in {"put", "count", "insert"} => written'[q] # NoNumber
    BY <1>5 DEF ChannelTypeOK
  <2>5. target' \in [Editors -> Phones \cup {NoPhone}] /\ asPrimary' \in [Editors -> BOOLEAN]
        /\ written' \in [Editors -> Numbers \cup {NoNumber}]
    BY DEF ChannelTypeOK
  <2> QED BY <1>0, <1>5, <1>6, <2>1, <2>2, <2>3, <2>4, <2>5 DEF ChannelTypeOK
<1>2. StepsKnow'
  BY DEF ChannelTypeOK, StepsKnow
<1>3. AloneRepairs'
  BY DEF ChannelTypeOK, AloneRepairs, Mirrored
<1>4. LoneHasOne'
  <2>1. \A q \in alone : q = p
    BY DEF ChannelTypeOK, AloneRepairs
  <2>2. crowded' \/ \A r, t \in primaries' : r = t
    BY <1>6 DEF LoneHasOne
  <2> QED BY <1>5, <2>1, <2>2 DEF LoneHasOne
<1> QED BY <1>1, <1>2, <1>3, <1>4

LEMMA ClearPrimariesKeeps ==
  ASSUME ChannelInv, NEW p \in Editors, ClearPrimaries(p)
  PROVE  ChannelInv'
<1> USE ChannelConstants DEF ChannelInv, ClearPrimaries, StepTo, soloVars, OnFile, Editing
<1>1. ChannelTypeOK'
  BY DEF ChannelTypeOK, StepsKnow
<1>2. StepsKnow'
  BY DEF ChannelTypeOK, StepsKnow
<1>3. AloneRepairs'
  BY DEF ChannelTypeOK, AloneRepairs, Mirrored
<1>4. LoneHasOne'
  BY DEF ChannelTypeOK, LoneHasOne, Mirrored, AloneRepairs
<1> QED BY <1>1, <1>2, <1>3, <1>4

LEMMA CountPhonesKeeps ==
  ASSUME ChannelInv, NEW p \in Editors, CountPhones(p)
  PROVE  ChannelInv'
<1> USE ChannelConstants DEF ChannelInv, CountPhones, StepTo, channelVars, soloVars, OnFile, Editing
<1>1. ChannelTypeOK'
  BY DEF ChannelTypeOK, StepsKnow
<1>2. StepsKnow'
  BY DEF ChannelTypeOK, StepsKnow
<1>3. AloneRepairs'
  BY DEF ChannelTypeOK, AloneRepairs, Mirrored
<1>4. LoneHasOne'
  BY DEF ChannelTypeOK, LoneHasOne, Mirrored, AloneRepairs
<1> QED BY <1>1, <1>2, <1>3, <1>4

LEMMA InsertPhoneKeeps ==
  ASSUME ChannelInv, NEW p \in Editors, InsertPhone(p)
  PROVE  ChannelInv'
<1> USE ChannelConstants DEF ChannelInv, InsertPhone, Inserts, MakesPrimary, StepTo, soloVars, OnFile, Editing
<1>0. /\ newestId' \in Phones /\ newestId' = newestId + 1 /\ newestId' \in Nat
      /\ OnFile' = OnFile \cup {newestId'} /\ number' \in [Phones -> Numbers \cup {NoNumber}]
  BY DEF ChannelTypeOK
<1>5. /\ step' \in [Editors -> {"idle", "find", "put", "clear", "count", "insert", "mark", "delete",
                                "sync", "fallback", "promote", "mirror"}]
      /\ step'[p] = "sync" /\ \A q \in Editors \ {p} : step'[q] = step[q]
      /\ \A q \in Editors : target'[q] = target[q] /\ asPrimary'[q] = asPrimary[q]
      /\ alone' = alone
  BY DEF ChannelTypeOK
<1>6. /\ crowded' \in BOOLEAN
      /\ \/ primaries' = primaries /\ crowded' = crowded
         \/ /\ primaries' = primaries \cup {newestId'} /\ crowded' = (p \notin alone)
            /\ p \in alone => primaries = {}
  BY DEF ChannelTypeOK, LoneHasOne
<1>1. ChannelTypeOK'
  <2>1. alone' \subseteq Editing' /\ settled' \in BOOLEAN /\ cuts' \in 0..MaxCuts
    BY <1>5 DEF ChannelTypeOK
  <2>2. \A r \in OnFile' : r <= newestId'
    BY <1>0 DEF ChannelTypeOK
  <2>3. primaries' \subseteq OnFile' /\ primaryPhone' \in Numbers \cup {NoNumber}
    BY <1>0, <1>6 DEF ChannelTypeOK
  <2>4. \A q \in Editors :
          /\ step'[q] \in {"mark", "delete", "promote"} => target'[q] # NoPhone
          /\ step'[q] \in {"put", "count", "insert"} => written'[q] # NoNumber
    BY <1>5 DEF ChannelTypeOK
  <2>5. target' \in [Editors -> Phones \cup {NoPhone}] /\ asPrimary' \in [Editors -> BOOLEAN]
        /\ written' \in [Editors -> Numbers \cup {NoNumber}]
    BY DEF ChannelTypeOK
  <2> QED BY <1>0, <1>5, <1>6, <2>1, <2>2, <2>3, <2>4, <2>5 DEF ChannelTypeOK
<1>2. StepsKnow'
  BY DEF ChannelTypeOK, StepsKnow
<1>3. AloneRepairs'
  BY DEF ChannelTypeOK, AloneRepairs, Mirrored
<1>4. LoneHasOne'
  <2>1. \A q \in alone : q = p
    BY DEF ChannelTypeOK, AloneRepairs
  <2>2. crowded' \/ \A r, t \in primaries' : r = t
    BY <1>6 DEF LoneHasOne
  <2> QED BY <1>5, <2>1, <2>2 DEF LoneHasOne
<1> QED BY <1>1, <1>2, <1>3, <1>4

LEMMA MarkPrimaryKeeps ==
  ASSUME ChannelInv, NEW p \in Editors, MarkPrimary(p)
  PROVE  ChannelInv'
<1> USE ChannelConstants DEF ChannelInv, MarkPrimary, MakesPrimary, StepTo, soloVars, OnFile, Editing
<1>1. ChannelTypeOK'
  BY DEF ChannelTypeOK, StepsKnow
<1>2. StepsKnow'
  BY DEF ChannelTypeOK, StepsKnow
<1>3. AloneRepairs'
  BY DEF ChannelTypeOK, AloneRepairs, Mirrored
<1>4. LoneHasOne'
  <2>1. \A q \in alone : q = p
    BY DEF ChannelTypeOK, AloneRepairs
  <2>2. step'[p] = "sync" /\ alone' = alone
    BY DEF ChannelTypeOK
  <2>3. \/ primaries' = primaries /\ crowded' = crowded
        \/ /\ primaries' = primaries \cup {target[p]} /\ crowded' = (p \notin alone)
           /\ p \in alone => primaries = {}
    BY DEF LoneHasOne
  <2>4. crowded' \/ \A r, t \in primaries' : r = t
    BY <2>3 DEF LoneHasOne
  <2> QED BY <2>1, <2>2, <2>4 DEF LoneHasOne
<1> QED BY <1>1, <1>2, <1>3, <1>4

LEMMA DeletePhoneKeeps ==
  ASSUME ChannelInv, NEW p \in Editors, DeletePhone(p)
  PROVE  ChannelInv'
<1> USE ChannelConstants DEF ChannelInv, DeletePhone, StepTo, soloVars, OnFile, Editing
<1>1. ChannelTypeOK'
  BY DEF ChannelTypeOK, StepsKnow
<1>2. StepsKnow'
  BY DEF ChannelTypeOK, StepsKnow
<1>3. AloneRepairs'
  BY DEF ChannelTypeOK, AloneRepairs, Mirrored
<1>4. LoneHasOne'
  BY DEF ChannelTypeOK, LoneHasOne, Mirrored, AloneRepairs
<1> QED BY <1>1, <1>2, <1>3, <1>4

LEMMA SyncFindKeeps ==
  ASSUME ChannelInv, NEW p \in Editors, SyncFind(p)
  PROVE  ChannelInv'
<1> USE ChannelConstants DEF ChannelInv, SyncFind, StepTo, channelVars, soloVars, OnFile, Editing
<1>1. ChannelTypeOK'
  BY DEF ChannelTypeOK, StepsKnow
<1>2. StepsKnow'
  BY DEF ChannelTypeOK, StepsKnow
<1>3. AloneRepairs'
  BY DEF ChannelTypeOK, AloneRepairs, Mirrored
<1>4. LoneHasOne'
  BY DEF ChannelTypeOK, LoneHasOne, Mirrored, AloneRepairs
<1> QED BY <1>1, <1>2, <1>3, <1>4

LEMMA SyncFallbackKeeps ==
  ASSUME ChannelInv, NEW p \in Editors, SyncFallback(p)
  PROVE  ChannelInv'
<1> USE ChannelConstants DEF ChannelInv, SyncFallback, StepTo, channelVars, soloVars, OnFile, Editing
<1>1. ChannelTypeOK'
  BY NewestIsOnFile DEF ChannelTypeOK, StepsKnow
<1>2. StepsKnow'
  BY NewestIsOnFile DEF ChannelTypeOK, StepsKnow
<1>3. AloneRepairs'
  BY NewestIsOnFile DEF ChannelTypeOK, AloneRepairs, Mirrored
<1>4. LoneHasOne'
  BY NewestIsOnFile DEF ChannelTypeOK, LoneHasOne, Mirrored, AloneRepairs
<1> QED BY <1>1, <1>2, <1>3, <1>4

LEMMA SyncPromoteKeeps ==
  ASSUME ChannelInv, NEW p \in Editors, SyncPromote(p)
  PROVE  ChannelInv'
<1> USE ChannelConstants DEF ChannelInv, SyncPromote, MakesPrimary, StepTo, soloVars, OnFile, Editing
<1>1. ChannelTypeOK'
  BY DEF ChannelTypeOK, StepsKnow
<1>2. StepsKnow'
  BY DEF ChannelTypeOK, StepsKnow
<1>0. /\ step'[p] = "mirror" /\ written'[p] = number[target[p]] /\ target[p] \in primaries' /\ OnFile' = OnFile /\ OnFile # {}
      /\ \A q \in Editors \ {p} : step'[q] = step[q] /\ written'[q] = written[q]
  BY DEF ChannelTypeOK
<1>3. AloneRepairs'
  <2>1. p \in Editing /\ ~settled
    BY DEF ChannelTypeOK, AloneRepairs
  <2>2. \A q \in alone : q = p
    BY <2>1 DEF ChannelTypeOK, AloneRepairs
  <2>3. \E r \in primaries' : number'[r] = written'[p]
    BY <1>0
  <2>4. \A q \in Editing' : q \in Editing
    BY <1>0, <2>1
  <2> HIDE DEF SyncPromote
  <2>5. alone' = alone /\ settled' = settled
    BY DEF SyncPromote
  <2> QED BY <1>0, <2>1, <2>2, <2>3, <2>4, <2>5 DEF AloneRepairs
<1>4. LoneHasOne'
  BY DEF ChannelTypeOK, LoneHasOne, Mirrored, AloneRepairs
<1> QED BY <1>1, <1>2, <1>3, <1>4

LEMMA PromoteVanishedKeeps ==
  ASSUME ChannelInv, NEW p \in Editors, PromoteVanished(p)
  PROVE  ChannelInv'
<1> USE ChannelConstants DEF ChannelInv, PromoteVanished, Throws, EditEnds, StepTo, channelVars, OnFile, Editing
<1>1. ChannelTypeOK'
  BY DEF ChannelTypeOK, StepsKnow
<1>2. StepsKnow'
  BY DEF ChannelTypeOK, StepsKnow
<1>3. AloneRepairs'
  BY DEF ChannelTypeOK, AloneRepairs, Mirrored
<1>4. LoneHasOne'
  BY DEF ChannelTypeOK, LoneHasOne, Mirrored, AloneRepairs
<1> QED BY <1>1, <1>2, <1>3, <1>4

LEMMA SyncMirrorKeeps ==
  ASSUME ChannelInv, NEW p \in Editors, SyncMirror(p)
  PROVE  ChannelInv'
<1> USE ChannelConstants DEF ChannelInv, SyncMirror, EditEnds, StepTo, OnFile, Editing
<1>1. ChannelTypeOK'
  BY DEF ChannelTypeOK, StepsKnow
<1>2. StepsKnow'
  BY DEF ChannelTypeOK, StepsKnow
<1>3. AloneRepairs'
  BY DEF ChannelTypeOK, AloneRepairs, Mirrored
<1>0. /\ step'[p] = "idle" /\ \A q \in Editors \ {p} : step'[q] = step[q]
      /\ \A q \in alone : q = p
  BY DEF ChannelTypeOK, AloneRepairs
<1>4. LoneHasOne'
  BY <1>0 DEF ChannelTypeOK, LoneHasOne, Mirrored, AloneRepairs
<1> QED BY <1>1, <1>2, <1>3, <1>4

LEMMA EditorDiesKeeps ==
  ASSUME ChannelInv, NEW p \in Editors, EditorDies(p)
  PROVE  ChannelInv'
<1> USE ChannelConstants DEF ChannelInv, EditorDies, StepTo, channelVars, OnFile, Editing
<1>0. cuts' \in 0..MaxCuts
  BY DEF ChannelTypeOK
<1>1. ChannelTypeOK'
  BY <1>0 DEF ChannelTypeOK, StepsKnow
<1>2. StepsKnow'
  BY DEF ChannelTypeOK, StepsKnow
<1>3. AloneRepairs'
  BY DEF ChannelTypeOK, AloneRepairs, Mirrored
<1>4. LoneHasOne'
  BY DEF ChannelTypeOK, LoneHasOne, Mirrored, AloneRepairs
<1> QED BY <1>1, <1>2, <1>3, <1>4

\* What a request needs when it begins.
LEMMA EditsKeep ==
  ASSUME ChannelInv, NEW p \in Editors, NEW label \in {"find", "clear", "count", "delete"},
         NEW r \in OnFile \cup {NoPhone}, NEW n \in Numbers \cup {NoNumber}, NEW flag \in BOOLEAN,
         Edits(p, label, r, n, flag),
         label = "find" => r = NoPhone /\ n # NoNumber,
         label = "delete" => r # NoPhone,
         label = "count" => n # NoNumber /\ ~flag,
         label = "clear" => r # NoPhone \/ n # NoNumber
  PROVE  ChannelInv'
<1> USE ChannelConstants DEF ChannelInv, Edits, StepTo, channelVars, OnFile, Editing
<1>1. ChannelTypeOK'
  <2>1. /\ step' \in [Editors -> {"idle", "find", "put", "clear", "count", "insert", "mark", "delete",
                                  "sync", "fallback", "promote", "mirror"}]
        /\ target' \in [Editors -> Phones \cup {NoPhone}] /\ asPrimary' \in [Editors -> BOOLEAN]
        /\ written' \in [Editors -> Numbers \cup {NoNumber}]
    BY DEF ChannelTypeOK
  <2>2. \A q \in Editors :
          /\ step'[q] \in {"mark", "delete", "promote"} => target'[q] # NoPhone
          /\ step'[q] \in {"put", "count", "insert"} => written'[q] # NoNumber
    BY DEF ChannelTypeOK
  <2>3. alone' \subseteq Editing'
    BY DEF ChannelTypeOK
  <2>4. crowded' \in BOOLEAN /\ settled' \in BOOLEAN
    <3>1. crowded' = crowded /\ settled' = FALSE
      OBVIOUS
    <3> HIDE DEF Edits
    <3> QED BY <3>1 DEF ChannelTypeOK
  <2> QED BY <2>1, <2>2, <2>3, <2>4 DEF ChannelTypeOK
<1>2. StepsKnow'
  BY DEF ChannelTypeOK, StepsKnow
<1>3. AloneRepairs'
  BY DEF ChannelTypeOK, AloneRepairs, Mirrored
<1>4. LoneHasOne'
  BY DEF ChannelTypeOK, AloneRepairs, LoneHasOne, Mirrored
<1> QED BY <1>1, <1>2, <1>3, <1>4

\* Every step of ChannelNext keeps the invariant.
LEMMA ChannelSteps == ChannelInv /\ [ChannelNext]_phoneVars => ChannelInv'
<1> SUFFICES ASSUME ChannelInv, [ChannelNext]_phoneVars PROVE ChannelInv'
  OBVIOUS
<1> USE ChannelConstants
<1>1. ASSUME NEW p \in Editors, EditorStep(p) PROVE ChannelInv'
  BY <1>1, FindPrimaryKeeps, PutNumberKeeps, PutVanishedKeeps, CreatePrimaryKeeps, ClearPrimariesKeeps,
     CountPhonesKeeps,
     InsertPhoneKeeps, MarkPrimaryKeeps, DeletePhoneKeeps, SyncFindKeeps, SyncFallbackKeeps, SyncPromoteKeeps,
     PromoteVanishedKeeps, SyncMirrorKeeps DEF EditorStep
<1>2. ASSUME NEW p \in Editors, EditorDies(p) PROVE ChannelInv'
  BY <1>2, EditorDiesKeeps
<1>3. ASSUME NEW p \in Editors, NEW n \in Numbers, UpdatePrimaryNumber(p, n) PROVE ChannelInv'
  BY <1>3, EditsKeep DEF UpdatePrimaryNumber
<1>4. ASSUME NEW p \in Editors, NEW n \in Numbers, NEW f \in BOOLEAN, AddContactPhone(p, n, f) PROVE ChannelInv'
  BY <1>4, EditsKeep DEF AddContactPhone
<1>5. ASSUME NEW p \in Editors, NEW r \in OnFile, SetPrimaryPhone(p, r) PROVE ChannelInv'
  BY <1>5, EditsKeep DEF SetPrimaryPhone, OnFile
<1>6. ASSUME NEW p \in Editors, NEW r \in OnFile, DeleteContactPhone(p, r) PROVE ChannelInv'
  BY <1>6, EditsKeep DEF DeleteContactPhone, OnFile
<1>7. CASE UNCHANGED phoneVars
  BY <1>7 DEF phoneVars, channelVars, editVars, soloVars, ChannelInv, ChannelTypeOK, StepsKnow,
     AloneRepairs, LoneHasOne, Mirrored, OnFile, Editing
<1> QED BY <1>1, <1>2, <1>3, <1>4, <1>5, <1>6, <1>7 DEF ChannelNext

LEMMA ChannelsSuffice == ChannelInv => ChannelTypeOK /\ OnePrimaryUnlessCrowded /\ SoloEditRepairs
<1>1. ASSUME ChannelInv PROVE ChannelTypeOK /\ SoloEditRepairs
  BY <1>1 DEF ChannelInv, AloneRepairs, SoloEditRepairs
<1>2. ASSUME ChannelInv PROVE OnePrimaryUnlessCrowded
  <2> SUFFICES ASSUME ~crowded PROVE Cardinality(primaries) <= 1
    BY DEF OnePrimaryUnlessCrowded
  <2>1. \A r, s \in primaries : r = s
    BY <1>2 DEF ChannelInv, LoneHasOne
  <2>2. CASE primaries = {}
    BY <2>2, FS_EmptySet
  <2>3. CASE primaries # {}
    <3>1. PICK r \in primaries : primaries = {r}
      BY <2>1, <2>3
    <3>2. Cardinality({r}) = 1
      BY FS_Singleton
    <3> QED BY <3>1, <3>2
  <2> QED BY <2>2, <2>3
<1> QED BY <1>1, <1>2

\* A contact has a second primary number only from a request that met another, and an edit
\* by itself repairs what overlapping ones left: for any number of editors, phones and
\* numbers.
THEOREM ChannelsHold == ChannelSpec => [](ChannelTypeOK /\ OnePrimaryUnlessCrowded /\ SoloEditRepairs)
BY ChannelStarts, ChannelSteps, ChannelsSuffice, PTL DEF ChannelSpec
-----------------------------------------------------------------------------
(* Reassignments *)

\* Owners, trails, notices and the history, as they are written.
HandoverTypes ==
  /\ holder \in [Records -> Owners \cup {Unowned}] /\ creator \in [Records -> Owners \cup {Unowned}]
  /\ held \in [Records -> SUBSET (Owners \cup {Unowned})]
  /\ trail \in [Records -> Seq(Pairs)] /\ notices \in [Records -> Seq(Pairs)] /\ moves \in [Records -> Seq(Pairs)]
  /\ granted \subseteq Records \X Owners /\ overwritten \subseteq ContactRecords /\ losses \in 0..MaxLosses

\* The local variables of the requests.
MoverTypes ==
  /\ at \in [Movers -> {"idle", "reassign", "claim", "lost", "log", "notify"}]
  /\ record \in [Movers -> Records \cup {NoRecord}]
  /\ before \in [Movers -> Owners \cup {Unowned}] /\ dest \in [Movers -> Owners \cup {Unowned}]

\* A request under way has its record and its wish, and what it moved was moved.
MoversKnow ==
  \A p \in Movers :
    /\ at[p] = "idle" <=> record[p] = NoRecord
    /\ at[p] = "log" => record[p] \in LeadRecords
    /\ at[p] # "idle" => dest[p] \in Owners /\ before[p] # dest[p]
    /\ at[p] \in {"log", "notify"} => dest[p] \in held[record[p]]

\* Whoever has a record is among those who ever had it.
HoldersAreHeld == \A r \in Records : holder[r] \in held[r] /\ (creator[r] # Unowned => r \in ContactRecords)

\* A contact with a trail has an owner: only somebody else can take it then.
ContactTrailsEndOwned == \A c \in ContactRecords : \A i \in 1..Len(trail[c]) : trail[c][i][2] \in Owners

\* The requests that have moved r as x says, and have still to record it, or to tell.
Logging(r, x) == {p \in Movers : record[p] = r /\ at[p] = "log" /\ <<before[p], dest[p]>> = x}
Telling(r, x) == {p \in Movers : record[p] = r /\ at[p] \in {"log", "notify"} /\ <<before[p], dest[p]>> = x}

\* Every row and every notice, written or to come, has a change of hands of its own.
RowsAreMoves ==
  \A r \in Records : \A x \in Pairs :
    /\ Times(x, trail[r]) + Cardinality(Logging(r, x)) <= Times(x, moves[r])
    /\ Times(x, notices[r]) + Cardinality(Telling(r, x)) <= Times(x, moves[r])

\* The inductive invariant of reassignments.
HandoverInv ==
  /\ HandoverTypes /\ MoverTypes /\ MoversKnow /\ HoldersAreHeld
  /\ GrantedWasHeld /\ ContactTrailsEndOwned /\ ContactTrailIsOneHistory
  /\ RowsAreMoves

\* Appending y to a sequence adds one occurrence, of y alone.
LEMMA TimesOfAppend ==
  ASSUME NEW s \in Seq(Pairs), NEW y \in Pairs, NEW x
  PROVE  /\ Times(x, s) \in Nat
         /\ Times(x, Append(s, y)) = IF x = y THEN Times(x, s) + 1 ELSE Times(x, s)
<1> DEFINE n == Len(s) + 1
           at0 == {i \in DOMAIN s : s[i] = x}
           at1 == {i \in DOMAIN Append(s, y) : Append(s, y)[i] = x}
<1>1. /\ Len(s) \in Nat /\ DOMAIN s = 1..Len(s) /\ DOMAIN Append(s, y) = 1..n
      /\ Append(s, y)[n] = y /\ \A i \in 1..Len(s) : Append(s, y)[i] = s[i]
  OBVIOUS
<1>2. IsFiniteSet(at0) /\ Cardinality(at0) \in Nat
  <2>1. IsFiniteSet(1..Len(s))
    BY <1>1, FS_Interval
  <2> QED BY <1>1, <2>1, FS_Subset, FS_CardinalityType
<1>3. at1 = IF x = y THEN at0 \cup {n} ELSE at0
  BY <1>1
<1>4. n \notin at0
  BY <1>1
<1>5. Cardinality(at0 \cup {n}) = Cardinality(at0) + 1
  <2> HIDE DEF at0, n
  <2> QED BY <1>2, <1>4, FS_AddElement
<1> QED BY <1>2, <1>3, <1>5 DEF Times

\* The requests are finitely many, so those that wait can be counted.
LEMMA WaitingIsFinite ==
  ASSUME NEW r, NEW x
  PROVE  /\ IsFiniteSet(Logging(r, x)) /\ Cardinality(Logging(r, x)) \in Nat
         /\ IsFiniteSet(Telling(r, x)) /\ Cardinality(Telling(r, x)) \in Nat
<1>1. Logging(r, x) \subseteq Movers /\ Telling(r, x) \subseteq Movers
  BY DEF Logging, Telling
<1> QED BY <1>1, HandoverConstants, FS_Subset, FS_CardinalityType

\* One request more that waits, and one fewer.
LEMMA JoiningCounts ==
  ASSUME NEW A, IsFiniteSet(A), NEW p, p \notin A
  PROVE  Cardinality(A \cup {p}) = Cardinality(A) + 1
BY FS_AddElement

LEMMA LeavingCounts ==
  ASSUME NEW A, IsFiniteSet(A), NEW p, p \in A
  PROVE  Cardinality(A \ {p}) = Cardinality(A) - 1
BY FS_RemoveElement

LEMMA HandoverStarts == HandoverInit => HandoverInv
<1> SUFFICES ASSUME HandoverInit PROVE HandoverInv
  OBVIOUS
<1> USE HandoverConstants DEF HandoverInit
<1>1. HandoverTypes /\ MoverTypes /\ MoversKnow /\ HoldersAreHeld
  BY DEF HandoverTypes, MoverTypes, MoversKnow, HoldersAreHeld
<1>2. GrantedWasHeld /\ ContactTrailsEndOwned /\ ContactTrailIsOneHistory
  BY DEF GrantedWasHeld, ContactTrailsEndOwned, ContactTrailIsOneHistory, Records
<1>3. RowsAreMoves
  <2> SUFFICES ASSUME NEW r \in Records, NEW x \in Pairs
               PROVE  /\ Times(x, trail[r]) + Cardinality(Logging(r, x)) <= Times(x, moves[r])
                      /\ Times(x, notices[r]) + Cardinality(Telling(r, x)) <= Times(x, moves[r])
    BY DEF RowsAreMoves
  <2>1. Logging(r, x) = {} /\ Telling(r, x) = {}
    BY DEF Logging, Telling
  <2>2. {i \in DOMAIN <<>> : <<>>[i] = x} = {}
    OBVIOUS
  <2>3. Times(x, <<>>) = 0
    BY <2>2, FS_EmptySet DEF Times
  <2> QED BY <2>1, <2>3, FS_EmptySet
<1> QED BY <1>1, <1>2, <1>3 DEF HandoverInv

\* Appending to the sequence of one record adds one occurrence there, of y alone.
LEMMA AppendCounts ==
  ASSUME NEW f \in [Records -> Seq(Pairs)], NEW w \in Records, NEW y \in Pairs
  PROVE  \A r \in Records, x \in Pairs :
           /\ Times(x, f[r]) \in Nat
           /\ Times(x, [f EXCEPT ![w] = Append(@, y)][r])
                = IF r = w /\ x = y THEN Times(x, f[r]) + 1 ELSE Times(x, f[r])
<1> SUFFICES ASSUME NEW r \in Records, NEW x \in Pairs
             PROVE  /\ Times(x, f[r]) \in Nat
                    /\ Times(x, [f EXCEPT ![w] = Append(@, y)][r])
                         = IF r = w /\ x = y THEN Times(x, f[r]) + 1 ELSE Times(x, f[r])
  OBVIOUS
<1>1. f[r] \in Seq(Pairs) /\ [f EXCEPT ![w] = Append(@, y)][r] = IF r = w THEN Append(f[r], y) ELSE f[r]
  OBVIOUS
<1> QED BY <1>1, TimesOfAppend

\* Fewer waiting requests, and more changes, leave the rows and notices as they were.
LEMMA CountsKeep ==
  ASSUME RowsAreMoves, HandoverTypes, UNCHANGED <<trail, notices>>,
         \A r \in Records, x \in Pairs :
           /\ Times(x, moves[r]) \in Nat /\ Times(x, moves'[r]) \in Nat /\ Times(x, moves[r]) <= Times(x, moves'[r])
           /\ Logging(r, x)' \subseteq Logging(r, x) /\ Telling(r, x)' \subseteq Telling(r, x)
  PROVE  RowsAreMoves'
<1> SUFFICES ASSUME NEW r \in Records, NEW x \in Pairs
             PROVE  /\ Times(x, trail[r]) + Cardinality(Logging(r, x)') <= Times(x, moves'[r])
                    /\ Times(x, notices[r]) + Cardinality(Telling(r, x)') <= Times(x, moves'[r])
  BY DEF RowsAreMoves
<1>1. /\ Cardinality(Logging(r, x)') <= Cardinality(Logging(r, x)) /\ Cardinality(Logging(r, x)') \in Nat
      /\ Cardinality(Telling(r, x)') <= Cardinality(Telling(r, x)) /\ Cardinality(Telling(r, x)') \in Nat
      /\ Cardinality(Logging(r, x)) \in Nat /\ Cardinality(Telling(r, x)) \in Nat
  BY WaitingIsFinite, FS_Subset, FS_CardinalityType
<1>2. Times(x, trail[r]) \in Nat /\ Times(x, notices[r]) \in Nat
  <2>1. trail[r] \in Seq(Pairs) /\ notices[r] \in Seq(Pairs)
    BY DEF HandoverTypes
  <2> QED BY <2>1, TimesOfAppend
<1>3. /\ Times(x, trail[r]) + Cardinality(Logging(r, x)) <= Times(x, moves[r])
      /\ Times(x, notices[r]) + Cardinality(Telling(r, x)) <= Times(x, moves[r])
  BY DEF RowsAreMoves
<1> HIDE DEF RowsAreMoves
<1> QED BY <1>1, <1>2, <1>3

\* A lead moves: one request more has to record it, and to tell.
LEMMA MoveLeadKeeps ==
  ASSUME HandoverInv, NEW p \in Movers, MoveLead(p)
  PROVE  HandoverInv'
<1> USE HandoverConstants DEF HandoverInv, MoveLead, StillTheirs, Changes, MoverGoto, recordVars, moverVars,
     pastVars
<1>1. HandoverTypes'
  BY DEF HandoverTypes, MoverTypes, MoversKnow, HoldersAreHeld, Records, Pairs
<1>2. MoverTypes' /\ MoversKnow' /\ HoldersAreHeld' /\ GrantedWasHeld'
  BY DEF HandoverTypes, MoverTypes, MoversKnow, HoldersAreHeld, Records, GrantedWasHeld
<1>3. ContactTrailsEndOwned' /\ ContactTrailIsOneHistory'
  BY DEF HandoverTypes, MoverTypes, MoversKnow, HoldersAreHeld, Records, Pairs, ContactTrailsEndOwned,
     ContactTrailIsOneHistory
<1>4. RowsAreMoves'
  <2> DEFINE w == record[p]
             y == <<before[p], dest[p]>>
  <2>1. /\ w \in Records /\ y \in Pairs /\ at[p] = "claim" /\ at' = [at EXCEPT ![p] = "log"]
        /\ moves' = [moves EXCEPT ![w] = Append(@, y)] /\ UNCHANGED <<trail, notices, record, before, dest>>
    BY DEF MoverTypes, MoversKnow, Pairs
  <2>2. \A r \in Records, x \in Pairs :
          /\ Logging(r, x)' = IF r = w /\ x = y THEN Logging(r, x) \cup {p} ELSE Logging(r, x)
          /\ Telling(r, x)' = IF r = w /\ x = y THEN Telling(r, x) \cup {p} ELSE Telling(r, x)
          /\ p \notin Logging(r, x) /\ p \notin Telling(r, x)
    BY <2>1 DEF Logging, Telling, MoverTypes
  <2>3. HandoverTypes /\ RowsAreMoves /\ p \in Movers
    OBVIOUS
  <2> HIDE DEF MoveLead, HandoverInv, w, y
  <2>4. ASSUME NEW r \in Records, NEW x \in Pairs
        PROVE  /\ Times(x, moves[r]) \in Nat /\ Times(x, trail[r]) \in Nat /\ Times(x, notices[r]) \in Nat
               /\ Times(x, moves'[r]) = IF r = w /\ x = y THEN Times(x, moves[r]) + 1 ELSE Times(x, moves[r])
               /\ Times(x, trail'[r]) = Times(x, trail[r])
               /\ Times(x, notices'[r]) = Times(x, notices[r])
    <3>1. moves \in [Records -> Seq(Pairs)] /\ trail \in [Records -> Seq(Pairs)] /\ notices \in [Records -> Seq(Pairs)]
      BY <2>3 DEF HandoverTypes
    <3>2. Times(x, moves[r]) \in Nat /\ Times(x, trail[r]) \in Nat /\ Times(x, notices[r]) \in Nat
      BY <3>1, TimesOfAppend
    <3>3. Times(x, moves'[r]) = IF r = w /\ x = y THEN Times(x, moves[r]) + 1 ELSE Times(x, moves[r])
      <4>1. moves[r] \in Seq(Pairs) /\ moves'[r] = IF r = w THEN Append(moves[r], y) ELSE moves[r]
        BY <2>1, <3>1
      <4> QED BY <2>1, <4>1, TimesOfAppend
    <3>4. Times(x, trail'[r]) = Times(x, trail[r])
      BY <2>1
    <3>5. Times(x, notices'[r]) = Times(x, notices[r])
      BY <2>1
    <3> QED BY <3>2, <3>3, <3>4, <3>5
  <2>5. ASSUME NEW r \in Records, NEW x \in Pairs
        PROVE  /\ Cardinality(Logging(r, x)) \in Nat /\ Cardinality(Telling(r, x)) \in Nat
               /\ Cardinality(Logging(r, x)') = IF r = w /\ x = y THEN Cardinality(Logging(r, x)) + 1 ELSE Cardinality(Logging(r, x))
               /\ Cardinality(Telling(r, x)') = IF r = w /\ x = y THEN Cardinality(Telling(r, x)) + 1 ELSE Cardinality(Telling(r, x))
    BY <2>2, WaitingIsFinite, JoiningCounts, LeavingCounts
  <2>6. ASSUME NEW r \in Records, NEW x \in Pairs
        PROVE  /\ Times(x, trail'[r]) + Cardinality(Logging(r, x)') <= Times(x, moves'[r])
               /\ Times(x, notices'[r]) + Cardinality(Telling(r, x)') <= Times(x, moves'[r])
    <3>1. /\ Times(x, trail[r]) + Cardinality(Logging(r, x)) <= Times(x, moves[r])
          /\ Times(x, notices[r]) + Cardinality(Telling(r, x)) <= Times(x, moves[r])
      BY <2>3 DEF RowsAreMoves
    <3> QED BY <2>4, <2>5, <3>1
  <2> QED BY <2>6 DEF RowsAreMoves
<1> QED BY <1>1, <1>2, <1>3, <1>4

\* A contact moves with its row: one request more has to tell.
LEMMA MoveContactKeeps ==
  ASSUME HandoverInv, NEW p \in Movers, MoveContact(p)
  PROVE  HandoverInv'
<1> USE HandoverConstants DEF HandoverInv, MoveContact, StillTheirs, Changes, MoverGoto, recordVars,
     moverVars, pastVars
<1>1. HandoverTypes'
  BY DEF HandoverTypes, MoverTypes, MoversKnow, HoldersAreHeld, Records, Pairs
<1>2. MoverTypes' /\ MoversKnow' /\ HoldersAreHeld' /\ GrantedWasHeld'
  BY DEF HandoverTypes, MoverTypes, MoversKnow, HoldersAreHeld, Records, GrantedWasHeld
<1>3. ContactTrailsEndOwned' /\ ContactTrailIsOneHistory'
  BY SMTT(30) DEF HandoverTypes, MoverTypes, MoversKnow, HoldersAreHeld, Records, Pairs, ContactTrailsEndOwned,
     ContactTrailIsOneHistory
<1>4. RowsAreMoves'
  <2> DEFINE w == record[p]
             y == <<before[p], dest[p]>>
  <2>1. /\ w \in Records /\ y \in Pairs /\ at[p] = "claim" /\ at' = [at EXCEPT ![p] = "notify"]
        /\ moves' = [moves EXCEPT ![w] = Append(@, y)] /\ trail' = [trail EXCEPT ![w] = Append(@, y)]
        /\ UNCHANGED <<notices, record, before, dest>>
    BY DEF MoverTypes, MoversKnow, Pairs
  <2>2. \A r \in Records, x \in Pairs :
          /\ Logging(r, x)' = Logging(r, x)
          /\ Telling(r, x)' = IF r = w /\ x = y THEN Telling(r, x) \cup {p} ELSE Telling(r, x)
          /\ p \notin Telling(r, x)
    BY <2>1 DEF Logging, Telling, MoverTypes
  <2>3. HandoverTypes /\ RowsAreMoves /\ p \in Movers
    OBVIOUS
  <2> HIDE DEF MoveContact, HandoverInv, w, y
  <2>4. ASSUME NEW r \in Records, NEW x \in Pairs
        PROVE  /\ Times(x, moves[r]) \in Nat /\ Times(x, trail[r]) \in Nat /\ Times(x, notices[r]) \in Nat
               /\ Times(x, moves'[r]) = IF r = w /\ x = y THEN Times(x, moves[r]) + 1 ELSE Times(x, moves[r])
               /\ Times(x, trail'[r]) = IF r = w /\ x = y THEN Times(x, trail[r]) + 1 ELSE Times(x, trail[r])
               /\ Times(x, notices'[r]) = Times(x, notices[r])
    <3>1. moves \in [Records -> Seq(Pairs)] /\ trail \in [Records -> Seq(Pairs)] /\ notices \in [Records -> Seq(Pairs)]
      BY <2>3 DEF HandoverTypes
    <3>2. Times(x, moves[r]) \in Nat /\ Times(x, trail[r]) \in Nat /\ Times(x, notices[r]) \in Nat
      BY <3>1, TimesOfAppend
    <3>3. Times(x, moves'[r]) = IF r = w /\ x = y THEN Times(x, moves[r]) + 1 ELSE Times(x, moves[r])
      <4>1. moves[r] \in Seq(Pairs) /\ moves'[r] = IF r = w THEN Append(moves[r], y) ELSE moves[r]
        BY <2>1, <3>1
      <4> QED BY <2>1, <4>1, TimesOfAppend
    <3>4. Times(x, trail'[r]) = IF r = w /\ x = y THEN Times(x, trail[r]) + 1 ELSE Times(x, trail[r])
      <4>1. trail[r] \in Seq(Pairs) /\ trail'[r] = IF r = w THEN Append(trail[r], y) ELSE trail[r]
        BY <2>1, <3>1
      <4> QED BY <2>1, <4>1, TimesOfAppend
    <3>5. Times(x, notices'[r]) = Times(x, notices[r])
      BY <2>1
    <3> QED BY <3>2, <3>3, <3>4, <3>5
  <2>5. ASSUME NEW r \in Records, NEW x \in Pairs
        PROVE  /\ Cardinality(Logging(r, x)) \in Nat /\ Cardinality(Telling(r, x)) \in Nat
               /\ Cardinality(Logging(r, x)') = Cardinality(Logging(r, x))
               /\ Cardinality(Telling(r, x)') = IF r = w /\ x = y THEN Cardinality(Telling(r, x)) + 1 ELSE Cardinality(Telling(r, x))
    BY <2>2, WaitingIsFinite, JoiningCounts, LeavingCounts
  <2>6. ASSUME NEW r \in Records, NEW x \in Pairs
        PROVE  /\ Times(x, trail'[r]) + Cardinality(Logging(r, x)') <= Times(x, moves'[r])
               /\ Times(x, notices'[r]) + Cardinality(Telling(r, x)') <= Times(x, moves'[r])
    <3>1. /\ Times(x, trail[r]) + Cardinality(Logging(r, x)) <= Times(x, moves[r])
          /\ Times(x, notices[r]) + Cardinality(Telling(r, x)) <= Times(x, moves[r])
      BY <2>3 DEF RowsAreMoves
    <3> QED BY <2>4, <2>5, <3>1
  <2> QED BY <2>6 DEF RowsAreMoves
<1> QED BY <1>1, <1>2, <1>3, <1>4

\* A request that lost, or dies, counts no more.
LEMMA LoseClaimKeeps ==
  ASSUME HandoverInv, NEW p \in Movers, LoseClaim(p)
  PROVE  HandoverInv'
<1> USE HandoverConstants DEF HandoverInv, LoseClaim, MoverGoto, recordVars, moverVars, pastVars
<1>1. HandoverTypes'
  BY DEF HandoverTypes, MoverTypes, MoversKnow, HoldersAreHeld, Records, Pairs
<1>2. MoverTypes' /\ MoversKnow' /\ HoldersAreHeld' /\ GrantedWasHeld'
  BY DEF HandoverTypes, MoverTypes, MoversKnow, HoldersAreHeld, Records, GrantedWasHeld
<1>3. ContactTrailsEndOwned' /\ ContactTrailIsOneHistory'
  BY DEF HandoverTypes, MoverTypes, MoversKnow, HoldersAreHeld, Records, Pairs, ContactTrailsEndOwned,
     ContactTrailIsOneHistory
<1>4. RowsAreMoves'
  <2>1. \A z \in Records, x \in Pairs : Logging(z, x)' \subseteq Logging(z, x) /\ Telling(z, x)' \subseteq Telling(z, x)
    BY DEF Logging, Telling, MoverTypes
  <2>2. \A z \in Records, x \in Pairs : Times(x, moves[z]) \in Nat
    BY TimesOfAppend DEF HandoverTypes
  <2> QED BY <2>1, <2>2, CountsKeep
<1> QED BY <1>1, <1>2, <1>3, <1>4

LEMMA AnswerLoserKeeps ==
  ASSUME HandoverInv, NEW p \in Movers, AnswerLoser(p)
  PROVE  HandoverInv'
<1> USE HandoverConstants DEF HandoverInv, AnswerLoser, MoverGoto, Leaves, recordVars, moverVars, pastVars
<1>1. HandoverTypes'
  BY DEF HandoverTypes, MoverTypes, MoversKnow, HoldersAreHeld, Records, Pairs
<1>2. MoverTypes' /\ MoversKnow' /\ HoldersAreHeld' /\ GrantedWasHeld'
  BY DEF HandoverTypes, MoverTypes, MoversKnow, HoldersAreHeld, Records, GrantedWasHeld
<1>3. ContactTrailsEndOwned' /\ ContactTrailIsOneHistory'
  BY DEF HandoverTypes, MoverTypes, MoversKnow, HoldersAreHeld, Records, Pairs, ContactTrailsEndOwned,
     ContactTrailIsOneHistory
<1>4. RowsAreMoves'
  <2>1. \A z \in Records, x \in Pairs : Logging(z, x)' \subseteq Logging(z, x) /\ Telling(z, x)' \subseteq Telling(z, x)
    BY DEF Logging, Telling, MoverTypes
  <2>2. \A z \in Records, x \in Pairs : Times(x, moves[z]) \in Nat
    BY TimesOfAppend DEF HandoverTypes
  <2> QED BY <2>1, <2>2, CountsKeep
<1> QED BY <1>1, <1>2, <1>3, <1>4

\* The row of a lead takes the place of the request that had to write it.
LEMMA LogLeadKeeps ==
  ASSUME HandoverInv, NEW p \in Movers, LogLead(p)
  PROVE  HandoverInv'
<1> USE HandoverConstants DEF HandoverInv, LogLead, MoverGoto, recordVars, moverVars, pastVars
<1>1. HandoverTypes'
  BY DEF HandoverTypes, MoverTypes, MoversKnow, HoldersAreHeld, Records, Pairs
<1>2. MoverTypes' /\ MoversKnow' /\ HoldersAreHeld' /\ GrantedWasHeld'
  BY DEF HandoverTypes, MoverTypes, MoversKnow, HoldersAreHeld, Records, GrantedWasHeld
<1>3. ContactTrailsEndOwned' /\ ContactTrailIsOneHistory'
  BY DEF HandoverTypes, MoverTypes, MoversKnow, HoldersAreHeld, Records, Pairs, ContactTrailsEndOwned,
     ContactTrailIsOneHistory
<1>4. RowsAreMoves'
  <2> DEFINE w == record[p]
             y == <<before[p], dest[p]>>
  <2>1. /\ w \in Records /\ y \in Pairs /\ at[p] = "log" /\ at' = [at EXCEPT ![p] = "notify"]
        /\ trail' = [trail EXCEPT ![w] = Append(@, y)] /\ UNCHANGED <<moves, notices, record, before, dest>>
    BY DEF MoverTypes, MoversKnow, Pairs
  <2>2. \A r \in Records, x \in Pairs :
          /\ Logging(r, x)' = IF r = w /\ x = y THEN Logging(r, x) \ {p} ELSE Logging(r, x)
          /\ Telling(r, x)' = Telling(r, x)
          /\ p \in Logging(w, y)
    BY <2>1 DEF Logging, Telling, MoverTypes
  <2>3. HandoverTypes /\ RowsAreMoves /\ p \in Movers
    OBVIOUS
  <2> HIDE DEF LogLead, HandoverInv, w, y
  <2>4. ASSUME NEW r \in Records, NEW x \in Pairs
        PROVE  /\ Times(x, moves[r]) \in Nat /\ Times(x, trail[r]) \in Nat /\ Times(x, notices[r]) \in Nat
               /\ Times(x, moves'[r]) = Times(x, moves[r])
               /\ Times(x, trail'[r]) = IF r = w /\ x = y THEN Times(x, trail[r]) + 1 ELSE Times(x, trail[r])
               /\ Times(x, notices'[r]) = Times(x, notices[r])
    <3>1. moves \in [Records -> Seq(Pairs)] /\ trail \in [Records -> Seq(Pairs)] /\ notices \in [Records -> Seq(Pairs)]
      BY <2>3 DEF HandoverTypes
    <3>2. Times(x, moves[r]) \in Nat /\ Times(x, trail[r]) \in Nat /\ Times(x, notices[r]) \in Nat
      BY <3>1, TimesOfAppend
    <3>3. Times(x, moves'[r]) = Times(x, moves[r])
      BY <2>1
    <3>4. Times(x, trail'[r]) = IF r = w /\ x = y THEN Times(x, trail[r]) + 1 ELSE Times(x, trail[r])
      <4>1. trail[r] \in Seq(Pairs) /\ trail'[r] = IF r = w THEN Append(trail[r], y) ELSE trail[r]
        BY <2>1, <3>1
      <4> QED BY <2>1, <4>1, TimesOfAppend
    <3>5. Times(x, notices'[r]) = Times(x, notices[r])
      BY <2>1
    <3> QED BY <3>2, <3>3, <3>4, <3>5
  <2>5. ASSUME NEW r \in Records, NEW x \in Pairs
        PROVE  /\ Cardinality(Logging(r, x)) \in Nat /\ Cardinality(Telling(r, x)) \in Nat
               /\ Cardinality(Logging(r, x)') = IF r = w /\ x = y THEN Cardinality(Logging(r, x)) - 1 ELSE Cardinality(Logging(r, x))
               /\ Cardinality(Telling(r, x)') = Cardinality(Telling(r, x))
    BY <2>2, WaitingIsFinite, JoiningCounts, LeavingCounts
  <2>6. ASSUME NEW r \in Records, NEW x \in Pairs
        PROVE  /\ Times(x, trail'[r]) + Cardinality(Logging(r, x)') <= Times(x, moves'[r])
               /\ Times(x, notices'[r]) + Cardinality(Telling(r, x)') <= Times(x, moves'[r])
    <3>1. /\ Times(x, trail[r]) + Cardinality(Logging(r, x)) <= Times(x, moves[r])
          /\ Times(x, notices[r]) + Cardinality(Telling(r, x)) <= Times(x, moves[r])
      BY <2>3 DEF RowsAreMoves
    <3> QED BY <2>4, <2>5, <3>1
  <2> QED BY <2>6 DEF RowsAreMoves
<1> QED BY <1>1, <1>2, <1>3, <1>4

\* So does the notice.
LEMMA NotifyHolderKeeps ==
  ASSUME HandoverInv, NEW p \in Movers, NotifyHolder(p)
  PROVE  HandoverInv'
<1> USE HandoverConstants DEF HandoverInv, NotifyHolder, MoverGoto, Leaves, recordVars, moverVars, pastVars
<1>1. HandoverTypes'
  BY DEF HandoverTypes, MoverTypes, MoversKnow, HoldersAreHeld, Records, Pairs
<1>2. MoverTypes' /\ MoversKnow' /\ HoldersAreHeld' /\ GrantedWasHeld'
  BY DEF HandoverTypes, MoverTypes, MoversKnow, HoldersAreHeld, Records, GrantedWasHeld
<1>3. ContactTrailsEndOwned' /\ ContactTrailIsOneHistory'
  BY DEF HandoverTypes, MoverTypes, MoversKnow, HoldersAreHeld, Records, Pairs, ContactTrailsEndOwned,
     ContactTrailIsOneHistory
<1>4. RowsAreMoves'
  <2> DEFINE w == record[p]
             y == <<before[p], dest[p]>>
  <2>1. /\ w \in Records /\ y \in Pairs /\ at[p] = "notify" /\ at' = [at EXCEPT ![p] = "idle"]
        /\ notices' = [notices EXCEPT ![w] = Append(@, y)] /\ UNCHANGED <<moves, trail>>
        /\ \A q \in Movers \ {p} : record'[q] = record[q] /\ before'[q] = before[q] /\ dest'[q] = dest[q]
    BY DEF MoverTypes, MoversKnow, Pairs
  <2>2. \A r \in Records, x \in Pairs :
          /\ Logging(r, x)' = Logging(r, x)
          /\ Telling(r, x)' = IF r = w /\ x = y THEN Telling(r, x) \ {p} ELSE Telling(r, x)
          /\ p \in Telling(w, y)
    BY <2>1 DEF Logging, Telling, MoverTypes
  <2>3. HandoverTypes /\ RowsAreMoves /\ p \in Movers
    OBVIOUS
  <2> HIDE DEF NotifyHolder, HandoverInv, w, y
  <2>4. ASSUME NEW r \in Records, NEW x \in Pairs
        PROVE  /\ Times(x, moves[r]) \in Nat /\ Times(x, trail[r]) \in Nat /\ Times(x, notices[r]) \in Nat
               /\ Times(x, moves'[r]) = Times(x, moves[r])
               /\ Times(x, trail'[r]) = Times(x, trail[r])
               /\ Times(x, notices'[r]) = IF r = w /\ x = y THEN Times(x, notices[r]) + 1 ELSE Times(x, notices[r])
    <3>1. moves \in [Records -> Seq(Pairs)] /\ trail \in [Records -> Seq(Pairs)] /\ notices \in [Records -> Seq(Pairs)]
      BY <2>3 DEF HandoverTypes
    <3>2. Times(x, moves[r]) \in Nat /\ Times(x, trail[r]) \in Nat /\ Times(x, notices[r]) \in Nat
      BY <3>1, TimesOfAppend
    <3>3. Times(x, moves'[r]) = Times(x, moves[r])
      BY <2>1
    <3>4. Times(x, trail'[r]) = Times(x, trail[r])
      BY <2>1
    <3>5. Times(x, notices'[r]) = IF r = w /\ x = y THEN Times(x, notices[r]) + 1 ELSE Times(x, notices[r])
      <4>1. notices[r] \in Seq(Pairs) /\ notices'[r] = IF r = w THEN Append(notices[r], y) ELSE notices[r]
        BY <2>1, <3>1
      <4> QED BY <2>1, <4>1, TimesOfAppend
    <3> QED BY <3>2, <3>3, <3>4, <3>5
  <2>5. ASSUME NEW r \in Records, NEW x \in Pairs
        PROVE  /\ Cardinality(Logging(r, x)) \in Nat /\ Cardinality(Telling(r, x)) \in Nat
               /\ Cardinality(Logging(r, x)') = Cardinality(Logging(r, x))
               /\ Cardinality(Telling(r, x)') = IF r = w /\ x = y THEN Cardinality(Telling(r, x)) - 1 ELSE Cardinality(Telling(r, x))
    BY <2>2, WaitingIsFinite, JoiningCounts, LeavingCounts
  <2>6. ASSUME NEW r \in Records, NEW x \in Pairs
        PROVE  /\ Times(x, trail'[r]) + Cardinality(Logging(r, x)') <= Times(x, moves'[r])
               /\ Times(x, notices'[r]) + Cardinality(Telling(r, x)') <= Times(x, moves'[r])
    <3>1. /\ Times(x, trail[r]) + Cardinality(Logging(r, x)) <= Times(x, moves[r])
          /\ Times(x, notices[r]) + Cardinality(Telling(r, x)) <= Times(x, moves[r])
      BY <2>3 DEF RowsAreMoves
    <3> QED BY <2>4, <2>5, <3>1
  <2> QED BY <2>6 DEF RowsAreMoves
<1> QED BY <1>1, <1>2, <1>3, <1>4

\* What a request that dies had still to write is never written.
LEMMA MoverDiesKeeps ==
  ASSUME HandoverInv, NEW p \in Movers, MoverDies(p)
  PROVE  HandoverInv'
<1> USE HandoverConstants DEF HandoverInv, MoverDies, MoverGoto, Leaves, recordVars, moverVars, pastVars
<1>1. HandoverTypes'
  BY DEF HandoverTypes, MoverTypes, MoversKnow, HoldersAreHeld, Records, Pairs
<1>2. MoverTypes' /\ MoversKnow' /\ HoldersAreHeld' /\ GrantedWasHeld'
  BY DEF HandoverTypes, MoverTypes, MoversKnow, HoldersAreHeld, Records, GrantedWasHeld
<1>3. ContactTrailsEndOwned' /\ ContactTrailIsOneHistory'
  BY DEF HandoverTypes, MoverTypes, MoversKnow, HoldersAreHeld, Records, Pairs, ContactTrailsEndOwned,
     ContactTrailIsOneHistory
<1>4. RowsAreMoves'
  <2>1. \A z \in Records, x \in Pairs : Logging(z, x)' \subseteq Logging(z, x) /\ Telling(z, x)' \subseteq Telling(z, x)
    BY DEF Logging, Telling, MoverTypes
  <2>2. \A z \in Records, x \in Pairs : Times(x, moves[z]) \in Nat
    BY TimesOfAppend DEF HandoverTypes
  <2> QED BY <2>1, <2>2, CountsKeep
<1> QED BY <1>1, <1>2, <1>3, <1>4

\* A recheck has read whom the contact is to go to, not yet who has it.
LEMMA RecheckOwnershipKeeps ==
  ASSUME HandoverInv, NEW p \in Movers, NEW c \in Records, NEW m \in Records, RecheckOwnership(p, c, m)
  PROVE  HandoverInv'
<1> USE HandoverConstants DEF HandoverInv, RecheckOwnership, MoverGoto, recordVars, pastVars
<1>1. HandoverTypes'
  BY DEF HandoverTypes
<1>2. MoverTypes'
  <2>1. holder[m] \in Owners /\ c \in Records
    BY DEF HandoverTypes
  <2> QED BY <2>1 DEF MoverTypes
<1>3. MoversKnow' /\ HoldersAreHeld' /\ GrantedWasHeld'
  <2>1. holder[m] \in Owners /\ at[p] = "idle" /\ record[p] = NoRecord
    BY DEF HandoverTypes, MoversKnow
  <2> QED BY <2>1 DEF HandoverTypes, MoverTypes, MoversKnow, HoldersAreHeld, GrantedWasHeld
<1>4. ContactTrailsEndOwned' /\ ContactTrailIsOneHistory'
  BY DEF ContactTrailsEndOwned, ContactTrailIsOneHistory
<1>5. RowsAreMoves'
  <2>1. \A z \in Records, x \in Pairs : Logging(z, x)' \subseteq Logging(z, x) /\ Telling(z, x)' \subseteq Telling(z, x)
    BY DEF Logging, Telling, MoverTypes
  <2>2. \A z \in Records, x \in Pairs : Times(x, moves[z]) \in Nat
    BY TimesOfAppend DEF HandoverTypes
  <2> QED BY <2>1, <2>2, CountsKeep
<1> QED BY <1>1, <1>2, <1>3, <1>4, <1>5

LEMMA ReadRecheckedKeeps ==
  ASSUME HandoverInv, NEW p \in Movers, ReadRechecked(p)
  PROVE  HandoverInv'
<1> USE HandoverConstants DEF HandoverInv, ReadRechecked, MoverGoto, Leaves, recordVars, pastVars
<1>0. record[p] \in Records /\ dest[p] \in Owners /\ holder[record[p]] \in Owners \cup {Unowned}
  BY DEF HandoverTypes, MoverTypes, MoversKnow
<1>1. HandoverTypes'
  BY <1>0 DEF HandoverTypes, MoverTypes
<1>2. MoverTypes' /\ MoversKnow'
  <2>1. CASE holder[record[p]] = dest[p]
    <3>1. /\ at' = [at EXCEPT ![p] = "idle"] /\ before' = [before EXCEPT ![p] = Unowned]
          /\ record' = [record EXCEPT ![p] = NoRecord] /\ dest' = [dest EXCEPT ![p] = Unowned]
          /\ UNCHANGED held
      BY <2>1
    <3>2. MoverTypes /\ MoversKnow
      OBVIOUS
    <3> HIDE DEF ReadRechecked, HandoverInv, Leaves
    <3>3. MoverTypes'
      BY <3>1, <3>2 DEF MoverTypes
    <3> QED BY <3>1, <3>2, <3>3 DEF MoversKnow, MoverTypes
  <2>2. CASE holder[record[p]] # dest[p]
    <3>1. /\ at' = [at EXCEPT ![p] = "claim"] /\ before' = [before EXCEPT ![p] = holder[record[p]]]
          /\ UNCHANGED <<granted, record, dest, held>>
      BY <2>2
    <3>2. MoverTypes /\ MoversKnow /\ at[p] = "reassign"
      OBVIOUS
    <3> HIDE DEF ReadRechecked, HandoverInv
    <3>3. MoverTypes'
      BY <1>0, <3>1, <3>2 DEF MoverTypes
    <3> QED BY <1>0, <2>2, <3>1, <3>2, <3>3 DEF MoversKnow, MoverTypes
  <2> QED BY <2>1, <2>2
<1>3. HoldersAreHeld' /\ GrantedWasHeld'
  BY <1>0 DEF HandoverTypes, HoldersAreHeld, GrantedWasHeld
<1>4. ContactTrailsEndOwned' /\ ContactTrailIsOneHistory'
  BY DEF ContactTrailsEndOwned, ContactTrailIsOneHistory
<1>5. RowsAreMoves'
  <2>1. \A z \in Records, x \in Pairs : Logging(z, x)' \subseteq Logging(z, x) /\ Telling(z, x)' \subseteq Telling(z, x)
    BY <1>0 DEF Logging, Telling, MoverTypes
  <2>2. \A z \in Records, x \in Pairs : Times(x, moves[z]) \in Nat
    BY TimesOfAppend DEF HandoverTypes
  <2> QED BY <2>1, <2>2, CountsKeep
<1> QED BY <1>1, <1>2, <1>3, <1>4, <1>5

\* A request begins with the owner it reads.
LEMMA ReadHolderKeeps ==
  ASSUME HandoverInv, NEW p \in Movers, NEW r \in Records, NEW to \in Owners, ReadHolder(p, r, to)
  PROVE  HandoverInv'
<1> USE HandoverConstants DEF HandoverInv, ReadHolder, MoverGoto, recordVars, moverVars, pastVars
<1>1. HandoverTypes'
  BY DEF HandoverTypes, MoverTypes, MoversKnow, HoldersAreHeld, Records, Pairs
<1>2. MoverTypes'
  <2>1. CASE holder[r] = to
    BY <2>1 DEF MoverTypes
  <2>2. CASE holder[r] # to
    <3>1. at' \in [Movers -> {"idle", "reassign", "claim", "lost", "log", "notify"}]
      BY <2>2 DEF MoverTypes
    <3>2. record' \in [Movers -> Records \cup {NoRecord}]
      BY <2>2 DEF MoverTypes
    <3>3. before' \in [Movers -> Owners \cup {Unowned}]
      <4>1. holder[r] \in Owners \cup {Unowned} /\ before \in [Movers -> Owners \cup {Unowned}]
        BY DEF MoverTypes, HandoverTypes
      <4>2. before' = [before EXCEPT ![p] = holder[r]]
        BY <2>2
      <4> QED BY <4>1, <4>2
    <3>4. dest' \in [Movers -> Owners \cup {Unowned}]
      BY <2>2 DEF MoverTypes
    <3> QED BY <3>1, <3>2, <3>3, <3>4 DEF MoverTypes
  <2> QED BY <2>1, <2>2
<1>3. MoversKnow'
  BY DEF HandoverTypes, MoverTypes, MoversKnow, HoldersAreHeld, Records
<1>4. HoldersAreHeld' /\ GrantedWasHeld'
  BY DEF HandoverTypes, MoverTypes, MoversKnow, HoldersAreHeld, Records, GrantedWasHeld
<1>5. ContactTrailsEndOwned' /\ ContactTrailIsOneHistory'
  BY DEF HandoverTypes, MoverTypes, MoversKnow, HoldersAreHeld, Records, Pairs, ContactTrailsEndOwned,
     ContactTrailIsOneHistory
<1>6. RowsAreMoves'
  <2>1. \A z \in Records, x \in Pairs : Logging(z, x)' \subseteq Logging(z, x) /\ Telling(z, x)' \subseteq Telling(z, x)
    BY DEF Logging, Telling, MoverTypes
  <2>2. \A z \in Records, x \in Pairs : Times(x, moves[z]) \in Nat
    BY TimesOfAppend DEF HandoverTypes
  <2> QED BY <2>1, <2>2, CountsKeep
<1> QED BY <1>1, <1>2, <1>3, <1>4, <1>5, <1>6

\* The other writers change hands without a row.
LEMMA AcceptUnownedKeeps ==
  ASSUME HandoverInv, NEW r \in Records, NEW a \in Owners, AcceptUnowned(r, a)
  PROVE  HandoverInv'
<1> USE HandoverConstants DEF HandoverInv, AcceptUnowned, Changes, recordVars, moverVars, pastVars
<1>1. HandoverTypes'
  BY DEF HandoverTypes, MoverTypes, MoversKnow, HoldersAreHeld, Records, Pairs
<1>2. MoverTypes' /\ MoversKnow' /\ HoldersAreHeld' /\ GrantedWasHeld'
  BY DEF HandoverTypes, MoverTypes, MoversKnow, HoldersAreHeld, Records, GrantedWasHeld
<1>3. ContactTrailsEndOwned' /\ ContactTrailIsOneHistory'
  <2>1. ContactTrailsEndOwned'
    BY DEF ContactTrailsEndOwned
  <2>2. ASSUME NEW c \in ContactRecords \ overwritten
        PROVE  /\ \A i \in 1..(Len(trail'[c]) - 1) : trail'[c][i][2] = trail'[c][i + 1][1]
               /\ trail'[c] # <<>> => trail'[c][Len(trail'[c])][2] = holder'[c]
    <3>1. trail'[c] = trail[c] /\ c \in Records /\ trail[c] \in Seq(Pairs)
      BY DEF Records, HandoverTypes
    <3>2. /\ \A i \in 1..(Len(trail[c]) - 1) : trail[c][i][2] = trail[c][i + 1][1]
          /\ trail[c] # <<>> => trail[c][Len(trail[c])][2] = holder[c]
      BY DEF ContactTrailIsOneHistory
    <3>3. trail[c] # <<>> => holder[c] # Unowned
      <4>1. trail[c] # <<>> => Len(trail[c]) \in 1..Len(trail[c])
        BY <3>1
      <4> QED BY <3>2, <4>1 DEF ContactTrailsEndOwned
    <3>4. trail[c] # <<>> => holder'[c] = holder[c]
      BY <3>1, <3>3 DEF HandoverTypes
    <3> QED BY <3>1, <3>2, <3>4
  <2>3. overwritten' = overwritten
    OBVIOUS
  <2> QED BY <2>1, <2>2, <2>3 DEF ContactTrailIsOneHistory
<1>4. RowsAreMoves'
  <2> DEFINE y == <<Unowned, a>>
  <2>1. /\ y \in Pairs /\ moves' = [moves EXCEPT ![r] = Append(@, y)]
        /\ UNCHANGED <<trail, notices, at, record, before, dest>>
    BY DEF HandoverTypes, Pairs
  <2>2. HandoverTypes /\ RowsAreMoves /\ r \in Records
    OBVIOUS
  <2> HIDE DEF AcceptUnowned, HandoverInv, y
  <2>3. ASSUME NEW z \in Records, NEW x \in Pairs
        PROVE  Times(x, moves[z]) \in Nat /\ Times(x, moves'[z]) \in Nat /\ Times(x, moves[z]) <= Times(x, moves'[z])
    <3>1. moves \in [Records -> Seq(Pairs)]
      BY <2>2 DEF HandoverTypes
    <3>2. /\ Times(x, moves[z]) \in Nat
          /\ Times(x, moves'[z]) = IF z = r /\ x = y THEN Times(x, moves[z]) + 1 ELSE Times(x, moves[z])
      BY <2>1, <2>2, <3>1, AppendCounts
    <3> QED BY <3>2
  <2>4. \A z \in Records, x \in Pairs : Logging(z, x)' \subseteq Logging(z, x) /\ Telling(z, x)' \subseteq Telling(z, x)
    BY <2>1 DEF Logging, Telling
  <2> QED BY <2>1, <2>2, <2>3, <2>4, CountsKeep
<1> QED BY <1>1, <1>2, <1>3, <1>4

LEMMA UnassignHeldKeeps ==
  ASSUME HandoverInv, NEW r \in Records, UnassignHeld(r)
  PROVE  HandoverInv'
<1> USE HandoverConstants DEF HandoverInv, UnassignHeld, Changes, recordVars, moverVars, pastVars
<1>1. HandoverTypes'
  BY DEF HandoverTypes, MoverTypes, MoversKnow, HoldersAreHeld, Records, Pairs
<1>2. MoverTypes' /\ MoversKnow' /\ HoldersAreHeld' /\ GrantedWasHeld'
  BY DEF HandoverTypes, MoverTypes, MoversKnow, HoldersAreHeld, Records, GrantedWasHeld
<1>3. ContactTrailsEndOwned' /\ ContactTrailIsOneHistory'
  BY DEF HandoverTypes, MoverTypes, MoversKnow, HoldersAreHeld, Records, Pairs, ContactTrailsEndOwned,
     ContactTrailIsOneHistory
<1>4. RowsAreMoves'
  <2> DEFINE y == <<holder[r], Unowned>>
  <2>1. /\ y \in Pairs /\ moves' = [moves EXCEPT ![r] = Append(@, y)]
        /\ UNCHANGED <<trail, notices, at, record, before, dest>>
    BY DEF HandoverTypes, Pairs
  <2>2. HandoverTypes /\ RowsAreMoves /\ r \in Records
    OBVIOUS
  <2> HIDE DEF UnassignHeld, HandoverInv, y
  <2>3. ASSUME NEW z \in Records, NEW x \in Pairs
        PROVE  Times(x, moves[z]) \in Nat /\ Times(x, moves'[z]) \in Nat /\ Times(x, moves[z]) <= Times(x, moves'[z])
    <3>1. moves \in [Records -> Seq(Pairs)]
      BY <2>2 DEF HandoverTypes
    <3>2. /\ Times(x, moves[z]) \in Nat
          /\ Times(x, moves'[z]) = IF z = r /\ x = y THEN Times(x, moves[z]) + 1 ELSE Times(x, moves[z])
      BY <2>1, <2>2, <3>1, AppendCounts
    <3> QED BY <3>2
  <2>4. \A z \in Records, x \in Pairs : Logging(z, x)' \subseteq Logging(z, x) /\ Telling(z, x)' \subseteq Telling(z, x)
    BY <2>1 DEF Logging, Telling
  <2> QED BY <2>1, <2>2, <2>3, <2>4, CountsKeep
<1> QED BY <1>1, <1>2, <1>3, <1>4

LEMMA CreatorTakesKeeps ==
  ASSUME HandoverInv, NEW r \in Records, CreatorTakes(r)
  PROVE  HandoverInv'
<1> USE HandoverConstants DEF HandoverInv, CreatorTakes, recordVars, moverVars, pastVars
<1>1. HandoverTypes'
  BY DEF HandoverTypes, MoverTypes, MoversKnow, HoldersAreHeld, Records, Pairs
<1>2. MoverTypes' /\ MoversKnow' /\ HoldersAreHeld' /\ GrantedWasHeld'
  BY DEF HandoverTypes, MoverTypes, MoversKnow, HoldersAreHeld, Records, GrantedWasHeld
<1>3. ContactTrailsEndOwned' /\ ContactTrailIsOneHistory'
  BY DEF HandoverTypes, MoverTypes, MoversKnow, HoldersAreHeld, Records, Pairs, ContactTrailsEndOwned,
     ContactTrailIsOneHistory
<1>4. RowsAreMoves'
  <2> DEFINE y == <<holder[r], creator[r]>>
  <2>1. /\ y \in Pairs /\ moves' = [moves EXCEPT ![r] = Append(@, y)]
        /\ UNCHANGED <<trail, notices, at, record, before, dest>>
    BY DEF HandoverTypes, Pairs
  <2>2. HandoverTypes /\ RowsAreMoves /\ r \in Records
    OBVIOUS
  <2> HIDE DEF CreatorTakes, HandoverInv, y
  <2>3. ASSUME NEW z \in Records, NEW x \in Pairs
        PROVE  Times(x, moves[z]) \in Nat /\ Times(x, moves'[z]) \in Nat /\ Times(x, moves[z]) <= Times(x, moves'[z])
    <3>1. moves \in [Records -> Seq(Pairs)]
      BY <2>2 DEF HandoverTypes
    <3>2. /\ Times(x, moves[z]) \in Nat
          /\ Times(x, moves'[z]) = IF z = r /\ x = y THEN Times(x, moves[z]) + 1 ELSE Times(x, moves[z])
      BY <2>1, <2>2, <3>1, AppendCounts
    <3> QED BY <3>2
  <2>4. \A z \in Records, x \in Pairs : Logging(z, x)' \subseteq Logging(z, x) /\ Telling(z, x)' \subseteq Telling(z, x)
    BY <2>1 DEF Logging, Telling
  <2> QED BY <2>1, <2>2, <2>3, <2>4, CountsKeep
<1> QED BY <1>1, <1>2, <1>3, <1>4

\* Every step of HandoverNext keeps the invariant: one case per action.
LEMMA HandoverSteps == HandoverInv /\ [HandoverNext]_handoverVars => HandoverInv'
<1> SUFFICES ASSUME HandoverInv, [HandoverNext]_handoverVars PROVE HandoverInv'
  OBVIOUS
<1>1. ASSUME NEW p \in Movers, MoverStep(p) \/ MoverDies(p) PROVE HandoverInv'
  BY <1>1, ReadRecheckedKeeps, MoveLeadKeeps, MoveContactKeeps, LoseClaimKeeps, AnswerLoserKeeps, LogLeadKeeps, NotifyHolderKeeps,
     MoverDiesKeeps DEF MoverStep
<1>2. ASSUME NEW p \in Movers, NEW r \in Records, NEW to \in Owners, ReassignLead(p, r, to) \/ ReassignContact(p, r, to)
      PROVE  HandoverInv'
  BY <1>2, ReadHolderKeeps DEF ReassignLead, ReassignContact
<1>3. ASSUME NEW p \in Movers, NEW r \in Records, NEW m \in Records, RecheckOwnership(p, r, m)
      PROVE  HandoverInv'
  BY <1>3, RecheckOwnershipKeeps
<1>4. ASSUME NEW r \in Records, UnassignHeld(r) \/ CreatorTakes(r) \/ \E a \in Owners : AcceptUnowned(r, a)
      PROVE  HandoverInv'
  BY <1>4, UnassignHeldKeeps, CreatorTakesKeeps, AcceptUnownedKeeps
<1>5. CASE UNCHANGED handoverVars
  BY ZenonT(40), <1>5 DEF handoverVars, recordVars, moverVars, pastVars, HandoverInv, HandoverTypes, MoverTypes, MoversKnow,
     HoldersAreHeld, GrantedWasHeld, ContactTrailsEndOwned, ContactTrailIsOneHistory, RowsAreMoves, Logging, Telling
<1> QED BY <1>1, <1>2, <1>3, <1>4, <1>5 DEF HandoverNext

LEMMA MovesSuffice == HandoverInv => HandoverTypeOK /\ ContactTrailIsOneHistory /\ OnlyWinnersNotify /\ GrantedWasHeld
<1> SUFFICES ASSUME HandoverInv
             PROVE  HandoverTypeOK /\ ContactTrailIsOneHistory /\ OnlyWinnersNotify /\ GrantedWasHeld
  OBVIOUS
<1>1. HandoverTypeOK
  BY DEF HandoverInv, HandoverTypeOK, HandoverTypes, MoverTypes, MoversKnow, HoldersAreHeld
<1>2. OnlyWinnersNotify
  <2> SUFFICES ASSUME NEW r \in Records, NEW x \in Pairs
               PROVE  Times(x, notices[r]) <= Times(x, moves[r]) /\ Times(x, trail[r]) <= Times(x, moves[r])
    BY DEF OnlyWinnersNotify
  <2>1. moves[r] \in Seq(Pairs) /\ trail[r] \in Seq(Pairs) /\ notices[r] \in Seq(Pairs)
    BY DEF HandoverInv, HandoverTypes
  <2>2. Times(x, moves[r]) \in Nat /\ Times(x, trail[r]) \in Nat /\ Times(x, notices[r]) \in Nat
    BY <2>1, TimesOfAppend
  <2>3. /\ Times(x, trail[r]) + Cardinality(Logging(r, x)) <= Times(x, moves[r])
        /\ Times(x, notices[r]) + Cardinality(Telling(r, x)) <= Times(x, moves[r])
    BY DEF HandoverInv, RowsAreMoves
  <2> QED BY <2>2, <2>3, WaitingIsFinite
<1> QED BY <1>1, <1>2 DEF HandoverInv

\* The trail of a contact reads as one history, nobody is told of a hand-over that did not
\* happen nor twice of one, and a request that was granted had its wish, whoever else races
\* it, dies or repeats (contact-reassignment.ts 74-124, leads.ts 704-738): for any records,
\* owners and requests.
THEOREM HandoverHolds ==
  HandoverSpec => [](HandoverTypeOK /\ ContactTrailIsOneHistory /\ OnlyWinnersNotify /\ GrantedWasHeld)
<1> QED BY HandoverStarts, HandoverSteps, MovesSuffice, PTL DEF HandoverSpec
=============================================================================
