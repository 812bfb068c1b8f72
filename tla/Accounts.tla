------------------------------ MODULE Accounts ------------------------------
(***************************************************************************)
(* Accounts, teams and grants (server/actions/accounts.ts).  p is one      *)
(* request of an administrator.  Role, status and team changes are         *)
(* Serializable transactions: one reads, and commits unless another has    *)
(* committed since, in which case it is tried again.  Grants are plain     *)
(* statements.  One grant, payments.reveal, stands for all of them.        *)
(***************************************************************************)
EXTENDS Integers, FiniteSets

CONSTANTS
  Users, Admins0,     \* accounts, and the administrators at the start
  AdminRequests, Roles,
  Nobody,
  Attempts,           \* of one transaction (ATTEMPTS)
  MaxAdminChanges     \* bounds the requests

Ineligible == {"TRAVEL_AGENT", "FLIGHT_EXPERT", "MARKETING_AGENT"}

ASSUME AccountConstants ==
  /\ Nobody \notin Users /\ Admins0 \subseteq Users /\ Admins0 # {}
  /\ {"ADMIN", "MANAGER", "TRAVEL_AGENT"} \subseteq Roles
  /\ Attempts \in Nat \ {0} /\ MaxAdminChanges \in Nat

VARIABLES
  role, status, manager,   \* [Users -> ...]; status "none" before createAccount
  revealers,               \* the accounts that hold payments.reveal
  phase,                   \* [AdminRequests -> next statement]
  subject,                 \* [AdminRequests -> the account changed]
  wish,                    \* [AdminRequests -> the role, status or grant wanted]
  joining, leaving,        \* [AdminRequests -> members to add, to remove]
  recent,                  \* [AdminRequests -> the sign-in was recent enough]
  allowed,                 \* [AdminRequests -> what the transaction read permits it]
  tried,                   \* [AdminRequests -> attempts made]
  overtaken,               \* open transactions that another has overtaken
  \* history
  unproven,                \* accounts that came to reveal by a request without step-up
  revokedUnder,            \* accounts whose grant went while such a request was open
  changes

rowVars == <<role, status, manager, revealers>>
adminVars == <<phase, subject, wish, joining, leaving, recent, allowed, tried, overtaken>>
grantHistory == <<unproven, revokedUnder>>
accountVars == <<rowVars, adminVars, grantHistory, changes>>

CanManage(a) == role[a] = "ADMIN" /\ status[a] = "ACTIVE"

OtherActiveAdmins(a) == {b \in Users \ {a} : CanManage(b)}

PhaseTo(p, label) == phase' = [phase EXCEPT ![p] = label]

Asks(p, label, a, w, in, out, fresh) ==
  /\ phase[p] = "idle" /\ changes < MaxAdminChanges
  /\ PhaseTo(p, label)
  /\ subject' = [subject EXCEPT ![p] = a]
  /\ wish' = [wish EXCEPT ![p] = w]
  /\ joining' = [joining EXCEPT ![p] = in] /\ leaving' = [leaving EXCEPT ![p] = out]
  /\ recent' = [recent EXCEPT ![p] = fresh]
  /\ tried' = [tried EXCEPT ![p] = 1]
  /\ changes' = changes + 1
  /\ UNCHANGED <<rowVars, allowed, overtaken, grantHistory>>

AdminAnswered(p) ==
  /\ PhaseTo(p, "idle")
  /\ subject' = [subject EXCEPT ![p] = Nobody]
  /\ wish' = [wish EXCEPT ![p] = "none"]
  /\ joining' = [joining EXCEPT ![p] = {}] /\ leaving' = [leaving EXCEPT ![p] = {}]
  /\ recent' = [recent EXCEPT ![p] = FALSE] /\ allowed' = [allowed EXCEPT ![p] = FALSE]
  /\ tried' = [tried EXCEPT ![p] = 0]
-----------------------------------------------------------------------------
(* assertAdmin and step-up, before any transaction: c is the caller *)

UpdateAccount(p, c, a, r) == CanManage(c) /\ status[a] # "none" /\ Asks(p, "role", a, r, {}, {}, TRUE)

SetAccountStatus(p, c, a, s) ==
  /\ CanManage(c) /\ status[a] # "none"
  /\ s = "INACTIVE" => a # c
  /\ Asks(p, "status", a, s, {}, {}, TRUE)

SetManagerTeam(p, c, m, team) == CanManage(c) /\ Asks(p, "team", m, "none", team, Users \ team, TRUE)
ChangeManagerTeam(p, c, m, in, out) == CanManage(c) /\ Asks(p, "team", m, "none", in, out \ in, TRUE)

UpdatePermissions(p, c, a, grant, fresh) ==
  /\ CanManage(c) /\ status[a] # "none"
  /\ Asks(p, "ceiling", a, IF grant THEN "grant" ELSE "revoke", {}, {}, fresh)

\* One insert; a new administrator needs the step-up.
CreateAccount(c, a, r) ==
  /\ CanManage(c) /\ status[a] = "none" /\ changes < MaxAdminChanges
  /\ role' = [role EXCEPT ![a] = r]
  /\ status' \in {[status EXCEPT ![a] = s] : s \in {"ACTIVE", "INACTIVE"}}
  /\ changes' = changes + 1
  /\ UNCHANGED <<manager, revealers, adminVars, grantHistory>>
-----------------------------------------------------------------------------
(* The transactions *)

Reads(p, label, next, verdict) ==
  /\ phase[p] = label
  /\ allowed' = [allowed EXCEPT ![p] = verdict]
  /\ overtaken' = overtaken \ {p}
  /\ PhaseTo(p, next)
  /\ UNCHANGED <<rowVars, subject, wish, joining, leaving, recent, tried, grantHistory, changes>>

ReadForRole(p) ==
  Reads(p, "role", "role commit", wish[p] = "ADMIN" \/ ~CanManage(subject[p]) \/ OtherActiveAdmins(subject[p]) # {})

ReadForStatus(p) ==
  Reads(p, "status", "status commit", wish[p] = "ACTIVE" \/ role[subject[p]] # "ADMIN" \/ OtherActiveAdmins(subject[p]) # {})

ReadForTeam(p) ==
  Reads(p, "team", "team commit",
        /\ status[subject[p]] # "none" /\ role[subject[p]] = "MANAGER"
        /\ \A a \in joining[p] : status[a] # "none" /\ role[a] = "TRAVEL_AGENT")

Committing == {"role commit", "status commit", "team commit"}

\* Defect: the transactions are not Serializable.
NeverAborted(p, label) == phase[p] = label /\ allowed[p]

MayCommit(p, label) == phase[p] = label /\ allowed[p] /\ p \notin overtaken

\* Everyone else's open transaction has now been overtaken.
Commits(p) ==
  /\ overtaken' = {q \in AdminRequests : phase[q] \in Committing} \ {p}
  /\ AdminAnswered(p)
  /\ UNCHANGED <<revealers, grantHistory, changes>>

\* Team membership follows the role.
CommitRole(p) ==
  /\ MayCommit(p, "role commit")
  /\ role' = [role EXCEPT ![subject[p]] = wish[p]]
  /\ manager' = [a \in Users |->
       IF (manager[a] = subject[p] /\ wish[p] # "MANAGER") \/ (a = subject[p] /\ wish[p] # "TRAVEL_AGENT")
       THEN Nobody ELSE manager[a]]
  /\ UNCHANGED status
  /\ Commits(p)

CommitStatus(p) ==
  /\ MayCommit(p, "status commit")
  /\ status' = [status EXCEPT ![subject[p]] = wish[p]]
  /\ UNCHANGED <<role, manager>>
  /\ Commits(p)

\* Only those who are on this team leave it.
CommitTeam(p) ==
  /\ MayCommit(p, "team commit")
  /\ manager' = [a \in Users |->
       IF a \in joining[p] THEN subject[p]
       ELSE IF a \in leaving[p] /\ manager[a] = subject[p] THEN Nobody ELSE manager[a]]
  /\ UNCHANGED <<role, status>>
  /\ Commits(p)

Refuse(p) ==
  /\ phase[p] \in Committing /\ ~allowed[p]
  /\ overtaken' = overtaken \ {p}
  /\ AdminAnswered(p)
  /\ UNCHANGED <<rowVars, grantHistory, changes>>

Uncommitted == [c \in Committing |->
  IF c = "role commit" THEN "role" ELSE IF c = "status commit" THEN "status" ELSE "team"]

RetryConflict(p) ==
  /\ phase[p] \in Committing /\ p \in overtaken /\ tried[p] < Attempts
  /\ tried' = [tried EXCEPT ![p] = @ + 1]
  /\ PhaseTo(p, Uncommitted[phase[p]])
  /\ UNCHANGED <<rowVars, subject, wish, joining, leaving, recent, allowed, overtaken, grantHistory, changes>>

GiveUpConflict(p) ==
  /\ phase[p] \in Committing /\ p \in overtaken /\ tried[p] >= Attempts
  /\ overtaken' = overtaken \ {p}
  /\ AdminAnswered(p)
  /\ UNCHANGED <<rowVars, grantHistory, changes>>
-----------------------------------------------------------------------------
(* Grants: three statements of updatePaymentPermissions.  updateBookingPermissions (520-566) *)
(* has the same three over the other list of permissions, which no other statement reads.   *)

CheckCeiling(p) ==
  /\ phase[p] = "ceiling"
  /\ IF wish[p] = "grant" /\ role[subject[p]] \in Ineligible
     THEN AdminAnswered(p) /\ UNCHANGED overtaken
     ELSE PhaseTo(p, "before") /\ UNCHANGED <<subject, wish, joining, leaving, recent, allowed, tried, overtaken>>
  /\ UNCHANGED <<rowVars, grantHistory, changes>>

\* What is granted already is no new grant.
CheckStepUp(p) ==
  /\ phase[p] = "before"
  /\ IF wish[p] = "grant" /\ subject[p] \notin revealers /\ ~recent[p]
     THEN AdminAnswered(p) /\ UNCHANGED overtaken
     ELSE PhaseTo(p, "grant") /\ UNCHANGED <<subject, wish, joining, leaving, recent, allowed, tried, overtaken>>
  /\ UNCHANGED <<rowVars, grantHistory, changes>>

WriteGrant(p) ==
  /\ phase[p] = "grant"
  /\ revealers' = IF wish[p] = "grant" THEN revealers \cup {subject[p]} ELSE revealers \ {subject[p]}
  /\ unproven' = IF wish[p] = "grant" /\ subject[p] \notin revealers /\ ~recent[p]
                 THEN unproven \cup {subject[p]} ELSE unproven \ (revealers \ revealers')
  /\ revokedUnder' = IF wish[p] = "revoke"
                        /\ \E q \in AdminRequests : phase[q] = "grant" /\ subject[q] = subject[p] /\ wish[q] = "grant"
                     THEN revokedUnder \cup {subject[p]} ELSE revokedUnder
  /\ AdminAnswered(p)
  /\ UNCHANGED <<role, status, manager, overtaken, changes>>
-----------------------------------------------------------------------------
AccountInit ==
  /\ role \in [Users -> Roles] /\ \A a \in Users : role[a] = "ADMIN" <=> a \in Admins0
  /\ status \in [Users -> {"ACTIVE", "none"}] /\ \A a \in Admins0 : status[a] = "ACTIVE"
  /\ manager = [a \in Users |-> Nobody]
  /\ revealers \in SUBSET Admins0
  /\ phase = [p \in AdminRequests |-> "idle"]
  /\ subject = [p \in AdminRequests |-> Nobody] /\ wish = [p \in AdminRequests |-> "none"]
  /\ joining = [p \in AdminRequests |-> {}] /\ leaving = [p \in AdminRequests |-> {}]
  /\ recent = [p \in AdminRequests |-> FALSE] /\ allowed = [p \in AdminRequests |-> FALSE]
  /\ tried = [p \in AdminRequests |-> 0] /\ overtaken = {}
  /\ unproven = {} /\ revokedUnder = {} /\ changes = 0

AdminStep(p) ==
  \/ ReadForRole(p) \/ ReadForStatus(p) \/ ReadForTeam(p)
  \/ CommitRole(p) \/ CommitStatus(p) \/ CommitTeam(p)
  \/ Refuse(p) \/ RetryConflict(p) \/ GiveUpConflict(p)
  \/ CheckCeiling(p) \/ CheckStepUp(p) \/ WriteGrant(p)

MayAsk(p) == phase[p] = "idle" /\ changes < MaxAdminChanges

AsksForRole(p) == MayAsk(p) /\ \E c, a \in Users, r \in Roles : UpdateAccount(p, c, a, r)
AsksForStatus(p) == MayAsk(p) /\ \E c, a \in Users, s \in {"ACTIVE", "INACTIVE"} : SetAccountStatus(p, c, a, s)
AsksForTeam(p) ==
  MayAsk(p) /\ \E c, m \in Users, in \in SUBSET Users :
    SetManagerTeam(p, c, m, in) \/ \E out \in SUBSET Users : ChangeManagerTeam(p, c, m, in, out)
AsksForGrant(p) == MayAsk(p) /\ \E c, a \in Users, g, f \in BOOLEAN : UpdatePermissions(p, c, a, g, f)
Creates == changes < MaxAdminChanges /\ \E c, a \in Users, r \in Roles : CreateAccount(c, a, r)

AccountNext ==
  \/ \E p \in AdminRequests :
       AdminStep(p) \/ AsksForRole(p) \/ AsksForStatus(p) \/ AsksForTeam(p) \/ AsksForGrant(p)
  \/ Creates

AccountSpec == AccountInit /\ [][AccountNext]_accountVars
-----------------------------------------------------------------------------
(* What must hold of accounts, teams and grants. *)
AccountsTypeOK ==
  /\ role \in [Users -> Roles] /\ status \in [Users -> {"none", "ACTIVE", "INACTIVE"}]
  /\ manager \in [Users -> Users \cup {Nobody}] /\ revealers \subseteq Users
  /\ phase \in [AdminRequests -> Committing \cup {"idle", "role", "status", "team", "ceiling", "before", "grant"}]
  /\ wish \in [AdminRequests -> Roles \cup {"none", "ACTIVE", "INACTIVE", "grant", "revoke"}]
  /\ \A p \in AdminRequests :
       /\ phase[p] = "idle" <=> subject[p] = Nobody
       /\ subject[p] # Nobody => subject[p] \in Users
       /\ tried[p] \in 0..Attempts
       /\ p \in overtaken => phase[p] \in Committing \cup {"role", "status", "team"}
  /\ changes \in 0..MaxAdminChanges

\* The company never loses its last active administrator, though several
\* administrators demote and disable one another at once (accounts.ts 104-123):
\* each transaction sees the other's victim as the one who remains.
AnAdminRemains == \E a \in Users : CanManage(a)

\* A team is a manager's and its members are travel agents, across role
\* changes at either end that race the team's own (accounts.ts 236-248):
\* who has a manager's reach over whose records depends on it.
TeamsMatchRoles ==
  \A a \in Users : manager[a] # Nobody => role[manager[a]] = "MANAGER" /\ role[a] = "TRAVEL_AGENT"

\* An account comes to reveal card numbers only through an administrator who
\* signed in recently (accounts.ts 78-93), or through a request that read the
\* grant as standing and wrote it back after another had revoked it
\* (accounts.ts 484-492): the check and the write are two statements.
RevealNeedsStepUp == unproven \subseteq revokedUnder
=============================================================================
