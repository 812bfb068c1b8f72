---------------------------- MODULE InitialAdmin ----------------------------
(***************************************************************************)
(* The first sign-in to an empty deployment creates its administrator and, *)
(* when there is none, a company (server/auth/initial-admin-bootstrap.ts). *)
(* s is one sign-in with the configured address; several may run at once.  *)
(* A transaction that another has overtaken is aborted, and the company it *)
(* created may outlive the abort, as was observed (its comment, 95-111).   *)
(***************************************************************************)
EXTENDS Integers, FiniteSets

CONSTANTS
  SignIns,
  Rounds,         \* attempts at the transaction (MAX_ATTEMPTS)
  MaxCrashes      \* bounds the sign-ins that die

ASSUME BootstrapConstants ==
  /\ SignIns # {} /\ SignIns \cap {"migration", "none"} = {}
  /\ Rounds \in Nat \ {0} /\ MaxCrashes \in Nat

VARIABLES
  accounts,       \* the sign-ins whose account was created
  companies,      \* the sign-ins whose company is there, "migration" for a seeded one
  bootAt,         \* [SignIns -> next statement]
  saw,            \* [SignIns -> the company its transaction uses]
  attempts,       \* [SignIns -> attempts made]
  behind,         \* the transactions that another has overtaken
  crashes

bootVars == <<accounts, companies, bootAt, saw, attempts, behind, crashes>>

BootTo(s, label) == bootAt' = [bootAt EXCEPT ![s] = label]

CountAccounts(s) ==
  /\ bootAt[s] = "count"
  /\ BootTo(s, IF accounts = {} THEN "transaction" ELSE "authorize")
  /\ UNCHANGED <<accounts, companies, saw, attempts, behind, crashes>>

\* The recheck, and the company to use: an existing one or one of its own.
BeginBootstrap(s) ==
  /\ bootAt[s] = "transaction"
  /\ attempts' = [attempts EXCEPT ![s] = @ + 1]
  /\ behind' = behind \ {s}
  /\ IF accounts # {} THEN BootTo(s, "authorize") /\ UNCHANGED saw
     ELSE /\ BootTo(s, "commit")
          /\ IF companies = {} THEN saw' = [saw EXCEPT ![s] = s]
                               ELSE \E c \in companies : saw' = [saw EXCEPT ![s] = c]
  /\ UNCHANGED <<accounts, companies, crashes>>

CommitBootstrap(s) ==
  /\ bootAt[s] = "commit" /\ s \notin behind
  /\ accounts' = accounts \cup {s}
  /\ companies' = companies \cup {saw[s]}
  /\ behind' = {q \in SignIns : bootAt[q] = "commit"} \ {s}
  /\ BootTo(s, "authorize")
  /\ UNCHANGED <<saw, attempts, crashes>>

AbortBootstrap(s) ==
  /\ bootAt[s] = "commit" /\ s \in behind
  /\ \/ UNCHANGED companies
     \/ saw[s] = s /\ companies' = companies \cup {s}
  /\ BootTo(s, "compensate")
  /\ UNCHANGED <<accounts, saw, attempts, behind, crashes>>

\* Defect: the company it used goes, whoever else uses it.
CompensateAnyway(s) ==
  /\ bootAt[s] = "compensate"
  /\ companies' = companies \ {saw[s]}
  /\ BootTo(s, IF attempts[s] < Rounds THEN "transaction" ELSE "recount")
  /\ UNCHANGED <<accounts, saw, attempts, behind, crashes>>

\* Only its own company, and only while it has no account.
Compensate(s) ==
  /\ bootAt[s] = "compensate"
  /\ companies' = IF saw[s] = s /\ \A a \in accounts : saw[a] # s THEN companies \ {s} ELSE companies
  /\ BootTo(s, IF attempts[s] < Rounds THEN "transaction" ELSE "recount")
  /\ UNCHANGED <<accounts, saw, attempts, behind, crashes>>

Recount(s) ==
  /\ bootAt[s] = "recount"
  /\ BootTo(s, IF accounts = {} THEN "gone" ELSE "authorize")
  /\ UNCHANGED <<accounts, companies, saw, attempts, behind, crashes>>

SignInDies(s) ==
  /\ bootAt[s] \notin {"authorize", "gone"} /\ crashes < MaxCrashes
  /\ crashes' = crashes + 1
  /\ BootTo(s, "gone") /\ behind' = behind \ {s}
  /\ UNCHANGED <<accounts, companies, saw, attempts>>

BootstrapInit ==
  /\ accounts = {} /\ companies \in {{}, {"migration"}}
  /\ bootAt = [s \in SignIns |-> "count"]
  /\ saw = [s \in SignIns |-> "none"] /\ attempts = [s \in SignIns |-> 0]
  /\ behind = {} /\ crashes = 0

BootstrapStep(s) ==
  \/ CountAccounts(s) \/ BeginBootstrap(s) \/ CommitBootstrap(s) \/ AbortBootstrap(s) \/ Compensate(s)
  \/ Recount(s)

BootstrapNext == \E s \in SignIns : BootstrapStep(s) \/ SignInDies(s)

BootstrapSpec == BootstrapInit /\ [][BootstrapNext]_bootVars
-----------------------------------------------------------------------------
(* What must hold of the first sign-ins to an empty deployment. *)
BootstrapTypeOK ==
  /\ accounts \subseteq SignIns /\ companies \subseteq SignIns \cup {"migration"}
  /\ bootAt \in [SignIns -> {"count", "transaction", "commit", "compensate", "recount", "authorize", "gone"}]
  /\ saw \in [SignIns -> SignIns \cup {"migration", "none"}]
  /\ \A s \in SignIns : attempts[s] \in 0..Rounds
  /\ behind \subseteq SignIns /\ crashes \in 0..MaxCrashes
  /\ \A a \in accounts : saw[a] \in companies

\* However many first sign-ins race, one administrator and one company come of
\* it: when all are done and none died on the way, no company is left without
\* its account (initial-admin-bootstrap.ts 84-113, 143-145).
OneCompanyOneAdmin ==
  /\ Cardinality(accounts) <= 1
  /\ (\A s \in SignIns : bootAt[s] = "authorize") => Cardinality(companies) = 1
=============================================================================
