------------------------------ MODULE CardVault -----------------------------
(***************************************************************************)
(* Stored cards: adding, editing and removing one (contact-payment-        *)
(* methods.ts), recording its payment (payment-methods.ts), the security   *)
(* code kept with it for a day (booking-cvv.ts), and the operator's runs   *)
(* that rotate keys, verify them (card-key-rotation.ts) and purge old      *)
(* cards (card-retention.ts).  A reference is the key it is encrypted      *)
(* under and the number it holds.  p is a request, q a run of the          *)
(* operator's or of the cron.                                              *)
(***************************************************************************)
EXTENDS Integers, FiniteSets

CONSTANTS
  Cards, VaultKeys,        \* ids; 1 is the legacy key
  CardNumbers, CardRequests, Runs,
  Aged,               \* cards older than the retention period
  Purged, NoCard, NoVaultKey,
  PageSize,           \* rows of one page of a run
  MaxEditions,        \* bounds the requests and the runs
  MaxFailures         \* bounds those that die

ASSUME VaultConstants ==
  /\ Cards \subseteq Nat \ {0} /\ NoCard = 0 /\ VaultKeys \subseteq Nat \ {0} /\ NoVaultKey = 0 /\ 1 \in VaultKeys
  /\ NoCard \notin CardNumbers /\ Purged \notin CardNumbers \cup {NoCard} /\ Aged \subseteq Cards
  /\ PageSize \in Nat \ {0} /\ MaxEditions \in Nat /\ MaxFailures \in Nat

VARIABLES
  cardKey, pan,        \* [Cards -> PaymentMethod.encryptedPan]: key and number, or Purged
  archived,            \* cards with status ARCHIVED
  workflow,            \* [Cards -> workflowStatus]
  code,                \* [Cards -> its PaymentMethodCvv: "none", "held", "destroyed"]
  late,                \* cards whose code is past its 24 hours
  ring, currentKey,    \* CARD_ENCRYPTION_KEYS, CARD_ENCRYPTION_KEY_ID
  doing,               \* [CardRequests -> next statement]
  card, entered, under,\* [CardRequests -> the card, the number typed, the key it was encrypted under]
  running,             \* [Runs -> "idle", "rotate", "verify", "purge"]
  after, page,         \* [Runs -> the last id done, the rows read and not yet done]
  readKey, readPan,    \* [Runs -> [Cards -> the reference read]]
  runKey, inUse,       \* [Runs -> the current key it started with, the keys it met]
  retirable,           \* what the last verification found safe to retire
  \* history
  latest,              \* [Cards -> the number entered last]
  editedAcross,        \* cards removed while an edit of them was past its check
  slow,                \* cards written under a key no longer current by then
  interrupted,         \* cards whose destruction of the code was cut off
  editions, failures

cardRows == <<cardKey, pan, archived, workflow>>
codeRows == <<code, late>>
keyring == <<ring, currentKey, retirable>>
requestState == <<doing, card, entered, under>>
runState == <<running, after, page, readKey, readPan, runKey, inUse>>
vaultHistory == <<latest, editedAcross, slow, interrupted>>
vaultVars == <<cardRows, codeRows, keyring, requestState, runState, vaultHistory, editions, failures>>

Exists(c) == pan[c] # NoCard
DoTo(p, label) == doing' = [doing EXCEPT ![p] = label]

Starts(p, label, c, n) ==
  /\ doing[p] = "idle" /\ editions < MaxEditions
  /\ DoTo(p, label)
  /\ card' = [card EXCEPT ![p] = c] /\ entered' = [entered EXCEPT ![p] = n]
  /\ editions' = editions + 1
  /\ UNCHANGED <<cardRows, codeRows, keyring, under, runState, vaultHistory, failures>>

IsDone(p) ==
  /\ DoTo(p, "idle")
  /\ card' = [card EXCEPT ![p] = NoCard] /\ entered' = [entered EXCEPT ![p] = NoCard]
  /\ under' = [under EXCEPT ![p] = NoVaultKey]

EditsOpen(c) == \E p \in CardRequests : card[p] = c /\ doing[p] \in {"encrypt", "write"}
-----------------------------------------------------------------------------
(* CardRequests *)

\* editPaymentMethod with a new number: a removed card cannot be edited.
EditPaymentMethod(p, c, n) == Exists(c) /\ c \notin archived /\ Starts(p, "encrypt", c, n)

\* addContactPaymentMethod, and a card of the booking form: the id is chosen first.
AddPaymentMethod(p, c, n) ==
  /\ ~Exists(c) /\ \A r \in CardRequests : card[r] # c
  /\ Starts(p, "encrypt", c, n)

EncryptForRow(p) ==
  /\ doing[p] = "encrypt"
  /\ under' = [under EXCEPT ![p] = currentKey]
  /\ DoTo(p, "write")
  /\ UNCHANGED <<cardRows, codeRows, keyring, card, entered, runState, vaultHistory, editions, failures>>

\* The update, or the create: with its security code, when the booking form has one.
WriteCard(p) ==
  /\ doing[p] = "write"
  /\ cardKey' = [cardKey EXCEPT ![card[p]] = under[p]]
  /\ pan' = [pan EXCEPT ![card[p]] = entered[p]]
  /\ IF Exists(card[p]) THEN UNCHANGED code
     ELSE \E kept \in {"none", "held"} : code' = [code EXCEPT ![card[p]] = kept]
  /\ latest' = [latest EXCEPT ![card[p]] = entered[p]]
  /\ slow' = IF under[p] # currentKey THEN slow \cup {card[p]} ELSE slow \ {card[p]}
  /\ IsDone(p)
  /\ UNCHANGED <<archived, workflow, late, keyring, runState, editedAcross, interrupted, editions, failures>>

RemovePaymentMethod(p, c) == Exists(c) /\ Starts(p, "remove", c, NoCard)

Tombstones(c) ==
  /\ cardKey' = [cardKey EXCEPT ![c] = NoVaultKey] /\ pan' = [pan EXCEPT ![c] = Purged]
  /\ archived' = archived \cup {c}
  /\ editedAcross' = IF EditsOpen(c) THEN editedAcross \cup {c} ELSE editedAcross
  /\ slow' = slow \ {c}

PurgeRemoved(p) ==
  /\ doing[p] = "remove"
  /\ Tombstones(card[p])
  /\ DoTo(p, "destroy")
  /\ UNCHANGED <<workflow, codeRows, keyring, card, entered, under, runState, latest, interrupted, editions, failures>>

\* destroyBookingCvv
DestroyBookingCvv(p, c) == Exists(c) /\ Starts(p, "destroy", c, NoCard)

\* confirmPaymentReceived
ConfirmPayment(p, c) == Exists(c) /\ Starts(p, "confirm", c, NoCard)

\* updatePaymentMethodWorkflowStatus
SetStatus(p, c) == Exists(c) /\ Starts(p, "set", c, NoCard)

Outcomes == {"PENDING", "AUTHORIZED", "FAILED", "CONFIRMED", "CANCELLED"}
Terminal == {"CONFIRMED", "CANCELLED"}

\* What does not end the payment may be tried again, and keeps the code.
RecordOutcome(p, outcome) ==
  /\ doing[p] = "set" \/ (doing[p] = "confirm" /\ outcome \in {"CONFIRMED", "FAILED"})
  /\ workflow' = [workflow EXCEPT ![card[p]] = outcome]
  /\ IF outcome \in Terminal THEN DoTo(p, "destroy") /\ UNCHANGED <<card, entered, under>> ELSE IsDone(p)
  /\ UNCHANGED <<cardKey, pan, archived, codeRows, keyring, runState, vaultHistory, editions, failures>>

\* destroyCvv: it may fail, and never throws.
DestroyCode(p) ==
  /\ doing[p] = "destroy"
  /\ \/ code' = [code EXCEPT ![card[p]] = IF @ = "held" THEN "destroyed" ELSE @] /\ UNCHANGED <<interrupted, failures>>
     \/ failures < MaxFailures /\ failures' = failures + 1
        /\ interrupted' = interrupted \cup {card[p]} /\ UNCHANGED code
  /\ IsDone(p)
  /\ UNCHANGED <<cardRows, late, keyring, runState, latest, editedAcross, slow, editions>>

\* Expired codes go: with the daily cron, or one at a reveal.
CleanUpCodes(cs) ==
  /\ cs # {} /\ cs \subseteq late
  /\ code' = [c \in Cards |-> IF c \in cs THEN "none" ELSE code[c]]
  /\ late' = late \ cs
  /\ UNCHANGED <<cardRows, keyring, requestState, runState, vaultHistory, editions, failures>>

DestroyExpiredCvvs == CleanUpCodes(late)
RevealExpired(c) == CleanUpCodes({c})

TwentyFourHoursPass(c) ==
  /\ code[c] # "none" /\ c \notin late
  /\ late' = late \cup {c}
  /\ UNCHANGED <<cardRows, code, keyring, requestState, runState, vaultHistory, editions, failures>>

RequestCutOff(p) ==
  /\ doing[p] # "idle" /\ failures < MaxFailures
  /\ failures' = failures + 1
  /\ interrupted' = IF doing[p] = "destroy" THEN interrupted \cup {card[p]} ELSE interrupted
  /\ IsDone(p)
  /\ UNCHANGED <<cardRows, codeRows, keyring, runState, latest, editedAcross, slow, editions>>
-----------------------------------------------------------------------------
(* Runs *)

NextPage(q) ==
  LET rest == {c \in Cards : Exists(c) /\ c > after[q]} IN
  {c \in rest : Cardinality({d \in rest : d < c}) < PageSize}

StartRun(q, kind) ==
  /\ running[q] = "idle" /\ editions < MaxEditions
  /\ running' = [running EXCEPT ![q] = kind]
  /\ runKey' = [runKey EXCEPT ![q] = currentKey]
  /\ editions' = editions + 1
  /\ UNCHANGED <<cardRows, codeRows, keyring, requestState, after, page, readKey, readPan, inUse, vaultHistory, failures>>

ReadPage(q) ==
  /\ running[q] \in {"rotate", "verify"} /\ page[q] = {} /\ NextPage(q) # {}
  /\ page' = [page EXCEPT ![q] = NextPage(q)]
  /\ readKey' = [readKey EXCEPT ![q] = cardKey] /\ readPan' = [readPan EXCEPT ![q] = pan]
  /\ UNCHANGED <<cardRows, codeRows, keyring, requestState, running, after, runKey, inUse, vaultHistory, editions, failures>>

\* A run keeps the keys it was started with.
RunRing(q) == {k \in ring : k <= runKey[q]}

NextRow(q, c) == c \in page[q] /\ \A d \in page[q] : c <= d

RowDone(q, c) ==
  /\ page' = [page EXCEPT ![q] = @ \ {c}]
  /\ after' = [after EXCEPT ![q] = c]

\* Defect: the row is written by its id.
Writable(q, c) == pan[c] # NoCard

\* The reference is still the one that was read.
SameReference(q, c) == cardKey[c] = readKey[q][c] /\ pan[c] = readPan[q][c]

Needs(q, c) ==
  /\ readPan[q][c] # Purged /\ readKey[q][c] # runKey[q]
  /\ readKey[q][c] \in RunRing(q)

RotateRow(q, c) ==
  /\ running[q] = "rotate" /\ NextRow(q, c)
  /\ IF Needs(q, c) /\ SameReference(q, c)
     THEN /\ cardKey' = [cardKey EXCEPT ![c] = runKey[q]]
          /\ pan' = [pan EXCEPT ![c] = readPan[q][c]]
          /\ slow' = IF runKey[q] # currentKey THEN slow \cup {c} ELSE slow \ {c}
     ELSE UNCHANGED <<cardKey, pan, slow>>
  /\ RowDone(q, c)
  /\ UNCHANGED <<archived, workflow, codeRows, keyring, requestState, running, readKey, readPan, runKey, inUse,
                 latest, editedAcross, interrupted, editions, failures>>

\* Defect: only what does not decrypt keeps its key in use.
VerifyFailures(q, c) ==
  /\ running[q] = "verify" /\ NextRow(q, c)
  /\ inUse' = [inUse EXCEPT ![q] = IF readKey[q][c] \in RunRing(q) THEN @ ELSE @ \cup {NoVaultKey}]
  /\ RowDone(q, c)
  /\ UNCHANGED <<cardRows, codeRows, keyring, requestState, running, readKey, readPan, runKey, vaultHistory, editions, failures>>

\* A row that does not decrypt is remembered as NoVaultKey.
VerifyRow(q, c) ==
  /\ running[q] = "verify" /\ NextRow(q, c)
  /\ inUse' = [inUse EXCEPT ![q] =
       IF readPan[q][c] = Purged THEN @
       ELSE @ \cup {readKey[q][c]} \cup (IF readKey[q][c] \in RunRing(q) THEN {} ELSE {NoVaultKey})]
  /\ RowDone(q, c)
  /\ UNCHANGED <<cardRows, codeRows, keyring, requestState, running, readKey, readPan, runKey, vaultHistory, editions, failures>>

RunEnds(q) ==
  /\ running' = [running EXCEPT ![q] = "idle"]
  /\ page' = [page EXCEPT ![q] = {}] /\ after' = [after EXCEPT ![q] = NoCard]
  /\ readKey' = [readKey EXCEPT ![q] = [c \in Cards |-> NoVaultKey]]
  /\ readPan' = [readPan EXCEPT ![q] = [c \in Cards |-> NoCard]]
  /\ runKey' = [runKey EXCEPT ![q] = NoVaultKey] /\ inUse' = [inUse EXCEPT ![q] = {}]

FinishRun(q) ==
  /\ running[q] \in {"rotate", "verify"} /\ page[q] = {} /\ NextPage(q) = {}
  /\ retirable' = IF running[q] = "rotate" THEN retirable
                  ELSE IF NoVaultKey \in inUse[q] THEN {} ELSE (RunRing(q) \ {runKey[q]}) \ inUse[q]
  /\ RunEnds(q)
  /\ UNCHANGED <<cardRows, codeRows, ring, currentKey, requestState, vaultHistory, editions, failures>>

\* purgeCardData: removed cards and old ones, matched first and then one by one.
MatchPurge(q) ==
  /\ running[q] = "purge" /\ page[q] = {} /\ after[q] = NoCard
  /\ LET matched == {c \in archived \cup Aged : Exists(c) /\ pan[c] # Purged} IN
     IF matched = {} THEN RunEnds(q)
     ELSE page' = [page EXCEPT ![q] = matched] /\ UNCHANGED <<running, after, readKey, readPan, runKey, inUse>>
  /\ UNCHANGED <<cardRows, codeRows, keyring, requestState, vaultHistory, editions, failures>>

PurgeRow(q, c) ==
  /\ running[q] = "purge" /\ NextRow(q, c)
  /\ IF pan[c] = Purged THEN UNCHANGED <<cardKey, pan, archived, editedAcross, slow>> ELSE Tombstones(c)
  /\ IF page[q] = {c} THEN RunEnds(q)
     ELSE RowDone(q, c) /\ UNCHANGED <<running, readKey, readPan, runKey, inUse>>
  /\ UNCHANGED <<workflow, codeRows, keyring, requestState, latest, interrupted, editions, failures>>

RunCutOff(q) ==
  /\ running[q] # "idle" /\ failures < MaxFailures
  /\ failures' = failures + 1
  /\ RunEnds(q)
  /\ UNCHANGED <<cardRows, codeRows, keyring, requestState, vaultHistory, editions>>
-----------------------------------------------------------------------------
(* The operator, as docs/CARD_VAULT_SECURITY.md has it: a new key is added   *)
(* and made current; an old one goes once a verification found it unused.    *)

DeployKey(k) ==
  /\ k > currentKey
  /\ ring' = ring \cup {k} /\ currentKey' = k /\ retirable' = {}
  /\ UNCHANGED <<cardRows, codeRows, requestState, runState, vaultHistory, editions, failures>>

RetireKey(k) ==
  /\ k \in retirable /\ k # currentKey /\ \A q \in Runs : running[q] = "idle"
  /\ ring' = ring \ {k} /\ retirable' = retirable \ {k}
  /\ UNCHANGED <<cardRows, codeRows, currentKey, requestState, runState, vaultHistory, editions, failures>>
-----------------------------------------------------------------------------
VaultInit ==
  /\ pan \in [Cards -> CardNumbers \cup {NoCard}]
  /\ cardKey = [c \in Cards |-> IF Exists(c) THEN 1 ELSE NoVaultKey]
  /\ archived = {} /\ workflow = [c \in Cards |-> "PENDING"]
  /\ code \in [Cards -> {"none", "held"}] /\ \A c \in Cards : code[c] = "held" => Exists(c)
  /\ late = {} /\ ring = {1} /\ currentKey = 1 /\ retirable = {}
  /\ doing = [p \in CardRequests |-> "idle"] /\ card = [p \in CardRequests |-> NoCard]
  /\ entered = [p \in CardRequests |-> NoCard] /\ under = [p \in CardRequests |-> NoVaultKey]
  /\ running = [q \in Runs |-> "idle"] /\ after = [q \in Runs |-> NoCard] /\ page = [q \in Runs |-> {}]
  /\ readKey = [q \in Runs |-> [c \in Cards |-> NoVaultKey]] /\ readPan = [q \in Runs |-> [c \in Cards |-> NoCard]]
  /\ runKey = [q \in Runs |-> NoVaultKey] /\ inUse = [q \in Runs |-> {}]
  /\ latest = pan /\ editedAcross = {} /\ slow = {} /\ interrupted = {} /\ editions = 0 /\ failures = 0

NumberRequests(p) ==
  \/ EncryptForRow(p) \/ WriteCard(p) \/ PurgeRemoved(p)
  \/ \E c \in Cards : RemovePaymentMethod(p, c)
  \/ \E c \in Cards, n \in CardNumbers : AddPaymentMethod(p, c, n) \/ EditPaymentMethod(p, c, n)

CodeRequests(p) ==
  \/ DestroyCode(p) \/ \E outcome \in Outcomes : RecordOutcome(p, outcome)
  \/ \E c \in Cards : ConfirmPayment(p, c) \/ SetStatus(p, c) \/ DestroyBookingCvv(p, c)

RunSteps(q) ==
  \/ ReadPage(q) \/ FinishRun(q) \/ MatchPurge(q)
  \/ \E c \in Cards : RotateRow(q, c) \/ VerifyRow(q, c) \/ PurgeRow(q, c)

Expiries == DestroyExpiredCvvs \/ \E c \in Cards : RevealExpired(c) \/ TwentyFourHoursPass(c)
Operates == \E k \in VaultKeys : DeployKey(k) \/ RetireKey(k)

VaultNext ==
  \/ \E p \in CardRequests : NumberRequests(p) \/ CodeRequests(p) \/ RequestCutOff(p)
  \/ \E q \in Runs : RunSteps(q) \/ RunCutOff(q) \/ \E k \in {"rotate", "verify", "purge"} : StartRun(q, k)
  \/ Expiries \/ Operates

VaultSpec == VaultInit /\ [][VaultNext]_vaultVars
-----------------------------------------------------------------------------
(* What must hold of stored cards. *)
VaultTypeOK ==
  /\ pan \in [Cards -> CardNumbers \cup {NoCard, Purged}]
  /\ cardKey \in [Cards -> VaultKeys \cup {NoVaultKey}]
  /\ \A c \in Cards : cardKey[c] = NoVaultKey <=> pan[c] \in {NoCard, Purged}
  /\ archived \subseteq Cards /\ workflow \in [Cards -> Outcomes]
  /\ code \in [Cards -> {"none", "held", "destroyed"}]
  /\ \A c \in late : code[c] # "none"
  /\ ring \subseteq VaultKeys /\ currentKey \in ring /\ retirable \subseteq ring \ {currentKey}
  /\ \A p \in CardRequests : doing[p] = "idle" <=> card[p] = NoCard
  /\ \A q \in Runs : page[q] \subseteq Cards /\ (running[q] = "idle" => page[q] = {} /\ after[q] = NoCard)
  /\ editions \in 0..MaxEditions /\ failures \in 0..MaxFailures

\* A stored card is the one entered last, or is gone: no rotation writes an
\* older number over an edit that came in between (card-key-rotation.ts 12-13).
RotationKeepsNumbers == \A c \in Cards : pan[c] \in {NoCard, Purged, latest[c]}

\* A removed card has no number any more, whatever rotation or purge had read
\* it before (contact-payment-methods.ts 216-224).  An edit that had passed its
\* own check by then still brings one back.
RemovedStaysPurged == \A c \in archived \ editedAcross : pan[c] = Purged

\* A key that a verification gave free decrypts nothing that is stored: the
\* verification reads page by page while cards are added, edited and rotated
\* (card-key-rotation.ts 119-124).  Only a request that had encrypted before
\* the new key was deployed can write under the old one afterwards.
RetiredKeysAreUnused == \A c \in Cards : cardKey[c] # NoVaultKey /\ cardKey[c] \notin ring => c \in slow

\* No security code is kept for a card that was charged, voided or removed,
\* but for the moment until the same request destroys it, and where that was
\* cut off (payment-methods.ts 239-241, 312-316, contact-payment-methods.ts 258-259).
DoneCardHasNoCode ==
  \A c \in Cards :
    code[c] = "held" /\ (workflow[c] \in Terminal \/ pan[c] = Purged) =>
      c \in interrupted \cup Aged \/ \E p \in CardRequests : doing[p] = "destroy" /\ card[p] = c
=============================================================================
