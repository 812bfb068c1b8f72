------------------------------ MODULE OfferAlert ----------------------------
(***************************************************************************)
(* The sound of a new lead's offer: lib/lead-offer-alert.ts, and how the   *)
(* dialog of layout/lead-offer-modal.tsx calls it.  An offer is told from  *)
(* another of the same lead by its expiry: the key.  A browser refuses to  *)
(* make sound before the user has touched the page; what it does with the  *)
(* request meanwhile, refuse it or leave it pending, differs.              *)
(***************************************************************************)
EXTENDS Naturals, FiniteSets

CONSTANTS
  Windows, NoWindow,    \* CRM tabs of one browser
  MaxAlerts,            \* offers 1, 2, ..., one after the other
  MaxLoads              \* bounds the tabs loaded

ASSUME AlertConstants == NoWindow \notin Windows /\ MaxAlerts \in Nat \ {0} /\ MaxLoads \in Nat

Alerts == 1..MaxAlerts

VARIABLES
  current, answered, over,  \* the offer last made; offers answered; offers whose time is over
  loaded, touched,          \* tabs, and those the user has touched since they loaded
  onScreen,                 \* [Windows -> the offer of the dialog, or 0]
  alertedKeys,              \* [Windows -> offers announced since it loaded]
  remembered,               \* [Windows -> sessionStorage: the offer sounded last]
  resuming,                 \* [Windows -> offers that wait for the audio context]
  pendingBlocked,           \* [Windows -> the offer to sound at the first gesture, or 0]
  claiming, playing,        \* [Windows -> offers whose claim it asks for, those it has]
  claimedBy,                \* [Alerts -> the tab holding the Web Lock, or NoWindow]
  \* history
  played,                   \* [Alerts -> sounds, counted to 2]
  freed,                    \* offers whose claim ended with its tab
  hung,                     \* offers over when announced, or while they waited for the audio context
  startedLate,              \* offers whose claim was asked for when they were over
  loads

offerVars == <<current, answered, over, hung>>
dialogVars == <<loaded, touched, onScreen, loads>>
soundVars == <<alertedKeys, remembered, resuming, pendingBlocked, claiming, playing, claimedBy, played, freed, startedLate>>
alertVars == <<offerVars, dialogVars, soundVars>>

Adds(f, t, o) == [f EXCEPT ![t] = @ \cup {o}]
Drops(f, t, o) == [f EXCEPT ![t] = @ \ {o}]
-----------------------------------------------------------------------------
(* Offers *)

MakeOffer ==
  /\ current < MaxAlerts /\ (current = 0 \/ current \in over \cup answered)
  /\ current' = current + 1
  /\ UNCHANGED <<answered, over, hung, dialogVars, soundVars>>

\* By anybody: accepted or skipped.
AnswerOffer ==
  /\ current > 0 /\ current \notin over \cup answered
  /\ answered' = answered \cup {current}
  /\ UNCHANGED <<current, over, hung, dialogVars, soundVars>>

OfferExpires(o) ==
  /\ o \in 1..current \ over
  /\ over' = over \cup {o}
  /\ hung' = IF \E t \in Windows : o \in resuming[t] THEN hung \cup {o} ELSE hung
  /\ UNCHANGED <<current, answered, dialogVars, soundVars>>

\* What the poll brings: the offer that stands, or none.
SeeOffer(t) ==
  LET standing == IF current \in answered \cup over THEN 0 ELSE current IN
  /\ t \in loaded /\ onScreen[t] # standing
  /\ onScreen' = [onScreen EXCEPT ![t] = standing]
  /\ UNCHANGED <<offerVars, loaded, touched, loads, soundVars>>
-----------------------------------------------------------------------------
(* Announcing *)

\* announceLeadOffer: once per offer, whatever renders, polls and reloads there are.
Announce(t) ==
  LET o == onScreen[t] IN
  /\ o # 0 /\ o \notin alertedKeys[t] /\ remembered[t] # o
  /\ alertedKeys' = Adds(alertedKeys, t, o) /\ resuming' = Adds(resuming, t, o)
  /\ hung' = hung \cup ({o} \cap over)
  /\ UNCHANGED <<current, answered, over, remembered, pendingBlocked, claiming, playing, claimedBy, played, freed, startedLate, dialogVars>>

AsksForClaim(t, o) ==
  /\ claiming' = Adds(claiming, t, o)
  /\ startedLate' = IF o \in over THEN startedLate \cup {o} ELSE startedLate

\* ensureRunning, once the user has touched the page ...
Resumed(t, o) ==
  /\ o \in resuming[t] /\ t \in touched
  /\ resuming' = Drops(resuming, t, o)
  /\ AsksForClaim(t, o)
  /\ UNCHANGED <<alertedKeys, remembered, pendingBlocked, playing, claimedBy, played, freed, offerVars, dialogVars>>

\* ... and before, where the browser refuses: no claim is taken.
Blocked(t, o) ==
  /\ o \in resuming[t] /\ t \notin touched
  /\ resuming' = Drops(resuming, t, o)
  /\ pendingBlocked' = [pendingBlocked EXCEPT ![t] = o]
  /\ UNCHANGED <<alertedKeys, remembered, claiming, playing, claimedBy, played, freed, startedLate, offerVars, dialogVars>>

\* Defect: a gesture sounds whatever waits for it.
SoundsAnything(t) ==
  LET o == pendingBlocked[t] IN
  /\ t \in loaded
  /\ touched' = touched \cup {t}
  /\ pendingBlocked' = [pendingBlocked EXCEPT ![t] = 0]
  /\ IF o # 0 THEN AsksForClaim(t, o) ELSE UNCHANGED <<claiming, startedLate>>
  /\ UNCHANGED <<offerVars, loaded, onScreen, loads, alertedKeys, remembered, resuming, playing, claimedBy, played, freed>>

\* The first gesture sounds the offer that waits for it, if its time is not over.
Gesture(t) ==
  LET o == pendingBlocked[t] IN
  /\ t \in loaded /\ (t \notin touched \/ o # 0)
  /\ touched' = touched \cup {t}
  /\ pendingBlocked' = [pendingBlocked EXCEPT ![t] = 0]
  /\ IF o # 0 /\ o \notin over THEN AsksForClaim(t, o) ELSE UNCHANGED <<claiming, startedLate>>
  /\ UNCHANGED <<offerVars, loaded, onScreen, loads, alertedKeys, remembered, resuming, playing, claimedBy, played, freed>>

\* The lock is asked for and either had at once or not at all.
Claim(t, o) ==
  /\ o \in claiming[t]
  /\ claiming' = Drops(claiming, t, o)
  /\ IF claimedBy[o] = NoWindow
     THEN claimedBy' = [claimedBy EXCEPT ![o] = t] /\ playing' = Adds(playing, t, o)
     ELSE UNCHANGED <<claimedBy, playing>>
  /\ UNCHANGED <<alertedKeys, remembered, resuming, pendingBlocked, played, freed, startedLate, offerVars, dialogVars>>

Play(t, o) ==
  /\ o \in playing[t]
  /\ playing' = Drops(playing, t, o)
  /\ played' = [played EXCEPT ![o] = IF @ < 2 THEN @ + 1 ELSE @]
  /\ remembered' = [remembered EXCEPT ![t] = o]
  /\ UNCHANGED <<alertedKeys, resuming, pendingBlocked, claiming, claimedBy, freed, startedLate, offerVars, dialogVars>>

\* It is held for longer than any offer lasts, and than any answer takes.
HoldEnds(o) ==
  /\ claimedBy[o] # NoWindow /\ o \in over
  /\ \A t \in Windows : o \notin claiming[t] \cup playing[t]
  /\ claimedBy' = [claimedBy EXCEPT ![o] = NoWindow]
  /\ UNCHANGED <<alertedKeys, remembered, resuming, pendingBlocked, claiming, playing, played, freed, startedLate, offerVars, dialogVars>>
-----------------------------------------------------------------------------
(* Tabs *)

Load(t) ==
  /\ t \notin loaded /\ loads < MaxLoads
  /\ loads' = loads + 1 /\ loaded' = loaded \cup {t}
  /\ UNCHANGED <<offerVars, touched, onScreen, soundVars>>

\* A reload keeps what sessionStorage remembers, a new tab starts without.
Unload(t, reload) ==
  /\ t \in loaded
  /\ loaded' = loaded \ {t} /\ touched' = touched \ {t}
  /\ onScreen' = [onScreen EXCEPT ![t] = 0] /\ alertedKeys' = [alertedKeys EXCEPT ![t] = {}]
  /\ remembered' = IF reload THEN remembered ELSE [remembered EXCEPT ![t] = 0]
  /\ resuming' = [resuming EXCEPT ![t] = {}] /\ pendingBlocked' = [pendingBlocked EXCEPT ![t] = 0]
  /\ claiming' = [claiming EXCEPT ![t] = {}] /\ playing' = [playing EXCEPT ![t] = {}]
  /\ claimedBy' = [o \in Alerts |-> IF claimedBy[o] = t THEN NoWindow ELSE claimedBy[o]]
  /\ freed' = freed \cup {o \in Alerts : claimedBy[o] = t}
  /\ UNCHANGED <<offerVars, loads, played, startedLate>>
-----------------------------------------------------------------------------
AlertInit ==
  /\ current = 0 /\ answered = {} /\ over = {} /\ hung = {}
  /\ loaded = {} /\ touched = {} /\ onScreen = [t \in Windows |-> 0] /\ loads = 0
  /\ alertedKeys = [t \in Windows |-> {}] /\ remembered = [t \in Windows |-> 0]
  /\ resuming = [t \in Windows |-> {}] /\ pendingBlocked = [t \in Windows |-> 0]
  /\ claiming = [t \in Windows |-> {}] /\ playing = [t \in Windows |-> {}]
  /\ claimedBy = [o \in Alerts |-> NoWindow]
  /\ played = [o \in Alerts |-> 0] /\ freed = {} /\ startedLate = {}

Sounds(t, o) == Resumed(t, o) \/ Claim(t, o) \/ Play(t, o)

AlertNext ==
  \/ MakeOffer \/ AnswerOffer
  \/ \E o \in Alerts : OfferExpires(o) \/ HoldEnds(o) \/ \E t \in Windows : Sounds(t, o) \/ Blocked(t, o)
  \/ \E t \in Windows : SeeOffer(t) \/ Announce(t) \/ Gesture(t) \/ Load(t) \/ \E reload \in BOOLEAN : Unload(t, reload)

AlertSpec == AlertInit /\ [][AlertNext]_alertVars
-----------------------------------------------------------------------------
(* What lead-offer-alert.ts promises about the sound. *)
\* Type correctness of the offers, the tabs and the claims.
AlertTypeOK ==
  /\ current \in 0..MaxAlerts /\ answered \cup over \subseteq 1..current /\ hung \subseteq over
  /\ touched \subseteq loaded /\ loaded \subseteq Windows
  /\ \A t \in Windows :
       /\ {onScreen[t], remembered[t], pendingBlocked[t]} \subseteq 0..current
       /\ UNION {resuming[t], claiming[t], playing[t]} \subseteq alertedKeys[t]
       /\ pendingBlocked[t] # 0 => t \notin touched /\ pendingBlocked[t] \in alertedKeys[t]
  /\ \A o \in Alerts : claimedBy[o] \in loaded \cup {NoWindow} /\ played[o] \in 0..2

\* However many tabs see an offer, however often they reload: one sound
\* (announceLeadOffer's comment), but for a tab that closed with the claim, and
\* for an offer seen, or kept waiting by the browser, until it was over.  What
\* waits for a gesture sounds only "IF the offer is still live" (25-29), as far
\* as its expiry tells, but for such an offer.
OneSoundPerOffer ==
  /\ \A o \in Alerts : played[o] > 1 => o \in freed \cup hung
  /\ startedLate \subseteq hung
=============================================================================
