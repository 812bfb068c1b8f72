------------------------------ MODULE Sessions ------------------------------
(***************************************************************************)
(* Sign-in sessions: signInWithGoogle and establishSession, signOut,       *)
(* signOutAllUsers, and what setAccountStatus does to a session.  An       *)
(* account has one session at a time; a token that an account no longer    *)
(* has is told why on its next request, if RevokedSession knows it.  b is  *)
(* a browser, which signs in, may lose the answer, and keeps its cookie.   *)
(***************************************************************************)
EXTENDS Integers, FiniteSets

CONSTANTS
  Members, Browsers, Tokens,   \* tokens in the order they are drawn
  NoToken, NoMember,
  MaxDisables                  \* bounds how often accounts are disabled

ASSUME SessionConstants ==
  /\ Tokens \subseteq Nat \ {0} /\ NoToken = 0
  /\ NoMember \notin Members /\ MaxDisables \in Nat

VARIABLES
  activeSession,   \* [Members -> Account.activeSessionId]
  active,          \* the accounts with status ACTIVE
  expired,         \* tokens whose sign-in is 24 hours past
  revoked,         \* the tokens in RevokedSession
  drawn,           \* the last token drawn
  cookie,          \* [Browsers -> its token]
  signing,         \* [Browsers -> the account it is about to sign in to]
  \* history
  owner,           \* [Tokens -> whose session it was]
  era,             \* [Members -> how often it was disabled]
  issuedIn,        \* [Tokens -> era of its account when it was written]
  wasDisabled,     \* tokens ended by disabling their account
  leftByItself     \* tokens signed out with

sessionRows == <<activeSession, active, expired, revoked, drawn>>
browserVars == <<cookie, signing>>
sessionPast == <<owner, era, issuedIn, wasDisabled, leftByItself>>
sessionVars == <<sessionRows, browserVars, sessionPast>>

\* getCurrentAccount: whom a token signs in.
Accepts(a, t) == t # NoToken /\ activeSession[a] = t /\ a \in active /\ t \notin expired
-----------------------------------------------------------------------------
\* authorizeGoogleUser: only an account that is ACTIVE.
Authorize(b, a) ==
  /\ signing[b] = NoMember /\ a \in active
  /\ signing' = [signing EXCEPT ![b] = a]
  /\ UNCHANGED <<sessionRows, cookie, sessionPast>>

\* A random token, new to every account.
Draws(a) ==
  /\ drawn + 1 \in Tokens
  /\ drawn' = drawn + 1
  /\ owner' = [owner EXCEPT ![drawn'] = a]
  /\ issuedIn' = [issuedIn EXCEPT ![drawn'] = era[a]]
  /\ activeSession' = [activeSession EXCEPT ![a] = drawn']

\* establishSession: one statement replaces the session and records the one it
\* replaces; records of sessions long expired go.  The answer may be lost.
EstablishSession(b) ==
  /\ signing[b] # NoMember
  /\ Draws(signing[b])
  /\ revoked' = (revoked \ expired) \cup ({activeSession[signing[b]]} \ {NoToken})
  /\ signing' = [signing EXCEPT ![b] = NoMember]
  /\ \/ cookie' = [cookie EXCEPT ![b] = drawn']
     \/ UNCHANGED cookie
  /\ UNCHANGED <<active, expired, era, wasDisabled, leftByItself>>

SignInFails(b) ==
  /\ signing[b] # NoMember
  /\ signing' = [signing EXCEPT ![b] = NoMember]
  /\ UNCHANGED <<sessionRows, cookie, sessionPast>>

\* Only the session that this browser's token still is.
SignOut(b) ==
  /\ cookie[b] # NoToken
  /\ activeSession' = [a \in Members |-> IF activeSession[a] = cookie[b] THEN NoToken ELSE activeSession[a]]
  /\ leftByItself' = leftByItself \cup ({cookie[b]} \cap {activeSession[a] : a \in Members})
  /\ cookie' = [cookie EXCEPT ![b] = NoToken]
  /\ UNCHANGED <<active, expired, revoked, drawn, signing, owner, era, issuedIn, wasDisabled>>

\* One statement over every account with a session, the caller's included.
SignOutAllUsers(b) ==
  /\ \E a \in Members : Accepts(a, cookie[b])
  /\ revoked' = revoked \cup ({activeSession[a] : a \in Members} \ {NoToken})
  /\ activeSession' = [a \in Members |-> NoToken]
  /\ cookie' = [cookie EXCEPT ![b] = NoToken]
  /\ UNCHANGED <<active, expired, drawn, signing, sessionPast>>

\* setAccountStatus(INACTIVE), one transaction.
Disable(a) ==
  /\ a \in active /\ era[a] < MaxDisables
  /\ active' = active \ {a}
  /\ activeSession' = [activeSession EXCEPT ![a] = NoToken]
  /\ era' = [era EXCEPT ![a] = @ + 1]
  /\ wasDisabled' = wasDisabled \cup ({activeSession[a]} \ {NoToken})
  /\ UNCHANGED <<expired, revoked, drawn, browserVars, owner, issuedIn, leftByItself>>

Enable(a) ==
  /\ a \notin active
  /\ active' = active \cup {a}
  /\ UNCHANGED <<activeSession, expired, revoked, drawn, browserVars, sessionPast>>

\* Sessions end in the order they began.
DayPasses ==
  /\ \E t \in 1..drawn : t \notin expired /\ expired' = expired \cup (1..t)
  /\ UNCHANGED <<activeSession, active, revoked, drawn, browserVars, sessionPast>>

SessionInit ==
  /\ activeSession = [a \in Members |-> NoToken] /\ active = Members
  /\ expired = {} /\ revoked = {} /\ drawn = 0
  /\ cookie = [b \in Browsers |-> NoToken] /\ signing = [b \in Browsers |-> NoMember]
  /\ owner = [t \in Tokens |-> NoMember] /\ era = [a \in Members |-> 0]
  /\ issuedIn = [t \in Tokens |-> 0] /\ wasDisabled = {} /\ leftByItself = {}

SessionNext ==
  \/ \E b \in Browsers :
       \/ EstablishSession(b) \/ SignInFails(b) \/ SignOut(b) \/ SignOutAllUsers(b)
       \/ \E a \in Members : Authorize(b, a)
  \/ \E a \in Members : Disable(a) \/ Enable(a)
  \/ DayPasses

SessionSpec == SessionInit /\ [][SessionNext]_sessionVars
-----------------------------------------------------------------------------
(* What must hold of sessions. *)
SessionTypeOK ==
  /\ activeSession \in [Members -> (1..drawn) \cup {NoToken}]
  /\ drawn \in Tokens \cup {0} /\ active \subseteq Members
  /\ expired \subseteq 1..drawn /\ revoked \subseteq 1..drawn
  /\ cookie \in [Browsers -> (1..drawn) \cup {NoToken}]
  /\ signing \in [Browsers -> Members \cup {NoMember}]
  /\ \A a \in Members : activeSession[a] # NoToken => owner[activeSession[a]] = a

\* No session ends without a trace: a token no account has any more was
\* recorded, so that the browser that holds it is told why, unless it has
\* expired, or was left or disabled, which /login does not explain.
\* Sign-ins from two devices, sign-out of all and expiry may race
\* (establish-session.ts 21-25, session-admin.ts 20-22).
EndedIsRecorded ==
  \A t \in 1..drawn :
    \/ \E a \in Members : activeSession[a] = t
    \/ t \in revoked \cup expired \cup wasDisabled \cup leftByItself

\* A token recorded as ended stays so: it is accepted nowhere, however
\* accounts are disabled and enabled and signed in to again.
RevokedIsOver == \A t \in revoked \cup wasDisabled \cup leftByItself, a \in Members : ~Accepts(a, t)

\* Disabling an account ends its sessions for good: once it is enabled again,
\* no token from before is accepted (accounts.ts 409-413).  Only a sign-in that
\* had passed its check by then may still write a new one.
DisablingEndsSessions ==
  \A a \in Members, t \in 1..drawn : Accepts(a, t) => issuedIn[t] = era[a]
=============================================================================
