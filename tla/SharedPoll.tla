------------------------------ MODULE SharedPoll ----------------------------
(***************************************************************************)
(* One poller per browser: lib/use-shared-poll.ts.  The tabs compete for   *)
(* one Web Lock; the tab that holds it polls and broadcasts each result.   *)
(* A tab that comes into view steals the lock.  The browser tells a tab of *)
(* a grant, and of a theft, some time after it has happened.               *)
(***************************************************************************)
EXTENDS Naturals, FiniteSets, SequencesExt

CONSTANTS
  Tabs, NoTab,
  MaxVersions,       \* bounds the changes of what is polled
  MaxSwitches,       \* bounds the tabs opened, shown, hidden and closed
  MaxPolls, MaxPosts,  \* bound the polls a tab has under way and the messages it has not read
  MaxPollFailures

ASSUME PollConstants ==
  NoTab \notin Tabs /\ {MaxVersions, MaxSwitches, MaxPolls, MaxPosts, MaxPollFailures} \subseteq Nat

VARIABLES
  truth,             \* the version of the data on the server
  open, visible,     \* sets of tabs
  lockHolder, queue, \* the Web Lock: tab, and tabs that wait for it in order
  news,              \* [Tabs -> Seq of "granted" and "stolen", not yet heard]
  loop,              \* [Tabs -> currentLoop: "none", "poll", "await", "sleep"]
  pendingWait,       \* tabs whose last request for the lock can be aborted
  inflight,          \* [Tabs -> Seq of polls: version read, whether shared, whether the loop awaits it]
  posts,             \* [Tabs -> Seq of versions broadcast to it]
  shown,             \* [Tabs -> version on screen]
  \* history
  latest,            \* the tab that came into view last
  early,             \* tabs that came back before they heard that they lost the lock
  crossed,           \* polls of different tabs, or of different loops, overlapped
  switches, pollFailures

lockVars == <<lockHolder, queue, news, pendingWait>>
pollVars == <<loop, inflight, posts, shown, crossed>>
tabVars == <<open, visible, latest, early, switches>>
sharedPollVars == <<truth, lockVars, pollVars, tabVars, pollFailures>>

Switch == switches < MaxSwitches /\ switches' = switches + 1
LoopTo(t, label) == loop' = [loop EXCEPT ![t] = label]

\* Something older than the poll t starts now may be shown after its answer.
Overlaps(t) ==
  \/ posts[t] # <<>> \/ \E s \in Tabs \ {t} : inflight[s] # <<>>
  \/ \E i \in DOMAIN inflight[t] : ~inflight[t][i].awaited

\* A poll reads the server's data when the server answers it.
Asks(t, shared, awaited) ==
  inflight' = [inflight EXCEPT ![t] = Append(@, [seen |-> truth, shared |-> shared, awaited |-> awaited])]
-----------------------------------------------------------------------------
(* The lock *)

WithoutLast(s, t) ==
  IF \E i \in DOMAIN s : s[i] = t
  THEN RemoveAt(s, CHOOSE i \in DOMAIN s : s[i] = t /\ \A j \in DOMAIN s : s[j] = t => j <= i)
  ELSE s

\* The line without all requests of a tab that is gone, in their order.
WithoutAll(s, t) ==
  LET kept == {i \in DOMAIN s : s[i] # t}
      Rank(i) == Cardinality({j \in kept : j =< i})
  IN  [n \in 1..Cardinality(kept) |-> s[CHOOSE i \in kept : Rank(i) = n]]

\* requestLeadership(true): the request still waiting is aborted first.
Steal(t) ==
  /\ queue' = IF t \in pendingWait THEN WithoutLast(queue, t) ELSE queue
  /\ pendingWait' = pendingWait \ {t}
  /\ lockHolder' = t
  /\ news' = LET told == IF lockHolder = NoTab THEN news ELSE [news EXCEPT ![lockHolder] = Append(@, "stolen")]
             IN  [told EXCEPT ![t] = Append(@, "granted")]

\* requestLeadership(false)
Wait(t, after) ==
  /\ pendingWait' = pendingWait \cup {t}
  /\ IF lockHolder = NoTab
     THEN lockHolder' = t /\ news' = [after EXCEPT ![t] = Append(@, "granted")] /\ UNCHANGED queue
     ELSE queue' = Append(queue, t) /\ news' = after /\ UNCHANGED lockHolder

\* The lock was granted: a tenure begins with a poll.
HearGranted(t) ==
  /\ news[t] # <<>> /\ Head(news[t]) = "granted"
  /\ news' = [news EXCEPT ![t] = Tail(@)]
  /\ LoopTo(t, "poll")
  /\ UNCHANGED <<truth, lockHolder, queue, pendingWait, inflight, posts, shown, crossed, tabVars, pollFailures>>

\* Defect: a tab that lost the lock does not queue up again.
HearAndStop(t) ==
  /\ news[t] # <<>> /\ Head(news[t]) = "stolen"
  /\ news' = [news EXCEPT ![t] = Tail(@)]
  /\ LoopTo(t, "none")
  /\ inflight' = [inflight EXCEPT ![t] = [i \in DOMAIN @ |-> [@[i] EXCEPT !.awaited = FALSE]]]
  /\ UNCHANGED <<truth, lockHolder, queue, pendingWait, posts, shown, crossed, tabVars, pollFailures>>

\* The request is rejected: its loop stops, though a poll of it may be under way.
HearStolen(t) ==
  /\ news[t] # <<>> /\ Head(news[t]) = "stolen"
  /\ Wait(t, [news EXCEPT ![t] = Tail(@)])
  /\ LoopTo(t, "none")
  /\ inflight' = [inflight EXCEPT ![t] = [i \in DOMAIN @ |-> [@[i] EXCEPT !.awaited = FALSE]]]
  /\ UNCHANGED <<truth, posts, shown, crossed, tabVars, pollFailures>>
-----------------------------------------------------------------------------
(* Tabs *)

\* In the foreground it leads at once; in the background it waits its turn,
\* and polls once for itself.
OpenTab(t) ==
  /\ t \notin open /\ Switch
  /\ open' = open \cup {t}
  /\ \/ visible' = visible \cup {t} /\ latest' = t /\ Steal(t) /\ UNCHANGED <<inflight, crossed>>
     \/ Wait(t, news) /\ Asks(t, FALSE, FALSE) /\ crossed' = (crossed \/ Overlaps(t)) /\ UNCHANGED <<visible, latest>>
  /\ UNCHANGED <<truth, loop, posts, shown, early, pollFailures>>

Show(t) ==
  /\ t \in open \ visible /\ Switch
  /\ visible' = visible \cup {t} /\ latest' = t
  /\ early' = IF loop[t] # "none" /\ lockHolder # t THEN early \cup {t} ELSE early \ {t}
  /\ IF loop[t] = "none" THEN Steal(t) /\ UNCHANGED loop
     ELSE LoopTo(t, IF loop[t] = "sleep" THEN "poll" ELSE loop[t]) /\ UNCHANGED lockVars
  /\ UNCHANGED <<truth, inflight, posts, shown, crossed, open, pollFailures>>

\* The sleep starts again, at the slower rate.
Hide(t) ==
  /\ t \in open \cap visible /\ Switch
  /\ visible' = visible \ {t}
  /\ UNCHANGED <<truth, lockVars, pollVars, open, latest, early, pollFailures>>

\* Closed, or crashed: the browser gives the lock to the next tab.
CloseTab(t) ==
  LET waiting == WithoutAll(queue, t)
      silent == [news EXCEPT ![t] = <<>>] IN
  /\ t \in open /\ Switch
  /\ open' = open \ {t} /\ visible' = visible \ {t}
  /\ pendingWait' = pendingWait \ {t} /\ early' = early \ {t}
  /\ IF lockHolder = t /\ waiting # <<>>
     THEN lockHolder' = Head(waiting) /\ queue' = Tail(waiting) /\ news' = [silent EXCEPT ![Head(waiting)] = Append(@, "granted")]
     ELSE lockHolder' = (IF lockHolder = t THEN NoTab ELSE lockHolder) /\ queue' = waiting /\ news' = silent
  /\ LoopTo(t, "none")
  /\ inflight' = [inflight EXCEPT ![t] = <<>>] /\ posts' = [posts EXCEPT ![t] = <<>>] /\ shown' = [shown EXCEPT ![t] = 0]
  /\ UNCHANGED <<truth, crossed, latest, pollFailures>>
-----------------------------------------------------------------------------
(* Polls *)

\* Defect: the timer does not wait for the answer.
PollsAgain(t) ==
  /\ loop[t] \in {"poll", "await"} /\ Len(inflight[t]) < MaxPolls
  /\ LoopTo(t, "await") /\ Asks(t, TRUE, TRUE)
  /\ crossed' = (crossed \/ Overlaps(t))
  /\ UNCHANGED <<truth, lockVars, posts, shown, tabVars, pollFailures>>

PollAsks(t) ==
  /\ loop[t] = "poll" /\ Len(inflight[t]) < MaxPolls
  /\ LoopTo(t, "await") /\ Asks(t, TRUE, TRUE)
  /\ crossed' = (crossed \/ Overlaps(t))
  /\ UNCHANGED <<truth, lockVars, posts, shown, tabVars, pollFailures>>

\* An answer, shown here and sent to every other tab.
PollAnswers(t, i) ==
  LET poll == inflight[t][i] IN
  /\ i \in DOMAIN inflight[t] /\ \A s \in Tabs \ {t} : Len(posts[s]) < MaxPosts
  /\ inflight' = [inflight EXCEPT ![t] = RemoveAt(@, i)]
  /\ shown' = [shown EXCEPT ![t] = poll.seen]
  /\ posts' = [s \in Tabs |-> IF poll.shared /\ s \in open \ {t} THEN Append(posts[s], poll.seen) ELSE posts[s]]
  /\ IF poll.awaited THEN LoopTo(t, "sleep") ELSE UNCHANGED loop
  /\ UNCHANGED <<truth, lockVars, crossed, tabVars, pollFailures>>

\* Defect: a failure is not caught, and ends the loop.
FailureEndsLoop(t, i) ==
  /\ i \in DOMAIN inflight[t] /\ pollFailures < MaxPollFailures
  /\ pollFailures' = pollFailures + 1
  /\ inflight' = [inflight EXCEPT ![t] = RemoveAt(@, i)]
  /\ UNCHANGED <<truth, lockVars, loop, posts, shown, crossed, tabVars>>

PollFails(t, i) ==
  /\ i \in DOMAIN inflight[t] /\ pollFailures < MaxPollFailures
  /\ pollFailures' = pollFailures + 1
  /\ IF inflight[t][i].awaited THEN LoopTo(t, "sleep") ELSE UNCHANGED loop
  /\ inflight' = [inflight EXCEPT ![t] = RemoveAt(@, i)]
  /\ UNCHANGED <<truth, lockVars, posts, shown, crossed, tabVars>>

IntervalPasses(t) ==
  /\ loop[t] = "sleep"
  /\ LoopTo(t, "poll")
  /\ UNCHANGED <<truth, lockVars, inflight, posts, shown, crossed, tabVars, pollFailures>>

\* Messages arrive in the order they were sent.
Receive(t) ==
  /\ posts[t] # <<>>
  /\ shown' = [shown EXCEPT ![t] = Head(posts[t])]
  /\ posts' = [posts EXCEPT ![t] = Tail(@)]
  /\ UNCHANGED <<truth, lockVars, loop, inflight, crossed, tabVars, pollFailures>>

DataChanges ==
  /\ truth < MaxVersions
  /\ truth' = truth + 1
  /\ UNCHANGED <<lockVars, pollVars, tabVars, pollFailures>>
-----------------------------------------------------------------------------
PollInit ==
  /\ truth = 1 /\ open = {} /\ visible = {}
  /\ lockHolder = NoTab /\ queue = <<>> /\ news = [t \in Tabs |-> <<>>] /\ pendingWait = {}
  /\ loop = [t \in Tabs |-> "none"] /\ inflight = [t \in Tabs |-> <<>>] /\ posts = [t \in Tabs |-> <<>>]
  /\ shown = [t \in Tabs |-> 0]
  /\ latest = NoTab /\ early = {} /\ crossed = FALSE /\ switches = 0 /\ pollFailures = 0

Switches(t) == OpenTab(t) \/ Show(t) \/ Hide(t) \/ CloseTab(t)
Hears(t) == HearGranted(t) \/ HearStolen(t)
Answers(t) == \E i \in 1..MaxPolls : PollAnswers(t, i)
Polls(t) == PollAsks(t) \/ Answers(t) \/ IntervalPasses(t) \/ Receive(t) \/ \E i \in 1..MaxPolls : PollFails(t, i)

PollNext == DataChanges \/ \E t \in Tabs : Switches(t) \/ Hears(t) \/ Polls(t)
PollSpec == PollInit /\ [][PollNext]_sharedPollVars
-----------------------------------------------------------------------------
(* What the tabs of one browser owe each other. *)
\* Type correctness of the lock, the tabs' loops and what they show.
PollTypeOK ==
  /\ open \subseteq Tabs /\ visible \subseteq open /\ pendingWait \subseteq open /\ early \subseteq open
  /\ lockHolder \in open \cup {NoTab} /\ queue \in Seq(open)
  /\ \A t \in Tabs :
       /\ news[t] \in Seq({"granted", "stolen"}) /\ loop[t] \in {"none", "poll", "await", "sleep"}
       /\ inflight[t] \in Seq([seen : 1..MaxVersions, shared : BOOLEAN, awaited : BOOLEAN])
       /\ posts[t] \in Seq(1..MaxVersions) /\ shown[t] \in 0..truth
       /\ t \notin open => loop[t] = "none" /\ news[t] = <<>> /\ inflight[t] = <<>> /\ posts[t] = <<>>

\* A tab polls in a loop only while it holds the lock, or until it hears that
\* it was stolen: "exactly one leader tab per key" (use-shared-poll.ts).
OneLoopAtATime ==
  \A t \in Tabs : loop[t] # "none" => lockHolder = t \/ "stolen" \in ToSet(news[t])

\* No open tab drops out of the line: it has the lock, waits for it, or is about
\* to hear that it must wait again.  So the last open tab always leads.
EveryTabIsInLine ==
  \A t \in open : lockHolder = t \/ t \in ToSet(queue) \/ "stolen" \in ToSet(news[t])

\* The tab that came into view last leads (comment of use-shared-poll.ts 20-22),
\* unless it came back before it heard that another tab had taken the lock.
LookedAtTabLeads == latest \in visible => lockHolder = latest \/ latest \in early

\* One tab leads, and every other can still come to lead.
OneTabLeads == OneLoopAtATime /\ EveryTabIsInLine /\ LookedAtTabLeads

\* A tab never goes back to older data, but for a poll started while another
\* tab's, or an older loop's, was still under way.
OlderDataNeedsOverlap ==
  [][\A t \in Tabs : shown'[t] < shown[t] => crossed \/ t \notin open']_sharedPollVars
-----------------------------------------------------------------------------
(* Liveness: the browser tells tabs of grants and thefts and delivers        *)
(* messages, timers fire, polls are answered or fail.                        *)

PollFairness == \A t \in Tabs :
  /\ WF_sharedPollVars(Hears(t)) /\ WF_sharedPollVars(PollAsks(t)) /\ WF_sharedPollVars(Answers(t))
  /\ WF_sharedPollVars(IntervalPasses(t)) /\ WF_sharedPollVars(Receive(t))

\* Whatever tabs were opened, shown, hidden and closed, once that ends and the
\* data rests every open tab shows it.
TabsCatchUp == <>[](\A t \in open : shown[t] = truth)
=============================================================================
