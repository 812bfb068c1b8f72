--------------------------- MODULE HealthIncidents ---------------------------
(***************************************************************************)
(* One System Health check, the incident it opens and resolves and the     *)
(* notification of the Admins: server/system/health-events.ts and          *)
(* health-monitor.ts.  Several instances of the application evaluate it,   *)
(* each at its own time; after a deployment some still run a build that    *)
(* has no such check.  One action is one database statement of an          *)
(* evaluation h.                                                           *)
(***************************************************************************)
EXTENDS Integers, FiniteSets

CONSTANTS
  Evaluations,    \* concurrent evaluations
  Instances,      \* processes of the application
  InstanceOf,     \* [Evaluations -> Instances]
  OldBuilds,      \* instances whose catalogue lacks the check
  MaxOldRuns,     \* bounds what these still do
  MaxWindows,     \* bounds how often HEALTH_RENOTIFY_WINDOW_MS passes
  MaxLost         \* bounds the evaluations that die

ASSUME HealthConstants ==
  /\ IsFiniteSet(Evaluations)
  /\ InstanceOf \in [Evaluations -> Instances] /\ OldBuilds \subseteq Instances
  /\ MaxOldRuns \in Nat /\ MaxWindows \in Nat /\ MaxLost \in Nat

VARIABLES
  condition,     \* what the check would find now
  incident,      \* severity of the open row, "none" without one
  resolved,      \* a row of the fingerprint was resolved: "never", "recently", "long_ago"
  justRecorded,  \* instances whose throttle map holds the fingerprint
  evaluation,    \* [Evaluations -> the next statement]
  verdict,       \* what its check found
  \* history
  announced,     \* notifications to the Admins
  windows, oldRuns, lost

healthVars == <<condition, incident, resolved, justRecorded, evaluation, verdict, announced, windows, oldRuns, lost>>

HealthStates == {"HEALTHY", "WARNING", "CRITICAL"}

CloseEvaluation(h) ==
  /\ evaluation' = [evaluation EXCEPT ![h] = "idle"]
  /\ verdict' = [verdict EXCEPT ![h] = "none"]

Resolve ==
  /\ incident' = "none"
  /\ resolved' = IF incident = "none" THEN resolved ELSE "recently"
-----------------------------------------------------------------------------
(* evaluateHealth: run the checks, then record what each found *)

\* UNKNOWN, "could not verify", neither records nor resolves.
RunHealthChecks(h) ==
  /\ evaluation[h] = "idle" /\ InstanceOf[h] \notin OldBuilds
  /\ \/ /\ verdict' = [verdict EXCEPT ![h] = condition]
        /\ evaluation' = [evaluation EXCEPT ![h] = "checked"]
     \/ UNCHANGED <<verdict, evaluation>>
  /\ UNCHANGED <<condition, incident, resolved, justRecorded, announced, windows, oldRuns, lost>>

ResolveHealthEvents(h) ==
  /\ evaluation[h] = "checked" /\ verdict[h] = "HEALTHY"
  /\ Resolve
  /\ CloseEvaluation(h)
  /\ UNCHANGED <<condition, justRecorded, announced, windows, oldRuns, lost>>

Throttled(h) == InstanceOf[h] \in justRecorded

DropRecord(h) ==
  /\ evaluation[h] = "checked" /\ verdict[h] # "HEALTHY" /\ Throttled(h)
  /\ CloseEvaluation(h)
  /\ UNCHANGED <<condition, incident, resolved, justRecorded, announced, windows, oldRuns, lost>>

\* The insert that on conflict sets the open row's severity (resyncSeverity).
RecordHealthEvent(h) ==
  /\ evaluation[h] = "checked" /\ verdict[h] # "HEALTHY" /\ ~Throttled(h)
  /\ justRecorded' = justRecorded \cup {InstanceOf[h]}
  /\ incident' = verdict[h]
  /\ IF incident = "none" /\ verdict[h] = "CRITICAL"
     THEN evaluation' = [evaluation EXCEPT ![h] = "flap_guard"] /\ UNCHANGED verdict
     ELSE CloseEvaluation(h)
  /\ UNCHANGED <<condition, resolved, announced, windows, oldRuns, lost>>

FlapGuard(h) ==
  /\ evaluation[h] = "flap_guard"
  /\ IF resolved = "recently" THEN CloseEvaluation(h)
     ELSE evaluation' = [evaluation EXCEPT ![h] = "notify"] /\ UNCHANGED verdict
  /\ UNCHANGED <<condition, incident, resolved, justRecorded, announced, windows, oldRuns, lost>>

NotifyAdmins(h) ==
  /\ evaluation[h] = "notify"
  /\ announced' = announced + 1
  /\ CloseEvaluation(h)
  /\ UNCHANGED <<condition, incident, resolved, justRecorded, windows, oldRuns, lost>>

\* resolveOrphanedCheckIncidents, of a build that does not know the check.
ResolveOrphaned(h) ==
  /\ InstanceOf[h] \in OldBuilds /\ oldRuns < MaxOldRuns
  /\ oldRuns' = oldRuns + 1
  /\ Resolve
  /\ UNCHANGED <<condition, justRecorded, evaluation, verdict, announced, windows, lost>>
-----------------------------------------------------------------------------
EvaluationDies(h) ==
  /\ evaluation[h] # "idle" /\ lost < MaxLost
  /\ lost' = lost + 1
  /\ CloseEvaluation(h)
  /\ UNCHANGED <<condition, incident, resolved, justRecorded, announced, windows, oldRuns>>

ConditionChanges ==
  /\ condition' \in HealthStates \ {condition}
  /\ UNCHANGED <<incident, resolved, justRecorded, evaluation, verdict, announced, windows, oldRuns, lost>>

\* RECORD_MIN_INTERVAL_MS passes.
ThrottleEnds(i) ==
  /\ justRecorded' = justRecorded \ {i} /\ i \in justRecorded
  /\ UNCHANGED <<condition, incident, resolved, evaluation, verdict, announced, windows, oldRuns, lost>>

\* HEALTH_RENOTIFY_WINDOW_MS passes; no evaluation takes that long.
WindowEnds ==
  /\ resolved = "recently" /\ windows < MaxWindows
  /\ \A h \in Evaluations : evaluation[h] \notin {"flap_guard", "notify"}
  /\ resolved' = "long_ago"
  /\ windows' = windows + 1
  /\ UNCHANGED <<condition, incident, justRecorded, evaluation, verdict, announced, oldRuns, lost>>

HealthInit ==
  /\ condition = "HEALTHY" /\ incident = "none" /\ resolved = "never"
  /\ justRecorded = {}
  /\ evaluation = [h \in Evaluations |-> "idle"]
  /\ verdict = [h \in Evaluations |-> "none"]
  /\ announced = 0 /\ windows = 0 /\ oldRuns = 0 /\ lost = 0

EvaluationStep(h) ==
  ResolveHealthEvents(h) \/ DropRecord(h) \/ RecordHealthEvent(h) \/ FlapGuard(h) \/ NotifyAdmins(h)

HealthNext ==
  \/ \E h \in Evaluations : RunHealthChecks(h) \/ EvaluationStep(h) \/ ResolveOrphaned(h) \/ EvaluationDies(h)
  \/ ConditionChanges
  \/ \E i \in Instances : ThrottleEnds(i)
  \/ WindowEnds

HealthSpec == HealthInit /\ [][HealthNext]_healthVars
-----------------------------------------------------------------------------
(* What the health monitor promises. *)
\* Every column and local variable keeps its type, and an evaluation carries a
\* verdict exactly while it runs.
HealthTypeOK ==
  /\ condition \in HealthStates /\ incident \in {"none", "WARNING", "CRITICAL"}
  /\ resolved \in {"never", "recently", "long_ago"} /\ justRecorded \subseteq Instances
  /\ evaluation \in [Evaluations -> {"idle", "checked", "flap_guard", "notify"}]
  /\ verdict \in [Evaluations -> HealthStates \cup {"none"}]
  /\ announced \in Nat /\ windows \in Nat /\ oldRuns \in Nat /\ lost \in Nat
  /\ \A h \in Evaluations : verdict[h] = "none" <=> evaluation[h] = "idle"

Announcing == {h \in Evaluations : evaluation[h] = "notify"}

\* A flapping check tells the Admins once per window: however evaluations
\* overlap, a second notification needs a resolution that is six hours old
\* (health-events.ts 236-241).
OneAnnouncementPerWindow ==
  announced + Cardinality(Announcing) <= 1 + windows

\* An incident that is over is closed, although an evaluation that saw the
\* trouble earlier may open it again after the one that closed it
\* (health-monitor.ts 24-45).
RecoveryIsSeen ==
  <>[](condition = "HEALTHY") => <>[](incident = "none")

\* Trouble that stays ends as an open incident of its own severity, although
\* old builds resolve it, stale verdicts resync it and the throttle drops
\* some of the records (health-events.ts 132-172).
TroubleIsSeen ==
  \A s \in {"WARNING", "CRITICAL"} : <>[](condition = s) => <>[](incident = s)

Outdated == condition # IF incident = "none" THEN "HEALTHY" ELSE incident

AwaitedEvaluation(h) == Outdated /\ RunHealthChecks(h) /\ evaluation'[h] = "checked"

\* While the incident does not show the condition, evaluations go on and
\* verify it; a verdict is not kept for ever; time passes.
HealthFairness(h) ==
  /\ WF_healthVars(AwaitedEvaluation(h))
  /\ \A g \in Evaluations : WF_healthVars(EvaluationStep(g))
  /\ \A i \in Instances : WF_healthVars(ThrottleEnds(i))
  /\ SF_healthVars(RecordHealthEvent(h))
=============================================================================
