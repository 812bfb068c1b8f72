--------------------------- MODULE TaskReminders ---------------------------
(***************************************************************************)
(* Tasks and the reminders about them, server/actions/tasks.ts.  A task's  *)
(* dueNotifiedAt says that its reminder has been claimed; reopening a task *)
(* and moving its due date clear it.  One action is one database statement *)
(* of one invocation p.                                                    *)
(***************************************************************************)
EXTENDS Integers, FiniteSets

CONSTANTS
  Tasks,
  Agents,        \* accounts a task may be assigned to
  Desks,         \* invocations
  LastHour,      \* bounds the clock
  DueHours,      \* the due dates that are entered
  MaxEdits,      \* bounds the resets of dueNotifiedAt per task
  MaxKills,      \* bounds the invocations that die
  DueSoon,       \* DUE_SOON_WINDOW_MS, in hours
  Unassigned, NoTask, NoDate

ASSUME TaskConstants ==
  /\ IsFiniteSet(Desks)
  /\ Unassigned \notin Agents /\ NoTask \notin Tasks /\ NoDate \notin Nat
  /\ LastHour \in Nat /\ DueHours \subseteq Nat
  /\ MaxEdits \in Nat /\ MaxKills \in Nat /\ DueSoon \in Nat

VARIABLES
  task,        \* Task.status, "none" before and "deleted" after the row
  dueAt,       \* Task.dueAt
  assignee,    \* Task.assigneeId
  notified,    \* dueNotifiedAt is set
  hour,        \* the clock
  desk,        \* [Desks -> the invocation's next statement]
  dueList,     \* the tasks it still has to remind of
  readDue,     \* the due dates it read with them, NoDate for the other tasks
  onTask,      \* the task it claimed or edits
  formDue,     \* the due date it is to write
  formReset,   \* whether that write clears dueNotifiedAt
  \* history
  cycles,      \* how often a reminder became possible
  reminders,   \* notifications created
  told,        \* a notification named the present date in the present cycle
  spoiled,     \* in the present cycle a claim died or met another date than its
               \* run had read, or an edit put back a date without clearing
  kills

taskVars == <<task, dueAt, assignee, notified>>
storyVars == <<cycles, reminders, told, spoiled>>
deskVars == <<desk, dueList, readDue, onTask, formDue, formReset, kills>>
reminderVars == <<taskVars, storyVars, deskVars, hour>>

Rows == {t \in Tasks : task[t] \in {"PENDING", "COMPLETED"}}

RemindersDue ==
  {t \in Tasks : /\ task[t] = "PENDING" /\ assignee[t] # Unassigned
                 /\ dueAt[t] # NoDate /\ dueAt[t] <= hour + DueSoon
                 /\ ~notified[t]}

Undated == [t \in Tasks |-> NoDate]

Home(p) ==
  /\ desk' = [desk EXCEPT ![p] = "idle"]
  /\ dueList' = [dueList EXCEPT ![p] = {}]
  /\ readDue' = [readDue EXCEPT ![p] = Undated]
  /\ onTask' = [onTask EXCEPT ![p] = NoTask]
  /\ formDue' = [formDue EXCEPT ![p] = NoDate]
  /\ formReset' = [formReset EXCEPT ![p] = FALSE]

\* Bounds the resets: those made and those under way.
MayReset(t) ==
  cycles[t] + Cardinality({p \in Desks : onTask[p] = t /\ (formReset[p] \/ desk[p] = "reopen")}) < MaxEdits

Opens(t) ==
  /\ cycles' = [cycles EXCEPT ![t] = @ + 1]
  /\ told' = [told EXCEPT ![t] = FALSE]
  /\ spoiled' = [spoiled EXCEPT ![t] = FALSE]
-----------------------------------------------------------------------------
(* createTask, updateTask, reassignTask, toggleTask, deleteTask *)

CreateTask(t, date, who) ==
  /\ task[t] = "none"
  /\ task' = [task EXCEPT ![t] = "PENDING"]
  /\ dueAt' = [dueAt EXCEPT ![t] = date]
  /\ assignee' = [assignee EXCEPT ![t] = who]
  /\ Opens(t)
  /\ UNCHANGED <<notified, reminders, deskVars, hour>>

\* Whether the date moves is judged against the row as read.
ReadForUpdate(p, t, date) ==
  /\ desk[p] = "idle" /\ t \in Rows
  /\ date # dueAt[t] => MayReset(t)
  /\ desk' = [desk EXCEPT ![p] = "update"]
  /\ onTask' = [onTask EXCEPT ![p] = t]
  /\ formDue' = [formDue EXCEPT ![p] = date]
  /\ formReset' = [formReset EXCEPT ![p] = date # dueAt[t]]
  /\ UNCHANGED <<taskVars, storyVars, dueList, readDue, kills, hour>>

\* Defect: moving the due date does not clear dueNotifiedAt.
UpdateForgetsReset(p, who) ==
  /\ desk[p] = "update" /\ onTask[p] \in Rows
  /\ LET t == onTask[p]
     IN  /\ who \in Agents \cup {Unassigned, assignee[t]}
         /\ dueAt' = [dueAt EXCEPT ![t] = formDue[p]]
         /\ assignee' = [assignee EXCEPT ![t] = who]
         /\ IF formReset[p] THEN Opens(t) ELSE UNCHANGED <<cycles, told, spoiled>>
  /\ Home(p)
  /\ UNCHANGED <<task, notified, reminders, kills, hour>>

UpdateTask(p, who) ==
  /\ desk[p] = "update" /\ onTask[p] \in Rows
  /\ LET t == onTask[p]
         moved == formDue[p] # dueAt[t]
     IN  /\ who \in Agents \cup {Unassigned, assignee[t]}
         /\ dueAt' = [dueAt EXCEPT ![t] = formDue[p]]
         /\ assignee' = [assignee EXCEPT ![t] = who]
         /\ notified' = [notified EXCEPT ![t] = @ /\ ~formReset[p]]
         /\ IF formReset[p] THEN Opens(t)
            ELSE /\ told' = [told EXCEPT ![t] = @ /\ ~moved]
                 /\ spoiled' = [spoiled EXCEPT ![t] = @ \/ moved]
                 /\ UNCHANGED cycles
  /\ Home(p)
  /\ UNCHANGED <<task, reminders, kills, hour>>

ReassignTask(t, who) ==
  /\ t \in Rows /\ who # assignee[t]
  /\ assignee' = [assignee EXCEPT ![t] = who]
  /\ UNCHANGED <<task, dueAt, notified, storyVars, deskVars, hour>>

ReadForToggle(p, t) ==
  /\ desk[p] = "idle" /\ t \in Rows
  /\ task[t] = "COMPLETED" => MayReset(t)
  /\ desk' = [desk EXCEPT ![p] = IF task[t] = "PENDING" THEN "complete" ELSE "reopen"]
  /\ onTask' = [onTask EXCEPT ![p] = t]
  /\ UNCHANGED <<taskVars, storyVars, dueList, readDue, formDue, formReset, kills, hour>>

CompleteTask(p) ==
  /\ desk[p] = "complete" /\ onTask[p] \in Rows
  /\ task' = [task EXCEPT ![onTask[p]] = "COMPLETED"]
  /\ Home(p)
  /\ UNCHANGED <<dueAt, assignee, notified, storyVars, kills, hour>>

ReopenTask(p) ==
  /\ desk[p] = "reopen" /\ onTask[p] \in Rows
  /\ task' = [task EXCEPT ![onTask[p]] = "PENDING"]
  /\ notified' = [notified EXCEPT ![onTask[p]] = FALSE]
  /\ Opens(onTask[p])
  /\ Home(p)
  /\ UNCHANGED <<dueAt, assignee, reminders, kills, hour>>

DeleteTask(t) ==
  /\ t \in Rows
  /\ task' = [task EXCEPT ![t] = "deleted"]
  /\ UNCHANGED <<dueAt, assignee, notified, storyVars, deskVars, hour>>
-----------------------------------------------------------------------------
(* processDueTaskNotifications *)

\* The rows of the query, dates and assignees included, are kept for the whole run.
ReadReminders(p) ==
  /\ desk[p] = "idle" /\ RemindersDue # {}
  /\ desk' = [desk EXCEPT ![p] = "scan"]
  /\ dueList' = [dueList EXCEPT ![p] = RemindersDue]
  /\ readDue' = [readDue EXCEPT ![p] = [t \in Tasks |-> IF t \in RemindersDue THEN dueAt[t] ELSE NoDate]]
  /\ UNCHANGED <<taskVars, storyVars, onTask, formDue, formReset, kills, hour>>

\* The claim repeats dueNotifiedAt: null and nothing else of the query: a date
\* that was moved since, and cleared the mark, is marked instead of the one read.
Remindable(t) == t \in Rows /\ ~notified[t]

ClaimReminder(p, t) ==
  /\ desk[p] = "scan" /\ t \in dueList[p]
  /\ Remindable(t)
  /\ notified' = [notified EXCEPT ![t] = TRUE]
  /\ desk' = [desk EXCEPT ![p] = "remind"]
  /\ dueList' = [dueList EXCEPT ![p] = @ \ {t}]
  /\ onTask' = [onTask EXCEPT ![p] = t]
  /\ spoiled' = [spoiled EXCEPT ![t] = @ \/ readDue[p][t] # dueAt[t]]
  /\ UNCHANGED <<task, dueAt, assignee, cycles, reminders, told, readDue, formDue, formReset, kills, hour>>

SkipReminder(p, t) ==
  /\ desk[p] = "scan" /\ t \in dueList[p]
  /\ ~Remindable(t)
  /\ dueList' = [dueList EXCEPT ![p] = @ \ {t}]
  /\ UNCHANGED <<taskVars, storyVars, desk, readDue, onTask, formDue, formReset, kills, hour>>

\* For the assignee, and of the date, that the run read; the e-mail that follows
\* names the same date and changes no state.
CreateReminder(p) ==
  /\ desk[p] = "remind" /\ onTask[p] \in Rows
  /\ reminders' = [reminders EXCEPT ![onTask[p]] = @ + 1]
  /\ told' = [told EXCEPT ![onTask[p]] = @ \/ readDue[p][onTask[p]] = dueAt[onTask[p]]]
  /\ desk' = [desk EXCEPT ![p] = "scan"]
  /\ onTask' = [onTask EXCEPT ![p] = NoTask]
  /\ UNCHANGED <<taskVars, cycles, spoiled, dueList, readDue, formDue, formReset, kills, hour>>

ScanDone(p) ==
  /\ desk[p] = "scan" /\ dueList[p] = {}
  /\ Home(p)
  /\ UNCHANGED <<taskVars, storyVars, kills, hour>>

\* The row is gone: the statement throws, and ends a whole run.
TaskVanished(p) ==
  /\ desk[p] \in {"update", "complete", "reopen", "remind"} /\ onTask[p] \notin Rows
  /\ Home(p)
  /\ UNCHANGED <<taskVars, storyVars, kills, hour>>

DeskDies(p) ==
  /\ desk[p] # "idle" /\ kills < MaxKills
  /\ kills' = kills + 1
  /\ spoiled' = IF desk[p] = "remind" THEN [spoiled EXCEPT ![onTask[p]] = TRUE] ELSE spoiled
  /\ Home(p)
  /\ UNCHANGED <<taskVars, cycles, reminders, told, hour>>

HourPasses ==
  /\ hour < LastHour
  /\ hour' = hour + 1
  /\ UNCHANGED <<taskVars, storyVars, deskVars>>
-----------------------------------------------------------------------------
ReminderInit ==
  /\ task = [t \in Tasks |-> "none"]
  /\ dueAt = [t \in Tasks |-> NoDate]
  /\ assignee = [t \in Tasks |-> Unassigned]
  /\ notified = [t \in Tasks |-> FALSE]
  /\ hour = 0
  /\ desk = [p \in Desks |-> "idle"]
  /\ dueList = [p \in Desks |-> {}] /\ readDue = [p \in Desks |-> Undated]
  /\ onTask = [p \in Desks |-> NoTask]
  /\ formDue = [p \in Desks |-> NoDate]
  /\ formReset = [p \in Desks |-> FALSE]
  /\ cycles = [t \in Tasks |-> 0]
  /\ reminders = [t \in Tasks |-> 0]
  /\ told = [t \in Tasks |-> FALSE]
  /\ spoiled = [t \in Tasks |-> FALSE]
  /\ kills = 0

DeskStep(p) ==
  \/ \E who \in Agents \cup {Unassigned} : UpdateTask(p, who)
  \/ CompleteTask(p) \/ ReopenTask(p)
  \/ \E t \in Tasks : ClaimReminder(p, t) \/ SkipReminder(p, t)
  \/ CreateReminder(p) \/ ScanDone(p) \/ TaskVanished(p)

ReminderNext ==
  \/ \E p \in Desks :
       \/ ReadReminders(p) \/ DeskStep(p) \/ DeskDies(p)
       \/ \E t \in Tasks : ReadForToggle(p, t)
       \/ \E t \in Tasks, date \in DueHours \cup {NoDate} : ReadForUpdate(p, t, date)
  \/ \E t \in Tasks, date \in DueHours \cup {NoDate}, who \in Agents : CreateTask(t, date, who)
  \/ \E t \in Tasks, who \in Agents : ReassignTask(t, who)
  \/ \E t \in Tasks : DeleteTask(t)
  \/ HourPasses

ReminderSpec == ReminderInit /\ [][ReminderNext]_reminderVars
-----------------------------------------------------------------------------
(* What the reminders promise. *)
\* Every column and local variable keeps its type, and an invocation has a
\* task in hand exactly while it edits it or reminds of it.
ReminderTypeOK ==
  /\ task \in [Tasks -> {"none", "PENDING", "COMPLETED", "deleted"}]
  /\ dueAt \in [Tasks -> Nat \cup {NoDate}] /\ assignee \in [Tasks -> Agents \cup {Unassigned}]
  /\ notified \in [Tasks -> BOOLEAN] /\ hour \in Nat
  /\ desk \in [Desks -> {"idle", "update", "complete", "reopen", "scan", "remind"}]
  /\ dueList \in [Desks -> SUBSET Tasks]
  /\ readDue \in [Desks -> [Tasks -> Nat \cup {NoDate}]]
  /\ onTask \in [Desks -> Tasks \cup {NoTask}]
  /\ formDue \in [Desks -> Nat \cup {NoDate}] /\ formReset \in [Desks -> BOOLEAN]
  /\ cycles \in [Tasks -> Nat] /\ reminders \in [Tasks -> Nat]
  /\ told \in [Tasks -> BOOLEAN] /\ spoiled \in [Tasks -> BOOLEAN] /\ kills \in Nat
  /\ \A p \in Desks : onTask[p] # NoTask <=> desk[p] \in {"update", "complete", "reopen", "remind"}

Reminding(t) == {p \in Desks : desk[p] = "remind" /\ onTask[p] = t}

\* A task is reminded of once per creation, reopening or change of its due
\* date, however many runs overlap (tasks.ts 278-297).
OneReminderPerCycle ==
  \A t \in Tasks : reminders[t] + Cardinality(Reminding(t)) <= cycles[t]

\* Those of them whose notification will name the date the task now has.
InTime(t) == {p \in Reminding(t) : readDue[p][t] = dueAt[t]}

\* A task that counts as reminded of was reminded of with the due date it has, or
\* is about to be.  Excepted, until the mark is cleared again: a run that died
\* between its claim and its notification (298-312), one whose claim met another
\* due date than it had read, which marks the new date and reminds of the old
\* (295, against 293-294: a new date gets "a fresh cycle"), and two edits of the
\* due date that crossed (131-143).
NotifiedMeansTold ==
  \A t \in Rows : notified[t] => told[t] \/ InTime(t) # {} \/ spoiled[t]

\* A pending task that is due is reminded of, put off, closed or deleted:
\* what a run leaves behind, the next one finds (260-266).
DueIsReminded ==
  \A t \in Tasks : t \in RemindersDue ~> t \notin RemindersDue

\* Cron calls keep coming, and an invocation that is not killed goes on.
ReminderFairness(p) ==
  /\ SF_reminderVars(ReadReminders(p))
  /\ \A q \in Desks : WF_reminderVars(DeskStep(q))
  /\ \A t \in Tasks : SF_reminderVars(ClaimReminder(p, t))
=============================================================================
