---------------------------- MODULE TaskScheduler ----------------------------
(***************************************************************************)
(* Reminders: the table of core/plugins/scheduler.py, the check that the   *)
(* consciousness loop of interfaces/main.py makes while it waits, and the  *)
(* operator's /remind and /remind-cancel, which run in a thread beside it. *)
(* Each call of the scheduler is one statement on the table.  Only         *)
(* one-shot reminders are ever added.                                      *)
(***************************************************************************)
EXTENDS Naturals

CONSTANTS
    Tasks,   \* ids that add_task draws
    NoTask   \* nothing is waiting to be printed

ASSUME NoTaskAssumption == NoTask \notin Tasks

VARIABLES
    status,  \* per id: "unused", or the column status
    due,     \* ids whose run_at has passed
    listed,  \* due_tasks the check has still to visit
    marked,  \* the task marked done and not yet printed
    shown,   \* history: how often a reminder was printed
    lost     \* history: marked done, and its printing failed or never came

schedulerVars == <<status, due, listed, marked, shown, lost>>

SchedulerInit ==
    /\ status = [i \in Tasks |-> "unused"] /\ due = {}
    /\ listed = {} /\ marked = NoTask
    /\ shown = [i \in Tasks |-> 0] /\ lost = {}

-----------------------------------------------------------------------------
\* A duration of zero is due at once.
AddTask(i) ==
    /\ status[i] = "unused"
    /\ status' = [status EXCEPT ![i] = "pending"]
    /\ due' \in {due, due \cup {i}}
    /\ UNCHANGED <<listed, marked, shown, lost>>

FallDue(i) ==
    /\ status[i] # "unused" /\ i \notin due
    /\ due' = due \cup {i}
    /\ UNCHANGED <<status, listed, marked, shown, lost>>

CancelTask(i) ==
    /\ status[i] = "pending"
    /\ status' = [status EXCEPT ![i] = "cancelled"]
    /\ UNCHANGED <<due, listed, marked, shown, lost>>

\* Mutant: run_at >= now.
DueTasksReversed == {i \in Tasks : status[i] = "pending" /\ i \notin due}

DueTasks == {i \in Tasks : status[i] = "pending" /\ i \in due}

\* The check begins: list_due.
ListDue ==
    /\ listed = {} /\ marked = NoTask
    /\ listed' = DueTasks
    /\ UNCHANGED <<status, due, marked, shown, lost>>

\* Mutant: a row is left as it is.
DoneKept(i) == status

Done(i) == [status EXCEPT ![i] = "done"]

\* mark_done does not look at the status; the printing comes after it.
MarkDone(i) ==
    /\ i \in listed /\ marked = NoTask
    /\ status' = Done(i)
    /\ listed' = listed \ {i}
    /\ marked' = i
    /\ UNCHANGED <<due, shown, lost>>

\* mark_done raises, and the check ends before the tasks that are left.
MarkRaises ==
    /\ listed # {} /\ marked = NoTask
    /\ listed' = {}
    /\ UNCHANGED <<status, due, marked, shown, lost>>

ShowReminder ==
    /\ marked # NoTask
    /\ shown' = [shown EXCEPT ![marked] = @ + 1]
    /\ marked' = NoTask
    /\ UNCHANGED <<status, due, listed, lost>>

\* The printing raises, or the process dies wherever the check is and is
\* started again.
CheckBreaks ==
    /\ listed # {} \/ marked # NoTask
    /\ lost' = IF marked = NoTask THEN lost ELSE lost \cup {marked}
    /\ listed' = {} /\ marked' = NoTask
    /\ UNCHANGED <<status, due, shown>>

Operator(i) == AddTask(i) \/ CancelTask(i)

SchedulerNext ==
    \/ \E i \in Tasks : Operator(i) \/ FallDue(i) \/ MarkDone(i)
    \/ ListDue \/ MarkRaises \/ ShowReminder \/ CheckBreaks

SchedulerSpec == SchedulerInit /\ [][SchedulerNext]_schedulerVars

\* The loop checks every fifteen seconds, whether or not the rest of it is
\* enabled, and goes through what the check has listed.
FairSchedulerSpec ==
    /\ SchedulerSpec
    /\ WF_schedulerVars(ListDue)
    /\ WF_schedulerVars(\E i \in Tasks : MarkDone(i))
    /\ WF_schedulerVars(ShowReminder)

-----------------------------------------------------------------------------
SchedulerTypeOK ==
    /\ status \in [Tasks -> {"unused", "pending", "done", "cancelled"}]
    /\ due \subseteq Tasks /\ listed \subseteq Tasks /\ lost \subseteq Tasks
    /\ marked \in Tasks \cup {NoTask}
    /\ shown \in [Tasks -> Nat]

\* A reminder is printed at most once, and never when its printing was already
\* given up: not when the check breaks off and the next one lists what is left,
\* not after a restart, and not when it was cancelled while the check ran.
ShownOnce ==
    \A i \in Tasks : shown[i] <= 1 /\ (i \in lost => shown[i] = 0)

\* No reminder is forgotten: once checks no longer break off, every reminder
\* that is due is printed, unless it was cancelled or its printing had failed.
RemindersCome ==
    <>[][~MarkRaises /\ ~CheckBreaks]_schedulerVars =>
        \A i \in Tasks :
            status[i] = "pending" /\ i \in due
                ~> status[i] = "cancelled" \/ shown[i] = 1 \/ i \in lost
=============================================================================
