------------------------------- MODULE MCLoops -------------------------------
(***************************************************************************)
(* Small instances of the parts that run in the background and owe it to   *)
(* their callers to go on: a circuit breaker, the cognitive cycle, the     *)
(* fading of the workspace and the reminders.  They share no state; loop   *)
(* says which of them moves, and the fairness is that of the part that     *)
(* does.                                                                   *)
(***************************************************************************)
EXTENDS CircuitBreaker, CognitiveCycle, GlobalWorkspace, TaskScheduler

CONSTANTS chat, plug
VARIABLE loop

\* The instances: a core plugin after one that can be disabled.
TwoPlugins == <<plug, chat>>
NonePlaced == {}
AlwaysLogged == {TRUE}

loopsVars == <<breakerVars, cycleVars, workspaceVars, schedulerVars, loop>>

LoopsInit ==
    /\ BreakerInit /\ CycleInit /\ WorkspaceInit /\ SchedulerInit
    /\ loop \in {"breaker", "cycle", "workspace", "reminders"}

LoopsNext ==
    /\ \/ /\ loop = "breaker" /\ BreakerNext
          /\ UNCHANGED <<cycleVars, workspaceVars, schedulerVars>>
       \/ /\ loop = "cycle" /\ CycleNext
          /\ UNCHANGED <<breakerVars, workspaceVars, schedulerVars>>
       \/ /\ loop = "workspace" /\ WorkspaceNext
          /\ UNCHANGED <<breakerVars, cycleVars, schedulerVars>>
       \/ /\ loop = "reminders" /\ SchedulerNext
          /\ UNCHANGED <<breakerVars, cycleVars, workspaceVars>>
    /\ UNCHANGED loop

\* A part that does not move owes nothing: its fairness is asked of its steps
\* while it is the one that does.
FairLoopsSpec ==
    /\ LoopsInit /\ [][LoopsNext]_loopsVars
    /\ WF_breakerVars(loop = "breaker" /\ ClockTick)
    /\ \A p \in Callers :
          /\ WF_breakerVars(loop = "breaker" /\ Admit(p))
          /\ WF_breakerVars(loop = "breaker" /\ Finish(p))
    /\ WF_cycleVars(loop = "cycle" /\ Start)
    /\ WF_cycleVars(loop = "cycle" /\ Cycling)
    /\ WF_workspaceVars(loop = "workspace" /\ Cycle)
    /\ WF_workspaceVars(loop = "workspace" /\ Decay)
    /\ WF_schedulerVars(loop = "reminders" /\ ListDue)
    /\ WF_schedulerVars(loop = "reminders" /\ \E i \in Tasks : MarkDone(i))
    /\ WF_schedulerVars(loop = "reminders" /\ ShowReminder)

\* The parts keep their types.
LoopsTypeOK == BreakerTypeOK /\ CycleTypeOK /\ SchedulerTypeOK
=============================================================================
