----------------------------- MODULE Loops_proofs -----------------------------
(***************************************************************************)
(* Proofs about the parts that run in the background: the breaker, the     *)
(* cognitive cycle and the reminders, each alone and then side by side.    *)
(***************************************************************************)
EXTENDS MCLoops, TLAPS

-----------------------------------------------------------------------------
(* The breaker, for any number of callers and any threshold, timeout and   *)
(* probe count.  Its invariants are inductive only together: a count of    *)
(* probes stays in its type because a half-open breaker still waits for a  *)
(* success, and a closed breaker is healthy because it opens in the step   *)
(* that reaches the threshold.                                             *)

BreakerInv == BreakerTypeOK /\ ClosedIsHealthy /\ HalfOpenIsQuiet /\ HalfOpenAdmits

LEMMA BreakerStarts == BreakerInit => BreakerInv
BY BreakerAssumption
DEF BreakerInit, BreakerInv, BreakerTypeOK, ClosedIsHealthy, HalfOpenIsQuiet, HalfOpenAdmits

LEMMA BreakerStep ==
    ASSUME BreakerInv, [BreakerNext]_breakerVars
    PROVE  BreakerInv'
<1> USE BreakerAssumption
    DEF BreakerInv, BreakerTypeOK, ClosedIsHealthy, HalfOpenIsQuiet, HalfOpenAdmits
<1>1. CASE UNCHANGED breakerVars
  BY <1>1 DEF breakerVars
<1>2. CASE ClockTick
  BY <1>2 DEF ClockTick
<1>3. ASSUME NEW p \in Callers, Admit(p)
      PROVE  BreakerInv'
  BY <1>3 DEF Admit, EnterHalfOpen
<1>4. ASSUME NEW p \in Callers, RecordSuccess(p)
      PROVE  BreakerInv'
  BY <1>4 DEF RecordSuccess
<1>5. ASSUME NEW p \in Callers, RecordFailure(p)
      PROVE  BreakerInv'
  BY <1>5 DEF RecordFailure, OneMore
<1>6. ASSUME NEW p \in Callers, Cancel(p)
      PROVE  BreakerInv'
  BY <1>6 DEF Cancel
<1> QED
  BY <1>1, <1>2, <1>3, <1>4, <1>5, <1>6 DEF BreakerNext, Finish

\* Every variable keeps its type.
THEOREM BreakerTyping == BreakerSpec => []BreakerTypeOK
<1>1. BreakerInv => BreakerTypeOK
  BY DEF BreakerInv
<1> QED
  BY <1>1, BreakerStarts, BreakerStep, PTL DEF BreakerSpec

\* A closed breaker has seen fewer failures than its threshold.
THEOREM Healthy == BreakerSpec => []ClosedIsHealthy
<1>1. BreakerInv => ClosedIsHealthy
  BY DEF BreakerInv
<1> QED
  BY <1>1, BreakerStarts, BreakerStep, PTL DEF BreakerSpec

\* A half-open breaker has been quiet for the recovery time.
THEOREM Probing == BreakerSpec => []HalfOpenIsQuiet
<1>1. BreakerInv => HalfOpenIsQuiet
  BY DEF BreakerInv
<1> QED
  BY <1>1, BreakerStarts, BreakerStep, PTL DEF BreakerSpec

\* A half-open breaker admits the probes that can close it.
THEOREM Admitting == BreakerSpec => []HalfOpenAdmits
<1>1. BreakerInv => HalfOpenAdmits
  BY DEF BreakerInv
<1> QED
  BY <1>1, BreakerStarts, BreakerStep, PTL DEF BreakerSpec

-----------------------------------------------------------------------------
(* The cognitive cycle.                                                    *)

\* A disabled plugin is off in the table, and off in memory while there is a
\* process; a command under way has already changed the flag in memory.
Barred ==
    /\ \A p \in banned : rows[p] = "off" /\ (stage # "down" => registry[p] = "off")
    /\ order # <<>> => stage \notin {"down", "importing"}
    /\ \A p \in Plugins : order = <<"disable", p>> =>
          registry[p] = "off" /\ p \notin CorePlugins
    /\ \A p \in Plugins : order = <<"enable", p>> => p \notin banned

CycleInv == CycleTypeOK /\ Barred

LEMMA CycleStarts == CycleInit => CycleInv
<1> SUFFICES ASSUME CycleInit PROVE CycleInv
    OBVIOUS
<1>1. 1 \in DOMAIN PhaseOrder
    BY CycleAssumption
<1>2. CycleTypeOK
    BY <1>1, CycleAssumption DEF CycleInit, CycleTypeOK, Flags, None
<1>3. Barred
    BY DEF CycleInit, Barred
<1> QED
    BY <1>2, <1>3 DEF CycleInv

\* Starting the process: the table is loaded, new names are registered, the
\* instances wired.
LEMMA StartKeeps == ASSUME CycleInv, Start PROVE CycleInv'
<1> USE CycleAssumption DEF CycleInv
<1>1. CASE Boot
    <2>1. CycleTypeOK'
        BY <1>1 DEF Boot, CycleTypeOK, Flags, None
    <2>2. Barred'
        <3>1. order = <<>>
            BY <1>1 DEF Boot, Barred
        <3>2. \A p \in Plugins : order' # <<"disable", p>> /\ order' # <<"enable", p>>
            BY <1>1, <3>1 DEF Boot
        <3>3. stage' = "importing" /\ rows' = rows /\ registry' = rows
              /\ banned' = banned /\ order' = <<>>
            BY <1>1, <3>1 DEF Boot
        <3> QED
            BY <3>2, <3>3 DEF Barred
    <2> QED
        BY <2>1, <2>2
<1>2. CASE Wire
    <2>1. \A i \in DOMAIN PhaseOrder : PhaseOrder[i] \in Plugins
        BY PhaseOrder \in Seq(Plugins) DEF CycleAssumption
    <2>2. wired' = {PhaseOrder[i] : i \in DOMAIN PhaseOrder}
        BY <1>2 DEF Wire
    <2>3. wired' \subseteq Plugins
        BY <2>1, <2>2, Zenon
    <2> QED
        BY <1>2, <2>3 DEF Wire, CycleTypeOK, Flags, Barred
<1>3. ASSUME NEW p \in Plugins, Register(p) PROVE CycleInv'
    <2>1. CycleTypeOK'
        BY <1>3 DEF Register, CycleTypeOK, Flags
    <2>2. p \notin banned
        BY <1>3 DEF Register, Barred
    <2>3. Barred'
        BY <1>3, <2>2 DEF Register, CycleTypeOK, Flags, Barred
    <2> QED
        BY <2>1, <2>3
<1> QED
    BY <1>1, <1>2, <1>3 DEF Start

\* Moving on keeps the cycle within the phases.
LEMMA MovingOn ==
    ASSUME turn \in DOMAIN PhaseOrder, MoveOn
    PROVE  turn' \in DOMAIN PhaseOrder /\ stage' \in {"rest", "asking"}
BY CycleAssumption DEF MoveOn

LEMMA CyclingKeeps == ASSUME CycleInv, Cycling PROVE CycleInv'
<1> USE DEF CycleInv
<1>1. CASE BeginCycle
    BY <1>1, CycleAssumption DEF BeginCycle, CycleTypeOK, Barred
<1>2. CASE GoAhead
    BY <1>2 DEF GoAhead, CycleTypeOK, Barred
<1>3. CASE PassOver
    BY <1>3, MovingOn DEF PassOver, CycleTypeOK, Barred
<1>4. CASE RunPlugin
    <2> DEFINE p == TurnOf
    <2>1. p \in Plugins /\ stage = "running"
        BY <1>4, CycleAssumption DEF RunPlugin, TurnOf, CycleTypeOK
    <2>2. PICK outcome \in {"returned", "raised"} :
              /\ tally' = [tally EXCEPT ![p] = Counted(@, Surfaces(outcome))]
              /\ streak' = [streak EXCEPT ![p] =
                               IF outcome = "raised"
                               THEN IF @ < TripAt THEN @ + 1 ELSE @
                               ELSE IF Calls(p) THEN 0 ELSE @]
              /\ ran' = IF Calls(p) THEN ran \cup {p} ELSE ran
              /\ AfterRun(outcome)
        BY <1>4 DEF RunPlugin
    <2>3. turn' \in DOMAIN PhaseOrder /\ stage' \in {"rest", "asking"}
        BY <2>2, MovingOn DEF AfterRun, CycleTypeOK
    <2> HIDE DEF p
    <2>4. tally' \in [Plugins -> 0 .. TripAt]
        BY <2>1, <2>2, CycleAssumption DEF Counted, Surfaces, CycleTypeOK
    <2>5. streak' \in [Plugins -> 0 .. TripAt]
        BY <2>1, <2>2, CycleAssumption DEF CycleTypeOK
    <2>6. CycleTypeOK'
        BY <1>4, <2>1, <2>2, <2>3, <2>4, <2>5 DEF RunPlugin, CycleTypeOK
    <2>7. Barred'
        BY <1>4, <2>1, <2>3 DEF RunPlugin, Barred
    <2> QED
        BY <2>6, <2>7
<1> QED
    BY <1>1, <1>2, <1>3, <1>4 DEF Cycling

\* A command changes the flag in memory and then the row.
LEMMA CommandKeeps == ASSUME CycleInv, Command PROVE CycleInv'
<1> USE DEF CycleInv
<1>1. CASE Commit
    <2>1. PICK c \in {"disable", "enable"}, p \in Plugins : order = <<c, p>>
        BY <1>1 DEF Commit, CycleTypeOK
    <2> DEFINE value == IF c = "disable" THEN "off" ELSE "on"
    <2>2. /\ rows' = [rows EXCEPT ![p] = value]
          /\ banned' = IF value = "off" THEN banned \cup {p} ELSE banned
          /\ order' = <<>>
          /\ UNCHANGED <<registry, wired, stage, turn, tally, streak, ran>>
        BY <1>1, <2>1 DEF Commit
    <2>3. CycleTypeOK'
        <3>1. value = "off" => p \notin CorePlugins
            BY <2>1 DEF Barred
        <3> QED
            BY <2>1, <2>2, <3>1 DEF CycleTypeOK, Flags
    <2>4. Barred'
        BY <2>1, <2>2 DEF CycleTypeOK, Flags, Barred
    <2> QED
        BY <2>3, <2>4
<1>2. CASE UpdateRaises
    BY <1>2 DEF UpdateRaises, CycleTypeOK, Barred
<1>3. ASSUME NEW p \in Plugins, Disable(p) PROVE CycleInv'
    <2>1. CycleTypeOK'
        BY <1>3 DEF Disable, Flagged, CycleTypeOK, Flags
    <2>2. Barred'
        BY <1>3 DEF Disable, Flagged, Up, CycleTypeOK, Flags, Barred
    <2> QED
        BY <2>1, <2>2
<1>4. ASSUME NEW p \in Plugins, Enable(p) PROVE CycleInv'
    <2>1. CycleTypeOK'
        BY <1>4 DEF Enable, Flagged, CycleTypeOK, Flags
    <2>2. Barred'
        BY <1>4 DEF Enable, Flagged, Up, CycleTypeOK, Flags, Barred
    <2> QED
        BY <2>1, <2>2
<1> QED
    BY <1>1, <1>2, <1>3, <1>4 DEF Command

LEMMA CycleKeeps == CycleInv /\ [CycleNext]_cycleVars => CycleInv'
<1> SUFFICES ASSUME CycleInv, [CycleNext]_cycleVars PROVE CycleInv'
    OBVIOUS
<1>1. CASE Stop
    BY <1>1 DEF Stop, CycleInv, CycleTypeOK, Barred
<1>2. CASE UNCHANGED cycleVars
    BY <1>2 DEF cycleVars, processVars, CycleInv, CycleTypeOK, Barred
<1> QED
    BY <1>1, <1>2, StartKeeps, CyclingKeeps, CommandKeeps DEF CycleNext

\* The handler of a plugin that is disabled is not the one that is called.
LEMMA OnlyAllowedRun ==
    CycleInv /\ [CycleNext]_cycleVars => (ran' \ ran) \cap banned = {}
<1> SUFFICES ASSUME CycleInv, [CycleNext]_cycleVars
             PROVE  (ran' \ ran) \cap banned = {}
    OBVIOUS
<1>1. CASE RunPlugin
    <2>1. ran' \subseteq ran \cup {q \in {TurnOf} : Calls(q)} /\ stage = "running"
        BY <1>1 DEF RunPlugin
    <2>2. Calls(TurnOf) => TurnOf \notin banned
        BY <2>1 DEF Calls, CycleInv, Barred
    <2> QED
        BY <2>1, <2>2
<1>2. CASE ~RunPlugin
    <2>1. ran' \in {ran, {}}
        BY <1>2 DEF CycleNext, Start, Boot, Wire, Register, Cycling, BeginCycle,
            GoAhead, PassOver, Command, Commit, UpdateRaises, Disable, Enable,
            Stop, cycleVars, processVars
    <2> QED
        BY <2>1
<1> QED
    BY <1>1, <1>2

\* Every variable of the registry and the cycle keeps its type.
THEOREM CycleTyping == CycleSpec => []CycleTypeOK
<1>1. CycleInv => CycleTypeOK
    BY DEF CycleInv
<1> QED
    BY <1>1, CycleStarts, CycleKeeps, PTL DEF CycleSpec

\* For any plugins and any phases: the handler of a disabled plugin is not
\* called, by the cycle that had asked for it, after a restart, or because its
\* module registers itself again.
THEOREM DisabledStay == CycleSpec => DisabledStaysOut
<1> QED
    BY CycleStarts, CycleKeeps, OnlyAllowedRun, PTL DEF CycleSpec, DisabledStaysOut

-----------------------------------------------------------------------------
(* The reminders.                                                          *)

\* What has been printed or given up was marked done, and is neither listed nor
\* about to be printed.
Settled ==
    /\ marked # NoTask => status[marked] = "done" /\ marked \notin listed
    /\ \A i \in listed : status[i] \in {"pending", "cancelled"}
    /\ \A i \in Tasks :
          shown[i] # 0 \/ i \in lost => status[i] = "done" /\ marked # i

SchedulerInv == SchedulerTypeOK /\ Settled /\ ShownOnce

LEMMA SchedulerStarts == SchedulerInit => SchedulerInv
BY NoTaskAssumption
   DEF SchedulerInit, SchedulerInv, SchedulerTypeOK, Settled, ShownOnce

LEMMA SchedulerKeeps == SchedulerInv /\ [SchedulerNext]_schedulerVars => SchedulerInv'
<1> SUFFICES ASSUME SchedulerInv, [SchedulerNext]_schedulerVars PROVE SchedulerInv'
    OBVIOUS
<1> USE NoTaskAssumption DEF SchedulerInv, SchedulerTypeOK, Settled, ShownOnce
<1>1. ASSUME NEW i \in Tasks, AddTask(i) PROVE SchedulerInv'
    BY <1>1 DEF AddTask
<1>2. ASSUME NEW i \in Tasks, CancelTask(i) PROVE SchedulerInv'
    BY <1>2 DEF CancelTask
<1>3. ASSUME NEW i \in Tasks, FallDue(i) PROVE SchedulerInv'
    BY <1>3 DEF FallDue
<1>4. ASSUME NEW i \in Tasks, MarkDone(i) PROVE SchedulerInv'
    BY <1>4 DEF MarkDone, Done
<1>5. CASE ListDue
    BY <1>5 DEF ListDue, DueTasks
<1>6. CASE MarkRaises
    BY <1>6 DEF MarkRaises
<1>7. CASE ShowReminder
    BY <1>7 DEF ShowReminder
<1>8. CASE CheckBreaks
    BY <1>8 DEF CheckBreaks
<1>9. CASE UNCHANGED schedulerVars
    BY <1>9 DEF schedulerVars
<1> QED
    BY <1>1, <1>2, <1>3, <1>4, <1>5, <1>6, <1>7, <1>8, <1>9
       DEF SchedulerNext, Operator

\* For any number of reminders: each is printed at most once, and never after
\* its printing was given up.
THEOREM PrintedOnce == SchedulerSpec => []ShownOnce
<1>1. SchedulerInv => ShownOnce
    BY DEF SchedulerInv
<1> QED
    BY <1>1, SchedulerStarts, SchedulerKeeps, PTL DEF SchedulerSpec
-----------------------------------------------------------------------------
(* The parts side by side.                                                 *)

\* A step of the loops is a step of each part, or leaves it alone.
LEMMA LoopsMoveApart ==
    ASSUME [LoopsNext]_loopsVars
    PROVE  [BreakerNext]_breakerVars /\ [CycleNext]_cycleVars /\ [SchedulerNext]_schedulerVars
BY DEF LoopsNext, loopsVars

\* While one part moves the others keep their state: all keep their types, in
\* any interleaving and for any size of any of them.
THEOREM LoopsTyping == FairLoopsSpec => []LoopsTypeOK
<1> DEFINE Inv == BreakerInv /\ CycleInv /\ SchedulerInv
<1>1. LoopsInit => Inv
    BY BreakerStarts, CycleStarts, SchedulerStarts DEF LoopsInit
<1>2. Inv /\ [LoopsNext]_loopsVars => Inv'
    BY LoopsMoveApart, BreakerStep, CycleKeeps, SchedulerKeeps
<1>3. Inv => LoopsTypeOK
    BY DEF BreakerInv, CycleInv, SchedulerInv, LoopsTypeOK
<1> HIDE DEF Inv
<1> QED
    BY <1>1, <1>2, <1>3, PTL DEF FairLoopsSpec
===============================================================================
