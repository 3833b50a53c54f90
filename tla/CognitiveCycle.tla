--------------------------- MODULE CognitiveCycle ---------------------------
(***************************************************************************)
(* The plugin registry (core/cognitive_architecture.py) and the phased     *)
(* cycle over it (CognitiveOrchestrator.run_cycle), as interfaces/main.py  *)
(* starts them: modules register themselves when imported, main wires its  *)
(* instances, the cycle runs on the event loop, and the operator's enable  *)
(* and disable run in a thread beside it.  Of a plugin's breaker only what *)
(* the cycle tells it is here; CircuitBreaker models the rest.             *)
(***************************************************************************)
EXTENDS Naturals, Sequences, FiniteSets

CONSTANTS
    Plugins,
    PhaseOrder,    \* the names of PHASES, phase after phase
    CorePlugins,   \* is_core or in CORE_PLUGINS
    EveryCycle,    \* plugins of frequency 1 without a condition
    TripAt         \* failure_threshold of their breakers

ASSUME CycleAssumption ==
    /\ PhaseOrder \in Seq(Plugins) /\ PhaseOrder # <<>>
    /\ CorePlugins \subseteq Plugins /\ EveryCycle \subseteq Plugins
    /\ TripAt \in Nat \ {0}

VARIABLES
    registry,  \* _plugins: "absent", "on" or "off" (enabled)
    rows,      \* the same in the table cognitive_plugins
    wired,     \* plugins that have an instance
    stage,     \* of the process: "down", "importing", "rest", "asking", "running"
    turn,      \* the place in PhaseOrder the cycle is at
    order,     \* the command under way: <<>> or <<command, plugin>>
    tally,     \* per plugin: _failures of its breaker
    streak,    \* history: how often its handler raised in a row, up to TripAt
    ran,       \* history: plugins whose handler was called in this cycle
    banned     \* history: disabled with success, not enabled again

processVars == <<registry, wired, stage, turn, order, tally, streak, ran>>
cycleVars == <<processVars, rows, banned>>

None == [p \in Plugins |-> 0]

CycleInit ==
    /\ registry = [p \in Plugins |-> "absent"] /\ rows = registry
    /\ wired = {} /\ stage = "down" /\ turn = 1 /\ order = <<>>
    /\ tally = None /\ streak = None /\ ran = {} /\ banned = {}

-----------------------------------------------------------------------------
\* _load_registry: rows come back without an instance.
Boot ==
    /\ stage = "down"
    /\ stage' = "importing"
    /\ registry' = rows
    /\ wired' = {} /\ tally' = None /\ streak' = None /\ ran' = {}
    /\ UNCHANGED <<rows, turn, order, banned>>

\* _register of a plugin's module: only a name that was never registered is,
\* enabled, in memory and then in the table.
Register(p) ==
    /\ stage = "importing"
    /\ registry[p] = "absent"
    /\ registry' = [registry EXCEPT ![p] = "on"]
    /\ rows' = [rows EXCEPT ![p] = "on"]
    /\ UNCHANGED <<wired, stage, turn, order, tally, streak, ran, banned>>

\* _wire_singletons, once every import is done.
Wire ==
    /\ stage = "importing"
    /\ \A p \in Plugins : registry[p] # "absent"
    /\ wired' = {PhaseOrder[i] : i \in DOMAIN PhaseOrder}
    /\ stage' = "rest"
    /\ UNCHANGED <<registry, rows, turn, order, tally, streak, ran, banned>>

-----------------------------------------------------------------------------
TurnOf == PhaseOrder[turn]

BeginCycle ==
    /\ stage = "rest"
    /\ stage' = "asking" /\ turn' = 1 /\ ran' = {}
    /\ UNCHANGED <<registry, rows, wired, order, tally, streak, banned>>

\* The cycle goes on with the next name, or ends after the last.
MoveOn ==
    IF turn = Len(PhaseOrder)
    THEN stage' = "rest" /\ UNCHANGED turn
    ELSE stage' = "asking" /\ turn' = turn + 1

\* can_execute of a breaker whose recovery time has not passed.
Shut(p) == tally[p] >= TripAt

\* should_run_cycle and the breaker let the plugin run.
GoAhead ==
    /\ stage = "asking"
    /\ registry[TurnOf] = "on" /\ ~Shut(TurnOf)
    /\ stage' = "running"
    /\ UNCHANGED <<registry, rows, wired, turn, order, tally, streak, ran, banned>>

\* Unknown, disabled, not due in this iteration, or held off by its breaker.
PassOver ==
    /\ stage = "asking"
    /\ \/ registry[TurnOf] # "on"
       \/ TurnOf \notin EveryCycle
       \/ Shut(TurnOf)
    /\ MoveOn
    /\ UNCHANGED <<registry, rows, wired, order, tally, streak, ran, banned>>

\* Mutant: the second look at enabled is gone.
CallsWhenAsked(p) == p \in wired

\* CognitivePlugin.run_cycle calls the handler.
Calls(p) == p \in wired /\ registry[p] = "on"

\* What run_cycle lets its caller see: it logs an exception and returns.
Surfaces(outcome) == "returned"

\* record_success after a return, record_failure after an exception.
Counted(n, outcome) ==
    CASE outcome = "returned" -> IF n = 0 THEN 0 ELSE n - 1
      [] outcome = "raised" -> IF n < TripAt THEN n + 1 ELSE n

\* Mutant: a plugin that fails ends the cycle.
AfterRunAborts(outcome) ==
    IF outcome = "raised" THEN stage' = "rest" /\ UNCHANGED turn ELSE MoveOn

AfterRun(outcome) == MoveOn

\* The plugin is run and its breaker told; both branches go on to the next.
RunPlugin ==
    LET p == TurnOf
    IN  /\ stage = "running"
        /\ \E outcome \in IF Calls(p) THEN {"returned", "raised"} ELSE {"returned"} :
             /\ tally' = [tally EXCEPT ![p] = Counted(@, Surfaces(outcome))]
             /\ streak' = [streak EXCEPT ![p] =
                              IF outcome = "raised" THEN IF @ < TripAt THEN @ + 1 ELSE @
                              ELSE IF Calls(p) THEN 0 ELSE @]
             /\ ran' = IF Calls(p) THEN ran \cup {p} ELSE ran
             /\ AfterRun(outcome)
        /\ UNCHANGED <<registry, rows, wired, order, banned>>

-----------------------------------------------------------------------------
Up == stage \notin {"down", "importing"}

Flagged(p, value) == [registry EXCEPT ![p] = value]

\* disable and enable change the flag in memory, then the row.  A disable that
\* is refused changes nothing.
Disable(p) ==
    /\ Up /\ order = <<>>
    /\ registry[p] # "absent" /\ p \notin CorePlugins
    /\ registry' = Flagged(p, "off")
    /\ order' = <<"disable", p>>
    /\ UNCHANGED <<rows, wired, stage, turn, tally, streak, ran, banned>>

Enable(p) ==
    /\ Up /\ order = <<>>
    /\ registry[p] # "absent"
    /\ registry' = Flagged(p, "on")
    /\ order' = <<"enable", p>>
    /\ banned' = banned \ {p}
    /\ UNCHANGED <<rows, wired, stage, turn, tally, streak, ran>>

\* The UPDATE is committed and the operator told, or it raises and the
\* command ends in an error.
Commit ==
    /\ order # <<>>
    /\ LET p == order[2]
           value == IF order[1] = "disable" THEN "off" ELSE "on"
       IN  /\ rows' = [rows EXCEPT ![p] = value]
           /\ banned' = IF value = "off" THEN banned \cup {p} ELSE banned
    /\ order' = <<>>
    /\ UNCHANGED <<registry, wired, stage, turn, tally, streak, ran>>

UpdateRaises ==
    /\ order # <<>>
    /\ order' = <<>>
    /\ UNCHANGED <<registry, rows, wired, stage, turn, tally, streak, ran, banned>>

\* What is left is the table.
Stop ==
    /\ stage # "down"
    /\ stage' = "down" /\ order' = <<>>
    /\ UNCHANGED <<registry, rows, wired, turn, tally, streak, ran, banned>>

Start == Boot \/ Wire \/ \E p \in Plugins : Register(p)

Cycling == BeginCycle \/ GoAhead \/ PassOver \/ RunPlugin

Command == Commit \/ UpdateRaises \/ \E p \in Plugins : Disable(p) \/ Enable(p)

CycleNext == Start \/ Cycling \/ Command \/ Stop

CycleSpec == CycleInit /\ [][CycleNext]_cycleVars

\* The operator starts the program again and the loop never rests for good; a
\* plugin that is due is not passed over.
FairCycleSpec ==
    CycleSpec /\ WF_cycleVars(Start) /\ WF_cycleVars(Cycling)

-----------------------------------------------------------------------------
Flags == [Plugins -> {"absent", "on", "off"}]

CycleTypeOK ==
    /\ registry \in Flags /\ rows \in Flags
    /\ wired \subseteq Plugins
    /\ stage \in {"down", "importing", "rest", "asking", "running"}
    /\ turn \in DOMAIN PhaseOrder
    /\ order \in {<<>>} \cup ({"disable", "enable"} \X Plugins)
    /\ tally \in [Plugins -> 0 .. TripAt] /\ streak \in [Plugins -> 0 .. TripAt]
    /\ ran \subseteq Plugins
    /\ banned \subseteq Plugins \ CorePlugins

\* The handler of a plugin the operator disabled is not called until it is
\* enabled again: not by the cycle that had already asked for it, not after a
\* restart that loads the table, and not because its module is imported again.
DisabledStaysOut == [][(ran' \ ran) \cap banned = {}]_cycleVars

\* One plugin never silences another: whatever handlers raise, every plugin
\* that stays enabled and is due on every cycle is called again and again.
NobodyStarves ==
    \A p \in EveryCycle :
        <>[](stage # "down" /\ registry[p] = "on") => []<>(p \in ran)

\* "One full consciousness cycle in phases with circuit breaker protection":
\* a handler that raised as often in a row as the threshold of its breaker is
\* held off by it.
TroubledIsHeldOff == \A p \in Plugins : streak[p] >= TripAt => Shut(p)
=============================================================================
