------------------------------- MODULE Elysium -------------------------------
(***************************************************************************)
(* The Nexus loop (core/hive/elysium.py) over the self-model               *)
(* (core/hive/nexus.py) and the council members (council_member.py): one   *)
(* engine per process, called by /hive commands in threads of their own    *)
(* and by the background reflection.  A proposal is reduced to who made    *)
(* it, an integrated score to the share of the vote it can reach; energies *)
(* and coherence are left out.                                             *)
(***************************************************************************)
EXTENDS Naturals, FiniteSets

CONSTANTS
    Decisions,       \* calls of decide
    Members,         \* names of the CouncilRoles
    Weaver,          \* the role "Nexus", which is also a composite's winner
    MaxReflections   \* bound of the exploration

ASSUME ElysiumAssumption ==
    /\ Weaver \in Members /\ IsFiniteSet(Members) /\ IsFiniteSet(Decisions)
    /\ {"nobody", "reflection"} \cap Decisions = {}
    /\ MaxReflections \in Nat

VARIABLES
    doing,        \* per call of decide: the step it is at
    verdict,      \* per call: what _resolve returned, and from what
    holder,       \* who holds the lock of the self-model
    model,        \* NexusState: the counts of decisions and reflections
    savedModel,   \* the row of nexus_state
    deliberated,  \* calls with a row in elysium_deliberations
    decided,      \* calls with a row in nexus_decisions
    reflected,    \* rows in nexus_reflections
    wins,         \* win_count of each member
    savedWins,    \* the same in council_members
    remembered    \* calls whose decision is in the memory spine

elysiumVars == <<doing, verdict, holder, model, savedModel, deliberated,
                 decided, reflected, wins, savedWins, remembered>>

\* What _resolve answers without any proposal.
NoVerdict == [risky |-> FALSE, carried |-> FALSE, winner |-> "none", text |-> "none"]

ElysiumInit ==
    /\ doing = [d \in Decisions |-> "new"]
    /\ verdict = [d \in Decisions |-> NoVerdict]
    /\ holder = "nobody"
    /\ model = [decisions |-> 0, reflections |-> 0] /\ savedModel = model
    /\ deliberated = {} /\ decided = {} /\ reflected = 0 /\ remembered = {}
    /\ wins = [m \in Members |-> 0] /\ savedWins = wins

-----------------------------------------------------------------------------
\* Shares of the vote the best of n proposals can have, by the thresholds 0.4
\* and 0.7: integrated scores lie between 0.40 and 0.68 and are divided by
\* their sum.
Shares(n) ==
    CASE n = 1 -> {"high"} [] n = 2 -> {"middle"} [] n = 3 -> {"low", "middle"}
      [] n > 3 -> {"low"}

\* _resolve: default-deny for risky goals that are approved, then a composite
\* when no voice dominates.
Resolution(leader, share, risky, refuses) ==
    CASE risky /\ ~refuses /\ share # "high" ->
            [winner |-> "override", text |-> "block"]
      [] ~(risky /\ ~refuses) /\ share = "low" ->
            [winner |-> Weaver, text |-> "composite"]
      [] OTHER ->
            [winner |-> leader, text |-> IF refuses THEN "refusal" ELSE "approval"]

\* _save_state of each of these members writes what it has in memory.
Flushed(saved) == [m \in Members |-> IF m \in saved THEN wins[m] ELSE savedWins[m]]

\* Recall, proposals and critiques: any member may fail to propose, before or
\* after it has saved its state.
Deliberate(d) ==
    /\ doing[d] = "new"
    /\ \E voices, saved \in SUBSET Members, risky, refuses \in BOOLEAN :
         /\ voices \subseteq saved /\ savedWins' = Flushed(saved)
         /\ IF voices = {}
            THEN verdict' = [verdict EXCEPT ![d] = [NoVerdict EXCEPT !.risky = risky]]
            ELSE \E leader \in voices, share \in Shares(Cardinality(voices)) :
                   LET r == Resolution(leader, share, risky, refuses)
                   IN  verdict' = [verdict EXCEPT ![d] =
                           [risky |-> risky, carried |-> share = "high",
                            winner |-> r.winner, text |-> r.text]]
    /\ doing' = [doing EXCEPT ![d] = "persist"]
    /\ UNCHANGED <<holder, model, savedModel, deliberated, decided, reflected,
                   wins, remembered>>

Persist(d) ==
    /\ doing[d] = "persist"
    /\ deliberated' = deliberated \cup {d}
    /\ doing' = [doing EXCEPT ![d] = "integrate"]
    /\ UNCHANGED <<verdict, holder, model, savedModel, decided, reflected,
                   wins, savedWins, remembered>>

\* Mutant: the self-model is saved on the next occasion.
SavedLater == savedModel

Saved == model'

\* integrate_decision, under the lock: the count and the state, then the row.
CountDecision(d) ==
    /\ doing[d] = "integrate" /\ holder = "nobody"
    /\ holder' = d
    /\ model' = [model EXCEPT !.decisions = @ + 1]
    /\ savedModel' = Saved
    /\ doing' = [doing EXCEPT ![d] = "record"]
    /\ UNCHANGED <<verdict, deliberated, decided, reflected, wins, savedWins, remembered>>

RecordDecision(d) ==
    /\ doing[d] = "record"
    /\ decided' = decided \cup {d}
    /\ holder' = "nobody"
    /\ doing' = [doing EXCEPT ![d] = "win"]
    /\ UNCHANGED <<verdict, model, savedModel, deliberated, reflected, wins,
                   savedWins, remembered>>

\* Mutant: every member is credited.
WonByAll(d) == [m \in Members |-> wins[m] + 1]

\* record_win of the member whose name the result carries, if one does.
Won(d) ==
    IF verdict[d].winner \in Members
    THEN [wins EXCEPT ![verdict[d].winner] = @ + 1] ELSE wins

RecordWin(d) ==
    /\ doing[d] = "win"
    /\ wins' = Won(d)
    /\ savedWins' = IF verdict[d].winner \in Members
                    THEN [savedWins EXCEPT ![verdict[d].winner] = wins'[verdict[d].winner]]
                    ELSE savedWins
    /\ doing' = [doing EXCEPT ![d] = "drain"]
    /\ UNCHANGED <<verdict, holder, model, savedModel, deliberated, decided,
                   reflected, remembered>>

\* Every member is drained a little and saved.
Drain(d) ==
    /\ doing[d] = "drain"
    /\ savedWins' = Flushed(Members)
    /\ doing' = [doing EXCEPT ![d] = "remember"]
    /\ UNCHANGED <<verdict, holder, model, savedModel, deliberated, decided,
                   reflected, wins, remembered>>

\* _consolidate_memory stores the decision, or logs that it could not.
Consolidate(d) ==
    /\ doing[d] = "remember"
    /\ remembered' \in {remembered, remembered \cup {d}}
    /\ doing' = [doing EXCEPT ![d] = "done"]
    /\ UNCHANGED <<verdict, holder, model, savedModel, deliberated, decided,
                   reflected, wins, savedWins>>

\* A write of the call raises: the lock is released, the call ends, and what it
\* changed in memory stays, for a later save to write.
WriteRaises(d) ==
    /\ \/ doing[d] = "persist" /\ UNCHANGED <<holder, model, wins, savedWins>>
       \/ /\ doing[d] = "integrate" /\ holder = "nobody"
          /\ model' = [model EXCEPT !.decisions = @ + 1]
          /\ UNCHANGED <<holder, wins, savedWins>>
       \/ /\ doing[d] = "record"
          /\ holder' = "nobody"
          /\ UNCHANGED <<model, wins, savedWins>>
       \/ /\ doing[d] = "win" /\ verdict[d].winner \in Members
          /\ wins' = Won(d)
          /\ UNCHANGED <<holder, model, savedWins>>
       \/ /\ doing[d] = "drain"
          /\ \E saved \in SUBSET Members : savedWins' = Flushed(saved)
          /\ UNCHANGED <<holder, model, wins>>
    /\ doing' = [doing EXCEPT ![d] = "done"]
    /\ UNCHANGED <<verdict, savedModel, deliberated, decided, reflected, remembered>>

\* reflect: the count and the state, then the row, under the same lock; when
\* the state cannot be saved, the count stays in memory.
CountReflection ==
    /\ holder = "nobody" /\ model.reflections < MaxReflections
    /\ model' = [model EXCEPT !.reflections = @ + 1]
    /\ \/ holder' = "reflection" /\ savedModel' = Saved
       \/ UNCHANGED <<holder, savedModel>>
    /\ UNCHANGED <<doing, verdict, deliberated, decided, reflected, wins,
                   savedWins, remembered>>

RecordReflection ==
    /\ holder = "reflection"
    /\ holder' = "nobody"
    /\ reflected' \in {reflected, reflected + 1}
    /\ UNCHANGED <<doing, verdict, model, savedModel, deliberated, decided, wins,
                   savedWins, remembered>>

\* The process dies and is started again.
Restart ==
    /\ doing' = [d \in Decisions |-> IF doing[d] = "new" THEN "new" ELSE "done"]
    /\ holder' = "nobody"
    /\ model' = savedModel /\ wins' = savedWins
    /\ UNCHANGED <<verdict, savedModel, deliberated, decided, reflected,
                   savedWins, remembered>>

Decide(d) ==
    \/ Deliberate(d) \/ Persist(d) \/ CountDecision(d) \/ RecordDecision(d)
    \/ RecordWin(d) \/ Drain(d) \/ Consolidate(d)

ElysiumNext ==
    \/ \E d \in Decisions : Decide(d) \/ WriteRaises(d)
    \/ CountReflection \/ RecordReflection \/ Restart

ElysiumSpec == ElysiumInit /\ [][ElysiumNext]_elysiumVars

-----------------------------------------------------------------------------
Verdicts == [risky : BOOLEAN, carried : BOOLEAN,
             winner : Members \cup {"none", "override"},
             text : {"none", "block", "composite", "refusal", "approval"}]

Counts == [decisions : Nat, reflections : 0 .. MaxReflections]

ElysiumTypeOK ==
    /\ doing \in [Decisions -> {"new", "persist", "integrate", "record", "win",
                                "drain", "remember", "done"}]
    /\ verdict \in [Decisions -> Verdicts]
    /\ holder \in Decisions \cup {"nobody", "reflection"}
    /\ model \in Counts /\ savedModel \in Counts
    /\ deliberated \subseteq Decisions /\ decided \subseteq Decisions
    /\ remembered \subseteq Decisions
    /\ reflected \in Nat
    /\ wins \in [Members -> Nat] /\ savedWins \in [Members -> Nat]

\* What the four databases say of the past never contradicts itself, wherever
\* a write raises, the process dies, or decisions and reflections overlap: a
\* remembered decision has its row, and the self-model has counted at least
\* the decisions that have rows and at most those that were deliberated.
RecordsNest ==
    /\ remembered \subseteq decided /\ decided \subseteq deliberated
    /\ Cardinality(decided) <= savedModel.decisions
    /\ savedModel.decisions <= Cardinality(deliberated)
    /\ reflected <= savedModel.reflections

\* No member has won more often than there are recorded decisions that name
\* it, in memory or in its row, though a win is counted in memory first and any
\* later save of the member may write it.
WinsAreDecided ==
    \A m \in Members :
        LET named == Cardinality({d \in decided : verdict[d].winner = m})
        IN  wins[m] <= named /\ savedWins[m] <= named

\* "Default-Deny Security Override ... High-risk actions require high consensus":
\* the resolution of a risky goal blocks or refuses it, or is carried by a
\* share of the vote that is high.
DefaultDeny ==
    \A d \in Decisions :
        verdict[d].risky /\ verdict[d].text # "none" =>
            verdict[d].text \in {"block", "refusal"} \/ verdict[d].carried
=============================================================================
