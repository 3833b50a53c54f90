-------------------------- MODULE SelfModification --------------------------
(***************************************************************************)
(* The self-improvement journal (core/self_modify.py): one long-lived      *)
(* object whose cycle the orchestrator calls, with lists loaded from the   *)
(* database when the process starts, and the operator's /proposals         *)
(* command, which uses a new object for each call.  Scores, areas and the  *)
(* meta-learning rows are left out; a call into the database may raise.    *)
(***************************************************************************)
EXTENDS Naturals, Sequences, FiniteSets

CONSTANTS
    LoadLimit,     \* rows _load_proposals reads, the newest: 10
    MaxPending,    \* MAX_PENDING_PROPOSALS
    MaxProposals,  \* bounds of the exploration
    MaxPlans

ASSUME JournalAssumption ==
    /\ LoadLimit \in Nat \ {0} /\ MaxPending \in Nat \ {0}
    /\ MaxProposals \in Nat /\ MaxPlans \in Nat

VARIABLES
    proposals,   \* the status of each row of self_modify_proposals, in order
    considered,  \* the rows self.proposals holds as pending
    plans,       \* the status of each row of improvement_plans, in order
    intended,    \* the plans in self.improvement_plans: all held as active
    learned,     \* self.lessons is not empty
    part,        \* the part of cycle the object is in
    unchecked    \* plans the loop of validations has still to visit

journalVars == <<proposals, considered, plans, intended, learned, part, unchecked>>

JournalInit ==
    /\ proposals = <<>> /\ considered = {}
    /\ plans = <<>> /\ intended = {} /\ learned = FALSE
    /\ part = "rest" /\ unchecked = {}

-----------------------------------------------------------------------------
Newest == {i \in DOMAIN proposals : i + LoadLimit > Len(proposals)}

PendingNow == {i \in Newest : proposals[i] = "pending"}

ActivePlans == {i \in DOMAIN plans : plans[i] = "active"}

\* A new process loads the lists; learned_lessons keeps its rows.
Reload ==
    /\ considered' = PendingNow
    /\ intended' = ActivePlans
    /\ part' = "rest" /\ unchecked' = {}
    /\ UNCHANGED <<proposals, plans, learned>>

\* cycle starts; with an interaction it assesses it, may extract a lesson, and
\* goes through the plans it holds.
BeginJournal ==
    /\ part = "rest"
    /\ \/ part' = "form" /\ UNCHANGED <<learned, unchecked>>
       \/ /\ part' = "validate"
          /\ learned' \in {learned, TRUE}
          /\ unchecked' = intended
    /\ UNCHANGED <<proposals, considered, plans, intended>>

\* validate_plan: the row is completed, or set to active again.
ValidatePlan(i) ==
    /\ part = "validate" /\ i \in unchecked
    /\ \E status \in {"active", "completed"} :
         plans' = [plans EXCEPT ![i] = status]
    /\ unchecked' = unchecked \ {i}
    /\ UNCHANGED <<proposals, considered, intended, learned, part>>

RefreshPlans ==
    /\ part = "validate" /\ unchecked = {}
    /\ intended' = ActivePlans
    /\ part' = "form"
    /\ UNCHANGED <<proposals, considered, plans, learned, unchecked>>

\* Mutant: a plan is formed whenever there is a lesson.
WantsPlanAlways == learned

WantsPlan == intended = {} /\ learned

FormPlan ==
    /\ part = "form"
    /\ part' = "propose"
    /\ IF WantsPlan
       THEN /\ Len(plans) < MaxPlans
            /\ plans' = Append(plans, "active")
            /\ intended' = {i \in DOMAIN plans' : plans'[i] = "active"}
       ELSE UNCHANGED <<plans, intended>>
    /\ UNCHANGED <<proposals, considered, learned, unchecked>>

\* Mutant: a new proposal is not put into the list.
RememberedNot(i) == considered

Remembered(i) == considered \cup {i}

\* propose_improvement, unless enough of the proposals it holds are pending.
Propose ==
    /\ part = "propose"
    /\ part' = "rest"
    /\ IF Cardinality(considered) < MaxPending
       THEN /\ Len(proposals) < MaxProposals
            /\ proposals' = Append(proposals, "pending")
            /\ considered' = Remembered(Len(proposals'))
       ELSE UNCHANGED <<proposals, considered>>
    /\ UNCHANGED <<plans, intended, learned, unchecked>>

\* A database call of the cycle raises: the cycle ends where it is, and the
\* lists keep what they held.
CycleRaises ==
    /\ part # "rest"
    /\ part' = "rest" /\ unchecked' = {}
    /\ UNCHANGED <<proposals, considered, plans, intended, learned>>

\* approve, reject and applied set the status whatever it was.
Review(i) ==
    /\ \E status \in {"approved", "rejected", "applied"} :
         proposals' = [proposals EXCEPT ![i] = status]
    /\ UNCHANGED <<considered, plans, intended, learned, part, unchecked>>

JournalNext ==
    \/ Reload \/ BeginJournal \/ RefreshPlans \/ FormPlan \/ Propose \/ CycleRaises
    \/ \E i \in DOMAIN plans : ValidatePlan(i)
    \/ \E i \in DOMAIN proposals : Review(i)

JournalSpec == JournalInit /\ [][JournalNext]_journalVars

-----------------------------------------------------------------------------
JournalTypeOK ==
    /\ proposals \in Seq({"pending", "approved", "rejected", "applied"})
    /\ considered \subseteq DOMAIN proposals
    /\ plans \in Seq({"active", "completed"})
    /\ intended \subseteq DOMAIN plans /\ unchecked \subseteq intended
    /\ learned \in BOOLEAN
    /\ part \in {"rest", "validate", "form", "propose"}

\* At most one improvement plan is active, although the plan to validate and
\* the need for a new one are read from a list that a raised error or a crash
\* leaves behind the table, and validation writes whatever status it finds.
OneActivePlan == Cardinality(ActivePlans) <= 1

\* /proposals never offers more proposals for review than the limit on pending
\* ones, although the object that proposes counts a list that never learns of
\* reviews and forgets all but the newest rows at a restart.
FewAreOffered == Cardinality(PendingNow) <= MaxPending
=============================================================================
