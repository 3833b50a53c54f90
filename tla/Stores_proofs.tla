---------------------------- MODULE Stores_proofs ----------------------------
(***************************************************************************)
(* Proofs about the parts that keep records in databases, in files and in  *)
(* memory.  The self-improvement journal: what is on offer and what is     *)
(* active is always within what the long-lived object holds in its lists,  *)
(* and the lists stay within their limits.  The Nexus loop: the databases  *)
(* it writes one after another never contradict each other.  The line log: *)
(* with one logger object on a path, what a thread has seen of the files   *)
(* stays true until it acts on it.  Last, that every part keeps its types  *)
(* whichever of them moves.                                                *)
(***************************************************************************)
EXTENDS MCStores, SvalbardVault_proofs, GlobalWorkspace_proofs,
        FiniteSetTheorems, TLAPS

-----------------------------------------------------------------------------
(* The journal.                                                            *)

\* The object may hold proposals that were reviewed long ago, but it holds all
\* that are pending among the newest rows, and never more than the limit.
HeldBack ==
    /\ PendingNow \subseteq considered
    /\ IsFiniteSet(considered) /\ Cardinality(considered) <= MaxPending

\* The object holds every active plan, and it holds one plan at most.
HeldAlone ==
    /\ ActivePlans \subseteq intended
    /\ \A i, j \in intended : i = j

JournalInv == JournalTypeOK /\ HeldBack /\ HeldAlone

LEMMA JournalStarts == JournalInit => JournalInv
<1> SUFFICES ASSUME JournalInit PROVE JournalInv
    OBVIOUS
<1>1. JournalTypeOK
    <2>1. <<>> \in Seq({"pending", "approved", "rejected", "applied"})
          /\ <<>> \in Seq({"active", "completed"})
        OBVIOUS
    <2> QED
        BY <2>1 DEF JournalInit, JournalTypeOK
<1>2. HeldBack
    BY FS_EmptySet, JournalAssumption DEF JournalInit, HeldBack, PendingNow, Newest
<1>3. HeldAlone
    BY DEF JournalInit, HeldAlone, ActivePlans
<1> QED
    BY <1>1, <1>2, <1>3 DEF JournalInv

\* Steps that leave the rows of the proposals and the list as they are.
LEMMA ProposalsAlone ==
    ASSUME HeldBack, UNCHANGED <<proposals, considered>>
    PROVE  HeldBack'
BY DEF HeldBack, PendingNow, Newest

LEMMA PlansAlone ==
    ASSUME HeldAlone, UNCHANGED <<plans, intended>>
    PROVE  HeldAlone'
BY DEF HeldAlone, ActivePlans

\* A new process reads what is pending and what is active.
LEMMA ReloadKeeps == ASSUME JournalInv, Reload PROVE JournalInv'
<1>1. PendingNow \subseteq DOMAIN proposals /\ ActivePlans \subseteq DOMAIN plans
    BY DEF PendingNow, Newest, ActivePlans
<1>2. JournalTypeOK'
    BY <1>1 DEF Reload, JournalInv, JournalTypeOK
<1>3. IsFiniteSet(PendingNow) /\ Cardinality(PendingNow) <= Cardinality(considered)
    BY FS_Subset DEF JournalInv, HeldBack
<1>4. Cardinality(PendingNow) \in Nat /\ Cardinality(considered) \in Nat
    BY <1>3, FS_CardinalityType DEF JournalInv, HeldBack
<1>5. PendingNow' = PendingNow /\ considered' = PendingNow
    BY DEF Reload, PendingNow, Newest
<1>6. HeldBack'
    BY <1>3, <1>4, <1>5, JournalAssumption DEF JournalInv, HeldBack
<1>7. HeldAlone'
    BY DEF Reload, JournalInv, HeldAlone, ActivePlans
<1> QED
    BY <1>2, <1>6, <1>7 DEF JournalInv

\* The plans: validation writes only plans that are held, and a plan is formed
\* only when none is held.
LEMMA PlansKeep ==
    ASSUME JournalInv,
           RefreshPlans \/ FormPlan \/ \E i \in DOMAIN plans : ValidatePlan(i)
    PROVE  JournalInv'
<1> USE DEF JournalInv
<1>1. HeldBack'
    BY ProposalsAlone DEF RefreshPlans, FormPlan, ValidatePlan
<1>2. CASE RefreshPlans
    <2>1. JournalTypeOK'
        BY <1>2 DEF RefreshPlans, JournalTypeOK, ActivePlans
    <2>2. HeldAlone'
        BY <1>2 DEF RefreshPlans, HeldAlone, ActivePlans
    <2> QED
        BY <1>1, <2>1, <2>2
<1>3. ASSUME NEW i \in DOMAIN plans, ValidatePlan(i) PROVE JournalInv'
    <2>1. PICK status \in {"active", "completed"} :
              plans' = [plans EXCEPT ![i] = status]
        BY <1>3 DEF ValidatePlan
    <2>2. DOMAIN plans' = DOMAIN plans /\ i \in intended
        BY <1>3, <2>1 DEF ValidatePlan, JournalTypeOK
    <2>3. plans' \in Seq({"active", "completed"})
        BY <2>1 DEF JournalTypeOK
    <2>4. JournalTypeOK'
        BY <1>3, <2>2, <2>3 DEF ValidatePlan, JournalTypeOK
    <2>5. ActivePlans' \subseteq ActivePlans \cup {i}
        BY <2>1, <2>2 DEF ActivePlans
    <2>6. HeldAlone'
        BY <1>3, <2>2, <2>5 DEF ValidatePlan, HeldAlone
    <2> QED
        BY <1>1, <2>4, <2>6
<1>4. CASE FormPlan /\ WantsPlan
    <2>1. ActivePlans = {}
        BY <1>4 DEF WantsPlan, HeldAlone
    <2>2. /\ plans' = Append(plans, "active")
          /\ intended' = {i \in DOMAIN plans' : plans'[i] = "active"}
        BY <1>4 DEF FormPlan
    <2>3. /\ Len(plans') = Len(plans) + 1 /\ plans' \in Seq({"active", "completed"})
          /\ DOMAIN plans' = DOMAIN plans \cup {Len(plans) + 1}
          /\ \A i \in DOMAIN plans : plans'[i] = plans[i]
        BY <2>2 DEF JournalTypeOK
    <2>4. intended' \subseteq {Len(plans) + 1}
        BY <2>1, <2>2, <2>3 DEF ActivePlans
    <2>5. HeldAlone'
        BY <2>2, <2>4 DEF HeldAlone, ActivePlans
    <2>6. unchecked = {}
        BY <1>4 DEF WantsPlan, JournalTypeOK
    <2>7. JournalTypeOK'
        BY <1>4, <2>2, <2>3, <2>6 DEF FormPlan, JournalTypeOK
    <2> QED
        BY <1>1, <2>5, <2>7
<1>5. CASE FormPlan /\ ~WantsPlan
    <2>1. JournalTypeOK'
        BY <1>5 DEF FormPlan, JournalTypeOK
    <2>2. HeldAlone'
        BY <1>5, PlansAlone DEF FormPlan
    <2> QED
        BY <1>1, <2>1, <2>2
<1> QED
    BY <1>2, <1>3, <1>4, <1>5

\* A proposal is added only below the limit, and put into the list.
LEMMA ProposeKeeps == ASSUME JournalInv, Propose PROVE JournalInv'
<1> USE DEF JournalInv
<1>1. HeldAlone'
    BY PlansAlone DEF Propose
<1>2. CASE Cardinality(considered) >= MaxPending
    <2>1. UNCHANGED <<proposals, considered>>
        BY <1>2, FS_CardinalityType, JournalAssumption DEF Propose, HeldBack
    <2>2. JournalTypeOK'
        BY <2>1 DEF Propose, JournalTypeOK
    <2> QED
        BY <1>1, <2>1, <2>2, ProposalsAlone
<1>3. CASE Cardinality(considered) < MaxPending
    <2> DEFINE new == Len(proposals) + 1
    <2>1. /\ proposals' = Append(proposals, "pending")
          /\ Len(proposals') = new
          /\ DOMAIN proposals' = DOMAIN proposals \cup {new}
          /\ \A i \in DOMAIN proposals : proposals'[i] = proposals[i]
          /\ proposals' \in Seq({"pending", "approved", "rejected", "applied"})
        BY <1>3 DEF Propose, JournalTypeOK
    <2>2. considered' = considered \cup {new}
        BY <1>3, <2>1 DEF Propose, Remembered
    <2>3. JournalTypeOK'
        BY <2>1, <2>2 DEF Propose, JournalTypeOK
    <2>4. PendingNow' \subseteq PendingNow \cup {new}
        <3>1. Len(proposals) \in Nat /\ LoadLimit \in Nat
            BY JournalAssumption DEF JournalTypeOK
        <3>2. SUFFICES ASSUME NEW i \in PendingNow' PROVE i \in PendingNow \cup {new}
            OBVIOUS
        <3>3. /\ i \in DOMAIN proposals' /\ i + LoadLimit > Len(proposals')
              /\ proposals'[i] = "pending"
            BY DEF PendingNow, Newest
        <3>4. CASE i \in DOMAIN proposals
            <4>1. i \in Nat /\ proposals[i] = "pending"
                BY <2>1, <3>3, <3>4 DEF JournalTypeOK
            <4>2. i + LoadLimit > Len(proposals)
                BY <2>1, <3>1, <3>3, <4>1
            <4> QED
                BY <3>4, <4>1, <4>2 DEF PendingNow, Newest
        <3> QED
            BY <2>1, <3>3, <3>4
    <2>5. Cardinality(considered) \in Nat
        BY FS_CardinalityType DEF HeldBack
    <2>6. IsFiniteSet(considered') /\ Cardinality(considered') <= Cardinality(considered) + 1
        <3> HIDE DEF new
        <3>1. IsFiniteSet(considered)
            BY DEF HeldBack
        <3>2. /\ IsFiniteSet(considered \cup {new})
              /\ Cardinality(considered \cup {new}) =
                     IF new \in considered THEN Cardinality(considered)
                     ELSE Cardinality(considered) + 1
            BY <3>1, FS_AddElement
        <3> QED
            BY <2>2, <2>5, <3>2
    <2>7. Cardinality(considered') \in Nat
        BY <2>6, FS_CardinalityType
    <2>8. HeldBack'
        BY <1>3, <2>2, <2>4, <2>5, <2>6, <2>7, JournalAssumption DEF HeldBack
    <2> QED
        BY <1>1, <2>3, <2>8
<1> QED
    BY <1>2, <1>3, FS_CardinalityType, JournalAssumption DEF HeldBack

\* A review takes a row out of the pending ones, or finds it out already.
LEMMA ReviewKeeps ==
    ASSUME JournalInv, NEW i \in DOMAIN proposals, Review(i)
    PROVE  JournalInv'
<1> USE DEF JournalInv
<1>1. PICK status \in {"approved", "rejected", "applied"} :
          proposals' = [proposals EXCEPT ![i] = status]
    BY DEF Review
<1>2. /\ proposals' \in Seq({"pending", "approved", "rejected", "applied"})
      /\ DOMAIN proposals' = DOMAIN proposals /\ Len(proposals') = Len(proposals)
    BY <1>1 DEF JournalTypeOK
<1>3. JournalTypeOK'
    BY <1>2 DEF Review, JournalTypeOK
<1>4. PendingNow' \subseteq PendingNow
    BY <1>1, <1>2 DEF PendingNow, Newest
<1>5. HeldBack'
    BY <1>4 DEF Review, HeldBack
<1>6. HeldAlone'
    BY PlansAlone DEF Review
<1> QED
    BY <1>3, <1>5, <1>6

\* Steps that move only the cycle of the object.
LEMMA QuietKeeps ==
    ASSUME JournalInv, BeginJournal \/ CycleRaises \/ UNCHANGED journalVars
    PROVE  JournalInv'
<1> USE DEF JournalInv
<1>1. UNCHANGED <<proposals, considered, plans, intended>>
    BY DEF BeginJournal, CycleRaises, journalVars
<1>2. JournalTypeOK'
    BY DEF BeginJournal, CycleRaises, journalVars, JournalTypeOK
<1> QED
    BY <1>1, <1>2, ProposalsAlone, PlansAlone

LEMMA JournalKeeps == JournalInv /\ [JournalNext]_journalVars => JournalInv'
BY ReloadKeeps, PlansKeep, ProposeKeeps, ReviewKeeps, QuietKeeps DEF JournalNext

LEMMA JournalHolds == JournalSpec => []JournalInv
BY JournalStarts, JournalKeeps, PTL DEF JournalSpec

\* Every variable of the journal keeps its type.
THEOREM JournalTyping == JournalSpec => []JournalTypeOK
<1>1. JournalInv => JournalTypeOK
    BY DEF JournalInv
<1> QED
    BY <1>1, JournalHolds, PTL

\* For any limits, and however reviews, restarts and raised errors fall: what
\* /proposals offers stays within the limit on pending proposals.
THEOREM OffersStayFew == JournalSpec => []FewAreOffered
<1>1. JournalInv => FewAreOffered
    <2> SUFFICES ASSUME JournalInv PROVE FewAreOffered
        OBVIOUS
    <2>1. IsFiniteSet(PendingNow) /\ Cardinality(PendingNow) <= Cardinality(considered)
        BY FS_Subset DEF JournalInv, HeldBack
    <2>2. Cardinality(PendingNow) \in Nat /\ Cardinality(considered) \in Nat
        BY <2>1, FS_CardinalityType DEF JournalInv, HeldBack
    <2> QED
        BY <2>1, <2>2, JournalAssumption DEF JournalInv, HeldBack, FewAreOffered
<1> QED
    BY <1>1, JournalHolds, PTL

\* For any limits: at most one improvement plan is active.
THEOREM PlansStaySingle == JournalSpec => []OneActivePlan
<1>1. JournalInv => OneActivePlan
    <2> SUFFICES ASSUME JournalInv PROVE OneActivePlan
        OBVIOUS
    <2>1. ActivePlans = {} \/ \E i \in ActivePlans : ActivePlans = {i}
        BY DEF JournalInv, HeldAlone
    <2> QED
        BY <2>1, FS_EmptySet, FS_Singleton DEF OneActivePlan
<1> QED
    BY <1>1, JournalHolds, PTL

-----------------------------------------------------------------------------
(* The Nexus loop.                                                         *)

\* Where a call is tells which rows it has.
Places ==
    /\ \A d \in Decisions :
          /\ doing[d] \in {"new", "persist"} => d \notin deliberated
          /\ doing[d] \in {"integrate", "record", "win", "drain", "remember"} => d \in deliberated
          /\ doing[d] \in {"integrate", "record"} => d \notin decided
          /\ doing[d] \in {"win", "drain", "remember"} => d \in decided
    /\ decided \subseteq deliberated /\ remembered \subseteq decided

\* Decisions the saved self-model has surely counted, and those that it, or
\* the self-model in memory, may have counted.
Recorded == decided \cup {d \in Decisions : doing[d] = "record"}
Countable == {d \in deliberated : doing[d] # "integrate"}

Counting ==
    /\ Cardinality(Recorded) <= savedModel.decisions
    /\ savedModel.decisions <= model.decisions
    /\ model.decisions <= Cardinality(Countable)

Reflecting ==
    /\ reflected <= savedModel.reflections
    /\ holder = "reflection" => reflected + 1 <= savedModel.reflections
    /\ savedModel.reflections <= model.reflections

Typed ==
    /\ doing \in [Decisions -> {"new", "persist", "integrate", "record", "win",
                                "drain", "remember", "done"}]
    /\ model \in [decisions : Nat, reflections : Nat]
    /\ savedModel \in [decisions : Nat, reflections : Nat]
    /\ deliberated \subseteq Decisions /\ reflected \in Nat

ElysiumInv == Typed /\ Places /\ Counting /\ Reflecting

\* Subsets of the calls are finite, and a smaller one has no more elements.
LEMMA Fewer ==
    ASSUME NEW T \in SUBSET Decisions, NEW S \in SUBSET T
    PROVE  /\ IsFiniteSet(S) /\ Cardinality(S) \in Nat /\ Cardinality(T) \in Nat
           /\ Cardinality(S) <= Cardinality(T)
<1>1. IsFiniteSet(T)
    BY FS_Subset, ElysiumAssumption
<1>2. IsFiniteSet(S) /\ Cardinality(S) <= Cardinality(T)
    BY <1>1, FS_Subset
<1> QED
    BY <1>1, <1>2, FS_CardinalityType

LEMMA OneMore ==
    ASSUME NEW S \in SUBSET Decisions, NEW d \in Decisions, d \notin S
    PROVE  Cardinality(S \cup {d}) = Cardinality(S) + 1
<1>1. IsFiniteSet(S)
    BY FS_Subset, ElysiumAssumption
<1> QED
    BY <1>1, FS_AddElement

LEMMA Sized ==
    ASSUME Typed, Places
    PROVE  /\ Recorded \subseteq Decisions /\ Countable \subseteq Decisions
           /\ Cardinality(Recorded) \in Nat /\ Cardinality(Countable) \in Nat
<1>1. Recorded \subseteq Decisions /\ Countable \subseteq Decisions
    BY DEF Typed, Places, Recorded, Countable
<1> QED
    BY <1>1, Fewer

\* A step that counts nothing keeps the counts when the decisions surely
\* counted become no more and those that may be counted no fewer.
LEMMA CountsStay ==
    ASSUME ElysiumInv, Typed', Places',
           Recorded' \subseteq Recorded, Countable \subseteq Countable',
           savedModel'.decisions = savedModel.decisions,
           model'.decisions \in {model.decisions, savedModel.decisions}
    PROVE  Counting'
<1>1. Recorded \subseteq Decisions /\ Countable' \subseteq Decisions
    <2>1. Recorded \subseteq Decisions
        BY Sized DEF ElysiumInv
    <2>2. Countable' \subseteq Decisions
        BY DEF Countable, Typed
    <2> QED
        BY <2>1, <2>2
<1>2. /\ Cardinality(Recorded') <= Cardinality(Recorded)
      /\ Cardinality(Recorded') \in Nat /\ Cardinality(Recorded) \in Nat
    BY <1>1, Fewer
<1>3. /\ Cardinality(Countable) <= Cardinality(Countable')
      /\ Cardinality(Countable) \in Nat /\ Cardinality(Countable') \in Nat
    BY <1>1, Fewer
<1>4. savedModel.decisions \in Nat /\ model.decisions \in Nat
    BY DEF ElysiumInv, Typed
<1> QED
    BY <1>2, <1>3, <1>4 DEF ElysiumInv, Counting

LEMMA ElysiumStarts == ElysiumInit => ElysiumInv
<1> SUFFICES ASSUME ElysiumInit PROVE ElysiumInv
    OBVIOUS
<1>1. Typed /\ Places /\ Reflecting
    BY DEF ElysiumInit, Typed, Places, Reflecting
<1>2. Recorded = {} /\ Countable = {}
    BY DEF ElysiumInit, Recorded, Countable
<1>3. Counting
    BY <1>2, FS_EmptySet DEF ElysiumInit, Counting
<1> QED
    BY <1>1, <1>3 DEF ElysiumInv

-----------------------------------------------------------------------------
\* The steps of a call that leave the self-model alone.
LEMMA CallKeeps ==
    ASSUME ElysiumInv, NEW d \in Decisions,
           Deliberate(d) \/ Persist(d) \/ RecordDecision(d) \/ RecordWin(d)
               \/ Drain(d) \/ Consolidate(d)
    PROVE  ElysiumInv'
<1> USE DEF ElysiumInv
<1>1. PICK s \in {"persist", "integrate", "win", "drain", "remember", "done"} :
          doing' = [doing EXCEPT ![d] = s]
    BY DEF Deliberate, Persist, RecordDecision, RecordWin, Drain, Consolidate
<1>2. UNCHANGED <<model, savedModel, reflected>> /\ holder' \in {holder, "nobody"}
    BY DEF Deliberate, Persist, RecordDecision, RecordWin, Drain, Consolidate
<1>3. deliberated' \subseteq Decisions
    BY DEF Deliberate, Persist, RecordDecision, RecordWin, Drain, Consolidate,
            Typed
<1>4. Typed'
    BY <1>1, <1>2, <1>3 DEF Typed
<1>5. Places' /\ Recorded' \subseteq Recorded /\ Countable \subseteq Countable'
    <2>1. CASE Deliberate(d)
        BY <2>1 DEF Deliberate, Typed, Places, Recorded, Countable
    <2>2. CASE Persist(d)
        BY <2>2 DEF Persist, Typed, Places, Recorded, Countable
    <2>3. CASE RecordDecision(d)
        BY <2>3 DEF RecordDecision, Typed, Places, Recorded, Countable
    <2>4. CASE RecordWin(d)
        BY <2>4 DEF RecordWin, Typed, Places, Recorded, Countable
    <2>5. CASE Consolidate(d)
        BY <2>5 DEF Consolidate, Typed, Places, Recorded, Countable
    <2>6. CASE Drain(d)
        BY <2>6 DEF Drain, Typed, Places, Recorded, Countable
    <2> QED
        BY <2>1, <2>2, <2>3, <2>4, <2>5, <2>6
<1>6. Counting'
    BY <1>2, <1>4, <1>5, CountsStay
<1>7. Reflecting'
    BY <1>2 DEF Reflecting
<1> QED
    BY <1>4, <1>5, <1>6, <1>7

\* The decision is counted in memory, and its call may be counted from now on.
LEMMA Countable1 ==
    ASSUME ElysiumInv, NEW d \in Decisions, doing[d] = "integrate",
           NEW s \in {"record", "done"}, doing' = [doing EXCEPT ![d] = s],
           deliberated' = deliberated
    PROVE  /\ Countable' = Countable \cup {d}
           /\ Cardinality(Countable') = Cardinality(Countable) + 1
<1>1. Countable' = Countable \cup {d} /\ d \notin Countable
    BY DEF ElysiumInv, Typed, Places, Countable
<1> QED
    BY <1>1, Sized, OneMore DEF ElysiumInv

LEMMA CountKeeps ==
    ASSUME ElysiumInv, NEW d \in Decisions, CountDecision(d)
    PROVE  ElysiumInv'
<1> USE DEF ElysiumInv
<1>1. /\ doing[d] = "integrate" /\ doing' = [doing EXCEPT ![d] = "record"]
      /\ model' = [model EXCEPT !.decisions = @ + 1] /\ savedModel' = model'
      /\ holder' = d
      /\ UNCHANGED <<deliberated, decided, reflected, remembered>>
    BY DEF CountDecision, Saved
<1>2. Typed'
    BY <1>1 DEF Typed
<1>3. Places'
    BY <1>1 DEF Typed, Places
<1>4. Cardinality(Countable') = Cardinality(Countable) + 1
    BY <1>1, Countable1
<1>5. Recorded' = Recorded \cup {d} /\ d \notin Recorded
    BY <1>1 DEF Typed, Places, Recorded
<1>6. Cardinality(Recorded') = Cardinality(Recorded) + 1
    BY <1>5, Sized, OneMore
<1>7. model'.decisions = model.decisions + 1 /\ model.decisions \in Nat
      /\ savedModel.decisions \in Nat
    BY <1>1 DEF Typed
<1>8. Counting'
    BY <1>1, <1>4, <1>6, <1>7, Sized DEF Counting
<1>9. Reflecting'
    BY <1>1, ElysiumAssumption DEF Typed, Reflecting
<1> QED
    BY <1>2, <1>3, <1>8, <1>9

\* A write that raises: a decision that was counted in memory stays there.
LEMMA RaiseKeeps ==
    ASSUME ElysiumInv, NEW d \in Decisions, WriteRaises(d)
    PROVE  ElysiumInv'
<1> USE DEF ElysiumInv
<1>1. /\ doing' = [doing EXCEPT ![d] = "done"]
      /\ UNCHANGED <<savedModel, deliberated, decided, reflected, remembered>>
      /\ doing[d] \in {"persist", "win", "drain", "integrate", "record"}
      /\ holder' \in {holder, "nobody"}
    BY DEF WriteRaises
<1>2. model' = IF doing[d] = "integrate"
               THEN [model EXCEPT !.decisions = @ + 1] ELSE model
    BY DEF WriteRaises
<1>3. Typed'
    BY <1>1, <1>2 DEF Typed
<1>4. Places' /\ Recorded' \subseteq Recorded
    BY <1>1 DEF Typed, Places, Recorded
<1>5. Counting'
    <2>1. CASE doing[d] = "integrate"
        <3>1. Cardinality(Countable') = Cardinality(Countable) + 1
            BY <1>1, <2>1, Countable1
        <3>2. Cardinality(Recorded') <= Cardinality(Recorded)
              /\ Cardinality(Recorded') \in Nat
            BY <1>4, Sized, Fewer
        <3>3. model'.decisions = model.decisions + 1 /\ model.decisions \in Nat
              /\ savedModel.decisions \in Nat
            BY <1>2, <2>1 DEF Typed
        <3> QED
            BY <1>1, <3>1, <3>2, <3>3, Sized DEF Counting
    <2>2. CASE doing[d] # "integrate"
        <3>1. Countable \subseteq Countable'
            BY <1>1 DEF Typed, Countable
        <3> QED
            BY <1>1, <1>2, <1>3, <1>4, <2>2, <3>1, CountsStay
    <2> QED
        BY <2>1, <2>2
<1>6. Reflecting'
    BY <1>1, <1>2 DEF Typed, Reflecting
<1> QED
    BY <1>3, <1>4, <1>5, <1>6

\* The reflections, and a new process with the self-model of the table.
LEMMA OtherKeeps ==
    ASSUME ElysiumInv,
           CountReflection \/ RecordReflection \/ Restart \/ UNCHANGED elysiumVars
    PROVE  ElysiumInv'
<1> USE DEF ElysiumInv
<1>1. CASE CountReflection
    <2>1. /\ UNCHANGED <<doing, deliberated, decided, reflected, remembered>>
          /\ model' = [model EXCEPT !.reflections = @ + 1] /\ holder = "nobody"
          /\ savedModel' = model' \/ (savedModel' = savedModel /\ holder' = holder)
        BY <1>1 DEF CountReflection, Saved
    <2>2. Typed' /\ Places' /\ Recorded' = Recorded /\ Countable' = Countable
        BY <2>1 DEF Typed, Places, Recorded, Countable
    <2>3. model'.decisions = model.decisions /\ model.decisions \in Nat
          /\ savedModel.decisions \in Nat
        BY <2>1 DEF Typed
    <2>4. Counting'
        <3>1. savedModel'.decisions \in {model.decisions, savedModel.decisions}
            BY <2>1, <2>3
        <3>2. /\ Cardinality(Recorded') = Cardinality(Recorded)
              /\ Cardinality(Countable') = Cardinality(Countable)
            BY <2>2
        <3> QED
            BY <2>3, <3>1, <3>2, Sized DEF Counting
    <2>5. Reflecting'
        <3>1. /\ model'.reflections = model.reflections + 1
              /\ model.reflections \in Nat /\ savedModel.reflections \in Nat
              /\ reflected \in Nat
            BY <2>1 DEF Typed
        <3>2. CASE savedModel' = model'
            BY <2>1, <3>1, <3>2 DEF Reflecting
        <3>3. CASE savedModel' = savedModel /\ holder' = holder
            BY <2>1, <3>1, <3>3 DEF Reflecting
        <3> QED
            BY <2>1, <3>2, <3>3
    <2> QED
        BY <2>2, <2>4, <2>5
<1>2. CASE RecordReflection
    <2>1. /\ UNCHANGED <<doing, deliberated, decided, remembered, model, savedModel>>
          /\ holder = "reflection" /\ holder' = "nobody"
          /\ reflected' \in {reflected, reflected + 1}
        BY <1>2 DEF RecordReflection
    <2>2. Typed' /\ Places' /\ Recorded' = Recorded /\ Countable' = Countable
        BY <2>1 DEF Typed, Places, Recorded, Countable
    <2>3. Counting'
        BY <2>1, <2>2 DEF Counting
    <2>4. Reflecting'
        BY <2>1 DEF Typed, Reflecting
    <2> QED
        BY <2>2, <2>3, <2>4
<1>3. CASE Restart
    <2>1. /\ UNCHANGED <<savedModel, deliberated, decided, reflected, remembered>>
          /\ model' = savedModel /\ holder' = "nobody"
          /\ doing' = [d \in Decisions |-> IF doing[d] = "new" THEN "new" ELSE "done"]
        BY <1>3 DEF Restart
    <2>2. Typed' /\ Places' /\ Recorded' \subseteq Recorded /\ Countable \subseteq Countable'
        BY <2>1 DEF Typed, Places, Recorded, Countable
    <2>3. Counting'
        BY <2>1, <2>2, CountsStay
    <2>4. Reflecting'
        BY <2>1 DEF Typed, Reflecting
    <2> QED
        BY <2>2, <2>3, <2>4
<1>4. CASE UNCHANGED elysiumVars
    BY <1>4 DEF elysiumVars, Typed, Places, Counting, Reflecting, Recorded, Countable
<1> QED
    BY <1>1, <1>2, <1>3, <1>4

LEMMA ElysiumKeeps == ElysiumInv /\ [ElysiumNext]_elysiumVars => ElysiumInv'
BY CallKeeps, CountKeeps, RaiseKeeps, OtherKeeps DEF ElysiumNext, Decide

\* For any calls, members and reflections, and wherever writes raise or the
\* process dies: the four databases never contradict each other.
THEOREM DatabasesNest == ElysiumSpec => []RecordsNest
<1>1. ElysiumInv => RecordsNest
    <2> SUFFICES ASSUME ElysiumInv PROVE RecordsNest
        OBVIOUS
    <2> USE DEF ElysiumInv
    <2>1. decided \subseteq Recorded /\ Countable \subseteq deliberated
        BY DEF Recorded, Countable
    <2>2. /\ Cardinality(decided) <= Cardinality(Recorded)
          /\ Cardinality(decided) \in Nat /\ Cardinality(Recorded) \in Nat
        BY <2>1, Sized, Fewer
    <2>3. /\ Cardinality(Countable) <= Cardinality(deliberated)
          /\ Cardinality(Countable) \in Nat /\ Cardinality(deliberated) \in Nat
        BY <2>1, Fewer DEF Typed
    <2>4. savedModel.decisions \in Nat /\ model.decisions \in Nat
        BY DEF Typed
    <2> QED
        BY <2>2, <2>3, <2>4 DEF Places, Counting, Reflecting, RecordsNest
<1> QED
    BY <1>1, ElysiumStarts, ElysiumKeeps, PTL DEF ElysiumSpec

-----------------------------------------------------------------------------
\* Decisions whose member has been credited, or never will be.
Named(m) == {d \in decided : doing[d] # "win" /\ verdict[d].winner = m}

Winning ==
    /\ verdict = [d \in Decisions |-> verdict[d]]
    /\ wins \in [Members -> Nat] /\ savedWins \in [Members -> Nat]
    /\ \A m \in Members : wins[m] <= Cardinality(Named(m))
                          /\ savedWins[m] <= Cardinality(Named(m))

LEMMA NamedSized ==
    ASSUME ElysiumInv, NEW m \in Members
    PROVE  Named(m) \subseteq Decisions /\ Cardinality(Named(m)) \in Nat
<1>1. Named(m) \subseteq Decisions
    BY DEF ElysiumInv, Typed, Places, Named
<1> QED
    BY <1>1, Fewer

\* A step that credits nobody keeps the counts when no decision loses its name.
LEMMA WinsStay ==
    ASSUME ElysiumInv, ElysiumInv', Winning,
           verdict' = [d \in Decisions |-> verdict'[d]],
           wins' \in {wins, savedWins},
           \E saved \in SUBSET Members : savedWins' = Flushed(saved),
           \A m \in Members : Named(m) \subseteq Named(m)'
    PROVE  Winning'
<1>1. ASSUME NEW m \in Members
      PROVE  wins'[m] <= Cardinality(Named(m))' /\ savedWins'[m] <= Cardinality(Named(m))'
    <2>1. Named(m)' \subseteq Decisions
        BY DEF ElysiumInv, Typed, Places, Named
    <2>2. /\ Cardinality(Named(m)) <= Cardinality(Named(m)')
          /\ Cardinality(Named(m)) \in Nat /\ Cardinality(Named(m)') \in Nat
        BY <2>1, Fewer
    <2>3. wins[m] \in Nat /\ savedWins[m] \in Nat
        BY DEF Winning
    <2>4. wins'[m] \in {wins[m], savedWins[m]} /\ savedWins'[m] \in {wins[m], savedWins[m]}
        BY DEF Flushed
    <2> QED
        BY <2>2, <2>3, <2>4 DEF Winning
<1>2. wins' \in [Members -> Nat] /\ savedWins' \in [Members -> Nat]
    BY DEF Winning, Flushed
<1> QED
    BY <1>1, <1>2 DEF Winning

\* A row that is not written is a flush of nobody.
LEMMA NoneFlushed ==
    ASSUME Winning, UNCHANGED savedWins
    PROVE  \E saved \in SUBSET Members : savedWins' = Flushed(saved)
<1>1. savedWins = Flushed({})
    BY DEF Winning, Flushed
<1> QED
    BY <1>1

\* The win is counted in memory, and in the row unless its write raises.
WinRaises(d) ==
    /\ WriteRaises(d) /\ doing[d] = "win"

LEMMA WinCounted ==
    ASSUME ElysiumInv, ElysiumInv', Winning, NEW d \in Decisions,
           RecordWin(d) \/ WinRaises(d)
    PROVE  Winning'
<1>1. /\ doing[d] = "win"
      /\ \E s \in {"drain", "done"} : doing' = [doing EXCEPT ![d] = s]
      /\ UNCHANGED <<verdict, decided>> /\ wins' = Won(d)
      /\ savedWins' \in {savedWins,
             IF verdict[d].winner \in Members
             THEN [savedWins EXCEPT ![verdict[d].winner] = wins'[verdict[d].winner]]
             ELSE savedWins}
    BY DEF RecordWin, WinRaises, WriteRaises
<1>2. ASSUME NEW m \in Members, verdict[d].winner # m
      PROVE  /\ wins'[m] = wins[m] /\ savedWins'[m] = savedWins[m]
             /\ Named(m)' = Named(m)
    BY <1>1, <1>2 DEF Won, Winning, Named, ElysiumInv, Typed, Places
<1>3. ASSUME NEW m \in Members, verdict[d].winner = m
      PROVE  /\ wins'[m] = wins[m] + 1 /\ savedWins'[m] \in {savedWins[m], wins[m] + 1}
             /\ Cardinality(Named(m)') = Cardinality(Named(m)) + 1
    <2>1. wins'[m] = wins[m] + 1 /\ savedWins'[m] \in {savedWins[m], wins[m] + 1}
        BY <1>1, <1>3 DEF Won, Winning
    <2>2. Named(m)' = Named(m) \cup {d} /\ d \notin Named(m)
        BY <1>1, <1>3 DEF Named, ElysiumInv, Typed, Places
    <2>3. Named(m) \subseteq Decisions
        BY NamedSized
    <2>4. Cardinality(Named(m) \cup {d}) = Cardinality(Named(m)) + 1
        BY <2>2, <2>3, OneMore
    <2> QED
        BY <2>1, <2>2, <2>4
<1>4. wins' \in [Members -> Nat] /\ savedWins' \in [Members -> Nat]
    BY <1>1 DEF Won, Winning
<1>5. ASSUME NEW m \in Members
      PROVE  wins'[m] <= Cardinality(Named(m)') /\ savedWins'[m] <= Cardinality(Named(m)')
    <2>1. /\ wins[m] <= Cardinality(Named(m)) /\ savedWins[m] <= Cardinality(Named(m))
          /\ wins[m] \in Nat /\ savedWins[m] \in Nat /\ Cardinality(Named(m)) \in Nat
        BY NamedSized DEF Winning
    <2> QED
        BY <1>2, <1>3, <2>1
<1> QED
    BY <1>1, <1>4, <1>5 DEF Winning

LEMMA WinsKeep ==
    ElysiumInv /\ Winning /\ [ElysiumNext]_elysiumVars => Winning'
<1> SUFFICES ASSUME ElysiumInv, Winning, [ElysiumNext]_elysiumVars PROVE Winning'
    OBVIOUS
<1>1. ElysiumInv'
    BY ElysiumKeeps
<1>2. ASSUME NEW d \in Decisions, Deliberate(d) PROVE Winning'
    <2>1. d \notin decided /\ UNCHANGED <<decided, wins>>
          /\ \E saved \in SUBSET Members : savedWins' = Flushed(saved)
          /\ doing' = [doing EXCEPT ![d] = "persist"]
        BY <1>2 DEF Deliberate, ElysiumInv, Places
    <2>2. \E v : verdict' = [verdict EXCEPT ![d] = v]
        BY <1>2 DEF Deliberate
    <2>3. verdict' = [e \in Decisions |-> verdict'[e]]
          /\ \A e \in Decisions : e # d => verdict'[e] = verdict[e]
        BY <2>2 DEF Winning
    <2>4. \A m \in Members : Named(m) \subseteq Named(m)'
        BY <2>1, <2>3 DEF Named, ElysiumInv, Typed, Places
    <2> QED
        BY <1>1, <2>1, <2>3, <2>4, WinsStay
<1>3. ASSUME NEW d \in Decisions,
             Persist(d) \/ CountDecision(d) \/ RecordDecision(d) \/ Drain(d)
                 \/ Consolidate(d) \/ (WriteRaises(d) /\ doing[d] # "win")
      PROVE  Winning'
    <2>3. \E saved \in SUBSET Members : savedWins' = Flushed(saved)
        <3>1. UNCHANGED savedWins \/ \E saved \in SUBSET Members : savedWins' = Flushed(saved)
            BY <1>3 DEF Persist, CountDecision, RecordDecision, Drain, Consolidate,
                WriteRaises
        <3> QED
            BY <3>1, NoneFlushed
    <2>1. UNCHANGED <<verdict, wins>>
          /\ decided' \in {decided, decided \cup {d}}
          /\ \E s \in {"integrate", "record", "win", "remember", "done"} :
                 doing' = [doing EXCEPT ![d] = s]
                 /\ (s = "win" => d \notin decided \/ doing[d] = "win")
        BY <1>3 DEF Persist, CountDecision, RecordDecision, Drain, Consolidate,
            WriteRaises, ElysiumInv, Places
    <2>2. \A m \in Members : Named(m) \subseteq Named(m)'
        BY <2>1 DEF Named, ElysiumInv, Typed, Places
    <2> QED
        BY <1>1, <2>1, <2>2, <2>3, WinsStay DEF Winning
<1>4. CASE CountReflection \/ RecordReflection \/ Restart \/ UNCHANGED elysiumVars
    <2>1. UNCHANGED <<verdict, decided, savedWins>> /\ wins' \in {wins, savedWins}
          /\ \A d \in Decisions : doing'[d] \in {doing[d], "done"}
        BY <1>4 DEF CountReflection, RecordReflection, Restart, elysiumVars,
            ElysiumInv, Typed
    <2>2. \A m \in Members : Named(m) \subseteq Named(m)'
        BY <2>1 DEF Named, ElysiumInv, Typed, Places
    <2> QED
        BY <1>1, <2>1, <2>2, NoneFlushed, WinsStay DEF Winning
<1>5. ASSUME NEW d \in Decisions, WriteRaises(d) PROVE Winning'
    BY <1>1, <1>3, <1>5, WinCounted DEF WinRaises
<1> QED
    BY <1>1, <1>2, <1>3, <1>4, <1>5, WinCounted DEF ElysiumNext, Decide

LEMMA WinsStart == ElysiumInit => Winning
<1> SUFFICES ASSUME ElysiumInit PROVE Winning
    OBVIOUS
<1>1. \A m \in Members : Named(m) = {}
    BY DEF ElysiumInit, Named
<1> QED
    BY <1>1, FS_EmptySet DEF ElysiumInit, Winning

\* For any calls, members, raised writes and restarts: no member has won more
\* often, in memory or in its row, than there are recorded decisions that name it.
THEOREM NoFreeWins == ElysiumSpec => []WinsAreDecided
<1>1. ElysiumInv /\ Winning => WinsAreDecided
    <2> SUFFICES ASSUME ElysiumInv, Winning, NEW m \in Members
                 PROVE  LET named == Cardinality({d \in decided : verdict[d].winner = m})
                        IN  wins[m] <= named /\ savedWins[m] <= named
        BY DEF WinsAreDecided
    <2> DEFINE Rows == {d \in decided : verdict[d].winner = m}
    <2>1. Named(m) \subseteq Rows /\ Rows \subseteq Decisions
        BY DEF Named, ElysiumInv, Typed, Places
    <2> HIDE DEF Rows
    <2>2. /\ Cardinality(Named(m)) <= Cardinality(Rows)
          /\ Cardinality(Named(m)) \in Nat /\ Cardinality(Rows) \in Nat
        BY <2>1, Fewer
    <2>3. /\ wins[m] \in Nat /\ wins[m] <= Cardinality(Named(m))
          /\ savedWins[m] \in Nat /\ savedWins[m] <= Cardinality(Named(m))
        BY DEF Winning
    <2>4. wins[m] <= Cardinality(Rows) /\ savedWins[m] <= Cardinality(Rows)
        BY <2>2, <2>3
    <2> QED
        BY <2>4 DEF Rows
<1> QED
    BY <1>1, ElysiumStarts, ElysiumKeeps, WinsStart, WinsKeep, PTL DEF ElysiumSpec

-----------------------------------------------------------------------------
\* The types that the counting does not need.
Judged ==
    /\ verdict \in [Decisions -> Verdicts]
    /\ holder \in Decisions \cup {"nobody", "reflection"}
    /\ model.reflections \in 0 .. MaxReflections
    /\ savedModel.reflections \in 0 .. MaxReflections

LEMMA VerdictTyped ==
    ASSUME NEW d \in Decisions, Deliberate(d)
    PROVE  \E v \in Verdicts : verdict' = [verdict EXCEPT ![d] = v]
<1>1. PICK voices \in SUBSET Members, saved \in SUBSET Members,
           risky \in BOOLEAN, refuses \in BOOLEAN :
         /\ voices \subseteq saved /\ savedWins' = Flushed(saved)
         /\ IF voices = {}
            THEN verdict' = [verdict EXCEPT ![d] = [NoVerdict EXCEPT !.risky = risky]]
            ELSE \E leader \in voices, share \in Shares(Cardinality(voices)) :
                   LET r == Resolution(leader, share, risky, refuses)
                   IN  verdict' = [verdict EXCEPT ![d] =
                           [risky |-> risky, carried |-> share = "high",
                            winner |-> r.winner, text |-> r.text]]
    BY Zenon DEF Deliberate
<1>2. CASE voices = {}
    <2>1. [NoVerdict EXCEPT !.risky = risky] \in Verdicts
        BY DEF NoVerdict, Verdicts
    <2> QED
        BY <1>1, <1>2, <2>1
<1>3. CASE voices # {}
    <2>1. PICK leader \in voices, share \in Shares(Cardinality(voices)) :
              verdict' = [verdict EXCEPT ![d] =
                  [risky |-> risky, carried |-> share = "high",
                   winner |-> Resolution(leader, share, risky, refuses).winner,
                   text |-> Resolution(leader, share, risky, refuses).text]]
        BY <1>1, <1>3
    <2>2. /\ Resolution(leader, share, risky, refuses).winner
                 \in Members \cup {"none", "override"}
          /\ Resolution(leader, share, risky, refuses).text
                 \in {"none", "block", "composite", "refusal", "approval"}
        BY ElysiumAssumption DEF Resolution
    <2>3. (share = "high") \in BOOLEAN
        OBVIOUS
    <2> HIDE DEF Resolution
    <2>4. [risky |-> risky, carried |-> share = "high",
           winner |-> Resolution(leader, share, risky, refuses).winner,
           text |-> Resolution(leader, share, risky, refuses).text] \in Verdicts
        BY <2>2, <2>3 DEF Verdicts
    <2> QED
        BY <2>1, <2>4
<1> QED
    BY <1>2, <1>3

LEMMA JudgedKeeps ==
    ASSUME ElysiumInv, Judged, [ElysiumNext]_elysiumVars
    PROVE  Judged'
<1> USE DEF Judged
<1>1. model \in [decisions : Nat, reflections : Nat]
    BY DEF ElysiumInv, Typed
<1>2. ASSUME NEW d \in Decisions, Deliberate(d) PROVE Judged'
    BY <1>2, VerdictTyped DEF Deliberate
<1>3. ASSUME NEW d \in Decisions, Persist(d) \/ RecordDecision(d) \/ RecordWin(d)
                 \/ Drain(d) \/ Consolidate(d)
      PROVE  Judged'
    BY <1>3 DEF Persist, RecordDecision, RecordWin, Drain, Consolidate
<1>4. ASSUME NEW d \in Decisions, CountDecision(d) \/ WriteRaises(d)
      PROVE  Judged'
    <2>1. /\ UNCHANGED verdict /\ holder' \in {holder, d, "nobody"}
          /\ model' \in {model, [model EXCEPT !.decisions = @ + 1]}
          /\ savedModel' \in {savedModel, model'}
        BY <1>4 DEF CountDecision, WriteRaises, Saved
    <2>2. model'.reflections = model.reflections
        BY <1>1, <2>1
    <2> QED
        BY <2>1, <2>2
<1>5. CASE CountReflection
    <2>1. /\ UNCHANGED verdict /\ holder' \in {holder, "reflection"}
          /\ model' = [model EXCEPT !.reflections = @ + 1]
          /\ savedModel' \in {savedModel, model'}
          /\ model.reflections < MaxReflections
        BY <1>5 DEF CountReflection, Saved
    <2>2. model'.reflections \in 0 .. MaxReflections
        BY <1>1, <2>1, ElysiumAssumption
    <2>3. savedModel'.reflections \in 0 .. MaxReflections
        BY <2>1, <2>2
    <2> QED
        BY <2>1, <2>2, <2>3
<1>6. CASE RecordReflection \/ Restart \/ UNCHANGED elysiumVars
    BY <1>6 DEF RecordReflection, Restart, elysiumVars
<1> QED
    BY <1>2, <1>3, <1>4, <1>5, <1>6 DEF ElysiumNext, Decide

LEMMA ElysiumTypes == ElysiumSpec => [](ElysiumInv /\ Winning /\ Judged)
<1>1. ElysiumInit => Judged
    <2>1. NoVerdict \in Verdicts
        BY DEF NoVerdict, Verdicts
    <2> QED
        BY <2>1, ElysiumAssumption DEF ElysiumInit, Judged
<1>2. ElysiumInv /\ Winning /\ Judged /\ [ElysiumNext]_elysiumVars
          => (ElysiumInv /\ Winning /\ Judged)'
    BY ElysiumKeeps, WinsKeep, JudgedKeeps
<1> QED
    BY <1>1, <1>2, ElysiumStarts, WinsStart, PTL DEF ElysiumSpec

\* Every call of the Nexus loop, every reflection, every raised write and every
\* restart keeps the types of the loop, its self-model and its databases.
THEOREM ElysiumTyping == ElysiumSpec => []ElysiumTypeOK
<1>1. ElysiumInv /\ Winning /\ Judged => ElysiumTypeOK
    <2> SUFFICES ASSUME ElysiumInv, Winning, Judged PROVE ElysiumTypeOK
        OBVIOUS
    <2>1. model \in Counts /\ savedModel \in Counts
        BY DEF ElysiumInv, Typed, Judged, Counts
    <2> QED
        BY <2>1 DEF ElysiumTypeOK, ElysiumInv, Typed, Places, Winning, Judged
<1> QED
    BY <1>1, ElysiumTypes, PTL

-----------------------------------------------------------------------------
(* The line log.                                                           *)

\* The system has one logger object on the path.
OneLogger == \A t, u \in Writers : LoggerOf[t] = LoggerOf[u]

Shaped ==
    /\ files = [i \in 0 .. MaxBackups |-> files[i]]
    /\ lock \in [Loggers -> SUBSET Writers]
    /\ place \in [Writers -> {"idle", "look", "shift", "move", "current", "gzip", "write"}]
    /\ slot \in [Writers -> 0 .. MaxBackups - 1]

\* Whoever is inside append holds its logger's lock, and nobody else does.
Locked == \A t \in Writers : place[t] # "idle" => lock[LoggerOf[t]] = {t}

\* The file that is about to be moved is there.
Seen ==
    \A t \in Writers :
        /\ place[t] = "move" => slot[t] > 0 /\ files[slot[t]] # <<>>
        /\ place[t] \in {"shift", "move", "current"} => files[0] # <<>>

LogInv == Shaped /\ Locked /\ Seen /\ OnlyTheDiskRaises

LEMMA LogStarts == LogInit => LogInv
BY LogAssumption DEF LogInit, LogInv, Shaped, Locked, Seen, OnlyTheDiskRaises

\* One thread at most is inside append.
LEMMA OneInside ==
    ASSUME OneLogger, Locked, NEW t \in Writers, NEW u \in Writers,
           place[t] # "idle", place[u] # "idle"
    PROVE  t = u
<1>1. lock[LoggerOf[t]] = {t} /\ lock[LoggerOf[u]] = {u} /\ LoggerOf[t] = LoggerOf[u]
    BY DEF OneLogger, Locked
<1> QED
    BY <1>1

\* The lock is taken and given back.
LEMMA EntryKeeps ==
    ASSUME OneLogger, LogInv, NEW t \in Writers, Enter(t) \/ Write(t)
    PROVE  LogInv'
<1> USE DEF LogInv
<1>1. LoggerOf[t] \in Loggers
    BY LogAssumption
<1>2. CASE Enter(t)
    <2>1. /\ lock[LoggerOf[t]] = {} /\ lock' = [lock EXCEPT ![LoggerOf[t]] = {t}]
          /\ place' = [place EXCEPT ![t] = "look"]
          /\ UNCHANGED <<files, slot, failed>>
        BY <1>2 DEF Enter, Acquire
    <2>2. Shaped'
        BY <1>1, <2>1 DEF Shaped
    <2>3. \A u \in Writers : place[u] = "idle"
        BY <2>1 DEF OneLogger, Locked
    <2>4. \A u \in Writers : place'[u] = IF u = t THEN "look" ELSE "idle"
        BY <2>1, <2>3 DEF Shaped
    <2>5. lock'[LoggerOf[t]] = {t}
        BY <1>1, <2>1 DEF Shaped
    <2>6. Locked' /\ Seen'
        BY <2>4, <2>5 DEF Locked, Seen
    <2> QED
        BY <2>1, <2>2, <2>6 DEF OnlyTheDiskRaises
<1>3. CASE Write(t)
    <2>1. /\ place[t] = "write" /\ place' = [place EXCEPT ![t] = "idle"]
          /\ lock' = [lock EXCEPT ![LoggerOf[t]] = {}]
          /\ \E added : files' = [files EXCEPT ![0] = added]
          /\ UNCHANGED <<slot, failed>>
        <3>1. \E added : files' = [files EXCEPT ![0] = added]
            <4>1. files = [files EXCEPT ![0] = files[0]]
                BY DEF Shaped
            <4>2. files' = files
                  \/ files' = [files EXCEPT ![0] = Added(files[0], Fragment)]
                  \/ files' = [files EXCEPT ![0] = Added(files[0], number')]
                BY <1>3, LogAssumption DEF Write
            <4> QED
                BY <4>1, <4>2
        <3> QED
            BY <1>3, <3>1 DEF Write
    <2>2. Shaped'
        BY <1>1, <2>1 DEF Shaped
    <2>3. \A u \in Writers : place'[u] = "idle"
        BY <2>1, OneInside DEF Shaped
    <2> QED
        BY <2>1, <2>2, <2>3 DEF Locked, Seen, OnlyTheDiskRaises
<1> QED
    BY <1>2, <1>3

\* A move that the disk refuses: its thread leaves, and nobody else is inside.
LEMMA RefusedMoveKeeps ==
    ASSUME OneLogger, LogInv, NEW t \in Writers, place[t] # "idle",
           NEW i \in 0 .. MaxBackups, files[i] # <<>>, MoveRaises(t, i)
    PROVE  LogInv'
<1> USE DEF LogInv
<1>1. /\ place' = [place EXCEPT ![t] = "idle"]
      /\ lock' = [lock EXCEPT ![LoggerOf[t]] = {}]
      /\ UNCHANGED <<files, slot>> /\ failed' = failed \cup {"disk"}
    BY DEF MoveRaises
<1>2. LoggerOf[t] \in Loggers
    BY LogAssumption
<1>3. Shaped'
    BY <1>1, <1>2 DEF Shaped
<1>4. \A u \in Writers : place'[u] = "idle"
    BY <1>1, OneInside DEF Shaped
<1>5. OnlyTheDiskRaises'
    BY <1>1 DEF OnlyTheDiskRaises
<1> QED
    BY <1>3, <1>4, <1>5 DEF Locked, Seen

\* The steps between: what the thread has seen is still so when it moves it.
LEMMA RotationKeeps ==
    ASSUME OneLogger, LogInv, NEW t \in Writers, Look(t) \/ RotateSteps(t)
    PROVE  LogInv'
<1> USE DEF LogInv
<1>1. place[t] # "idle" /\ slot[t] \in 0 .. MaxBackups - 1 /\ MaxBackups \in Nat \ {0}
      /\ FullAt \in Nat \ {0}
    BY LogAssumption DEF Look, RotateSteps, SeeBackup, MoveBackup, MoveCurrent,
        Compress, Shaped
<1>2. \A u \in Writers : u # t => place[u] = "idle"
    BY <1>1, OneInside
\* What is left to show of a step that keeps the lock and its thread inside.
<1>3. ASSUME NEW s \in {"shift", "move", "current", "gzip", "write"},
             place' = [place EXCEPT ![t] = s],
             NEW n \in 0 .. MaxBackups - 1, slot' = [slot EXCEPT ![t] = n],
             files' = [i \in 0 .. MaxBackups |-> files'[i]],
             UNCHANGED <<lock, failed>>,
             s = "move" => n > 0 /\ files'[n] # <<>>,
             s \in {"shift", "move", "current"} => files'[0] # <<>>
      PROVE  LogInv'
    <2>1. Shaped'
        BY <1>3 DEF Shaped
    <2>2. \A u \in Writers : place'[u] = (IF u = t THEN s ELSE "idle")
                             /\ (u = t => slot'[u] = n)
        BY <1>2, <1>3 DEF Shaped
    <2>3. Locked' /\ Seen'
        BY <1>1, <1>3, <2>2 DEF Locked, Seen
    <2> QED
        BY <1>3, <2>1, <2>3 DEF OnlyTheDiskRaises
<1>4. slot = [slot EXCEPT ![t] = slot[t]]
    BY DEF Shaped
<1>5. CASE Look(t)
    <2>1. /\ place' = [place EXCEPT ![t] = IF Len(files[0]) < FullAt
                                            THEN "write" ELSE "shift"]
          /\ slot' = [slot EXCEPT ![t] = MaxBackups - 1]
          /\ UNCHANGED <<files, lock, failed>>
        BY <1>5 DEF Look
    <2>2. files' = [i \in 0 .. MaxBackups |-> files'[i]]
        BY <2>1 DEF Shaped
    <2>3. MaxBackups - 1 \in 0 .. MaxBackups - 1
        BY <1>1
    <2>4. CASE Len(files[0]) < FullAt
        <3>1. place' = [place EXCEPT ![t] = "write"]
            BY <2>1, <2>4
        <3> QED
            BY <1>3, <2>1, <2>2, <2>3, <3>1
    <2>5. CASE ~(Len(files[0]) < FullAt)
        <3>1. place' = [place EXCEPT ![t] = "shift"] /\ files'[0] # <<>>
            BY <1>1, <2>1, <2>5
        <3> QED
            BY <1>3, <2>1, <2>2, <2>3, <3>1
    <2> QED
        BY <2>4, <2>5
<1>6. CASE SeeBackup(t)
    <2>1. files[0] # <<>> /\ UNCHANGED <<files, lock, failed>>
          /\ files' = [i \in 0 .. MaxBackups |-> files'[i]]
        BY <1>6 DEF SeeBackup, Seen, Shaped
    <2>2. CASE slot[t] = 0
        BY <1>1, <1>3, <1>4, <1>6, <2>1, <2>2 DEF SeeBackup
    <2>3. CASE slot[t] > 0 /\ files[slot[t]] # <<>>
        BY <1>1, <1>3, <1>4, <1>6, <2>1, <2>3 DEF SeeBackup
    <2>4. CASE slot[t] > 0 /\ files[slot[t]] = <<>>
        <3>1. slot' = [slot EXCEPT ![t] = slot[t] - 1] /\ place' = place
              /\ place[t] = "shift" /\ slot[t] - 1 \in 0 .. MaxBackups - 1
            BY <1>1, <1>6, <2>4 DEF SeeBackup
        <3>2. place = [place EXCEPT ![t] = "shift"]
            BY <3>1 DEF Shaped
        <3> QED
            BY <1>3, <2>1, <3>1, <3>2
    <2> QED
        BY <1>6, <2>2, <2>3, <2>4 DEF SeeBackup
<1>7. CASE MoveBackup(t)
    <2>1. slot[t] > 0 /\ files[slot[t]] # <<>> /\ files[0] # <<>>
        BY <1>7 DEF MoveBackup, Seen
    <2>2. CASE MoveRaises(t, slot[t])
        <3>1. slot[t] \in 0 .. MaxBackups
            BY <1>1
        <3> QED
            BY <1>1, <2>1, <2>2, <3>1, RefusedMoveKeeps
    <2>3. CASE /\ files' = Moved(slot[t]) /\ place' = [place EXCEPT ![t] = "shift"]
               /\ slot' = [slot EXCEPT ![t] = slot[t] - 1]
               /\ UNCHANGED <<lock, failed>>
        <3> DEFINE k == slot[t]
        <3>1. /\ files' = [files EXCEPT ![k + 1] = files[k], ![k] = <<>>]
              /\ k \in 1 .. MaxBackups - 1
            BY <1>1, <2>1, <2>3 DEF Moved
        <3>2. DOMAIN files = 0 .. MaxBackups /\ 0 \in 0 .. MaxBackups
            BY <1>1 DEF Shaped
        <3>3. k - 1 \in 0 .. MaxBackups - 1
            BY <1>1, <2>1
        <3>4. slot' = [slot EXCEPT ![t] = k - 1]
            BY <2>3
        <3> HIDE DEF k
        <3>5. k # 0 /\ k + 1 # 0
            BY <1>1, <3>1
        <3>6. files' = [j \in 0 .. MaxBackups |-> files'[j]]
            BY <3>1, <3>2
        <3>7. files'[0] = files[0]
            BY <3>1, <3>2, <3>5
        <3> QED
            BY <1>3, <2>1, <2>3, <3>3, <3>4, <3>6, <3>7
    <2> QED
        BY <1>7, <2>2, <2>3 DEF MoveBackup
<1>8. CASE MoveCurrent(t)
    <2>1. files[0] # <<>>
        BY <1>8 DEF MoveCurrent, Seen
    <2>2. CASE MoveRaises(t, 0)
        <3>1. 0 \in 0 .. MaxBackups
            BY <1>1
        <3> QED
            BY <1>1, <2>1, <2>2, <3>1, RefusedMoveKeeps
    <2>3. CASE /\ files' = Moved(0) /\ place' = [place EXCEPT ![t] = "gzip"]
               /\ UNCHANGED <<slot, lock, failed>>
        <3>1. files' = [i \in 0 .. MaxBackups |-> files'[i]]
            BY <2>3 DEF Moved, Shaped
        <3> QED
            BY <1>1, <1>3, <1>4, <2>3, <3>1
    <2> QED
        BY <1>8, <2>2, <2>3 DEF MoveCurrent
<1>9. CASE Compress(t)
    <2>1. files' = files \/ files' = [files EXCEPT ![MaxBackups] = <<>>]
        BY <1>9 DEF Compress
    <2>2. files' = [i \in 0 .. MaxBackups |-> files'[i]]
        BY <2>1 DEF Shaped
    <2> QED
        BY <1>1, <1>3, <1>4, <1>9, <2>2 DEF Compress
<1> QED
    BY <1>5, <1>6, <1>7, <1>8, <1>9 DEF RotateSteps

\* A death frees the lock of its logger, and none of its threads is inside.
LEMMA DeathKeeps ==
    ASSUME LogInv, NEW l \in Loggers, LoggerDies(l)
    PROVE  LogInv'
<1> USE DEF LogInv
<1>1. /\ place' = [u \in Writers |-> IF LoggerOf[u] = l THEN "idle" ELSE place[u]]
      /\ lock' = [lock EXCEPT ![l] = {}] /\ UNCHANGED <<files, slot, failed>>
    BY DEF LoggerDies
<1>2. Shaped' /\ Seen'
    BY <1>1 DEF Shaped, Seen
<1>3. Locked'
    BY <1>1, LogAssumption DEF Shaped, Locked
<1> QED
    BY <1>1, <1>2, <1>3 DEF OnlyTheDiskRaises

LEMMA LogKeeps == OneLogger /\ LogInv /\ [LogNext]_logVars => LogInv'
<1>1. LogInv /\ UNCHANGED logVars => LogInv'
    BY DEF logVars, LogInv, Shaped, Locked, Seen, OnlyTheDiskRaises
<1> QED
    BY <1>1, EntryKeeps, RotationKeeps, DeathKeeps DEF LogNext

\* For any number of threads, backups and lines, any disk faults, failed moves
\* and deaths anywhere: with one logger object on its path, append raises only
\* where the disk refuses a move, and never because its file is gone.
THEOREM RaisesAreTheDisks ==
    ASSUME OneLogger
    PROVE  LogSpec => []OnlyTheDiskRaises
<1>1. LogInv /\ [LogNext]_logVars => LogInv'
    BY LogKeeps
<1>2. LogInv => OnlyTheDiskRaises
    BY DEF LogInv
<1> QED
    BY <1>1, <1>2, LogStarts, PTL DEF LogSpec

-----------------------------------------------------------------------------
\* Only a backup is moved by the loop over the backups.
SlotInv == LogTypeOK /\ \A t \in Writers : place[t] = "move" => slot[t] > 0

\* A file to which a line or a fragment is added is a sequence of lines.
LEMMA AddedTyped ==
    ASSUME NEW file \in Seq(Line), NEW line \in Line
    PROVE  Added(file, line) \in Seq(Line)
<1>1. Glued \in Line
    BY LogAssumption DEF Glued, Line
<1>2. CASE file # <<>> /\ file[Len(file)] = Fragment
    BY <1>1, <1>2 DEF Added
<1>3. CASE ~(file # <<>> /\ file[Len(file)] = Fragment)
    BY <1>3 DEF Added
<1> QED
    BY <1>2, <1>3

\* A file moved one place on.
LEMMA MovedTyped ==
    ASSUME LogTypeOK, NEW i \in 0 .. MaxBackups - 1
    PROVE  Moved(i) \in [0 .. MaxBackups -> Seq(Line)]
<1>1. i \in 0 .. MaxBackups /\ i + 1 \in 0 .. MaxBackups
    BY LogAssumption
<1>2. <<>> \in Seq(Line)
    OBVIOUS
<1> QED
    BY <1>1, <1>2 DEF Moved, LogTypeOK

\* A thread enters, looks, writes or dies.
LEMMA WriterTyped ==
    ASSUME SlotInv, NEW t \in Writers, Enter(t) \/ Look(t) \/ Write(t)
    PROVE  SlotInv'
<1> USE DEF SlotInv
<1>1. CASE Enter(t)
    BY <1>1, LogAssumption DEF Enter, Acquire, LogTypeOK
<1>2. CASE Look(t)
    <2>1. MaxBackups - 1 \in 0 .. MaxBackups - 1
        BY LogAssumption
    <2> QED
        BY <1>2, <2>1 DEF Look, LogTypeOK
<1>3. CASE Write(t)
    <2>1. /\ number' = number + 1 /\ number < MaxRecords
          /\ written' \in {written, written \cup {number'}}
          /\ files' \in {files, [files EXCEPT ![0] = Added(files[0], Fragment)],
                         [files EXCEPT ![0] = Added(files[0], number')]}
          /\ place' = [place EXCEPT ![t] = "idle"]
          /\ lock' = [lock EXCEPT ![LoggerOf[t]] = {}]
          /\ UNCHANGED <<archive, slot, failed>>
        <3>1. files' \in {files, [files EXCEPT ![0] = Added(files[0], Fragment)],
                          [files EXCEPT ![0] = Added(files[0], number')]}
            BY <1>3, LogAssumption DEF Write
        <3>2. written' \in {written, written \cup {number'}}
            BY <1>3 DEF Write
        <3> QED
            BY <1>3, <3>1, <3>2 DEF Write
    <2>2. number \in Nat /\ number' \in 0 .. MaxRecords /\ MaxRecords \in Nat
        BY <2>1, LogAssumption DEF LogTypeOK
    <2>3. written' \subseteq 1 .. number'
        BY <2>1, <2>2 DEF LogTypeOK
    <2>4. 0 \in 0 .. MaxBackups /\ Fragment \in Line /\ number' \in Line
        BY <2>1, <2>2, LogAssumption DEF Fragment, Line
    <2>5. /\ Added(files[0], Fragment) \in Seq(Line)
          /\ Added(files[0], number') \in Seq(Line)
        BY <2>4, AddedTyped DEF LogTypeOK
    <2>6. files' \in [0 .. MaxBackups -> Seq(Line)]
        BY <2>1, <2>4, <2>5 DEF LogTypeOK
    <2>7. /\ place' \in [Writers -> {"idle", "look", "shift", "move", "current",
                                     "gzip", "write"}]
          /\ lock' \in [Loggers -> SUBSET Writers]
          /\ \A u \in Writers : place'[u] = "move" => slot'[u] > 0
        BY <2>1 DEF LogTypeOK
    <2> QED
        BY <2>1, <2>2, <2>3, <2>6, <2>7 DEF LogTypeOK
<1> QED
    BY <1>1, <1>2, <1>3

\* The steps of a rotation.
LEMMA RotationTyped ==
    ASSUME SlotInv, NEW t \in Writers, RotateSteps(t)
    PROVE  SlotInv'
<1> USE DEF SlotInv
<1>1. slot[t] \in 0 .. MaxBackups - 1 /\ MaxBackups \in Nat \ {0}
    BY LogAssumption DEF LogTypeOK
<1>2. CASE SeeBackup(t)
    <2>1. /\ UNCHANGED <<files, archive, lock, number, written, failed>>
          /\ \E s \in {"shift", "current", "move"}, n \in 0 .. MaxBackups - 1 :
                place' = [place EXCEPT ![t] = s] /\ slot' = [slot EXCEPT ![t] = n]
                /\ (s = "move" => n > 0)
        <3>1. CASE slot[t] = 0
            <4>1. slot' = [slot EXCEPT ![t] = slot[t]]
                  /\ place' = [place EXCEPT ![t] = "current"]
                BY <1>2, <3>1 DEF SeeBackup, LogTypeOK
            <4> QED
                BY <1>1, <1>2, <4>1 DEF SeeBackup
        <3>2. CASE slot[t] > 0 /\ files[slot[t]] # <<>>
            <4>1. slot' = [slot EXCEPT ![t] = slot[t]]
                  /\ place' = [place EXCEPT ![t] = "move"]
                BY <1>1, <1>2, <3>2 DEF SeeBackup, LogTypeOK
            <4> QED
                BY <1>1, <1>2, <3>2, <4>1 DEF SeeBackup
        <3>3. CASE slot[t] > 0 /\ files[slot[t]] = <<>>
            <4>1. slot' = [slot EXCEPT ![t] = slot[t] - 1]
                  /\ place' = [place EXCEPT ![t] = "shift"]
                  /\ slot[t] - 1 \in 0 .. MaxBackups - 1
                BY <1>1, <1>2, <3>3 DEF SeeBackup, LogTypeOK
            <4> QED
                BY <1>2, <4>1 DEF SeeBackup
        <3> QED
            BY <1>1, <3>1, <3>2, <3>3
    <2> QED
        BY <2>1 DEF LogTypeOK
<1>3. ASSUME NEW i \in 0 .. MaxBackups - 1, MoveRaises(t, i),
             UNCHANGED <<archive, number, written>>
      PROVE  SlotInv'
    BY <1>3, LogAssumption DEF MoveRaises, LogTypeOK
<1>4. CASE MoveBackup(t)
    <2>1. CASE MoveRaises(t, slot[t])
        BY <1>1, <1>3, <1>4, <2>1 DEF MoveBackup
    <2>2. CASE /\ files' = Moved(slot[t]) /\ place' = [place EXCEPT ![t] = "shift"]
               /\ slot' = [slot EXCEPT ![t] = @ - 1]
               /\ UNCHANGED <<lock, failed>>
        <3>1. files' \in [0 .. MaxBackups -> Seq(Line)]
            BY <1>1, <2>2, MovedTyped
        <3>2. slot[t] > 0 /\ slot[t] - 1 \in 0 .. MaxBackups - 1
            BY <1>1, <1>4 DEF MoveBackup
        <3> QED
            BY <1>4, <2>2, <3>1, <3>2 DEF MoveBackup, LogTypeOK
    <2> QED
        BY <1>4, <2>1, <2>2 DEF MoveBackup
<1>5. CASE MoveCurrent(t)
    <2>1. 0 \in 0 .. MaxBackups - 1
        BY <1>1
    <2>2. CASE MoveRaises(t, 0)
        BY <1>3, <1>5, <2>1, <2>2 DEF MoveCurrent
    <2>3. CASE /\ files' = Moved(0) /\ place' = [place EXCEPT ![t] = "gzip"]
               /\ UNCHANGED <<slot, lock, failed>>
        <3>1. files' \in [0 .. MaxBackups -> Seq(Line)]
            BY <2>1, <2>3, MovedTyped
        <3> QED
            BY <1>5, <2>3, <3>1 DEF MoveCurrent, LogTypeOK
    <2> QED
        BY <1>5, <2>2, <2>3 DEF MoveCurrent
<1>6. CASE Compress(t)
    <2>1. /\ files' \in {files, [files EXCEPT ![MaxBackups] = <<>>]}
          /\ archive' \in {archive, files[MaxBackups], <<>>}
          /\ place' = [place EXCEPT ![t] = "write"]
          /\ UNCHANGED <<lock, slot, number, written, failed>>
        BY <1>6 DEF Compress
    <2>2. MaxBackups \in 0 .. MaxBackups /\ <<>> \in Seq(Line)
        BY <1>1
    <2>3. /\ files' \in [0 .. MaxBackups -> Seq(Line)] /\ archive' \in Seq(Line)
        BY <2>1, <2>2 DEF LogTypeOK
    <2> QED
        BY <2>1, <2>3 DEF LogTypeOK
<1> QED
    BY <1>2, <1>4, <1>5, <1>6 DEF RotateSteps

\* For any number of threads and logger objects on the path, any disk faults
\* and deaths anywhere: the log keeps its types, and only numbers that were
\* handed out are reported as written.
THEOREM LogTyping == LogSpec => []LogTypeOK
<1>1. LogInit => SlotInv
    <2>1. <<>> \in Seq(Line) /\ 0 \in 0 .. MaxRecords /\ 0 \in 0 .. MaxBackups - 1
        BY LogAssumption
    <2> QED
        BY <2>1 DEF LogInit, SlotInv, LogTypeOK
<1>2. SlotInv /\ [LogNext]_logVars => SlotInv'
    <2>1. ASSUME SlotInv, UNCHANGED logVars PROVE SlotInv'
        BY <2>1 DEF logVars, SlotInv, LogTypeOK
    <2>2. ASSUME SlotInv, NEW l \in Loggers, LoggerDies(l) PROVE SlotInv'
        BY <2>2 DEF LoggerDies, SlotInv, LogTypeOK
    <2> QED
        BY <2>1, <2>2, WriterTyped, RotationTyped DEF LogNext
<1>3. SlotInv => LogTypeOK
    BY DEF SlotInv
<1> QED
    BY <1>1, <1>2, <1>3, PTL DEF LogSpec

-----------------------------------------------------------------------------
(* The parts together.                                                     *)

\* Whichever part moves, the others keep their variables, so every behaviour
\* of the stores is a behaviour of each part, and each part keeps its types.
THEOREM StoresTyping == StoresSpec => []StoresTypeOK
<1>1. StoresInit => VaultInit /\ LogInit /\ ElysiumInit /\ JournalInit /\ WorkspaceInit
    BY DEF StoresInit
<1>2. [StoresNext]_<<storesVars, store>> =>
          /\ [VaultNext]_vaultVars /\ [LogNext]_logVars /\ [ElysiumNext]_elysiumVars
          /\ [JournalNext]_journalVars /\ [WorkspaceNext]_workspaceVars
    BY DEF StoresNext, storesVars
<1>3. VaultTypeOK /\ LogTypeOK /\ ElysiumTypeOK /\ JournalTypeOK /\ WorkspaceTypeOK
          => StoresTypeOK
    BY DEF StoresTypeOK
<1> QED
    BY <1>1, <1>2, <1>3, VaultTyping, LogTyping, ElysiumTyping, JournalTyping,
       WorkspaceTyping, PTL
       DEF StoresSpec, VaultSpec, LogSpec, ElysiumSpec, JournalSpec, WorkspaceSpec
=============================================================================
