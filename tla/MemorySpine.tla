---------------------------- MODULE MemorySpine ----------------------------
(***************************************************************************)
(* The unified memory spine (core/unified_memory.py, core/memory.py).      *)
(*                                                                         *)
(* A memory lives in two stores: a row of the SQLite table `episodic' and  *)
(* a vector of the Chroma collection, under one id.  Every operation is a  *)
(* blocking call run on a worker thread (anyio.to_thread) and commits to   *)
(* SQLite before it touches Chroma, with no lock over the two, so the      *)
(* steps of concurrent calls interleave and a call may raise or its        *)
(* process may die between them.                                           *)
(*                                                                         *)
(* The DMU score of a row is its `worth'; it only decays, because          *)
(* `repetitions' is never updated.  `fresh' is "less than one hour old".   *)
(***************************************************************************)
EXTENDS Naturals, FiniteSets, Functions

CONSTANTS
    Ids,          \* the uuid4 ids that calls draw
    Threads,      \* worker threads
    Concepts,     \* names of learned concepts
    NoConcept,    \* the row is not learned_knowledge, or nothing to insert
    NoRow,        \* "this id has no row"
    MaxWorth,     \* bound: DMU scores are 0 .. MaxWorth
    Threshold,    \* rows scoring below it are pruned
    MaxMemories,  \* the hard cap of a prune
    Breaks        \* {}, or the ways a call is cut short: {"raise", "die"}

ASSUME BoundsAssumption ==
    MaxWorth \in Nat /\ Threshold \in 0 .. MaxWorth /\ MaxMemories \in Nat
ASSUME NoConceptAssumption == NoConcept \notin Concepts
ASSUME BreaksAssumption == Breaks \subseteq {"raise", "die"}

Row == [ concept : Concepts \cup {NoConcept},
         intense : BOOLEAN,      \* emotion_intensity > 0.85
         worth   : 0 .. MaxWorth,
         fresh   : BOOLEAN ]

ASSUME NoRowAssumption == NoRow \notin Row

\* What a thread has left to do, and for which ids.  "insert" is the second
\* half of edit_concept: the forget is over, the new description is not in.
Calls == [ pc   : {"idle", "insert", "vector", "delete", "unvector"},
           ids  : SUBSET Ids,
           by   : {"remember", "forget", "prune", "none"},
           edit : Concepts \cup {NoConcept} ]

Idle == [pc |-> "idle", ids |-> {}, by |-> "none", edit |-> NoConcept]

VARIABLES
    rows,     \* rows[id]: the SQLite row, or NoRow
    vectors,  \* ids in the Chroma collection
    drawn,    \* ids that uuid4 has returned
    call,     \* call[t]: what thread t is doing
    cut       \* history: ids whose remember was cut short before its add

vars == <<rows, vectors, drawn, call, cut>>

Stored == { i \in Ids : rows[i] # NoRow }

Init ==
    /\ rows = [i \in Ids |-> NoRow]
    /\ vectors = {}
    /\ drawn = {}
    /\ call = [t \in Threads |-> Idle]
    /\ cut = {}

-----------------------------------------------------------------------------
(* remember_sync: INSERT and commit, then collection.add.                  *)

\* The commit of the row.  A new row is less than an hour old.
Insert(t, id, c, intense, w) ==
    /\ id \notin drawn
    /\ drawn' = drawn \cup {id}
    /\ rows' = [rows EXCEPT ![id] = [ concept |-> c, intense |-> intense,
                                      worth |-> w, fresh |-> TRUE ]]
    /\ call' = [call EXCEPT ![t] = [ pc |-> "vector", ids |-> {id},
                                     by |-> "remember", edit |-> NoConcept ]]
    /\ UNCHANGED <<vectors, cut>>

Remember(t) ==
    /\ call[t].pc = "idle"
    /\ \E id \in Ids, c \in Concepts \cup {NoConcept},
          intense \in BOOLEAN, w \in 0 .. MaxWorth : Insert(t, id, c, intense, w)

\* Mutant: the row is written again (INSERT OR REPLACE) when the add returns.
AddVectorRewritesRow(t) ==
    /\ call[t].pc = "vector"
    /\ vectors' = vectors \cup call[t].ids
    /\ rows' = [i \in Ids |->
                  IF i \in call[t].ids
                  THEN [concept |-> NoConcept, intense |-> FALSE, worth |-> 0, fresh |-> TRUE]
                  ELSE rows[i]]
    /\ call' = [call EXCEPT ![t] = Idle]
    /\ UNCHANGED <<drawn, cut>>

\* Mutant: collection.add raises and remember_sync swallows it.
AddVectorLost(t) ==
    /\ call[t].pc = "vector"
    /\ call' = [call EXCEPT ![t] = Idle]
    /\ UNCHANGED <<rows, drawn, vectors, cut>>

AddVector(t) ==
    /\ call[t].pc = "vector"
    /\ vectors' = vectors \cup call[t].ids
    /\ call' = [call EXCEPT ![t] = Idle]
    /\ UNCHANGED <<rows, drawn, cut>>

-----------------------------------------------------------------------------
(* forget_concept_sync, and edit_concept, which forgets and then remembers.*)

\* What an edit of concept e goes on with once its forget returns.
AfterForget(e) ==
    IF e = NoConcept THEN Idle
                     ELSE [pc |-> "insert", ids |-> {}, by |-> "remember", edit |-> e]

\* The SELECT; with nothing to delete the call returns at once.
ForgetScan(t, c, e) ==
    /\ call[t].pc = "idle"
    /\ LET found == { i \in Stored : rows[i].concept = c }
       IN call' = [call EXCEPT ![t] =
                     IF found = {} THEN AfterForget(e)
                     ELSE [pc |-> "delete", ids |-> found, by |-> "forget", edit |-> e]]
    /\ UNCHANGED <<rows, vectors, drawn, cut>>

Forget(t) == \E c \in Concepts : ForgetScan(t, c, NoConcept)
Edit(t)   == \E c \in Concepts : ForgetScan(t, c, c)

\* The new description of an edited concept is remembered at importance 0.8
\* and carries no emotion.
EditInsert(t) ==
    /\ call[t].pc = "insert"
    /\ \E id \in Ids : Insert(t, id, call[t].edit, FALSE, MaxWorth)

-----------------------------------------------------------------------------
(* prune_sync.                                                             *)

Protected(r) == r.fresh \/ r.intense

\* Mutant: the hard cap forgets the emotion override.
DeletableWithIntense == { i \in Stored : ~rows[i].fresh }

Deletable == { i \in Stored : ~Protected(rows[i]) }

Worthless == { i \in Deletable : rows[i].worth < Threshold }

\* How many rows the hard cap still has to remove after the threshold.
Excess ==
    LET left == Cardinality(Stored) - Cardinality(Worthless)
    IN IF left > MaxMemories THEN left - MaxMemories ELSE 0

Spared == Deletable \ Worthless

\* Mutant: deletable.sort(reverse=True), the best rows go first.
SortedBest ==
    { order \in Bijection(1 .. Cardinality(Spared), Spared) :
        \A k, l \in DOMAIN order :
           k < l => rows[order[k]].worth >= rows[order[l]].worth }

\* deletable.sort(key=dmu): rows of equal score stay in the order the SELECT
\* returned them in, which asks for none.
Sorted ==
    { order \in Bijection(1 .. Cardinality(Spared), Spared) :
        \A k, l \in DOMAIN order :
           k < l => rows[order[k]].worth <= rows[order[l]].worth }

\* deletable[:needed]
Trimmed(order) == { order[k] : k \in (1 .. Excess) \cap DOMAIN order }

Doomed(order) == Worthless \cup Trimmed(order)

\* The SELECT and the scoring.  Nothing is locked until the DELETE.
PruneScan(t, force) ==
    /\ call[t].pc = "idle"
    /\ force \/ Cardinality(Stored) > MaxMemories
    /\ \E order \in Sorted :
         /\ Doomed(order) # {}
         /\ call' = [call EXCEPT ![t] = [ pc |-> "delete", ids |-> Doomed(order),
                                          by |-> "prune", edit |-> NoConcept ]]
    /\ UNCHANGED <<rows, vectors, drawn, cut>>

Prune(t) == \E force \in BOOLEAN : PruneScan(t, force)

-----------------------------------------------------------------------------
(* The rest of a forget or a prune: DELETE and commit, collection.delete.  *)

DeleteRows(t) ==
    /\ call[t].pc = "delete"
    /\ rows' = [i \in Ids |-> IF i \in call[t].ids THEN NoRow ELSE rows[i]]
    /\ call' = [call EXCEPT ![t] = [call[t] EXCEPT !.pc = "unvector"]]
    /\ UNCHANGED <<vectors, drawn, cut>>

DeleteVectors(t) ==
    /\ call[t].pc = "unvector"
    /\ vectors' = vectors \ call[t].ids
    /\ call' = [call EXCEPT ![t] = AfterForget(call[t].edit)]
    /\ UNCHANGED <<rows, drawn, cut>>

-----------------------------------------------------------------------------
(* The environment.                                                        *)

\* Mutant: the score is not kept from falling below zero.
AgeUnclamped(id) ==
    /\ rows[id] # NoRow
    /\ \/ /\ rows[id].fresh
          /\ rows' = [rows EXCEPT ![id] = [rows[id] EXCEPT !.fresh = FALSE]]
       \/ rows' = [rows EXCEPT ![id] = [rows[id] EXCEPT !.worth = rows[id].worth - 1]]
    /\ UNCHANGED <<vectors, drawn, call, cut>>

\* Time: a row passes its first hour, or its score decays, down to zero.
Age(id) ==
    /\ rows[id] # NoRow
    /\ \/ /\ rows[id].fresh
          /\ rows' = [rows EXCEPT ![id] = [rows[id] EXCEPT !.fresh = FALSE]]
       \/ /\ rows[id].worth > 0
          /\ rows' = [rows EXCEPT ![id] = [rows[id] EXCEPT !.worth = rows[id].worth - 1]]
    /\ UNCHANGED <<vectors, drawn, call, cut>>

\* Ids whose row a thread has committed and whose vector it has not added.
Pending(t) == IF call[t].pc = "vector" THEN call[t].ids ELSE {}

\* A store raises inside the call: the steps already committed stay.
Raise(t) ==
    /\ "raise" \in Breaks
    /\ call[t].pc # "idle"
    /\ call' = [call EXCEPT ![t] = Idle]
    /\ cut' = cut \cup Pending(t)
    /\ UNCHANGED <<rows, vectors, drawn>>

\* The process dies: both stores are on disk.
Die ==
    /\ "die" \in Breaks
    /\ call' = [t \in Threads |-> Idle]
    /\ cut' = cut \cup UNION {Pending(t) : t \in Threads}
    /\ UNCHANGED <<rows, vectors, drawn>>

Step(t) ==
    \/ AddVector(t) \/ EditInsert(t) \/ DeleteRows(t) \/ DeleteVectors(t)

Next ==
    \/ \E t \in Threads :
         \/ Remember(t) \/ Forget(t) \/ Edit(t) \/ Prune(t)
         \/ Step(t) \/ Raise(t)
    \/ \E id \in Ids : Age(id)
    \/ Die

\* A call that has begun goes on: worker threads are scheduled by the OS.
SpineSpec     == Init /\ [][Next]_vars
FairSpineSpec == SpineSpec /\ \A t \in Threads : WF_vars(Step(t))

-----------------------------------------------------------------------------
(* Properties.                                                             *)

SpineTypeOK ==
    /\ rows \in [Ids -> Row \cup {NoRow}]
    /\ vectors \subseteq Ids
    /\ drawn \subseteq Ids
    /\ call \in [Threads -> Calls]
    /\ cut \subseteq Ids

\* prune_sync promises never to delete a row younger than an hour or of high
\* emotion; the rows are chosen at the SELECT and deleted later, when other
\* calls and time have moved on, and the promise must hold at the DELETE.
PruneSparesProtected ==
    [][ \A t \in Threads :
          (call[t].by = "prune" /\ call[t].pc = "delete" /\ call'[t].pc = "unvector")
            => \A i \in call[t].ids : rows[i] # NoRow => ~Protected(rows[i]) ]_vars

\* The hard cap removes what it must and no more: a prune that dooms a row of
\* worth keeps exactly MaxMemories rows, unless only protected rows are left,
\* and keeps no cheaper row that it could have taken instead.
CapTakesTheCheapest ==
    [][ \A t \in Threads :
          (call[t].pc = "idle" /\ call'[t].by = "prune") =>
             LET doomed == call'[t].ids
                 kept   == Stored \ doomed
             IN /\ Cardinality(kept) > MaxMemories =>
                      \A i \in kept : Protected(rows[i])
                /\ \A i \in doomed : rows[i].worth >= Threshold =>
                      /\ Cardinality(kept) >= MaxMemories
                      /\ \A j \in kept : Protected(rows[j]) \/ rows[j].worth >= rows[i].worth
      ]_vars

\* A row that recall cannot find (it has no vector) is one whose remember is
\* still at work or was itself cut short: no interleaving of forgets, edits
\* and prunes, raising or dying half way, takes the vector of a row that stays.
NoSilentMemory ==
    \A i \in Stored \ vectors :
        i \in cut \/ \E t \in Threads : call[t].pc = "vector" /\ i \in call[t].ids

\* Ids are never reused, so a memory that was forgotten or pruned does not
\* come back, whatever a late remember or edit still does.
ForgottenStaysForgotten ==
    [][ \A i \in drawn : rows[i] = NoRow => rows'[i] = NoRow ]_vars

\* A remembered memory becomes recallable unless it is deleted first, or its
\* own call is cut short.
BecomesRecallable ==
    \A i \in Ids : (rows[i] # NoRow) ~> (i \in vectors \cup cut \/ rows[i] = NoRow)

\* "Atomic guarantees ... built-in" (unified_memory.py:34): between calls the
\* two stores hold the same memories.
StoresAgree ==
    (\A t \in Threads : call[t].pc = "idle") => Stored = vectors

=============================================================================
