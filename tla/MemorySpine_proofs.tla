------------------------- MODULE MemorySpine_proofs -------------------------
(***************************************************************************)
(* Proofs about MemorySpine, for any number of memories and threads, any   *)
(* cap and threshold, and calls that raise or die anywhere.                *)
(***************************************************************************)
EXTENDS MemorySpine, FiniteSetTheorems, TLAPS

-----------------------------------------------------------------------------
(* Typing.                                                                 *)

\* What an insertion writes is a row.
LEMMA NewRowTyped ==
    ASSUME NEW c \in Concepts \cup {NoConcept}, NEW b \in BOOLEAN, NEW w \in 0 .. MaxWorth
    PROVE  [concept |-> c, intense |-> b, worth |-> w, fresh |-> TRUE] \in Row
BY DEF Row

\* Ageing keeps a row a row.
LEMMA AgedRowTyped ==
    ASSUME NEW r \in Row
    PROVE  /\ [r EXCEPT !.fresh = FALSE] \in Row
           /\ r.worth > 0 => [r EXCEPT !.worth = r.worth - 1] \in Row
<1>1. [r EXCEPT !.fresh = FALSE] \in Row
  BY DEF Row
<1>2. ASSUME r.worth > 0
      PROVE  [r EXCEPT !.worth = r.worth - 1] \in Row
  <2>1. r.worth \in 0 .. MaxWorth
    BY DEF Row
  <2>2. r.worth - 1 \in 0 .. MaxWorth
    BY <1>2, <2>1, BoundsAssumption
  <2> DEFINE w == r.worth - 1
  <2>3. w \in 0 .. MaxWorth
    BY <2>2
  <2> HIDE DEF w
  <2>4. [r EXCEPT !.worth = w] \in Row
    BY <2>3 DEF Row
  <2> QED
    BY <2>4 DEF w
<1> QED
  BY <1>1, <1>2

\* The records a call goes through are calls.
LEMMA CallsTyped ==
    /\ Idle \in Calls
    /\ \A e \in Concepts \cup {NoConcept} : AfterForget(e) \in Calls
    /\ \A S \in SUBSET Ids : \A p \in {"delete", "vector"} :
       \A b \in {"remember", "forget", "prune"} : \A e \in Concepts \cup {NoConcept} :
          [pc |-> p, ids |-> S, by |-> b, edit |-> e] \in Calls
    /\ \A k \in Calls : [k EXCEPT !.pc = "unvector"] \in Calls
    /\ \A k \in Calls : k.ids \subseteq Ids /\ k.edit \in Concepts \cup {NoConcept}
BY DEF Calls, Idle, AfterForget

\* What a cut call leaves behind are ids.
LEMMA PendingTyped ==
    ASSUME SpineTypeOK
    PROVE  \A t \in Threads : Pending(t) \subseteq Ids
BY CallsTyped DEF Pending, SpineTypeOK

\* An insertion keeps the types; Remember and EditInsert are insertions.
LEMMA InsertTyped ==
    ASSUME SpineTypeOK, NEW t \in Threads, NEW id \in Ids,
           NEW c \in Concepts \cup {NoConcept}, NEW b \in BOOLEAN,
           NEW w \in 0 .. MaxWorth, Insert(t, id, c, b, w)
    PROVE  SpineTypeOK'
<1> DEFINE r == [concept |-> c, intense |-> b, worth |-> w, fresh |-> TRUE]
           k == [pc |-> "vector", ids |-> {id}, by |-> "remember", edit |-> NoConcept]
<1>1. r \in Row
  BY NewRowTyped
<1>2. k \in Calls
  BY CallsTyped
<1>3. rows' = [rows EXCEPT ![id] = r] /\ call' = [call EXCEPT ![t] = k]
  BY DEF Insert
<1> HIDE DEF r, k
<1>4. rows' \in [Ids -> Row \cup {NoRow}]
  BY <1>1, <1>3 DEF SpineTypeOK
<1>5. call' \in [Threads -> Calls]
  BY <1>2, <1>3 DEF SpineTypeOK
<1> QED
  BY <1>4, <1>5 DEF SpineTypeOK, Insert

\* However its rows of equal score are ordered, a prune dooms deletable rows only.
LEMMA DoomedDeletable ==
    ASSUME NEW order \in Sorted
    PROVE  Doomed(order) \subseteq Deletable
<1>1. order \in [1 .. Cardinality(Spared) -> Spared]
  BY DEF Sorted, Bijection, Injection, Surjection
<1> QED
  BY <1>1 DEF Doomed, Trimmed, Worthless, Spared

LEMMA TypeStep ==
    ASSUME SpineTypeOK, [Next]_vars
    PROVE  SpineTypeOK'
<1>0. CASE UNCHANGED vars
  BY <1>0 DEF vars, SpineTypeOK
<1>1. ASSUME NEW t \in Threads, Remember(t)
      PROVE  SpineTypeOK'
  <2>1. PICK id \in Ids, c \in Concepts \cup {NoConcept}, b \in BOOLEAN, w \in 0 .. MaxWorth :
          Insert(t, id, c, b, w)
    BY <1>1 DEF Remember
  <2> QED
    BY <2>1, InsertTyped
<1>2. ASSUME NEW t \in Threads, NEW c \in Concepts, NEW e \in Concepts \cup {NoConcept},
             ForgetScan(t, c, e)
      PROVE  SpineTypeOK'
  <2> DEFINE found == { i \in Stored : rows[i].concept = c }
             k == IF found = {} THEN AfterForget(e)
                  ELSE [pc |-> "delete", ids |-> found, by |-> "forget", edit |-> e]
  <2>1. found \subseteq Ids
    BY DEF Stored
  <2>2. k \in Calls
    BY <2>1, CallsTyped
  <2>3. call' = [call EXCEPT ![t] = k]
    BY <1>2 DEF ForgetScan
  <2> HIDE DEF k
  <2> QED
    BY <1>2, <2>2, <2>3 DEF ForgetScan, SpineTypeOK
<1>3. ASSUME NEW t \in Threads, NEW f \in BOOLEAN, PruneScan(t, f)
      PROVE  SpineTypeOK'
  <2>0. PICK order \in Sorted :
          call' = [call EXCEPT ![t] = [ pc |-> "delete", ids |-> Doomed(order),
                                        by |-> "prune", edit |-> NoConcept ]]
    BY <1>3 DEF PruneScan
  <2> DEFINE k == [pc |-> "delete", ids |-> Doomed(order), by |-> "prune", edit |-> NoConcept]
  <2>1. k \in Calls
    <3>1. Doomed(order) \subseteq Ids
      BY DoomedDeletable DEF Deletable, Stored
    <3> QED
      BY <3>1, CallsTyped
  <2>2. call' = [call EXCEPT ![t] = k]
    BY <2>0
  <2> HIDE DEF k
  <2> QED
    BY <1>3, <2>1, <2>2 DEF PruneScan, SpineTypeOK
<1>4. ASSUME NEW t \in Threads, AddVector(t)
      PROVE  SpineTypeOK'
  BY <1>4, CallsTyped DEF AddVector, SpineTypeOK
<1>5. ASSUME NEW t \in Threads, EditInsert(t)
      PROVE  SpineTypeOK'
  <2>1. PICK id \in Ids : Insert(t, id, call[t].edit, FALSE, MaxWorth)
    BY <1>5 DEF EditInsert
  <2>2. call[t].edit \in Concepts \cup {NoConcept} /\ MaxWorth \in 0 .. MaxWorth
    BY CallsTyped, BoundsAssumption DEF SpineTypeOK
  <2> QED
    BY <2>1, <2>2, InsertTyped
<1>6. ASSUME NEW t \in Threads, DeleteRows(t)
      PROVE  SpineTypeOK'
  <2>1. rows' \in [Ids -> Row \cup {NoRow}]
    BY <1>6 DEF DeleteRows, SpineTypeOK
  <2>2. call' \in [Threads -> Calls]
    BY <1>6, CallsTyped DEF DeleteRows, SpineTypeOK
  <2> QED
    BY <1>6, <2>1, <2>2 DEF DeleteRows, SpineTypeOK
<1>7. ASSUME NEW t \in Threads, DeleteVectors(t)
      PROVE  SpineTypeOK'
  <2>1. AfterForget(call[t].edit) \in Calls
    BY CallsTyped DEF SpineTypeOK
  <2> QED
    BY <1>7, <2>1 DEF DeleteVectors, SpineTypeOK
<1>8. ASSUME NEW id \in Ids, Age(id)
      PROVE  SpineTypeOK'
  <2>1. rows[id] \in Row
    BY <1>8 DEF Age, SpineTypeOK
  <2> QED
    BY <1>8, <2>1, AgedRowTyped DEF Age, SpineTypeOK
<1>9. ASSUME NEW t \in Threads, Raise(t)
      PROVE  SpineTypeOK'
  BY <1>9, PendingTyped, CallsTyped DEF Raise, SpineTypeOK
<1>10. CASE Die
  <2>1. cut' \subseteq Ids
    BY <1>10, PendingTyped DEF Die, SpineTypeOK
  <2> QED
    BY <1>10, <2>1, CallsTyped DEF Die, SpineTypeOK
<1> QED
  BY <1>0, <1>1, <1>2, <1>3, <1>4, <1>5, <1>6, <1>7, <1>8, <1>9, <1>10
  DEF Next, Step, Forget, Edit, Prune

\* Every variable keeps its type.
THEOREM SpineTyping == SpineSpec => []SpineTypeOK
<1>1. Init => SpineTypeOK
  BY CallsTyped DEF Init, SpineTypeOK
<1> QED
  BY <1>1, TypeStep, PTL DEF SpineSpec
-----------------------------------------------------------------------------
(* What a prune decided at its SELECT is still allowed at its DELETE: the  *)
(* rows it doomed were drawn, so nothing is inserted under their ids any   *)
(* more, and protection only wears off.                                    *)

DoomedStayUnprotected ==
    \A t \in Threads :
        (call[t].by = "prune" /\ call[t].pc = "delete") =>
            /\ call[t].ids \subseteq drawn
            /\ \A i \in call[t].ids : rows[i] # NoRow => ~Protected(rows[i])

PruneInv ==
    /\ SpineTypeOK
    /\ Stored \subseteq drawn
    /\ DoomedStayUnprotected

\* How a step may change the rows: only under an id it draws, by deleting, or
\* by ageing, which protects nothing.
LEMMA RowChanges ==
    ASSUME SpineTypeOK, [Next]_vars
    PROVE  /\ drawn \subseteq drawn'
           /\ \A i \in Ids : rows'[i] # NoRow /\ rows'[i] # rows[i] =>
                \/ i \notin drawn /\ i \in drawn'
                \/ rows[i] # NoRow /\ (~Protected(rows[i]) => ~Protected(rows'[i]))
<1> DEFINE Fine ==
      /\ drawn \subseteq drawn'
      /\ \A i \in Ids : rows'[i] # NoRow /\ rows'[i] # rows[i] =>
           \/ i \notin drawn /\ i \in drawn'
           \/ rows[i] # NoRow /\ (~Protected(rows[i]) => ~Protected(rows'[i]))
<1>1. CASE UNCHANGED <<rows, drawn>>
  BY <1>1
<1>2. ASSUME NEW t \in Threads, NEW id \in Ids, NEW c, NEW b, NEW w, Insert(t, id, c, b, w)
      PROVE  Fine
  BY <1>2 DEF Insert, SpineTypeOK
<1>3. ASSUME NEW t \in Threads, DeleteRows(t)
      PROVE  Fine
  BY <1>3 DEF DeleteRows, SpineTypeOK
<1>4. ASSUME NEW id \in Ids, Age(id)
      PROVE  Fine
  <2>1. rows[id] \in Row /\ rows[id] # NoRow
    BY <1>4 DEF Age, SpineTypeOK
  <2>2. /\ [rows[id] EXCEPT !.fresh = FALSE].intense = rows[id].intense
        /\ [rows[id] EXCEPT !.fresh = FALSE].fresh = FALSE
        /\ [rows[id] EXCEPT !.worth = rows[id].worth - 1].intense = rows[id].intense
        /\ [rows[id] EXCEPT !.worth = rows[id].worth - 1].fresh = rows[id].fresh
    BY <2>1 DEF Row
  <2>3. PICK r : /\ rows' = [rows EXCEPT ![id] = r]
                 /\ r.intense = rows[id].intense
                 /\ r.fresh = FALSE \/ r.fresh = rows[id].fresh
    BY <1>4, <2>2 DEF Age
  <2>4. rows'[id] = r /\ \A i \in Ids \ {id} : rows'[i] = rows[i]
    BY <2>3 DEF SpineTypeOK
  <2>5. ~Protected(rows[id]) => ~Protected(rows'[id])
    BY <2>3, <2>4 DEF Protected
  <2> QED
    BY <1>4, <2>1, <2>4, <2>5 DEF Age
<1> QED
  BY <1>1, <1>2, <1>3, <1>4
  DEF Next, Step, Remember, Forget, Edit, Prune, ForgetScan, PruneScan, AddVector,
      EditInsert, DeleteVectors, Raise, Die, vars

\* Which steps leave a prune waiting to delete.
LEMMA PendingPrunes ==
    ASSUME SpineTypeOK, [Next]_vars, NEW t \in Threads,
           call'[t].by = "prune", call'[t].pc = "delete"
    PROVE  \/ call'[t] = call[t]
           \/ call'[t].ids \subseteq Deletable /\ UNCHANGED rows /\ UNCHANGED drawn
<1>1. CASE call'[t] = call[t]
  BY <1>1
<1>2. ASSUME NEW u \in Threads, NEW f \in BOOLEAN, PruneScan(u, f)
      PROVE  \/ call'[t] = call[t]
             \/ call'[t].ids \subseteq Deletable /\ UNCHANGED rows /\ UNCHANGED drawn
  <2>1. PICK order \in Sorted :
          call' = [call EXCEPT ![u] = [ pc |-> "delete", ids |-> Doomed(order),
                                        by |-> "prune", edit |-> NoConcept ]]
    BY <1>2 DEF PruneScan
  <2>2. Doomed(order) \subseteq Deletable
    BY DoomedDeletable
  <2> QED
    BY <1>2, <2>1, <2>2 DEF PruneScan, SpineTypeOK
<1>3. ASSUME NEW u \in Threads, NEW id \in Ids, NEW c, NEW b, NEW w, Insert(u, id, c, b, w)
      PROVE  call'[t] = call[t]
  BY <1>3 DEF Insert, SpineTypeOK
<1>4. ASSUME NEW u \in Threads, NEW c \in Concepts, NEW e \in Concepts \cup {NoConcept},
             ForgetScan(u, c, e)
      PROVE  call'[t] = call[t]
  BY <1>4 DEF ForgetScan, AfterForget, Idle, SpineTypeOK
<1>5. ASSUME NEW u \in Threads, AddVector(u) \/ Raise(u)
      PROVE  call'[t] = call[t]
  BY <1>5 DEF AddVector, Raise, Idle, SpineTypeOK
<1>6. ASSUME NEW u \in Threads, DeleteRows(u)
      PROVE  call'[t] = call[t]
  <2>1. call' = [call EXCEPT ![u] = [call[u] EXCEPT !.pc = "unvector"]]
    BY <1>6 DEF DeleteRows
  <2>2. call[u] \in Calls
    BY DEF SpineTypeOK
  <2>3. [call[u] EXCEPT !.pc = "unvector"].pc = "unvector"
    BY <2>2 DEF Calls
  <2> QED
    BY <2>1, <2>3 DEF SpineTypeOK
<1>7. ASSUME NEW u \in Threads, DeleteVectors(u)
      PROVE  call'[t] = call[t]
  BY <1>7 DEF DeleteVectors, AfterForget, Idle, SpineTypeOK
<1>8. CASE Die
  BY <1>8 DEF Die, Idle
<1>9. ASSUME NEW id \in Ids, Age(id)
      PROVE  call'[t] = call[t]
  BY <1>9 DEF Age
<1>10. CASE UNCHANGED vars
  BY <1>10 DEF vars
<1> QED
  BY <1>2, <1>3, <1>4, <1>5, <1>6, <1>7, <1>8, <1>9, <1>10
  DEF Next, Step, Remember, Forget, Edit, Prune, EditInsert

LEMMA PruneStep ==
    ASSUME PruneInv, [Next]_vars
    PROVE  PruneInv'
<1>1. SpineTypeOK'
  BY TypeStep DEF PruneInv
<1>2. (Stored \subseteq drawn)'
  BY RowChanges DEF PruneInv, Stored
<1>3. DoomedStayUnprotected'
  <2> SUFFICES ASSUME NEW t \in Threads, call'[t].by = "prune", call'[t].pc = "delete"
               PROVE  /\ call'[t].ids \subseteq drawn'
                      /\ \A i \in call'[t].ids : rows'[i] # NoRow => ~Protected(rows'[i])
    BY DEF DoomedStayUnprotected, Protected
  <2>1. call'[t].ids \subseteq Ids
    BY <1>1, CallsTyped DEF SpineTypeOK
  <2>2. CASE call'[t] = call[t]
    <3>1. /\ call[t].ids \subseteq drawn
          /\ \A i \in call[t].ids : rows[i] # NoRow => ~Protected(rows[i])
      BY <2>2 DEF PruneInv, DoomedStayUnprotected
    <3>2. /\ drawn \subseteq drawn'
          /\ \A i \in Ids : rows'[i] # NoRow /\ rows'[i] # rows[i] =>
                \/ i \notin drawn
                \/ rows[i] # NoRow /\ (~Protected(rows[i]) => ~Protected(rows'[i]))
      BY RowChanges DEF PruneInv
    <3>3. call'[t].ids = call[t].ids
      BY <2>2
    <3> QED
      BY <2>1, <3>1, <3>2, <3>3
  <2>3. CASE call'[t].ids \subseteq Deletable /\ UNCHANGED rows /\ UNCHANGED drawn
    <3>1. \A i \in Deletable : i \in Stored /\ ~Protected(rows[i])
      BY DEF Deletable
    <3> QED
      BY <2>3, <3>1 DEF PruneInv, Stored
  <2> QED
    BY <2>2, <2>3, PendingPrunes DEF PruneInv
<1> QED
  BY <1>1, <1>2, <1>3 DEF PruneInv

\* No prune ever deletes a row younger than an hour or of high emotion, however
\* long it waits between its SELECT and its DELETE and whatever runs meanwhile.
THEOREM ProtectionHolds == SpineSpec => PruneSparesProtected
<1>1. Init => PruneInv
  BY CallsTyped DEF Init, PruneInv, SpineTypeOK, Stored, DoomedStayUnprotected, Idle
<1>2. PruneInv /\ [Next]_vars =>
        [ \A t \in Threads :
            (call[t].by = "prune" /\ call[t].pc = "delete" /\ call'[t].pc = "unvector")
              => \A i \in call[t].ids : rows[i] # NoRow => ~Protected(rows[i]) ]_vars
  BY DEF PruneInv, DoomedStayUnprotected
<1> QED
  BY <1>1, <1>2, PruneStep, PTL DEF SpineSpec, PruneSparesProtected

\* A memory that was forgotten or pruned never comes back.
THEOREM ForgottenForGood == SpineSpec => ForgottenStaysForgotten
<1>1. SpineTypeOK /\ [Next]_vars =>
        [ \A i \in drawn : rows[i] = NoRow => rows'[i] = NoRow ]_vars
  BY RowChanges DEF SpineTypeOK
<1> QED
  BY <1>1, SpineTyping, PTL DEF SpineSpec, ForgottenStaysForgotten

-----------------------------------------------------------------------------
(* No row is silent.  A call about to remove vectors has removed the rows  *)
(* before, and their ids were drawn, so no row can be under them again.    *)

SilentInv ==
    /\ SpineTypeOK
    /\ Stored \subseteq drawn
    /\ NoSilentMemory
    /\ \A t \in Threads :
          /\ call[t].ids \subseteq drawn
          /\ call[t].pc = "unvector" => \A i \in call[t].ids : rows[i] = NoRow

\* What one call may do to the stores without leaving a silent row.
LEMMA SilentKept ==
    ASSUME SilentInv, SpineTypeOK', NEW t \in Threads,
           \A u \in Threads \ {t} : call'[u] = call[u],
           drawn \subseteq drawn', cut \subseteq cut',
           call'[t].ids \subseteq drawn',
           call'[t].pc = "unvector" => \A i \in call'[t].ids : rows'[i] = NoRow,
           \A i \in Ids : rows'[i] # NoRow /\ rows[i] = NoRow => i \notin drawn /\ i \in drawn',
           \A i \in Ids : rows'[i] # NoRow /\ i \notin vectors' =>
              \/ /\ rows[i] # NoRow /\ i \notin vectors
                 /\ ~(call[t].pc = "vector" /\ i \in call[t].ids)
              \/ i \in cut'
              \/ call'[t].pc = "vector" /\ i \in call'[t].ids
    PROVE  SilentInv'
<1>1. (Stored \subseteq drawn)'
  BY DEF SilentInv, Stored
<1>2. NoSilentMemory'
  <2> SUFFICES ASSUME NEW i \in Ids, rows'[i] # NoRow, i \notin vectors', i \notin cut'
               PROVE  \E u \in Threads : call'[u].pc = "vector" /\ i \in call'[u].ids
    BY DEF NoSilentMemory, Stored
  <2>1. CASE call'[t].pc = "vector" /\ i \in call'[t].ids
    BY <2>1
  <2>2. CASE /\ rows[i] # NoRow /\ i \notin vectors
             /\ ~(call[t].pc = "vector" /\ i \in call[t].ids)
    <3>1. PICK u \in Threads : call[u].pc = "vector" /\ i \in call[u].ids
      BY <2>2 DEF SilentInv, NoSilentMemory, Stored
    <3> QED
      BY <2>2, <3>1
  <2> QED
    BY <2>1, <2>2
<1>3. ASSUME NEW u \in Threads
      PROVE  /\ call'[u].ids \subseteq drawn'
             /\ call'[u].pc = "unvector" => \A i \in call'[u].ids : rows'[i] = NoRow
  <2>1. CASE u = t
    BY <2>1
  <2>2. CASE u # t
    <3>1. call'[u] = call[u] /\ call[u].ids \subseteq Ids
      BY <2>2, CallsTyped DEF SilentInv, SpineTypeOK
    <3> QED
      BY <3>1 DEF SilentInv
  <2> QED
    BY <2>1, <2>2
<1> QED
  BY <1>1, <1>2, <1>3 DEF SilentInv

LEMMA SilentStep ==
    ASSUME SilentInv, [Next]_vars
    PROVE  SilentInv'
<1>0. SpineTypeOK'
  BY TypeStep DEF SilentInv
<1>1. ASSUME NEW t \in Threads, NEW id \in Ids, NEW c, NEW b, NEW w,
             Insert(t, id, c, b, w), call[t].pc # "vector"
      PROVE  SilentInv'
  <2>1. /\ call'[t].pc = "vector" /\ call'[t].ids = {id}
        /\ \A u \in Threads \ {t} : call'[u] = call[u]
        /\ \A i \in Ids \ {id} : rows'[i] = rows[i]
        /\ id \notin drawn /\ drawn' = drawn \cup {id}
        /\ vectors' = vectors /\ cut' = cut
    BY <1>1 DEF Insert, SilentInv, SpineTypeOK
  <2> QED
    BY <1>0, <1>1, <2>1, SilentKept DEF SilentInv
<1>2. ASSUME NEW t \in Threads, call[t].pc = "idle", UNCHANGED <<rows, vectors, drawn, cut>>,
             \A u \in Threads \ {t} : call'[u] = call[u],
             call'[t].pc # "unvector", call'[t].ids \subseteq Stored
      PROVE  SilentInv'
  <2>1. call'[t].ids \subseteq drawn
    BY <1>2 DEF SilentInv
  <2> QED
    BY <1>0, <1>2, <2>1, SilentKept
<1>3. ASSUME NEW t \in Threads, NEW c \in Concepts, NEW e \in Concepts \cup {NoConcept},
             ForgetScan(t, c, e)
      PROVE  SilentInv'
  <2>1. /\ call'[t].pc # "unvector" /\ call'[t].ids \subseteq Stored
        /\ \A u \in Threads \ {t} : call'[u] = call[u]
    BY <1>3 DEF ForgetScan, AfterForget, Idle, SilentInv, SpineTypeOK
  <2> QED
    BY <1>2, <1>3, <2>1 DEF ForgetScan
<1>4. ASSUME NEW t \in Threads, NEW f \in BOOLEAN, PruneScan(t, f)
      PROVE  SilentInv'
  <2>0. PICK order \in Sorted :
          call' = [call EXCEPT ![t] = [ pc |-> "delete", ids |-> Doomed(order),
                                        by |-> "prune", edit |-> NoConcept ]]
    BY <1>4 DEF PruneScan
  <2>1. Doomed(order) \subseteq Stored
    BY DoomedDeletable DEF Deletable
  <2>2. /\ call'[t].pc # "unvector" /\ call'[t].ids = Doomed(order)
        /\ \A u \in Threads \ {t} : call'[u] = call[u]
    BY <2>0 DEF SilentInv, SpineTypeOK
  <2> QED
    BY <1>2, <1>4, <2>1, <2>2 DEF PruneScan
<1>5. ASSUME NEW t \in Threads, AddVector(t)
      PROVE  SilentInv'
  <2>1. /\ call'[t].ids = {} /\ call'[t].pc = "idle"
        /\ \A u \in Threads \ {t} : call'[u] = call[u]
        /\ vectors' = vectors \cup call[t].ids /\ UNCHANGED <<rows, drawn, cut>>
    BY <1>5 DEF AddVector, Idle, SilentInv, SpineTypeOK
  <2> QED
    BY <1>0, <2>1, SilentKept
<1>6. ASSUME NEW t \in Threads, DeleteRows(t)
      PROVE  SilentInv'
  <2>1. call[t] \in Calls
    BY DEF SilentInv, SpineTypeOK
  <2>2. /\ [call[t] EXCEPT !.pc = "unvector"].pc = "unvector"
        /\ [call[t] EXCEPT !.pc = "unvector"].ids = call[t].ids
    BY <2>1 DEF Calls
  <2>3. /\ call'[t].pc = "unvector" /\ call'[t].ids = call[t].ids
        /\ \A u \in Threads \ {t} : call'[u] = call[u]
        /\ \A i \in Ids : rows'[i] = IF i \in call[t].ids THEN NoRow ELSE rows[i]
        /\ call[t].pc = "delete" /\ UNCHANGED <<vectors, drawn, cut>>
        /\ call[t].ids \subseteq drawn /\ call[t].ids \subseteq Ids
    BY <1>6, <2>1, <2>2, CallsTyped DEF DeleteRows, SilentInv, SpineTypeOK
  <2> QED
    BY <1>0, <2>3, SilentKept
<1>7. ASSUME NEW t \in Threads, DeleteVectors(t)
      PROVE  SilentInv'
  <2>1. /\ call'[t].ids = {} /\ call'[t].pc # "unvector"
        /\ \A u \in Threads \ {t} : call'[u] = call[u]
        /\ vectors' = vectors \ call[t].ids /\ UNCHANGED <<rows, drawn, cut>>
        /\ call[t].pc = "unvector"
        /\ \A i \in call[t].ids : rows[i] = NoRow
    BY <1>7 DEF DeleteVectors, AfterForget, Idle, SilentInv, SpineTypeOK
  <2> QED
    BY <1>0, <2>1, SilentKept
<1>8. ASSUME NEW t \in Threads, Raise(t)
      PROVE  SilentInv'
  <2>1. /\ call'[t].ids = {} /\ call'[t].pc = "idle"
        /\ \A u \in Threads \ {t} : call'[u] = call[u]
        /\ UNCHANGED <<rows, vectors, drawn>>
        /\ cut' = cut \cup (IF call[t].pc = "vector" THEN call[t].ids ELSE {})
    BY <1>8 DEF Raise, Pending, Idle, SilentInv, SpineTypeOK
  <2> QED
    BY <1>0, <2>1, SilentKept
<1>9. CASE Die
  <2>1. /\ \A u \in Threads : call'[u].ids = {} /\ call'[u].pc = "idle"
        /\ UNCHANGED <<rows, vectors, drawn>>
        /\ \A u \in Threads : call[u].pc = "vector" => call[u].ids \subseteq cut'
        /\ cut \subseteq cut'
    BY <1>9 DEF Die, Pending, Idle
  <2>2. NoSilentMemory'
    BY <2>1 DEF SilentInv, NoSilentMemory, Stored
  <2> QED
    BY <1>0, <2>1, <2>2 DEF SilentInv, Stored
<1>10. ASSUME NEW id \in Ids, Age(id)
       PROVE  SilentInv'
  <2>1. /\ UNCHANGED <<vectors, drawn, call, cut>> /\ rows[id] # NoRow
        /\ \A i \in Ids \ {id} : rows'[i] = rows[i]
    BY <1>10 DEF Age, SilentInv, SpineTypeOK
  <2>2. Stored' \subseteq Stored
    BY <2>1 DEF Stored
  <2>3. NoSilentMemory'
    BY <2>1, <2>2 DEF SilentInv, NoSilentMemory
  <2>4. ASSUME NEW t \in Threads, call[t].pc = "unvector", NEW i \in call[t].ids
        PROVE  rows'[i] = NoRow
    <3>1. i \in Ids /\ rows[i] = NoRow
      BY <2>4, CallsTyped DEF SilentInv, SpineTypeOK
    <3> QED
      BY <2>1, <3>1
  <2> QED
    BY <1>0, <2>1, <2>2, <2>3, <2>4 DEF SilentInv
<1>11. CASE UNCHANGED vars
  BY <1>0, <1>11 DEF vars, SilentInv, NoSilentMemory, Stored
<1>12. ASSUME NEW t \in Threads, Remember(t) \/ EditInsert(t)
       PROVE  SilentInv'
  BY <1>1, <1>12 DEF Remember, EditInsert
<1> QED
  BY <1>3, <1>4, <1>5, <1>6, <1>7, <1>8, <1>9, <1>10, <1>11, <1>12
  DEF Next, Step, Forget, Edit, Prune

\* A row that recall cannot find is still being remembered or its remember was
\* cut short: nothing else ever takes the vector of a row that stays.
THEOREM NothingSilent == SpineSpec => []NoSilentMemory
<1>1. Init => SilentInv
  BY CallsTyped DEF Init, SilentInv, SpineTypeOK, NoSilentMemory, Stored, Idle
<1>2. SilentInv => NoSilentMemory
  BY DEF SilentInv
<1> QED
  BY <1>1, <1>2, SilentStep, PTL DEF SpineSpec

-----------------------------------------------------------------------------
(* The hard cap takes the cheapest rows, and as many as it must.           *)

\* A prefix of an enumeration has as many elements as it is long.
LEMMA PrefixSize ==
    ASSUME NEW S, NEW n \in Nat, NEW order \in Bijection(1 .. n, S), NEW m \in 0 .. n,
           NEW T, T = { order[k] : k \in 1 .. m }
    PROVE  IsFiniteSet(T) /\ Cardinality(T) = m
<1> DEFINE g == [k \in 1 .. m |-> order[k]]
<1>1. \A k, l \in 1 .. n : order[k] = order[l] => k = l
  BY DEF Bijection, Injection, IsInjective
<1>2. g \in Bijection(1 .. m, T)
  <2>1. g \in [1 .. m -> T]
    BY T = { order[k] : k \in 1 .. m }
  <2>2. \A k, l \in 1 .. m : g[k] = g[l] => k = l
    BY <1>1
  <2>3. \A x \in T : \E k \in 1 .. m : g[k] = x
    BY T = { order[k] : k \in 1 .. m }
  <2> QED
    BY <2>1, <2>2, <2>3 DEF Bijection, Injection, Surjection, IsInjective
<1>3. IsFiniteSet(1 .. m) /\ Cardinality(1 .. m) = m
  BY FS_Interval
<1> HIDE DEF g
<1>4. ExistsBijection(1 .. m, T)
  BY <1>2 DEF ExistsBijection
<1> QED
  BY <1>3, <1>4, FS_Bijection

LEMMA CapCounts ==
    ASSUME SpineTypeOK, IsFiniteSet(Stored), NEW order \in Sorted,
           NEW doomed, doomed = Doomed(order),
           NEW kept, kept = Stored \ doomed
    PROVE  /\ Cardinality(kept) > MaxMemories => \A i \in kept : Protected(rows[i])
           /\ \A i \in doomed : rows[i].worth >= Threshold =>
                /\ Cardinality(kept) >= MaxMemories
                /\ \A j \in kept : Protected(rows[j]) \/ rows[j].worth >= rows[i].worth
<1> DEFINE n == Cardinality(Spared)
           m == IF Excess <= n THEN Excess ELSE n
<1>1. /\ Worthless \subseteq Stored /\ Spared \subseteq Stored
      /\ Worthless \cup Spared = Deletable /\ Worthless \cap Spared = {}
  BY DEF Worthless, Spared, Deletable
<1>2. /\ IsFiniteSet(Worthless) /\ IsFiniteSet(Spared)
      /\ Cardinality(Worthless) \in Nat /\ Cardinality(Stored) \in Nat /\ n \in Nat
      /\ Cardinality(Worthless) <= Cardinality(Stored)
  BY <1>1, FS_Subset, FS_CardinalityType
<1>3. Excess \in Nat
  BY <1>2, BoundsAssumption DEF Excess
<1>4. m \in 0 .. n /\ m <= Excess /\ (m < Excess => m = n)
  BY <1>2, <1>3
<1>5. /\ order \in Bijection(1 .. n, Spared) /\ order \in [1 .. n -> Spared]
      /\ \A k, l \in 1 .. n : k < l => rows[order[k]].worth <= rows[order[l]].worth
      /\ \A j \in Spared : \E l \in 1 .. n : order[l] = j
  BY DEF Sorted, Bijection, Surjection, Injection
<1>6. (1 .. Excess) \cap DOMAIN order = 1 .. m
  BY <1>2, <1>3, <1>4, <1>5
<1> DEFINE trimmed == { order[k] : k \in 1 .. m }
<1> HIDE DEF m, n
<1>7. doomed = Worthless \cup trimmed
  BY <1>6, doomed = Doomed(order) DEF Doomed, Trimmed
<1>8. IsFiniteSet(trimmed) /\ Cardinality(trimmed) = m
  <2>1. n \in Nat /\ m \in 0 .. n
    BY <1>2, <1>4
  <2>2. order \in Bijection(1 .. n, Spared)
    BY <1>5
  <2>3. trimmed = { order[k] : k \in 1 .. m }
    OBVIOUS
  <2> HIDE DEF trimmed
  <2> QED
    BY <2>1, <2>2, <2>3, PrefixSize
<1>9. trimmed \subseteq Spared
  BY <1>4, <1>5, <1>2
<1>10. Cardinality(kept) = Cardinality(Stored) - Cardinality(Worthless) - m
  <2> HIDE DEF trimmed
  <2>1. /\ IsFiniteSet(Stored \ Worthless)
        /\ Cardinality(Stored \ Worthless) =
             Cardinality(Stored) - Cardinality(Stored \cap Worthless)
    BY FS_Difference
  <2>2. Cardinality((Stored \ Worthless) \ trimmed) =
          Cardinality(Stored \ Worthless) - Cardinality((Stored \ Worthless) \cap trimmed)
    BY <2>1, FS_Difference
  <2>3. /\ Stored \cap Worthless = Worthless
        /\ (Stored \ Worthless) \cap trimmed = trimmed
        /\ kept = (Stored \ Worthless) \ trimmed
    BY <1>1, <1>7, <1>9
  <2> QED
    BY <1>2, <1>8, <2>1, <2>2, <2>3
<1>11. ASSUME Cardinality(kept) > MaxMemories
       PROVE  \A i \in kept : Protected(rows[i])
  <2>1. m < Excess
    BY <1>2, <1>4, <1>10, <1>11, BoundsAssumption DEF Excess
  <2>2. m = n
    BY <1>4, <2>1
  <2>3. trimmed = Spared
    BY <1>5, <1>9, <2>2
  <2>4. kept \cap Deletable = {}
    BY <1>1, <1>7, <2>3
  <2> QED
    BY <2>4 DEF Deletable
<1>12. ASSUME NEW i \in doomed, rows[i].worth >= Threshold
       PROVE  /\ Cardinality(kept) >= MaxMemories
              /\ \A j \in kept : Protected(rows[j]) \/ rows[j].worth >= rows[i].worth
  <2>1. rows[i] \in Row /\ rows[i].worth \in Nat
    BY <1>1, <1>7, <1>9, <1>12 DEF SpineTypeOK, Stored, Row
  <2>2. i \notin Worthless
    BY <2>1, <1>12, BoundsAssumption DEF Worthless
  <2>3. PICK k \in 1 .. m : order[k] = i
    BY <1>7, <1>12, <2>2
  <2>4. m >= 1
    BY <1>2, <1>4, <2>3
  <2>5. Cardinality(kept) >= MaxMemories
    BY <1>2, <1>3, <1>4, <1>10, <2>4, BoundsAssumption DEF Excess
  <2>6. ASSUME NEW j \in kept, ~Protected(rows[j])
        PROVE  rows[j].worth >= rows[i].worth
    <3>1. j \in Spared /\ j \notin trimmed
      BY <1>1, <1>7, <2>6 DEF Deletable
    <3>2. PICK l \in 1 .. n : order[l] = j
      BY <1>5, <3>1
    <3>3. k < l /\ k \in 1 .. n
      BY <1>2, <1>4, <2>3, <3>1, <3>2
    <3>4. rows[i].worth <= rows[j].worth
      BY <1>5, <2>3, <3>2, <3>3
    <3>5. rows[j].worth \in Nat
      BY <1>1, <3>1 DEF SpineTypeOK, Stored, Row
    <3> QED
      BY <2>1, <3>4, <3>5
  <2> QED
    BY <2>5, <2>6
<1> QED
  BY <1>11, <1>12

\* A thread with nothing to do remembers no call.
Resting == \A t \in Threads : call[t].pc = "idle" => call[t] = Idle

\* Only ids that were drawn are stored, and there are finitely many of them.
CapInv == PruneInv /\ IsFiniteSet(drawn) /\ Resting

LEMMA RestingStep ==
    ASSUME SpineTypeOK, Resting, [Next]_vars
    PROVE  Resting'
<1>1. ASSUME NEW u \in Threads, NEW k, call' = [call EXCEPT ![u] = k],
             k.pc # "idle" \/ k = Idle
      PROVE  Resting'
  BY <1>1 DEF Resting, SpineTypeOK
<1>2. ASSUME NEW u \in Threads, NEW f \in BOOLEAN, PruneScan(u, f)
      PROVE  Resting'
  BY <1>1, <1>2 DEF PruneScan
<1>3. ASSUME NEW u \in Threads, NEW id \in Ids, NEW c, NEW b, NEW w, Insert(u, id, c, b, w)
      PROVE  Resting'
  BY <1>1, <1>3 DEF Insert
<1>4. ASSUME NEW u \in Threads, NEW c \in Concepts, NEW e \in Concepts \cup {NoConcept},
             ForgetScan(u, c, e)
      PROVE  Resting'
  <2>1. \A S : LET k == IF S = {} THEN AfterForget(e)
                        ELSE [pc |-> "delete", ids |-> S, by |-> "forget", edit |-> e]
               IN k.pc # "idle" \/ k = Idle
    BY DEF AfterForget
  <2> QED
    BY <1>1, <1>4, <2>1 DEF ForgetScan
<1>5. ASSUME NEW u \in Threads, AddVector(u) \/ Raise(u)
      PROVE  Resting'
  BY <1>1, <1>5 DEF AddVector, Raise
<1>6. ASSUME NEW u \in Threads, DeleteVectors(u)
      PROVE  Resting'
  <2>1. LET k == AfterForget(call[u].edit) IN k.pc # "idle" \/ k = Idle
    BY DEF AfterForget
  <2> QED
    BY <1>1, <1>6, <2>1 DEF DeleteVectors
<1>7. ASSUME NEW u \in Threads, DeleteRows(u)
      PROVE  Resting'
  <2>1. [call[u] EXCEPT !.pc = "unvector"].pc = "unvector"
    BY DEF SpineTypeOK, Calls
  <2> QED
    BY <1>1, <1>7, <2>1 DEF DeleteRows
<1>8. CASE Die
  BY <1>8 DEF Die, Resting
<1>9. CASE (\E id \in Ids : Age(id)) \/ UNCHANGED vars
  BY <1>9 DEF Age, vars, Resting
<1> QED
  BY <1>2, <1>3, <1>4, <1>5, <1>6, <1>7, <1>8, <1>9
  DEF Next, Step, Remember, Forget, Edit, Prune, EditInsert

LEMMA CapStep ==
    ASSUME CapInv, [Next]_vars
    PROVE  CapInv'
<1>1. PruneInv'
  BY PruneStep DEF CapInv
<1>2. drawn' = drawn \/ \E id \in Ids : drawn' = drawn \cup {id}
  BY DEF Next, Step, Remember, Forget, Edit, Prune, ForgetScan, PruneScan, AddVector,
         EditInsert, Insert, DeleteRows, DeleteVectors, Raise, Die, Age, vars
<1>3. IsFiniteSet(drawn')
  BY <1>2, FS_AddElement DEF CapInv
<1>4. Resting'
  BY RestingStep DEF CapInv, PruneInv
<1> QED
  BY <1>1, <1>3, <1>4 DEF CapInv

\* The step with which a call becomes a prune is the SELECT of that prune.
LEMMA PruneBegins ==
    ASSUME SpineTypeOK, [Next]_vars, NEW t \in Threads,
           call[t].pc = "idle", call'[t].by = "prune", call[t].by # "prune"
    PROVE  \E order \in Sorted : call'[t].ids = Doomed(order)
<1>0. call'[t] # call[t]
  OBVIOUS
<1>1. ASSUME NEW u \in Threads, NEW f \in BOOLEAN, PruneScan(u, f)
      PROVE  \E order \in Sorted : call'[t].ids = Doomed(order)
  <2>1. PICK order \in Sorted :
          call' = [call EXCEPT ![u] = [ pc |-> "delete", ids |-> Doomed(order),
                                        by |-> "prune", edit |-> NoConcept ]]
    BY <1>1 DEF PruneScan
  <2>2. call'[t].ids = Doomed(order)
    BY <1>0, <2>1 DEF SpineTypeOK
  <2> QED
    BY <2>2
<1>2. ASSUME NEW u \in Threads, NEW id \in Ids, NEW c, NEW b, NEW w, Insert(u, id, c, b, w)
      PROVE  FALSE
  BY <1>0, <1>2 DEF Insert, SpineTypeOK
<1>3. ASSUME NEW u \in Threads, NEW c \in Concepts, NEW e \in Concepts \cup {NoConcept},
             ForgetScan(u, c, e)
      PROVE  FALSE
  BY <1>0, <1>3 DEF ForgetScan, AfterForget, Idle, SpineTypeOK
<1>4. ASSUME NEW u \in Threads, AddVector(u) \/ Raise(u) \/ DeleteVectors(u)
      PROVE  FALSE
  BY <1>0, <1>4 DEF AddVector, Raise, DeleteVectors, AfterForget, Idle, SpineTypeOK
<1>5. ASSUME NEW u \in Threads, DeleteRows(u)
      PROVE  FALSE
  BY <1>0, <1>5 DEF DeleteRows, SpineTypeOK
<1>6. CASE Die
  BY <1>6 DEF Die, Idle
<1>7. CASE (\E id \in Ids : Age(id)) \/ UNCHANGED vars
  BY <1>0, <1>7 DEF Age, vars
<1> QED
  BY <1>1, <1>2, <1>3, <1>4, <1>5, <1>6, <1>7
  DEF Next, Step, Remember, Forget, Edit, Prune, EditInsert

\* A prune under the hard cap keeps exactly MaxMemories rows when it takes a row
\* of worth, unless only protected rows are left, and takes no row while a
\* cheaper unprotected one stays.
THEOREM CapIsFair == SpineSpec => CapTakesTheCheapest
<1> DEFINE Fair ==
      \A t \in Threads :
        (call[t].pc = "idle" /\ call'[t].by = "prune") =>
           LET doomed == call'[t].ids
               kept   == Stored \ doomed
           IN /\ Cardinality(kept) > MaxMemories =>
                    \A i \in kept : Protected(rows[i])
              /\ \A i \in doomed : rows[i].worth >= Threshold =>
                    /\ Cardinality(kept) >= MaxMemories
                    /\ \A j \in kept : Protected(rows[j]) \/ rows[j].worth >= rows[i].worth
<1>1. Init => CapInv
  <2>1. Init => PruneInv
    BY CallsTyped DEF Init, PruneInv, SpineTypeOK, Stored, DoomedStayUnprotected, Idle
  <2>2. Init => IsFiniteSet(drawn) /\ Resting
    BY FS_EmptySet DEF Init, Resting
  <2> QED
    BY <2>1, <2>2 DEF CapInv
<1>2. ASSUME CapInv, [Next]_vars
      PROVE  Fair
  <2> SUFFICES ASSUME NEW t \in Threads, call[t].pc = "idle", call'[t].by = "prune",
                      NEW doomed, doomed = call'[t].ids,
                      NEW kept, kept = Stored \ doomed
               PROVE  /\ Cardinality(kept) > MaxMemories =>
                            \A i \in kept : Protected(rows[i])
                      /\ \A i \in doomed : rows[i].worth >= Threshold =>
                            /\ Cardinality(kept) >= MaxMemories
                            /\ \A j \in kept :
                                  Protected(rows[j]) \/ rows[j].worth >= rows[i].worth
    OBVIOUS
  <2>1. SpineTypeOK /\ IsFiniteSet(Stored)
    BY <1>2, FS_Subset DEF CapInv, PruneInv
  <2>2. call[t].by # "prune"
    BY <1>2 DEF CapInv, Resting, Idle
  <2>3. PICK order \in Sorted : doomed = Doomed(order)
    BY <1>2, <2>1, <2>2, PruneBegins
  <2> QED
    BY <2>1, <2>3, CapCounts
<1>3. CapInv /\ [Next]_vars => [Fair]_vars
  BY <1>2
<1> QED
  BY <1>1, <1>3, CapStep, PTL DEF SpineSpec, CapTakesTheCheapest
=============================================================================
