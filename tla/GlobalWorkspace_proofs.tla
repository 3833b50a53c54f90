------------------------ MODULE GlobalWorkspace_proofs ------------------------
(***************************************************************************)
(* What the workspace promises for any keys, levels, capacities and any    *)
(* order of calls.  The choices of cycle (the survivor of each key, the    *)
(* ranking) are among what competes, so the tiers keep their types and     *)
(* their limits; the ranking names every key once and falls, so the tiers  *)
(* it is dealt to are in order and lose nothing that is not archived.      *)
(***************************************************************************)
EXTENDS GlobalWorkspace, FiniteSetTheorems, SequenceTheorems,
        WellFoundedInduction, TLAPS

-----------------------------------------------------------------------------
(* What is chosen exists.                                                  *)

LEMMA LeastNat ==
    ASSUME NEW T, T \subseteq Nat, T # {}
    PROVE  \E n \in T : \A m \in T : n <= m
<1> DEFINE Less == { pair \in Nat \X Nat : pair[1] < pair[2] }
<1>1. Less = OpToRel(<, Nat)
    BY Zenon DEF OpToRel
<1>2. IsWellFoundedOn(Less, Nat)
    BY <1>1, NatLessThanWellFounded, Zenon
<1> HIDE DEF Less
<1>3. \E n \in T : \A m \in T : ~ (<<m, n>> \in Less)
    BY <1>2, WFMin, Zenon
<1>4. PICK n \in T : \A m \in T : ~ (<<m, n>> \in Less)
    BY <1>3
<1>5. ASSUME NEW m \in T PROVE n <= m
    <2>1. ~ (<<m, n>> \in Less) /\ m \in Nat /\ n \in Nat
        BY <1>4
    <2>2. ~ (m < n)
        BY <2>1, Zenon DEF Less
    <2> QED
        BY <2>1, <2>2
<1> QED
    BY <1>5

\* A function into the levels is greatest somewhere.
LEMMA GreatestLevel ==
    ASSUME NEW T, T # {}, NEW f, NEW bound \in Nat, \A n \in T : f[n] \in 0 .. bound
    PROVE  \E n \in T : \A m \in T : f[m] <= f[n]
<1> DEFINE Below == { bound - f[n] : n \in T }
<1>1. Below \subseteq Nat /\ Below # {}
    OBVIOUS
<1> HIDE DEF Below
<1>2. PICK least \in Below : \A x \in Below : least <= x
    BY <1>1, LeastNat
<1>3. PICK n \in T : least = bound - f[n]
    BY DEF Below
<1>4. ASSUME NEW m \in T PROVE f[m] <= f[n]
    <2>1. bound - f[n] <= bound - f[m]
        BY <1>2, <1>3 DEF Below
    <2> QED
        BY <2>1
<1> QED
    BY <1>4

LEMMA KeysOfTwo ==
    ASSUME NEW r \in Seq(Broadcast), NEW s \in Seq(Broadcast)
    PROVE  /\ r \o s \in Seq(Broadcast)
           /\ KeysOf(r \o s) = KeysOf(r) \cup KeysOf(s)
<1>1. /\ r \o s \in Seq(Broadcast) /\ Len(r) \in Nat /\ Len(s) \in Nat
      /\ Len(r \o s) = Len(r) + Len(s)
      /\ \A n \in 1 .. Len(r) : (r \o s)[n] = r[n]
      /\ \A n \in 1 .. Len(s) : (r \o s)[Len(r) + n] = s[n]
    OBVIOUS
<1>2. /\ DOMAIN r = 1 .. Len(r) /\ DOMAIN s = 1 .. Len(s)
      /\ DOMAIN (r \o s) = 1 .. Len(r) + Len(s)
    BY <1>1
<1>3. ASSUME NEW n \in DOMAIN (r \o s)
      PROVE  (r \o s)[n].key \in KeysOf(r) \cup KeysOf(s)
    <2>1. CASE n <= Len(r)
        BY <1>1, <1>2, <2>1 DEF KeysOf
    <2>2. CASE ~(n <= Len(r))
        <3>1. n - Len(r) \in 1 .. Len(s) /\ n = Len(r) + (n - Len(r))
            BY <1>1, <1>2, <2>2
        <3>2. (r \o s)[n] = s[n - Len(r)]
            BY <1>1, <3>1
        <3> QED
            BY <1>2, <3>1, <3>2 DEF KeysOf
    <2> QED
        BY <2>1, <2>2
<1>4. ASSUME NEW n \in DOMAIN r PROVE r[n].key \in KeysOf(r \o s)
    <2>1. n \in DOMAIN (r \o s) /\ (r \o s)[n] = r[n]
        BY <1>1, <1>2
    <2> QED
        BY <2>1 DEF KeysOf
<1>5. ASSUME NEW n \in DOMAIN s PROVE s[n].key \in KeysOf(r \o s)
    <2>1. Len(r) + n \in DOMAIN (r \o s) /\ (r \o s)[Len(r) + n] = s[n]
        BY <1>1, <1>2
    <2> QED
        BY <2>1 DEF KeysOf
<1> QED
    BY <1>1, <1>3, <1>4, <1>5 DEF KeysOf

\* Three sequences one after the other hold what each of them holds.
LEMMA CompetitorsHeld ==
    ASSUME WorkspaceTypeOK
    PROVE  /\ Competitors \in Seq(Broadcast)
           /\ KeysOf(Competitors) = Tiers
<1>1. /\ pool \in Seq(Broadcast) /\ contents \in Seq(Broadcast)
      /\ preconscious \in Seq(Broadcast)
    BY DEF WorkspaceTypeOK
<1>2. Competitors \in Seq(Broadcast)
    BY <1>1 DEF Competitors
<1> DEFINE front == contents \o preconscious
<1>3. /\ front \in Seq(Broadcast)
      /\ KeysOf(front) = KeysOf(contents) \cup KeysOf(preconscious)
    BY <1>1, KeysOfTwo
<1>4. KeysOf(front \o pool) = KeysOf(front) \cup KeysOf(pool)
    BY <1>1, <1>3, KeysOfTwo
<1> QED
    BY <1>2, <1>3, <1>4 DEF Competitors, Tiers

-----------------------------------------------------------------------------
(* What cycle chooses.                                                     *)

\* Of the broadcasts that compete for a key, one of them survives.
LEMMA SurvivorHeld ==
    ASSUME WorkspaceTypeOK, NEW k \in KeysOf(Competitors)
    PROVE  Survivor(k) \in Broadcast /\ Survivor(k).key = k
<1> DEFINE ofK  == { n \in DOMAIN Competitors : Competitors[n].key = k }
           best == { n \in ofK : \A m \in ofK : Competitors[m].base <= Competitors[n].base }
           base == [n \in ofK |-> Competitors[n].base]
<1>1. Competitors \in Seq(Broadcast)
    BY CompetitorsHeld
<1> HIDE DEF Competitors
<1>2. /\ \A n \in DOMAIN Competitors : Competitors[n] \in Broadcast
      /\ DOMAIN Competitors \subseteq Nat
    BY <1>1
<1>3. ofK # {}
    BY DEF KeysOf
<1>4. \A n \in ofK : base[n] \in 0 .. MaxLevel
    BY <1>2 DEF Broadcast, Level
<1>5. MaxLevel \in Nat
    BY LevelsAssumption
<1> HIDE DEF base
<1>6. \E n \in ofK : \A m \in ofK : base[m] <= base[n]
    BY <1>3, <1>4, <1>5, GreatestLevel
<1>7. best # {} /\ best \subseteq Nat
    BY <1>2, <1>6 DEF base
<1> DEFINE place == CHOOSE n \in best : \A m \in best : n <= m
<1>8. place \in best
    <2> HIDE DEF best
    <2>1. \E n \in best : \A m \in best : n <= m
        BY <1>7, LeastNat
    <2> QED
        BY <2>1
<1>9. Survivor(k) = Competitors[place]
    BY DEF Survivor
<1> HIDE DEF place
<1> QED
    BY <1>2, <1>8, <1>9

LEMMA SalienceTyped ==
    ASSUME NEW b \in Broadcast
    PROVE  CurrentSalience(b) \in Level
<1>1. b.left \in 0 .. MaxLevel /\ MaxLevel \in Nat /\ Boost \in Nat
    BY LevelsAssumption DEF Broadcast, Level
<1> QED
    BY <1>1 DEF CurrentSalience, Level

\* A ranking names no key twice and never rises; it names every key of the
\* tiers and the pool.
Falling(ranked) ==
    \A m, n \in 1 .. Len(ranked) : m < n =>
        /\ ranked[m].key # ranked[n].key
        /\ CurrentSalience(ranked[m]) >= CurrentSalience(ranked[n])
Naming(ranked) == \A k \in Tiers : \E n \in 1 .. Len(ranked) : ranked[n].key = k

LEMMA RankingFalls ==
    ASSUME WorkspaceTypeOK, NEW order \in Rankings,
           NEW ranked, ranked = [n \in DOMAIN order |-> Survivor(order[n])]
    PROVE  ranked \in Seq(Broadcast) /\ Falling(ranked) /\ Naming(ranked)
<1> DEFINE keys == KeysOf(Competitors)
           size == Cardinality(keys)
<1>1. order \in Bijection(1 .. size, keys)
    BY DEF Rankings
<1>2. size \in Nat
    <2> DEFINE named == [n \in DOMAIN Competitors |-> Competitors[n].key]
    <2>1. named \in Surjection(DOMAIN Competitors, keys)
        BY DEF Surjection, KeysOf
    <2>2. IsFiniteSet(DOMAIN Competitors)
        <3>1. DOMAIN Competitors = 1 .. Len(Competitors) /\ Len(Competitors) \in Nat
            BY CompetitorsHeld
        <3> QED
            BY <3>1, FS_Interval
    <2> HIDE DEF named, keys
    <2>3. IsFiniteSet(keys)
        BY <2>1, <2>2, FS_Surjection
    <2> QED
        BY <2>3, FS_CardinalityType
<1> HIDE DEF size
<1>3. /\ order \in [1 .. size -> keys]
      /\ \A m, n \in 1 .. size : order[m] = order[n] => m = n
      /\ \A k \in keys : \E n \in 1 .. size : order[n] = k
    BY <1>1 DEF Bijection, Injection, Surjection, IsInjective
<1>4. /\ DOMAIN ranked = 1 .. size
      /\ \A n \in 1 .. size : ranked[n] = Survivor(order[n])
    BY <1>3
<1>5. \A n \in 1 .. size : ranked[n] \in Broadcast /\ ranked[n].key = order[n]
    BY <1>3, <1>4, SurvivorHeld
<1>6. ranked \in Seq(Broadcast) /\ Len(ranked) = size
    <2>1. ranked = [n \in 1 .. size |-> ranked[n]]
        BY <1>3
    <2>2. ranked \in [1 .. size -> Broadcast]
        BY <1>5, <2>1
    <2> QED
        BY <1>2, <1>4, <2>2
<1>7. ASSUME NEW m \in 1 .. size, NEW n \in 1 .. size, m < n
      PROVE  /\ ranked[m].key # ranked[n].key
             /\ CurrentSalience(ranked[m]) >= CurrentSalience(ranked[n])
    <2>1. ranked[m].key # ranked[n].key
        BY <1>2, <1>3, <1>5, <1>7
    <2>2. Before(order[m], order[n])
        BY <1>3, <1>7 DEF Rankings
    <2>3. \/ CurrentSalience(ranked[m]) > CurrentSalience(ranked[n])
          \/ CurrentSalience(ranked[m]) = CurrentSalience(ranked[n])
        BY <1>4, <2>2 DEF Before
    <2>4. CurrentSalience(ranked[m]) \in Nat /\ CurrentSalience(ranked[n]) \in Nat
        BY <1>5, SalienceTyped, LevelsAssumption DEF Level
    <2> QED
        BY <2>1, <2>3, <2>4
<1>8. ASSUME NEW k \in Tiers PROVE \E n \in 1 .. size : ranked[n].key = k
    BY <1>3, <1>5, CompetitorsHeld
<1> QED
    BY <1>6, <1>7, <1>8 DEF Falling, Naming

\* How much of the ranking the active tier holds, and both tiers together.
LEMMA BrightestTyped ==
    ASSUME NEW ranked \in Seq(Broadcast), NEW limit \in Nat
    PROVE  /\ Bright(ranked) \in 0 .. Len(ranked)
           /\ Brightest(ranked, limit) \in 0 .. Len(ranked)
           /\ Brightest(ranked, limit) <= limit
<1> DEFINE bright == { n \in DOMAIN ranked : ~Faint(ranked[n]) }
<1>1. DOMAIN ranked = 1 .. Len(ranked) /\ Len(ranked) \in Nat
    OBVIOUS
<1>2. IsFiniteSet(DOMAIN ranked) /\ Cardinality(DOMAIN ranked) = Len(ranked)
    BY <1>1, FS_Interval
<1>3. bright \subseteq DOMAIN ranked
    OBVIOUS
<1> HIDE DEF bright
<1>4. Cardinality(bright) \in Nat /\ Cardinality(bright) <= Len(ranked)
    BY <1>2, <1>3, FS_Subset, FS_CardinalityType
<1>5. Bright(ranked) = Cardinality(bright)
    BY DEF Bright, bright
<1> QED
    BY <1>1, <1>4, <1>5 DEF Brightest

\* The first of a ranking in front, as far as the capacity goes, the next of
\* it at the back, and the keys of all that follows gone.
Split(ranked, active, held, front, back, gone) ==
    /\ active <= held /\ active <= Capacity
    /\ held - active <= PreconsciousCap
    /\ active < held => active = Capacity
    /\ front \in Seq(Broadcast) /\ Len(front) = active
    /\ \A n \in 1 .. active : front[n] = ranked[n]
    /\ back \in Seq(Broadcast) /\ Len(back) = held - active
    /\ \A n \in 1 .. held - active : back[n] = ranked[active + n]
    /\ \A n \in held + 1 .. Len(ranked) : ranked[n].key \in gone

Splits(ranked, front, back, gone) ==
    \E active, held \in 0 .. Len(ranked) :
        Split(ranked, active, held, front, back, gone)

LEMMA DealtInOrder ==
    ASSUME NEW ranked \in Seq(Broadcast), NEW dealt, dealt = Dealt(ranked)
    PROVE  Splits(ranked, dealt.active, dealt.pre, dealt.archived)
<1> DEFINE active == Brightest(ranked, Capacity)
           held   == Brightest(ranked, Capacity + PreconsciousCap)
           rest   == SubSeq(ranked, held + 1, Len(ranked))
<1>1. /\ Capacity \in Nat /\ PreconsciousCap \in Nat
      /\ Capacity + PreconsciousCap \in Nat /\ Len(ranked) \in Nat
    BY LevelsAssumption
<1>2. /\ active \in 0 .. Len(ranked) /\ held \in 0 .. Len(ranked)
      /\ active <= Capacity
    BY <1>1, BrightestTyped
<1>3. /\ active <= held /\ held - active <= PreconsciousCap
      /\ active < held => active = Capacity
    <2>1. Bright(ranked) \in 0 .. Len(ranked)
        BY <1>1, BrightestTyped
    <2> QED
        BY <1>1, <2>1 DEF Brightest
<1>4. /\ dealt.active = SubSeq(ranked, 1, active)
      /\ dealt.pre = SubSeq(ranked, active + 1, held)
      /\ dealt.archived = KeysOf(rest)
    BY DEF Dealt
<1> HIDE DEF active, held
<1>5. /\ dealt.active \in Seq(Broadcast) /\ Len(dealt.active) = active
      /\ \A n \in 1 .. active : dealt.active[n] = ranked[n]
    BY <1>1, <1>2, <1>4
<1>6. /\ dealt.pre \in Seq(Broadcast) /\ Len(dealt.pre) = held - active
      /\ \A n \in 1 .. held - active : dealt.pre[n] = ranked[active + n]
    BY <1>1, <1>2, <1>3, <1>4
<1>7. ASSUME NEW n \in held + 1 .. Len(ranked)
      PROVE  ranked[n].key \in dealt.archived
    <2>1. n - held \in DOMAIN rest /\ rest[n - held] = ranked[n]
        BY <1>1, <1>2, <1>7
    <2> HIDE DEF rest
    <2> QED
        BY <1>4, <2>1 DEF KeysOf
<1>8. Split(ranked, active, held, dealt.active, dealt.pre, dealt.archived)
    BY <1>2, <1>3, <1>5, <1>6, <1>7 DEF Split
<1> QED
    BY <1>2, <1>8 DEF Splits

\* A cycle leaves a ranking dealt out, and what is gone is owed to nobody.
LEMMA CycleDeals ==
    ASSUME WorkspaceTypeOK, Cycle
    PROVE  \E ranked \in Seq(Broadcast) : \E gone :
              /\ Falling(ranked) /\ Naming(ranked)
              /\ Splits(ranked, contents', preconscious', gone)
              /\ LogOutcomes = {TRUE} => gone \cap owed' = {}
<1>1. PICK order \in Rankings :
          \E dealt \in {Dealt([n \in DOMAIN order |-> Survivor(order[n])])} :
              /\ contents' = dealt.active
              /\ preconscious' = dealt.pre
              /\ \E logged \in LogOutcomes :
                    owed' = IF logged THEN owed \ dealt.archived ELSE owed
    BY DEF Cycle
<1> DEFINE ranked == [n \in DOMAIN order |-> Survivor(order[n])]
<1>2. PICK dealt : /\ dealt = Dealt(ranked)
                   /\ contents' = dealt.active
                   /\ preconscious' = dealt.pre
                   /\ \E logged \in LogOutcomes :
                         owed' = IF logged THEN owed \ dealt.archived ELSE owed
    BY <1>1
<1>3. ranked \in Seq(Broadcast) /\ Falling(ranked) /\ Naming(ranked)
    BY RankingFalls
<1> HIDE DEF ranked
<1>4. Splits(ranked, dealt.active, dealt.pre, dealt.archived)
    <2>1. dealt = Dealt(ranked) /\ ranked \in Seq(Broadcast)
        BY <1>2, <1>3
    <2> QED
        BY <2>1, DealtInOrder
<1>5. Splits(ranked, contents', preconscious', dealt.archived)
    BY <1>2, <1>4
<1>6. LogOutcomes = {TRUE} => dealt.archived \cap owed' = {}
    BY <1>2
<1> QED
    BY <1>3, <1>5, <1>6

-----------------------------------------------------------------------------
(* The types and the limits of the tiers.                                  *)

LEMMA CycleTyped == ASSUME WorkspaceTypeOK, Cycle PROVE WorkspaceTypeOK'
<1>1. PICK ranked, gone : Splits(ranked, contents', preconscious', gone)
    BY CycleDeals
<1>2. /\ contents' \in Seq(Broadcast) /\ Len(contents') <= Capacity
      /\ preconscious' \in Seq(Broadcast) /\ Len(preconscious') <= PreconsciousCap
    BY <1>1 DEF Splits, Split
<1>3. /\ pool' = <<>> /\ owed' \subseteq owed
      /\ spotlight' = IF contents' # <<>> THEN Head(contents') ELSE spotlight
    BY DEF Cycle
<1>4. pool' \in Seq(Broadcast) /\ Len(pool') <= MaxPool
    BY <1>3, LevelsAssumption
<1>5. spotlight' \in Broadcast \cup {NoBroadcast}
    BY <1>2, <1>3 DEF WorkspaceTypeOK
<1> QED
    BY <1>2, <1>3, <1>4, <1>5 DEF WorkspaceTypeOK

LEMMA SubmitTyped ==
    ASSUME WorkspaceTypeOK,
           NEW k \in Keys, NEW base \in Level, NEW intense \in BOOLEAN,
           Submit(k, base, intense)
    PROVE  WorkspaceTypeOK'
<1>1. [key |-> k, base |-> base, left |-> base, intense |-> intense] \in Broadcast
    BY DEF Broadcast
<1>2. pool' \in Seq(Broadcast) /\ Len(pool') = Len(pool) + 1
    BY <1>1 DEF Submit, WorkspaceTypeOK
<1>3. Len(pool') <= MaxPool
    BY <1>2, LevelsAssumption DEF Submit, WorkspaceTypeOK
<1> QED
    BY <1>2, <1>3 DEF Submit, WorkspaceTypeOK

\* A sequence with one of its elements taken out.
Without(s, n) == SubSeq(s, 1, n - 1) \o SubSeq(s, n + 1, Len(s))

LEMMA TakenOut ==
    ASSUME NEW s \in Seq(Broadcast), NEW n \in 1 .. Len(s)
    PROVE  /\ Without(s, n) \in Seq(Broadcast)
           /\ Len(Without(s, n)) = Len(s) - 1
           /\ \A m \in DOMAIN s : m # n =>
                 \E i \in DOMAIN Without(s, n) : Without(s, n)[i] = s[m]
<1> DEFINE others == Without(s, n)
           before == SubSeq(s, 1, n - 1)
           after  == SubSeq(s, n + 1, Len(s))
<1>1. n \in Nat \ {0} /\ Len(s) \in Nat /\ n <= Len(s) /\ DOMAIN s = 1 .. Len(s)
    OBVIOUS
<1>2. /\ before \in Seq(Broadcast) /\ Len(before) = n - 1
      /\ \A m \in 1 .. n - 1 : before[m] = s[m]
    BY <1>1
<1>3. /\ after \in Seq(Broadcast) /\ Len(after) = Len(s) - n
      /\ \A i \in 1 .. Len(s) - n : after[i] = s[n + i]
    <2>1. \A i \in n + 1 .. Len(s) : s[i] \in Broadcast
        BY <1>1
    <2>2. /\ after \in Seq(Broadcast)
          /\ Len(after) = IF n + 1 <= Len(s) THEN Len(s) - (n + 1) + 1 ELSE 0
          /\ \A i \in 1 .. Len(s) - (n + 1) + 1 : after[i] = s[(n + 1) + i - 1]
        BY <1>1, <2>1, SubSeqProperties
    <2> HIDE DEF after
    <2>3. Len(s) - (n + 1) + 1 = Len(s) - n
        BY <1>1
    <2>4. ASSUME NEW i \in 1 .. Len(s) - n PROVE after[i] = s[n + i]
        <3>1. (n + 1) + i - 1 = n + i
            BY <1>1
        <3> QED
            BY <2>2, <2>3, <3>1
    <2> QED
        BY <1>1, <2>2, <2>3, <2>4
<1>4. others = before \o after
    BY DEF Without
<1> HIDE DEF before, after, others
<1>5. /\ others \in Seq(Broadcast) /\ Len(others) = Len(before) + Len(after)
      /\ \A i \in 1 .. Len(before) : others[i] = before[i]
      /\ \A i \in 1 .. Len(after) : others[Len(before) + i] = after[i]
    <2>1. before \in Seq(Broadcast) /\ after \in Seq(Broadcast)
        BY <1>2, <1>3
    <2>2. /\ before \o after \in Seq(Broadcast)
          /\ Len(before \o after) = Len(before) + Len(after)
          /\ \A i \in 1 .. Len(before) + Len(after) : (before \o after)[i] =
                 IF i <= Len(before) THEN before[i] ELSE after[i - Len(before)]
        BY <2>1, ConcatProperties
    <2>3. /\ others \in Seq(Broadcast) /\ Len(others) = Len(before) + Len(after)
          /\ \A i \in 1 .. Len(before) + Len(after) : others[i] =
                 IF i <= Len(before) THEN before[i] ELSE after[i - Len(before)]
        BY <1>4, <2>2
    <2>4. Len(before) \in Nat /\ Len(after) \in Nat
        BY <1>2, <1>3
    <2>5. ASSUME NEW i \in 1 .. Len(after)
          PROVE  others[Len(before) + i] = after[i]
        <3>1. /\ Len(before) + i \in 1 .. Len(before) + Len(after)
              /\ ~(Len(before) + i <= Len(before))
              /\ (Len(before) + i) - Len(before) = i
            BY <2>4
        <3> QED
            BY <2>3, <3>1
    <2>6. ASSUME NEW i \in 1 .. Len(before) PROVE others[i] = before[i]
        <3>1. i \in 1 .. Len(before) + Len(after) /\ i <= Len(before)
            BY <2>4
        <3> QED
            BY <2>3, <3>1
    <2> QED
        BY <2>3, <2>5, <2>6
<1>6. Len(others) = Len(s) - 1 /\ DOMAIN others = 1 .. Len(s) - 1
    BY <1>1, <1>2, <1>3, <1>5
<1>7. ASSUME NEW m \in DOMAIN s, m # n
      PROVE  \E i \in DOMAIN others : others[i] = s[m]
    <2>1. CASE m < n
        <3>1. m \in 1 .. n - 1 /\ m \in DOMAIN others
            BY <1>1, <1>6, <2>1
        <3> QED
            BY <1>2, <1>5, <3>1
    <2>2. CASE ~(m < n)
        <3>1. /\ m - n \in 1 .. Len(s) - n /\ n + (m - n) = m
              /\ (n - 1) + (m - n) = m - 1 /\ m - 1 \in 1 .. Len(s) - 1
            BY <1>1, <1>7, <2>2
        <3>2. after[m - n] = s[m]
            BY <1>3, <3>1
        <3>3. others[m - 1] = after[m - n]
            BY <1>2, <1>3, <1>5, <3>1
        <3> QED
            BY <1>6, <3>1, <3>2, <3>3
    <2> QED
        BY <2>1, <2>2
<1> QED
    BY <1>5, <1>6, <1>7 DEF others

\* The item moved to the spotlight is there, and it is taken out once.
LEMMA MovedOut ==
    ASSUME WorkspaceTypeOK, NEW k \in Keys, MoveSpotlight(k)
    PROVE  \E n \in DOMAIN contents :
              \E others \in Seq(Broadcast) :
                 /\ contents[n].key = k /\ contents[n] \in Broadcast
                 /\ spotlight' = contents[n]
                 /\ Len(others) = Len(contents) - 1
                 /\ \A m \in DOMAIN contents : m # n =>
                        \E i \in DOMAIN others : others[i] = contents[m]
                 /\ contents' = IF spotlight = NoBroadcast THEN others
                                ELSE <<spotlight>> \o others
<1> DEFINE ofK == { i \in DOMAIN contents : contents[i].key = k }
           n   == CHOOSE i \in DOMAIN contents :
                     contents[i].key = k /\ \A j \in 1 .. i - 1 : contents[j].key # k
           others == Without(contents, n)
<1>1. contents \in Seq(Broadcast) /\ DOMAIN contents = 1 .. Len(contents)
    BY DEF WorkspaceTypeOK
<1>2. n \in DOMAIN contents /\ contents[n].key = k
    <2>1. ofK \subseteq Nat /\ ofK # {}
        BY <1>1 DEF MoveSpotlight, KeysOf
    <2> HIDE DEF ofK
    <2>2. PICK i \in ofK : \A j \in ofK : i <= j
        BY <2>1, LeastNat
    <2>3. /\ i \in DOMAIN contents /\ contents[i].key = k
          /\ \A j \in 1 .. i - 1 : contents[j].key # k
        BY <1>1, <2>2 DEF ofK
    <2> QED
        BY <2>3
<1>3. /\ spotlight' = contents[n]
      /\ contents' = IF spotlight = NoBroadcast THEN others ELSE <<spotlight>> \o others
    BY DEF MoveSpotlight, Without
<1> HIDE DEF n
<1>4. contents[n] \in Broadcast /\ n \in 1 .. Len(contents)
    BY <1>1, <1>2
<1>5. /\ others \in Seq(Broadcast) /\ Len(others) = Len(contents) - 1
      /\ \A m \in DOMAIN contents : m # n =>
            \E i \in DOMAIN others : others[i] = contents[m]
    BY <1>1, <1>4, TakenOut
<1> HIDE DEF others
<1> QED
    BY <1>2, <1>3, <1>4, <1>5

LEMMA MoveTyped ==
    ASSUME WorkspaceTypeOK, NEW k \in Keys, MoveSpotlight(k)
    PROVE  WorkspaceTypeOK'
<1>1. PICK n \in DOMAIN contents, others \in Seq(Broadcast) :
          /\ contents[n] \in Broadcast /\ spotlight' = contents[n]
          /\ Len(others) = Len(contents) - 1
          /\ contents' = IF spotlight = NoBroadcast THEN others
                         ELSE <<spotlight>> \o others
    BY MovedOut
<1>2. contents' \in Seq(Broadcast) /\ Len(contents') <= Capacity
    <2>1. CASE spotlight = NoBroadcast
        BY <1>1, <2>1, LevelsAssumption DEF WorkspaceTypeOK
    <2>2. CASE spotlight # NoBroadcast
        <3>1. /\ <<spotlight>> \o others \in Seq(Broadcast)
              /\ Len(<<spotlight>> \o others) = Len(others) + 1
            BY <1>1, <2>2 DEF WorkspaceTypeOK
        <3> QED
            BY <1>1, <2>2, <3>1, LevelsAssumption DEF WorkspaceTypeOK
    <2> QED
        BY <2>1, <2>2
<1> QED
    BY <1>1, <1>2 DEF MoveSpotlight, WorkspaceTypeOK

\* Decay leaves every broadcast where it is, with its key.
LEMMA DecayedHeld ==
    ASSUME NEW b \in Broadcast
    PROVE  Decayed(b) \in Broadcast /\ Decayed(b).key = b.key
<1> DEFINE next == IF b.left = 0 THEN 0 ELSE b.left - 1
<1>1. MaxLevel \in Nat /\ b.left \in 0 .. MaxLevel
    BY LevelsAssumption DEF Broadcast, Level
<1>2. next \in Level
    BY <1>1 DEF Level
<1>3. Decayed(b) = [b EXCEPT !.left = next]
    BY DEF Decayed
<1> HIDE DEF next
<1> QED
    BY <1>2, <1>3 DEF Broadcast

LEMMA DecayedTyped ==
    ASSUME NEW s \in Seq(Broadcast)
    PROVE  /\ DecayedSeq(s) \in Seq(Broadcast) /\ Len(DecayedSeq(s)) = Len(s)
           /\ KeysOf(DecayedSeq(s)) = KeysOf(s)
<1>1. ASSUME NEW b \in Broadcast
      PROVE  Decayed(b) \in Broadcast /\ Decayed(b).key = b.key
    BY DecayedHeld
<1>2. /\ DecayedSeq(s) = [n \in 1 .. Len(s) |-> Decayed(s[n])]
      /\ \A n \in 1 .. Len(s) : s[n] \in Broadcast
    BY DEF DecayedSeq
<1>3. DecayedSeq(s) \in Seq(Broadcast) /\ Len(DecayedSeq(s)) = Len(s)
    BY <1>1, <1>2
<1> QED
    BY <1>1, <1>2, <1>3 DEF KeysOf

LEMMA WorkspaceKeeps ==
    ASSUME WorkspaceTypeOK, [WorkspaceNext]_workspaceVars
    PROVE  WorkspaceTypeOK'
<1>1. ASSUME NEW call \in Placed, SetSpotlight(call[1], call[2])
      PROVE  WorkspaceTypeOK'
    <2>1. call[1] \in Keys /\ call[2] \in Level
        BY CallsAssumption
    <2>2. spotlight' \in Broadcast
        BY <1>1, <2>1 DEF SetSpotlight, Broadcast
    <2> QED
        BY <1>1, <2>2 DEF SetSpotlight, WorkspaceTypeOK
<1>2. CASE Decay
    <2>1. /\ pool' \in Seq(Broadcast) /\ Len(pool') = Len(pool)
          /\ contents' \in Seq(Broadcast) /\ Len(contents') = Len(contents)
          /\ preconscious' \in Seq(Broadcast) /\ Len(preconscious') = Len(preconscious)
        BY <1>2, DecayedTyped DEF Decay, WorkspaceTypeOK
    <2>2. spotlight' \in Broadcast \cup {NoBroadcast}
        BY <1>2, LevelsAssumption DEF Decay, WorkspaceTypeOK, Decayed, Broadcast, Level
    <2> QED
        BY <1>2, <2>1, <2>2 DEF Decay, WorkspaceTypeOK
<1>3. CASE UNCHANGED workspaceVars
    BY <1>3 DEF workspaceVars, WorkspaceTypeOK
<1> QED
    BY <1>1, <1>2, <1>3, CycleTyped, SubmitTyped, MoveTyped DEF WorkspaceNext

\* For any keys, levels, capacities and order of calls, the tiers keep their
\* types and their limits: move_spotlight's swap does not grow the active tier.
THEOREM WorkspaceTyping == WorkspaceSpec => []WorkspaceTypeOK
<1>1. WorkspaceInit => WorkspaceTypeOK
    <2>1. <<>> \in Seq(Broadcast) /\ Len(<<>>) = 0
        OBVIOUS
    <2> QED
        BY <2>1, LevelsAssumption DEF WorkspaceInit, WorkspaceTypeOK
<1>2. WorkspaceTypeOK /\ [WorkspaceNext]_workspaceVars => WorkspaceTypeOK'
    BY WorkspaceKeeps
<1> QED
    BY <1>1, <1>2, PTL DEF WorkspaceSpec

-----------------------------------------------------------------------------
(* What a cycle leaves, and what no call loses.                            *)

\* The two tiers, one after the other, are the start of the ranking.
LEMMA TiersRanked ==
    ASSUME NEW ranked \in Seq(Broadcast), NEW active \in 0 .. Len(ranked),
           NEW held \in 0 .. Len(ranked), NEW front, NEW back, NEW gone,
           Split(ranked, active, held, front, back, gone)
    PROVE  \A n \in DOMAIN (front \o back) :
              n \in 1 .. Len(ranked) /\ (front \o back)[n] = ranked[n]
<1>1. /\ front \in Seq(Broadcast) /\ Len(front) = active
      /\ back \in Seq(Broadcast) /\ Len(back) = held - active
      /\ \A n \in 1 .. active : front[n] = ranked[n]
      /\ \A n \in 1 .. held - active : back[n] = ranked[active + n]
    BY DEF Split
<1>2. /\ active \in Nat /\ held \in Nat /\ active <= held
      /\ Len(ranked) \in Nat /\ held <= Len(ranked)
    BY DEF Split
<1>3. DOMAIN (front \o back) = 1 .. held
    <2>1. /\ front \o back \in Seq(Broadcast)
          /\ Len(front \o back) = Len(front) + Len(back)
        BY <1>1, ConcatProperties
    <2>2. active + (held - active) = held
        BY <1>2
    <2> QED
        BY <1>1, <2>1, <2>2
<1>4. ASSUME NEW n \in 1 .. held PROVE (front \o back)[n] = ranked[n]
    <2>1. CASE n <= active
        BY <1>1, <1>2, <2>1
    <2>2. CASE ~(n <= active)
        <3>1. n - active \in 1 .. held - active /\ active + (n - active) = n
            BY <1>2, <2>2
        <3>2. (front \o back)[n] = back[n - active]
            BY <1>1, <1>2, <2>2, <3>1
        <3> QED
            BY <1>1, <3>1, <3>2
    <2> QED
        BY <2>1, <2>2
<1> QED
    BY <1>2, <1>3, <1>4

LEMMA CycleOrders ==
    ASSUME WorkspaceTypeOK, Cycle
    PROVE  LET s == contents' \o preconscious'
           IN /\ \A m, n \in DOMAIN s : m < n =>
                    /\ s[m].key # s[n].key
                    /\ CurrentSalience(s[m]) >= CurrentSalience(s[n])
              /\ preconscious' # <<>> => Len(contents') = Capacity
<1>1. PICK ranked, gone :
          /\ ranked \in Seq(Broadcast)
          /\ Falling(ranked) /\ Splits(ranked, contents', preconscious', gone)
    BY CycleDeals
<1>2. PICK active \in 0 .. Len(ranked), held \in 0 .. Len(ranked) :
          Split(ranked, active, held, contents', preconscious', gone)
    BY <1>1 DEF Splits
<1> DEFINE s == contents' \o preconscious'
<1>3. \A n \in DOMAIN s : n \in 1 .. Len(ranked) /\ s[n] = ranked[n]
    BY <1>1, <1>2, TiersRanked
<1> HIDE DEF s
<1>4. ASSUME NEW m \in DOMAIN s, NEW n \in DOMAIN s, m < n
      PROVE  /\ s[m].key # s[n].key
             /\ CurrentSalience(s[m]) >= CurrentSalience(s[n])
    BY <1>1, <1>3, <1>4 DEF Falling
<1>5. preconscious' # <<>> => Len(contents') = Capacity
    BY <1>2 DEF Split
<1> QED
    BY <1>4, <1>5 DEF s

\* For any keys, levels and capacities, and whatever calls moved the spotlight
\* before: a cycle leaves the tiers without duplicates and in order, and
\* nothing waits in the preconscious tier while the active tier has room.
THEOREM CycleSorts == WorkspaceSpec => CycleRestoresOrder
<1>1. WorkspaceTypeOK /\ [WorkspaceNext]_workspaceVars =>
        [ Cycle =>
            LET s == contents' \o preconscious'
            IN /\ \A m, n \in DOMAIN s : m < n =>
                     /\ s[m].key # s[n].key
                     /\ CurrentSalience(s[m]) >= CurrentSalience(s[n])
               /\ preconscious' # <<>> => Len(contents') = Capacity ]_workspaceVars
    BY CycleOrders
<1> QED
    BY <1>1, WorkspaceTyping, PTL DEF WorkspaceSpec, CycleRestoresOrder

\* What a cycle does not archive it holds.
LEMMA CycleLosesNothing ==
    ASSUME LogOutcomes = {TRUE}, WorkspaceTypeOK, Cycle, NEW k \in owed', k \in Tiers
    PROVE  k \in Held'
<1>1. PICK ranked, gone :
          /\ ranked \in Seq(Broadcast)
          /\ Naming(ranked) /\ Splits(ranked, contents', preconscious', gone)
          /\ gone \cap owed' = {}
    BY CycleDeals
<1>2. PICK active \in 0 .. Len(ranked), held \in 0 .. Len(ranked) :
          Split(ranked, active, held, contents', preconscious', gone)
    BY <1>1 DEF Splits
<1>3. PICK n \in 1 .. Len(ranked) : ranked[n].key = k
    BY <1>1 DEF Naming
<1>4. /\ active \in Nat /\ held \in Nat /\ active <= held
      /\ n \in Nat /\ 1 <= n /\ n <= Len(ranked) /\ Len(ranked) \in Nat
    BY <1>2 DEF Split
<1>5. n <= held
    <2>1. ~(n \in held + 1 .. Len(ranked))
        BY <1>1, <1>2, <1>3 DEF Split
    <2> QED
        BY <1>4, <2>1
<1>6. CASE n <= active
    <2>1. n \in DOMAIN contents' /\ contents'[n] = ranked[n]
        BY <1>2, <1>4, <1>6 DEF Split
    <2> QED
        BY <1>3, <2>1 DEF Held, Tiers, KeysOf
<1>7. CASE ~(n <= active)
    <2>1. n - active \in 1 .. held - active /\ active + (n - active) = n
        BY <1>4, <1>5, <1>7
    <2>2. n - active \in DOMAIN preconscious' /\ preconscious'[n - active] = ranked[n]
        BY <1>2, <2>1 DEF Split
    <2> QED
        BY <1>3, <2>2 DEF Held, Tiers, KeysOf
<1> QED
    BY <1>6, <1>7

\* The other calls lose nothing of the tiers: what move_spotlight takes out is
\* in the spotlight.
LEMMA CallsLoseNothing ==
    ASSUME WorkspaceTypeOK, NEW k \in Tiers,
           \/ \E j \in Keys, base \in Level, intense \in BOOLEAN : Submit(j, base, intense)
           \/ \E j \in Keys : MoveSpotlight(j)
           \/ \E call \in Placed : SetSpotlight(call[1], call[2])
           \/ Decay
    PROVE  k \in Held'
<1>1. ASSUME NEW j \in Keys, NEW base \in Level, NEW intense \in BOOLEAN,
             Submit(j, base, intense)
      PROVE  k \in Held'
    <2>1. KeysOf(pool) \subseteq KeysOf(pool')
        <3>1. pool \in Seq(Broadcast)
            BY DEF WorkspaceTypeOK
        <3>2. \A n \in DOMAIN pool : n \in DOMAIN pool' /\ pool'[n] = pool[n]
            BY <1>1, <3>1 DEF Submit
        <3> QED
            BY <3>2 DEF KeysOf
    <2> QED
        BY <1>1, <2>1 DEF Submit, Held, Tiers, KeysOf
<1>2. ASSUME NEW j \in Keys, MoveSpotlight(j) PROVE k \in Held'
    <2>1. PICK n \in DOMAIN contents, others \in Seq(Broadcast) :
              /\ contents[n] \in Broadcast /\ spotlight' = contents[n]
              /\ \A m \in DOMAIN contents : m # n =>
                     \E i \in DOMAIN others : others[i] = contents[m]
              /\ contents' = IF spotlight = NoBroadcast THEN others
                             ELSE <<spotlight>> \o others
        BY <1>2, MovedOut
    <2>2. spotlight'.key = contents[n].key /\ spotlight' # NoBroadcast
        BY <2>1, NoBroadcastAssumption
    <2>3. KeysOf(others) \subseteq KeysOf(contents')
        <3>1. CASE spotlight = NoBroadcast
            BY <2>1, <3>1
        <3>2. CASE spotlight # NoBroadcast
            <4>1. <<spotlight>> \in Seq(Broadcast)
                BY <3>2 DEF WorkspaceTypeOK
            <4>2. KeysOf(<<spotlight>> \o others)
                      = KeysOf(<<spotlight>>) \cup KeysOf(others)
                BY <4>1, KeysOfTwo
            <4> QED
                BY <2>1, <3>2, <4>2
        <3> QED
            BY <3>1, <3>2
    <2>4. KeysOf(contents) \subseteq KeysOf(others) \cup {contents[n].key}
        BY <2>1 DEF KeysOf
    <2>5. k \in KeysOf(pool) \cup KeysOf(preconscious) \cup KeysOf(contents')
               \cup {spotlight'.key}
        BY <2>2, <2>3, <2>4 DEF Tiers
    <2>6. KeysOf(pool)' = KeysOf(pool) /\ KeysOf(preconscious)' = KeysOf(preconscious)
        BY <1>2 DEF MoveSpotlight, KeysOf
    <2> QED
        BY <2>2, <2>5, <2>6 DEF Held, Tiers, KeysOf
<1>3. ASSUME NEW call \in Placed, SetSpotlight(call[1], call[2]) PROVE k \in Held'
    BY <1>3 DEF SetSpotlight, Held, Tiers, KeysOf
<1>4. CASE Decay
    <2>1. /\ KeysOf(DecayedSeq(pool)) = KeysOf(pool)
          /\ KeysOf(DecayedSeq(contents)) = KeysOf(contents)
          /\ KeysOf(DecayedSeq(preconscious)) = KeysOf(preconscious)
        BY DecayedTyped DEF WorkspaceTypeOK
    <2>2. /\ pool' = DecayedSeq(pool) /\ contents' = DecayedSeq(contents)
          /\ preconscious' = DecayedSeq(preconscious)
        BY <1>4 DEF Decay
    <2>3. KeysOf(pool') \cup KeysOf(contents') \cup KeysOf(preconscious') = Tiers
        BY <2>1, <2>2 DEF Tiers
    <2> QED
        BY <2>3 DEF Held, Tiers, KeysOf
<1> QED
    BY <1>1, <1>2, <1>3, <1>4

\* For any keys, levels, capacities and order of calls, when the archive can
\* be written: whatever of the tiers a call does not hold was archived.
THEOREM NothingElseVanishes ==
    ASSUME LogOutcomes = {TRUE}
    PROVE  WorkspaceSpec => OnlyMovedFocusVanishes
<1>1. WorkspaceTypeOK /\ [WorkspaceNext]_workspaceVars =>
        [ \A k \in owed' : k \in Tiers => k \in Held' ]_workspaceVars
    BY CycleLosesNothing, CallsLoseNothing DEF WorkspaceNext
<1> QED
    BY <1>1, WorkspaceTyping, PTL DEF WorkspaceSpec, OnlyMovedFocusVanishes
=============================================================================
