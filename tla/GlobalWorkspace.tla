-------------------------- MODULE GlobalWorkspace --------------------------
(***************************************************************************)
(* The tiered attention workspace (core/global_workspace.py).              *)
(*                                                                         *)
(* Broadcasts are submitted to a pool; each cycle merges the pool with     *)
(* what survives, drops duplicates, ranks by current salience and deals    *)
(* the ranking out to the spotlight, the active tier, the preconscious     *)
(* tier and the archive.  submit, cycle and move_spotlight hold one lock,  *)
(* so each is a step; between them time passes and salience decays.        *)
(*                                                                         *)
(* A broadcast is named by its key, the pair (source, content[:80]) that   *)
(* deduplication compares.  Salience is an integer level: the base level   *)
(* less one per tick, plus a boost that never decays when the broadcast is *)
(* emotionally intense.                                                    *)
(***************************************************************************)
EXTENDS Naturals, Sequences, FiniteSets, Functions

CONSTANTS
    Keys,               \* (source, content prefix) pairs
    NoBroadcast,        \* spotlight is None
    MaxLevel,           \* salience 1.0; levels are 0 .. MaxLevel
    Boost,              \* the constant boost of an intense broadcast
    ArchiveLevel,       \* below it a broadcast is archived
    Capacity,           \* active tier
    PreconsciousCap,    \* PRECONSCIOUS_CAPACITY
    MaxPool,            \* bound: submissions waiting for one cycle
    Placed,             \* bound: the <<key, strength>> given to set_spotlight
    LogOutcomes         \* {TRUE}, or BOOLEAN when the SQLite write may fail

Level == 0 .. MaxLevel

ASSUME LevelsAssumption ==
    /\ MaxLevel \in Nat /\ Boost \in 0 .. MaxLevel /\ ArchiveLevel \in 0 .. MaxLevel
    /\ Capacity \in Nat \ {0} /\ PreconsciousCap \in Nat /\ MaxPool \in Nat
ASSUME CallsAssumption == Placed \subseteq Keys \X Level /\ LogOutcomes \subseteq BOOLEAN

\* left: what is left of the base salience after decay.
Broadcast == [key : Keys, base : Level, left : Level, intense : BOOLEAN]

ASSUME NoBroadcastAssumption == NoBroadcast \notin Broadcast

VARIABLES
    pool,          \* _pool: submissions since the last cycle
    contents,      \* state.contents: the active tier, best first
    preconscious,  \* the bands, strongest first, as one sequence
    spotlight,     \* state.spotlight
    owed           \* history: keys submitted since they were last archived

workspaceVars == <<pool, contents, preconscious, spotlight, owed>>

WorkspaceInit ==
    /\ pool = <<>>
    /\ contents = <<>>
    /\ preconscious = <<>>
    /\ spotlight = NoBroadcast
    /\ owed = {}

CurrentSalience(b) ==
    LET boosted == b.left + (IF b.intense THEN Boost ELSE 0)
    IN IF boosted > MaxLevel THEN MaxLevel ELSE boosted

KeysOf(s) == { s[n].key : n \in DOMAIN s }

-----------------------------------------------------------------------------
(* cycle                                                                   *)

\* survivors + self._pool, in that order.
Competitors == contents \o preconscious \o pool

\* Mutant: >= for > when comparing base salience, the last of equals wins.
SurvivorLatest(k) ==
    LET s    == Competitors
        ofK  == { n \in DOMAIN s : s[n].key = k }
        best == { n \in ofK : \A m \in ofK : s[m].base <= s[n].base }
    IN s[CHOOSE n \in best : \A m \in best : n >= m]

\* seen[key]: of the broadcasts of one key, the first of highest base salience.
Survivor(k) ==
    LET s    == Competitors
        ofK  == { n \in DOMAIN s : s[n].key = k }
        best == { n \in ofK : \A m \in ofK : s[m].base <= s[n].base }
    IN s[CHOOSE n \in best : \A m \in best : n <= m]

\* The place in the dictionary: where the key was first seen.
FirstSeen(k) ==
    CHOOSE n \in DOMAIN Competitors :
        Competitors[n].key = k /\ \A m \in 1 .. n - 1 : Competitors[m].key # k

\* Mutant: the ranking uses the salience of submission, not the current one.
BeforeByBase(j, k) ==
    \/ Survivor(j).base > Survivor(k).base
    \/ Survivor(j).base = Survivor(k).base /\ FirstSeen(j) < FirstSeen(k)

\* sorted(..., reverse=True) is stable.
Before(j, k) ==
    \/ CurrentSalience(Survivor(j)) > CurrentSalience(Survivor(k))
    \/ /\ CurrentSalience(Survivor(j)) = CurrentSalience(Survivor(k))
       /\ FirstSeen(j) < FirstSeen(k)

\* ranked, by its keys.  Before is a strict order, so there is exactly one.
Rankings ==
    { order \in Bijection(1 .. Cardinality(KeysOf(Competitors)), KeysOf(Competitors)) :
        \A m, n \in DOMAIN order : m < n => Before(order[m], order[n]) }

Faint(b) == CurrentSalience(b) < ArchiveLevel

\* The archive threshold takes the end of the ranking: the strongest come first.
Bright(ranked) == Cardinality({ n \in DOMAIN ranked : ~Faint(ranked[n]) })
Brightest(ranked, limit) == IF Bright(ranked) < limit THEN Bright(ranked) ELSE limit

\* Mutant: `<=' for `<' against the capacity.
DealtOneMore(ranked) ==
    LET active == Brightest(ranked, Capacity + 1)
        held   == Brightest(ranked, Capacity + PreconsciousCap)
    IN [ active   |-> SubSeq(ranked, 1, active),
         pre      |-> SubSeq(ranked, active + 1, held),
         archived |-> KeysOf(SubSeq(ranked, held + 1, Len(ranked))) ]

\* Mutant: the overflow of the preconscious tier is dropped unlogged.
DealtDropsOverflow(ranked) ==
    LET active == Brightest(ranked, Capacity)
        held   == Brightest(ranked, Capacity + PreconsciousCap)
    IN [ active   |-> SubSeq(ranked, 1, active),
         pre      |-> SubSeq(ranked, active + 1, held),
         archived |-> KeysOf(SubSeq(ranked, Bright(ranked) + 1, Len(ranked))) ]

\* Dealing the ranking out: the active tier, the preconscious one, the archive.
Dealt(ranked) ==
    LET active == Brightest(ranked, Capacity)
        held   == Brightest(ranked, Capacity + PreconsciousCap)
    IN [ active   |-> SubSeq(ranked, 1, active),
         pre      |-> SubSeq(ranked, active + 1, held),
         archived |-> KeysOf(SubSeq(ranked, held + 1, Len(ranked))) ]

\* With nothing active the old spotlight stays.  _archive_to_db swallows its
\* exceptions: what it could not log is evicted all the same.  (\E over a
\* singleton only names a value.)
Cycle ==
    \E order \in Rankings :
    \E dealt \in {Dealt([n \in DOMAIN order |-> Survivor(order[n])])} :
       /\ pool' = <<>>
       /\ contents' = dealt.active
       /\ preconscious' = dealt.pre
       /\ \E logged \in LogOutcomes :
             owed' = IF logged THEN owed \ dealt.archived ELSE owed
       /\ spotlight' = IF dealt.active # <<>> THEN Head(dealt.active) ELSE spotlight

-----------------------------------------------------------------------------
(* The other calls.                                                        *)

Submit(k, base, intense) ==
    /\ Len(pool) < MaxPool
    /\ pool' = Append(pool, [key |-> k, base |-> base, left |-> base, intense |-> intense])
    /\ owed' = owed \cup {k}
    /\ UNCHANGED <<contents, preconscious, spotlight>>

\* The first active item that matches; list.remove takes the first equal one.
MoveSpotlight(k) ==
    /\ k \in KeysOf(contents)
    /\ LET n == CHOOSE i \in DOMAIN contents :
                   contents[i].key = k /\ \A j \in 1 .. i - 1 : contents[j].key # k
           others == SubSeq(contents, 1, n - 1) \o SubSeq(contents, n + 1, Len(contents))
       IN /\ contents' = IF spotlight = NoBroadcast THEN others ELSE <<spotlight>> \o others
          /\ spotlight' = contents[n]
    /\ UNCHANGED <<pool, preconscious, owed>>

\* A broadcast that was never submitted takes the spotlight.  Nothing in the
\* repository calls it: Placed says with what it may be called.
SetSpotlight(k, strength) ==
    /\ spotlight' = [key |-> k, base |-> strength, left |-> strength, intense |-> FALSE]
    /\ UNCHANGED <<pool, contents, preconscious, owed>>

\* Real time passes for every broadcast at once.
Decayed(b) == [b EXCEPT !.left = IF @ = 0 THEN 0 ELSE @ - 1]
DecayedSeq(s) == [n \in DOMAIN s |-> Decayed(s[n])]

Decay ==
    /\ pool' = DecayedSeq(pool)
    /\ contents' = DecayedSeq(contents)
    /\ preconscious' = DecayedSeq(preconscious)
    /\ spotlight' = IF spotlight = NoBroadcast THEN NoBroadcast ELSE Decayed(spotlight)
    /\ UNCHANGED owed

WorkspaceNext ==
    \/ Cycle
    \/ \E k \in Keys, base \in Level, intense \in BOOLEAN : Submit(k, base, intense)
    \/ \E k \in Keys : MoveSpotlight(k)
    \/ \E call \in Placed : SetSpotlight(call[1], call[2])
    \/ Decay

WorkspaceSpec == WorkspaceInit /\ [][WorkspaceNext]_workspaceVars

\* cycle is a core plugin run on every tick of the background loop, and time
\* passes.
FairWorkspaceSpec == WorkspaceSpec /\ WF_workspaceVars(Cycle) /\ WF_workspaceVars(Decay)

-----------------------------------------------------------------------------
(* Properties.                                                             *)

WorkspaceTypeOK ==
    /\ pool \in Seq(Broadcast) /\ Len(pool) <= MaxPool
    /\ contents \in Seq(Broadcast) /\ Len(contents) <= Capacity
    /\ preconscious \in Seq(Broadcast) /\ Len(preconscious) <= PreconsciousCap
    /\ spotlight \in Broadcast \cup {NoBroadcast}
    /\ owed \subseteq Keys

Tiers == KeysOf(pool) \cup KeysOf(contents) \cup KeysOf(preconscious)
Held  == Tiers \cup (IF spotlight = NoBroadcast THEN {} ELSE {spotlight.key})

\* Items below the active threshold are kept in the preconscious tier "rather
\* than being discarded", and the others "are logged to SQLite and evicted"
\* (global_workspace.py:7): what was submitted is held or was archived.
NothingVanishes == owed \subseteq Held

\* The only thing that can vanish unlogged is a broadcast that move_spotlight
\* took out of the tiers: deduplication, the two capacities and the archive
\* threshold together lose nothing, in any order of calls.
OnlyMovedFocusVanishes ==
    [][ \A k \in owed' : k \in Tiers => k \in Held' ]_workspaceVars

\* Whatever calls moved the spotlight before, a cycle leaves every tier in
\* order: no key twice, the active tier above the preconscious one, and
\* nothing preconscious while the active tier has room.
CycleRestoresOrder ==
    [][ Cycle =>
          LET s == contents' \o preconscious'
          IN /\ \A m, n \in DOMAIN s : m < n =>
                   /\ s[m].key # s[n].key
                   /\ CurrentSalience(s[m]) >= CurrentSalience(s[n])
             /\ preconscious' # <<>> => Len(contents') = Capacity ]_workspaceVars

\* No attention is stuck: once nobody moves the spotlight any more, every
\* broadcast that is not emotionally intense leaves the tiers, however high it
\* started, even while its source goes on submitting it.
EverythingFades ==
    <>[][\A k \in Keys : ~MoveSpotlight(k)]_workspaceVars =>
        \A k \in Keys :
            [](~ \E n \in DOMAIN Competitors : Competitors[n].key = k /\ Competitors[n].intense)
              => (k \in Tiers) ~> (k \notin Tiers)
=============================================================================
