------------------------ MODULE EvidenceBoard_proofs ------------------------
(***************************************************************************)
(* Proofs about EvidenceBoard, for every number of boards, claims, items   *)
(* and messages.                                                           *)
(***************************************************************************)
EXTENDS EvidenceBoard, TLAPS

\* A message or a call turns a claim record into a claim record.
LEMMA AppliedType ==
    ASSUME NEW rec \in ClaimRecord, NEW type \in MessageType, NEW actor,
           NEW outcome \in Repro, type = "accept" => actor \in Agents
    PROVE  Applied(rec, type, actor, outcome) \in ClaimRecord
  <1>1. CASE type = "strategy_update"
    BY <1>1 DEF Applied
  <1>2. CASE type # "strategy_update"
    <2>1. StatusAfter(type) \in Status
      BY <1>2 DEF StatusAfter, Status, MessageType
    <2>2. QED
      BY <1>2, <2>1 DEF Applied, ClaimRecord
  <1>3. QED
    BY <1>1, <1>2

\* No transition attaches evidence.
LEMMA AppliedRefs ==
    ASSUME NEW rec \in ClaimRecord, NEW type, NEW actor, NEW outcome
    PROVE  Applied(rec, type, actor, outcome).refs = rec.refs
  <1>1. CASE type = "strategy_update"
    BY <1>1 DEF Applied
  <1>2. CASE type # "strategy_update"
    BY <1>2 DEF Applied, ClaimRecord
  <1>3. QED
    BY <1>1, <1>2

\* A transition that is not refused keeps an honestly accepted record honest.
LEMMA AppliedHonest ==
    ASSUME NEW rec \in ClaimRecord, NEW type \in MessageType,
           NEW actor \in Agents, NEW outcome \in Repro,
           HonestlyAccepted(rec), ~Refused(type, actor)
    PROVE  HonestlyAccepted(Applied(rec, type, actor, outcome))
  <1>1. CASE type = "strategy_update"
    BY <1>1 DEF Applied
  <1>2. CASE type = "accept"
    BY <1>2 DEF Applied, HonestlyAccepted, Refused, ClaimRecord
  <1>3. CASE type \notin {"strategy_update", "accept"}
    <2>1. StatusAfter(type) # "accepted"
      BY <1>3 DEF StatusAfter, MessageType
    <2>2. QED
      BY <1>3, <2>1 DEF Applied, HonestlyAccepted, ClaimRecord
  <1>4. QED
    BY <1>1, <1>2, <1>3

LEMMA NewClaimType == NewClaim \in ClaimRecord /\ HonestlyAccepted(NewClaim)
  BY DEF NewClaim, ClaimRecord, Status, Repro, HonestlyAccepted

----------------------------------------------------------------------------
LEMMA BoardTypeInit == Init => TypeOK
  BY MessagesAssumption DEF Init, TypeOK

(* What a step does to the claims of its board and to the journal.         *)

Decided == { "accepted", "rejected", "memory_updated" }

\* new can be a later state of the claim old: nothing is taken back, and only
\* EvidenceAgent's stamp is added.
Follows(old, new) ==
    /\ old.refs \subseteq new.refs
    /\ old.memory_updated => new.memory_updated
    /\ new.accepted_by \in {old.accepted_by, EvidenceAgent}
    /\ new.status = "accepted" =>
          \/ new.accepted_by = EvidenceAgent
          \/ old.status = "accepted" /\ new.accepted_by = old.accepted_by

\* Nothing was decided on the way from old to new.
Undecided(old, new) ==
    /\ new.accepted_by = old.accepted_by
    /\ new.memory_updated = old.memory_updated
    /\ new.status \in Decided => new.status = old.status

\* The claim a message finds: _ensure_claim creates the one that is missing.
Found(b, c) == IF claims[b][c] = NoClaim THEN NewClaim ELSE claims[b][c]

\* One claim of b changes to new; the journal gets it, or the claim it was
\* created as when nothing was decided since, or nothing: because nothing was
\* decided or because the append raised.
Rewrites(b, c, new) ==
    /\ claims' = [claims EXCEPT ![b][c] = new]
    /\ Follows(Found(b, c), new)
    /\ \/ journal' = [journal EXCEPT ![c] = new]
       \/ /\ claims[b][c] = NoClaim /\ Undecided(NewClaim, new)
          /\ journal' = [journal EXCEPT ![c] = NewClaim]
       \/ /\ claims[b][c] # NoClaim /\ Undecided(claims[b][c], new)
          /\ journal' = journal
       \/ FALSE \in AppendOutcomes /\ journal' = journal

Moves(b) ==
    \/ Open(b)
    \/ Close(b)
    \/ UNCHANGED <<open, claims, journal>>
    \/ /\ open[b] /\ open' = open
       /\ \E c \in Claims, new \in ClaimRecord : Rewrites(b, c, new)

LEMMA AppliedFollows ==
    ASSUME NEW rec \in ClaimRecord, NEW type \in MessageType, NEW actor,
           NEW outcome, ~Refused(type, actor)
    PROVE  /\ Follows(rec, Applied(rec, type, actor, outcome))
           /\ type \notin Decisions =>
                 Undecided(rec, Applied(rec, type, actor, outcome))
           /\ Applied(rec, type, actor, outcome).refs = rec.refs
  <1>1. CASE type = "strategy_update"
    BY <1>1 DEF Applied, Follows, Undecided
  <1>2. CASE type = "accept"
    BY <1>2 DEF Applied, Follows, Refused, ClaimRecord, Decisions
  <1>3. CASE type \notin {"strategy_update", "accept"}
    <2>1. /\ StatusAfter(type) # "accepted"
          /\ type \notin Decisions => StatusAfter(type) \notin Decided
      BY <1>3 DEF StatusAfter, MessageType, Decisions, Decided
    <2>2. QED
      BY <1>3, <2>1 DEF Applied, Follows, Undecided, ClaimRecord, Decisions
  <1>4. QED
    BY <1>1, <1>2, <1>3

\* A transition that is not refused, with the append its type asks for.
LEMMA AppliedRewrites ==
    ASSUME TypeOK, NEW b \in Boards, NEW c \in Claims, claims[b][c] # NoClaim,
           NEW type \in MessageType, NEW actor, NEW outcome \in Repro,
           ~Refused(type, actor),
           NEW rec, rec = Applied(claims[b][c], type, actor, outcome),
           claims' = [claims EXCEPT ![b][c] = rec],
           \E ok \in AppendOutcomes : Persist(c, rec, type, ok)
    PROVE  rec \in ClaimRecord /\ Rewrites(b, c, rec)
  <1>1. claims[b][c] \in ClaimRecord /\ Found(b, c) = claims[b][c]
    BY TypeOK DEF TypeOK, Found
  <1>2. rec \in ClaimRecord
    BY <1>1, AppliedType, AgentsAssumption DEF Refused
  <1>3. /\ Follows(claims[b][c], rec)
        /\ type \notin Decisions => Undecided(claims[b][c], rec)
    BY <1>1, AppliedFollows
  <1>4. \/ journal' = [journal EXCEPT ![c] = rec]
        \/ journal' = journal /\ (type \notin Decisions \/ FALSE \in AppendOutcomes)
    BY OutcomesAssumption DEF Persist
  <1>5. QED
    BY <1>1, <1>2, <1>3, <1>4 DEF Rewrites

\* A new claim, appended or not.
LEMMA CreationRewrites ==
    ASSUME NEW b \in Boards, NEW c \in Claims, claims[b][c] = NoClaim,
           claims' = [claims EXCEPT ![b][c] = NewClaim],
           \E ok \in AppendOutcomes :
              journal' = IF ok THEN [journal EXCEPT ![c] = NewClaim] ELSE journal
    PROVE  Rewrites(b, c, NewClaim)
  <1>1. Follows(NewClaim, NewClaim)
    BY DEF Follows, NewClaim
  <1>2. Found(b, c) = NewClaim
    BY DEF Found
  <1>3. \/ journal' = [journal EXCEPT ![c] = NewClaim]
        \/ FALSE \in AppendOutcomes /\ journal' = journal
    BY OutcomesAssumption
  <1>4. QED
    BY <1>1, <1>2, <1>3 DEF Rewrites

LEMMA EvidenceRewrites ==
    ASSUME TypeOK, NEW b \in Boards, NEW c \in Claims, NEW e \in Items,
           AddEvidence(b, c, e), claims[b][c] # NoClaim,
           NEW rec, rec = [claims[b][c] EXCEPT !.refs = @ \cup {e},
                                               !.status = "evidence_requested"]
    PROVE  rec \in ClaimRecord /\ Rewrites(b, c, rec)
  <1>1. claims[b][c] \in ClaimRecord /\ Found(b, c) = claims[b][c]
    BY TypeOK DEF TypeOK, Found
  <1>2. rec \in ClaimRecord
    BY <1>1 DEF ClaimRecord, Status
  <1>3. Follows(claims[b][c], rec) /\ Undecided(claims[b][c], rec)
    BY <1>1 DEF ClaimRecord, Follows, Undecided, Decided
  <1>4. claims' = [claims EXCEPT ![b][c] = rec]
    BY <1>1, TypeOK DEF TypeOK, AddEvidence, ClaimRecord
  <1>5. journal' = journal
    BY DEF AddEvidence
  <1>6. QED
    BY <1>1, <1>2, <1>3, <1>4, <1>5 DEF Rewrites

LEMMA BoardMoves ==
    ASSUME TypeOK, NEW b \in Boards, BoardStep(b)
    PROVE  Moves(b)
  <1> USE AgentsAssumption
  <1>1. ASSUME NEW c \in Claims, CreateClaim(b, c)
        PROVE  Moves(b)
    BY <1>1, CreationRewrites, NewClaimType DEF CreateClaim, Moves
  <1>2. ASSUME NEW c \in Claims, NEW type \in MessageType, NEW sender \in Agents,
               NEW outcome \in Repro, AddMessage(b, c, type, sender, outcome)
        PROVE  Moves(b)
    <2>1. CASE Refused(type, sender)
      BY <1>2, <2>1 DEF AddMessage, Moves
    <2>2. CASE ~Refused(type, sender)
      <3> DEFINE rec == Applied(claims[b][c], type, sender, outcome)
      <3>1. /\ claims[b][c] # NoClaim
            /\ claims' = [claims EXCEPT ![b][c] = rec]
            /\ \E ok \in AppendOutcomes : Persist(c, rec, type, ok)
            /\ open[b] /\ open' = open
        BY <1>2, <2>2 DEF AddMessage
      <3>2. rec = Applied(claims[b][c], type, sender, outcome)
        OBVIOUS
      <3> HIDE DEF rec
      <3>3. rec \in ClaimRecord /\ Rewrites(b, c, rec)
        BY <3>1, <3>2, <2>2, TypeOK, AppliedRewrites
      <3>4. QED
        BY <3>1, <3>3 DEF Moves
    <2>3. QED
      BY <2>1, <2>2
  <1>3. ASSUME NEW c \in Claims, NEW type \in MessageType,
               AddUnknownMessage(b, c, type)
        PROVE  Moves(b)
    <2>1. CASE type = "proposal"
      BY <1>3, <2>1, CreationRewrites, NewClaimType DEF AddUnknownMessage, Moves
    <2>2. CASE type # "proposal"
      BY <1>3, <2>2 DEF AddUnknownMessage, Moves
    <2>3. QED
      BY <2>1, <2>2
  <1>4. ASSUME NEW c \in Claims, NEW type \in Decisions, NEW actor \in Agents,
               Decide(b, c, type, actor)
        PROVE  Moves(b)
    <2> DEFINE rec == Applied(claims[b][c], type, actor, "unattempted")
    <2>1. /\ claims[b][c] # NoClaim
          /\ claims' = [claims EXCEPT ![b][c] = rec]
          /\ \E ok \in AppendOutcomes : Persist(c, rec, type, ok)
          /\ open[b] /\ open' = open /\ ~Refused(type, actor)
      BY <1>4 DEF Decide
    <2>2. rec = Applied(claims[b][c], type, actor, "unattempted")
      OBVIOUS
    <2>3. type \in MessageType /\ "unattempted" \in Repro
      BY DEF Decisions, MessageType, Repro
    <2> HIDE DEF rec
    <2>4. rec \in ClaimRecord /\ Rewrites(b, c, rec)
      BY <2>1, <2>2, <2>3, TypeOK, AppliedRewrites
    <2>5. QED
      BY <2>1, <2>4 DEF Moves
  <1>5. ASSUME NEW c \in Claims, NEW e \in Items, AddEvidence(b, c, e)
        PROVE  Moves(b)
    <2>1. CASE claims[b][c] = NoClaim
      BY <1>5, <2>1 DEF AddEvidence, Moves
    <2>2. CASE claims[b][c] # NoClaim
      <3>1. open[b] /\ open' = open
        BY <1>5 DEF AddEvidence
      <3>2. QED
        BY <1>5, <2>2, <3>1, TypeOK, EvidenceRewrites DEF Moves
    <2>3. QED
      BY <2>1, <2>2
  <1>6. CASE Open(b) \/ Close(b)
    BY <1>6 DEF Moves
  <1>7. QED
    BY <1>1, <1>2, <1>3, <1>4, <1>5, <1>6, BoardStep(b) DEF BoardStep, Repro

\* Moving keeps the types of the claims, in memory and in the file.
LEMMA MovesType ==
    ASSUME TypeOK, NEW b \in Boards, Moves(b)
    PROVE  /\ open' \in [Boards -> BOOLEAN]
           /\ claims' \in [Boards -> [Claims -> ClaimRecord \cup {NoClaim}]]
           /\ journal' \in [Claims -> ClaimRecord \cup {NoClaim}]
  <1>1. CASE Open(b)
    BY <1>1, TypeOK DEF TypeOK, Open, Load
  <1>2. CASE Close(b)
    BY <1>2, TypeOK DEF TypeOK, Close
  <1>3. CASE UNCHANGED <<open, claims, journal>>
    BY <1>3, TypeOK DEF TypeOK
  <1>4. ASSUME NEW c \in Claims, NEW new \in ClaimRecord, Rewrites(b, c, new),
               open' = open
        PROVE  /\ open' \in [Boards -> BOOLEAN]
               /\ claims' \in [Boards -> [Claims -> ClaimRecord \cup {NoClaim}]]
               /\ journal' \in [Claims -> ClaimRecord \cup {NoClaim}]
    <2>1. claims' = [claims EXCEPT ![b][c] = new]
      BY <1>4 DEF Rewrites
    <2>2. \/ journal' = [journal EXCEPT ![c] = new]
          \/ journal' = [journal EXCEPT ![c] = NewClaim]
          \/ journal' = journal
      BY <1>4 DEF Rewrites
    <2>3. QED
      BY <1>4, <2>1, <2>2, NewClaimType, TypeOK DEF TypeOK
  <1>5. QED
    BY <1>1, <1>2, <1>3, <1>4, Moves(b) DEF Moves

LEMMA BoardTypeStep ==
    ASSUME TypeOK, NEW b \in Boards, BoardStep(b)
    PROVE  TypeOK'
  <1>1. /\ open' \in [Boards -> BOOLEAN]
        /\ claims' \in [Boards -> [Claims -> ClaimRecord \cup {NoClaim}]]
        /\ journal' \in [Claims -> ClaimRecord \cup {NoClaim}]
    BY TypeOK, BoardStep(b), BoardMoves, MovesType
  <1>2. messages' \in [Boards -> 0 .. MaxMessages]
    <2>1. \/ messages' = messages
          \/ messages' = [messages EXCEPT ![b] = 0]
          \/ messages' = [messages EXCEPT ![b] = @ + 1] /\ messages[b] < MaxMessages
      BY BoardStep(b) DEF BoardStep, Open, Close, CreateClaim, AddMessage,
         AddUnknownMessage, Decide, AddEvidence
    <2>2. QED
      BY <2>1, TypeOK, MessagesAssumption DEF TypeOK
  <1>3. items' \in [Boards -> SUBSET Items] /\ evidence' \subseteq Items
    <2>1. \/ UNCHANGED <<items, evidence>>
          \/ items' = [items EXCEPT ![b] = evidence] /\ evidence' = evidence
          \/ items' = [items EXCEPT ![b] = {}] /\ evidence' = evidence
          \/ \E e \in Items : /\ items' = [items EXCEPT ![b] = @ \cup {e}]
                               /\ evidence' \in {evidence, evidence \cup {e}}
      BY BoardStep(b) DEF BoardStep, Open, Load, Close, CreateClaim, AddMessage,
         AddUnknownMessage, Decide, AddEvidence
    <2>2. QED
      BY <2>1, TypeOK DEF TypeOK
  <1>4. QED
    BY <1>1, <1>2, <1>3 DEF TypeOK

\* The memories and the journal hold what they are declared to hold.
THEOREM BoardTyping == BoardSpec => []TypeOK
  <1>1. TypeOK /\ [Next]_boardVars => TypeOK'
    <2>1. TypeOK /\ UNCHANGED boardVars => TypeOK'
      BY DEF TypeOK, boardVars
    <2>2. QED
      BY <2>1, BoardTypeStep DEF Next
  <1>2. QED
    BY <1>1, BoardTypeInit, PTL DEF BoardSpec

----------------------------------------------------------------------------
\* OnlyEvidenceAgentAccepts, place by place.
HonestEverywhere ==
    /\ \A b \in Boards, c \in Claims :
          claims[b][c] # NoClaim => HonestlyAccepted(claims[b][c])
    /\ \A c \in Claims : journal[c] # NoClaim => HonestlyAccepted(journal[c])

LEMMA HonestPointwise == OnlyEvidenceAgentAccepts <=> HonestEverywhere
  BY DEF OnlyEvidenceAgentAccepts, Held, HonestEverywhere

LEMMA FollowsHonest ==
    ASSUME NEW old \in ClaimRecord, NEW new \in ClaimRecord,
           HonestlyAccepted(old), Follows(old, new)
    PROVE  HonestlyAccepted(new)
  BY DEF Follows, HonestlyAccepted

LEMMA HonestInit == Init => HonestEverywhere
  BY DEF Init, HonestEverywhere

LEMMA HonestStep ==
    ASSUME TypeOK, HonestEverywhere, NEW b \in Boards, Moves(b)
    PROVE  HonestEverywhere'
  <1>1. CASE Open(b)
    BY <1>1, TypeOK, HonestEverywhere DEF TypeOK, HonestEverywhere, Open, Load
  <1>2. CASE Close(b)
    BY <1>2, TypeOK, HonestEverywhere DEF TypeOK, HonestEverywhere, Close
  <1>3. CASE UNCHANGED <<open, claims, journal>>
    BY <1>3, HonestEverywhere DEF HonestEverywhere
  <1>4. ASSUME NEW c \in Claims, NEW new \in ClaimRecord, Rewrites(b, c, new)
        PROVE  HonestEverywhere'
    <2>1. Found(b, c) \in ClaimRecord /\ HonestlyAccepted(Found(b, c))
      BY NewClaimType, TypeOK, HonestEverywhere DEF Found, TypeOK, HonestEverywhere
    <2>2. HonestlyAccepted(new)
      BY <1>4, <2>1, FollowsHonest DEF Rewrites
    <2>3. /\ claims' = [claims EXCEPT ![b][c] = new]
          /\ \/ journal' = [journal EXCEPT ![c] = new]
             \/ journal' = [journal EXCEPT ![c] = NewClaim]
             \/ journal' = journal
      BY <1>4 DEF Rewrites
    <2>4. QED
      BY <2>2, <2>3, NewClaimType, TypeOK, HonestEverywhere DEF TypeOK, HonestEverywhere
  <1>5. QED
    BY <1>1, <1>2, <1>3, <1>4, Moves(b) DEF Moves

\* The promotion rule: whatever boards share the journal, whatever messages and
\* calls they receive and whichever appends fail, an accepted claim - in a
\* memory or in the file - was accepted by EvidenceAgent.
THEOREM PromotionRule == BoardSpec => []OnlyEvidenceAgentAccepts
  <1>1. TypeOK /\ HonestEverywhere /\ [Next]_boardVars => HonestEverywhere'
    <2>1. HonestEverywhere /\ UNCHANGED boardVars => HonestEverywhere'
      BY DEF HonestEverywhere, boardVars
    <2>2. QED
      BY <2>1, BoardMoves, HonestStep DEF Next
  <1>2. QED
    BY <1>1, HonestInit, BoardTyping, HonestPointwise, PTL DEF BoardSpec

----------------------------------------------------------------------------
\* A claim that refers to items of its board may be written anywhere.
LEMMA RewriteBacked ==
    ASSUME TypeOK, RefsBacked, NEW b \in Boards, NEW c \in Claims,
           NEW rec \in ClaimRecord, rec.refs \subseteq items[b],
           claims' = [claims EXCEPT ![b][c] = rec],
           \/ journal' = [journal EXCEPT ![c] = rec]
           \/ journal' = [journal EXCEPT ![c] = NewClaim]
           \/ journal' = journal,
           UNCHANGED <<items, evidence>>
    PROVE  RefsBacked'
  <1>1. rec.refs \subseteq evidence /\ NewClaim.refs = {}
    BY RefsBacked DEF RefsBacked, NewClaim
  <1>2. \A bb \in Boards, cc \in Claims : claims'[bb][cc] # NoClaim =>
           claims'[bb][cc].refs \subseteq items'[bb]
    BY TypeOK, RefsBacked DEF TypeOK, RefsBacked
  <1>3. \A cc \in Claims : journal'[cc] # NoClaim =>
           journal'[cc].refs \subseteq evidence'
    BY <1>1, TypeOK, RefsBacked DEF TypeOK, RefsBacked
  <1>4. QED
    BY <1>2, <1>3, RefsBacked DEF RefsBacked

LEMMA RefsInit == Init => RefsBacked
  BY DEF Init, RefsBacked

LEMMA RefsStep ==
    ASSUME AppendOutcomes = {TRUE}, TypeOK, RefsBacked,
           NEW d \in Boards, BoardStep(d)
    PROVE  RefsBacked'
  <1> USE AgentsAssumption
  <1>1. ASSUME NEW b \in Boards, Open(b)
        PROVE  RefsBacked'
    BY <1>1, TypeOK, RefsBacked DEF TypeOK, RefsBacked, Open, Load
  <1>2. ASSUME NEW b \in Boards, Close(b)
        PROVE  RefsBacked'
    BY <1>2, TypeOK, RefsBacked DEF TypeOK, RefsBacked, Close
  <1>3. ASSUME NEW b \in Boards, NEW c \in Claims, CreateClaim(b, c)
        PROVE  RefsBacked'
    <2>1. NewClaim.refs = {}
      BY DEF NewClaim
    <2>2. QED
      BY <2>1, RewriteBacked, TypeOK, RefsBacked, <1>3, NewClaimType DEF CreateClaim
  <1>4. ASSUME NEW b \in Boards, NEW c \in Claims, NEW type \in MessageType,
               NEW sender \in Agents, NEW outcome \in Repro,
               AddMessage(b, c, type, sender, outcome)
        PROVE  RefsBacked'
    <2> DEFINE rec == Applied(claims[b][c], type, sender, outcome)
    <2>1. CASE Refused(type, sender)
      BY <2>1, <1>4, TypeOK, RefsBacked DEF TypeOK, RefsBacked, AddMessage
    <2>2. CASE ~Refused(type, sender)
      <3>1. claims[b][c] \in ClaimRecord /\ claims[b][c].refs \subseteq items[b]
        BY <1>4, TypeOK, RefsBacked DEF TypeOK, RefsBacked, AddMessage
      <3>2. rec \in ClaimRecord /\ rec.refs = claims[b][c].refs
        BY <2>2, <3>1, AppliedType, AppliedRefs
      <3>3. claims' = [claims EXCEPT ![b][c] = rec]
        BY <2>2, <1>4 DEF AddMessage
      <3>4. journal' = [journal EXCEPT ![c] = rec] \/ journal' = journal
        BY <2>2, <1>4 DEF AddMessage, Persist
      <3>5. UNCHANGED <<items, evidence>>
        BY <1>4 DEF AddMessage
      <3> HIDE DEF rec
      <3>6. QED
        BY <3>1, <3>2, <3>3, <3>4, <3>5, RewriteBacked, TypeOK, RefsBacked
    <2>3. QED
      BY <2>1, <2>2
  <1>5. ASSUME NEW b \in Boards, NEW c \in Claims, NEW type \in MessageType,
               AddUnknownMessage(b, c, type)
        PROVE  RefsBacked'
    <2>1. CASE type = "proposal"
      <3>1. NewClaim.refs = {}
        BY DEF NewClaim
      <3>2. QED
        BY <2>1, <3>1, RewriteBacked, TypeOK, RefsBacked, <1>5, NewClaimType DEF AddUnknownMessage
    <2>2. CASE type # "proposal"
      BY <2>2, <1>5, TypeOK, RefsBacked DEF TypeOK, RefsBacked, AddUnknownMessage
    <2>3. QED
      BY <2>1, <2>2
  <1>6. ASSUME NEW b \in Boards, NEW c \in Claims, NEW type \in Decisions,
               NEW actor \in Agents, Decide(b, c, type, actor)
        PROVE  RefsBacked'
    <2> DEFINE rec == Applied(claims[b][c], type, actor, "unattempted")
    <2>1. claims[b][c] \in ClaimRecord /\ claims[b][c].refs \subseteq items[b]
      BY <1>6, TypeOK, RefsBacked DEF TypeOK, RefsBacked, Decide
    <2>2. rec \in ClaimRecord /\ rec.refs = claims[b][c].refs
      <3>1. type \in MessageType
        BY DEF Decisions, MessageType
      <3>2. QED
        BY <2>1, <3>1, AppliedType, AppliedRefs DEF Repro
    <2>3. claims' = [claims EXCEPT ![b][c] = rec]
      BY <1>6 DEF Decide
    <2>4. journal' = [journal EXCEPT ![c] = rec] \/ journal' = journal
      BY <1>6 DEF Decide, Persist
    <2>5. UNCHANGED <<items, evidence>>
      BY <1>6 DEF Decide
    <2> HIDE DEF rec
    <2>6. QED
      BY <2>1, <2>2, <2>3, <2>4, <2>5, RewriteBacked, TypeOK, RefsBacked
  <1>7. ASSUME NEW b \in Boards, NEW c \in Claims, NEW e \in Items,
               AddEvidence(b, c, e)
        PROVE  RefsBacked'
    <2>1. /\ items' = [items EXCEPT ![b] = @ \cup {e}]
          /\ evidence' = evidence \cup {e}
          /\ journal' = journal
      BY <1>7, AppendOutcomes = {TRUE} DEF AddEvidence
    <2>2. \A bb \in Boards, cc \in Claims : claims'[bb][cc] # NoClaim =>
             claims'[bb][cc].refs \subseteq items'[bb]
      <3>1. CASE claims[b][c] = NoClaim
        BY <3>1, <2>1, <1>7, TypeOK, RefsBacked DEF TypeOK, RefsBacked, AddEvidence
      <3>2. CASE claims[b][c] # NoClaim
        <4> DEFINE rec == [claims[b][c] EXCEPT
                             !.refs = @ \cup {e},
                             !.status = "evidence_requested"]
        <4>1. claims[b][c] \in ClaimRecord /\ claims[b][c].refs \subseteq items[b]
          BY <3>2, TypeOK, RefsBacked DEF TypeOK, RefsBacked
        <4>2. rec.refs = claims[b][c].refs \cup {e}
          BY <4>1 DEF ClaimRecord
        <4>3. claims' = [claims EXCEPT ![b][c] = rec]
          BY <3>2, <4>1, <1>7, TypeOK, RefsBacked DEF TypeOK, AddEvidence, ClaimRecord
        <4> HIDE DEF rec
        <4>4. QED
          BY <4>1, <4>2, <4>3, <2>1, TypeOK, RefsBacked DEF TypeOK, RefsBacked
      <3>3. QED
        BY <3>1, <3>2
    <2>3. QED
      BY <2>1, <2>2, TypeOK, RefsBacked DEF TypeOK, RefsBacked
  <1>8. QED
    BY <1>1, <1>2, <1>3, <1>4, <1>5, <1>6, <1>7, BoardStep(d) DEF BoardStep, Repro

\* Referential integrity between claims and evidence survives every restart,
\* for any number of boards on one journal, when appends do not fail.
THEOREM ReferentialIntegrity ==
    ASSUME AppendOutcomes = {TRUE}
    PROVE  BoardSpec => []RefsBacked
  <1>1. TypeOK /\ RefsBacked /\ [Next]_boardVars => RefsBacked'
    <2>1. RefsBacked /\ UNCHANGED boardVars => RefsBacked'
      BY DEF RefsBacked, boardVars
    <2>2. QED
      BY <2>1, AppendOutcomes = {TRUE}, RefsStep DEF Next
  <1>2. QED
    BY <1>1, RefsInit, BoardTyping, PTL DEF BoardSpec

----------------------------------------------------------------------------
(* A board that has the journal to itself.                                 *)

Alone == \A a, b \in Boards : a = b

LEMMA DurableInit == Init => DecisionsDurable
  BY DEF Init, DecisionsDurable

\* With appends that do not fail, what a move decides is written in that move.
LEMMA DurableStep ==
    ASSUME Alone, AppendOutcomes = {TRUE}, TypeOK, DecisionsDurable,
           NEW b \in Boards, Moves(b)
    PROVE  DecisionsDurable'
  <1>1. CASE Open(b)
    BY <1>1, Alone, TypeOK DEF Alone, TypeOK, DecisionsDurable, Open, Load
  <1>2. CASE Close(b)
    BY <1>2, Alone, TypeOK DEF Alone, TypeOK, DecisionsDurable, Close
  <1>3. CASE UNCHANGED <<open, claims, journal>>
    BY <1>3, DecisionsDurable DEF DecisionsDurable
  <1>4. ASSUME NEW c \in Claims, NEW new \in ClaimRecord, Rewrites(b, c, new)
        PROVE  DecisionsDurable'
    <2>1. /\ claims' = [claims EXCEPT ![b][c] = new]
          /\ \/ journal' = [journal EXCEPT ![c] = new]
             \/ /\ journal' = [journal EXCEPT ![c] = NewClaim]
                /\ Undecided(NewClaim, new)
             \/ /\ journal' = journal
                /\ claims[b][c] # NoClaim /\ Undecided(claims[b][c], new)
      BY <1>4, AppendOutcomes = {TRUE} DEF Rewrites
    <2>2. NewClaim \in ClaimRecord /\ NewClaim # NoClaim /\ new # NoClaim
      BY NewClaimType, NoClaimAssumption
    <2>3. /\ journal'[c] # NoClaim
          /\ journal'[c].accepted_by = new.accepted_by
          /\ journal'[c].memory_updated = new.memory_updated
          /\ new.status \in Decided => journal'[c].status = new.status
      <3>1. CASE journal' = [journal EXCEPT ![c] = new]
        BY <3>1, <2>2, TypeOK DEF TypeOK
      <3>2. CASE /\ journal' = [journal EXCEPT ![c] = NewClaim]
                 /\ Undecided(NewClaim, new)
        BY <3>2, <2>2, TypeOK DEF TypeOK, Undecided
      <3>3. CASE /\ journal' = journal
                 /\ claims[b][c] # NoClaim /\ Undecided(claims[b][c], new)
        BY <3>3, DecisionsDurable DEF DecisionsDurable, Undecided, Decided
      <3>4. QED
        BY <2>1, <3>1, <3>2, <3>3
    <2>4. \A d \in Claims : d # c => journal'[d] = journal[d]
                                   /\ claims'[b][d] = claims[b][d]
      BY <2>1, TypeOK DEF TypeOK
    <2>5. claims'[b][c] = new
      BY <2>1, TypeOK DEF TypeOK
    <2>6. \A a \in Boards : a = b
      BY Alone DEF Alone
    <2>7. QED
      BY <2>3, <2>4, <2>5, <2>6, DecisionsDurable DEF DecisionsDurable, Decided
  <1>5. QED
    BY <1>1, <1>2, <1>3, <1>4, Moves(b) DEF Moves

\* Nothing of old is missing from new.
Extends(old, new) ==
    /\ old.accepted_by # NoAgent => new.accepted_by = old.accepted_by
    /\ old.memory_updated => new.memory_updated
    /\ old.refs \subseteq new.refs

\* An open board knows whatever the journal has, and may know more: it was
\* loaded from the journal, and what it appends it has in memory.
Reflected ==
    \A b \in Boards, c \in Claims :
       open[b] /\ journal[c] # NoClaim =>
          claims[b][c] # NoClaim /\ Extends(journal[c], claims[b][c])

\* No journalled claim loses anything in this step.
JournalGrows ==
    \A c \in Claims :
       journal[c] # NoClaim =>
          journal'[c] # NoClaim /\ Extends(journal[c], journal'[c])

LEMMA FollowsExtends ==
    ASSUME NEW old, NEW new, HonestlyAccepted(old), Follows(old, new)
    PROVE  Extends(old, new)
  BY DEF HonestlyAccepted, Follows, Extends

LEMMA ExtendsFurther ==
    ASSUME NEW a, NEW b, NEW c, Extends(a, b), Extends(b, c)
    PROVE  Extends(a, c)
  BY DEF Extends

LEMMA ReflectedInit == Init => Reflected
  BY DEF Init, Reflected

\* Holds even when appends fail: a failed append leaves the journal behind the
\* memory, never ahead of it.
LEMMA ReflectedStep ==
    ASSUME Alone, TypeOK, HonestEverywhere, Reflected, NEW b \in Boards, Moves(b)
    PROVE  Reflected' /\ JournalGrows
  <1>0. \A r : Extends(r, r)
    BY DEF Extends
  <1>1. CASE Open(b)
    BY <1>0, <1>1, Alone, TypeOK DEF Alone, TypeOK, Reflected, JournalGrows, Open, Load
  <1>2. CASE Close(b)
    BY <1>0, <1>2, Alone, TypeOK DEF Alone, TypeOK, Reflected, JournalGrows, Close
  <1>3. CASE UNCHANGED <<open, claims, journal>>
    BY <1>0, <1>3, Reflected DEF Reflected, JournalGrows
  <1>4. ASSUME open[b], NEW c \in Claims, NEW new \in ClaimRecord, Rewrites(b, c, new)
        PROVE  Reflected' /\ JournalGrows
    <2>1. /\ claims' = [claims EXCEPT ![b][c] = new]
          /\ \/ journal' = [journal EXCEPT ![c] = new]
             \/ journal' = [journal EXCEPT ![c] = NewClaim] /\ claims[b][c] = NoClaim
             \/ journal' = journal
      BY <1>4 DEF Rewrites
    <2>2. NewClaim # NoClaim /\ new # NoClaim
      BY NewClaimType, NoClaimAssumption
    <2>3. HonestlyAccepted(Found(b, c))
      BY NewClaimType, HonestEverywhere DEF Found, HonestEverywhere
    <2>4. Extends(Found(b, c), new)
      BY <1>4, <2>3, FollowsExtends DEF Rewrites
    <2>5. journal[c] # NoClaim => claims[b][c] # NoClaim /\ Extends(journal[c], new)
      BY <1>4, <2>4, Reflected, ExtendsFurther DEF Reflected, Found
    <2>6. claims[b][c] = NoClaim => Extends(NewClaim, new)
      BY <2>4 DEF Found
    <2>7. journal'[c] # NoClaim => Extends(journal'[c], new)
      BY <1>0, <2>1, <2>5, <2>6, TypeOK DEF TypeOK
    <2>8. journal[c] # NoClaim =>
             journal'[c] # NoClaim /\ Extends(journal[c], journal'[c])
      BY <1>0, <2>1, <2>2, <2>5, TypeOK DEF TypeOK
    <2>9. \A d \in Claims : d # c => journal'[d] = journal[d]
                                   /\ claims'[b][d] = claims[b][d]
      BY <2>1, TypeOK DEF TypeOK
    <2>10. claims'[b][c] = new
      BY <2>1, TypeOK DEF TypeOK
    <2>11. \A a \in Boards : a = b
      BY Alone DEF Alone
    <2>12. Reflected'
      BY <1>4, <2>2, <2>7, <2>9, <2>10, <2>11, Reflected DEF Reflected
    <2>13. JournalGrows
      BY <1>0, <2>8, <2>9 DEF JournalGrows
    <2>14. QED
      BY <2>12, <2>13
  <1>5. QED
    BY <1>1, <1>2, <1>3, <1>4, Moves(b) DEF Moves
============================================================================
