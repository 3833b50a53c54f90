------------------------ MODULE CouncilRunner_proofs ------------------------
(***************************************************************************)
(* Proofs about rounds of the council, for every number of boards, claims, *)
(* items, messages and packets.                                            *)
(*                                                                         *)
(* A turn of an agent is one of the moves of EvidenceBoard_proofs, so what *)
(* is proved of moves holds between rounds and within them.                *)
(***************************************************************************)
EXTENDS CouncilRunner, EvidenceBoard_proofs

RoundRecord == [ step : 0 .. 14, claim : Claims \cup {NoClaim}, ctx : BOOLEAN,
                 packet : Packet \cup {NoPacket} ]

FilesType ==
    /\ opened \in SUBSET Boards
    /\ bundle \in [Claims -> [Files -> Packet \cup {NoPacket}]]
    /\ torn \in [Claims -> SUBSET Files]
    /\ mixed \in [Claims -> SUBSET Files]

\* A round belongs to an open board; from the second agent on its claim is on
\* that board, and there is room for the messages its agents still send.  A board
\* has a file open only while its round writes the bundle.
Underway(b) ==
    /\ round[b].step # 0 =>
          /\ open[b]
          /\ round[b].claim \in Claims
          /\ round[b].step >= 2 => claims[b][round[b].claim] # NoClaim
          /\ round[b].step <= 6 => messages[b] + 7 - round[b].step <= MaxMessages
    /\ b \in opened => round[b].step \in 8 .. 13

\* RoundOutcome, from the turn after EvidenceAgent's on.
Spoken(b) ==
    round[b].step >= 6 =>
       claims[b][round[b].claim].status =
          IF Ready(claims[b][round[b].claim], round[b].ctx)
          THEN "accepted" ELSE "evidence_requested"

CouncilInv ==
    /\ CouncilTypeOK
    /\ \A b \in Boards : Underway(b) /\ Spoken(b)

----------------------------------------------------------------------------
(* The turn of one agent.                                                  *)

LEMMA AgentMessage ==
    ASSUME NEW step \in 1 .. 6, NEW rec, NEW ctx,
           NEW type, type = MessageFrom(CouncilAgents[step], rec, ctx)
    PROVE  /\ type \in MessageType \ {"repro_attempt"}
           /\ ~Refused(type, CouncilAgents[step])
           /\ type \in Decisions => type = "accept" /\ step = 5 /\ Ready(rec, ctx)
           /\ step = 5 => type = IF Ready(rec, ctx) THEN "accept"
                                 ELSE "evidence_request"
           /\ step = 6 => type = "strategy_update"
  <1>1. step \in {1, 2, 3, 4, 5, 6}
    OBVIOUS
  <1>2. CASE step = 5
    <2>1. CouncilAgents[5] = EvidenceAgent
      BY DEF CouncilAgents, EvidenceAgent
    <2>2. QED
      BY <1>2, <2>1 DEF MessageFrom, EvidenceAgent, MessageType, Decisions, Refused
  <1>3. CASE step # 5
    BY <1>1, <1>3 DEF CouncilAgents, MessageFrom, MessageType, Decisions, Refused
  <1>4. QED
    BY <1>2, <1>3

\* What EvidenceAgent's turn leaves, StrategyEvolutionAgent's does not touch.
LEMMA AgentOutcome ==
    ASSUME NEW step \in 1 .. 6, NEW rec \in ClaimRecord, NEW ctx,
           step = 6 => rec.status = IF Ready(rec, ctx) THEN "accepted"
                                    ELSE "evidence_requested",
           NEW type, type = MessageFrom(CouncilAgents[step], rec, ctx),
           NEW after, after = Applied(rec, type, CouncilAgents[step], "attempted")
    PROVE  step \in 5 .. 6 =>
              after.status = IF Ready(after, ctx) THEN "accepted"
                             ELSE "evidence_requested"
  <1>1. CASE step = 5
    <2>1. type \in {"accept", "evidence_request"}
          /\ (type = "accept" <=> Ready(rec, ctx))
      BY <1>1, AgentMessage
    <2>2. /\ after.refs = rec.refs /\ after.repro = rec.repro
          /\ after.status = StatusAfter(type)
      BY <2>1 DEF Applied, ClaimRecord
    <2>3. QED
      BY <2>1, <2>2 DEF Ready, StatusAfter
  <1>2. CASE step = 6
    BY <1>2, AgentMessage DEF Applied
  <1>3. QED
    BY <1>1, <1>2

\* How a turn of b on claim c ends: the creation of the claim raised, the append
\* of a decision raised, or the message was applied and the round goes on.
CreationRaised(b, c) ==
    /\ claims[b][c] = NoClaim
    /\ claims' = [claims EXCEPT ![b][c] = NewClaim]
    /\ round' = [round EXCEPT ![b] = Idle]
    /\ FALSE \in AppendOutcomes
    /\ UNCHANGED <<messages, journal>>

DecisionRaised(b, c, after) ==
    /\ claims[b][c] # NoClaim
    /\ claims' = [claims EXCEPT ![b][c] = after]
    /\ messages' = [messages EXCEPT ![b] = @ + 1]
    /\ round' = [round EXCEPT ![b] = Idle]
    /\ FALSE \in AppendOutcomes
    /\ journal' = journal

MessageApplied(b, c, type, after) ==
    /\ claims' = [claims EXCEPT ![b][c] = after]
    /\ messages' = [messages EXCEPT ![b] = @ + 1]
    /\ round' = [round EXCEPT ![b] = [round[b] EXCEPT !.step = @ + 1]]
    /\ \/ /\ claims[b][c] = NoClaim
          /\ journal' = [journal EXCEPT ![c] = NewClaim]
       \/ /\ claims[b][c] # NoClaim
          /\ journal' = IF type \in Decisions
                        THEN [journal EXCEPT ![c] = after] ELSE journal

LEMMA TurnShape ==
    ASSUME CouncilInv, NEW b \in Boards, AgentTurn(b),
           NEW c, c = round[b].claim,
           NEW rec, rec = Found(b, c),
           NEW type, type = MessageFrom(CouncilAgents[round[b].step], rec, round[b].ctx),
           NEW after, after = Applied(rec, type, CouncilAgents[round[b].step], "attempted")
    PROVE  /\ round[b].step \in 1 .. 6 /\ c \in Claims /\ open[b]
           /\ rec \in ClaimRecord /\ after \in ClaimRecord
           /\ UNCHANGED <<open, items, evidence, packets, fileVars>>
           /\ \/ CreationRaised(b, c)
              \/ DecisionRaised(b, c, after)
              \/ MessageApplied(b, c, type, after)
  <1>1. round[b].step \in 1 .. 6 /\ c \in Claims /\ open[b]
    BY CouncilInv, AgentTurn(b) DEF AgentTurn, CouncilInv, Underway
  <1>2. rec \in ClaimRecord
    BY <1>1, CouncilInv, NewClaimType DEF CouncilInv, CouncilTypeOK, TypeOK, Found
  <1>3. type \in MessageType /\ ~Refused(type, CouncilAgents[round[b].step])
    BY <1>1, AgentMessage
  <1>4. after \in ClaimRecord
    BY <1>2, <1>3, AppliedType, AgentsAssumption DEF Refused, Repro
  <1>5. UNCHANGED <<open, items, evidence, packets, fileVars>>
    BY AgentTurn(b) DEF AgentTurn
  <1>6. PICK ok \in AppendOutcomes :
           IF claims[b][c] = NoClaim /\ ~ok
           THEN /\ claims' = [claims EXCEPT ![b][c] = NewClaim]
                /\ round' = [round EXCEPT ![b] = Idle]
                /\ UNCHANGED <<messages, journal>>
           ELSE /\ claims' = [claims EXCEPT ![b][c] = after]
                /\ messages' = [messages EXCEPT ![b] = @ + 1]
                /\ round' = [round EXCEPT ![b] =
                               IF type \in Decisions /\ ~ok THEN Idle
                               ELSE [round[b] EXCEPT !.step = @ + 1]]
                /\ IF claims[b][c] = NoClaim
                   THEN journal' = [journal EXCEPT ![c] = NewClaim]
                   ELSE Persist(c, after, type, ok)
    BY AgentTurn(b) DEF AgentTurn, Found
  <1>7. claims[b][c] = NoClaim => type \notin Decisions
    <2>1. ~Ready(NewClaim, round[b].ctx)
      BY DEF Ready, NewClaim
    <2>2. QED
      BY <2>1, <1>1, AgentMessage DEF Found
  <1>8. ok \in BOOLEAN
    BY OutcomesAssumption
  <1>9. QED
    BY <1>1, <1>2, <1>4, <1>5, <1>6, <1>7, <1>8
       DEF Persist, CreationRaised, DecisionRaised, MessageApplied

\* A turn is a move of its board.
LEMMA TurnMoves ==
    ASSUME CouncilInv, NEW b \in Boards, AgentTurn(b)
    PROVE  Moves(b)
  <1> DEFINE c     == round[b].claim
             rec   == Found(b, c)
             type  == MessageFrom(CouncilAgents[round[b].step], rec, round[b].ctx)
             after == Applied(rec, type, CouncilAgents[round[b].step], "attempted")
  <1>0. /\ c = round[b].claim /\ rec = Found(b, c)
        /\ type = MessageFrom(CouncilAgents[round[b].step], rec, round[b].ctx)
        /\ after = Applied(rec, type, CouncilAgents[round[b].step], "attempted")
    OBVIOUS
  <1>1. /\ round[b].step \in 1 .. 6 /\ c \in Claims /\ open[b]
        /\ rec \in ClaimRecord /\ after \in ClaimRecord
        /\ UNCHANGED <<open, items, evidence, packets, fileVars>>
        /\ \/ CreationRaised(b, c)
           \/ DecisionRaised(b, c, after)
           \/ MessageApplied(b, c, type, after)
    <2> HIDE DEF after, type, rec, c
    <2>1. QED
      BY <1>0, CouncilInv, AgentTurn(b), TurnShape
  <1>2. type \in MessageType /\ ~Refused(type, CouncilAgents[round[b].step])
    BY <1>1, AgentMessage
  <1>3. /\ Follows(rec, after)
        /\ type \notin Decisions => Undecided(rec, after)
    BY <1>1, <1>2, AppliedFollows
  <1>4. claims[b][c] = NoClaim => type \notin Decisions
    <2>1. ~Ready(NewClaim, round[b].ctx)
      BY DEF Ready, NewClaim
    <2>2. QED
      BY <2>1, <1>1, AgentMessage DEF Found
  <1> HIDE DEF after, type, rec, c
  <1>5. \/ /\ claims[b][c] = NoClaim
           /\ claims' = [claims EXCEPT ![b][c] = NewClaim]
           /\ FALSE \in AppendOutcomes /\ journal' = journal
        \/ /\ claims' = [claims EXCEPT ![b][c] = after]
           /\ \/ FALSE \in AppendOutcomes /\ journal' = journal
              \/ /\ claims[b][c] = NoClaim
                 /\ journal' = [journal EXCEPT ![c] = NewClaim]
              \/ /\ claims[b][c] # NoClaim
                 /\ journal' = IF type \in Decisions
                               THEN [journal EXCEPT ![c] = after] ELSE journal
    BY <1>1 DEF CreationRaised, DecisionRaised, MessageApplied
  <1>6. /\ claims[b][c] = NoClaim => rec = NewClaim
        /\ claims[b][c] # NoClaim => rec = claims[b][c]
    BY <1>0 DEF Found
  <1>7. Follows(NewClaim, NewClaim)
    BY DEF Follows, NewClaim
  <1>9. Rewrites(b, c, NewClaim) \/ Rewrites(b, c, after)
    BY <1>0, <1>3, <1>4, <1>5, <1>6, <1>7 DEF Rewrites
  <1>10. QED
    BY <1>1, <1>9, NewClaimType DEF Moves

\* The other boards are left alone by a move.
LEMMA MovesOwn ==
    ASSUME TypeOK, NEW b \in Boards, Moves(b), NEW d \in Boards, d # b
    PROVE  claims'[d] = claims[d] /\ open'[d] = open[d]
  BY TypeOK, Moves(b) DEF TypeOK, Moves, Open, Load, Close, Rewrites

----------------------------------------------------------------------------
(* CouncilInv is inductive.                                                *)

LEMMA IdleRound == Idle \in RoundRecord /\ Idle.step = 0 /\ Idle.packet = NoPacket
  BY DEF Idle, RoundRecord

LEMMA CouncilTypeParts ==
    CouncilTypeOK <=> /\ TypeOK
                      /\ round \in [Boards -> RoundRecord]
                      /\ packets \in 0 .. MaxPackets
                      /\ FilesType
  BY DEF CouncilTypeOK, RoundRecord, FilesType

LEMMA CouncilStarts == CouncilInit => CouncilInv
  BY BoardTypeInit, IdleRound, PacketsAssumption, CouncilTypeParts
     DEF CouncilInit, CouncilInv, Underway, Spoken, FilesType

LEMMA StartRoundKeeps ==
    ASSUME CouncilInv, NEW b \in Boards, NEW c \in Claims, NEW ctx \in BOOLEAN,
           StartRound(b, c, ctx)
    PROVE  CouncilInv'
  <1> DEFINE new == [step |-> 1, claim |-> c, ctx |-> ctx, packet |-> NoPacket]
  <1>1. /\ new \in RoundRecord /\ new.step = 1 /\ new.claim = c
        /\ round' = [round EXCEPT ![b] = new]
        /\ UNCHANGED <<boardVars, packets, fileVars>>
        /\ open[b] /\ messages[b] + 6 <= MaxMessages /\ b \notin opened
    BY StartRound(b, c, ctx), CouncilInv DEF StartRound, RoundRecord, CouncilInv, Underway
  <1> HIDE DEF new
  <1>2. round' \in [Boards -> RoundRecord]
    BY <1>1, CouncilInv, CouncilTypeParts DEF CouncilInv
  <1>3. CouncilTypeOK'
    BY <1>1, <1>2, CouncilInv, CouncilTypeParts DEF CouncilInv, CouncilTypeOK, TypeOK,
       boardVars, fileVars, RoundRecord
  <1>4. ASSUME NEW d \in Boards PROVE (Underway(d) /\ Spoken(d))'
    <2>1. CASE d = b
      <3>1. /\ round'[b] = new /\ messages'[b] + 6 <= MaxMessages /\ open'[b]
            /\ b \notin opened'
        BY <1>1, CouncilInv, CouncilTypeParts DEF CouncilInv, boardVars, fileVars
      <3>2. messages'[b] \in Nat
        BY <1>3, MessagesAssumption DEF CouncilTypeOK, TypeOK
      <3>3. QED
        BY <2>1, <3>1, <3>2, <1>1, MessagesAssumption DEF Underway, Spoken
    <2>2. CASE d # b
      <3>1. round'[d] = round[d]
        BY <2>2, <1>1, CouncilInv, CouncilTypeParts DEF CouncilInv
      <3>2. QED
        BY <3>1, <1>1, CouncilInv DEF CouncilInv, Underway, Spoken, boardVars, fileVars
    <2>3. QED
      BY <2>1, <2>2
  <1>5. QED
    BY <1>3, <1>4 DEF CouncilInv

LEMMA TurnKeeps ==
    ASSUME CouncilInv, NEW b \in Boards, AgentTurn(b)
    PROVE  CouncilInv'
  <1> DEFINE c     == round[b].claim
             step  == round[b].step
             rec   == Found(b, c)
             type  == MessageFrom(CouncilAgents[step], rec, round[b].ctx)
             after == Applied(rec, type, CouncilAgents[step], "attempted")
  <1>0. /\ step = round[b].step
        /\ c = round[b].claim /\ rec = Found(b, c)
        /\ type = MessageFrom(CouncilAgents[step], rec, round[b].ctx)
        /\ after = Applied(rec, type, CouncilAgents[step], "attempted")
    OBVIOUS
  <1>1. /\ step \in 1 .. 6 /\ c \in Claims /\ open[b]
        /\ rec \in ClaimRecord /\ after \in ClaimRecord
        /\ UNCHANGED <<open, items, evidence, packets, fileVars>>
        /\ \/ CreationRaised(b, c)
           \/ DecisionRaised(b, c, after)
           \/ MessageApplied(b, c, type, after)
    <2> HIDE DEF after, type, rec, c, step
    <2>1. QED
      BY <1>0, CouncilInv, AgentTurn(b), TurnShape
  <1>1a. \/ /\ round' = [round EXCEPT ![b] = Idle]
            /\ \/ messages' = messages
               \/ messages' = [messages EXCEPT ![b] = @ + 1]
         \/ /\ claims' = [claims EXCEPT ![b][c] = after]
            /\ messages' = [messages EXCEPT ![b] = @ + 1]
            /\ round' = [round EXCEPT ![b] = [round[b] EXCEPT !.step = @ + 1]]
    <2> HIDE DEF after, type, rec, c
    <2>1. QED
      BY <1>1 DEF CreationRaised, DecisionRaised, MessageApplied
  <1>2. step \in 5 .. 6 => after.status = IF Ready(after, round[b].ctx)
                                          THEN "accepted" ELSE "evidence_requested"
    <2>1. step = 6 => rec.status = IF Ready(rec, round[b].ctx) THEN "accepted"
                                   ELSE "evidence_requested"
      BY <1>1, CouncilInv DEF CouncilInv, Spoken, Underway, Found
    <2>2. QED
      BY <1>1, <2>1, AgentOutcome
  <1>3. messages[b] + 7 - step <= MaxMessages /\ messages[b] \in Nat
    BY <1>1, CouncilInv, MessagesAssumption DEF CouncilInv, Underway, CouncilTypeOK, TypeOK
  <1> HIDE DEF after, type, rec
  <1>4. messages' \in [Boards -> 0 .. MaxMessages]
    <2>1. messages[b] + 1 \in 0 .. MaxMessages
      BY <1>1, <1>3, MessagesAssumption
    <2>2. messages \in [Boards -> 0 .. MaxMessages]
      BY CouncilInv DEF CouncilInv, CouncilTypeOK, TypeOK
    <2>3. QED
      BY <1>1a, <2>1, <2>2
  <1>5. TypeOK'
    <2>1. /\ claims' \in [Boards -> [Claims -> ClaimRecord \cup {NoClaim}]]
          /\ journal' \in [Claims -> ClaimRecord \cup {NoClaim}]
      BY CouncilInv, AgentTurn(b), TurnMoves, MovesType DEF CouncilInv, CouncilTypeOK
    <2>2. QED
      BY <1>1, <1>4, <2>1, CouncilInv DEF CouncilInv, CouncilTypeOK, TypeOK
  <1> DEFINE next == [round[b] EXCEPT !.step = @ + 1]
  <1>6. /\ next \in RoundRecord /\ next.step = step + 1 /\ next.claim = c
        /\ next.ctx = round[b].ctx
    <2>1. round[b] \in RoundRecord
      BY CouncilInv, CouncilTypeParts DEF CouncilInv
    <2>2. QED
      BY <1>1, <2>1 DEF RoundRecord
  <1> HIDE DEF next
  <1>7. \E new \in {Idle, next} : round' = [round EXCEPT ![b] = new]
    BY <1>1a DEF next
  <1>8. round' \in [Boards -> RoundRecord]
    BY <1>6, <1>7, IdleRound, CouncilInv, CouncilTypeParts DEF CouncilInv
  <1>9. CouncilTypeOK'
    BY <1>1, <1>5, <1>8, CouncilInv, CouncilTypeParts DEF CouncilInv, CouncilTypeOK,
       RoundRecord, fileVars
  <1>10. ASSUME NEW d \in Boards PROVE (Underway(d) /\ Spoken(d))'
    <2>0. /\ round \in [Boards -> RoundRecord]
          /\ opened' = opened /\ b \notin opened
      BY <1>1, CouncilInv, CouncilTypeParts DEF CouncilInv, Underway, fileVars
    <2>1. CASE d = b /\ round' = [round EXCEPT ![b] = Idle]
      BY <2>0, <2>1, IdleRound DEF Underway, Spoken
    <2>2. CASE d = b /\ round' # [round EXCEPT ![b] = Idle]
      <3>1. /\ round'[b] = next
            /\ claims' = [claims EXCEPT ![b][c] = after]
            /\ messages' = [messages EXCEPT ![b] = @ + 1]
        BY <1>1a, <2>2, <2>0 DEF next
      <3>2. /\ claims'[b][c] = after /\ after # NoClaim
            /\ messages'[b] = messages[b] + 1 /\ open'[b]
        BY <3>1, <1>1, CouncilInv, NoClaimAssumption
           DEF CouncilInv, CouncilTypeOK, TypeOK
      <3>3. Underway(b)'
        BY <2>0, <3>1, <3>2, <1>1, <1>3, <1>6, MessagesAssumption DEF Underway
      <3>4. Spoken(b)'
        BY <3>1, <3>2, <1>1, <1>2, <1>6 DEF Spoken
      <3>5. QED
        BY <2>2, <3>3, <3>4
    <2>3. CASE d # b
      <3>1. claims'[d] = claims[d] /\ open'[d] = open[d]
        BY <2>3, CouncilInv, AgentTurn(b), TurnMoves, MovesOwn
           DEF CouncilInv, CouncilTypeOK
      <3>2. round'[d] = round[d]
        BY <1>7, <2>0, <2>3
      <3>3. messages'[d] = messages[d]
        BY <1>1a, <2>3, CouncilInv DEF CouncilInv, CouncilTypeOK, TypeOK
      <3>4. QED
        BY <2>0, <3>1, <3>2, <3>3, CouncilInv DEF CouncilInv, Underway, Spoken
    <2>4. QED
      BY <2>1, <2>2, <2>3
  <1>11. QED
    BY <1>9, <1>10 DEF CouncilInv

\* Steps that leave the board alone and take b to the round record new.
LEMMA RoundMovesOn ==
    ASSUME CouncilInv, NEW b \in Boards, NEW new \in RoundRecord,
           UNCHANGED boardVars, round' = [round EXCEPT ![b] = new],
           \/ new.step = 0
           \/ /\ round[b].step >= 7 /\ new.step >= 7
              /\ new.claim = round[b].claim /\ new.ctx = round[b].ctx,
           FilesType', opened' \ {b} = opened \ {b},
           b \in opened' => new.step \in 8 .. 13,
           packets' \in 0 .. MaxPackets
    PROVE  CouncilInv'
  <1>1. round \in [Boards -> RoundRecord]
    BY CouncilInv, CouncilTypeParts DEF CouncilInv
  <1>2. round' \in [Boards -> RoundRecord]
    BY <1>1
  <1>3. CouncilTypeOK'
    BY <1>2, CouncilInv
       DEF CouncilInv, CouncilTypeOK, TypeOK, boardVars, RoundRecord, FilesType
  <1>4. ASSUME NEW d \in Boards PROVE (Underway(d) /\ Spoken(d))'
    <2>1. CASE d = b
      <3>1. round'[b] = new /\ round[b].step \in Nat /\ new.step \in Nat
        BY <1>1 DEF RoundRecord
      <3>2. QED
        BY <2>1, <3>1, CouncilInv DEF CouncilInv, Underway, Spoken, boardVars
    <2>2. CASE d # b
      <3>1. round'[d] = round[d] /\ (d \in opened' <=> d \in opened)
        BY <1>1, <2>2
      <3>2. UNCHANGED <<open, claims, messages>> /\ Underway(d) /\ Spoken(d)
        BY CouncilInv DEF CouncilInv, boardVars
      <3>3. QED
        BY <3>1, <3>2 DEF Underway, Spoken
    <2>3. QED
      BY <2>1, <2>2
  <1>5. QED
    BY <1>3, <1>4 DEF CouncilInv

\* The packet a board builds.
PacketOf(b) == [ id     |-> packets + 1,
                 refs   |-> claims[b][round[b].claim].refs,
                 status |-> PacketStatus(claims[b][round[b].claim]) ]

LEMMA PacketOfType ==
    ASSUME CouncilInv, NEW b \in Boards, round[b].step >= 2, packets < MaxPackets
    PROVE  PacketOf(b) \in Packet
  <1>1. claims[b][round[b].claim] \in ClaimRecord
    <2>1. round[b].step # 0
      BY round[b].step >= 2
    <2>2. QED
      BY <2>1, CouncilInv DEF CouncilInv, CouncilTypeOK, TypeOK, Underway
  <1>2. PacketStatus(claims[b][round[b].claim]) \in PacketStatuses
    BY DEF PacketStatus, PacketStatuses
  <1>3. packets + 1 \in 1 .. MaxPackets
    BY CouncilInv, PacketsAssumption DEF CouncilInv, CouncilTypeOK
  <1>4. QED
    BY <1>1, <1>2, <1>3 DEF PacketOf, Packet, ClaimRecord

\* The round once the packet is built.
LEMMA Packed ==
    ASSUME CouncilInv, NEW b \in Boards, NEW outputDir \in BOOLEAN,
           BuildPacket(b, outputDir)
    PROVE  \E new \in RoundRecord :
              /\ round' = [round EXCEPT ![b] = new]
              /\ new.step = IF outputDir THEN 8 ELSE 14
              /\ new.claim = round[b].claim /\ new.ctx = round[b].ctx
              /\ new.packet = PacketOf(b) /\ PacketOf(b) \in Packet
  <1> DEFINE k == IF outputDir THEN 8 ELSE 14
             packet == PacketOf(b)
             new == [round[b] EXCEPT !.step = k, !.packet = packet]
  <1>1. packet \in Packet
    BY BuildPacket(b, outputDir), CouncilInv, PacketOfType DEF BuildPacket
  <1>2. round' = [round EXCEPT ![b] = new]
    BY BuildPacket(b, outputDir) DEF BuildPacket, PacketOf
  <1>3. round[b] \in RoundRecord /\ k \in 0 .. 14
    BY CouncilInv, CouncilTypeParts DEF CouncilInv
  <1> HIDE DEF k, packet
  <1>4. /\ new \in RoundRecord /\ new.step = k /\ new.packet = packet
        /\ new.claim = round[b].claim /\ new.ctx = round[b].ctx
    BY <1>1, <1>3 DEF RoundRecord
  <1> HIDE DEF new
  <1>5. QED
    BY <1>1, <1>2, <1>4 DEF k, packet

LEMMA BuildPacketKeeps ==
    ASSUME CouncilInv, NEW b \in Boards, NEW outputDir \in BOOLEAN,
           BuildPacket(b, outputDir)
    PROVE  CouncilInv'
  <1>1. /\ packets' = packets + 1 /\ packets < MaxPackets
        /\ round[b].step = 7 /\ UNCHANGED <<boardVars, fileVars>>
    BY BuildPacket(b, outputDir) DEF BuildPacket
  <1>2. PICK new \in RoundRecord :
              /\ round' = [round EXCEPT ![b] = new]
              /\ new.step \in {8, 14}
              /\ new.claim = round[b].claim /\ new.ctx = round[b].ctx
    BY BuildPacket(b, outputDir), CouncilInv, Packed
  <1>3. packets' \in 0 .. MaxPackets
    BY <1>1, CouncilInv, PacketsAssumption DEF CouncilInv, CouncilTypeOK
  <1>4. FilesType' /\ opened' = opened /\ b \notin opened
    BY <1>1, CouncilInv, CouncilTypeParts DEF CouncilInv, Underway, FilesType, fileVars
  <1>5. round[b].step >= 7 /\ new.step >= 7 /\ UNCHANGED boardVars
    BY <1>1, <1>2
  <1>6. QED
    BY <1>2, <1>3, <1>4, <1>5, CouncilInv, RoundMovesOn

\* A round that has a file to write.
LEMMA FileDue ==
    ASSUME CouncilInv, NEW b \in Boards, round[b].step \in 8 .. 13
    PROVE  /\ round[b].claim \in Claims
           /\ Due(b) = FileOrder[round[b].step - 7] /\ Due(b) \in Files
  <1>1. round[b].claim \in Claims
    BY CouncilInv DEF CouncilInv, Underway
  <1>2. round[b].step - 7 \in {1, 2, 3, 4, 5, 6}
    OBVIOUS
  <1>3. QED
    BY <1>1, <1>2 DEF Due, FileOrder, Files

\* What opening the file due in this step does.
LEMMA FileOpened ==
    ASSUME CouncilInv, NEW b \in Boards, OpenFile(b)
    PROVE  /\ round[b].step \in 8 .. 13 /\ round[b].claim \in Claims
           /\ Due(b) \in Files /\ b \notin opened
           /\ opened' = opened \cup {b}
           /\ bundle' = [bundle EXCEPT ![round[b].claim][Due(b)] = round[b].packet]
           /\ torn' = [torn EXCEPT ![round[b].claim] = @ \cup {Due(b)}]
           /\ \/ mixed' = [mixed EXCEPT ![round[b].claim] = @ \ {Due(b)}]
              \/ /\ \E d \in opened : d # b
                 /\ mixed' = [mixed EXCEPT ![round[b].claim] = @ \cup {Due(b)}]
           /\ UNCHANGED <<boardVars, round, packets>>
  <1>1. round[b].step \in 8 .. 13
    BY OpenFile(b) DEF OpenFile
  <1>2. round[b].claim \in Claims /\ Due(b) \in Files
    BY <1>1, CouncilInv, FileDue
  <1>3. Inside(round[b].claim, Due(b)) # {} => \E d \in opened : d # b
    BY OpenFile(b) DEF OpenFile, Inside
  <1>4. QED
    BY <1>1, <1>2, <1>3, OpenFile(b) DEF OpenFile

LEMMA OpenFileKeeps ==
    ASSUME CouncilInv, NEW b \in Boards, OpenFile(b)
    PROVE  CouncilInv'
  <1> DEFINE c == round[b].claim
             f == Due(b)
  <1>1. /\ round[b].step \in 8 .. 13 /\ c \in Claims /\ f \in Files
        /\ opened' = opened \cup {b}
        /\ bundle' = [bundle EXCEPT ![c][f] = round[b].packet]
        /\ torn' = [torn EXCEPT ![c] = @ \cup {f}]
        /\ \/ mixed' = [mixed EXCEPT ![c] = @ \ {f}]
           \/ mixed' = [mixed EXCEPT ![c] = @ \cup {f}]
        /\ UNCHANGED <<boardVars, round, packets>>
    BY CouncilInv, OpenFile(b), FileOpened
  <1>2. FilesType /\ round \in [Boards -> RoundRecord]
    BY CouncilInv, CouncilTypeParts DEF CouncilInv
  <1> HIDE DEF c, f
  <1>3. bundle' \in [Claims -> [Files -> Packet \cup {NoPacket}]]
    <2> DEFINE P == Packet \cup {NoPacket}
    <2>1. round[b].packet \in P
      BY <1>2 DEF RoundRecord
    <2>2. bundle \in [Claims -> [Files -> P]]
      BY <1>2 DEF FilesType
    <2> HIDE DEF P
    <2>3. bundle' \in [Claims -> [Files -> P]]
      BY <1>1, <2>1, <2>2
    <2>4. QED
      BY <2>3 DEF P
  <1>4. FilesType'
    <2>1. torn' \in [Claims -> SUBSET Files]
      BY <1>1, <1>2 DEF FilesType
    <2>2. mixed' \in [Claims -> SUBSET Files]
      BY <1>1, <1>2 DEF FilesType
    <2>3. QED
      BY <1>1, <1>2, <1>3, <2>1, <2>2 DEF FilesType
  <1>5. CouncilTypeOK'
    BY <1>1, <1>2, <1>4, CouncilInv
       DEF CouncilInv, CouncilTypeOK, TypeOK, boardVars, RoundRecord, FilesType
  <1>6. ASSUME NEW d \in Boards PROVE (Underway(d) /\ Spoken(d))'
    BY <1>1, CouncilInv DEF CouncilInv, Underway, Spoken, boardVars
  <1>7. QED
    BY <1>5, <1>6 DEF CouncilInv

\* What writing it does.
LEMMA FileWritten ==
    ASSUME CouncilInv, NEW b \in Boards, WriteFile(b)
    PROVE  /\ round[b].step \in 8 .. 13 /\ round[b].claim \in Claims
           /\ Due(b) \in Files /\ b \in opened
           /\ opened' = opened \ {b}
           /\ torn' = [torn EXCEPT ![round[b].claim] = @ \ {Due(b)}]
           /\ \E new \in RoundRecord :
                 /\ round' = [round EXCEPT ![b] = new]
                 /\ new.step = round[b].step + 1 /\ new.packet = round[b].packet
                 /\ new.claim = round[b].claim /\ new.ctx = round[b].ctx
           /\ UNCHANGED <<boardVars, packets, bundle, mixed>>
  <1>1. round[b].step \in 8 .. 13
    BY CouncilInv, WriteFile(b) DEF WriteFile, CouncilInv, Underway
  <1>2. round[b].claim \in Claims /\ Due(b) \in Files
    BY <1>1, CouncilInv, FileDue
  <1> DEFINE new == [round[b] EXCEPT !.step = @ + 1]
  <1>3. round' = [round EXCEPT ![b] = new]
    BY WriteFile(b) DEF WriteFile
  <1>4. /\ new \in RoundRecord /\ new.step = round[b].step + 1
        /\ new.packet = round[b].packet
        /\ new.claim = round[b].claim /\ new.ctx = round[b].ctx
    <2>1. round[b] \in RoundRecord
      BY CouncilInv, CouncilTypeParts DEF CouncilInv
    <2>2. QED
      BY <1>1, <2>1 DEF RoundRecord
  <1> HIDE DEF new
  <1>5. QED
    BY <1>1, <1>2, <1>3, <1>4, WriteFile(b) DEF WriteFile

LEMMA WriteFileKeeps ==
    ASSUME CouncilInv, NEW b \in Boards, WriteFile(b)
    PROVE  CouncilInv'
  <1>1. /\ round[b].step \in 8 .. 13 /\ round[b].claim \in Claims
        /\ opened' = opened \ {b}
        /\ torn' = [torn EXCEPT ![round[b].claim] = @ \ {Due(b)}]
        /\ UNCHANGED <<boardVars, packets, bundle, mixed>>
    BY WriteFile(b), CouncilInv, FileWritten
  <1>2. PICK new \in RoundRecord :
              /\ round' = [round EXCEPT ![b] = new]
              /\ new.step = round[b].step + 1
              /\ new.claim = round[b].claim /\ new.ctx = round[b].ctx
    BY WriteFile(b), CouncilInv, FileWritten
  <1>3. FilesType'
    BY <1>1, CouncilInv, CouncilTypeParts DEF CouncilInv, FilesType
  <1>4. packets' \in 0 .. MaxPackets
    BY <1>1, CouncilInv DEF CouncilInv, CouncilTypeOK
  <1>5. /\ round[b].step >= 7 /\ new.step >= 7 /\ UNCHANGED boardVars
        /\ opened' \ {b} = opened \ {b} /\ b \notin opened'
    BY <1>1, <1>2
  <1>6. QED
    BY <1>2, <1>3, <1>4, <1>5, CouncilInv, RoundMovesOn

\* The round is over, the board stays.
LEMMA ReturnKeeps ==
    ASSUME CouncilInv, NEW b \in Boards, Return(b)
    PROVE  CouncilInv'
  <1>1. /\ UNCHANGED <<boardVars, packets, bundle, torn, mixed>>
        /\ round' = [round EXCEPT ![b] = Idle] /\ opened' = opened \ {b}
    BY Return(b) DEF Return
  <1>2. FilesType' /\ packets' \in 0 .. MaxPackets
    BY <1>1, CouncilInv, CouncilTypeParts DEF CouncilInv, FilesType
  <1>3. UNCHANGED boardVars /\ opened' \ {b} = opened \ {b} /\ b \notin opened'
    BY <1>1
  <1>4. QED
    BY <1>1, <1>2, <1>3, IdleRound, CouncilInv, RoundMovesOn

\* The board itself moves while it is in no round, or ends its round by it.
LEMMA BoardKeeps ==
    ASSUME CouncilInv, NEW b \in Boards, BoardStep(b),
           \/ round[b].step = 0 /\ round' = round
           \/ round' = [round EXCEPT ![b] = Idle],
           UNCHANGED <<packets, bundle, torn, mixed>>,
           opened' \in {opened, opened \ {b}}, b \notin opened'
    PROVE  CouncilInv'
  <1>0. round \in [Boards -> RoundRecord] /\ FilesType
    BY CouncilInv, CouncilTypeParts DEF CouncilInv
  <1>1. TypeOK /\ Moves(b)
    BY CouncilInv, BoardStep(b), BoardMoves DEF CouncilInv, CouncilTypeOK
  <1>2. TypeOK'
    BY <1>1, BoardStep(b), BoardTypeStep
  <1>3. round' \in [Boards -> RoundRecord]
    BY <1>0, IdleRound
  <1>4. CouncilTypeOK'
    <2>1. FilesType'
      BY <1>0 DEF FilesType
    <2>2. QED
      BY <1>2, <1>3, <2>1, CouncilInv DEF CouncilInv, CouncilTypeOK, RoundRecord, FilesType
  <1>5. ASSUME NEW d \in Boards PROVE (Underway(d) /\ Spoken(d))'
    <2>1. CASE d = b
      <3>1. round'[b].step = 0
        BY <1>0, IdleRound
      <3>2. QED
        BY <2>1, <3>1 DEF Underway, Spoken
    <2>2. CASE d # b
      <3>1. claims'[d] = claims[d] /\ open'[d] = open[d]
        BY <1>1, <2>2, MovesOwn
      <3>2. messages'[d] = messages[d]
        BY <2>2, BoardStep(b), <1>1 DEF TypeOK, BoardStep, Open, Close, CreateClaim,
           AddMessage, AddUnknownMessage, Decide, AddEvidence
      <3>3. round'[d] = round[d]
        BY <1>0, <2>2
      <3>4. QED
        BY <3>1, <3>2, <3>3, CouncilInv DEF CouncilInv, Underway, Spoken
    <2>3. QED
      BY <2>1, <2>2
  <1>6. QED
    BY <1>4, <1>5 DEF CouncilInv

LEMMA CouncilKeeps ==
    ASSUME CouncilInv, [CouncilNext]_vars
    PROVE  CouncilInv'
  <1>1. ASSUME NEW b \in Boards, CrashInRound(b) PROVE CouncilInv'
    BY <1>1, CouncilInv, BoardKeeps DEF CrashInRound, BoardStep
  <1>2. ASSUME NEW b \in Boards, BetweenRounds(b) PROVE CouncilInv'
    <2>1. b \notin opened
      BY <1>2, CouncilInv DEF BetweenRounds, CouncilInv, Underway
    <2>2. QED
      BY <1>2, <2>1, CouncilInv, BoardKeeps DEF BetweenRounds, councilVars, fileVars
  <1>3. CASE UNCHANGED vars
    BY <1>3, CouncilInv DEF CouncilInv, CouncilTypeOK, TypeOK, Underway, Spoken,
       vars, boardVars, councilVars, fileVars
  <1>4. QED
    BY <1>1, <1>2, <1>3, [CouncilNext]_vars, CouncilInv, StartRoundKeeps, TurnKeeps,
       BuildPacketKeeps, OpenFileKeeps, WriteFileKeeps, ReturnKeeps
       DEF CouncilNext, CouncilStep

\* The boards, the rounds on them and the bundles keep their types.
THEOREM CouncilTyping == CouncilSpec => []CouncilTypeOK
  <1>1. CouncilInv => CouncilTypeOK
    BY DEF CouncilInv
  <1>2. QED
    BY <1>1, CouncilStarts, CouncilKeeps, PTL DEF CouncilSpec

\* For any number of boards, whatever happened to the claim before the round and
\* whichever appends fail in it: once the agents have spoken the claim is
\* accepted exactly when EvidenceAgent could accept it.
THEOREM OutcomeOfARound == CouncilSpec => []RoundOutcome
  <1>1. CouncilInv => RoundOutcome
    BY DEF CouncilInv, CouncilTypeOK, Underway, Spoken, RoundOutcome
  <1>2. QED
    BY <1>1, CouncilStarts, CouncilKeeps, PTL DEF CouncilSpec

----------------------------------------------------------------------------
(* What holds of moves holds of the council.                               *)

LEMMA CouncilMoves ==
    ASSUME CouncilInv, [CouncilNext]_vars
    PROVE  (\E b \in Boards : Moves(b)) \/ UNCHANGED <<open, claims, journal>>
  <1>1. ASSUME NEW b \in Boards, BoardStep(b)
        PROVE  Moves(b)
    BY <1>1, CouncilInv, BoardMoves DEF CouncilInv, CouncilTypeOK
  <1>2. ASSUME NEW b \in Boards, AgentTurn(b)
        PROVE  Moves(b)
    BY <1>2, CouncilInv, TurnMoves
  <1>3. QED
    BY <1>1, <1>2, [CouncilNext]_vars DEF CouncilNext, CouncilStep, StartRound, BuildPacket,
       OpenFile, WriteFile, Return, CrashInRound, BetweenRounds, BoardStep, vars, boardVars

LEMMA CouncilHonest ==
    ASSUME CouncilInv, HonestEverywhere, [CouncilNext]_vars
    PROVE  HonestEverywhere'
  <1>1. CASE UNCHANGED <<open, claims, journal>>
    BY <1>1, HonestEverywhere DEF HonestEverywhere
  <1>2. CASE \E b \in Boards : Moves(b)
    BY <1>2, CouncilInv, HonestEverywhere, HonestStep DEF CouncilInv, CouncilTypeOK
  <1>3. QED
    BY <1>1, <1>2, CouncilInv, [CouncilNext]_vars, CouncilMoves

\* The promotion rule with councils at work: neither an agent's turn, nor a
\* failed append, nor a crash in a round makes an accepted claim that
\* EvidenceAgent did not accept, on any number of boards.
THEOREM CouncilPromotionRule == CouncilSpec => []OnlyEvidenceAgentAccepts
  <1>1. CouncilInit => CouncilInv /\ HonestEverywhere
    BY CouncilStarts, HonestInit DEF CouncilInit
  <1>2. CouncilInv /\ HonestEverywhere /\ [CouncilNext]_vars
           => (CouncilInv /\ HonestEverywhere)'
    BY CouncilKeeps, CouncilHonest
  <1>3. QED
    BY <1>1, <1>2, HonestPointwise, PTL DEF CouncilSpec

\* A turn attaches nothing to a claim.
LEMMA TurnBacked ==
    ASSUME CouncilInv, RefsBacked, NEW b \in Boards, AgentTurn(b)
    PROVE  RefsBacked'
  <1> DEFINE c     == round[b].claim
             rec   == Found(b, c)
             type  == MessageFrom(CouncilAgents[round[b].step], rec, round[b].ctx)
             after == Applied(rec, type, CouncilAgents[round[b].step], "attempted")
  <1>1. /\ c = round[b].claim /\ rec = Found(b, c)
        /\ type = MessageFrom(CouncilAgents[round[b].step], rec, round[b].ctx)
        /\ after = Applied(rec, type, CouncilAgents[round[b].step], "attempted")
    OBVIOUS
  <1> HIDE DEF after, type, rec, c
  <1>2. /\ round[b].step \in 1 .. 6 /\ c \in Claims
        /\ rec \in ClaimRecord /\ after \in ClaimRecord
        /\ UNCHANGED <<open, items, evidence, packets, fileVars>>
        /\ \/ CreationRaised(b, c)
           \/ DecisionRaised(b, c, after)
           \/ MessageApplied(b, c, type, after)
    BY <1>1, CouncilInv, AgentTurn(b), TurnShape
  <1>3. rec.refs \subseteq items[b] /\ NewClaim.refs \subseteq items[b]
    BY <1>1, <1>2, RefsBacked DEF RefsBacked, Found, NewClaim
  <1>4. after.refs = rec.refs
    <2>1. type \in MessageType /\ ~Refused(type, CouncilAgents[round[b].step])
      BY <1>1, <1>2, AgentMessage
    <2>2. QED
      BY <1>1, <1>2, <2>1, AppliedFollows
  <1>5. \E new \in {NewClaim, after} :
           /\ claims' = [claims EXCEPT ![b][c] = new]
           /\ \/ journal' = [journal EXCEPT ![c] = new]
              \/ journal' = [journal EXCEPT ![c] = NewClaim]
              \/ journal' = journal
    BY <1>2 DEF CreationRaised, DecisionRaised, MessageApplied
  <1>6. QED
    BY <1>2, <1>3, <1>4, <1>5, CouncilInv, RefsBacked, NewClaimType, RewriteBacked
       DEF CouncilInv, CouncilTypeOK

LEMMA CouncilRefs ==
    ASSUME AppendOutcomes = {TRUE}, CouncilInv, RefsBacked, [CouncilNext]_vars
    PROVE  RefsBacked'
  <1>1. ASSUME NEW b \in Boards, BoardStep(b) PROVE RefsBacked'
    BY <1>1, AppendOutcomes = {TRUE}, CouncilInv, RefsBacked, RefsStep
       DEF CouncilInv, CouncilTypeOK
  <1>2. UNCHANGED boardVars => RefsBacked'
    BY RefsBacked DEF RefsBacked, boardVars
  <1>3. QED
    BY <1>1, <1>2, [CouncilNext]_vars, CouncilInv, RefsBacked, TurnBacked
       DEF CouncilNext, CouncilStep, StartRound, BuildPacket, OpenFile, WriteFile, Return,
       CrashInRound, BetweenRounds, BoardStep, vars

\* Evidence references stay backed, in memory and in the journal, with councils
\* at work on any number of boards, when appends do not fail.
THEOREM CouncilReferences ==
    ASSUME AppendOutcomes = {TRUE}
    PROVE  CouncilSpec => []RefsBacked
  <1>1. CouncilInit => CouncilInv /\ RefsBacked
    BY CouncilStarts, RefsInit DEF CouncilInit
  <1>2. CouncilInv /\ RefsBacked /\ [CouncilNext]_vars => (CouncilInv /\ RefsBacked)'
    BY AppendOutcomes = {TRUE}, CouncilKeeps, CouncilRefs
  <1>3. QED
    BY <1>1, <1>2, PTL DEF CouncilSpec

----------------------------------------------------------------------------
(* A board that has the journal to itself.                                 *)

LEMMA CouncilDurable ==
    ASSUME Alone, AppendOutcomes = {TRUE}, CouncilInv, DecisionsDurable,
           [CouncilNext]_vars
    PROVE  DecisionsDurable'
  <1>1. CASE UNCHANGED <<open, claims, journal>>
    BY <1>1, DecisionsDurable DEF DecisionsDurable
  <1>2. CASE \E b \in Boards : Moves(b)
    BY <1>2, Alone, AppendOutcomes = {TRUE}, CouncilInv, DecisionsDurable, DurableStep
       DEF CouncilInv, CouncilTypeOK
  <1>3. QED
    BY <1>1, <1>2, CouncilInv, [CouncilNext]_vars, CouncilMoves

\* With one board on the journal and appends that do not fail, whatever was
\* decided, by a round or by a call, would be found again by a replay.
THEOREM DecisionsAreDurable ==
    ASSUME Alone, AppendOutcomes = {TRUE}
    PROVE  CouncilSpec => []DecisionsDurable
  <1>1. CouncilInit => CouncilInv /\ DecisionsDurable
    BY CouncilStarts, DurableInit DEF CouncilInit
  <1>2. CouncilInv /\ DecisionsDurable /\ [CouncilNext]_vars
           => (CouncilInv /\ DecisionsDurable)'
    BY Alone, AppendOutcomes = {TRUE}, CouncilKeeps, CouncilDurable
  <1>3. QED
    BY <1>1, <1>2, PTL DEF CouncilSpec

\* What the theorems about one board rest on.
AloneInv == CouncilInv /\ HonestEverywhere /\ Reflected

LEMMA AloneStarts == CouncilInit => AloneInv
  BY CouncilStarts, HonestInit, ReflectedInit DEF CouncilInit, AloneInv

LEMMA AloneKeeps ==
    ASSUME Alone, AloneInv, [CouncilNext]_vars
    PROVE  AloneInv' /\ JournalGrows
  <1>1. CouncilInv' /\ HonestEverywhere'
    BY AloneInv, [CouncilNext]_vars, CouncilKeeps, CouncilHonest DEF AloneInv
  <1>2. Reflected' /\ JournalGrows
    <2>1. CASE UNCHANGED <<open, claims, journal>>
      BY <2>1, AloneInv DEF AloneInv, Reflected, JournalGrows, Extends
    <2>2. CASE \E b \in Boards : Moves(b)
      BY <2>2, Alone, AloneInv, ReflectedStep DEF AloneInv, CouncilInv, CouncilTypeOK
    <2>3. QED
      BY <2>1, <2>2, AloneInv, [CouncilNext]_vars, CouncilMoves DEF AloneInv
  <1>3. QED
    BY <1>1, <1>2 DEF AloneInv

\* Appends may fail: still no journalled claim is forgotten and no stamp, flag
\* or reference is taken back, by any sequence of rounds, calls, crashes and
\* re-openings of the one board.
THEOREM StampsStay ==
    ASSUME Alone
    PROVE  CouncilSpec => StampsNeverTakenBack
  <1>1. AloneInv /\ [CouncilNext]_vars => AloneInv' /\ JournalGrows
    BY Alone, AloneKeeps
  <1>2. JournalGrows =>
           \A c \in Claims :
              journal[c] # NoClaim =>
                 /\ journal'[c] # NoClaim
                 /\ journal[c].accepted_by # NoAgent
                       => journal'[c].accepted_by = journal[c].accepted_by
                 /\ journal[c].memory_updated => journal'[c].memory_updated
                 /\ journal[c].refs \subseteq journal'[c].refs
    BY DEF JournalGrows, Extends
  <1>3. QED
    BY <1>1, <1>2, AloneStarts, PTL DEF CouncilSpec, StampsNeverTakenBack

(* What is published.                                                      *)

\* The journal carries EvidenceAgent's acceptance of c.
Stamped(c) == journal[c] # NoClaim /\ journal[c].accepted_by = EvidenceAgent

\* The claim that a round accepted, and the packet that says so, have their
\* stamp in the journal.
Backed(b) ==
    /\ round[b].step \in 6 .. 7 /\ claims[b][round[b].claim].status = "accepted"
          => Stamped(round[b].claim)
    /\ round[b].step >= 8 /\ round[b].packet # NoPacket
          /\ round[b].packet.status = "REPRODUCED_REAL" => Stamped(round[b].claim)

PublishInv == AloneInv /\ PublishedIsJournalled /\ \A b \in Boards : Backed(b)

LEMMA StampKept ==
    ASSUME JournalGrows, NEW c \in Claims, Stamped(c)
    PROVE  Stamped(c)'
  BY JournalGrows, Stamped(c), AgentsAssumption DEF JournalGrows, Extends, Stamped

\* A claim that EvidenceAgent's turn left accepted was journalled in that turn.
LEMMA TurnBacks ==
    ASSUME Alone, PublishInv, NEW b \in Boards, AgentTurn(b)
    PROVE  Backed(b)'
  <1> DEFINE c     == round[b].claim
             rec   == Found(b, c)
             type  == MessageFrom(CouncilAgents[round[b].step], rec, round[b].ctx)
             after == Applied(rec, type, CouncilAgents[round[b].step], "attempted")
  <1>1. /\ c = round[b].claim /\ rec = Found(b, c)
        /\ type = MessageFrom(CouncilAgents[round[b].step], rec, round[b].ctx)
        /\ after = Applied(rec, type, CouncilAgents[round[b].step], "attempted")
    OBVIOUS
  <1> HIDE DEF after, type, rec, c
  <1>2. CouncilInv /\ TypeOK /\ round \in [Boards -> RoundRecord]
    BY PublishInv, CouncilTypeParts DEF PublishInv, AloneInv, CouncilInv
  <1>3. /\ round[b].step \in 1 .. 6 /\ c \in Claims /\ open[b]
        /\ rec \in ClaimRecord /\ after \in ClaimRecord
        /\ \/ CreationRaised(b, c)
           \/ DecisionRaised(b, c, after)
           \/ MessageApplied(b, c, type, after)
    BY <1>1, <1>2, AgentTurn(b), TurnShape
  <1>4. CASE round' = [round EXCEPT ![b] = Idle]
    BY <1>2, <1>4, IdleRound DEF Backed
  <1>5. CASE MessageApplied(b, c, type, after)
    <2> DEFINE next == [round[b] EXCEPT !.step = @ + 1]
    <2>1. /\ round'[b] = next /\ claims' = [claims EXCEPT ![b][c] = after]
      BY <1>2, <1>5 DEF MessageApplied
    <2>2. /\ next.step = round[b].step + 1 /\ next.claim = c /\ next.step \in 2 .. 7
      BY <1>1, <1>2, <1>3 DEF RoundRecord
    <2> HIDE DEF next
    <2>3. claims'[b][c] = after
      BY <1>2, <1>3, <2>1 DEF TypeOK
    <2>4. ASSUME round[b].step = 5, after.status = "accepted"
          PROVE  journal'[c] # NoClaim /\ journal'[c].accepted_by = EvidenceAgent
      <3>1. type = IF Ready(rec, round[b].ctx) THEN "accept" ELSE "evidence_request"
        BY <1>1, <1>3, <2>4, AgentMessage
      <3>2. type = "accept" /\ Ready(rec, round[b].ctx)
        <4>1. type = "evidence_request" => after.status = "evidence_requested"
          BY <1>1, <1>3 DEF Applied, StatusAfter, ClaimRecord
        <4>2. QED
          BY <3>1, <4>1, <2>4
      <3>3. claims[b][c] # NoClaim
        BY <1>1, <3>2 DEF Found, Ready, NewClaim
      <3>4. journal' = [journal EXCEPT ![c] = after]
        BY <1>5, <3>2, <3>3 DEF MessageApplied, Decisions
      <3>5. journal'[c] = after
        BY <1>2, <1>3, <3>4 DEF TypeOK
      <3>6. after.accepted_by = EvidenceAgent
        <4>1. CouncilAgents[5] = EvidenceAgent
          BY DEF CouncilAgents, EvidenceAgent
        <4>2. QED
          BY <1>1, <1>3, <2>4, <3>2, <4>1 DEF Applied, ClaimRecord
      <3>7. QED
        BY <3>5, <3>6, <1>3, NoClaimAssumption
    <2>5. ASSUME round[b].step = 6, after.status = "accepted"
          PROVE  journal'[c] # NoClaim /\ journal'[c].accepted_by = EvidenceAgent
      <3>1. claims[b][c] # NoClaim
        BY <1>1, <1>2, <2>5 DEF CouncilInv, Underway
      <3>2. type = "strategy_update"
        BY <1>1, <1>3, <2>5, AgentMessage
      <3>3. after = claims[b][c] /\ journal' = journal
        BY <1>1, <1>5, <3>1, <3>2 DEF Applied, Found, MessageApplied, Decisions
      <3>4. Stamped(c)
        BY <1>1, <2>5, <3>3, PublishInv DEF PublishInv, Backed
      <3>5. QED
        BY <3>3, <3>4 DEF Stamped
    <2>6. ~(round'[b].step >= 8)
      BY <2>1, <2>2
    <2>7. round'[b].step \in 6 .. 7 => round[b].step \in {5, 6}
      BY <2>1, <2>2, <1>3
    <2>8. round'[b].claim = c
      BY <2>1, <2>2
    <2>9. QED
      BY <2>3, <2>4, <2>5, <2>6, <2>7, <2>8 DEF Backed, Stamped
  <1>6. QED
    BY <1>3, <1>4, <1>5 DEF CreationRaised, DecisionRaised

LEMMA PublishStarts == CouncilInit => PublishInv
  BY AloneStarts, IdleRound
     DEF CouncilInit, PublishInv, PublishedIsJournalled, Backed

\* While the bundle is left alone, what was published stays journalled.
LEMMA StillJournalled ==
    ASSUME PublishedIsJournalled, JournalGrows, bundle' = bundle
    PROVE  PublishedIsJournalled'
  BY PublishedIsJournalled, JournalGrows, AgentsAssumption
     DEF PublishedIsJournalled, JournalGrows, Extends

LEMMA PublishKeeps ==
    ASSUME Alone, PublishInv, [CouncilNext]_vars
    PROVE  PublishInv'
  <1>1. AloneInv' /\ JournalGrows
    BY Alone, PublishInv, [CouncilNext]_vars, AloneKeeps DEF PublishInv
  <1>2. CouncilInv /\ round \in [Boards -> RoundRecord]
    BY PublishInv, CouncilTypeParts DEF PublishInv, AloneInv, CouncilInv
  <1>3. bundle' = bundle => PublishedIsJournalled'
    BY PublishInv, <1>1, StillJournalled DEF PublishInv
  <1>4. ASSUME NEW b \in Boards, CouncilStep(b)
        PROVE  PublishedIsJournalled' /\ Backed(b)'
    <2>1. CASE \E c \in Claims, ctx \in BOOLEAN : StartRound(b, c, ctx)
      <3>1. round'[b].step = 1 /\ bundle' = bundle
        BY <1>2, <2>1 DEF StartRound, fileVars
      <3>2. QED
        BY <1>3, <3>1 DEF Backed
    <2>2. CASE AgentTurn(b)
      BY <1>3, <2>2, Alone, PublishInv, TurnBacks DEF AgentTurn, fileVars
    <2>3. CASE \E outputDir \in BOOLEAN : BuildPacket(b, outputDir)
      <3>1. /\ round[b].step = 7 /\ UNCHANGED <<boardVars, bundle>>
        BY <2>3 DEF BuildPacket, fileVars
      <3>2. PICK new \in RoundRecord :
               /\ round' = [round EXCEPT ![b] = new]
               /\ new.step \in {8, 14} /\ new.claim = round[b].claim
               /\ new.packet = PacketOf(b)
        BY <1>2, <2>3, Packed
      <3>3. PacketOf(b).status = "REPRODUCED_REAL" =>
               claims[b][round[b].claim].status = "accepted"
        <4>1. claims[b][round[b].claim].status \in Status
          BY <1>2, <3>1 DEF CouncilInv, CouncilTypeOK, TypeOK, Underway, ClaimRecord
        <4>2. QED
          BY <4>1 DEF PacketOf, PacketStatus, Status
      <3>4. PacketOf(b).status = "REPRODUCED_REAL" => Stamped(round[b].claim)
        BY <3>1, <3>3, PublishInv DEF PublishInv, Backed
      <3>5. round'[b] = new
        BY <1>2, <3>2
      <3>6. QED
        BY <1>3, <3>1, <3>2, <3>4, <3>5 DEF Backed, Stamped, boardVars
    <2>4. CASE OpenFile(b)
      <3> DEFINE c == round[b].claim
                 f == Due(b)
                 packet == round[b].packet
      <3>1. /\ round[b].step \in 8 .. 13 /\ c \in Claims /\ f \in Files
            /\ bundle' = [bundle EXCEPT ![c][f] = packet]
            /\ UNCHANGED <<boardVars, round>>
        BY <1>2, <2>4, FileOpened
      <3>2. packet # NoPacket /\ packet.status = "REPRODUCED_REAL" => Stamped(c)
        BY <3>1, PublishInv DEF PublishInv, Backed
      <3>3. bundle \in [Claims -> [Files -> Packet \cup {NoPacket}]]
        BY <1>2 DEF CouncilInv, CouncilTypeOK
      <3>4. Backed(b)'
        BY <3>1, PublishInv DEF PublishInv, Backed, Stamped, boardVars
      <3> HIDE DEF c, f, packet
      <3>5. PublishedIsJournalled'
        BY <3>1, <3>2, <3>3, PublishInv
           DEF PublishInv, PublishedIsJournalled, Stamped, boardVars
      <3>6. QED
        BY <3>4, <3>5
    <2>5. CASE WriteFile(b)
      <3>1. round[b].step \in 8 .. 13 /\ UNCHANGED <<boardVars, bundle>>
        BY <1>2, <2>5, FileWritten
      <3>2. PICK new \in RoundRecord :
               /\ round' = [round EXCEPT ![b] = new]
               /\ new.step = round[b].step + 1 /\ new.packet = round[b].packet
               /\ new.claim = round[b].claim
        BY <1>2, <2>5, FileWritten
      <3>3. round'[b] = new /\ new.step \in 9 .. 14
        BY <1>2, <3>1, <3>2
      <3>4. Backed(b)'
        BY <3>1, <3>2, <3>3, PublishInv DEF PublishInv, Backed, Stamped, boardVars
      <3>5. QED
        BY <1>3, <3>1, <3>4
    <2>6. CASE Return(b) \/ CrashInRound(b)
      <3>1. round'[b].step = 0 /\ bundle' = bundle
        BY <1>2, <2>6, IdleRound DEF Return, CrashInRound
      <3>2. QED
        BY <1>3, <3>1 DEF Backed
    <2>7. CASE BetweenRounds(b)
      <3>1. round'[b].step = 0 /\ bundle' = bundle
        BY <2>7 DEF BetweenRounds, councilVars, fileVars
      <3>2. QED
        BY <1>3, <3>1 DEF Backed
    <2>8. QED
      BY <1>4, <2>1, <2>2, <2>3, <2>4, <2>5, <2>6, <2>7 DEF CouncilStep
  <1>5. CASE UNCHANGED vars
    BY <1>1, <1>5, PublishInv DEF PublishInv, PublishedIsJournalled, Backed, Stamped,
       vars, boardVars, councilVars, fileVars
  <1>6. CASE CouncilNext
    <2>1. PICK b \in Boards : CouncilStep(b)
      BY <1>6 DEF CouncilNext
    <2>2. \A d \in Boards : d = b
      BY Alone DEF Alone
    <2>3. PublishedIsJournalled' /\ Backed(b)'
      BY <1>4, <2>1
    <2>4. QED
      BY <1>1, <2>2, <2>3 DEF PublishInv
  <1>7. QED
    BY <1>5, <1>6, [CouncilNext]_vars

\* Whichever appends fail and wherever the process dies: no file of a bundle is
\* even opened for a packet that calls a claim reproduced unless the journal
\* carries EvidenceAgent's acceptance of that claim.
THEOREM NothingPublishedEarly ==
    ASSUME Alone
    PROVE  CouncilSpec => []PublishedIsJournalled
  <1>1. PublishInv /\ [CouncilNext]_vars => PublishInv'
    BY Alone, PublishKeeps
  <1>2. PublishInv => PublishedIsJournalled
    BY DEF PublishInv
  <1>3. QED
    BY <1>1, <1>2, PublishStarts, PTL DEF CouncilSpec

(* In which order it is published.                                         *)

\* No file is from a packet that has not been built, and one board never finds
\* another in a file.
Numbered ==
    /\ \A c \in Claims, f \in Files : Version(c, f) <= packets
    /\ \A c \in Claims : mixed[c] = {}

\* A round that is writing holds the latest packet; the files it has written are
\* whole and from it, the one it has open is torn, the others are older.
WritesLatest(b) ==
    round[b].step \in 8 .. 13 =>
       /\ round[b].packet # NoPacket /\ round[b].packet.id = packets
       /\ \A i \in 1 .. 6 :
             IF i < round[b].step - 7
             THEN /\ bundle[round[b].claim][FileOrder[i]] = round[b].packet
                  /\ FileOrder[i] \notin torn[round[b].claim]
             ELSE IF i = round[b].step - 7 /\ b \in opened
             THEN /\ bundle[round[b].claim][FileOrder[i]] = round[b].packet
                  /\ FileOrder[i] \in torn[round[b].claim]
             ELSE Version(round[b].claim, FileOrder[i]) < packets

AheadInv == /\ CouncilInv /\ NeverAheadOfClaim /\ Numbered
            /\ \A b \in Boards : WritesLatest(b)

LEMMA AheadStarts == CouncilInit => AheadInv
  BY CouncilStarts, IdleRound
     DEF CouncilInit, AheadInv, NeverAheadOfClaim, WrittenAfter, Spoilt, Numbered,
         WritesLatest, Version, Files

LEMMA VersionType ==
    ASSUME CouncilInv, NEW c \in Claims, NEW f \in Files
    PROVE  Version(c, f) \in Nat
  BY CouncilInv DEF CouncilInv, CouncilTypeOK, Version, Packet

\* The order of the six writes, as NeverAheadOfClaim relies on it.
LEMMA OrderOfFiles ==
    /\ FileOrder[1] = "claim.json" /\ FileOrder[2] = "rejected_hypotheses.json"
    /\ FileOrder[3] = "packet.json" /\ FileOrder[4] = "manifest.json"
    /\ FileOrder[5] = "reasoning_summary.md" /\ FileOrder[6] = "export_report.md"
    /\ \A i \in 1 .. 6 : FileOrder[i] \in Files
    /\ \A f \in Files : \E i \in 1 .. 6 : f = FileOrder[i]
    /\ \A i, j \in 1 .. 6 : FileOrder[i] = FileOrder[j] => i = j
  <1>1. \A i \in 1 .. 6 : i \in {1, 2, 3, 4, 5, 6}
    OBVIOUS
  <1>2. /\ FileOrder[1] = "claim.json" /\ FileOrder[2] = "rejected_hypotheses.json"
        /\ FileOrder[3] = "packet.json" /\ FileOrder[4] = "manifest.json"
        /\ FileOrder[5] = "reasoning_summary.md" /\ FileOrder[6] = "export_report.md"
    BY DEF FileOrder
  <1>3. \A f \in Files : \E i \in {1, 2, 3, 4, 5, 6} : f = FileOrder[i]
    BY <1>2 DEF Files
  <1>4. \A i, j \in {1, 2, 3, 4, 5, 6} : FileOrder[i] = FileOrder[j] => i = j
    BY <1>2
  <1>5. QED
    BY <1>1, <1>2, <1>3, <1>4 DEF Files

\* What a round that has a file to write knows of the files of its claim.
LEMMA WritingAlone ==
    ASSUME AheadInv, NEW b \in Boards, round[b].step \in 8 .. 13
    PROVE  \E c \in Claims, k \in 1 .. 6 :
              /\ c = round[b].claim /\ k = round[b].step - 7
              /\ Due(b) = FileOrder[k] /\ Due(b) \in Files
              /\ round[b].packet # NoPacket /\ round[b].packet.id = packets
              /\ \A i \in 1 .. 6 :
                    IF i < k
                    THEN /\ bundle[c][FileOrder[i]] = round[b].packet
                         /\ FileOrder[i] \notin torn[c]
                    ELSE IF i = k /\ b \in opened
                    THEN /\ bundle[c][FileOrder[i]] = round[b].packet
                         /\ FileOrder[i] \in torn[c]
                    ELSE Version(c, FileOrder[i]) < packets
  <1>1. /\ round[b].claim \in Claims /\ round[b].step - 7 \in 1 .. 6
        /\ Due(b) = FileOrder[round[b].step - 7] /\ Due(b) \in Files
    BY AheadInv, FileDue DEF AheadInv
  <1>2. QED
    BY <1>1, AheadInv DEF AheadInv, WritesLatest

\* The four pairs of NeverAheadOfClaim by their places in the order.
LEMMA AheadByPlace ==
    NeverAheadOfClaim <=>
       \A c \in Claims :
          /\ WrittenAfter(c, FileOrder[3], FileOrder[1])
          /\ WrittenAfter(c, FileOrder[3], FileOrder[2])
          /\ WrittenAfter(c, FileOrder[4], FileOrder[3])
          /\ WrittenAfter(c, FileOrder[6], FileOrder[4])
  BY OrderOfFiles DEF NeverAheadOfClaim

\* A step after which every pair of files is as it should be.
LEMMA AheadAgain ==
    ASSUME NeverAheadOfClaim,
           \A c \in Claims, i, j \in 1 .. 6 :
              j < i /\ WrittenAfter(c, FileOrder[i], FileOrder[j])
                 => WrittenAfter(c, FileOrder[i], FileOrder[j])'
    PROVE  NeverAheadOfClaim'
  <1>1. \A c \in Claims :
           /\ WrittenAfter(c, FileOrder[3], FileOrder[1])
           /\ WrittenAfter(c, FileOrder[3], FileOrder[2])
           /\ WrittenAfter(c, FileOrder[4], FileOrder[3])
           /\ WrittenAfter(c, FileOrder[6], FileOrder[4])
    BY NeverAheadOfClaim, AheadByPlace
  <1>2. \A c \in Claims :
           /\ WrittenAfter(c, FileOrder[3], FileOrder[1])'
           /\ WrittenAfter(c, FileOrder[3], FileOrder[2])'
           /\ WrittenAfter(c, FileOrder[4], FileOrder[3])'
           /\ WrittenAfter(c, FileOrder[6], FileOrder[4])'
    <2>1. /\ 1 \in 1 .. 6 /\ 2 \in 1 .. 6 /\ 3 \in 1 .. 6 /\ 4 \in 1 .. 6 /\ 6 \in 1 .. 6
          /\ 1 < 3 /\ 2 < 3 /\ 3 < 4 /\ 4 < 6
      OBVIOUS
    <2> HIDE DEF WrittenAfter
    <2>2. QED
      BY <1>1, <2>1, \A c \in Claims, i, j \in 1 .. 6 :
              j < i /\ WrittenAfter(c, FileOrder[i], FileOrder[j])
                 => WrittenAfter(c, FileOrder[i], FileOrder[j])'
  <1>3. QED
    BY <1>2, OrderOfFiles DEF NeverAheadOfClaim

LEMMA OpenInOrder ==
    ASSUME Alone, AheadInv, NEW b \in Boards, OpenFile(b)
    PROVE  AheadInv'
  <1>1. CouncilInv /\ CouncilInv'
    BY AheadInv, OpenFile(b), OpenFileKeeps DEF AheadInv
  <1>2. /\ round[b].step \in 8 .. 13 /\ b \notin opened /\ opened' = opened \cup {b}
        /\ UNCHANGED <<boardVars, round, packets>>
        /\ bundle' = [bundle EXCEPT ![round[b].claim][Due(b)] = round[b].packet]
        /\ torn' = [torn EXCEPT ![round[b].claim] = @ \cup {Due(b)}]
    BY <1>1, OpenFile(b), FileOpened
  <1>3. mixed' = [mixed EXCEPT ![round[b].claim] = @ \ {Due(b)}]
    <2>1. opened \subseteq Boards
      BY <1>1 DEF CouncilInv, CouncilTypeOK
    <2>2. ~ \E d \in opened : d # b
      BY <2>1, Alone DEF Alone
    <2>3. QED
      BY <1>1, <2>2, OpenFile(b), FileOpened
  <1>4. PICK c \in Claims, k \in 1 .. 6 :
           /\ c = round[b].claim /\ k = round[b].step - 7
           /\ Due(b) = FileOrder[k] /\ Due(b) \in Files
           /\ round[b].packet # NoPacket /\ round[b].packet.id = packets
           /\ \A i \in 1 .. 6 :
                 IF i < k
                 THEN /\ bundle[c][FileOrder[i]] = round[b].packet
                      /\ FileOrder[i] \notin torn[c]
                 ELSE IF i = k /\ b \in opened
                 THEN /\ bundle[c][FileOrder[i]] = round[b].packet
                      /\ FileOrder[i] \in torn[c]
                 ELSE Version(c, FileOrder[i]) < packets
    BY <1>2, AheadInv, WritingAlone
  <1> DEFINE f == FileOrder[k]
             packet == round[b].packet
  <1>5. FilesType /\ packets \in Nat
    BY <1>1, CouncilTypeParts DEF CouncilInv, CouncilTypeOK
  <1>6. /\ packet # NoPacket /\ packet.id = packets /\ f \in Files
        /\ \A i \in 1 .. 6 : i < k => bundle[c][FileOrder[i]] = packet
                                      /\ FileOrder[i] \notin torn[c]
        /\ \A i \in 1 .. 6 : i > k => Version(c, FileOrder[i]) < packets
    BY <1>4
  <1>7. /\ bundle' = [bundle EXCEPT ![c][f] = packet]
        /\ torn' = [torn EXCEPT ![c] = @ \cup {f}]
        /\ mixed' = [mixed EXCEPT ![c] = @ \ {f}]
    BY <1>2, <1>3, <1>4
  <1>8. f = FileOrder[k] /\ packet = round[b].packet
    OBVIOUS
  <1> HIDE DEF f, packet
  <1>9. \A d \in Claims, g \in Files :
           bundle'[d][g] = IF d = c /\ g = f THEN packet ELSE bundle[d][g]
    BY <1>5, <1>6, <1>7 DEF FilesType
  <1>10. \A d \in Claims, g \in Files :
            /\ Version(d, g)' = IF d = c /\ g = f THEN packets ELSE Version(d, g)
            /\ Version(d, g) \in Nat /\ Version(d, g) <= packets
    <2>1. \A d \in Claims, g \in Files : Version(d, g) \in Nat
      BY <1>1, VersionType
    <2>2. QED
      BY <1>6, <1>9, <2>1, AheadInv DEF AheadInv, Numbered, Version
  <1>11. \A d \in Claims : torn'[d] = IF d = c THEN torn[d] \cup {f} ELSE torn[d]
    BY <1>5, <1>7 DEF FilesType
  <1>12. \A d \in Claims : mixed[d] = {} /\ mixed'[d] = {}
    BY <1>5, <1>7, AheadInv DEF AheadInv, Numbered, FilesType
  <1>13. Numbered'
    BY <1>2, <1>5, <1>10, <1>12 DEF Numbered
  <1>14. NeverAheadOfClaim'
    <2>1. ASSUME NEW d \in Claims, NEW i \in 1 .. 6, NEW j \in 1 .. 6, j < i,
                 WrittenAfter(d, FileOrder[i], FileOrder[j])
          PROVE  WrittenAfter(d, FileOrder[i], FileOrder[j])'
      <3>1. /\ FileOrder[i] \in Files /\ FileOrder[j] \in Files
            /\ FileOrder[i] = f <=> i = k
            /\ FileOrder[j] = f <=> j = k
        BY <1>8, OrderOfFiles
      <3>2. CASE d # c \/ (i # k /\ j # k)
        BY <1>10, <1>11, <1>12, <2>1, <3>1, <3>2 DEF WrittenAfter, Spoilt
      <3>3. CASE d = c /\ i = k
        <4>1. /\ Version(c, FileOrder[j])' = packets /\ Version(c, FileOrder[i])' = packets
              /\ FileOrder[j] \notin torn'[c]
          <5>1. j < k /\ j # k
            BY <2>1, <3>3
          <5>2. Version(c, FileOrder[j]) = packets /\ FileOrder[j] \notin torn[c]
            BY <1>6, <5>1 DEF Version
          <5>3. QED
            BY <1>10, <1>11, <3>1, <3>3, <5>1, <5>2
        <4>2. QED
          BY <1>5, <1>12, <3>3, <4>1 DEF WrittenAfter, Spoilt
      <3>4. CASE d = c /\ j = k
        <4>1. /\ Version(c, FileOrder[j])' = packets
              /\ Version(c, FileOrder[i])' < packets /\ Version(c, FileOrder[i])' \in Nat
          BY <1>6, <1>10, <2>1, <3>1, <3>4
        <4>2. QED
          BY <1>5, <3>4, <4>1 DEF WrittenAfter
      <3>5. QED
        BY <3>2, <3>3, <3>4
    <2>2. NeverAheadOfClaim
      BY AheadInv DEF AheadInv
    <2>3. QED
      BY <2>1, <2>2, AheadAgain
  <1>15. WritesLatest(b)'
    <2>1. ASSUME NEW i \in 1 .. 6
          PROVE  IF i < k
                 THEN bundle'[c][FileOrder[i]] = packet /\ FileOrder[i] \notin torn'[c]
                 ELSE IF i = k
                 THEN bundle'[c][FileOrder[i]] = packet /\ FileOrder[i] \in torn'[c]
                 ELSE Version(c, FileOrder[i])' < packets
      <3>1. FileOrder[i] \in Files /\ (FileOrder[i] = f <=> i = k)
        BY <1>8, OrderOfFiles
      <3>2. QED
        <4>1. CASE i < k
          <5>1. FileOrder[i] # f /\ bundle[c][FileOrder[i]] = packet
                /\ FileOrder[i] \notin torn[c]
            BY <1>6, <3>1, <4>1
          <5>2. bundle'[c][FileOrder[i]] = packet /\ FileOrder[i] \notin torn'[c]
            BY <1>9, <1>11, <3>1, <5>1
          <5>3. QED
            BY <4>1, <5>2
        <4>2. CASE i = k
          <5>1. bundle'[c][FileOrder[i]] = packet /\ FileOrder[i] \in torn'[c]
            BY <1>9, <1>11, <3>1, <4>2
          <5>2. QED
            BY <4>2, <5>1
        <4>3. CASE i > k
          BY <1>6, <1>10, <3>1, <4>3
        <4>4. QED
          BY <4>1, <4>2, <4>3
    <2>2. b \in opened' /\ round'[b] = round[b] /\ packets' = packets
      BY <1>2
    <2>3. QED
      BY <1>4, <1>6, <1>8, <2>1, <2>2 DEF WritesLatest
  <1>16. QED
    BY <1>1, <1>13, <1>14, <1>15, Alone DEF AheadInv, Alone

LEMMA WriteInOrder ==
    ASSUME Alone, AheadInv, NEW b \in Boards, WriteFile(b)
    PROVE  AheadInv'
  <1>1. CouncilInv /\ CouncilInv'
    BY AheadInv, WriteFile(b), WriteFileKeeps DEF AheadInv
  <1>2. /\ round[b].step \in 8 .. 13 /\ b \in opened /\ opened' = opened \ {b}
        /\ UNCHANGED <<boardVars, packets, bundle, mixed>>
        /\ torn' = [torn EXCEPT ![round[b].claim] = @ \ {Due(b)}]
    BY <1>1, WriteFile(b), FileWritten
  <1>3. PICK new \in RoundRecord :
           /\ round' = [round EXCEPT ![b] = new]
           /\ new.step = round[b].step + 1 /\ new.packet = round[b].packet
           /\ new.claim = round[b].claim
    BY <1>1, WriteFile(b), FileWritten
  <1>4. PICK c \in Claims, k \in 1 .. 6 :
           /\ c = round[b].claim /\ k = round[b].step - 7
           /\ Due(b) = FileOrder[k] /\ Due(b) \in Files
           /\ round[b].packet # NoPacket /\ round[b].packet.id = packets
           /\ \A i \in 1 .. 6 :
                 IF i < k
                 THEN /\ bundle[c][FileOrder[i]] = round[b].packet
                      /\ FileOrder[i] \notin torn[c]
                 ELSE IF i = k /\ b \in opened
                 THEN /\ bundle[c][FileOrder[i]] = round[b].packet
                      /\ FileOrder[i] \in torn[c]
                 ELSE Version(c, FileOrder[i]) < packets
    BY <1>2, AheadInv, WritingAlone
  <1>5. FilesType /\ packets \in Nat /\ round \in [Boards -> RoundRecord]
    BY <1>1, CouncilTypeParts DEF CouncilInv, CouncilTypeOK
  <1>6. \A d \in Claims : torn'[d] = IF d = c THEN torn[d] \ {FileOrder[k]} ELSE torn[d]
    BY <1>2, <1>4, <1>5 DEF FilesType
  <1>7. \A d \in Claims, g \in Files : Version(d, g)' = Version(d, g) /\ Version(d, g) \in Nat
    BY <1>1, <1>2, VersionType DEF Version
  <1>8. Numbered'
    BY <1>2, <1>7, AheadInv DEF AheadInv, Numbered
  <1>9. NeverAheadOfClaim'
    <2>1. ASSUME NEW d \in Claims, NEW i \in 1 .. 6, NEW j \in 1 .. 6, j < i,
                 WrittenAfter(d, FileOrder[i], FileOrder[j])
          PROVE  WrittenAfter(d, FileOrder[i], FileOrder[j])'
      <3>1. FileOrder[i] \in Files /\ FileOrder[j] \in Files
        BY OrderOfFiles
      <3>2. Spoilt(d)' \subseteq Spoilt(d)
        BY <1>2, <1>6 DEF Spoilt
      <3>3. QED
        BY <1>7, <2>1, <3>1, <3>2 DEF WrittenAfter
    <2>2. NeverAheadOfClaim
      BY AheadInv DEF AheadInv
    <2>3. QED
      BY <2>1, <2>2, AheadAgain
  <1>10. WritesLatest(b)'
    <2>1. ASSUME NEW i \in 1 .. 6
          PROVE  IF i < k + 1
                 THEN /\ bundle'[c][FileOrder[i]] = round[b].packet
                      /\ FileOrder[i] \notin torn'[c]
                 ELSE Version(c, FileOrder[i])' < packets
      <3>1. FileOrder[i] \in Files /\ (FileOrder[i] = FileOrder[k] <=> i = k)
        BY OrderOfFiles
      <3>2. CASE i < k
        BY <1>2, <1>4, <1>6, <3>1, <3>2
      <3>3. CASE i = k
        BY <1>2, <1>4, <1>6, <3>1, <3>3
      <3>4. CASE i > k
        BY <1>2, <1>4, <1>7, <3>1, <3>4
      <3>5. QED
        BY <3>2, <3>3, <3>4
    <2>2. /\ b \notin opened' /\ round'[b] = new /\ packets' = packets
          /\ new.step - 7 = k + 1
      BY <1>2, <1>3, <1>4, <1>5
    <2>3. QED
      BY <1>3, <1>4, <2>1, <2>2 DEF WritesLatest
  <1>11. QED
    BY <1>1, <1>8, <1>9, <1>10, Alone DEF AheadInv, Alone

LEMMA AheadKeeps ==
    ASSUME Alone, AheadInv, [CouncilNext]_vars
    PROVE  AheadInv'
  <1>1. CouncilInv /\ CouncilInv' /\ round \in [Boards -> RoundRecord]
    BY AheadInv, [CouncilNext]_vars, CouncilKeeps, CouncilTypeParts
       DEF AheadInv, CouncilInv
  <1>2. packets \in Nat
    BY <1>1 DEF CouncilInv, CouncilTypeOK
  <1>3. UNCHANGED <<bundle, torn, mixed>> =>
           /\ \A c \in Claims, f \in Files : Version(c, f)' = Version(c, f)
           /\ NeverAheadOfClaim'
    BY AheadInv DEF AheadInv, NeverAheadOfClaim, WrittenAfter, Spoilt, Version
  <1>4. ASSUME UNCHANGED <<bundle, torn, mixed, packets>>,
               NEW b \in Boards, round'[b].step \notin 8 .. 13
        PROVE  AheadInv'
    <2>1. Numbered'
      BY <1>3, <1>4, AheadInv DEF AheadInv, Numbered
    <2>2. QED
      BY <1>1, <1>3, <1>4, <2>1, Alone DEF AheadInv, WritesLatest, Alone
  <1>5. ASSUME NEW b \in Boards, NEW outputDir \in BOOLEAN, BuildPacket(b, outputDir)
        PROVE  AheadInv'
    <2>1. /\ packets' = packets + 1 /\ UNCHANGED <<bundle, torn, mixed, opened>>
          /\ b \notin opened
      BY <1>1, <1>5 DEF BuildPacket, fileVars, CouncilInv, Underway
    <2>2. PICK new \in RoundRecord :
              /\ round' = [round EXCEPT ![b] = new]
              /\ new.step = IF outputDir THEN 8 ELSE 14
              /\ new.claim = round[b].claim
              /\ new.packet = PacketOf(b) /\ PacketOf(b) \in Packet
      BY <1>1, <1>5, Packed
    <2>3. round'[b] = new /\ round[b].claim \in Claims
      BY <1>1, <1>5, <2>2 DEF BuildPacket, CouncilInv, Underway
    <2>4. \A c \in Claims, f \in Files : Version(c, f)' \in Nat /\ Version(c, f)' <= packets
      <3>1. \A c \in Claims, f \in Files : Version(c, f) \in Nat
        BY <1>1, VersionType
      <3>2. QED
        BY <1>3, <2>1, <3>1, AheadInv DEF AheadInv, Numbered
    <2>5. Numbered'
      BY <1>2, <2>1, <2>4, AheadInv DEF AheadInv, Numbered
    <2>6. WritesLatest(b)'
      <3>1. new.packet # NoPacket /\ new.packet.id = packets + 1
        BY <2>2, NoPacketAssumption DEF PacketOf
      <3>2. new.step \in {8, 14}
        BY <2>2
      <3>3. \A c \in Claims, f \in Files : Version(c, f)' < packets + 1
        <4>1. \A c \in Claims, f \in Files : Version(c, f) \in Nat /\ Version(c, f) <= packets
          BY <1>1, VersionType, AheadInv DEF AheadInv, Numbered
        <4>2. \A c \in Claims, f \in Files : Version(c, f)' = Version(c, f)
          BY <1>3, <2>1
        <4>3. QED
          BY <1>2, <4>1, <4>2
      <3>4. \A c \in Claims, i \in 1 .. 6 :
               ~(i < 8 - 7) /\ Version(c, FileOrder[i])' < packets + 1
        <4>1. \A i \in 1 .. 6 : FileOrder[i] \in Files /\ ~(i < 8 - 7)
          BY OrderOfFiles
        <4>2. QED
          BY <3>3, <4>1
      <3>5. QED
        BY <2>1, <2>2, <2>3, <3>1, <3>2, <3>4 DEF WritesLatest
    <2>7. QED
      BY <1>1, <1>3, <2>1, <2>5, <2>6, Alone DEF AheadInv, Alone
  <1>6. ASSUME NEW b \in Boards, CouncilStep(b)
        PROVE  AheadInv'
    <2>1. CASE \E c \in Claims, ctx \in BOOLEAN : StartRound(b, c, ctx)
      <3>1. round'[b].step = 1 /\ UNCHANGED <<bundle, torn, mixed, packets>>
        BY <1>1, <2>1 DEF StartRound, fileVars
      <3>2. QED
        BY <1>4, <3>1
    <2>2. CASE AgentTurn(b)
      <3>1. round[b].step \in 1 .. 6 /\ UNCHANGED <<bundle, torn, mixed, packets>>
        BY <2>2 DEF AgentTurn, fileVars
      <3>2. \/ round' = [round EXCEPT ![b] = Idle]
            \/ round' = [round EXCEPT ![b] = [round[b] EXCEPT !.step = @ + 1]]
        BY <2>2 DEF AgentTurn
      <3>3. round'[b].step \notin 8 .. 13
        BY <1>1, <3>1, <3>2, IdleRound DEF RoundRecord
      <3>4. QED
        BY <1>4, <3>1, <3>3
    <2>3. CASE OpenFile(b) \/ WriteFile(b)
      BY <2>3, Alone, AheadInv, OpenInOrder, WriteInOrder
    <2>4. CASE Return(b) \/ CrashInRound(b)
      <3>1. round'[b].step = 0 /\ UNCHANGED <<bundle, torn, mixed, packets>>
        BY <1>1, <2>4, IdleRound DEF Return, CrashInRound
      <3>2. QED
        BY <1>4, <3>1
    <2>5. CASE BetweenRounds(b)
      <3>1. round'[b].step = 0 /\ UNCHANGED <<bundle, torn, mixed, packets>>
        BY <2>5 DEF BetweenRounds, councilVars, fileVars
      <3>2. QED
        BY <1>4, <3>1
    <2>6. QED
      BY <1>5, <1>6, <2>1, <2>2, <2>3, <2>4, <2>5 DEF CouncilStep
  <1>7. CASE UNCHANGED vars
    <2>1. UNCHANGED <<bundle, torn, mixed, opened, packets, round>>
      BY <1>7 DEF vars, councilVars, fileVars
    <2>2. \A b \in Boards : WritesLatest(b)'
      BY <2>1, AheadInv DEF AheadInv, WritesLatest, Version
    <2>3. QED
      BY <1>1, <1>3, <2>1, <2>2, AheadInv DEF AheadInv, Numbered
  <1>8. QED
    BY <1>6, <1>7, [CouncilNext]_vars DEF CouncilNext

\* However often rounds of one board are repeated and wherever they break off,
\* between two files or within one: a file is never newer than those its reader
\* relies on, and one of these that cannot be read was spoilt by a newer packet.
THEOREM ReaderNeverMisled ==
    ASSUME Alone
    PROVE  CouncilSpec => []NeverAheadOfClaim
  <1>1. AheadInv /\ [CouncilNext]_vars => AheadInv'
    BY Alone, AheadKeeps
  <1>2. AheadInv => NeverAheadOfClaim
    BY DEF AheadInv
  <1>3. QED
    BY <1>1, <1>2, AheadStarts, PTL DEF CouncilSpec

----------------------------------------------------------------------------
(* The dossier: every step is one of Dossier's, or none.                   *)

DossierInv == PublishInv /\ AheadInv

LEMMA DossierStarts == CouncilInit => DossierInv
  BY PublishStarts, AheadStarts DEF DossierInv

LEMMA DossierKeeps ==
    ASSUME Alone, DossierInv, [CouncilNext]_vars
    PROVE  DossierInv'
  BY Alone, DossierInv, [CouncilNext]_vars, PublishKeeps, AheadKeeps DEF DossierInv

\* A move writes one record of the journal at most, and takes no stamp back.
LEMMA MoveAccepts ==
    ASSUME NEW b \in Boards, Moves(b), TypeOK, JournalGrows
    PROVE  \/ AcceptedClaims' = AcceptedClaims
           \/ \E c \in Claims : AcceptedClaims' = AcceptedClaims \cup {c}
  <1>1. CASE journal' = journal
    BY <1>1 DEF AcceptedClaims
  <1>2. ASSUME NEW c \in Claims, NEW new, journal' = [journal EXCEPT ![c] = new]
        PROVE  \/ AcceptedClaims' = AcceptedClaims
               \/ AcceptedClaims' = AcceptedClaims \cup {c}
    <2>1. \A d \in Claims : d # c => journal'[d] = journal[d]
      BY <1>2, TypeOK DEF TypeOK
    <2>2. AcceptedClaims \subseteq AcceptedClaims'
      BY JournalGrows, AgentsAssumption DEF AcceptedClaims, JournalGrows, Extends
    <2>3. AcceptedClaims' \subseteq AcceptedClaims \cup {c}
      BY <2>1 DEF AcceptedClaims
    <2>4. QED
      BY <2>2, <2>3
  <1>3. CASE Open(b) \/ Close(b) \/ UNCHANGED <<open, claims, journal>>
    BY <1>1, <1>3 DEF Open, Close
  <1>4. ASSUME NEW c \in Claims, NEW new \in ClaimRecord, Rewrites(b, c, new)
        PROVE  \/ AcceptedClaims' = AcceptedClaims
               \/ \E d \in Claims : AcceptedClaims' = AcceptedClaims \cup {d}
    BY <1>1, <1>2, <1>4 DEF Rewrites
  <1>5. QED
    BY <1>3, <1>4, Moves(b) DEF Moves

\* Opening the k-th file: those it is checked against are whole and of the packet.
LEMMA BesideBefore ==
    ASSUME NEW k \in 1 .. 6, NEW g \in Kept!Beside(FileOrder[k])
    PROVE  g \in Files /\ \E i \in 1 .. 6 : i < k /\ g = FileOrder[i]
  <1>1. k \in {1, 2, 3, 4, 5, 6}
    OBVIOUS
  <1>2. CASE k \in {1, 2, 5}
    BY <1>2, OrderOfFiles DEF Kept!Beside
  <1>3. CASE k = 3
    <2>1. g = FileOrder[1] \/ g = FileOrder[2]
      BY <1>3, OrderOfFiles DEF Kept!Beside
    <2>2. QED
      BY <1>3, <2>1, OrderOfFiles
  <1>4. CASE k = 4
    <2>1. g = FileOrder[3]
      BY <1>4, OrderOfFiles DEF Kept!Beside
    <2>2. QED
      BY <1>4, <2>1, OrderOfFiles
  <1>5. CASE k = 6
    <2>1. g = FileOrder[4]
      BY <1>5, OrderOfFiles DEF Kept!Beside
    <2>2. QED
      BY <1>5, <2>1, OrderOfFiles
  <1>6. QED
    BY <1>1, <1>2, <1>3, <1>4, <1>5

\* What a reader finds of one file after a step that changes only that file.
LEMMA OneFileShown ==
    ASSUME NEW c \in Claims, NEW f \in Files, NEW new, ShownFile(c, f)' = new,
           \A d \in Claims, g \in Files : d # c \/ g # f => ShownFile(d, g)' = ShownFile(d, g)
    PROVE  ShownFiles' = [ShownFiles EXCEPT ![c][f] = new]
  <1> HIDE DEF ShownFile
  <1>1. \A d \in Claims, g \in Files :
           ShownFile(d, g)' = IF d = c /\ g = f THEN new ELSE ShownFile(d, g)
    BY ShownFile(c, f)' = new,
       \A d \in Claims, g \in Files : d # c \/ g # f => ShownFile(d, g)' = ShownFile(d, g)
  <1>2. ShownFiles' = [d \in Claims |-> [g \in Files |-> ShownFile(d, g)']]
    BY DEF ShownFiles
  <1>3. [ShownFiles EXCEPT ![c][f] = new] =
           [d \in Claims |-> [g \in Files |->
              IF d = c /\ g = f THEN new ELSE ShownFile(d, g)]]
    BY DEF ShownFiles
  <1>4. QED
    BY <1>1, <1>2, <1>3

\* The files a round has written are shown whole, with its packet's verdict.
LEMMA ShownWhole ==
    ASSUME DossierInv, NEW b \in Boards, round[b].step \in 8 .. 13,
           NEW g \in Kept!Beside(Due(b))
    PROVE  ShownFiles[round[b].claim][g] =
              Kept!Whole(packets, round[b].packet.status = "REPRODUCED_REAL")
  <1>1. PICK c \in Claims, k \in 1 .. 6 :
           /\ c = round[b].claim /\ Due(b) = FileOrder[k]
           /\ round[b].packet # NoPacket /\ round[b].packet.id = packets
           /\ \A i \in 1 .. 6 : i < k => /\ bundle[c][FileOrder[i]] = round[b].packet
                                       /\ FileOrder[i] \notin torn[c]
    BY DossierInv, WritingAlone DEF DossierInv
  <1>2. PICK i \in 1 .. 6 : i < k /\ g = FileOrder[i]
    BY <1>1, BesideBefore
  <1>3. g \in Files /\ bundle[c][g] = round[b].packet /\ g \notin torn[c]
    BY <1>1, <1>2, OrderOfFiles
  <1>4. mixed[c] = {}
    BY DossierInv DEF DossierInv, AheadInv, Numbered
  <1>5. g \notin Spoilt(c)
    BY <1>3, <1>4 DEF Spoilt
  <1>6. ShownFile(c, g) = Kept!Whole(packets, round[b].packet.status = "REPRODUCED_REAL")
    BY <1>1, <1>3, <1>5 DEF ShownFile, Kept!Whole
  <1>7. QED
    BY <1>1, <1>3, <1>6 DEF ShownFiles

\* A file is opened when the files its reader finds beside it are written.
LEMMA OpensDossier ==
    ASSUME Alone, DossierInv, NEW b \in Boards, OpenFile(b)
    PROVE  \E c \in Claims, f \in Files : Kept!Empty(c, f)
  <1>1. CouncilInv /\ CouncilInv' /\ AheadInv'
    BY Alone, DossierInv, OpenFile(b), OpenFileKeeps, OpenInOrder DEF DossierInv, AheadInv
  <1>2. PICK c \in Claims, f \in Files :
           /\ c = round[b].claim /\ f = Due(b) /\ round[b].step \in 8 .. 13
           /\ bundle' = [bundle EXCEPT ![c][f] = round[b].packet]
           /\ torn' = [torn EXCEPT ![c] = @ \cup {f}]
           /\ UNCHANGED <<boardVars, packets>>
    BY <1>1, OpenFile(b), FileOpened
  <1>3. round[b].packet # NoPacket /\ round[b].packet.id = packets
    BY <1>2, DossierInv DEF DossierInv, AheadInv, WritesLatest
  <1>4. FilesType
    BY <1>1, CouncilTypeParts DEF CouncilInv
  <1>5. \A d \in Claims : mixed[d] = {} /\ mixed'[d] = {}
    BY <1>1, DossierInv DEF DossierInv, AheadInv, Numbered
  <1>6. \A g \in Kept!Beside(f) :
           \E verdict \in BOOLEAN : ShownFiles[c][g] = Kept!Whole(packets, verdict)
    BY <1>2, DossierInv, ShownWhole
  <1>7. ShownFile(c, f)' = Kept!Torn(packets)
    <2>1. bundle'[c][f] = round[b].packet /\ f \in torn'[c]
      BY <1>2, <1>4 DEF FilesType
    <2>2. QED
      BY <1>3, <2>1 DEF ShownFile, Spoilt, Kept!Torn
  <1>8. \A d \in Claims, g \in Files : d # c \/ g # f => ShownFile(d, g)' = ShownFile(d, g)
    <2>1. ASSUME NEW d \in Claims, NEW g \in Files, d # c \/ g # f
          PROVE  ShownFile(d, g)' = ShownFile(d, g)
      <3>1. bundle'[d][g] = bundle[d][g]
        BY <1>2, <1>4, <2>1 DEF FilesType
      <3>2. g \in torn'[d] <=> g \in torn[d]
        BY <1>2, <1>4, <2>1 DEF FilesType
      <3>3. g \in Spoilt(d)' <=> g \in Spoilt(d)
        BY <1>5, <3>2 DEF Spoilt
      <3>4. QED
        BY <3>1, <3>3 DEF ShownFile
    <2>2. QED
      BY <2>1
  <1>9. ShownFiles' = [ShownFiles EXCEPT ![c][f] = Kept!Torn(packets)]
    <2> HIDE DEF ShownFile
    <2>1. QED
      BY <1>2, <1>7, <1>8, OneFileShown
  <1>10. UNCHANGED <<AcceptedClaims, packets>>
    BY <1>2 DEF AcceptedClaims, boardVars
  <1>11. Kept!Empty(c, f)
    BY <1>6, <1>9, <1>10 DEF Kept!Empty
  <1>12. QED
    BY <1>2, <1>11

\* It is written with the verdict that they have, once that is journalled.
LEMMA WritesDossier ==
    ASSUME Alone, DossierInv, NEW b \in Boards, WriteFile(b)
    PROVE  \E c \in Claims, f \in Files, verdict \in BOOLEAN : Kept!Write(c, f, verdict)
  <1>1. CouncilInv
    BY DossierInv DEF DossierInv, AheadInv
  <1>2. PICK c \in Claims, f \in Files, verdict \in BOOLEAN :
           /\ c = round[b].claim /\ f = Due(b) /\ round[b].step \in 8 .. 13 /\ b \in opened
           /\ verdict = (round[b].packet.status = "REPRODUCED_REAL")
           /\ torn' = [torn EXCEPT ![c] = @ \ {f}]
           /\ UNCHANGED <<boardVars, packets, bundle, mixed>>
    BY <1>1, WriteFile(b), FileWritten
  <1>3. FilesType
    BY <1>1, CouncilTypeParts DEF CouncilInv
  <1>4. /\ round[b].packet # NoPacket /\ round[b].packet.id = packets
        /\ bundle[c][f] = round[b].packet /\ f \in torn[c]
    <2>1. PICK k \in 1 .. 6 :
             /\ f = FileOrder[k]
             /\ round[b].packet # NoPacket /\ round[b].packet.id = packets
             /\ bundle[c][FileOrder[k]] = round[b].packet
             /\ FileOrder[k] \in torn[c]
      BY <1>2, DossierInv, WritingAlone DEF DossierInv
    <2>2. QED
      BY <2>1
  <1>5. \A d \in Claims : mixed[d] = {}
    BY DossierInv DEF DossierInv, AheadInv, Numbered
  <1>6. verdict => c \in AcceptedClaims
    <2>1. round[b].packet.status = "REPRODUCED_REAL" => c \in AcceptedClaims
      BY <1>2, <1>4, DossierInv DEF DossierInv, PublishInv, Backed, Stamped, AcceptedClaims
    <2>2. QED
      BY <1>2, <2>1
  <1>7. \A g \in Kept!Beside(f) : ShownFiles[c][g] = Kept!Whole(packets, verdict)
    BY <1>2, DossierInv, ShownWhole
  <1>9. f \in Files /\ ShownFile(c, f) = Kept!Torn(packets)
    BY <1>2, <1>4 DEF ShownFile, Spoilt, Kept!Torn
  <1>10. ShownFiles[c][f] = Kept!Torn(packets)
    BY <1>2, <1>9 DEF ShownFiles
  <1>11. ShownFile(c, f)' = Kept!Whole(packets, verdict)
    <2>1. bundle'[c][f] = round[b].packet /\ f \notin Spoilt(c)'
      BY <1>2, <1>3, <1>4, <1>5 DEF FilesType, Spoilt
    <2>2. ShownFile(c, f)' = Kept!Whole(packets, round[b].packet.status = "REPRODUCED_REAL")
      BY <1>4, <2>1 DEF ShownFile, Kept!Whole
    <2>3. QED
      BY <1>2, <2>2, Zenon
  <1>12. \A d \in Claims, g \in Files : d # c \/ g # f => ShownFile(d, g)' = ShownFile(d, g)
    <2>1. ASSUME NEW d \in Claims, NEW g \in Files, d # c \/ g # f
          PROVE  ShownFile(d, g)' = ShownFile(d, g)
      <3>1. bundle'[d][g] = bundle[d][g]
        BY <1>2
      <3>2. g \in torn'[d] <=> g \in torn[d]
        BY <1>2, <1>3, <2>1 DEF FilesType
      <3>3. g \in Spoilt(d)' <=> g \in Spoilt(d)
        BY <1>2, <3>2 DEF Spoilt
      <3>4. QED
        BY <3>1, <3>3 DEF ShownFile
    <2>2. QED
      BY <2>1
  <1>13. ShownFiles' = [ShownFiles EXCEPT ![c][f] = Kept!Whole(packets, verdict)]
    BY <1>2, <1>11, <1>12, OneFileShown
  <1>14. UNCHANGED <<AcceptedClaims, packets>>
    BY <1>2 DEF AcceptedClaims, boardVars
  <1>15. Kept!Write(c, f, verdict)
    BY <1>6, <1>7, <1>10, <1>13, <1>14 DEF Kept!Write
  <1>16. QED
    BY <1>2, <1>15

\* The steps of Dossier under the mapping.
LEMMA DossierStep ==
    ASSUME \/ UNCHANGED <<AcceptedClaims, packets, ShownFiles>>
           \/ packets' = packets + 1 /\ UNCHANGED <<AcceptedClaims, ShownFiles>>
           \/ /\ \E c \in Claims : AcceptedClaims' = AcceptedClaims \cup {c}
              /\ UNCHANGED <<packets, ShownFiles>>
           \/ \E c \in Claims, f \in Files : Kept!Empty(c, f)
           \/ \E c \in Claims, f \in Files, verdict \in BOOLEAN : Kept!Write(c, f, verdict)
    PROVE  [Kept!DossierNext]_(Kept!dossierVars)
  <1>1. Kept!Files = Files
    BY DEF Kept!Files, Files
  <1>2. ASSUME NEW c \in Claims, NEW f \in Files, Kept!Empty(c, f)
        PROVE  Kept!DossierNext
    BY <1>1, <1>2 DEF Kept!DossierNext
  <1>3. ASSUME NEW c \in Claims, NEW f \in Files, NEW verdict \in BOOLEAN,
               Kept!Write(c, f, verdict)
        PROVE  Kept!DossierNext
    BY <1>1, <1>3 DEF Kept!DossierNext
  <1>4. ASSUME NEW c \in Claims, AcceptedClaims' = AcceptedClaims \cup {c},
               UNCHANGED <<packets, ShownFiles>>
        PROVE  Kept!DossierNext
    BY <1>4 DEF Kept!DossierNext, Kept!Accept
  <1>5. packets' = packets + 1 /\ UNCHANGED <<AcceptedClaims, ShownFiles>>
           => Kept!DossierNext
    BY DEF Kept!DossierNext, Kept!Issue
  <1>6. UNCHANGED <<AcceptedClaims, packets, ShownFiles>> => UNCHANGED Kept!dossierVars
    BY DEF Kept!dossierVars
  <1>7. QED
    BY <1>2, <1>3, <1>4, <1>5, <1>6

LEMMA CouncilKeepsDossier ==
    ASSUME Alone, DossierInv, [CouncilNext]_vars
    PROVE  [Kept!DossierNext]_(Kept!dossierVars)
  <1>1. CouncilInv /\ TypeOK /\ JournalGrows
    <2>1. AloneInv /\ CouncilInv
      BY DossierInv DEF DossierInv, PublishInv, AloneInv
    <2>2. QED
      BY <2>1, Alone, [CouncilNext]_vars, AloneKeeps, CouncilTypeParts DEF CouncilInv
  <1>2. UNCHANGED <<bundle, torn, mixed>> => ShownFiles' = ShownFiles
    BY DEF ShownFiles, ShownFile, Spoilt
  <1>3. journal' = journal => AcceptedClaims' = AcceptedClaims
    BY DEF AcceptedClaims
  <1>4. ASSUME NEW b \in Boards, Moves(b), UNCHANGED <<bundle, torn, mixed, packets>>
        PROVE  [Kept!DossierNext]_(Kept!dossierVars)
    BY <1>1, <1>2, <1>4, MoveAccepts, DossierStep
  <1>5. ASSUME NEW b \in Boards, CouncilStep(b)
        PROVE  [Kept!DossierNext]_(Kept!dossierVars)
    <2>1. CASE OpenFile(b) \/ WriteFile(b)
      BY <2>1, Alone, DossierInv, OpensDossier, WritesDossier, DossierStep
    <2>2. CASE \E outputDir \in BOOLEAN : BuildPacket(b, outputDir)
      <3>1. /\ journal' = journal /\ packets' = packets + 1
            /\ UNCHANGED <<bundle, torn, mixed>>
        BY <2>2 DEF BuildPacket, boardVars, fileVars
      <3>2. QED
        BY <1>2, <1>3, <3>1, DossierStep
    <2>3. CASE AgentTurn(b)
      <3>1. Moves(b) /\ UNCHANGED <<bundle, torn, mixed, packets>>
        BY <1>1, <2>3, TurnMoves DEF AgentTurn, fileVars
      <3>2. QED
        BY <1>4, <3>1
    <2>4. CASE BetweenRounds(b)
      <3>1. Moves(b) /\ UNCHANGED <<bundle, torn, mixed, packets>>
        BY <1>1, <2>4, BoardMoves DEF BetweenRounds, councilVars, fileVars
      <3>2. QED
        BY <1>4, <3>1
    <2>5. CASE \/ \E c \in Claims, ctx \in BOOLEAN : StartRound(b, c, ctx)
               \/ Return(b) \/ CrashInRound(b)
      <3>1. journal' = journal /\ UNCHANGED <<bundle, torn, mixed, packets>>
        BY <2>5 DEF StartRound, Return, CrashInRound, Close, boardVars, fileVars
      <3>2. QED
        BY <1>2, <1>3, <3>1, DossierStep
    <2>6. QED
      BY <1>5, <2>1, <2>2, <2>3, <2>4, <2>5 DEF CouncilStep
  <1>6. CASE UNCHANGED vars
    <2>1. journal' = journal /\ UNCHANGED <<bundle, torn, mixed, packets>>
      BY <1>6 DEF vars, boardVars, councilVars, fileVars
    <2>2. QED
      BY <1>2, <1>3, <2>1, DossierStep
  <1>7. QED
    BY <1>5, <1>6, [CouncilNext]_vars DEF CouncilNext

LEMMA DossierBegins == CouncilInit => Kept!DossierInit
  BY DEF CouncilInit, Init, Kept!DossierInit, Kept!Missing, Kept!Files, Files, ShownFile,
         AcceptedClaims, ShownFiles

\* Rounds, calls, failing appends and writes, crashes and re-openings of the one
\* board implement Dossier, files that are opened and never written included.
THEOREM CouncilImplementsDossier ==
    ASSUME Alone
    PROVE  CouncilSpec => KeepsDossier
  <1>1. DossierInv /\ [CouncilNext]_vars
           => DossierInv' /\ [Kept!DossierNext]_(Kept!dossierVars)
    BY Alone, DossierKeeps, CouncilKeepsDossier
  <1>2. QED
    BY <1>1, DossierStarts, DossierBegins, PTL
       DEF CouncilSpec, KeepsDossier, Kept!DossierSpec
============================================================================
