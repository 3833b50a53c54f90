--------------------------- MODULE Caseflow_proofs ---------------------------
(***************************************************************************)
(* Overlapping runs of cases, for any number of runs, cases, crashes and   *)
(* failing appends: no scan promotes itself, and the files of a ledgered   *)
(* case exist, none of them left half written by a run in the ledger.      *)
(*                                                                         *)
(* Neither property is inductive alone.  That EvidenceAgent never accepts  *)
(* rests on every claim of the pipeline being unreproduced, and that a     *)
(* packet asks for review rests on EvidenceAgent having spoken after every *)
(* challenger; that a ledgered bundle is complete rests on each run        *)
(* having written its files in order, on no run ever deleting a file, and  *)
(* on no two runs having packets of one number.                            *)
(***************************************************************************)
EXTENDS Caseflow, CouncilRunner_proofs, FiniteSetTheorems

\* A run opens its board and is in its round in one step.
LEMMA BeginRunKeeps ==
    ASSUME CouncilInv, NEW b \in Boards, NEW c \in Claims, NEW ctx \in BOOLEAN,
           BeginRun(b, c, ctx)
    PROVE  CouncilInv'
  <1> DEFINE new == [step |-> 1, claim |-> c, ctx |-> ctx, packet |-> NoPacket]
  <1>1. /\ new \in RoundRecord /\ new.step = 1 /\ new.claim = c
        /\ round' = [round EXCEPT ![b] = new]
        /\ Open(b) /\ b \notin opened
        /\ UNCHANGED <<packets, opened, bundle, torn, mixed>>
    BY BeginRun(b, c, ctx), CouncilInv
       DEF BeginRun, RoundRecord, fileVars, Open, CouncilInv, Underway
  <1> HIDE DEF new
  <1>2. TypeOK /\ Moves(b) /\ BoardStep(b) /\ round \in [Boards -> RoundRecord]
    BY <1>1, CouncilInv, CouncilTypeParts DEF CouncilInv, Moves, BoardStep
  <1>3. TypeOK'
    BY <1>2, BoardTypeStep
  <1>4. CouncilTypeOK'
    BY <1>1, <1>2, <1>3, CouncilInv DEF CouncilInv, CouncilTypeOK, RoundRecord
  <1>5. ASSUME NEW d \in Boards PROVE (Underway(d) /\ Spoken(d))'
    <2>1. CASE d = b
      <3>1. round'[b] = new /\ open'[b] /\ messages'[b] = 0
        BY <1>1, <1>2 DEF Open, TypeOK
      <3>2. MaxMessages >= 6
        BY RoomAssumption DEF CouncilAgents
      <3>3. QED
        BY <1>1, <2>1, <3>1, <3>2, MessagesAssumption DEF Underway, Spoken
    <2>2. CASE d # b
      <3>1. claims'[d] = claims[d] /\ open'[d] = open[d]
        BY <1>2, <2>2, MovesOwn
      <3>2. messages'[d] = messages[d] /\ round'[d] = round[d]
        BY <1>1, <1>2, <2>2 DEF Open, TypeOK
      <3>3. QED
        BY <1>1, <3>1, <3>2, CouncilInv DEF CouncilInv, Underway, Spoken
    <2>3. QED
      BY <2>1, <2>2
  <1>6. QED
    BY <1>4, <1>5 DEF CouncilInv

LEMMA CaseKeepsCouncil ==
    ASSUME CouncilInv, [CaseNext]_caseVars
    PROVE  CouncilInv'
  <1>1. ASSUME NEW b \in Boards, RecordRun(b) PROVE CouncilInv'
    <2>1. b \notin opened
      BY <1>1, CouncilInv DEF RecordRun, RecordWhen, CouncilInv, Underway
    <2>2. QED
      BY <1>1, <2>1, CouncilInv, BoardKeeps DEF RecordRun, BoardStep, fileVars
  <1>2. ASSUME NEW b \in Boards, RunDies(b) PROVE CouncilInv'
    BY <1>2, CouncilInv, BoardKeeps DEF RunDies, BoardStep
  <1>3. CASE UNCHANGED caseVars
    BY <1>3, CouncilInv DEF CouncilInv, CouncilTypeOK, TypeOK, Underway, Spoken,
       caseVars, vars, boardVars, councilVars, fileVars
  <1>4. QED
    BY <1>1, <1>2, <1>3, [CaseNext]_caseVars, CouncilInv, BeginRunKeeps, TurnKeeps,
       BuildPacketKeeps, OpenFileKeeps, WriteFileKeeps DEF CaseNext, CaseStep, RunRound

----------------------------------------------------------------------------
(* No scan promotes itself.                                                *)

\* What holds of every claim the pipeline has touched.
Plain(rec) ==
    /\ rec.status # "accepted"
    /\ rec.accepted_by = NoAgent
    /\ rec.repro = "unattempted"

ForReview(p) == p # NoPacket => p.status = "NEEDS_HUMAN_REVIEW"

Unpromoted ==
    /\ \A b \in Boards, c \in Claims : claims[b][c] # NoClaim => Plain(claims[b][c])
    /\ \A c \in Claims : journal[c] # NoClaim => Plain(journal[c])
    /\ \A b \in Boards : ForReview(round[b].packet)
    /\ \A c \in Claims, f \in Files : ForReview(bundle[c][f])

LEMMA UnpromotedStarts == CaseInit => Unpromoted
  BY IdleRound DEF CaseInit, CouncilInit, Init, Unpromoted, ForReview

\* No agent of the council reproduces or decides a plain claim.
LEMMA TurnLeavesPlain ==
    ASSUME NEW step \in 1 .. 6, NEW rec \in ClaimRecord, Plain(rec), NEW ctx,
           NEW type, type = MessageFrom(CouncilAgents[step], rec, ctx), NEW actor
    PROVE  type \notin Decisions /\ Plain(Applied(rec, type, actor, "attempted"))
  <1>1. ~Ready(rec, ctx)
    BY Plain(rec) DEF Plain, Ready
  <1>2. type \in MessageType \ (Decisions \cup {"repro_attempt"})
    BY <1>1, AgentMessage
  <1>3. type # "strategy_update" => StatusAfter(type) # "accepted"
    BY <1>2 DEF StatusAfter, MessageType, Decisions
  <1>4. QED
    BY <1>2, <1>3, Plain(rec) DEF Applied, Plain, ClaimRecord, Decisions

LEMMA TurnUnpromoted ==
    ASSUME CouncilInv, Unpromoted, NEW b \in Boards, AgentTurn(b)
    PROVE  Unpromoted'
  <1> DEFINE c     == round[b].claim
             rec   == Found(b, c)
             type  == MessageFrom(CouncilAgents[round[b].step], rec, round[b].ctx)
             after == Applied(rec, type, CouncilAgents[round[b].step], "attempted")
  <1>1. /\ c = round[b].claim /\ rec = Found(b, c)
        /\ type = MessageFrom(CouncilAgents[round[b].step], rec, round[b].ctx)
        /\ after = Applied(rec, type, CouncilAgents[round[b].step], "attempted")
    OBVIOUS
  <1> HIDE DEF after, type, rec, c
  <1>2. /\ round[b].step \in 1 .. 6 /\ c \in Claims
        /\ rec \in ClaimRecord /\ after \in ClaimRecord
        /\ UNCHANGED <<open, items, evidence, packets, fileVars>>
        /\ \/ CreationRaised(b, c)
           \/ DecisionRaised(b, c, after)
           \/ MessageApplied(b, c, type, after)
    BY <1>1, CouncilInv, AgentTurn(b), TurnShape
  <1>3. Plain(NewClaim) /\ Plain(rec)
    BY <1>1, <1>2, Unpromoted DEF Found, Unpromoted, Plain, NewClaim
  <1>4. type \notin Decisions /\ Plain(after)
    BY <1>1, <1>2, <1>3, TurnLeavesPlain
  <1>5. \E new \in {NewClaim, after} : claims' = [claims EXCEPT ![b][c] = new]
    BY <1>2 DEF CreationRaised, DecisionRaised, MessageApplied
  <1>6. journal' = journal \/ journal' = [journal EXCEPT ![c] = NewClaim]
    BY <1>2, <1>4 DEF CreationRaised, DecisionRaised, MessageApplied
  <1>7. /\ \A d \in Boards, e \in Claims : claims'[d][e] # NoClaim => Plain(claims'[d][e])
        /\ \A e \in Claims : journal'[e] # NoClaim => Plain(journal'[e])
    <2>1. PICK new \in {NewClaim, after} : claims' = [claims EXCEPT ![b][c] = new]
      BY <1>5
    <2>2. Plain(new)
      BY <1>3, <1>4
    <2>3. \A d \in Boards, e \in Claims : claims'[d][e] \in {claims[d][e], new}
      BY <1>2, <2>1, CouncilInv DEF CouncilInv, CouncilTypeOK, TypeOK
    <2>4. \A e \in Claims : journal'[e] \in {journal[e], NewClaim}
      BY <1>2, <1>6, CouncilInv DEF CouncilInv, CouncilTypeOK, TypeOK
    <2>5. QED
      BY <1>3, <2>2, <2>3, <2>4, Unpromoted DEF Unpromoted
  <1>8. \A d \in Boards : round'[d].packet = round[d].packet \/ round'[d].packet = NoPacket
    <2>1. round \in [Boards -> RoundRecord]
      BY CouncilInv, CouncilTypeParts DEF CouncilInv
    <2>2. \/ round' = [round EXCEPT ![b] = Idle]
          \/ round' = [round EXCEPT ![b] = [round[b] EXCEPT !.step = @ + 1]]
      BY <1>2 DEF CreationRaised, DecisionRaised, MessageApplied
    <2>3. QED
      BY <2>1, <2>2, IdleRound DEF RoundRecord
  <1>9. QED
    BY <1>2, <1>7, <1>8, Unpromoted DEF Unpromoted, ForReview, fileVars

LEMMA UnpromotedKeeps ==
    ASSUME CouncilInv, Unpromoted, [CaseNext]_caseVars
    PROVE  Unpromoted'
  <1>0. TypeOK /\ round \in [Boards -> RoundRecord]
    BY CouncilInv, CouncilTypeParts DEF CouncilInv
  <1>1. ASSUME NEW b \in Boards, NEW c \in Claims, NEW ctx \in BOOLEAN,
               BeginRun(b, c, ctx)
        PROVE  Unpromoted'
    BY <1>0, <1>1, Unpromoted DEF BeginRun, Open, Load, TypeOK, Unpromoted, ForReview, fileVars
  <1>2. ASSUME NEW b \in Boards, BuildPacket(b, TRUE)
        PROVE  Unpromoted'
    <2>1. PICK new \in RoundRecord :
             /\ round' = [round EXCEPT ![b] = new]
             /\ new.packet = PacketOf(b)
      BY <1>2, CouncilInv, Packed
    <2>2. PacketOf(b).status = "NEEDS_HUMAN_REVIEW"
      <3> DEFINE rec == claims[b][round[b].claim]
      <3>1. round[b].step = 7
        BY <1>2 DEF BuildPacket
      <3>2. Plain(rec) /\ rec.status = IF Ready(rec, round[b].ctx) THEN "accepted"
                                       ELSE "evidence_requested"
        BY <3>1, CouncilInv, Unpromoted DEF CouncilInv, Underway, Spoken, Unpromoted
      <3>3. rec.status = "evidence_requested"
        BY <3>2 DEF Plain
      <3>4. QED
        BY <3>3 DEF PacketOf, PacketStatus
    <2>3. UNCHANGED <<claims, journal, bundle>>
      BY <1>2 DEF BuildPacket, boardVars, fileVars
    <2>4. QED
      BY <1>0, <2>1, <2>2, <2>3, Unpromoted DEF Unpromoted, ForReview
  <1>3. ASSUME NEW b \in Boards, OpenFile(b)
        PROVE  Unpromoted'
    <2>1. PICK c \in Claims, f \in Files :
             bundle' = [bundle EXCEPT ![c][f] = round[b].packet]
      BY <1>3, CouncilInv, FileOpened
    <2>2. UNCHANGED <<boardVars, round>>
      BY <1>3, CouncilInv, FileOpened
    <2>3. \A d \in Claims, g \in Files : bundle'[d][g] \in {bundle[d][g], round[b].packet}
      BY <2>1, CouncilInv DEF CouncilInv, CouncilTypeOK
    <2>4. \A d \in Claims, g \in Files : ForReview(bundle'[d][g])
      BY <2>3, Unpromoted DEF Unpromoted, ForReview
    <2>5. QED
      BY <2>2, <2>4, Unpromoted DEF Unpromoted, ForReview, boardVars
  <1>4. ASSUME NEW b \in Boards, WriteFile(b)
        PROVE  Unpromoted'
    <2>1. UNCHANGED <<boardVars, bundle>>
      BY <1>4, CouncilInv, FileWritten
    <2>2. PICK new \in RoundRecord :
             round' = [round EXCEPT ![b] = new] /\ new.packet = round[b].packet
      BY <1>4, CouncilInv, FileWritten
    <2>3. \A d \in Boards : round'[d].packet = round[d].packet
      BY <1>0, <2>2
    <2>4. QED
      BY <2>1, <2>3, Unpromoted DEF Unpromoted, ForReview, boardVars
  <1>5. ASSUME NEW b \in Boards, Close(b), round' = [round EXCEPT ![b] = Idle],
               UNCHANGED bundle
        PROVE  Unpromoted'
    BY <1>0, <1>5, IdleRound, Unpromoted DEF Close, TypeOK, Unpromoted, ForReview
  <1>6. CASE UNCHANGED caseVars
    BY <1>6, Unpromoted
       DEF Unpromoted, ForReview, caseVars, vars, boardVars, councilVars, fileVars
  <1>7. QED
    BY <1>1, <1>2, <1>3, <1>4, <1>5, <1>6, [CaseNext]_caseVars, CouncilInv, Unpromoted,
       TurnUnpromoted DEF CaseNext, CaseStep, RunRound, RecordRun, RunDies, fileVars

LEMMA CaseStarts == CaseInit => CouncilInv
  BY CouncilStarts DEF CaseInit

\* However often cases are analysed, by however many overlapping runs, with
\* whatever crashes, failing appends and replays, the pipeline alone never
\* accepts a claim and never publishes a packet that calls one reproduced.
THEOREM NoSelfPromotion == CaseSpec => []NoScanPromotesItself
  <1>1. CouncilInv /\ Unpromoted /\ [CaseNext]_caseVars => (CouncilInv /\ Unpromoted)'
    BY CaseKeepsCouncil, UnpromotedKeeps
  <1>2. Unpromoted => NoScanPromotesItself
    BY DEF Unpromoted, NoScanPromotesItself, Held, Plain, ForReview
  <1>3. QED
    BY <1>1, <1>2, CaseStarts, UnpromotedStarts, PTL DEF CaseSpec

----------------------------------------------------------------------------
(* Ledgered cases are complete.                                            *)

\* A run that writes holds a packet; the files it has already opened exist, and
\* those it has written have their text unless another run has opened them since.
WritesAll(b) ==
    /\ round[b].step \in 8 .. 14 =>
          /\ round[b].packet # NoPacket
          /\ \A i \in 1 .. 6 : i < round[b].step - 7 =>
                /\ bundle[round[b].claim][FileOrder[i]] # NoPacket
                /\ bundle[round[b].claim][FileOrder[i]].id = round[b].packet.id
                      => FileOrder[i] \notin torn[round[b].claim]
    /\ b \in opened => bundle[round[b].claim][Due(b)] # NoPacket

\* The runs that have built their packet and are not in the ledger yet.
Writing == { b \in Boards : round[b].step \in 8 .. 14 }

\* Every entry of the ledger, and every run that may still add one, accounts for
\* a packet of its own.
Accounted == IsFiniteSet(Writing) /\ Len(ledger) + Cardinality(Writing) <= packets

\* The packets of two runs, and those of a run and of the ledger, differ.
OwnPackets ==
    /\ \A i \in 1 .. Len(ledger) : ledger[i].id <= packets
    /\ \A b \in Writing : /\ round[b].packet.id <= packets
                          /\ \A i \in 1 .. Len(ledger) : ledger[i].id # round[b].packet.id
    /\ \A b, d \in Writing : round[b].packet.id = round[d].packet.id => b = d

LedgerInv ==
    /\ CouncilInv
    /\ ledger \in Seq(LedgerEntry)
    /\ LedgeredCaseIsComplete
    /\ \A b \in Boards : WritesAll(b)
    /\ Accounted
    /\ OwnPackets

LEMMA LedgerStarts == CaseInit => LedgerInv
  <1> SUFFICES ASSUME CaseInit PROVE LedgerInv
    OBVIOUS
  <1>1. /\ ledger = <<>> /\ packets = 0 /\ opened = {}
        /\ \A b \in Boards : round[b].step = 0
    BY IdleRound DEF CaseInit, CouncilInit
  <1>2. Writing = {}
    BY <1>1 DEF Writing
  <1>3. Accounted
    BY <1>1, <1>2, FS_EmptySet DEF Accounted
  <1>4. OwnPackets
    BY <1>1, <1>2 DEF OwnPackets
  <1>5. QED
    BY <1>1, <1>3, <1>4, CaseStarts DEF LedgerInv, LedgeredCaseIsComplete, WritesAll

\* A run starts writing by building a packet and stops by leaving, with or
\* without an entry in the ledger.
LEMMA Recount ==
    ASSUME LedgerInv, NEW b \in Boards, NEW new \in RoundRecord,
           round' = [round EXCEPT ![b] = new], packets' \in Nat,
           IF new.step \in 8 .. 14 /\ round[b].step \notin 8 .. 14
           THEN packets' = packets + 1 /\ Len(ledger') = Len(ledger)
           ELSE /\ packets' = packets
                /\ \/ Len(ledger') = Len(ledger)
                   \/ /\ round[b].step \in 8 .. 14 /\ new.step \notin 8 .. 14
                      /\ Len(ledger') = Len(ledger) + 1
    PROVE  Accounted'
  <1>1. round \in [Boards -> RoundRecord] /\ packets \in Nat /\ Len(ledger) \in Nat
    BY LedgerInv, CouncilTypeParts DEF LedgerInv, CouncilInv, CouncilTypeOK
  <1>2. IsFiniteSet(Writing) /\ Len(ledger) + Cardinality(Writing) <= packets
    BY LedgerInv DEF LedgerInv, Accounted
  <1>3. Writing' = IF new.step \in 8 .. 14 THEN Writing \cup {b} ELSE Writing \ {b}
    BY <1>1 DEF Writing
  <1>4. b \in Writing <=> round[b].step \in 8 .. 14
    BY DEF Writing
  <1> DEFINE W == Writing
  <1> HIDE DEF W
  <1>5. IsFiniteSet(W) /\ Cardinality(W) \in Nat
    BY <1>2, FS_CardinalityType DEF W
  <1>6. /\ IsFiniteSet(W \cup {b})
        /\ Cardinality(W \cup {b}) = IF b \in W THEN Cardinality(W) ELSE Cardinality(W) + 1
    BY <1>5, FS_AddElement
  <1>7. /\ IsFiniteSet(W \ {b})
        /\ Cardinality(W \ {b}) = IF b \in W THEN Cardinality(W) - 1 ELSE Cardinality(W)
    BY <1>5, FS_RemoveElement
  <1>8. IsFiniteSet(Writing') /\ Len(ledger') + Cardinality(Writing') <= packets'
    <2>1. CASE new.step \in 8 .. 14
      <3>1. Writing' = W \cup {b}
        BY <1>3, <2>1 DEF W
      <3>2. QED
        BY <1>1, <1>2, <1>4, <1>5, <1>6, <2>1, <3>1 DEF W
    <2>2. CASE new.step \notin 8 .. 14
      <3>1. Writing' = W \ {b}
        BY <1>3, <2>2 DEF W
      <3>2. QED
        BY <1>1, <1>2, <1>4, <1>5, <1>7, <2>2, <3>1 DEF W
    <2>3. QED
      BY <2>1, <2>2
  <1>9. QED
    BY <1>8 DEF Accounted

\* A step of b that opens no file keeps the ledgered bundles, and the files of the
\* other runs.
LEMMA NothingOpened ==
    ASSUME LedgerInv, NEW b \in Boards, NEW new \in RoundRecord,
           round' = [round EXCEPT ![b] = new], bundle' = bundle,
           \A c \in Claims : torn'[c] \subseteq torn[c],
           opened' \subseteq opened
    PROVE  /\ ledger' = ledger => LedgeredCaseIsComplete'
           /\ \A d \in Boards : d # b => WritesAll(d)'
  <1>1. round \in [Boards -> RoundRecord] /\ ledger \in Seq(LedgerEntry)
    BY LedgerInv, CouncilTypeParts DEF LedgerInv, CouncilInv
  <1>2. \A i \in 1 .. Len(ledger) : ledger[i].case \in Claims
    <2>1. \A i \in 1 .. Len(ledger) : ledger[i] \in LedgerEntry
      BY <1>1
    <2>2. QED
      BY <2>1 DEF LedgerEntry
  <1>3. ledger' = ledger => LedgeredCaseIsComplete'
    BY <1>2, LedgerInv, bundle' = bundle, \A c \in Claims : torn'[c] \subseteq torn[c]
       DEF LedgerInv, LedgeredCaseIsComplete
  <1>4. ASSUME NEW d \in Boards, d # b PROVE WritesAll(d)'
    <2>1. round'[d] = round[d] /\ Due(d)' = Due(d)
      BY <1>1, <1>4, round' = [round EXCEPT ![b] = new] DEF Due
    <2>2. round[d].step # 0 => round[d].claim \in Claims
      BY LedgerInv DEF LedgerInv, CouncilInv, Underway
    <2>3. WritesAll(d)
      BY LedgerInv DEF LedgerInv
    <2>4. QED
      BY <2>1, <2>2, <2>3, bundle' = bundle, opened' \subseteq opened,
         \A c \in Claims : torn'[c] \subseteq torn[c] DEF WritesAll
  <1>5. QED
    BY <1>3, <1>4

\* A run that is not writing, before or after, or that keeps its packet.
LEMMA OwnKept ==
    ASSUME LedgerInv, NEW b \in Boards, NEW new \in RoundRecord,
           round' = [round EXCEPT ![b] = new], UNCHANGED <<packets, ledger>>,
           \/ new.step \notin 8 .. 14
           \/ round[b].step \in 8 .. 14 /\ new.packet = round[b].packet
    PROVE  OwnPackets'
  <1>1. round \in [Boards -> RoundRecord]
    BY LedgerInv, CouncilTypeParts DEF LedgerInv, CouncilInv
  <1>2. \A d \in Boards : d \in Writing' =>
           d \in Writing /\ round'[d].packet.id = round[d].packet.id
    BY <1>1, round' = [round EXCEPT ![b] = new],
       \/ new.step \notin 8 .. 14
       \/ round[b].step \in 8 .. 14 /\ new.packet = round[b].packet DEF Writing
  <1>3. Writing' \subseteq Boards
    BY DEF Writing
  <1>4. QED
    BY <1>2, <1>3, LedgerInv, UNCHANGED <<packets, ledger>> DEF LedgerInv, OwnPackets

LEMMA NotWriting ==
    ASSUME LedgerInv, CouncilInv', NEW b \in Boards, NEW new \in RoundRecord,
           round' = [round EXCEPT ![b] = new], new.step \notin 8 .. 14,
           UNCHANGED <<bundle, torn, packets, ledger>>, opened' \in {opened, opened \ {b}}
    PROVE  LedgerInv'
  <1>1. round \in [Boards -> RoundRecord] /\ packets \in Nat
    BY LedgerInv, CouncilTypeParts DEF LedgerInv, CouncilInv, CouncilTypeOK
  <1>2. WritesAll(b)'
    <2>1. round'[b] = new
      BY <1>1, round' = [round EXCEPT ![b] = new]
    <2>2. b \notin opened'
      BY <2>1, CouncilInv', new.step \notin 8 .. 14 DEF CouncilInv, Underway
    <2>3. QED
      BY <2>1, <2>2, new.step \notin 8 .. 14 DEF WritesAll
  <1>3. LedgeredCaseIsComplete' /\ \A d \in Boards : d # b => WritesAll(d)'
    <2>1. bundle' = bundle /\ opened' \subseteq opened /\ ledger' = ledger
          /\ \A c \in Claims : torn'[c] \subseteq torn[c]
      BY UNCHANGED <<bundle, torn, packets, ledger>>, opened' \in {opened, opened \ {b}}
    <2>2. QED
      BY <2>1, LedgerInv, round' = [round EXCEPT ![b] = new], NothingOpened
  <1>4. Accounted'
    BY <1>1, LedgerInv, round' = [round EXCEPT ![b] = new], new.step \notin 8 .. 14,
       UNCHANGED <<bundle, torn, packets, ledger>>, Recount
  <1>5. OwnPackets'
    BY LedgerInv, round' = [round EXCEPT ![b] = new], new.step \notin 8 .. 14,
       UNCHANGED <<bundle, torn, packets, ledger>>, OwnKept
  <1>6. QED
    BY <1>2, <1>3, <1>4, <1>5, LedgerInv, CouncilInv',
       UNCHANGED <<bundle, torn, packets, ledger>> DEF LedgerInv

\* The new packet has the next number, which no run and no entry has yet.
LEMMA PacketBuilt ==
    ASSUME LedgerInv, CouncilInv', NEW b \in Boards, BuildPacket(b, TRUE),
           ledger' = ledger
    PROVE  LedgerInv'
  <1>1. CouncilInv /\ round \in [Boards -> RoundRecord] /\ packets \in Nat
    BY LedgerInv, CouncilTypeParts DEF LedgerInv, CouncilInv, CouncilTypeOK
  <1>2. PICK new \in RoundRecord :
           /\ round' = [round EXCEPT ![b] = new] /\ new.step = 8
           /\ new.packet = PacketOf(b) /\ PacketOf(b) \in Packet
    BY <1>1, BuildPacket(b, TRUE), Packed
  <1>3. /\ round[b].step = 7 /\ packets' = packets + 1
        /\ UNCHANGED <<opened, bundle, torn>> /\ b \notin opened
    BY <1>1, BuildPacket(b, TRUE) DEF BuildPacket, fileVars, CouncilInv, Underway
  <1>4. round'[b] = new
    BY <1>1, <1>2
  <1>5. new.packet # NoPacket
    BY <1>2, NoPacketAssumption
  <1>6. WritesAll(b)'
    BY <1>2, <1>3, <1>4, <1>5 DEF WritesAll
  <1>7. LedgeredCaseIsComplete' /\ \A d \in Boards : d # b => WritesAll(d)'
    BY <1>2, <1>3, LedgerInv, ledger' = ledger, NothingOpened
  <1>8. Accounted'
    <2>1. /\ new.step \in 8 .. 14 /\ round[b].step \notin 8 .. 14
          /\ packets' \in Nat /\ Len(ledger') = Len(ledger)
      BY <1>1, <1>2, <1>3, ledger' = ledger
    <2>2. round' = [round EXCEPT ![b] = new] /\ packets' = packets + 1
      BY <1>2, <1>3
    <2>3. QED
      BY <2>1, <2>2, LedgerInv, Recount
  <1>9. OwnPackets'
    <2>1. new.packet.id = packets + 1
      BY <1>2 DEF PacketOf
    <2>2. \A d \in Boards : d # b => round'[d] = round[d]
      BY <1>1, <1>2
    <2>3. \A d \in Writing' : d = b \/ d \in Writing
      BY <2>2 DEF Writing
    <2>4. \A d \in Writing : d \in Boards /\ round[d].packet \in Packet
      BY <1>1, LedgerInv DEF LedgerInv, WritesAll, Writing, RoundRecord
    <2>5. \A d \in Writing : round[d].packet.id \in Nat
      BY <2>4 DEF Packet
    <2>6. \A i \in 1 .. Len(ledger) : ledger[i].id \in Nat
      <3>1. \A i \in 1 .. Len(ledger) : ledger[i] \in LedgerEntry
        BY LedgerInv DEF LedgerInv
      <3>2. QED
        BY <3>1, PacketsAssumption DEF LedgerEntry
    <2>7. \A i \in 1 .. Len(ledger) : ledger'[i].id <= packets' /\ ledger'[i].id # new.packet.id
      BY <1>1, <1>3, <2>1, <2>6, LedgerInv, ledger' = ledger DEF LedgerInv, OwnPackets
    <2>8. \A d \in Writing' : /\ round'[d].packet.id <= packets'
                              /\ \A i \in 1 .. Len(ledger') : ledger'[i].id # round'[d].packet.id
      <3>1. ASSUME NEW d \in Writing'
            PROVE  /\ round'[d].packet.id <= packets'
                   /\ \A i \in 1 .. Len(ledger') : ledger'[i].id # round'[d].packet.id
        <4>1. CASE d = b
          BY <1>1, <1>3, <1>4, <2>1, <2>7, <4>1, ledger' = ledger
        <4>2. CASE d # b
          <5>1. d \in Writing /\ d \in Boards /\ round'[d] = round[d]
            BY <2>2, <2>3, <2>4, <4>2
          <5>2. round[d].packet.id <= packets /\ round[d].packet.id \in Nat
            BY <2>5, <5>1, LedgerInv DEF LedgerInv, OwnPackets
          <5>3. QED
            BY <1>1, <1>3, <5>1, <5>2, LedgerInv, ledger' = ledger DEF LedgerInv, OwnPackets
        <4>3. QED
          BY <4>1, <4>2
      <3>2. QED
        BY <3>1
    <2>9. \A d, e \in Writing' : round'[d].packet.id = round'[e].packet.id => d = e
      <3>1. \A d \in Writing : d # b => round'[d].packet.id < packets + 1
        BY <1>1, <2>2, <2>4, <2>5, LedgerInv DEF LedgerInv, OwnPackets
      <3>2. \A d, e \in Writing : d # b /\ e # b /\ round'[d].packet.id = round'[e].packet.id
               => d = e
        BY <2>2, <2>4, LedgerInv DEF LedgerInv, OwnPackets
      <3>3. round'[b].packet.id = packets + 1 /\ ~(packets + 1 < packets + 1)
        BY <1>1, <1>4, <2>1
      <3>4. QED
        BY <2>3, <3>1, <3>2, <3>3
    <2>10. QED
      BY <2>7, <2>8, <2>9, ledger' = ledger DEF OwnPackets
  <1>10. QED
    BY <1>6, <1>7, <1>8, <1>9, LedgerInv, CouncilInv', ledger' = ledger DEF LedgerInv

\* An opened file exists, and is no longer one that another run opened last.
LEMMA RunOpensFile ==
    ASSUME LedgerInv, CouncilInv', NEW b \in Boards, OpenFile(b), ledger' = ledger
    PROVE  LedgerInv'
  <1>1. /\ CouncilInv /\ round \in [Boards -> RoundRecord] /\ packets \in Nat /\ FilesType
        /\ ledger \in Seq(LedgerEntry)
    BY LedgerInv, CouncilTypeParts DEF LedgerInv, CouncilInv, CouncilTypeOK
  <1>2. PICK c \in Claims, k \in 1 .. 6 :
           /\ c = round[b].claim /\ k = round[b].step - 7
           /\ Due(b) = FileOrder[k] /\ Due(b) \in Files
           /\ round[b].step \in 8 .. 13 /\ opened' = opened \cup {b}
           /\ bundle' = [bundle EXCEPT ![c][Due(b)] = round[b].packet]
           /\ torn' = [torn EXCEPT ![c] = @ \cup {Due(b)}]
           /\ UNCHANGED <<round, packets>>
    <2>1. /\ round[b].step \in 8 .. 13 /\ opened' = opened \cup {b} /\ Due(b) \in Files
          /\ round[b].claim \in Claims
          /\ bundle' = [bundle EXCEPT ![round[b].claim][Due(b)] = round[b].packet]
          /\ torn' = [torn EXCEPT ![round[b].claim] = @ \cup {Due(b)}]
          /\ UNCHANGED <<round, packets>>
      BY <1>1, OpenFile(b), FileOpened
    <2>2. round[b].step - 7 \in 1 .. 6 /\ Due(b) = FileOrder[round[b].step - 7]
      BY <1>1, <2>1, FileDue
    <2>3. QED
      BY <2>1, <2>2
  <1>3. PICK f \in Files : f = Due(b)
    BY <1>2
  <1>4. /\ \A d \in Claims, g \in Files :
              bundle'[d][g] = IF d = c /\ g = f THEN round[b].packet ELSE bundle[d][g]
        /\ \A d \in Claims, g \in Files :
              (d # c \/ g # f) /\ g \notin torn[d] => g \notin torn'[d]
    BY <1>1, <1>2, <1>3 DEF FilesType
  <1>5. round[b].packet # NoPacket /\ b \in Writing
    BY <1>2, LedgerInv DEF LedgerInv, WritesAll, Writing
  <1>6. \A d \in Claims, g \in Files : bundle[d][g] # NoPacket => bundle'[d][g] # NoPacket
    BY <1>4, <1>5
  <1>7. LedgeredCaseIsComplete'
    <2>1. ASSUME NEW i \in 1 .. Len(ledger), NEW g \in Files
          PROVE  /\ bundle'[ledger[i].case][g] # NoPacket
                 /\ bundle'[ledger[i].case][g].id = ledger[i].id
                       => g \notin torn'[ledger[i].case]
      <3>1. ledger[i].case \in Claims
        <4>1. ledger[i] \in LedgerEntry
          BY <1>1
        <4>2. QED
          BY <4>1 DEF LedgerEntry
      <3>2. /\ bundle[ledger[i].case][g] # NoPacket
            /\ bundle[ledger[i].case][g].id = ledger[i].id => g \notin torn[ledger[i].case]
        BY LedgerInv DEF LedgerInv, LedgeredCaseIsComplete
      <3>3. ledger[i].id # round[b].packet.id
        BY <1>5, LedgerInv DEF LedgerInv, OwnPackets
      <3>4. QED
        BY <1>4, <1>6, <3>1, <3>2, <3>3
    <2>2. QED
      BY <2>1, ledger' = ledger DEF LedgeredCaseIsComplete
  <1>8. ASSUME NEW d \in Boards PROVE WritesAll(d)'
    <2>1. round'[d] = round[d] /\ Due(d)' = Due(d)
      BY <1>2 DEF Due
    <2>2. round[d].step \in 8 .. 14 => round[d].claim \in Claims /\ d \in Writing
      BY <1>1 DEF CouncilInv, Underway, Writing
    <2>3. WritesAll(d)
      BY LedgerInv DEF LedgerInv
    <2>4. ASSUME NEW i \in 1 .. 6, round[d].step \in 8 .. 14, i < round[d].step - 7,
                 NEW e \in Claims, e = round[d].claim
          PROVE  /\ bundle'[e][FileOrder[i]] # NoPacket
                 /\ bundle'[e][FileOrder[i]].id = round[d].packet.id
                       => FileOrder[i] \notin torn'[e]
      <3>1. /\ bundle[e][FileOrder[i]] # NoPacket
            /\ bundle[e][FileOrder[i]].id = round[d].packet.id => FileOrder[i] \notin torn[e]
        BY <2>3, <2>4 DEF WritesAll
      <3>2. FileOrder[i] \in Files
        BY OrderOfFiles
      <3>3. CASE d = b
        <4>1. FileOrder[i] # f
          BY <1>2, <1>3, <2>4, <3>3, OrderOfFiles
        <4>2. QED
          BY <1>4, <1>6, <3>1, <3>2, <4>1
      <3>4. CASE d # b
        <4>1. round[b].packet.id # round[d].packet.id
          BY <1>5, <2>2, <2>4, <3>4, LedgerInv DEF LedgerInv, OwnPackets
        <4>2. QED
          BY <1>4, <1>6, <3>1, <3>2, <4>1
      <3>5. QED
        BY <3>3, <3>4
    <2>5. d \in opened' => bundle'[round[d].claim][Due(d)] # NoPacket
      <3>1. CASE d = b
        BY <1>2, <1>3, <1>4, <1>5, <3>1
      <3>2. CASE d # b
        <4>1. SUFFICES ASSUME d \in opened
                       PROVE  bundle'[round[d].claim][Due(d)] # NoPacket
          BY <1>2, <3>2
        <4>2. round[d].step \in 8 .. 13
          BY <1>1, <4>1 DEF CouncilInv, Underway
        <4>3. round[d].claim \in Claims /\ Due(d) \in Files
          BY <1>1, <4>2, FileDue
        <4>4. QED
          BY <1>6, <2>3, <4>1, <4>3 DEF WritesAll
      <3>3. QED
        BY <3>1, <3>2
    <2>6. QED
      BY <2>1, <2>2, <2>3, <2>4, <2>5 DEF WritesAll
  <1>9. Accounted' /\ OwnPackets'
    BY <1>2, LedgerInv, ledger' = ledger DEF LedgerInv, Accounted, OwnPackets, Writing
  <1>10. QED
    BY <1>7, <1>8, <1>9, LedgerInv, CouncilInv', ledger' = ledger DEF LedgerInv

LEMMA RunWritesFile ==
    ASSUME LedgerInv, CouncilInv', NEW b \in Boards, WriteFile(b), ledger' = ledger
    PROVE  LedgerInv'
  <1>1. CouncilInv /\ round \in [Boards -> RoundRecord] /\ packets \in Nat /\ FilesType
    BY LedgerInv, CouncilTypeParts DEF LedgerInv, CouncilInv, CouncilTypeOK
  <1>2. /\ round[b].step \in 8 .. 13 /\ round[b].claim \in Claims /\ Due(b) \in Files
        /\ b \in opened /\ opened' = opened \ {b}
        /\ torn' = [torn EXCEPT ![round[b].claim] = @ \ {Due(b)}]
        /\ UNCHANGED <<packets, bundle>>
    BY <1>1, WriteFile(b), FileWritten
  <1>3. PICK new \in RoundRecord :
           /\ round' = [round EXCEPT ![b] = new]
           /\ new.step = round[b].step + 1 /\ new.packet = round[b].packet
           /\ new.claim = round[b].claim
    BY <1>1, WriteFile(b), FileWritten
  <1>4. PICK c \in Claims, k \in 1 .. 6 :
           c = round[b].claim /\ k = round[b].step - 7 /\ Due(b) = FileOrder[k]
    BY <1>1, <1>2, FileDue
  <1>5. /\ \A d \in Claims : torn'[d] \subseteq torn[d]
        /\ FileOrder[k] \notin torn'[c]
    BY <1>1, <1>2, <1>4 DEF FilesType
  <1>6. LedgeredCaseIsComplete' /\ \A d \in Boards : d # b => WritesAll(d)'
    <2>1. bundle' = bundle /\ opened' \subseteq opened
      BY <1>2
    <2>2. QED
      BY <1>3, <1>5, <2>1, LedgerInv, ledger' = ledger, NothingOpened
  <1>7. WritesAll(b)'
    <2>1. round'[b] = new /\ b \notin opened'
      BY <1>1, <1>2, <1>3
    <2>2. /\ round[b].packet # NoPacket /\ bundle[c][FileOrder[k]] # NoPacket
          /\ \A i \in 1 .. 6 : i < k =>
                /\ bundle[c][FileOrder[i]] # NoPacket
                /\ bundle[c][FileOrder[i]].id = round[b].packet.id
                      => FileOrder[i] \notin torn[c]
      <3>1. WritesAll(b)
        BY LedgerInv DEF LedgerInv
      <3>2. QED
        BY <1>2, <1>4, <3>1 DEF WritesAll
    <2>3. ASSUME NEW i \in 1 .. 6, i < new.step - 7
          PROVE  /\ bundle'[c][FileOrder[i]] # NoPacket
                 /\ bundle'[c][FileOrder[i]].id = round[b].packet.id
                       => FileOrder[i] \notin torn'[c]
      <3>1. i < k \/ i = k
        BY <1>2, <1>3, <1>4, <2>3
      <3>2. CASE i < k
        BY <1>2, <1>5, <2>2, <3>2
      <3>3. CASE i = k
        BY <1>2, <1>5, <2>2, <3>3
      <3>4. QED
        BY <3>1, <3>2, <3>3
    <2>4. QED
      BY <1>3, <1>4, <2>1, <2>2, <2>3 DEF WritesAll
  <1>8. Accounted'
    <2>1. round[b].step \in 8 .. 14 /\ new.step \in 8 .. 14
      BY <1>2, <1>3
    <2>2. QED
      BY <1>1, <1>2, <1>3, <2>1, LedgerInv, ledger' = ledger, Recount
  <1>9. OwnPackets'
    <2>1. round[b].step \in 8 .. 14
      BY <1>2
    <2>2. QED
      BY <1>2, <1>3, <2>1, LedgerInv, ledger' = ledger, OwnKept
  <1>10. QED
    BY <1>6, <1>7, <1>8, <1>9, LedgerInv, CouncilInv', ledger' = ledger DEF LedgerInv

LEMMA RunRecorded ==
    ASSUME LedgerInv, CouncilInv', NEW b \in Boards, RecordRun(b)
    PROVE  LedgerInv'
  <1> DEFINE entry == [case |-> round[b].claim, id |-> round[b].packet.id,
                       status |-> round[b].packet.status]
  <1>1. /\ CouncilInv /\ round \in [Boards -> RoundRecord] /\ packets \in Nat
        /\ ledger \in Seq(LedgerEntry)
    BY LedgerInv, CouncilTypeParts DEF LedgerInv, CouncilInv, CouncilTypeOK
  <1>2. /\ round[b].step = 14 /\ ledger' = Append(ledger, entry)
        /\ round' = [round EXCEPT ![b] = Idle]
        /\ UNCHANGED <<packets, opened, bundle, torn>>
    BY RecordRun(b) DEF RecordRun, RecordWhen, fileVars
  <1>3. round[b].claim \in Claims /\ b \in Writing
    BY <1>1, <1>2 DEF CouncilInv, Underway, Writing
  <1>4. /\ round[b].packet # NoPacket
        /\ \A f \in Files : /\ bundle[round[b].claim][f] # NoPacket
                            /\ bundle[round[b].claim][f].id = round[b].packet.id
                                  => f \notin torn[round[b].claim]
    <2>1. WritesAll(b)
      BY LedgerInv DEF LedgerInv
    <2>2. /\ round[b].packet # NoPacket
          /\ \A i \in 1 .. 6 :
                /\ bundle[round[b].claim][FileOrder[i]] # NoPacket
                /\ bundle[round[b].claim][FileOrder[i]].id = round[b].packet.id
                      => FileOrder[i] \notin torn[round[b].claim]
      BY <1>2, <2>1 DEF WritesAll
    <2>3. QED
      BY <2>2, OrderOfFiles
  <1>5. entry \in LedgerEntry
    <2>1. round[b].packet \in Packet
      BY <1>1, <1>4 DEF RoundRecord
    <2>2. QED
      BY <1>3, <2>1 DEF LedgerEntry, Packet
  <1>6. entry.case = round[b].claim /\ entry.id = round[b].packet.id
    OBVIOUS
  <1> HIDE DEF entry
  <1>7. /\ ledger' \in Seq(LedgerEntry) /\ Len(ledger') = Len(ledger) + 1
        /\ \A i \in 1 .. Len(ledger) : ledger'[i] = ledger[i]
        /\ ledger'[Len(ledger) + 1] = entry
        /\ \A i \in 1 .. Len(ledger') : i \in 1 .. Len(ledger) \/ i = Len(ledger) + 1
    BY <1>1, <1>2, <1>5
  <1>8. LedgeredCaseIsComplete'
    BY <1>2, <1>4, <1>6, <1>7, LedgerInv DEF LedgerInv, LedgeredCaseIsComplete
  <1>9. \A d \in Boards : WritesAll(d)'
    <2>1. \A d \in Boards : d # b => WritesAll(d)'
      BY <1>2, IdleRound, LedgerInv, NothingOpened
    <2>2. WritesAll(b)'
      <3>1. round'[b].step = 0 /\ b \notin opened'
        BY <1>1, <1>2, IdleRound DEF CouncilInv, Underway
      <3>2. QED
        BY <3>1 DEF WritesAll
    <2>3. QED
      BY <2>1, <2>2
  <1>10. Accounted'
    <2>1. /\ Idle \in RoundRecord /\ Idle.step \notin 8 .. 14
          /\ round[b].step \in 8 .. 14 /\ packets' = packets /\ packets' \in Nat
          /\ Len(ledger') = Len(ledger) + 1
      BY <1>1, <1>2, <1>7, IdleRound
    <2>2. QED
      BY <2>1, <1>2, LedgerInv, Recount
  <1>11. OwnPackets'
    <2>1. \A d \in Writing' : d \in Writing /\ d # b /\ round'[d] = round[d]
      BY <1>1, <1>2, IdleRound DEF Writing
    <2>2. \A i \in 1 .. Len(ledger') : ledger'[i].id <= packets'
      BY <1>2, <1>3, <1>6, <1>7, LedgerInv DEF LedgerInv, OwnPackets
    <2>3. ASSUME NEW d \in Writing', NEW i \in 1 .. Len(ledger')
          PROVE  round'[d].packet.id <= packets' /\ ledger'[i].id # round'[d].packet.id
      BY <1>2, <1>3, <1>6, <1>7, <2>1, LedgerInv DEF LedgerInv, OwnPackets
    <2>4. \A d \in Writing' : round'[d].packet.id <= packets'
      BY <1>2, <2>1, LedgerInv DEF LedgerInv, OwnPackets
    <2>5. \A d, e \in Writing' : round'[d].packet.id = round'[e].packet.id => d = e
      BY <2>1, LedgerInv DEF LedgerInv, OwnPackets
    <2>6. QED
      BY <2>2, <2>3, <2>4, <2>5 DEF OwnPackets
  <1>12. QED
    BY <1>7, <1>8, <1>9, <1>10, <1>11, CouncilInv' DEF LedgerInv

LEMMA LedgerKeeps ==
    ASSUME LedgerInv, [CaseNext]_caseVars
    PROVE  LedgerInv'
  <1>1. /\ CouncilInv /\ CouncilInv' /\ round \in [Boards -> RoundRecord]
    BY LedgerInv, [CaseNext]_caseVars, CaseKeepsCouncil, CouncilTypeParts
       DEF LedgerInv, CouncilInv
  <1>2. ASSUME NEW b \in Boards, NEW c \in Claims, NEW ctx \in BOOLEAN,
               BeginRun(b, c, ctx)
        PROVE  LedgerInv'
    <2> DEFINE new == [step |-> 1, claim |-> c, ctx |-> ctx, packet |-> NoPacket]
    <2>1. /\ new \in RoundRecord /\ new.step \notin 8 .. 14
          /\ round' = [round EXCEPT ![b] = new]
          /\ UNCHANGED <<opened, bundle, torn, packets, ledger>>
      BY <1>2 DEF BeginRun, RoundRecord, fileVars
    <2> HIDE DEF new
    <2>2. round[b].step \notin 8 .. 14
      BY <1>1, <1>2 DEF BeginRun, Open, CouncilInv, Underway
    <2>3. QED
      BY <1>1, <2>1, <2>2, LedgerInv, NotWriting
  <1>3. ASSUME NEW b \in Boards, AgentTurn(b), ledger' = ledger
        PROVE  LedgerInv'
    <2> DEFINE next == [round[b] EXCEPT !.step = @ + 1]
    <2>1. round[b].step \in 1 .. 6 /\ UNCHANGED <<opened, bundle, torn, packets, ledger>>
      BY <1>3 DEF AgentTurn, fileVars
    <2>2. next \in RoundRecord /\ next.step \notin 8 .. 14
      BY <1>1, <2>1 DEF RoundRecord
    <2>3. Idle \in RoundRecord /\ Idle.step \notin 8 .. 14
      BY IdleRound
    <2>4. \E new \in {Idle, next} : round' = [round EXCEPT ![b] = new]
      BY <1>3 DEF AgentTurn
    <2> HIDE DEF next
    <2>5. PICK new \in RoundRecord :
             round' = [round EXCEPT ![b] = new] /\ new.step \notin 8 .. 14
      BY <2>2, <2>3, <2>4
    <2>6. QED
      BY <1>1, <2>1, <2>5, LedgerInv, NotWriting
  <1>4. ASSUME NEW b \in Boards, RunDies(b)
        PROVE  LedgerInv'
    <2>1. /\ Idle \in RoundRecord /\ Idle.step \notin 8 .. 14
          /\ round' = [round EXCEPT ![b] = Idle]
          /\ opened' = opened \ {b} /\ UNCHANGED <<bundle, torn, packets, ledger>>
      BY <1>4, IdleRound DEF RunDies
    <2>2. QED
      BY <1>1, <2>1, LedgerInv, NotWriting
  <1>5. ASSUME NEW b \in Boards, WriteFile(b), ledger' = ledger
        PROVE  LedgerInv'
    BY <1>1, <1>5, LedgerInv, RunWritesFile
  <1>6. CASE UNCHANGED caseVars
    BY <1>1, <1>6, LedgerInv DEF LedgerInv, LedgeredCaseIsComplete, WritesAll, Accounted,
       OwnPackets, Writing, Due, caseVars, vars, councilVars, fileVars
  <1>7. QED
    BY <1>1, <1>2, <1>3, <1>4, <1>5, <1>6, [CaseNext]_caseVars, LedgerInv, PacketBuilt,
       RunOpensFile, RunRecorded DEF CaseNext, CaseStep, RunRound

\* However runs overlap, die half way or fail: every case the ledger lists has
\* all six files of its bundle, and none that was opened last by a run in the
\* ledger is left without its text.
THEOREM LedgeredCasesComplete == CaseSpec => []LedgeredCaseIsComplete
  <1>1. LedgerInv /\ [CaseNext]_caseVars => LedgerInv'
    BY LedgerKeeps
  <1>2. LedgerInv => LedgeredCaseIsComplete
    BY DEF LedgerInv
  <1>3. QED
    BY <1>1, <1>2, LedgerStarts, PTL DEF CaseSpec

\* The state of the pipeline keeps its type, and the ledger has no more entries
\* than packets were built.
THEOREM CaseTyping == CaseSpec => []CaseTypeOK
  <1>1. LedgerInv /\ [CaseNext]_caseVars => LedgerInv'
    BY LedgerKeeps
  <1>2. LedgerInv => CaseTypeOK
    <2>1. SUFFICES ASSUME LedgerInv PROVE CaseTypeOK
      OBVIOUS
    <2>2. Len(ledger) + Cardinality(Writing) <= packets /\ Cardinality(Writing) \in Nat
      BY <2>1, FS_CardinalityType DEF LedgerInv, Accounted
    <2>3. packets <= MaxPackets /\ packets \in Nat /\ Len(ledger) \in Nat
      BY <2>1 DEF LedgerInv, CouncilInv, CouncilTypeOK
    <2>4. QED
      BY <2>1, <2>2, <2>3, PacketsAssumption DEF LedgerInv, CouncilInv, CaseTypeOK
  <1>3. QED
    BY <1>1, <1>2, LedgerStarts, PTL DEF CaseSpec
============================================================================
