--------------------------- MODULE CouncilRunner ---------------------------
(***************************************************************************)
(* A round of the council and the packet it leaves behind                  *)
(* (drift/trinity/council/council_runner.py, evidence_packet.py).          *)
(*                                                                         *)
(* run_round lets six agents act in a fixed order on one claim; each emits *)
(* one message, which the board applies before the next agent looks at the *)
(* claim.  The claim is then frozen into a packet, and the packet is       *)
(* written as six files, one after the other, into a directory that        *)
(* belongs to the claim.  Opening a file for writing empties it, so a      *)
(* write that breaks off, or that two boards make at once, leaves a file   *)
(* that cannot be read.  Between rounds the owner of the board may use     *)
(* every other operation of EvidenceBoard.                                 *)
(***************************************************************************)
EXTENDS EvidenceBoard, Sequences

CONSTANTS
    NoPacket,    \* "this file does not exist", "no packet has been built"
    MaxPackets   \* bound: packets ever built

ASSUME PacketsAssumption == MaxPackets \in Nat

PacketStatuses == { "REPRODUCED_REAL", "REJECTED", "NEEDS_HUMAN_REVIEW",
                    "INSUFFICIENT_EVIDENCE" }

Packet == [ id : 1 .. MaxPackets, refs : SUBSET Items, status : PacketStatuses ]

ASSUME NoPacketAssumption == NoPacket \notin Packet

VARIABLES
    round,    \* round[b]: the round that board b is in
    packets,  \* number of packets built so far; gives each packet an id
    opened,   \* boards whose round has opened the file it writes next
    bundle,   \* bundle[c][f]: packet that file f of claim c was last opened for
    torn,     \* torn[c]: files of claim c that were opened and not wholly written
    mixed     \* mixed[c]: files of claim c that were last written by boards that
              \* had them open at once; what they hold is anything

fileVars == <<opened, bundle, torn, mixed>>
councilVars == <<round, packets, fileVars>>
vars == <<boardVars, councilVars>>

\* Mutant: the evidence agent speaks before the contrarian.
AgentsEvidenceEarly ==
    << "FormalEdgeAgent", "FuzzMutationAgent", "ThreatModelAgent",
       "EvidenceAgent", "ContrarianAgent", "StrategyEvolutionAgent" >>

\* CouncilRunner.agents: the order in which they act.
CouncilAgents ==
    << "FormalEdgeAgent", "FuzzMutationAgent", "ThreatModelAgent",
       "ContrarianAgent", "EvidenceAgent", "StrategyEvolutionAgent" >>

\* Mutant: packet.json is published before the claim it describes.
FilesPacketFirst == << "packet.json", "claim.json", "rejected_hypotheses.json",
                       "manifest.json", "reasoning_summary.md",
                       "export_report.md" >>

\* write_bundle: the order of the six writes.
FileOrder == << "claim.json", "rejected_hypotheses.json", "packet.json",
                "manifest.json", "reasoning_summary.md", "export_report.md" >>

Files == { "claim.json", "rejected_hypotheses.json", "packet.json",
           "manifest.json", "reasoning_summary.md", "export_report.md" }

\* Steps of a round: 1..6 an agent acts, 7 the packet is built, 8..13 a file
\* is written, 14 run_round returns, 0 no round is in progress.
Idle == [step |-> 0, claim |-> NoClaim, ctx |-> FALSE, packet |-> NoPacket]

CouncilInit ==
    /\ Init
    /\ round = [b \in Boards |-> Idle]
    /\ packets = 0
    /\ opened = {}
    /\ bundle = [c \in Claims |-> [f \in Files |-> NoPacket]]
    /\ torn = [c \in Claims |-> {}]
    /\ mixed = [c \in Claims |-> {}]

----------------------------------------------------------------------------
\* Mutant: evidence alone is enough.
ReadyWithoutRepro(rec, ctx) == rec.refs # {} \/ ctx

\* EvidenceAgent's test.  ctx: the context of the round carries evidence_refs
\* (those are counted here but never attached to the claim).
Ready(rec, ctx) == (rec.refs # {} \/ ctx) /\ rec.repro = "reproduced"

\* The message each agent emits for the claim it finds on the board.
MessageFrom(agent, rec, ctx) ==
    CASE agent = "FormalEdgeAgent"   -> "claim_refinement"
      [] agent = "FuzzMutationAgent" -> "evidence_request"
      [] agent = "ThreatModelAgent"  -> "challenge"
      [] agent = "ContrarianAgent"   -> "challenge"
      [] agent = "EvidenceAgent"     -> IF Ready(rec, ctx) THEN "accept"
                                        ELSE "evidence_request"
      [] agent = "StrategyEvolutionAgent" -> "strategy_update"

\* Mutant: the packet shows the claim's own status when no rule applies.
PacketStatusRaw(rec) ==
    IF rec.status = "accepted" /\ rec.repro = "reproduced"
    THEN "REPRODUCED_REAL" ELSE rec.status

\* TrinityEvidencePacket.status
PacketStatus(rec) ==
    IF rec.status = "accepted" /\ rec.repro = "reproduced"
    THEN "REPRODUCED_REAL"
    ELSE IF rec.status = "rejected"
    THEN "REJECTED"
    ELSE IF rec.refs # {} \/ rec.status \in {"challenged", "evidence_requested",
                                             "repro_attempted", "accepted"}
    THEN "NEEDS_HUMAN_REVIEW"
    ELSE "INSUFFICIENT_EVIDENCE"

----------------------------------------------------------------------------
\* run_round is called with the id of a claim, on the board or not, while the
\* bounds leave room for its messages and its packet.
StartRound(b, c, ctx) ==
    /\ open[b]
    /\ round[b].step = 0
    /\ messages[b] + 6 <= MaxMessages
    /\ packets < MaxPackets
    /\ round' = [round EXCEPT ![b] = [step |-> 1, claim |-> c, ctx |-> ctx,
                                      packet |-> NoPacket]]
    /\ UNCHANGED <<boardVars, packets, fileVars>>

\* One agent: _ensure_claim, act, board.add_message.  An append that raises
\* leaves run_round with the claim already changed in memory.
AgentTurn(b) ==
    LET r     == round[b]
        agent == CouncilAgents[r.step]
        fresh == claims[b][r.claim] = NoClaim
        rec   == IF fresh THEN NewClaim ELSE claims[b][r.claim]
        type  == MessageFrom(agent, rec, r.ctx)
        after == Applied(rec, type, agent, "attempted")
    IN
    /\ open[b]
    /\ r.step \in 1 .. 6
    /\ \E ok \in AppendOutcomes :
          IF fresh /\ ~ok
          THEN \* create_claim raised: no message follows
               /\ claims' = [claims EXCEPT ![b][r.claim] = NewClaim]
               /\ round' = [round EXCEPT ![b] = Idle]
               /\ UNCHANGED <<messages, journal>>
          ELSE /\ claims' = [claims EXCEPT ![b][r.claim] = after]
               /\ messages' = [messages EXCEPT ![b] = @ + 1]
               /\ round' = [round EXCEPT ![b] =
                              IF type \in Decisions /\ ~ok THEN Idle
                              ELSE [r EXCEPT !.step = @ + 1]]
               /\ IF fresh
                  THEN journal' = [journal EXCEPT ![r.claim] = NewClaim]
                  ELSE Persist(r.claim, after, type, ok)
    /\ UNCHANGED <<open, items, evidence, packets, fileVars>>

\* The packet freezes the claim (of which its status and its evidence refs
\* matter below); without an output_dir the round ends here.
BuildPacket(b, outputDir) ==
    LET rec == claims[b][round[b].claim] IN
    /\ open[b]
    /\ round[b].step = 7
    /\ packets < MaxPackets
    /\ packets' = packets + 1
    /\ round' = [round EXCEPT ![b] =
                   [round[b] EXCEPT !.step = IF outputDir THEN 8 ELSE 14,
                                    !.packet = [id |-> packets + 1,
                                                refs |-> rec.refs,
                                                status |-> PacketStatus(rec)]]]
    /\ UNCHANGED <<boardVars, fileVars>>

\* The file that the round of b writes next.
Due(b) == FileOrder[round[b].step - 7]

\* The other boards that are writing file f of claim c.
Inside(c, f) == { d \in opened : round[d].claim = c /\ Due(d) = f }

\* write_bundle, one write_text at a time.  First the file is opened, which
\* empties it.  Two boards that have it open both write from its start, whatever
\* the other has written or emptied meanwhile.
OpenFile(b) ==
    LET c == round[b].claim
        f == Due(b)
    IN
    /\ open[b]
    /\ round[b].step \in 8 .. 13
    /\ b \notin opened
    /\ opened' = opened \cup {b}
    /\ bundle' = [bundle EXCEPT ![c][f] = round[b].packet]
    /\ torn' = [torn EXCEPT ![c] = @ \cup {f}]
    /\ mixed' = [mixed EXCEPT ![c] = IF Inside(c, f) = {} THEN @ \ {f} ELSE @ \cup {f}]
    /\ UNCHANGED <<boardVars, round, packets>>

\* Then the text is written and the file closed.
WriteFile(b) ==
    /\ open[b]
    /\ b \in opened
    /\ opened' = opened \ {b}
    /\ round' = [round EXCEPT ![b].step = @ + 1]
    /\ torn' = [torn EXCEPT ![round[b].claim] = @ \ {Due(b)}]
    /\ UNCHANGED <<boardVars, packets, bundle, mixed>>

\* run_round returns, or opening or writing a file raises (full disk, lost
\* permission) and the exception leaves it; either way the caller keeps its board.
Return(b) ==
    /\ open[b]
    /\ round[b].step \in 8 .. 14
    /\ round' = [round EXCEPT ![b] = Idle]
    /\ opened' = opened \ {b}
    /\ UNCHANGED <<boardVars, packets, bundle, torn, mixed>>

\* The process dies in the middle of a round.
CrashInRound(b) ==
    /\ round[b].step # 0
    /\ Close(b)
    /\ round' = [round EXCEPT ![b] = Idle]
    /\ opened' = opened \ {b}
    /\ UNCHANGED <<packets, bundle, torn, mixed>>

\* Everything else the owner of a board does, between rounds.  Bound: when the
\* last packet is out, the board is only closed and opened again.
BetweenRounds(b) ==
    /\ round[b].step = 0
    /\ BoardStep(b)
    /\ packets = MaxPackets => open'[b] # open[b]
    /\ UNCHANGED councilVars

CouncilStep(b) ==
    \/ \E c \in Claims, ctx \in BOOLEAN : StartRound(b, c, ctx)
    \/ AgentTurn(b)
    \/ \E outputDir \in BOOLEAN : BuildPacket(b, outputDir)
    \/ OpenFile(b)
    \/ WriteFile(b)
    \/ Return(b)
    \/ CrashInRound(b)
    \/ BetweenRounds(b)

CouncilNext == \E b \in Boards : CouncilStep(b)

CouncilSpec == CouncilInit /\ [][CouncilNext]_vars

----------------------------------------------------------------------------
(* Properties.                                                             *)

CouncilTypeOK ==
    /\ TypeOK
    /\ round \in [Boards -> [ step : 0 .. 14, claim : Claims \cup {NoClaim},
                              ctx : BOOLEAN, packet : Packet \cup {NoPacket} ]]
    /\ packets \in 0 .. MaxPackets
    /\ opened \in SUBSET Boards
    /\ bundle \in [Claims -> [Files -> Packet \cup {NoPacket}]]
    /\ torn \in [Claims -> SUBSET Files]
    /\ mixed \in [Claims -> SUBSET Files]

\* When the agents have spoken, the claim is accepted exactly when the evidence
\* agent could accept it, and otherwise waits for evidence - whatever state the
\* claim was in when the round began (accepted earlier, rejected, challenged,
\* reloaded from the journal).
RoundOutcome ==
    \A b \in Boards :
       round[b].step >= 7 =>
          LET rec == claims[b][round[b].claim] IN
          /\ rec # NoClaim
          /\ rec.status = IF Ready(rec, round[b].ctx) THEN "accepted"
                          ELSE "evidence_requested"

\* Across crashes between any two writes, nothing published calls a claim
\* reproduced unless the journal carries EvidenceAgent's acceptance of it.
\* Holds for a board that has the journal to itself, with appends that either
\* happen or raise.
PublishedIsJournalled ==
    \A c \in Claims, f \in Files :
       bundle[c][f] # NoPacket /\ bundle[c][f].status = "REPRODUCED_REAL" =>
          journal[c] # NoClaim /\ journal[c].accepted_by = EvidenceAgent

\* The id of the packet a file was last opened for, 0 when it does not exist.
Version(c, f) == IF bundle[c][f] = NoPacket THEN 0 ELSE bundle[c][f].id

\* The files of c that cannot be read.
Spoilt(c) == torn[c] \cup mixed[c]

\* File f was written after file g: g is at least as new, and is newer when it
\* cannot be read.
WrittenAfter(c, f, g) ==
    IF g \in Spoilt(c) THEN Version(c, f) < Version(c, g)
                       ELSE Version(c, f) <= Version(c, g)

\* A reader of the bundle relies on packet.json: the claim and the rejected
\* hypotheses beside it are never older, nor is the packet older than manifest
\* and report; and one of them that cannot be read was spoilt by a newer packet,
\* never left so by its own - after any crash, failed write or re-run of a case
\* that one process works on.
NeverAheadOfClaim ==
    \A c \in Claims :
       /\ WrittenAfter(c, "packet.json", "claim.json")
       /\ WrittenAfter(c, "packet.json", "rejected_hypotheses.json")
       /\ WrittenAfter(c, "manifest.json", "packet.json")
       /\ WrittenAfter(c, "export_report.md", "manifest.json")

\* A claim's journal and bundle as a reader sees them.
AcceptedClaims == { c \in Claims : journal[c] # NoClaim
                                     /\ journal[c].accepted_by = EvidenceAgent }

ShownFile(c, f) ==
    IF bundle[c][f] = NoPacket
    THEN [state |-> "missing", version |-> 0, reproduced |-> FALSE]
    ELSE IF f \in Spoilt(c)
    THEN [state |-> "torn", version |-> bundle[c][f].id, reproduced |-> FALSE]
    ELSE [state |-> "whole", version |-> bundle[c][f].id,
          reproduced |-> bundle[c][f].status = "REPRODUCED_REAL"]

ShownFiles == [c \in Claims |-> [f \in Files |-> ShownFile(c, f)]]

Kept == INSTANCE Dossier WITH
            accepted <- AcceptedClaims, issued <- packets, files <- ShownFiles

\* Rounds, calls, failing appends and writes, crashes and re-openings of a board
\* that has its journal to itself amount to accepting claims and opening and
\* writing versions of their files in the order a reader relies on.
KeepsDossier == Kept!DossierSpec

\* "claim verified with evidence and reproduction" (council_runner.py:175): a
\* packet that calls a claim reproduced lists the evidence for it.
VerifiedWithEvidence ==
    \A b \in Boards :
       round[b].packet # NoPacket
          /\ round[b].packet.status = "REPRODUCED_REAL" =>
             round[b].packet.refs # {}
============================================================================
