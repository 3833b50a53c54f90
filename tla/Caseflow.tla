------------------------------ MODULE Caseflow ------------------------------
(***************************************************************************)
(* ANCHOR / Trinity case runs (drift/trinity/caseflow.py), as the HTTP API *)
(* starts them: each request runs run_case_from_scan in a thread of its    *)
(* own, with its own board on the journal of the case, so runs of one case *)
(* share the journal, the bundle directory and the ledger and nothing      *)
(* orders their writes.                                                    *)
(*                                                                         *)
(* A run is a board of CouncilRunner: it opens the journal, lets the       *)
(* council speak once, writes the bundle and appends one ledger entry.  It *)
(* may die at any point, and the case may be analysed again.               *)
(*                                                                         *)
(* Runs with write_bundle = False keep their board in memory and share     *)
(* nothing but the ledger; they are left out.                              *)
(***************************************************************************)
EXTENDS CouncilRunner

\* The bound on messages leaves a run the six messages of its round.
ASSUME RoomAssumption == MaxMessages >= Len(CouncilAgents)

VARIABLE ledger    \* entries of the case ledger, oldest first

caseVars == <<vars, ledger>>

CaseInit == CouncilInit /\ ledger = <<>>

\* run_case_from_scan up to the first agent: the board is built on the case's
\* journal and the scan decides whether the context carries evidence refs.
BeginRun(b, c, ctx) ==
    /\ packets < MaxPackets
    /\ Open(b)
    /\ round' = [round EXCEPT ![b] = [step |-> 1, claim |-> c, ctx |-> ctx,
                                      packet |-> NoPacket]]
    /\ UNCHANGED <<packets, fileVars, ledger>>

RunRound(b) ==
    /\ \/ AgentTurn(b)
       \/ BuildPacket(b, TRUE)
       \/ OpenFile(b)
       \/ WriteFile(b)
    /\ UNCHANGED ledger

\* Mutant: the run is recorded as soon as its packet exists.
RecordEarly(b) == round[b].step \in 8 .. 14

\* ledger.append comes after run_round has returned.
RecordWhen(b) == round[b].step = 14

\* ledger.append; then the run returns and its board is dropped.
RecordRun(b) ==
    /\ RecordWhen(b)
    /\ ledger' = Append(ledger, [case   |-> round[b].claim,
                                 id     |-> round[b].packet.id,
                                 status |-> round[b].packet.status])
    /\ Close(b)
    /\ round' = [round EXCEPT ![b] = Idle]
    /\ UNCHANGED <<packets, fileVars>>

\* The run raises (an append or a write failed) or its process dies.
RunDies(b) ==
    /\ Close(b)
    /\ round' = [round EXCEPT ![b] = Idle]
    /\ opened' = opened \ {b}
    /\ UNCHANGED <<packets, bundle, torn, mixed, ledger>>

CaseStep(b) ==
    \/ \E c \in Claims, ctx \in BOOLEAN : BeginRun(b, c, ctx)
    \/ RunRound(b)
    \/ RecordRun(b)
    \/ RunDies(b)

CaseNext == \E b \in Boards : CaseStep(b)

CaseSpec == CaseInit /\ [][CaseNext]_caseVars

----------------------------------------------------------------------------
(* Properties.                                                             *)

LedgerEntry == [ case : Claims, id : 1 .. MaxPackets, status : PacketStatuses ]

CaseTypeOK ==
    /\ CouncilTypeOK
    /\ ledger \in Seq(LedgerEntry)
    /\ Len(ledger) <= MaxPackets

\* No scan promotes itself: however often cases are analysed, by however many
\* overlapping runs, with whatever crashes and replays of the journal, the
\* pipeline alone never accepts a claim and never publishes a packet that
\* calls one reproduced.  A person or tool using the board has to attach the
\* reproduction.
NoScanPromotesItself ==
    /\ \A rec \in Held :
          rec # NoClaim => rec.status # "accepted" /\ rec.accepted_by = NoAgent
    /\ \A c \in Claims, f \in Files :
          bundle[c][f] # NoPacket => bundle[c][f].status = "NEEDS_HUMAN_REVIEW"

\* All six files of a case the ledger lists exist, and a file last opened by a run
\* that the ledger lists has its text: however runs overlap and wherever they die,
\* an emptied file there is the work of a run that is still in it or died in it.
LedgeredCaseIsComplete ==
    \A i \in 1 .. Len(ledger), f \in Files :
       LET c == ledger[i].case IN
       /\ bundle[c][f] # NoPacket
       /\ bundle[c][f].id = ledger[i].id => f \notin torn[c]
=============================================================================
