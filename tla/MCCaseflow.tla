---------------------------- MODULE MCCaseflow ----------------------------
(* Small instances of Caseflow.                                            *)
EXTENDS Caseflow, TLC

\* The other agents of the council are not needed as senders: runs only send
\* through AgentTurn.
TwoAgents == {"EvidenceAgent", "ThreatModelAgent"}

MayFail == {TRUE, FALSE}

RunSymmetry == Permutations(Boards)
============================================================================
