-------------------------- MODULE MCCouncilRunner --------------------------
(* Small instances of CouncilRunner.                                       *)
EXTENDS CouncilRunner, TLC

\* The acceptance authority and one other member of the council.
TwoAgents == {"EvidenceAgent", "ThreatModelAgent"}

AlwaysAppended == {TRUE}
============================================================================
