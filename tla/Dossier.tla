------------------------------- MODULE Dossier -------------------------------
(***************************************************************************)
(* What the council promises to whoever reads the journal and the bundle   *)
(* of a claim, without boards, agents, messages or rounds: an acceptance   *)
(* is never taken back; every version of a bundle is newer than the one    *)
(* before; a file says that the claim is reproduced only once the claim is *)
(* accepted; and a file that its reader checks against others is opened    *)
(* and written after those, and says what they say.  Writing may stop      *)
(* anywhere, also with a file opened and not written, which its reader     *)
(* then finds torn, and start again with a new version.                    *)
(***************************************************************************)
EXTENDS Naturals

CONSTANT Claims

Files == { "claim.json", "rejected_hypotheses.json", "packet.json",
           "manifest.json", "reasoning_summary.md", "export_report.md" }

\* The files a reader of f finds beside it.
Beside(f) ==
    CASE f = "packet.json"      -> {"claim.json", "rejected_hypotheses.json"}
      [] f = "manifest.json"    -> {"packet.json"}
      [] f = "export_report.md" -> {"manifest.json"}
      [] OTHER                  -> {}

VARIABLES
    accepted,   \* claims that the journal says EvidenceAgent accepted
    issued,     \* versions issued so far
    files       \* files[c][f]: state, version and verdict of file f of claim c

dossierVars == <<accepted, issued, files>>

Missing == [state |-> "missing", version |-> 0, reproduced |-> FALSE]
Torn(v) == [state |-> "torn", version |-> v, reproduced |-> FALSE]
Whole(v, verdict) == [state |-> "whole", version |-> v, reproduced |-> verdict]

DossierInit ==
    /\ accepted = {}
    /\ issued = 0
    /\ files = [c \in Claims |-> [f \in Files |-> Missing]]

Accept(c) ==
    /\ accepted' = accepted \cup {c}
    /\ UNCHANGED <<issued, files>>

Issue ==
    /\ issued' = issued + 1
    /\ UNCHANGED <<accepted, files>>

\* Only the latest version is written.  A file is opened, which empties it, once
\* the files beside it are whole and of that version.
Empty(c, f) ==
    /\ \A g \in Beside(f) : \E verdict \in BOOLEAN : files[c][g] = Whole(issued, verdict)
    /\ files' = [files EXCEPT ![c][f] = Torn(issued)]
    /\ UNCHANGED <<accepted, issued>>

\* The file gets its text.
Write(c, f, verdict) ==
    /\ files[c][f] = Torn(issued)
    /\ verdict => c \in accepted
    /\ \A g \in Beside(f) : files[c][g] = Whole(issued, verdict)
    /\ files' = [files EXCEPT ![c][f] = Whole(issued, verdict)]
    /\ UNCHANGED <<accepted, issued>>

DossierNext ==
    \/ Issue
    \/ \E c \in Claims :
          \/ Accept(c)
          \/ \E f \in Files : Empty(c, f)
          \/ \E f \in Files, verdict \in BOOLEAN : Write(c, f, verdict)

DossierSpec == DossierInit /\ [][DossierNext]_dossierVars
=============================================================================
