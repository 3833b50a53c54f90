--------------------------- MODULE EvidenceBoard ---------------------------
(***************************************************************************)
(* The council's evidence board                                            *)
(* (drift/trinity/council/evidence_board.py, forge_council_schema.py).     *)
(*                                                                         *)
(* A board is an object of one process: it keeps claims and evidence in    *)
(* memory and appends to a JSONL journal.  Several boards may be open on   *)
(* one journal (two requests that analyse the same case each build their   *)
(* own).  Only some operations append: creation, accept, reject and        *)
(* memory_update write the whole claim, add_evidence writes the evidence   *)
(* record alone, and every other transition lives in memory until the      *)
(* board is closed.                                                        *)
(*                                                                         *)
(* A replay keeps the last record of each claim id and the set of evidence *)
(* ids, so the journal is represented by exactly those.                    *)
(***************************************************************************)
EXTENDS Naturals, FiniteSets

CONSTANTS
    Boards,          \* the EvidenceBoard objects (one per run of a process)
    Claims,          \* claim ids
    Items,           \* evidence item ids
    Agents,          \* names a message or a call may carry as its actor
    NoClaim,         \* "this id is not on the board"
    NoAgent,         \* accepted_by = None
    AppendOutcomes,  \* {TRUE}, or BOOLEAN when an append may raise OSError
    MaxMessages      \* bound: messages one opened board receives

EvidenceAgent == "EvidenceAgent"

ASSUME AgentsAssumption == EvidenceAgent \in Agents /\ NoAgent \notin Agents
ASSUME OutcomesAssumption == AppendOutcomes \subseteq BOOLEAN
ASSUME MessagesAssumption == MaxMessages \in Nat

Status == { "proposed", "challenged", "evidence_requested", "repro_attempted",
            "accepted", "rejected", "memory_updated" }

MessageType == { "proposal", "claim_refinement", "challenge",
                 "evidence_request", "repro_attempt", "accept", "reject",
                 "memory_update", "strategy_update" }

\* The message types whose handler appends the claim to the journal.
Decisions == { "accept", "reject", "memory_update" }

\* reproduction_status; "confirmed" and "reproduced" are tested together
\* everywhere, so they are one value here.
Repro == { "unattempted", "attempted", "reproduced" }

ClaimRecord == [ status         : Status,
                 refs           : SUBSET Items,
                 repro          : Repro,
                 accepted_by    : Agents \cup {NoAgent},
                 memory_updated : BOOLEAN ]

ASSUME NoClaimAssumption == NoClaim \notin ClaimRecord

VARIABLES
    open,      \* open[b]: board b has been constructed and not discarded
    claims,    \* claims[b][c]: the claim in the memory of b, or NoClaim
    items,     \* items[b]: ids in b.evidence_items
    messages,  \* messages[b]: length of b.messages
    journal,   \* journal[c]: last claim record of c in the file, or NoClaim
    evidence   \* evidence ids that have a record in the file

boardVars == <<open, claims, items, messages, journal, evidence>>

NewClaim == [ status |-> "proposed", refs |-> {}, repro |-> "unattempted",
              accepted_by |-> NoAgent, memory_updated |-> FALSE ]

Init ==
    /\ open = [b \in Boards |-> FALSE]
    /\ claims = [b \in Boards |-> [c \in Claims |-> NoClaim]]
    /\ items = [b \in Boards |-> {}]
    /\ messages = [b \in Boards |-> 0]
    /\ journal = [c \in Claims |-> NoClaim]
    /\ evidence = {}

----------------------------------------------------------------------------
(* Effects of one operation on one claim record.                           *)

\* ClaimStatus a message of this type leads to.
StatusAfter(type) ==
    CASE type \in {"proposal", "claim_refinement"} -> "proposed"
      [] type = "challenge"        -> "challenged"
      [] type = "evidence_request" -> "evidence_requested"
      [] type = "repro_attempt"    -> "repro_attempted"
      [] type = "accept"           -> "accepted"
      [] type = "reject"           -> "rejected"
      [] type = "memory_update"    -> "memory_updated"

\* Mutant: the promotion check looks at the wrong status.
RefusedWhenRejecting(type, actor) == type = "reject" /\ actor # EvidenceAgent

\* ClaimRecord.transition raises PermissionError.
Refused(type, actor) == type = "accept" /\ actor # EvidenceAgent

\* Mutant: every transition rewrites accepted_by.
AppliedClearsStamp(rec, type, actor, outcome) ==
    [ rec EXCEPT !.status = IF type = "strategy_update" THEN @
                            ELSE StatusAfter(type),
                 !.accepted_by = IF type = "accept" THEN actor ELSE NoAgent ]

\* The claim after _apply_message; outcome is the status a repro_attempt
\* carries.
Applied(rec, type, actor, outcome) ==
    IF type = "strategy_update"
    THEN rec
    ELSE [ rec EXCEPT
             !.status = StatusAfter(type),
             !.repro = IF type = "repro_attempt" THEN outcome ELSE @,
             !.accepted_by = IF type = "accept" THEN actor ELSE @,
             !.memory_updated = @ \/ type = "memory_update" ]

\* Mutant: decisions are only kept in memory.
PersistNothing(c, rec, type, ok) == UNCHANGED journal

\* _append_record("claim", ...) when the handler of this type makes the call;
\* ok is false when the append raised after memory was changed.
Persist(c, rec, type, ok) ==
    journal' = IF type \in Decisions /\ ok
               THEN [journal EXCEPT ![c] = rec] ELSE journal

----------------------------------------------------------------------------
(* Operations of one board.                                                *)

\* Mutant: _load keeps the claim records and skips the evidence records.
LoadClaimsOnly(b) ==
    /\ claims' = [claims EXCEPT ![b] = journal]
    /\ items' = [items EXCEPT ![b] = {}]

\* _load: replay the journal into an empty board.
Load(b) ==
    /\ claims' = [claims EXCEPT ![b] = journal]
    /\ items' = [items EXCEPT ![b] = evidence]

Open(b) ==
    /\ ~open[b]
    /\ open' = [open EXCEPT ![b] = TRUE]
    /\ messages' = [messages EXCEPT ![b] = 0]
    /\ Load(b)
    /\ UNCHANGED <<journal, evidence>>

\* The board object is dropped: its run ended, or its process died.
Close(b) ==
    /\ open[b]
    /\ open' = [open EXCEPT ![b] = FALSE]
    /\ claims' = [claims EXCEPT ![b] = [c \in Claims |-> NoClaim]]
    /\ items' = [items EXCEPT ![b] = {}]
    /\ messages' = [messages EXCEPT ![b] = 0]
    /\ UNCHANGED <<journal, evidence>>

\* create_claim: every caller passes a new id or one it has just failed to
\* find on this board.
CreateClaim(b, c) ==
    /\ open[b]
    /\ claims[b][c] = NoClaim
    /\ claims' = [claims EXCEPT ![b][c] = NewClaim]
    /\ \E ok \in AppendOutcomes :
          journal' = IF ok THEN [journal EXCEPT ![c] = NewClaim] ELSE journal
    /\ UNCHANGED <<open, items, messages, evidence>>

\* add_message for a claim that is on the board.  The message is kept even
\* when the transition it asks for is refused.
AddMessage(b, c, type, sender, outcome) ==
    /\ open[b]
    /\ messages[b] < MaxMessages
    /\ claims[b][c] # NoClaim
    /\ messages' = [messages EXCEPT ![b] = @ + 1]
    /\ IF Refused(type, sender)
       THEN UNCHANGED <<claims, journal>>
       ELSE LET rec == Applied(claims[b][c], type, sender, outcome) IN
            /\ claims' = [claims EXCEPT ![b][c] = rec]
            /\ \E ok \in AppendOutcomes : Persist(c, rec, type, ok)
    /\ UNCHANGED <<open, items, evidence>>

\* add_message for a claim the board does not know: a proposal creates it,
\* any other message is only kept.
AddUnknownMessage(b, c, type) ==
    /\ open[b]
    /\ messages[b] < MaxMessages
    /\ claims[b][c] = NoClaim
    /\ messages' = [messages EXCEPT ![b] = @ + 1]
    /\ IF type = "proposal"
       THEN /\ claims' = [claims EXCEPT ![b][c] = NewClaim]
            /\ \E ok \in AppendOutcomes :
                  journal' = IF ok THEN [journal EXCEPT ![c] = NewClaim]
                                   ELSE journal
       ELSE UNCHANGED <<claims, journal>>
    /\ UNCHANGED <<open, items, evidence>>

\* accept_claim, reject_claim and mark_memory_updated called directly; an
\* unknown claim or a refused transition raises and changes nothing.
Decide(b, c, type, actor) ==
    /\ open[b]
    /\ type \in Decisions
    /\ claims[b][c] # NoClaim
    /\ ~Refused(type, actor)
    /\ LET rec == Applied(claims[b][c], type, actor, "unattempted") IN
          /\ claims' = [claims EXCEPT ![b][c] = rec]
          /\ \E ok \in AppendOutcomes : Persist(c, rec, type, ok)
    /\ UNCHANGED <<open, items, messages, evidence>>

\* add_evidence: the item, the link from the claim when the board knows it,
\* then one evidence record; the changed claim itself is not appended.
AddEvidence(b, c, e) ==
    /\ open[b]
    /\ items' = [items EXCEPT ![b] = @ \cup {e}]
    /\ claims' = IF claims[b][c] = NoClaim THEN claims
                 ELSE [claims EXCEPT ![b][c].refs = @ \cup {e},
                                     ![b][c].status = "evidence_requested"]
    /\ \E ok \in AppendOutcomes :
          evidence' = IF ok THEN evidence \cup {e} ELSE evidence
    /\ UNCHANGED <<open, messages, journal>>

BoardStep(b) ==
    \/ Open(b)
    \/ Close(b)
    \/ \E c \in Claims : CreateClaim(b, c)
    \/ \E c \in Claims, type \in MessageType, sender \in Agents :
          \E outcome \in IF type = "repro_attempt" THEN Repro
                                                  ELSE {"attempted"} :
             AddMessage(b, c, type, sender, outcome)
    \/ \E c \in Claims, type \in MessageType : AddUnknownMessage(b, c, type)
    \/ \E c \in Claims, type \in Decisions, actor \in Agents :
          Decide(b, c, type, actor)
    \/ \E c \in Claims, e \in Items : AddEvidence(b, c, e)

Next == \E b \in Boards : BoardStep(b)

BoardSpec == Init /\ [][Next]_boardVars

----------------------------------------------------------------------------
(* Properties.                                                             *)

TypeOK ==
    /\ open \in [Boards -> BOOLEAN]
    /\ claims \in [Boards -> [Claims -> ClaimRecord \cup {NoClaim}]]
    /\ items \in [Boards -> SUBSET Items]
    /\ messages \in [Boards -> 0 .. MaxMessages]
    /\ journal \in [Claims -> ClaimRecord \cup {NoClaim}]
    /\ evidence \subseteq Items

\* Every claim record the system holds, in a memory or in the file.
Held == { claims[b][c] : b \in Boards, c \in Claims }
        \cup { journal[c] : c \in Claims }

\* A record whose acceptance was given by EvidenceAgent.
HonestlyAccepted(rec) ==
    /\ rec.status = "accepted" => rec.accepted_by = EvidenceAgent
    /\ rec.accepted_by \in {EvidenceAgent, NoAgent}

\* The promotion rule of the board (evidence_board.py:3-4): whatever messages
\* and calls arrive, in memory or after a replay, on one board or on several
\* that share a journal, an accepted claim was accepted by EvidenceAgent.
OnlyEvidenceAgentAccepts ==
    \A rec \in Held : rec # NoClaim => HonestlyAccepted(rec)

\* Referential integrity across restarts: a claim never refers to an evidence
\* item its board does not hold, nor a journalled claim to an item that has no
\* record in the journal (add_evidence appends before a later decision can
\* write the claim).  Needs appends that do not fail.
RefsBacked ==
    /\ \A b \in Boards, c \in Claims :
          claims[b][c] # NoClaim => claims[b][c].refs \subseteq items[b]
    /\ \A b \in Boards : items[b] \subseteq evidence
    /\ \A c \in Claims : journal[c] # NoClaim => journal[c].refs \subseteq evidence

\* What a board has decided is what a replay would find: the acceptance stamp,
\* the memory flag and a decided status are in the journal as soon as they are
\* in memory.  Holds for a board that has the journal to itself and whose
\* appends do not fail.
DecisionsDurable ==
    \A b \in Boards, c \in Claims :
       claims[b][c] # NoClaim =>
          /\ journal[c] # NoClaim
          /\ journal[c].accepted_by = claims[b][c].accepted_by
          /\ journal[c].memory_updated = claims[b][c].memory_updated
          /\ claims[b][c].status \in {"accepted", "rejected", "memory_updated"}
                => journal[c].status = claims[b][c].status

\* A journalled claim is never forgotten and its stamps are never taken back,
\* through any sequence of messages, restarts and re-openings of a board that
\* has the journal to itself.
StampsNeverTakenBack ==
    [][ \A c \in Claims :
          journal[c] # NoClaim =>
             /\ journal'[c] # NoClaim
             /\ journal[c].accepted_by # NoAgent
                   => journal'[c].accepted_by = journal[c].accepted_by
             /\ journal[c].memory_updated => journal'[c].memory_updated
             /\ journal[c].refs \subseteq journal'[c].refs ]_boardVars
============================================================================
