----------------------------- MODULE DurableLog -----------------------------
(***************************************************************************)
(* What core/jsonl_logger.py promises to those who append to a log and     *)
(* read it back with its backups, without files, threads or locks: lines   *)
(* are kept in the order in which they were accepted, what append reports  *)
(* as written is there until it is among the oldest, and a line cut off by *)
(* a crash spoils at most the line that is written after it.               *)
(***************************************************************************)
EXTENDS Naturals, Sequences, SequencesExt

CONSTANTS
    Keep,      \* newest lines that rotation never removes
    MaxLines   \* bound of the exploration: records ever appended

Unreadable == 0

VARIABLES
    lines,     \* the lines that can be read, oldest first
    torn,      \* whether the last of them lacks its newline
    issued,    \* records handed to append so far
    accepted   \* records that append reported as written

dlVars == <<lines, torn, issued, accepted>>

DurableInit == lines = <<>> /\ torn = FALSE /\ issued = 0 /\ accepted = {}

Report(r) == accepted' \in {accepted, accepted \cup {r}}

\* The record becomes the last line.
Store ==
    /\ issued < MaxLines /\ ~torn
    /\ issued' = issued + 1
    /\ lines' = Append(lines, issued')
    /\ Report(issued')
    /\ UNCHANGED torn

\* The record is glued to the fragment before it: one unreadable line.
Swallow ==
    /\ issued < MaxLines /\ torn
    /\ issued' = issued + 1
    /\ torn' = FALSE
    /\ Report(issued')
    /\ UNCHANGED lines

\* A part of the record is written, and nobody is told that it is there.
Tear ==
    /\ issued < MaxLines
    /\ issued' = issued + 1
    /\ torn' = TRUE
    /\ lines' = IF torn THEN lines ELSE Append(lines, Unreadable)
    /\ UNCHANGED accepted

Refuse ==
    /\ issued < MaxLines
    /\ issued' = issued + 1
    /\ UNCHANGED <<lines, torn, accepted>>

\* The file is rotated: a fragment at its end is not continued, and the oldest
\* lines may go, but never the newest.
Rotate ==
    /\ torn' \in {torn, FALSE}
    /\ lines' \in Suffixes(lines)
    /\ lines' = lines \/ Len(lines') >= Keep
    /\ UNCHANGED <<issued, accepted>>

DurableNext == Store \/ Swallow \/ Tear \/ Refuse \/ Rotate

DurableSpec == DurableInit /\ [][DurableNext]_dlVars
=============================================================================
