--------------------------- MODULE SvalbardVault ---------------------------
(***************************************************************************)
(* The identity ledger (core/svalbard_vault.py) as interfaces/main.py uses *)
(* it: one vault object per process, a ledger file that all processes      *)
(* share, appended through core/jsonl_logger.py, and a signature file      *)
(* written after it.  The default path seals only what the regulator of    *)
(* core/pedi_metrics.py lets through; the --comonadic path does not ask.   *)
(* A hash is the number of its block: hashes never collide.                *)
(***************************************************************************)
EXTENDS Naturals, Sequences, FiniteSets

CONSTANTS
    Processes,
    Modes,       \* how processes are started: "default", "comonadic"
    Faults,      \* what may go wrong in an append: "drop", "tear"
    RotateAt,    \* lines that fill a file: the logger's max_bytes
    Window,      \* lines the regulator reads: 20 in the code
    MinUsable,   \* MIN_USABLE_BLOCKS
    LongLines,   \* the blocks whose line is longer than the 8192 bytes that a
                 \* starting process reads from the end of the file
    MaxBlocks    \* bound of the exploration: deposits ever attempted

ASSUME VaultAssumption ==
    /\ Modes \subseteq {"default", "comonadic"}
    /\ Faults \subseteq {"drop", "tear"}
    /\ RotateAt \in Nat \ {0} /\ Window \in Nat \ {0}
    /\ MinUsable \in Nat \ {0} /\ MaxBlocks \in Nat /\ LongLines \subseteq Nat

VARIABLES
    ledger,   \* the lines of the current ledger file
    shelf,    \* the lines of the files rotated away
    sig,      \* the hash the signature file signs; {} if missing or blank
    used,     \* hashes computed so far
    lost,     \* history: hashes whose append failed or was glued to a fragment
    latest,   \* per process: latest_hash
    at,       \* per process: where it is in a turn
    mode      \* per process: how it was started

vaultVars == <<ledger, shelf, sig, used, lost, latest, at, mode>>

Genesis == 0

\* A line is an anchor block, a shadow block (quarantined or degenerate), a
\* fragment without its newline, or junk: a fragment and what was glued to it.
Block(h, p, grade) == [hash |-> h, prior |-> p, as |-> grade]
Cut  == Block(Genesis, Genesis, "cut")
Junk == Block(Genesis, Genesis, "junk")

TailIsCut(file) == file # <<>> /\ file[Len(file)].as = "cut"

\* The end of the file is split into lines: unreadable last lines, last lines
\* of which it holds only a part, and empty files all read as the genesis hash.
LastHash(file) ==
    IF file = <<>> \/ file[Len(file)].hash \in LongLines
    THEN Genesis ELSE file[Len(file)].hash

\* The regulator's anchor is valid: every recent line parses and enough of
\* them are usable.  Otherwise it answers HOLD_*.
Anchored ==
    LET recent == {i \in DOMAIN ledger : i + Window > Len(ledger)}
    IN  /\ \A i \in recent : ledger[i].hash # Genesis
        /\ Cardinality({i \in recent : ledger[i].as = "anchor"}) >= MinUsable

VaultInit ==
    /\ ledger = <<>> /\ shelf = {} /\ sig = {} /\ used = 0 /\ lost = {}
    /\ latest = [p \in Processes |-> Genesis]
    /\ at = [p \in Processes |-> "off"]
    /\ mode \in [Processes -> Modes]

-----------------------------------------------------------------------------
\* Mutant: a new vault starts a chain of its own.
OpenAtGenesis(p) ==
    /\ at[p] = "off"
    /\ at' = [at EXCEPT ![p] = "idle"]
    /\ latest' = [latest EXCEPT ![p] = Genesis]
    /\ \E m \in Modes : mode' = [mode EXCEPT ![p] = m]
    /\ UNCHANGED <<ledger, shelf, sig, used, lost>>

\* A process starts and reads the end of the ledger.  The check of the
\* signature that follows prints its verdict and stops nothing.
Open(p) ==
    /\ at[p] = "off"
    /\ at' = [at EXCEPT ![p] = "idle"]
    /\ latest' = [latest EXCEPT ![p] = LastHash(ledger)]
    /\ \E m \in Modes : mode' = [mode EXCEPT ![p] = m]
    /\ UNCHANGED <<ledger, shelf, sig, used, lost>>

\* A turn that ends in a deposit passes the regulator first; whether its
\* answer and the veto of lantern 4 then allow it is a choice.
Turn(p) ==
    /\ at[p] = "idle"
    /\ mode[p] = "comonadic" \/ Anchored
    /\ at' = [at EXCEPT ![p] = "sealing"]
    /\ UNCHANGED <<ledger, shelf, sig, used, lost, latest, mode>>

\* Mutant: a file is rotated one line late.
CurrentLate == IF Len(ledger) > RotateAt THEN <<>> ELSE ledger

\* The file an append goes to: a full one has been rotated away.
Current == IF Len(ledger) >= RotateAt THEN <<>> ELSE ledger

\* Mutant: the line never reaches the disk.
WrittenLost(file, line, outcome) == file

\* One write of a line and its newline: a fragment left at the end of the
\* file swallows it.
Written(file, line, outcome) ==
    CASE outcome = "drop" -> file
      [] outcome # "drop" /\ TailIsCut(file) ->
            IF outcome = "tear" THEN file ELSE [file EXCEPT ![Len(file)] = Junk]
      [] outcome # "drop" /\ ~TailIsCut(file) ->
            Append(file, IF outcome = "tear" THEN Cut ELSE line)

\* Mutant: the hash of the new block is not kept.
NotAdvanced(p) == latest

Advanced(p) == [latest EXCEPT ![p] = used + 1]

\* The block names latest_hash as its predecessor and becomes latest_hash
\* itself, whatever append returns.
AppendBlock(p) ==
    /\ at[p] = "sealing" /\ used < MaxBlocks
    /\ used' = used + 1
    /\ \E grade \in {"anchor", "shadow"}, outcome \in {"whole"} \cup Faults :
         /\ ledger' = Written(Current, Block(used + 1, latest[p], grade), outcome)
         /\ lost' = IF outcome = "whole" /\ ~TailIsCut(Current)
                    THEN lost ELSE lost \cup {used + 1}
    /\ shelf' = IF Len(ledger) >= RotateAt
                THEN shelf \cup {ledger[i] : i \in DOMAIN ledger} ELSE shelf
    /\ latest' = Advanced(p)
    /\ at' = [at EXCEPT ![p] = "signing"]
    /\ UNCHANGED <<sig, mode>>

\* The signature file is opened for writing, then written.
Blank(p) ==
    /\ at[p] = "signing"
    /\ sig' = {}
    /\ at' = [at EXCEPT ![p] = "blanked"]
    /\ UNCHANGED <<ledger, shelf, used, lost, latest, mode>>

Sign(p) ==
    /\ at[p] = "blanked"
    /\ sig' = {latest[p]}
    /\ at' = [at EXCEPT ![p] = "idle"]
    /\ UNCHANGED <<ledger, shelf, used, lost, latest, mode>>

\* Signing raises; the turn goes on without it.
SignRaises(p) ==
    /\ at[p] \in {"signing", "blanked"}
    /\ at' = [at EXCEPT ![p] = "idle"]
    /\ UNCHANGED <<ledger, shelf, sig, used, lost, latest, mode>>

VaultDies(p) ==
    /\ at[p] # "off"
    /\ at' = [at EXCEPT ![p] = "off"]
    /\ UNCHANGED <<ledger, shelf, sig, used, lost, latest, mode>>

Deposit(p) == AppendBlock(p) \/ Blank(p) \/ Sign(p) \/ SignRaises(p)

VaultNext == \E p \in Processes : Open(p) \/ Turn(p) \/ Deposit(p) \/ VaultDies(p)

VaultSpec == VaultInit /\ [][VaultNext]_vaultVars

-----------------------------------------------------------------------------
Lines == [hash : 0 .. used, prior : 0 .. used, as : {"anchor", "shadow", "cut", "junk"}]

VaultTypeOK ==
    /\ ledger \in Seq(Lines) /\ Len(ledger) <= RotateAt
    /\ shelf \subseteq Lines
    /\ used \in 0 .. MaxBlocks
    /\ sig \subseteq 0 .. used /\ lost \subseteq 1 .. used
    /\ latest \in [Processes -> 0 .. used]
    /\ at \in [Processes -> {"off", "idle", "sealing", "signing", "blanked"}]
    /\ mode \in [Processes -> Modes]

\* The blocks that can be read, in the ledger or in a file rotated away.
Sealed == {b \in shelf \cup {ledger[i] : i \in DOMAIN ledger} : b.hash # Genesis}

\* No two readable blocks claim the same predecessor, whatever appends fail or
\* are torn, wherever the process dies and however often the file is rotated:
\* the ledger is one history.  Only chains begun again at the genesis hash are
\* excepted.
NoFork ==
    \A b, c \in Sealed : b.prior = c.prior => b = c \/ b.prior = Genesis

\* As long as no append failed and no file was rotated away, the chain that
\* verify_identity_integrity(full_chain=True) follows starts at the genesis hash
\* and can break in one way only: a process that starts after a line too long to
\* be read begins again at the genesis hash.  Deaths between the append, the
\* assignment of latest_hash and the signature break it nowhere else.
ChainVerifies ==
    lost = {} /\ shelf = {} =>
        \A i \in DOMAIN ledger :
            /\ ledger[i].hash # Genesis
            /\ i = 1 => ledger[i].prior = Genesis
            /\ i > 1 => \/ ledger[i].prior = ledger[i - 1].hash
                        \/ ledger[i].prior = Genesis /\ ledger[i - 1].hash \in LongLines

\* The signature file never signs a block that is not on disk, except one
\* whose own append went wrong: rotation, later torn lines, deaths and the
\* overlapping signatures of several processes never orphan it.
SignedIsSealed == sig \subseteq {b.hash : b \in Sealed} \cup lost

\* Only a turn whose regulator found a valid anchor seals a block.
SealNeedsAnchor == [][used' # used => Anchored]_vaultVars
=============================================================================
