------------------------ MODULE SvalbardVault_proofs ------------------------
(***************************************************************************)
(* What the ledger promises for any number of deposits, any file size and  *)
(* any window.  NoFork is not inductive: it needs that hashes grow along   *)
(* the chain, and that what a process will name as its predecessor - its   *)
(* latest_hash, or the last line if it restarts - is the genesis hash or   *)
(* no smaller than any readable block.  ChainVerifies needs that           *)
(* latest_hash is the last line, or the genesis hash after a line too long *)
(* to be read; SignedIsSealed that a process about to sign will sign a     *)
(* block that is on disk or was lost.                                      *)
(***************************************************************************)
EXTENDS SvalbardVault, TLAPS

\* The only ways an append changes a file.
LEMMA AppendShapes ==
    ASSUME NEW file, NEW line, NEW outcome \in {"whole", "drop", "tear"},
           NEW w, w = Written(file, line, outcome)
    PROVE  \/ w = file
           \/ file # <<>> /\ w = [file EXCEPT ![Len(file)] = Junk]
           \/ w = Append(file, Cut)
           \/ w = Append(file, line)
BY DEF Written, TailIsCut

\* A line of the old type has the new one, and so have the marks of a loss.
LEMMA LinesGrow ==
    ASSUME used \in Nat, used' \in Nat, used <= used'
    PROVE  Lines \subseteq Lines' /\ Cut \in Lines /\ Junk \in Lines
BY DEF Lines, Cut, Junk, Block, Genesis

-----------------------------------------------------------------------------
LEMMA TypeInit == VaultInit => VaultTypeOK
BY VaultAssumption DEF VaultInit, VaultTypeOK, Lines, Genesis

LEMMA TypeStep ==
    ASSUME VaultTypeOK, [VaultNext]_vaultVars
    PROVE  VaultTypeOK'
<1> USE VaultAssumption
<1>1. CASE UNCHANGED vaultVars
  BY <1>1 DEF vaultVars, VaultTypeOK, Lines
<1>2. ASSUME NEW p \in Processes, Open(p)
      PROVE  VaultTypeOK'
  <2>1. LastHash(ledger) \in 0 .. used
    <3>1. CASE ledger = <<>>
      BY <3>1 DEF VaultTypeOK, LastHash, Genesis
    <3>2. CASE ledger # <<>>
      <4>1. ledger[Len(ledger)] \in Lines
        BY <3>2 DEF VaultTypeOK
      <4> QED
        BY <4>1, <3>2 DEF Lines, LastHash, Genesis, VaultTypeOK
    <3> QED
      BY <3>1, <3>2
  <2> QED
    BY <1>2, <2>1 DEF Open, VaultTypeOK, Lines
<1>3. ASSUME NEW p \in Processes, Turn(p)
      PROVE  VaultTypeOK'
  BY <1>3 DEF Turn, VaultTypeOK, Lines
<1>4. ASSUME NEW p \in Processes, AppendBlock(p)
      PROVE  VaultTypeOK'
  <2>1. PICK grade \in {"anchor", "shadow"}, outcome \in {"whole"} \cup Faults :
            ledger' = Written(Current, Block(used + 1, latest[p], grade), outcome)
    BY <1>4 DEF AppendBlock
  <2> DEFINE new == Block(used + 1, latest[p], grade)
  <2>2. /\ used' = used + 1 /\ used \in Nat /\ used < MaxBlocks
        /\ latest' = [latest EXCEPT ![p] = used + 1]
        /\ at' = [at EXCEPT ![p] = "signing"]
        /\ sig' = sig /\ mode' = mode /\ lost' \subseteq lost \cup {used + 1}
    BY <1>4 DEF AppendBlock, Advanced, VaultTypeOK
  <2>3. Lines \subseteq Lines' /\ Cut \in Lines' /\ Junk \in Lines'
    BY <2>2, LinesGrow
  <2>4. new \in Lines'
    BY <2>2 DEF VaultTypeOK, Lines, Block
  <2>5. ledger \in Seq(Lines')
    BY <2>3 DEF VaultTypeOK
  <2>6. Current \in Seq(Lines') /\ Len(Current) < RotateAt
    BY <2>5 DEF Current, VaultTypeOK
  <2>7. \/ ledger' = Current
        \/ Current # <<>> /\ ledger' = [Current EXCEPT ![Len(Current)] = Junk]
        \/ ledger' = Append(Current, Cut)
        \/ ledger' = Append(Current, new)
    BY <2>1, AppendShapes
  <2>8. ledger' \in Seq(Lines') /\ Len(ledger') <= RotateAt
    <3>1. CASE Current # <<>> /\ ledger' = [Current EXCEPT ![Len(Current)] = Junk]
      BY <3>1, <2>3, <2>6
    <3>2. CASE ledger' = Current
      BY <3>2, <2>6
    <3>3. CASE ledger' = Append(Current, Cut)
      BY <3>3, <2>3, <2>6
    <3>4. CASE ledger' = Append(Current, new)
      <4> HIDE DEF new
      <4> QED BY <3>4, <2>4, <2>6
    <3> QED
      BY <2>7, <3>1, <3>2, <3>3, <3>4
  <2>9. shelf' \subseteq Lines'
    <3>1. {ledger[i] : i \in DOMAIN ledger} \subseteq Lines'
      BY <2>5
    <3> QED
      BY <1>4, <2>3, <3>1 DEF AppendBlock, VaultTypeOK
  <2>10. /\ used' \in 0 .. MaxBlocks /\ sig' \subseteq 0 .. used' /\ lost' \subseteq 1 .. used'
         /\ latest' \in [Processes -> 0 .. used']
    BY <2>2 DEF VaultTypeOK
  <2>11. /\ at' \in [Processes -> {"off", "idle", "sealing", "signing", "blanked"}]
         /\ mode' \in [Processes -> Modes]
    BY <2>2 DEF VaultTypeOK
  <2> QED
    BY <2>8, <2>9, <2>10, <2>11 DEF VaultTypeOK
<1>5. ASSUME NEW p \in Processes, Blank(p) \/ Sign(p) \/ SignRaises(p) \/ VaultDies(p)
      PROVE  VaultTypeOK'
  BY <1>5 DEF Blank, Sign, SignRaises, VaultDies, VaultTypeOK, Lines
<1> QED
  BY <1>1, <1>2, <1>3, <1>4, <1>5 DEF VaultNext, Deposit

\* Every variable keeps its type, and no ledger file grows past its limit.
THEOREM VaultTyping == VaultSpec => []VaultTypeOK
BY TypeInit, TypeStep, PTL DEF VaultSpec

-----------------------------------------------------------------------------
\* All that a process may name as a predecessor is the genesis hash or at
\* least as late as every readable block.
Leads(h) == h = Genesis \/ \A b \in Sealed : b.hash <= h

HistoryInv ==
    /\ VaultTypeOK
    /\ NoFork
    /\ \A b \in Sealed : b.prior < b.hash
    /\ Leads(LastHash(ledger))
    /\ \A p \in Processes : at[p] # "off" => Leads(latest[p])

\* Steps that leave the files alone leave the blocks alone.
LEMMA SameFiles ==
    ASSUME UNCHANGED <<ledger, shelf>>
    PROVE  /\ Sealed' = Sealed
           /\ LastHash(ledger)' = LastHash(ledger)
           /\ \A h : Leads(h)' <=> Leads(h)
BY DEF Sealed, LastHash, Leads

LEMMA HistoryInit == VaultInit => HistoryInv
<1> SUFFICES ASSUME VaultInit PROVE HistoryInv
  OBVIOUS
<1>1. VaultTypeOK
  BY TypeInit
<1>2. Sealed = {} /\ LastHash(ledger) = Genesis
  BY DEF VaultInit, Sealed, LastHash
<1>3. \A p \in Processes : at[p] = "off"
  BY DEF VaultInit
<1> QED
  BY <1>1, <1>2, <1>3 DEF HistoryInv, NoFork, Leads

\* With one process, a deposit keeps the one history.
LEMMA HistoryAppend ==
    ASSUME HistoryInv, VaultTypeOK', NEW p \in Processes, AppendBlock(p),
           \A q \in Processes : q = p
    PROVE  HistoryInv'
<1> USE VaultAssumption
<1>1. PICK grade \in {"anchor", "shadow"}, outcome \in {"whole"} \cup Faults :
          ledger' = Written(Current, Block(used + 1, latest[p], grade), outcome)
  BY DEF AppendBlock
<1> DEFINE new == Block(used + 1, latest[p], grade)
           now == {ledger[i] : i \in DOMAIN ledger}
<1>2. /\ at[p] = "sealing"
      /\ latest' = [latest EXCEPT ![p] = used + 1]
      /\ shelf' = IF Len(ledger) >= RotateAt THEN shelf \cup now ELSE shelf
      /\ used \in Nat /\ latest[p] \in 0 .. used /\ latest'[p] = used + 1
      /\ ledger \in Seq(Lines) /\ shelf \subseteq Lines
  BY DEF AppendBlock, Advanced, HistoryInv, VaultTypeOK
<1>3. Current \in Seq(Lines) /\ (Current = <<>> \/ Current = ledger)
  BY <1>2 DEF Current
<1>4. \A b \in Sealed : b.hash \in 1 .. used /\ b.prior \in 0 .. used
  <2>1. \A b \in now : b \in Lines
    BY <1>2
  <2> QED
    BY <1>2, <2>1 DEF Sealed, Lines, Genesis
<1>5. \/ ledger' = Current
      \/ Current # <<>> /\ ledger' = [Current EXCEPT ![Len(Current)] = Junk]
      \/ ledger' = Append(Current, Cut)
      \/ ledger' = Append(Current, new)
  BY <1>1, AppendShapes
<1>6. new.hash = used + 1 /\ new.prior = latest[p] /\ Junk.hash = Genesis /\ Cut.hash = Genesis
  BY DEF Block, Junk, Cut
<1> HIDE DEF new
<1>7. \A i \in DOMAIN ledger' : ledger'[i] \in {new, Cut, Junk} \cup now
  <2>1. \A i \in DOMAIN Current : Current[i] \in now
    BY <1>3
  <2>2. CASE Current # <<>> /\ ledger' = [Current EXCEPT ![Len(Current)] = Junk]
    BY <2>1, <2>2
  <2>3. ASSUME NEW line, ledger' = Append(Current, line)
        PROVE  \A i \in DOMAIN ledger' : ledger'[i] = line \/ ledger'[i] \in now
    <3> HIDE DEF now
    <3>1. \A i \in 1 .. Len(Current) : ledger'[i] = Current[i]
      BY <1>3, <2>3
    <3>2. Len(ledger') = Len(Current) + 1 /\ ledger'[Len(Current) + 1] = line
      BY <1>3, <2>3
    <3>3. DOMAIN ledger' = 1 .. Len(Current) + 1 /\ DOMAIN Current = 1 .. Len(Current)
      BY <1>3, <2>3
    <3>4. Len(Current) \in Nat
      BY <1>3
    <3> QED
      BY <2>1, <3>1, <3>2, <3>3, <3>4
  <2> QED
    BY <1>5, <2>1, <2>2, <2>3
<1>8. Sealed' \subseteq Sealed \cup {new}
  BY <1>2, <1>6, <1>7 DEF Sealed
<1>9. \A b \in Sealed' : b.prior < b.hash /\ b.hash <= used + 1
  BY <1>2, <1>4, <1>6, <1>8 DEF HistoryInv
<1>10. Leads(latest[p])
  BY <1>2 DEF HistoryInv
<1>11. NoFork'
  <2> SUFFICES ASSUME NEW b \in Sealed', NEW c \in Sealed', b.prior = c.prior,
                      b # c, b.prior # Genesis
               PROVE  FALSE
    BY DEF NoFork
  <2>1. CASE b \in Sealed /\ c \in Sealed
    BY <2>1 DEF HistoryInv, NoFork
  <2>2. ASSUME NEW d \in Sealed, d.prior = latest[p]
        PROVE  latest[p] = Genesis
    BY <2>2, <1>2, <1>4, <1>10 DEF Leads, HistoryInv
  <2> QED
    BY <1>6, <1>8, <2>1, <2>2
<1>12. Leads(LastHash(ledger))'
  <2>1. CASE ledger' = Current
    <3>1. Sealed' \subseteq Sealed
      <4>1. \A i \in DOMAIN ledger' : ledger'[i] \in now
        BY <2>1, <1>3
      <4> QED
        BY <4>1, <1>2 DEF Sealed
    <3>2. LastHash(Current) = Genesis \/ LastHash(Current) = LastHash(ledger)
      BY <1>3 DEF LastHash
    <3> QED
      BY <2>1, <3>1, <3>2 DEF HistoryInv, Leads
  <2>2. CASE Current # <<>> /\ ledger' = [Current EXCEPT ![Len(Current)] = Junk]
    BY <2>2, <1>3, <1>6 DEF LastHash, Leads
  <2>3. CASE ledger' = Append(Current, Cut)
    BY <2>3, <1>3, <1>6 DEF LastHash, Leads
  <2>4. CASE ledger' = Append(Current, new)
    <3>1. ledger' # <<>> /\ ledger'[Len(ledger')] = new
      BY <2>4, <1>3
    <3>2. LastHash(ledger)' \in {Genesis, used + 1}
      BY <3>1, <1>6 DEF LastHash
    <3> QED
      BY <3>2, <1>9 DEF Leads
  <2> QED
    BY <1>5, <2>1, <2>2, <2>3, <2>4
<1>13. \A q \in Processes : Leads(latest[q])'
  <2>1. latest'[p] = used + 1 /\ \A b \in Sealed' : b.hash <= used + 1
    BY <1>2, <1>9
  <2> QED
    BY <2>1 DEF Leads
<1> QED
  BY <1>9, <1>11, <1>12, <1>13 DEF HistoryInv

LEMMA HistoryStep ==
    ASSUME HistoryInv, [VaultNext]_vaultVars, \A p, q \in Processes : p = q
    PROVE  HistoryInv'
<1>1. VaultTypeOK'
  BY TypeStep DEF HistoryInv
<1>2. ASSUME NEW p \in Processes, AppendBlock(p)
      PROVE  HistoryInv'
  BY <1>1, <1>2, HistoryAppend
<1>3. ASSUME NEW p \in Processes, Open(p)
      PROVE  HistoryInv'
  <2>1. UNCHANGED <<ledger, shelf>>
    BY <1>3 DEF Open
  <2>2. \A q \in Processes : latest'[q] = LastHash(ledger)
    BY <1>3 DEF Open, HistoryInv, VaultTypeOK
  <2> QED
    BY <1>1, <2>1, <2>2, SameFiles DEF HistoryInv, NoFork
<1>4. ASSUME UNCHANGED <<ledger, shelf, latest>>,
             \A p \in Processes : at'[p] # "off" => at[p] # "off"
      PROVE  HistoryInv'
  BY <1>1, <1>4, SameFiles DEF HistoryInv, NoFork
<1>5. ASSUME NEW p \in Processes,
             Turn(p) \/ Blank(p) \/ Sign(p) \/ SignRaises(p) \/ VaultDies(p)
      PROVE  /\ UNCHANGED <<ledger, shelf, latest>>
             /\ \A q \in Processes : at'[q] # "off" => at[q] # "off"
  BY <1>5 DEF Turn, Blank, Sign, SignRaises, VaultDies, HistoryInv, VaultTypeOK
<1>6. CASE UNCHANGED vaultVars
  BY <1>4, <1>6 DEF vaultVars
<1> QED
  BY <1>2, <1>3, <1>4, <1>5, <1>6 DEF VaultNext, Deposit

\* One process at a time never forks the ledger, whatever fails.
THEOREM OneHistory ==
    ASSUME \A p, q \in Processes : p = q
    PROVE  VaultSpec => []NoFork
<1>1. HistoryInv /\ [VaultNext]_vaultVars => HistoryInv'
  BY HistoryStep
<1>2. HistoryInv => NoFork
  BY DEF HistoryInv
<1> QED
  BY <1>1, <1>2, HistoryInit, PTL DEF VaultSpec

-----------------------------------------------------------------------------
\* The outcomes of an append that was neither lost nor glued to a fragment.
LEMMA WholeAppend ==
    ASSUME VaultTypeOK, NEW p \in Processes, AppendBlock(p), used + 1 \notin lost'
    PROVE  \E grade \in {"anchor", "shadow"} :
              /\ lost' = lost
              /\ Current \in Seq(Lines) /\ Len(Current) \in Nat
              /\ DOMAIN ledger' = 1 .. Len(Current) + 1
              /\ Len(ledger') = Len(Current) + 1
              /\ \A i \in 1 .. Len(Current) : ledger'[i] = Current[i]
              /\ ledger'[Len(Current) + 1] = Block(used + 1, latest[p], grade)
<1>1. PICK grade \in {"anchor", "shadow"}, outcome \in {"whole"} \cup Faults :
          /\ ledger' = Written(Current, Block(used + 1, latest[p], grade), outcome)
          /\ lost' = IF outcome = "whole" /\ ~TailIsCut(Current)
                     THEN lost ELSE lost \cup {used + 1}
  BY DEF AppendBlock
<1> DEFINE new == Block(used + 1, latest[p], grade)
<1>2. outcome = "whole" /\ ~TailIsCut(Current) /\ lost' = lost
  BY <1>1
<1>3. Current \in Seq(Lines)
  BY DEF Current, VaultTypeOK
<1>4. ledger' = Append(Current, new)
  BY <1>1, <1>2 DEF Written
<1> HIDE DEF new
<1>5. /\ Len(ledger') = Len(Current) + 1 /\ Len(Current) \in Nat
      /\ DOMAIN ledger' = 1 .. Len(Current) + 1
      /\ ledger'[Len(Current) + 1] = new
      /\ \A i \in 1 .. Len(Current) : ledger'[i] = Current[i]
  BY <1>3, <1>4
<1> QED
  BY <1>2, <1>3, <1>5 DEF new

\* What may come after the last line of a file.
Follows(h, file) ==
    /\ file = <<>> => h = Genesis
    /\ file # <<>> => \/ h = file[Len(file)].hash
                      \/ h = Genesis /\ file[Len(file)].hash \in LongLines

\* Nothing went wrong and nothing was rotated away: the chain breaks after long
\* lines only, and whoever is running stands at its end.
Whole ==
    /\ \A i \in DOMAIN ledger :
          /\ ledger[i].hash # Genesis
          /\ i = 1 => ledger[i].prior = Genesis
          /\ i > 1 => \/ ledger[i].prior = ledger[i - 1].hash
                      \/ ledger[i].prior = Genesis /\ ledger[i - 1].hash \in LongLines
    /\ \A p \in Processes : at[p] # "off" => Follows(latest[p], ledger)

LEMMA LastHashFollows == Follows(LastHash(ledger), ledger)
  BY DEF Follows, LastHash

ChainInv == VaultTypeOK /\ (lost = {} /\ shelf = {} => Whole)

LEMMA ChainInit == VaultInit => ChainInv
<1> SUFFICES ASSUME VaultInit PROVE ChainInv
  OBVIOUS
<1>1. VaultTypeOK
  BY TypeInit
<1> QED
  BY <1>1 DEF VaultInit, ChainInv, Whole, Follows

\* With one process, a deposit after which nothing has gone wrong keeps the
\* chain whole.
LEMMA ChainAppend ==
    ASSUME ChainInv, NEW p \in Processes, AppendBlock(p), lost' = {}, shelf' = {},
           \A q \in Processes : q = p
    PROVE  Whole'
<1> USE VaultAssumption
<1>1. /\ latest'[p] = used + 1 /\ used \in Nat /\ at[p] = "sealing"
      /\ ledger \in Seq(Lines)
  BY DEF AppendBlock, Advanced, ChainInv, VaultTypeOK
<1>2. shelf = {} /\ Current = ledger
  <2>1. CASE Len(ledger) >= RotateAt
    <3>1. ledger[1] \in {ledger[i] : i \in DOMAIN ledger}
      BY <1>1, <2>1
    <3> QED
      BY <2>1, <3>1 DEF AppendBlock
  <2>2. CASE ~(Len(ledger) >= RotateAt)
    BY <2>2 DEF AppendBlock, Current
  <2> QED
    BY <2>1, <2>2
<1>3. PICK grade \in {"anchor", "shadow"} :
          /\ lost' = lost
          /\ Len(ledger) \in Nat
          /\ DOMAIN ledger' = 1 .. Len(ledger) + 1
          /\ Len(ledger') = Len(ledger) + 1
          /\ \A i \in 1 .. Len(ledger) : ledger'[i] = ledger[i]
          /\ ledger'[Len(ledger) + 1] = Block(used + 1, latest[p], grade)
  BY <1>2, WholeAppend DEF ChainInv
<1>4. Whole /\ Follows(latest[p], ledger)
  BY <1>1, <1>2, <1>3 DEF ChainInv, Whole
<1>5. /\ ledger'[Len(ledger) + 1].hash = used + 1
      /\ ledger'[Len(ledger) + 1].prior = latest[p]
  BY <1>3 DEF Block
<1>6. ASSUME NEW i \in DOMAIN ledger'
      PROVE  /\ ledger'[i].hash # Genesis
             /\ i = 1 => ledger'[i].prior = Genesis
             /\ i > 1 => \/ ledger'[i].prior = ledger'[i - 1].hash
                         \/ /\ ledger'[i].prior = Genesis
                            /\ ledger'[i - 1].hash \in LongLines
  <2>1. CASE i \in 1 .. Len(ledger)
    <3>1. i # 1 => ledger'[i - 1] = ledger[i - 1]
      BY <2>1, <1>3
    <3> QED
      BY <2>1, <3>1, <1>1, <1>3, <1>4 DEF Whole
  <2>2. CASE i = Len(ledger) + 1
    <3>1. i = 1 => latest[p] = Genesis
      BY <2>2, <1>1, <1>4 DEF Follows
    <3>2. i > 1 => \/ latest[p] = ledger'[i - 1].hash
                   \/ latest[p] = Genesis /\ ledger'[i - 1].hash \in LongLines
      <4>1. i > 1 => ledger # <<>> /\ ledger'[i - 1] = ledger[Len(ledger)]
        BY <2>2, <1>1, <1>3
      <4> QED
        BY <4>1, <1>4 DEF Follows
    <3>3. ledger'[i].hash # Genesis /\ ledger'[i].prior = latest[p]
      BY <2>2, <1>1, <1>5 DEF Genesis
    <3> QED
      BY <3>1, <3>2, <3>3
  <2> QED
    BY <1>3, <2>1, <2>2
<1>7. ledger' # <<>> /\ ledger'[Len(ledger')].hash = used + 1
  BY <1>1, <1>3, <1>5
<1>8. \A q \in Processes : latest'[q] = used + 1
  BY <1>1
<1> QED
  BY <1>6, <1>7, <1>8 DEF Whole, Follows

LEMMA ChainStep ==
    ASSUME ChainInv, [VaultNext]_vaultVars, \A p, q \in Processes : p = q
    PROVE  ChainInv'
<1>1. VaultTypeOK'
  BY TypeStep DEF ChainInv
<1>2. ASSUME NEW p \in Processes, AppendBlock(p)
      PROVE  ChainInv'
  BY <1>1, <1>2, ChainAppend DEF ChainInv
<1>3. ASSUME NEW p \in Processes, Open(p)
      PROVE  ChainInv'
  <2>1. \A q \in Processes : latest'[q] = LastHash(ledger)
    BY <1>3 DEF Open, ChainInv, VaultTypeOK
  <2> QED
    BY <1>1, <1>3, <2>1, LastHashFollows DEF Open, ChainInv, Whole, Follows
<1>4. ASSUME UNCHANGED <<ledger, shelf, lost, latest>>,
             \A p \in Processes : at'[p] # "off" => at[p] # "off"
      PROVE  ChainInv'
  BY <1>1, <1>4 DEF ChainInv, Whole, Follows
<1>5. ASSUME NEW p \in Processes,
             Turn(p) \/ Blank(p) \/ Sign(p) \/ SignRaises(p) \/ VaultDies(p)
      PROVE  /\ UNCHANGED <<ledger, shelf, lost, latest>>
             /\ \A q \in Processes : at'[q] # "off" => at[q] # "off"
  BY <1>5 DEF Turn, Blank, Sign, SignRaises, VaultDies, ChainInv, VaultTypeOK
<1>6. CASE UNCHANGED vaultVars
  BY <1>4, <1>6 DEF vaultVars
<1> QED
  BY <1>2, <1>3, <1>4, <1>5, <1>6 DEF VaultNext, Deposit

\* One process at a time: as long as no append failed and no file was rotated
\* away the chain starts at the genesis hash and every block follows the one
\* before, wherever the process died - or begins again at the genesis hash, but
\* only after a line too long for a starting process to read.
THEOREM ChainHolds ==
    ASSUME \A p, q \in Processes : p = q
    PROVE  VaultSpec => []ChainVerifies
<1>1. ChainInv /\ [VaultNext]_vaultVars => ChainInv'
  BY ChainStep
<1>2. ChainInv => ChainVerifies
  BY DEF ChainInv, Whole, ChainVerifies
<1> QED
  BY <1>1, <1>2, ChainInit, PTL DEF VaultSpec

-----------------------------------------------------------------------------
\* The hashes of the blocks on disk and of those whose append went wrong.
Known == {b.hash : b \in Sealed} \cup lost

SignInv ==
    /\ VaultTypeOK
    /\ \A i \in DOMAIN ledger : ledger[i].as = "cut" => ledger[i].hash = Genesis
    /\ sig \subseteq Known
    /\ \A p \in Processes : at[p] \in {"signing", "blanked"} => latest[p] \in Known

LEMMA SignInit == VaultInit => SignInv
<1> SUFFICES ASSUME VaultInit PROVE SignInv
  OBVIOUS
<1>1. VaultTypeOK
  BY TypeInit
<1> QED
  BY <1>1 DEF VaultInit, SignInv

\* A deposit takes no block off the disk, and its own is on it or lost.
LEMMA KnownGrows ==
    ASSUME SignInv, NEW p \in Processes, AppendBlock(p)
    PROVE  /\ Known \subseteq Known' /\ used + 1 \in Known'
           /\ \A i \in DOMAIN ledger' : ledger'[i].as = "cut" => ledger'[i].hash = Genesis
<1> USE VaultAssumption
<1> DEFINE now == {ledger[i] : i \in DOMAIN ledger}
<1>1. PICK grade \in {"anchor", "shadow"}, outcome \in {"whole"} \cup Faults :
          /\ ledger' = Written(Current, Block(used + 1, latest[p], grade), outcome)
          /\ lost' = IF outcome = "whole" /\ ~TailIsCut(Current)
                     THEN lost ELSE lost \cup {used + 1}
  BY DEF AppendBlock
<1> DEFINE new == Block(used + 1, latest[p], grade)
<1>2. /\ shelf' = IF Len(ledger) >= RotateAt THEN shelf \cup now ELSE shelf
      /\ used \in Nat /\ ledger \in Seq(Lines)
      /\ Current \in Seq(Lines) /\ (Current = <<>> \/ Current = ledger)
  BY DEF AppendBlock, SignInv, VaultTypeOK, Current
<1>3. /\ new.hash = used + 1 /\ new.as = grade
      /\ Cut.hash = Genesis /\ Junk.hash = Genesis
  BY DEF Block, Cut, Junk
<1>4. \/ ledger' = Current
      \/ TailIsCut(Current) /\ ledger' = [Current EXCEPT ![Len(Current)] = Junk]
      \/ ledger' = Append(Current, Cut)
      \/ ledger' = Append(Current, new) /\ outcome = "whole" /\ ~TailIsCut(Current)
  BY <1>1 DEF Written
<1>5. outcome = "whole" /\ ~TailIsCut(Current) => ledger' = Append(Current, new)
  BY <1>1 DEF Written
<1> HIDE DEF new
<1>6. ASSUME NEW line, ledger' = Append(Current, line)
      PROVE  /\ DOMAIN ledger' = 1 .. Len(Current) + 1 /\ Len(Current) \in Nat
             /\ ledger'[Len(Current) + 1] = line
             /\ \A i \in 1 .. Len(Current) : i \in DOMAIN Current /\ ledger'[i] = Current[i]
  BY <1>2, <1>6
<1>7. \A i \in DOMAIN ledger' : ledger'[i] \in {new, Cut, Junk} \cup now
  <2>1. \A i \in DOMAIN Current : Current[i] \in now
    BY <1>2
  <2>2. CASE TailIsCut(Current) /\ ledger' = [Current EXCEPT ![Len(Current)] = Junk]
    BY <2>1, <2>2
  <2>3. ASSUME NEW line, ledger' = Append(Current, line)
        PROVE  \A i \in DOMAIN ledger' : ledger'[i] = line \/ ledger'[i] \in now
    <3> HIDE DEF now
    <3> QED
      BY <2>1, <2>3, <1>6
  <2> QED
    BY <1>4, <2>1, <2>2, <2>3
<1>8. ASSUME NEW i \in DOMAIN Current, Current[i].hash # Genesis
      PROVE  i \in DOMAIN ledger' /\ ledger'[i] = Current[i]
  <2>1. CASE ledger' = Current
    BY <2>1
  <2>2. CASE TailIsCut(Current) /\ ledger' = [Current EXCEPT ![Len(Current)] = Junk]
    <3>1. Current[Len(Current)].hash = Genesis
      BY <2>2, <1>2 DEF TailIsCut, SignInv
    <3> QED
      BY <2>2, <3>1, <1>2, <1>8
  <2>3. ASSUME NEW line, ledger' = Append(Current, line)
        PROVE  i \in DOMAIN ledger' /\ ledger'[i] = Current[i]
    BY <2>3, <1>2
  <2> QED
    BY <1>4, <2>1, <2>2, <2>3
<1>9. Sealed \subseteq Sealed'
  <2>1. CASE Len(ledger) >= RotateAt
    BY <1>2, <2>1 DEF Sealed
  <2>2. CASE ~(Len(ledger) >= RotateAt)
    BY <1>2, <1>8, <2>2 DEF Sealed, Current
  <2> QED
    BY <2>1, <2>2
<1>10. used + 1 \in Known'
  <2>1. CASE outcome = "whole" /\ ~TailIsCut(Current)
    <3>1. new \in Sealed'
      <4>1. \E i \in DOMAIN ledger' : ledger'[i] = new
        BY <1>5, <1>6, <2>1
      <4> QED
        BY <4>1, <1>2, <1>3 DEF Sealed, Genesis
    <3> QED
      BY <3>1, <1>3 DEF Known
  <2>2. CASE ~(outcome = "whole" /\ ~TailIsCut(Current))
    BY <2>2, <1>1 DEF Known
  <2> QED
    BY <2>1, <2>2
<1>11. Known \subseteq Known'
  <2>1. lost \subseteq lost'
    BY <1>1
  <2> QED
    BY <2>1, <1>9 DEF Known
<1>12. \A i \in DOMAIN ledger' : ledger'[i].as = "cut" => ledger'[i].hash = Genesis
  BY <1>3, <1>7 DEF SignInv
<1> QED
  BY <1>10, <1>11, <1>12

LEMMA SignStep ==
    ASSUME SignInv, [VaultNext]_vaultVars
    PROVE  SignInv'
<1>1. VaultTypeOK'
  BY TypeStep DEF SignInv
<1>2. ASSUME NEW p \in Processes, AppendBlock(p)
      PROVE  SignInv'
  <2>1. /\ sig' = sig
        /\ \A q \in Processes : latest'[q] = IF q = p THEN used + 1 ELSE latest[q]
        /\ \A q \in Processes : q # p => at'[q] = at[q]
    BY <1>2 DEF AppendBlock, Advanced, SignInv, VaultTypeOK
  <2>2. /\ Known \subseteq Known' /\ used + 1 \in Known'
        /\ \A i \in DOMAIN ledger' : ledger'[i].as = "cut" => ledger'[i].hash = Genesis
    BY <1>2, KnownGrows
  <2>3. sig' \subseteq Known'
    BY <2>1, <2>2 DEF SignInv
  <2>4. ASSUME NEW q \in Processes, at'[q] \in {"signing", "blanked"}
        PROVE  latest'[q] \in Known'
    BY <2>1, <2>2, <2>4 DEF SignInv
  <2> QED
    BY <1>1, <2>2, <2>3, <2>4 DEF SignInv
<1>3. ASSUME UNCHANGED <<ledger, shelf, lost>>
      PROVE  Known' = Known
  BY <1>3 DEF Known, Sealed
<1>4. ASSUME NEW p \in Processes, Open(p)
      PROVE  SignInv'
  BY <1>1, <1>3, <1>4 DEF Open, SignInv, VaultTypeOK
<1>5. ASSUME NEW p \in Processes,
             Turn(p) \/ Blank(p) \/ SignRaises(p) \/ VaultDies(p)
      PROVE  SignInv'
  BY <1>1, <1>3, <1>5 DEF Turn, Blank, SignRaises, VaultDies, SignInv, VaultTypeOK
<1>6. ASSUME NEW p \in Processes, Sign(p)
      PROVE  SignInv'
  BY <1>1, <1>3, <1>6 DEF Sign, SignInv, VaultTypeOK
<1>7. CASE UNCHANGED vaultVars
  BY <1>1, <1>3, <1>7 DEF vaultVars, SignInv
<1> QED
  BY <1>2, <1>4, <1>5, <1>6, <1>7 DEF VaultNext, Deposit

\* The signature file never signs a block that is not on disk unless its own
\* append went wrong, for any number of processes, rotations and deaths.
THEOREM SignatureFollows == VaultSpec => []SignedIsSealed
<1>1. SignInv /\ [VaultNext]_vaultVars => SignInv'
  BY SignStep
<1>2. SignInv => SignedIsSealed
  BY DEF SignInv, Known, SignedIsSealed
<1> QED
  BY <1>1, <1>2, SignInit, PTL DEF VaultSpec
=============================================================================
