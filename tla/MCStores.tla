------------------------------ MODULE MCStores ------------------------------
(***************************************************************************)
(* Small instances of the parts that keep records and share no state: the  *)
(* memory spine being pruned, the identity ledger, the line log under it,  *)
(* the records of the Nexus loop, the self-improvement journal, and the    *)
(* workspace with its archive.  store says which of them moves; the others *)
(* keep their initial states, so the states of the parts add up instead of *)
(* multiplying.                                                            *)
(***************************************************************************)
EXTENDS MemorySpine, SvalbardVault, JsonlLog, Elysium, SelfModification,
        GlobalWorkspace, TLC

VARIABLE store

\* The instances.
AllBreaks == {"raise", "die"}
AllFaults == {"drop", "tear"}
BothModes == {"default", "comonadic"}
AllDiskFaults == {"none", "torn", "unsynced", "gzip", "move"}
OneObject == [w \in Writers |-> CHOOSE l \in Loggers : TRUE]
AllPlaced == Keys \X Level
AlwaysLogged == {TRUE}
ThreadsAndKeys == Permutations(Threads) \cup Permutations(Keys)

storesVars == <<vars, vaultVars, logVars, elysiumVars, journalVars, workspaceVars>>

StoresInit ==
    /\ Init /\ VaultInit /\ LogInit /\ ElysiumInit /\ JournalInit
    /\ WorkspaceInit
    /\ store \in {"spine", "ledger", "log", "hive", "journal", "workspace"}
    /\ store # "ledger" => mode = [p \in Processes |-> "default"]

StoresNext ==
    /\ \/ /\ store = "spine" /\ Next
          /\ UNCHANGED <<vaultVars, logVars, elysiumVars, journalVars, workspaceVars>>
       \/ /\ store = "ledger" /\ VaultNext
          /\ UNCHANGED <<vars, logVars, elysiumVars, journalVars, workspaceVars>>
       \/ /\ store = "log" /\ LogNext
          /\ UNCHANGED <<vars, vaultVars, elysiumVars, journalVars, workspaceVars>>
       \/ /\ store = "hive" /\ ElysiumNext
          /\ UNCHANGED <<vars, vaultVars, logVars, journalVars, workspaceVars>>
       \/ /\ store = "journal" /\ JournalNext
          /\ UNCHANGED <<vars, vaultVars, logVars, elysiumVars, workspaceVars>>
       \/ /\ store = "workspace" /\ WorkspaceNext
          /\ UNCHANGED <<vars, vaultVars, logVars, elysiumVars, journalVars>>
    /\ UNCHANGED store

StoresSpec == StoresInit /\ [][StoresNext]_<<storesVars, store>>

\* Every part keeps its types.
StoresTypeOK ==
    /\ VaultTypeOK /\ LogTypeOK /\ ElysiumTypeOK /\ JournalTypeOK
    /\ WorkspaceTypeOK
=============================================================================
