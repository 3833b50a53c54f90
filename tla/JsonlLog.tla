------------------------------ MODULE JsonlLog ------------------------------
(***************************************************************************)
(* HardenedJsonlLogger (core/jsonl_logger.py): append and write_raw, step  *)
(* by step, by threads that share one log path.  Every logger object has a *)
(* lock of its own; several objects on one path (several processes, or the *)
(* callers that make a new object for each call) share only the files.     *)
(* A file that does not exist and an empty one are alike to this code.     *)
(***************************************************************************)
EXTENDS Naturals, Sequences, FiniteSets

CONSTANTS
    Writers,
    Loggers,      \* logger objects
    LoggerOf,     \* the object each thread appends through
    FullAt,     \* lines that reach max_bytes
    MaxBackups,   \* max_backups
    Quota,        \* disk_quota_bytes
    MaxRecords,   \* bound of the exploration
    DiskFaults    \* what may go wrong: "none", "torn", "unsynced", "gzip", "move"

ASSUME LogAssumption ==
    /\ LoggerOf \in [Writers -> Loggers]
    /\ FullAt \in Nat \ {0} /\ MaxBackups \in Nat \ {0}
    /\ Quota \in Nat \ {0} /\ MaxRecords \in Nat
    /\ DiskFaults \subseteq {"none", "torn", "unsynced", "gzip", "move"}

VARIABLES
    files,    \* files[0] is the current file, files[i] its backup i
    archive,  \* the compressed oldest backup
    lock,     \* per logger object: the threads that hold its _lock
    place,       \* per thread: where in append it is
    slot,     \* per thread: i of the loop over the backups
    number,   \* records handed to a write so far
    written,  \* history: records whose append returned True
    failed    \* history: why an append raised, "gone" or "disk"

logVars == <<files, archive, lock, place, slot, number, written, failed>>

\* A line is the number of its record, a fragment without a newline, or what
\* became of a fragment and the line glued to it.
Fragment == MaxRecords + 1
Glued    == MaxRecords + 2

LogInit ==
    /\ files = [i \in 0 .. MaxBackups |-> <<>>] /\ archive = <<>>
    /\ lock = [l \in Loggers |-> {}]
    /\ place = [t \in Writers |-> "idle"]
    /\ slot = [t \in Writers |-> 0]
    /\ number = 0 /\ written = {} /\ failed = {}

-----------------------------------------------------------------------------
\* The footprint _check_quota sums: it looks for "jsonl" among suffixes, which
\* carry their dot, so no file is counted.
Footprint == 0

\* Mutant: the lock is not taken.
AcquireNothing(t) == UNCHANGED lock

Acquire(t) ==
    /\ lock[LoggerOf[t]] = {}
    /\ lock' = [lock EXCEPT ![LoggerOf[t]] = {t}]

\* append: the lock, the quota, and the look at the current file.
Enter(t) ==
    /\ place[t] = "idle" /\ number < MaxRecords
    /\ Acquire(t)
    /\ Footprint < Quota
    /\ place' = [place EXCEPT ![t] = "look"]
    /\ UNCHANGED <<files, archive, slot, number, written, failed>>

Look(t) ==
    /\ place[t] = "look"
    /\ place' = [place EXCEPT ![t] = IF Len(files[0]) < FullAt THEN "write" ELSE "shift"]
    /\ slot' = [slot EXCEPT ![t] = MaxBackups - 1]
    /\ UNCHANGED <<files, archive, lock, number, written, failed>>

\* The loop over the backups has come to its end, or sees whether there is a
\* backup to move.
SeeBackup(t) ==
    /\ place[t] = "shift"
    /\ \/ /\ slot[t] = 0
          /\ place' = [place EXCEPT ![t] = "current"]
          /\ UNCHANGED slot
       \/ /\ slot[t] > 0 /\ files[slot[t]] # <<>>
          /\ place' = [place EXCEPT ![t] = "move"]
          /\ UNCHANGED slot
       \/ /\ slot[t] > 0 /\ files[slot[t]] = <<>>
          /\ slot' = [slot EXCEPT ![t] = @ - 1]
          /\ UNCHANGED place
    /\ UNCHANGED <<files, archive, lock, number, written, failed>>

\* Mutant: the file is copied to the next place.
Copied(i) == [files EXCEPT ![i + 1] = files[i]]

\* shutil.move of file i to the next place.
Moved(i) == [files EXCEPT ![i + 1] = files[i], ![i] = <<>>]

\* The move of a file that is gone raises, and so does any that the disk
\* refuses, taken to leave both files as they were: out of append, through the
\* lock.
MoveRaises(t, i) ==
    /\ \/ files[i] = <<>> /\ failed' = failed \cup {"gone"}
       \/ files[i] # <<>> /\ "move" \in DiskFaults /\ failed' = failed \cup {"disk"}
    /\ place' = [place EXCEPT ![t] = "idle"]
    /\ lock' = [lock EXCEPT ![LoggerOf[t]] = {}]
    /\ UNCHANGED <<files, slot>>

MoveBackup(t) ==
    /\ place[t] = "move"
    /\ \/ /\ files[slot[t]] # <<>>
          /\ files' = Moved(slot[t])
          /\ place' = [place EXCEPT ![t] = "shift"]
          /\ slot' = [slot EXCEPT ![t] = @ - 1]
          /\ UNCHANGED <<lock, failed>>
       \/ MoveRaises(t, slot[t])
    /\ UNCHANGED <<archive, number, written>>

MoveCurrent(t) ==
    /\ place[t] = "current"
    /\ \/ /\ files[0] # <<>>
          /\ files' = Moved(0)
          /\ place' = [place EXCEPT ![t] = "gzip"]
          /\ UNCHANGED <<slot, lock, failed>>
       \/ MoveRaises(t, 0)
    /\ UNCHANGED <<archive, number, written>>

\* The oldest backup, if there is one, becomes an archive that read_lines does
\* not open; when that raises, the archive is spoilt and the backup stays.
Compress(t) ==
    /\ place[t] = "gzip"
    /\ place' = [place EXCEPT ![t] = "write"]
    /\ \/ files[MaxBackups] = <<>> /\ UNCHANGED <<files, archive>>
       \/ /\ files[MaxBackups] # <<>>
          /\ archive' = files[MaxBackups]
          /\ files' = [files EXCEPT ![MaxBackups] = <<>>]
       \/ /\ files[MaxBackups] # <<>> /\ "gzip" \in DiskFaults
          /\ archive' = <<>>
          /\ UNCHANGED files
    /\ UNCHANGED <<lock, slot, number, written, failed>>

\* A line and its newline written with O_APPEND, as a whole or in part.
Added(file, line) ==
    IF file # <<>> /\ file[Len(file)] = Fragment
    THEN IF line = Fragment THEN file ELSE [file EXCEPT ![Len(file)] = Glued]
    ELSE Append(file, line)

\* open, write, flush and fsync.  An error of any of them is caught: append
\* returns False with nothing, a part or all of the line in the file.
Write(t) ==
    /\ place[t] = "write" /\ number < MaxRecords
    /\ number' = number + 1
    /\ \E outcome \in {"whole"} \cup (DiskFaults \cap {"none", "torn", "unsynced"}) :
         /\ files' = CASE outcome = "none" -> files
                       [] outcome = "torn" ->
                            [files EXCEPT ![0] = Added(@, Fragment)]
                       [] outcome \in {"whole", "unsynced"} ->
                            [files EXCEPT ![0] = Added(@, number')]
         /\ written' = IF outcome = "whole" THEN written \cup {number'} ELSE written
    /\ place' = [place EXCEPT ![t] = "idle"]
    /\ lock' = [lock EXCEPT ![LoggerOf[t]] = {}]
    /\ UNCHANGED <<archive, slot, failed>>

\* The process of a logger object dies, wherever its threads are; a write it
\* was in is the "torn" of the write before.
LoggerDies(l) ==
    /\ lock[l] # {}
    /\ place' = [t \in Writers |-> IF LoggerOf[t] = l THEN "idle" ELSE place[t]]
    /\ lock' = [lock EXCEPT ![l] = {}]
    /\ UNCHANGED <<files, archive, slot, number, written, failed>>

RotateSteps(t) == SeeBackup(t) \/ MoveBackup(t) \/ MoveCurrent(t) \/ Compress(t)

LogNext ==
    \/ \E t \in Writers : Enter(t) \/ Look(t) \/ RotateSteps(t) \/ Write(t)
    \/ \E l \in Loggers : LoggerDies(l)

LogSpec == LogInit /\ [][LogNext]_logVars

-----------------------------------------------------------------------------
Line == 1 .. MaxRecords + 2

LogTypeOK ==
    /\ files \in [0 .. MaxBackups -> Seq(Line)] /\ archive \in Seq(Line)
    /\ lock \in [Loggers -> SUBSET Writers]
    /\ place \in [Writers -> {"idle", "look", "shift", "move", "current", "gzip", "write"}]
    /\ slot \in [Writers -> 0 .. MaxBackups - 1]
    /\ number \in 0 .. MaxRecords
    /\ written \subseteq 1 .. number
    /\ failed \subseteq {"gone", "disk"}

\* The lines of the backups and the current file, oldest first.
History ==
    LET From[i \in 0 .. MaxBackups] ==
            IF i = 0 THEN files[0] ELSE files[i] \o From[i - 1]
    IN  From[MaxBackups]

Readable == [k \in DOMAIN History |->
                IF History[k] > MaxRecords THEN 0 ELSE History[k]]

Log == INSTANCE DurableLog WITH
           lines <- Readable,
           torn <- files[0] # <<>> /\ files[0][Len(files[0])] = Fragment,
           issued <- number,
           accepted <- written,
           Keep <- IF MaxBackups > 1 THEN FullAt ELSE 0,
           MaxLines <- MaxRecords

\* Wherever the process dies or a move fails in a rotation, the threads of one
\* logger object leave a log as DurableLog describes it: nothing reported as
\* written disappears before it is among the oldest, nothing comes twice or
\* out of order, and a torn line costs at most the line after it.
LogIsDurable == Log!DurableSpec

\* append raises for the disk alone: a file it has seen is still there when it
\* is moved, whatever rotation another thread, a death or a failed move broke off.
OnlyTheDiskRaises == "gone" \notin failed

\* "O_APPEND for cross-process safety on the same host": the newest records
\* that append reported as written are in the log or its archive.
NewestAreKept ==
    \A r \in written : r + FullAt > number =>
        \/ \E k \in DOMAIN History : History[k] = r
        \/ \E k \in DOMAIN archive : archive[k] = r
=============================================================================
