# TLA+ models of INFJ-bot / Trinity

This directory holds specifications of the stateful parts of the repository: the
*Trinity* evidence pipeline (`drift/trinity/`) and the *core* of the companion
(`core/`). Every definition is translated from the Python source; `PROJECT.json`
maps each one to its file and lines. TLC checks small instances (`MC*.tla`,
`MC*.cfg`), TLAPS checks the theorems of the `*_proofs.tla` modules for every
value of the constants.

To repeat a run or a proof:

    tlc -workers 2 -config MCCaseflow_overlap.cfg MCCaseflow
    tlapm Caseflow_proofs.tla

## 1. The system and its parts

The program is one Python process with an asyncio loop, worker threads
(`anyio.to_thread`, FastAPI's thread pool) and several stores on disk (SQLite,
Chroma, JSONL files, plain files). Two processes may run at once: the terminal
and the web server. Components talk through direct calls, a plugin registry run
once per tick of a background loop, and the files.

### 1.1 Modelled

| Component | State | Operations | Talks to | Hard behaviour |
|---|---|---|---|---|
| Evidence board `drift/trinity/council/evidence_board.py`, `forge_council_schema.py` | claims, evidence items, messages; JSONL journal | create, message, accept / reject / memory update, add evidence, replay | council runner, caseflow | only some transitions are journalled; several boards on one journal; appends raise after memory changed |
| Council runner, evidence packet `council_runner.py`, `evidence_packet.py` | the round in progress; six bundle files | `run_round`: six agents, packet, six writes | board, file system | rounds on a claim in any state; a crash between any two files or inside one |
| Trinity caseflow `caseflow.py` | bundle directory, case ledger | `run_case_from_scan` | HTTP API threads, council | overlapping runs of one case, retries after crashes |
| Memory spine `core/unified_memory.py`, `core/memory.py` | SQLite rows, Chroma vectors | remember, forget, edit, prune, auto-prune | worker threads | two stores, no transaction over both, decisions older than their effect |
| Global workspace `core/global_workspace.py` | pool, active tier, bands, spotlight, archive | submit, cycle, set/move spotlight | plugins, commands | capacities, deduplication, decay between calls, the order of calls |
| Circuit breaker `core/resilience.py` | state, counters, last failure | can_execute, record_success, record_failure | every guarded plugin call | guarded work runs outside the lock and ends late |
| Svalbard vault `core/svalbard_vault.py`, with the logger, the regulator and `interfaces/main.py` | ledger file, rotated files, signature file, `latest_hash` | open, deposit (append, sign), rotate | workspace, terminal | lost, torn and very long lines, rotation, restarts, two paths to a deposit |
| Jsonl logger `core/jsonl_logger.py` | the current file, numbered backups, a compressed archive, a lock per object | append (look, rotate, write), read | the vault, audit logs, key-value state | death or a failing move between two moves, fragments, several objects on one path |
| Plugin registry and cycle `core/cognitive_architecture.py`, `core/cognitive_orchestrator.py` | flags in memory and in SQLite, instances, the place in the phases, a breaker per plugin | load, register, wire, cycle, enable, disable | background loop, operator's threads, breakers | commands beside the cycle, restarts, failing handlers |
| Self-modification `core/self_modify.py` | proposals and plans in SQLite, lists in memory | cycle (validate, form a plan, propose), review | orchestrator, `/proposals` | lists loaded once, errors half-way, restarts |
| Elysium council and Nexus `core/hive/elysium.py`, `nexus.py`, `council_member.py` | four databases, self-model and win counts in memory | decide, reflect | `/hive` threads, background reflection, memory spine | writes one after another, memory changed before a write that raises, overlapping calls, restarts |
| Reminders `core/plugins/scheduler.py`, `interfaces/main.py` | one table, the list a check works on | add, cancel, check | background loop, operator's threads | marked done before printed, stale list, checks that break off |

What makes them correct, in a sentence each: a claim is accepted by
EvidenceAgent or not at all, and what was decided is what a replay finds; a
published packet never says more than the journal, nor runs ahead of the claim
beside it; no scan promotes itself; a row that stays is recallable, a forgotten
one stays forgotten, a protected one is not pruned; attention is neither lost
nor stuck; a breaker neither stays open for ever nor closes while unhealthy; the
ledger is one history and the signature signs what is in it; a log line reported
as written stays until it is among the oldest; a disabled plugin stays out and an
enabled one is never starved; review queues stay within their limits; databases
written one after the other never contradict each other; a reminder is printed
once.

### 1.2 Not modelled

`PROJECT.json` lists each with its reason. In short:

| Component | Why |
|---|---|
| Hive governance (`core/coordination.py`, `hive_mind/`) | nothing outside tests and demos calls its cycle |
| Forgetting engine, memory consolidation | `ForgettingEngine` and the consolidator's `remember` have no callers |
| Key-value state with expiry | no caller passes an expiry, so what is left is one statement per call |
| Scheduler recurrence, `clear_old` | no callers; reminders are one-shot |
| `ResilienceManager.execute` | no callers; the orchestrator uses the breakers themselves |
| PEDI regulator | its anchor test is in the vault's model; the rest is real arithmetic |
| Event bus | publishes in order and swallows what a handler raises |
| Health monitor, retry wrapper, generation cache, rate limiter, self-heal guard | one loop, one SQL statement or one pure check each |
| Model router, generation, prompt budget | calls to language models |
| Being, homeostasis, shadow, emotional field, relationship | real-valued state with one writer |
| Findings database, targets, reports, Trinity database, release packet | one statement per command |
| Reasoning cycle, SARIF pipeline, adapters, deduplication | pure data transformation |
| Guardrails, gates, policies | pattern checks on text |
| Audit and history logs, terminal and web interfaces, MCP servers | I/O over the components above |
| Evaluations, hunts, scripts, vendored skills | offline programs, third-party text |

These take most of the repository's lines: the specifications stand for the part
that keeps state shared by several actors or across failures.

## 2. Modules

`Caseflow` extends `CouncilRunner`, which extends `EvidenceBoard`: each adds
variables and actions to the one below and uses its operators inside its own
steps. `CouncilRunner` instantiates `Dossier` and `JsonlLog` instantiates
`DurableLog`, the abstract specifications they implement. The others stand alone.
The theorems about a module are in the `*_proofs` module of its name; those of
`MCLoops` and its parts are in `Loops_proofs`, those of `MCStores` and of the
journal, the hive and the line log in `Stores_proofs`.

**EvidenceBoard.** `Boards` are board objects, `journal` and `evidence` what a
replay of the file keeps (the last record of each claim, the set of evidence
ids). `AddMessage` is `add_message` with `_apply_message` in full: the message
is stored before `transition` may refuse it, only `Decisions` append the claim,
and an append that raises leaves memory changed. `Open` is `__init__` with
`_load`; `Close` is external: the object is dropped or its process dies.
"confirmed" and "reproduced" are one value since every test names both;
confidence, notes and timestamps are left out since nothing branches on them.

**CouncilRunner.** `round[b].step` is the program counter of `run_round`: 1-6 an
agent acts (`AgentTurn`, message decided by `MessageFrom`, applied by
`Applied`), 7 the packet is built, 8-13 `write_text` per file, 14 return.
`write_text` is two steps: `OpenFile` empties the file, `WriteFile` gives it its
text. A crash, a full disk or another round between the two leaves the file
`torn`; two boards that have one file open at once leave it `mixed`, which stands
for any content. `Return` from 8-14 is also an opening or a write that raises.
`BetweenRounds` lets the owner use every operation of the board.

**Dossier.** What someone who has only the journal and the bundle of a claim may
rely on: acceptances (`Accept`) are never taken back, versions (`Issue`) grow, and
a file is emptied (`Empty`) and written (`Write`) for the latest version, as
reproduced only when the claim is accepted, and after the files it is read beside
(`Beside`), which are then whole and say the same. Between the two, and for good if
the writing stops there, its reader finds it torn. The mapping takes acceptances
from the journal (`AcceptedClaims`) and states, versions and verdicts from the files
and the packets they were opened for (`ShownFiles`);
boards, agents, messages and rounds disappear.

**Caseflow.** A run is a board: `BeginRun` opens it on the case's journal, the
round runs to its end, `RecordRun` appends the ledger entry, `RunDies` stops it
anywhere, also inside a file. Whether the scan brings evidence references is a
choice (`ctx`). `LedgeredCaseIsComplete` says of a ledgered case that its six files
exist and that a file that still is of the ledgered run was written to its end; a
later or overlapping run may have emptied it since (section 3).

**MemorySpine.** `call[t].pc` is where a worker thread stands: after `INSERT`
and commit ("vector"), after a `SELECT` ("delete"), after a `DELETE` and commit
("unvector"), or between the two halves of `edit_concept` ("insert").
`PruneScan` sorts the rows (`Sorted`; SQLite leaves the order of ties open, so any
of them is taken) and deletes what `prune_sync` does: the worthless rows that
nothing spares, then, of the others, the first in the order above the cap
(`Trimmed`; together `Doomed`). `Age` is time. `cut` is a history
variable: the ids whose `remember` raised or died before its `collection.add`.

**GlobalWorkspace.** `submit`, `cycle` and `move_spotlight` hold one lock, so
each is one action; `Decay` is time. `Cycle` is the whole of `cycle`: merge,
deduplicate (`Survivor`, `FirstSeen`), rank (`Rankings`: the one order of the
survivors that `Before` allows), deal out (`Dealt`: the archive threshold and the
two capacities cut the ranking in three), archive, choose the spotlight. Bands are one ranked sequence, since nothing but
display tells them apart. `owed` is a history variable: keys submitted and not
yet archived. Salience is an integer level.

**CircuitBreaker.** Every method is one action under the lock; `running` is the
callers whose work was admitted and not recorded. `Cancel` is a `CancelledError`,
which `except Exception` does not catch, so nothing is recorded. `quiet` is the
time since the last failure, up to the timeout. `ended` is a history variable: how
the work that ended last did (success, failure or cancelled).

**SvalbardVault.** A hash is the number of its block. `Open` reads the last line
of the file, or the genesis hash when that line is cut, absent or among `LongLines`:
the code looks at the last 8192 bytes and cannot parse part of a longer line; `AppendBlock` is the deposit up to `append` (whose result the code
ignores) and the advance of `latest_hash`; `Blank` and `Sign` are the two halves
of writing the signature file; `SignRaises` and `Die` cut it short. `Written` and
`Current` are the logger: whole, dropped and torn appends, glued lines, rotation
in one step.
`Anchored` is the regulator reduced to "its anchor is valid". The three numbered
backups are one set of lines, `shelf`. `lost` is a history variable: hashes whose
append failed or was glued to a fragment.

**JsonlLog** and **DurableLog.** `place[t]` is where a thread stands in `append`:
the look at the size, the loop over the backups (`SeeBackup`, `MoveBackup`), the
move of the current file, compression, the write. Each file operation is a step,
and `LoggerDies` may come between any two. A line is its record's number, a
fragment, or what a fragment and the next line became. `lock` is one per logger
object, since the code's lock is. `DurableLog` says what an appender may rely on
without files or locks; the mapping reads the backups and the current file in
order and forgets archives, locks and places. `MoveRaises` is a move that raises,
because its file is gone or because the disk refuses it; both leave `append`
through the lock, since the moves are outside its `try`. `failed` is a history
variable: which of the two has happened. Only several objects on one path can find
a file gone.

**CognitiveCycle.** `registry` is `_plugins` in memory and `rows` the table; `Boot`,
`Register` and `Wire` are the start of `interfaces/main.py`; `GoAhead`/`PassOver`
is the question the orchestrator asks of a plugin and its breaker, `RunPlugin`
the call, which looks at `enabled` once more. `Disable` and `Enable` change
memory, `Commit` or `UpdateRaises` ends the command. `banned` is a history
variable: what the operator was told is disabled.

**SelfModification.** `considered` and `intended` are the lists of the long-lived
object, `proposals` and `plans` the tables. `part` is where `cycle` is;
`CycleRaises` ends it anywhere; `Review` is the operator's command, which uses an
object of its own and so changes the tables alone.

**Elysium.** `doing[d]` is the step of a call of `decide`: the verdict, its row,
the self-model under its lock, the decision's row, the win, the saving of every
member (`Drain`), the memory. `WriteRaises` ends the call at any write and leaves
in memory what it had changed there, a win included, which any later save of that
member writes (`Flushed`: when it proposes, wins or is drained). `CountReflection`
may fail to save in the same way. `Restart` ends every call and reloads memory from
the tables. Integrated scores lie between 0.40 and 0.68 and are
divided by their sum, so the shares a leader can have follow from the number of
proposals (`Shares`).

**TaskScheduler.** `listed` is what the check read, `marked` the reminder marked
done and not printed; `MarkRaises` and `CheckBreaks` end the check. `lost` is a
history variable: reminders whose printing failed or never came.

**MCStores** and **MCLoops** check parts that share no state in one run each: a
variable says which part moves, chosen in the initial state, and the others keep
their initial values. The reachable states are those of each part alone, side by
side, so every property is about its own part; the liveness properties of `MCLoops`
ask fairness only of the part that moves.

## 3. Runs

| Run | Question | Instance | States |
|---|---|---|---|
| `council_round` | Does everything decided, referred to and published stay consistent over rounds, calls between rounds, restarts and crashes, and is it what `Dossier` says? | 1 board, 1 claim, 1 item, 2 agents, 7 messages per opening, 2 packets | 0.7 M |
| `council_refs` (violation) | Does a reproduced packet list its evidence? | the same | |
| `case_overlap` | Can overlapping, failing, repeated runs promote a claim or ledger an incomplete case? | 2 runs of 1 case, 2 packets | 0.3 M |
| `spine_calls` | Do concurrent remember, forget, edit and prune lose or revive a memory, or leave one waiting for ever? | 3 ids, 2 threads, 1 concept, raise and die | 0.8 M |
| `spine_atomic` (violation) | Do the two stores agree between calls? | 2 ids, 2 threads, no failure | |
| `stores` | Do the parts that keep records keep them (see below)? | see below | 1.5 M |
| `workspace_vanish` (violation) | Is every submitted broadcast kept or archived? | 2 keys, tiers of 2 and 1 | |
| `vault_trust` (violation) | Does only a trusted anchor seal? | 1 process, both ways of starting | |
| `log_race` (violation) | Do two logger objects on one path keep what they reported as written? | 2 threads, an object each | |
| `elysium_deny` (violation) | Is a risky goal blocked, refused or carried by a high share? | 1 call, 3 members | |
| `loops` | Do the parts that run in the background go on? | see below | 17 k |
| `cycle_unprotected` (violation) | Does a breaker hold off a handler that keeps raising? | 2 plugins, threshold 2 | |

The parts of `stores`: the spine being pruned (3 ids, 2 threads, worth 0-2,
threshold 1, cap 1): a prune deletes no protected row and the cheapest first; the
identity ledger (1 process, 5 deposits, 3 lines per file, window 4): no fork, an
unbroken chain, a signature of something sealed; the line log (2 threads, 1
object, 2 lines per file, 2 backups, 7 records, every disk fault): it implements
`DurableLog`, and `append` raises for the disk alone; the Nexus loop (2 calls, 3 members, 1
reflection): `RecordsNest`, `WinsAreDecided`; the journal (pending limit 2, 3 rows
loaded, 4 proposals, 3 plans): `FewAreOffered`, `OneActivePlan`; the workspace (3
keys, levels 0-2, tiers of 1): capacities, order, nothing lost but a moved
spotlight. The parts of `loops`: the breaker (3 callers, threshold 3, timeout 2,
2 probes), the cycle (a core plugin after one that can be disabled, threshold 2),
the fading of the workspace, and 2 reminders.

**Why the bounds are enough.** Claims do not interact, nor do evidence items
beyond "none or some", so one of each shows every case of the board; seven
messages are a round and a call before or after it, and because the count restarts with a board the
journal can be replayed and worked on again any number of times. Two packets
show one bundle overwriting another and two runs in one file; a run that has ended or died
leaves its entry or its torn file to the second. The spine's hazards involve one row and two calls; three ids let an edit
draw a new one while a prune takes another, and let a cap of one choose. Tiers
of one with three keys make every cycle overflow. Three callers let one be late
while two probe. Five deposits with three lines a file give a full rotation and
a file after it, with any pattern of lost and torn lines, and the second and third
blocks too long to be read back (`LongLines`); seven records in files of
two with two backups rotate until the archive is overwritten. A pending limit
below the rows loaded, with more proposals than both, lets the list in memory and
the table drift apart and a restart forget rows. Two calls of `decide` overlap at
every step, with a reflection between them. Two plugins show one failing before
the other. `MaxMessages`, `MaxPackets`, `MaxPool`, `MaxBlocks`, `MaxWorth`,
`MaxLevel`, `MaxRecords`, `MaxProposals`, `MaxPlans` and `MaxReflections` are the
only bounds that are not in the code. In the spine `Ids` bounds the exploration
too. `CHECK_DEADLOCK FALSE` is set where a part comes to rest when its ids,
packets, records or calls are used up. Symmetry is used only in runs without liveness.

**Fairness.** Each specification asks only what schedules the code:

- `FairSpineSpec`: a worker thread that has begun a call goes on (weak fairness of
  its next step). Starting calls, failures and time are not fair.
- `FairWorkspaceSpec`: `cycle` is registered as a core plugin and runs on every
  tick of the background loop, and time passes. Submissions are not fair, and
  may go on for ever.
- `FairBreakerSpec`: the loops call their plugins every cycle, admitted work ends,
  the clock advances. `Recovers` assumes that from some time on no work fails and
  that work goes on to succeed, which is what "the module recovered" means; work may
  be cancelled in between for ever.
- `FairCycleSpec`: the operator starts a stopped program again and the loop does not
  rest for good. Commands, failures and stops are not fair; `NobodyStarves` is
  about plugins that from some time on stay up and enabled.
- `FairSchedulerSpec`: the background loop checks every fifteen seconds, also when
  its proactive part is switched off, and goes through what it listed.
  `RemindersCome` assumes that from some time on checks do not break off.

`MCLoops` states the last three and the workspace's together, each for the part
that moves.

**What the violations show.** Each contradicts a sentence of the repository that
the finding quotes:

1. `council_refs`: a context's `evidence_refs` count as evidence but are never
   attached to the claim, so a packet can say `REPRODUCED_REAL` and list none.
2. `spine_atomic`: "Atomic guarantees" are not given over SQLite and Chroma. A
   `forget_concept` between another thread's `INSERT` and `collection.add`
   leaves a vector that no operation ever removes.
3. `workspace_vanish`: `move_spotlight` takes the item out of the tiers, and the
   next `cycle` overwrites the spotlight: it is neither kept nor logged.
4. `vault_trust`: `docs/COMONADIC_BRIDGE.md` says a comonadic turn seals only when
   the regulator answers STABLE or EVOLVING; the code deposits unconditionally.
5. `cycle_unprotected`: `CognitivePlugin.run_cycle` swallows what a handler raises,
   so the orchestrator records a success and the breaker it asks never opens.
6. `log_race`: the lock belongs to the logger object, and some callers make a new
   object for each call. Two rotations from the same look at the file bury records
   that were just reported as written; a move of a file that is gone raises.
   (`append` is documented as "Never raises" (`jsonl_logger.py:67`); with one object
   a move that the disk refuses still does, see `OnlyTheDiskRaises`.)
7. `elysium_deny`: a risky goal whose leading proposal is a refusal with a small
   share is resolved by a composite, which neither blocks nor refuses.

Also true of the code and not a finding: an overlapping or later run of the same
case may empty a file of a case that is in the ledger and then die, or write it
together with the other run, so a ledgered case need not stay readable; and a
ledger line longer than 8192 bytes makes the next start begin a new chain at the
genesis hash with no failed append and no rotation.

Also true of the code, known from exploring the vault's model with other
constants and not kept as runs: after a rotation `verify_identity_integrity`
of the full chain answers False for a file nobody touched (`ChainVerifies`
therefore stops at the first rotation); two processes on one ledger fork it
(`NoFork` is about one at a time); and a ledger that starts empty on the default
path stays empty, because a deposit waits for an anchor that only deposits make.
From reading: a composite's winner is named "Nexus", which is also a member, so
that member is credited; the self-model is saved as a whole row, so two processes
overwrite each other's counts; a reminder cancelled while the check runs is
printed all the same; and the list of pending proposals never learns of reviews,
so after as many proposals as the limit none is made until a restart.

## 4. Theorems

TLAPS proves these for every value of the constants that meets the named `ASSUME`s
of the modules: bounds are naturals, the "none" values (`NoClaim`, `NoPacket`,
`NoBroadcast`, `NoConcept` and the like) differ from real ones, EvidenceAgent is
one of the agents, the active tier has room for one broadcast, and in `Caseflow`
the bound on messages leaves a run its six (`RoomAssumption`). TLC evaluates them
in the runs. What a theorem needs beyond them is in its last column.

The Trinity pipeline (`EvidenceBoard_proofs`, `CouncilRunner_proofs`, `Caseflow_proofs`):

| Theorem | Says | For |
|---|---|---|
| `BoardTyping`, `CouncilTyping`, `CaseTyping` | types of boards, rounds and bundles, runs and ledger | all constants |
| `PromotionRule`, `CouncilPromotionRule` | an accepted claim was accepted by EvidenceAgent, in every memory and in the file | any number of boards on one journal, any appends failing; the second over whole rounds |
| `ReferentialIntegrity`, `CouncilReferences` | references are backed by items and records across replays | any boards, appends that do not fail |
| `OutcomeOfARound` | once the agents have spoken, the claim is accepted exactly when EvidenceAgent could accept it | any boards, any appends failing |
| `DecisionsAreDurable` | what is decided is what a replay finds | one board on the journal (`Alone`), appends that do not fail |
| `StampsStay` | no journalled claim is forgotten, no stamp, flag or reference taken back | `Alone`; appends may fail |
| `NothingPublishedEarly` | no file calls a claim reproduced before the journal has EvidenceAgent's acceptance | `Alone`; appends may fail |
| `ReaderNeverMisled` | no file is newer than those its reader relies on, and one of those that is torn was torn by a newer packet | `Alone`; breaks anywhere, inside a file too, and repetitions |
| `CouncilImplementsDossier` | the whole of it implements `Dossier`, step by step | `Alone`; appends may fail |
| `NoSelfPromotion` | the pipeline never accepts a claim or calls one reproduced | any number of overlapping, dying, repeated runs |
| `LedgeredCasesComplete` | a case in the ledger has all its files, and those still of the ledgered run were written to their end | the same |

The core (`MemorySpine_proofs`, `SvalbardVault_proofs`, `GlobalWorkspace_proofs`,
`Stores_proofs`, `Loops_proofs`):

| Theorem | Says | For |
|---|---|---|
| `SpineTyping`, `VaultTyping`, `WorkspaceTyping`, `JournalTyping`, `ElysiumTyping`, `LogTyping`, `BreakerTyping`, `CycleTyping` | types, and no file or tier past its limit | all constants |
| `StoresTyping`, `LoopsTyping` | the same of the parts side by side, and that the others rest | all constants |
| `ProtectionHolds` | no prune deletes a protected row | any threads, cap, threshold, failures |
| `CapIsFair` | what the cap deletes is worth no more than any deletable row it leaves | the same |
| `ForgottenForGood` | a deleted memory never returns | the same |
| `NothingSilent` | a row without a vector is being remembered or was cut short | the same |
| `OneHistory` | the readable blocks never fork | one process at a time, any faults |
| `ChainHolds` | the chain verifies until an append fails or a file is rotated away, but for blocks that start again at the genesis hash right behind a line too long to be read back | one process at a time; any set of long lines |
| `SignatureFollows` | the signature signs a block that is on disk or whose own append went wrong | any number of processes |
| `CycleSorts` | a cycle leaves the tiers in order, without duplicates, filled from the top | any keys, levels, capacities and calls |
| `NothingElseVanishes` | what waits or is in a tier is held after the next call, unless it was archived: only a broadcast moved into the spotlight can be lost | the archive's writes succeed (`LogOutcomes` = {TRUE}) |
| `RaisesAreTheDisks` | `append` raises only where the disk refuses a move, never because a file is gone | one logger object on the path (`OneLogger`); any threads, backups, faults, failed moves, deaths |
| `OffersStayFew`, `PlansStaySingle` | offers within the limit; one active plan | any limits, reviews, errors, restarts |
| `DatabasesNest`, `NoFreeWins` | the four databases agree; wins, in memory and in their rows, have their decisions | any calls, members, failing writes, restarts |
| `Healthy`, `Probing`, `Admitting` | closed is healthy; half-open is quiet and still admits | any callers and limits |
| `DisabledStay` | a disabled plugin's handler is not called | any plugins, phases, restarts, failing commands |
| `PrintedOnce` | a reminder is printed at most once, never after it was given up | any reminders, checks breaking off anywhere |

**How the arguments go: Trinity.** Everything about a board rests on one lemma:
each of its operations, and each agent's turn, is a *move* (`Moves`): at most one
claim changes, to a record that `Follows` the one found, and the journal gets
that record, an undecided one, or nothing because nothing was decided or the
append raised. `PromotionRule`, `StampsStay` and `DecisionsAreDurable` are proved
of moves once and hold between rounds and within them. `OutcomeOfARound` needs
`Spoken`: from the turn after EvidenceAgent's on, the status is already the final
one. `StampsStay` needs that an open board knows at least what the journal has
(`Reflected`), which is why one board must have the journal to itself: a second
would write its own, poorer copy. `NothingPublishedEarly` carries the stamp from the
turn that earns it to the last file (`Backed`); `ReaderNeverMisled` carries that the
packet being written is the latest one and that the files behind it have it, whole
(`WritesLatest`, `Numbered`). `CouncilImplementsDossier` joins these three with
`SameAsWritten`, that the files behind are from the very packet, and shows of each
action which step of `Dossier` it is: a move adds at most one acceptance
(`MoveAccepts`), a build issues a version, opening a file is `Empty` and writing it `Write`
(`OpensDossier`, `WritesDossier`).
`NoSelfPromotion` needs more (`CaseInv`): that the evidence agent never accepts
rests on every claim being unreproduced, and that a packet says
NEEDS_HUMAN_REVIEW rests on the evidence agent having spoken last.

**The core.** `ProtectionHolds` is about two distant steps, so `PruneInv` carries
that a row chosen at the SELECT stays unprotected until the DELETE, which holds
since ids are never redrawn and ageing protects nothing; `CapIsFair` carries in
the same way (`CapInv`) what the order at the SELECT said of the rows chosen and
left. `NothingSilent` needs that a call about to remove vectors has already removed
the rows and that those ids are not drawn again. `OneHistory` needs that hashes grow
along the chain and that what a process will name as its predecessor is the
genesis hash or no smaller than any readable block; `ChainHolds` that it is
exactly the last line, or the genesis hash behind a long one; `SignatureFollows` that whoever is about to sign will sign a
block on disk or one that was lost. The workspace's theorems need no invariant but
the types: a cycle's ranking names every competing key once and falls
(`Naming`, `Falling`), and what is dealt out is that ranking cut at two places
(`Split`), so order, capacities and what is lost can be read off it.
`RaisesAreTheDisks` needs that whoever is inside `append` holds the lock alone and
that the file it saw is still there (`Locked`, `Seen`). `OffersStayFew` and
`PlansStaySingle` rest on the lists of the object containing what is pending and
active in the tables, so that the limit on the list is a limit on the table
(`HeldBack`, `HeldAlone`). `DatabasesNest` counts: decisions surely counted, the
saved counter, the counter in memory, decisions that may have been counted, in
this order; and every step moves neighbours together (`Counting`). `NoFreeWins` does
the same for the rows that name a member and whose win is not outstanding, of the
count in memory and of the saved one, which every save sets to either of the two.
`DisabledStay` needs that a flag off in the table is off in memory while there is a
process (`Barred`), also while the command that sets it is half done. `PrintedOnce`
needs that what was printed or given up is marked done, which takes it out of
every later list.

**Only model-checked.** Liveness (`BecomesRecallable`, `EverythingFades`,
`Recovers`, `NobodyStarves`, `RemindersCome`) is out of reach of the prover, as are
ENABLED, RECURSIVE operators (no module here declares one) and induction over
data: what a recursive function computes for every input. `LogIsDurable`, whose
mapping reads the files through such a function, is therefore checked by TLC alone.
Every other property of a passing run has its theorem.

## 5. Left out of the modelled parts

- Contents of claims, memories and broadcasts; embeddings, recall ranking and the
  text of reports: no property is about them.
- Torn lines in the board's journal: `_load` raises on them and the case needs
  repair by hand, a consequence of one line.
- What two runs that have one bundle file open at once leave in it: it counts as
  unreadable (`mixed`).
- A move of the logger that fails is taken to leave both files as they were.
  `shutil.move` falls back to a copy when the rename fails; that the copy succeeds
  in the same directory and only the removal of the source fails is left out.
- `auto_prune`'s interval test is a choice; `force` is.
- `execute_cli_cycle`'s veto and the regulator's smoothing are a choice in `Turn`.
- The vault's model rotates in one step; the steps are in `JsonlLog`.
- Reading a log while another thread rotates it, and archives older than the last.
- The breaker's recovery time inside the cycle: `CognitiveCycle` has the counter
  that decides, `CircuitBreaker` the rest.
- Scores, areas, energies, coherence and the texts of the hive and the journal.

## 6. Plan

1. **Proofs**: what remains beside liveness is `LogIsDurable`, once the readable
   lines are a history variable instead of a recursive reading of the files.
2. **Abstract specifications**: a memory store with atomic remember and forget,
   implemented by `MemorySpine` up to vectors orphaned by a race; the vault's
   logger as an instance of `DurableLog`.
3. **Composition**: the workspace's submissions inside the plugin cycle; the
   cycle's breakers as instances of `CircuitBreaker`; two processes on one
   self-model and one ledger.
4. **Hive governance and the forgetting engine**, once the program calls them.
