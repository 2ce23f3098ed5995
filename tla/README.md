# Verification of discord-context-bridge

TLA+ specifications of discord-context-bridge, the configurations that check
them with TLC, and theorems about them that TLAPS checks. Paths are relative to
`src/src/discord_context_bridge/` unless they start with `docs/` or `scripts/`.

    tlc -workers 2 -config CaptureRun.cfg MCCaptureRun.tla     # one run
    tlapm DurableCaptureProofs.tla                             # one module's proofs

`PROJECT.json` lists components, runs, mutants, the source lines of every
definition, findings, hazards and theorems.

## 1. The system

discord-context-bridge copies conversations an operator may read into a private,
local store, decides whether a copy is complete enough to be relied on, and
prepares replies that a human sends. It is a command line program: no server
and no threads except around child processes, but any number of invocations
(people, agents, schedulers) work on one store directory at the same time, and
any of them may be killed. So the hard part is on disk: several files that have
to agree, written one after the other, under a lock that is not waited for, or
under none.

| Component | State | Operations | What makes it correct |
|---|---|---|---|
| Capture loop (`capture/orchestrator.py`, `capture/loop.py`) | the run envelope: state, `resume_state`, blocker, pending approval, retry and scan-pass budgets, lanes, gate evidence | `new_capture_loop`, `advance_capture_loop`, status projection | no stage is skipped through a pause or retry; budgets bind; a run closes; full means unblocked |
| Durable capture (`capture/service.py`, `capture/store.py`) | checkpoint, event ledger, attempt binding, lock file | `start_capture_loop`, `advance_persisted_capture` | the files are one run of the loop, each event applied once, whatever dies and whoever races |
| Coverage (`capture/virtual_scroll.py`) | windows, scan passes, message versions, invalid rows, blockers | `merge_capture_window` | order, gaps and stability mean what they say, in any order of arrival |
| Message ledger and gate (`capture/message_ledger.py`, `capture/reconcile.py`, `full_capture.py`, `cli.py`) | append-only events of rows | observe, observe-batch, reconcile, observed-full closeout | ledger and coverage agree; full is confirmed only on evidence that is complete |
| Strict receipt (`capture/receipts.py`, `acquisition_gate.py`) | one file bound by digest to checkpoint, ledger, coverage, attachments | persist, load, invalidate | a receipt on disk, or loaded, vouches for what was on disk |
| Attachment inventory (`capture/service.py`, `capture/store.py`) | managed objects, save ledger, seal | record a save, seal, verify | every record has its object; a seal is final; a full capture has every attachment |
| Parallel closeout (`capture/parallel_closeout.py`) | drain receipts, stop receipt, closeout receipt, run metadata | record drain, stop, close out | quiet only after every producer drained; closed once, on what it names; the metadata repaired |
| Parent completeness (`completeness_store.py`) | SQLite: inventory scans, certificates of children, retirements | record scan, record certificate, retire, audit | full was true at one moment, unless a scan came between; certificates follow the inventory |
| Snapshot ledger (`core.py`, `ingest.py`) | chained rows of observed text | observe, ingest, take over, revoke, read | chains stay valid; what was answered is there; a retry appends nothing |
| Target registry (`target_registry.py`, `scripts/backfill_target_registry.py`) | append-only entries of targets | register, backfill | what was told is recorded; repeated only by a race |
| External import (`external_snapshot_import.py`) | a stage next to the ledger, a lock of its own | dry run, import | zero means nothing changed; imported once; what a dry run judged is what is written |
| Knowledge projection (`knowledge_projection.py`, `knowledge_projection_ops.py`) | pages, people's notes, a lock | project | every record filed, pages linked, no edited note lost |
| Local stores and site adapters (`core.py`, `local_config.py`, `site_adapter_store.py`, `cli.py`) | context library, review registry, event log, configuration, captures | read, change, write | what was answered stays, unless calls overlapped |
| URL intake (`core.py`, `acquisition_gate.py`, `cli.py`) | raw cache, ledger rows, the last receipt | verify intake, coverage report, fast path, bridge intake, bookend | "ready" has the receipt, the rows and the range of one capture |
| Reply context and sending (`core.py`, `cli.py`) | report files handed from command to command | context gate, review, stage, dry run, preflights, closeout, status | what is put before a human was cleared; ready follows every stage |
| Process runner (`process_runner.py`) | reader threads, quota, deadline | `run_process` | ends; success has all output |
| Archive inventory (`archive_inventory.py`, `scripts/discord_archived_thread_inventory.py`) | cursors, pages, scopes | list threads | complete means every thread that stood still |
| Read routes (`scripts/discord_route_retry_decider.py`, `scripts/discord_rest_backfill.py`, `scripts/chrome_visible_fallback_guard.py`) | attempts, raw file, manifest, tabs | decide, backfill, choose a tab | raw file and manifest are one attempt's; a browser comes last |
| Cache readers, topic packets, identities of URLs, credentials, Obsidian note, MCP server | none | parsing, lookup, formatting | pure functions or pure I/O |

How they interact. The command line reads a status and submits an event or a
window with the sequence it saw. The service takes `transition_lock(capture)`
(non-blocking: a caller that finds it held is refused), reads checkpoint, ledger
and coverage, computes new versions with the pure modules, deletes the strict
receipt and then replaces or appends the files one by one. `reconcile` reads
all of them under the same lock, asks the gate, and writes the receipt. Readers
(`load_full_capture_receipt`, intake, projections) take no lock. Captures of
child threads become certificates of their parent, whose audit a parallel run's
closeout asks for. Observed text goes to the snapshot ledger, which registers
its target, is imported into from other ledgers and is projected into a vault;
the intake of a URL answers from ledger, cache and receipt. Sending reads
reports that earlier commands left.

What is hard, and where: the list of hazards in `PROJECT.json`, each with its
line and the properties that would catch it. In short: detours (pause, failure,
retry) that nest; an append and a rename with a crash in between; a
retry that races other callers; windows that arrive in any order, twice, or
contradict each other; two files that compute one fact independently; an object
on disk before its record; readers and writers without a common lock; a verdict
joined from parts that were true at different times.

## 2. The modules

| Module | Models | Composed with |
|---|---|---|
| `CaptureLoop` | the envelope and the transition function, as operators | - |
| `CaptureRun` | one run: a step accepts one event; the abstract specification of a capture | `CaptureLoop` |
| `DurableCapture` | the files, the lock, processes that race and die | `CaptureLoop`; implements `CaptureRun` |
| `VirtualScroll` | order, components, passes and merging of windows, as operators | - |
| `CaptureEvidence` | coverage, ledger, receipt; merges, crashes, reconcile, loads without the lock | `VirtualScroll` |
| `AttachmentInventory` | objects, records, seal, receipt; saves, rollbacks, crashes | - |
| `ParentCompleteness` | the SQLite store: scans, certificates, audits, damage | - |
| `ParallelRun` | what a closeout promises; abstract | - |
| `ParallelCloseout` | the run directory: producers, router, closeouts without a lock | implements `ParallelRun` |
| `SnapshotLedger` | the chained ledger, its writers, revocation and readers | - |
| `TargetRegistry` | registration and backfill | - |
| `ExternalImport` | importers and a writer of the ledger | - |
| `KnowledgeProjection` | the projection of a ledger into a vault | - |
| `LocalStores` | five small files that calls change without a lock | - |
| `UrlIntake` | the commands that say what is known of one URL | - |
| `ProcessRunner` | one run of a child process | - |
| `ReplyContext`, `SendPipeline`, `SendPreflight` | the context gate; drafts to closed sends; the gate before a human sends | - |
| `ArchiveInventory` | the listing of the threads of a channel | - |
| `ReadRoutes` | the choice of a read route and the REST backfill | - |
| `TextStore` | the six stores of text above (`SnapshotLedger` to `UrlIntake`), of which a behaviour is one | instances of them |
| `Tools` | the tools above (`ProcessRunner` to `ReadRoutes`), of which a behaviour is one | instances of them; extends `SendPipeline` |
| `...Proofs` | theorems about the module of that name; `CaptureRunProofs` has those about the operators of `CaptureLoop` too | that module, TLAPS |
| `ParentsProofs` | theorems about `ParentCompleteness` and `ParallelCloseout` | extends the one, instantiates the other |
| `TextPartsProofs`, `TextStoreProofs` | registry, import, intake, local stores, what the projection reads; snapshot ledger, the projection's runs, and all parts together | `TextStore`; the second extends the first |
| `MC...` | instances for TLC | below |

`MCCaptureRun`, `MCDurableCapture`, `MCCaptureEvidence`, `MCAttachmentInventory`,
`MCTextStore` and `MCTools` extend their module and give values for TLC.
`MCParents`, `TextStore` and `Tools` put several components side by side in one
run: the variable `part`, which never changes, says of which instance a behaviour
is one, and the variables of the others stay `Nothing`. Their properties say one
thing across the instances ("what was answered is on disk") and name the module's
property for each. In `TextStore` and `Tools` the constants are parameters, and
ledgers, imports and listings are families (`Snapshots(k)`, `Import(k)`,
`Listing(k)`), so that their properties are proved for every value of them. Two of
the components are extended rather than instantiated, so that their own
definitions are the properties of the run: `ParentCompleteness` in `MCParents` and
`SendPipeline` in `Tools`; their variables keep their initial values elsewhere.

### CaptureLoop and CaptureRun

`Run` is the envelope without the fields nothing branches on (tags, digests,
target). `Transition` is the table `_TRANSITIONS`; `NextStage` adds the special
cases around it (offline routes skip the snapshot, `gate_full` and
`gate_blocked` need a gate result bound to the capture); `Accepts` collects the
conditions under which the code does not raise; `Pause`, `ResumeRun`,
`FailRetryably`, `RetryRun` and `EnterStage` are the branches of
`advance_capture_run`; `Checkpointed` is its common tail; `CountPartialGate` is
what `advance_capture_loop` wraps around it. An event carries the fields that
are read (`action`, whether its `capture_id` is the run's, the gate result);
digests are abstracted to the comparisons made with them.

`CaptureRun` has one action per kind of event and a history `accepted` of how
often each type was accepted. A rejected event is an exception that changes
nothing, so it is no step.

### DurableCapture

One variable per file (`checkpoint`, `binding`, `ledger` with its `tail`,
`receipt`) and `lock`; per process the next write (`pc`), the call and the
advanced run it computed. What a call reads under the lock it reads in one step,
because nobody writes these files without the lock; every write is a step of its
own, in the code's order: receipt deleted, line appended, checkpoint replaced,
receipt deleted again. `FailBetweenWrites` is a process that dies, or an
exception, at any of these points; `DieInAppend` is a death inside the append,
which leaves a cut line, or a line without its newline to which the next one
would be glued. `AdmitsNew`, `AlreadyApplied` and `AdmitsRecovery` are the three
answers of `advance_persisted_capture` to an event id.

### VirtualScroll and CaptureEvidence

`OrderedIds` is the topological order `_ordered_ids` builds, always taking the
first ready message by first sight, and the fallback to first sight when windows
contradict each other; `WindowComponents` and `GapCount` are `_window_components` and
what is made of it; `MergeCaptureWindow` and `Mergeable` are `merge_capture_window`.
`CaptureEvidence` has the two files those are kept in. A merge computes both new
files, deletes the receipt, saves the ledger and then the coverage, and may die
before each. The ledger has an order of its own (`LedgerOrder`, from
`message_ledger.py`), computed from events and not from windows. An event's place
counts all rows of a submission, those without an id too (`service.py:539`), so a
window that comes again behind such a row is appended again at other places
(`RowEvent`); `OrdersAgree` says what is left of the agreement then.
`FullCaptureConfirmed` is the gate of `reconcile` for a capture without
attachments. `load` is a call of `load_full_capture_receipt`: it reads receipt,
checkpoint, ledger and coverage in four steps, between which merges, deaths,
reconciles and transitions go on, and compares each with what the receipt is
bound to. What it returns may be outdated when it returns; `ReceiptBindsEvidence`
says it is no mixture.

### AttachmentInventory

An object is linked, the save ledger replaced, the receipt deleted, with a death
or an exception in between; `RollBackSave` is the removal of an object whose
record could not be saved, and an orphan of a save that died is adopted only if
it holds the same content. `LoseObject` is somebody outside the program. Message
ledger and coverage are a number here that changes when one of them does.

### ParentCompleteness

The tables are `scans`, `listed` (membership rows, which damage may remove),
`certificates` and `retirements`. `sqlite3` opens a transaction at the first
write of a connection, so what an operation selects before is read outside it:
`record_child_certificate` checks and writes in two steps, `audit_parent` reads
the two latest scans, then the certificates to retire, then writes and concludes.
An operation may die, or find the database locked, before each, and other
processes go on between its steps. Two histories say what an audit is measured by:
`held`, all conditions were true at one moment while it ran, and `overtaken`, which
of scans and certificates somebody else has committed since it began.

### ParallelRun and ParallelCloseout

`ParallelRun` is the promise: producers drain for good, the run is declared quiet
once all did, closed once, full only if whole, and shown as it was closed.
`ParallelCloseout` has the directory: `ready`, `receipt` and `rows` per item
(spooled by workers, committed by the importer), drain receipts, the stop receipt,
the closeout receipt and `run-metadata.json`. The router reads the evidence,
confirms the drains, and publishes; a closeout audits the parent, reads the stop
receipt and what it binds, judges, publishes and projects, one step each and without
a lock. An audit may retire certificates, which its digest tells, and the next one
then has none to retire. `Tamper` rewrites a file; digests are what they are digests
of.

### SnapshotLedger, TargetRegistry, ExternalImport

`SnapshotLedger` has the rows and how the file ends (`tail`): with a newline, with a
row that lacks only that, or with a line that cannot be read. A writer registers its
target, takes the lock, validates the chain, builds rows against it and appends them
in one write that may be cut anywhere; a row without its newline is read and
answered like any other, and what is appended next is glued to it (`Spoils`), after
which nobody can read the file. The registry ends in the same three ways, in both
modules. Revocation appends a row that names an invalid one. Readers read rows and
check them in two steps. `TargetRegistry` folds entries as `register_target` does
and appends without a lock and without a look at the end of the file; a backfill
does so for candidates found in artifacts, or counts them. `ExternalImport` has
every comparison between reading the source and answering, the stage and the rename;
the ledger's own writers take another lock, and one that holds the replaced file
open writes into a file nobody sees.

### KnowledgeProjection, LocalStores, UrlIntake

A projection run parses the records of a ledger into events, assigns them by the
reviewed registry, replaces changed pages one by one, removes what is stale and
writes a receipt, under a lock that is not waited for; people edit notes
meanwhile. `LocalStores` has, by `kind`, the small stores: truncated in
place, replaced by a rename, or appended to, none of them locked. `UrlIntake` has
the rows of one target in raw cache and ledger, the last receipt, and a clock;
each command reads them one after the other while rows are appended and revoked
and the receipt is replaced.

### ProcessRunner, ReplyContext, SendPipeline, SendPreflight, ArchiveInventory, ReadRoutes

`ProcessRunner` counts output in chunks: child, descendants that keep the pipes,
two reader threads with their quota, the deadline, and the caller, who polls,
kills, joins and closes. `ReplyContext` is the gate and the operator who fetches
more as long as it asks. `SendPipeline` has one variable per report file; a
command may be given any that exists. `SendPreflight` is the gate before sending
and an operator who does what it says. `ArchiveInventory` makes one request per
step while threads move; the server throttles, refuses, ignores cursors. In
`ReadRoutes` an attempt is killed at its timeout anywhere, also between raw file
and manifest, and an answer that is no list of messages ends its paging like a last
page (`OddAnswer`).

## 3. The runs

| Run | Question | Bounds | States |
|---|---|---|---|
| `capture_run` | Does a run keep its stages, budgets and verdict through every detour, and end? | one live, one offline route; two approval actions; retry budget 2, scan budget 2; 2 pauses | 10,438 |
| `durable_capture` | Do the files implement one run, each event once, under races and deaths? | 2 processes, 2 events, 2 failures, a route with a login pause | 95,318 |
| `capture_evidence` | Do ledger, coverage and receipt stay consistent, also for a reader without the lock, and are order and gaps right? | 3 messages, 2 versions, 9 observations and 2 batches, 3 windows, 1 invalid row, 1 failure | 326,954 |
| `attachment_inventory` | Do records, objects, seal and receipt agree? | 3 rows, 2 attachments, 2 objects, 2 contents, 4 changes of evidence, 1 lost object | 7,862 |
| `parents` | Was full true at one moment, do certificates follow the inventory, is a run closed once and as what it is? | store, 2 threads: 1 process beside recorded scans, 2 captures, 2 scans of 9, 1 lost row; or 2 processes with 3 scans of 2 and 1 capture, or with 2 scans and 2 captures; directory: 1 worker, 1-2 items, 1-2 closeouts, 1 death, 1 rewritten file, 1 change of the parent | 910,858 |
| `text_store` | Are answers of the stores of text true and repeated by nobody, chains kept, summaries backed? | 2 processes (symmetric) or 1 and a reader, 3 to 6 rows, 3 registry entries, 2 sources, 3 records, 3 calls, 1 death each | 624,964 |
| `tools` | Is what is called whole whole, what is sent cleared, and does every call end? | 4 chunks per stream; 6 messages; 2 drafts; 2 breaks; 3 and 4 threads with 2 pages; 3 messages, 2 attempts | 291,484 |
| `capture_run_stranded` | finding 1 | as `capture_run` | |
| `reconcile_ignores_blockers` | finding 2 | one-window passes, no failure | |
| `observed_full_misses_edit` | finding 3 | as above | |
| `full_overtaken_by_scan` | finding 4 | the store of `parents` with 3 scans | |
| `projection_not_repaired` | finding 5 | the closeouts of `parents` that are repeated | |

Properties, by run:

* `capture_run`: `NoStageSkipped` (no detour leads to a stage, or to
  `full_closed`, without the events of the stages before it), `BudgetsBound`,
  `FullIsUnblocked`, and `ClosesOrStrands` (a run whose worker keeps working is
  closed, or is waiting with nothing to resume: finding 1).
* `durable_capture`: `CheckpointIsReplay` (the checkpoint is the replay of the
  ledger, which is at most one event ahead), `AppliedOnce`, `ReceiptNeverStale`,
  `InterruptedAttemptStaysClosed`, `ImplementsCaptureRun` (refinement: the
  run of `CaptureRun` is the checkpoint, its history is counted in the ledger up
  to the checkpoint's sequence), `PendingEventRecovered` (liveness).
* `capture_evidence`: `LedgerCoversCoverage`, `NothingRecordedTwice`,
  `OrdersAgree` (two independent computations of one order, and of contradictions
  unless rows moved), `OrderIsFound` (the
  order respects every window whenever any arrangement does),
  `ConnectedMeansNoGap` (components against their definition),
  `ReceiptBindsEvidence` (on disk and as loaded), `EvidenceOnlyGrows`.
* `attachment_inventory`: `RecordsHaveObjects`, `OneRecordEach`, `SealIsFinal`,
  `FullHasEveryAttachment`, `StaleOnlyByEmptySeal` (the one way to a receipt that
  does not match what is on disk).
* `parents`: `FullHeldUnlessScanned` (full was true at one moment of the audit, or
  another process recorded a scan meanwhile: finding 4),
  `CertificatesFollowInventory` (a certificate disappears only by an audit that read
  two agreeing scans without its thread; an audit that says incomplete is right, or
  rows are damaged; one capture vouches for one thread; each unless a named table
  was overtaken), `ImplementsRun` (refinement to `ParallelRun`, grounds of the
  verdict, no closeout over a rewritten file), `MetadataFollowsReceipt` (liveness; a
  receipt of another audit is finding 5).
* `text_store`: `AnsweredIsOnDisk`, `NothingTwice`, `ChainIsKept`,
  `IntakeIsBacked`, `ProjectionIsWhole`.
* `tools`: `AnswersAreWhole`, `SendsAreCleared`, `EveryCallEnds` (liveness).

Each has a mutant in its module: an operator that changes a definition the way a
plausible bug would, with which TLC finds the property violated.

Why the bounds are enough. Budgets of 2 have a first use, a last allowed use and one
too many, and two pauses nest around two failures. Two processes are every pair of
roles at the lock, which admits one at a time; two events are one to recover and one
to race it or to be glued to it; two failures let a recovery die too. Three messages
are the least that can be ordered in contradiction through a third; three windows
and two passes give a gap, its closing and a second pass; one failure is one
interrupted merge, whose retry may differ; of the observations one is a window shown
before, behind a row without id, and one has no id at all. In
`attachment_inventory`, two attachments and two objects let saves exchange them, and
evidence can change after a seal. In `parents`, two processes are an operation and
what overtakes it: with a third scan, or with a second capture, each exception of
the properties happens; that needs few kinds of scans, and their kinds one process.
Two threads and two captures let a certificate be for the wrong one, or one capture
vouch for both; three scans are two that agree and one that brings a thread back;
one item that is rewritten, and two of which one has no text, are the verdicts there
are. In `text_store`, two writers and three rows are a race and its retry, one death
leaves a row or an entry without its newline, and the other writer is glued to it;
two streams are the ledger an alias leads to; three records are two of one target
and one of another. In `tools`, four chunks are more than pipe, quota and drain
together; the forum has one thread more than its pages hold; two attempts are a
killed one and its repetition. `MaxPauses`, `MaxEvents`, `MaxFailures`,
`MaxWindows`, `MaxInvalid`, `MaxEvidence`, `MaxLost`, `MaxScans`, `MaxDamage`,
`MaxDeaths`, `MaxTampering`, `MaxAudits`, `MaxRows`, `MaxCrashes`, `MaxEntries`,
`MaxRuns`, `MaxChanges`, `MaxEdits`, `MaxCalls`, `MaxTime`, `MaxOutput`,
`MaxThread`, `MaxNews`, `MaxBreaks`, `MaxMoves` and `MaxMessage` are bounds of the
models; `RetryBudget`, `ScanPassBudget`, `OutputLimit`, `DrainLimit`, `MaxPages`,
`MaxRetries`, `PageSize`, `Attempts`, `Minimum`, `Maximum`, `MaxChars` and `MaxAge`
are the program's own, made small.

Symmetry. In `text_store` the two processes are interchangeable (no property
of that run is about progress). No other run uses symmetry.

Stopping. A closed run, a ledger that cannot be read, a call that has answered and
a bound that is used up may stop, so the configurations do not report deadlock;
progress is stated as liveness instead.

Fairness. `CaptureRun!FairSpec` is weakly fair to a worker that completes its
stage, evaluates the gate, retries what is due, and to an operator who resolves
a blocker: these are the callers the loop is written for
(docs/capture-loop-operations.md). Nothing is assumed of failures and pauses.
`DurableCapture!FairSpec` is weakly fair to the writes of the process that holds
the lock, which only its death stops, and to the answer to a submitted call.
Because the lock is not waited for, an operator who retries can be refused
again and again; recovery therefore needs strong fairness to a retry of the
pending event, which is the operator who does not give up. `MCParents` is weakly
fair to closeouts that are repeated, in the instance about repairing the metadata.
`Tools` is weakly fair to reader threads, caller and clock of a process, and to
the child only when it has no deadline (nobody stops such a child); to the operator
who does what the two gates ask for; and to the route decider and its timeout.
Nothing is assumed of descendants, servers, people or tampering. The other
specifications assume no fairness.

## 4. What is proved

Everything below is proved for every value of the constants: any number of
processes, every set of routes, events, windows, rows, attachments, threads and
items, drafts, channels and listings, all budgets, quotas, limits and bounds. The
assumptions are the named ones of the modules: budgets and bounds are naturals (the
scan budget positive, as `new_capture_loop` requires), offered events are events,
submitted windows are rows of messages and versions, there is a process, and the
values that stand for "none" are none of the others. `ParentCompleteness`,
`ParallelCloseout` and the parts of `TextStore` and `Tools` share their runs with
other instances, so their assumptions are definitions; the theorems of the first two
take them as a hypothesis (`Assumptions` for the store, `RunAssumptions` for a run
directory), `MCParents` asserts those of its instances for TLC, and
`TextStoreAssumption` and `ToolsAssumption` assume those of the parts. A ledger to
begin with is a valid chain of rows that were observed or put in
(`LedgerAssumption`); a row of a cache says no more than its capture has read
(`IntakeAssumption`). Of a projection (`ProjectionAssumption`): topics are finite,
the label of a topic is one of its aliases (`_load_topic_registry`,
`knowledge_projection.py:127`), and texts are `Legible`, which is how lines are
written down in the model: a person's line has a name, tags are finite, and a line
with a colon above a time is a name.

**`CaptureRun`** (`CaptureRunProofs`): `TypeCorrect`, `BudgetsAreBound`,
`NoStageIsSkipped`, `FullRunsAreUnblocked`. `TypeOK` is inductive. The others
need `ResumesOpen`: what `resume` holds is never terminal, so a detour cannot end
in a closed run. `NoStageSkipped` is inductive with it because it speaks of
`run.resume` as well as of `run.state`: a detour moves a state into `resume` and
back, and the history only grows. `FullIsUnblocked` is not: that `full_closed` has
no blocker, nothing to resume and nothing pending follows from what the stage
before it had, so `CleanStage` says it of every stage, and of a retry that will
return to one. Per kind of event a lemma of `CaptureRunProofs` says what it does
to the envelope; the step of each invariant has one case per kind.

**`DurableCapture`** (`DurableCaptureProofs`):

* `DurableTypeCorrect`. A call that got as far as a write knows its event and its
  run (`CallsAreKnown`), which makes the types inductive.
* `WritersAreExclusive`: a process is between two writes exactly while it holds
  the lock. The invariant is inductive as it stands and every later proof uses it:
  in a step of one process the others are idle or waiting.
* `ReceiptsAreCurrent`: strengthened by `ReceiptGone`: from before the append to
  the end of the call there is no receipt.
* `EventsAreAppliedOnce`: strengthened by `InOrder`. What a call found out under
  the lock stays true through its writes: its event has, or will have, the place
  after the checkpoint's in the ledger, no other line has its id, and the run it
  saves has that sequence number. With it the ledger is at most one line ahead
  and an id that was answered is at or before the checkpoint's sequence.
* `DurableImplementsRun`: the files implement `CaptureRun!Spec`. `WorkIsNext` adds
  that the run about to be saved is the checkpoint advanced on the event that has
  the next place. Then saving a checkpoint is one step of `CaptureRun` (it
  accepts, advances, and counts one more line), and every other write keeps the
  checkpoint and the lines up to its sequence, a stutter. That
  `CaptureRun` lets a run pause fewer than `MaxEvents` times follows from the
  ledger having no more lines than there are ids (pigeonhole).
* `InterruptedAttemptsStayClosed`.
* `CheckpointsReplay`. `Replay` is a recursive function of the ledger. The
  invariant `HasHistory` says that there is a function with the recursion's
  equations that ends in the checkpoint; saving a checkpoint makes it longer by
  one, nothing else touches the lines it rests on. That any two such functions
  end alike is an induction on the place in the ledger.

**Induction over data.** The library's induction theorems take an operator as a
parameter, which the installed provers cannot instantiate. What they can do is
pigeonhole: if a set of numbers has 0 and, with every number below n, the next
one, then it has n, because otherwise adding one would map it into itself without
0 (`ReachesTop`, `CountsUp`). `RunExists` derives from it that a recursion over an
interval has a solution, so that what CHOOSE picks for a recursive function is one.

**`CaptureEvidence`** (`CaptureEvidenceProofs`): `EvidenceTypeCorrect`,
`CoverageIsShown`, `OnceEach`, `ReceiptsBind`, `EvidenceIsKept`. `AppendIsRun`,
`MergedIsRun` and `FromTyped` solve the recursions over rows, windows and batches;
`AppendAdds`, `MergeGrows` and `MergedGrows` say that merging any sequence of
windows extends both files and keeps ids distinct, events distinct and the ledger
covering. The invariant adds `MergeLeads`: what a merge is about to save extends
what is on disk and there is no receipt meanwhile; and `LoadIsBehind`: a coverage
that a load outlives has been outgrown (`Size`, windows and invalid rows, strictly
increases whenever the coverage changes), so it never comes back, and a load that
finds it unchanged after the ledger has seen one moment.

Three more theorems compare two computations over the same data. They rest on the
recursions being unfolded once and for all (`FirstSeenIsRun`, `FlattenIsRun`,
`IdsOfIsRun`, `SortedIsRun`, `FrontierIsRun`).

* `OrdersAreOne`: ledger and coverage compute one order. `Agreed` says that until
  a merge dies both files have seen the same rows in the same sequence, and so has
  what a merge is about to save; then first sight of a message in the events is its
  first sight in the windows (`FirstSeenConcat`, `RowsLogged`), the ledger's window
  of a row is the sequence of its messages while each window has one place per row
  (`PlacesKept`, `LedgerWindowIs`; sorting a set by a
  total order that a sequence without repetitions already follows gives the
  sequence, `SortedIsSequence`), and the edges are the same (`SameEdges`).
* `OrdersAreFound`: taking the first ready message again and again places all of
  them if any arrangement respects every window (`SortedFinds`). Of what is left
  the message that stands first in the arrangement is ready (`SomeReady`), so the
  recursion never stops early, and what it placed before a message is all that has
  an edge to it. `KnownAll` adds that windows show known messages only.
* `ConnectedIsWhole`: one component means no two groups of messages without a
  common window. The frontier grows, so it is closed after as many rounds as there
  are messages (`FrontierCloses`: each round adds one or the next adds none), and a
  closed proper part is apart from the rest (`ClosedIsApart`).

**`AttachmentInventory`** (`AttachmentInventoryProofs`): `InventoryTypeCorrect`,
`RecordsKeepTheirObjects`, `RecordsAreUnique`, `SealsAreFinal`,
`FullCoversAttachments`, `OnlyEmptySealsLeaveStale`. Two strengthenings carry all
of them. `SavingIsFresh`: between the link of an object and the save of its record
no record names the object or the attachment, and nothing is sealed. It makes the
append keep records unique, the rollback remove nobody else's object and the seal
final. `ReceiptCovers`: while there is a receipt everything discovered is
recorded, so no save is under way, and a receipt without a seal was made of rows
without attachments. It leaves the empty seal as the only way to a stale receipt.

**`ParallelCloseout`** (`ParentsProofs`): `CloseoutTypeCorrect`,
`CloseoutImplementsRun` (the refinement to `ParallelRun`), `VerdictsHaveGrounds`,
`RewrittenRunsStayOpen`; `ImplementsRun` of `MCParents` checks types and grounds in
its three instances of a directory, the refinement in two and the last in one.
`ReceiptsLead` orders the create-only files: metadata after closeout after stop
receipt after drain receipts. `FullIsCaptured` carries what the stop receipt binds:
every item whose text it has was captured and drained producers write no more.
`StopIsOriginal`, `TamperedIsRewritten` and `JudgesWhatWasThere` relate what a
closeout has read to what is there now.

**`ParentCompleteness`** (`ParentsProofs`), for any number of processes:
`StoreTypeCorrect`, `FullIsOneMoment` (`FullHeldUnlessScanned`) and
`CertificatesAreKept` (`CertificatesFollowInventory`). `ReadsAreCurrent` says what an
operation still knows of what it has selected: the two scans an audit read are the
latest, unless a scan has overtaken it; the threads it is about to retire are absent
from two agreeing scans; their captures are those it read, and no other thread has
the capture it is about to write, unless a certificate has overtaken it. An audit
that no scan overtook concludes from the latest scans and the certificates as they
are, so the moment at which everything held is its last.

**`Tools`** (`ToolsProofs`): `CallsReturnWhole` (`AnswersAreWhole`, types of all
six parts included), `SendsStayCleared`, and of `SendPipeline` by itself
`SendsRestOnReports`. A step is one of the part's own or leaves its variables
alone, so the invariant `ToolsInv` is the conjunction of the parts':

* `RunnerInv` of `ProcessRunner`: of each stream what was written is what is
  observed, on its way in the pipe or dropped after the quota
  (`ChunksAreAccounted`), and without failure a step of the caller after a join has
  the threads done.
* the gate of `ReplyContext` is its own invariant: an answer was computed of what
  was fetched (`GateKeepsPromise`: least and greatest message of a finite set).
* `ReportsAreTrue` of `SendPipeline`: each report that says yes was made when the
  reports it rests on said yes of the same draft.
* `ListingInv` of `ArchiveInventory`: scopes are asked in order, and of a scope
  whose pages are being fetched every thread that stood still and is not at a
  boundary is found already or lies behind the cursor (`PageAdds`: a page is the
  first threads behind it, counted).
* `RoutesInv` of `ReadRoutes`: what an attempt has fetched is the newest part of the
  channel but for messages that came or went and for an odd answer that ended it,
  and raw file and manifest are of the attempt whose answer is there
  (`PageTakesNewest`).

**`TextStore`** (`TextPartsProofs`, `TextStoreProofs`): `StoresTypeCorrect`
(`TypeOK`), `AnswersAreOnDisk` (`AnsweredIsOnDisk`), `NothingComesTwice`
(`NothingTwice`), `IntakeStaysBacked` (`IntakeIsBacked`), `ChainStaysKept`
(`ChainIsKept`) and `ProjectionStaysWhole` (`ProjectionIsWhole`). A step is one of the
part's own or leaves its variables alone, so `TextInv` is the conjunction of the
parts' invariants, each stated in the part's module:

* `LedgerInv` of `SnapshotLedger`. `Written` says what every prefix of an append
  leaves: rows that belong to their stream, ids that no other row has, one invalid
  row at most, a chain that is valid up to it, and marks of duplicates that are
  right. A call with the lock carries that its rows do so from every prefix on
  (`AppendsSoundly`), since its write may be cut anywhere; `AnsweredSoundly` says
  that a row without its newline can be taken away again, and of the ids answered
  only its own with it; whoever reads without the lock holds a file that was
  `Written` when it read it. Building rows one after the other keeps it
  (`WrittenGrows`: a new row's hash is new because place and stream are,
  `NewRowIsFresh`; the chain goes on from the last counted row, `ChainGrows`,
  `HeadStays`).
* `RegistryInv` of `TargetRegistry`. What was told stays because an entry appended
  later keeps every field it does not bring (`RecordedStays`). That the registry
  repeats itself only in races needs counting: since the last entry that brought
  something, redundant entries and calls that are about to append one (`Overtaken`)
  are fewer than processes (`RacesAreCounted`), as long as the registry can be read.
* `ImportInv` of `ExternalImport`. `Knows`: what an importer read while it holds the
  lock is what its stage is made of, and when it swaps, no foreign observation was
  added behind its back; the ledger's own writers may write meanwhile, which is why
  it speaks of foreign observations only.
* `LocalInv` of `LocalStores`: where no call has raced or died in a write, who is
  not stale has read what was answered, and who writes is alone (`Undisturbed`).
* `IntakeInv` of `UrlIntake`: rows that were read are still there but for the one
  invalid row, which may be revoked (`Kept`); what is left to do rests on what was
  read (`Rests`); a verdict rests on rows that were there (`Backed`).
* `ProjectionInv` of `KnowledgeProjection`. `RunIsTrue` says how far a run has come:
  the pages it has passed are as they should be for the ledger and the registries it
  began with (the ledger may have grown and the registries may have changed since),
  after the removal there are no others, and the note it is about to write was begun
  by a person after it looked, if it is there at all. `ReceiptIsTrue` says that
  nothing has been written since the last receipt, or the pages are those of its
  run: a run that fails, dies or is passed over by another one spoils it only by
  writing. That pages which are right file every line of every current message
  (`FilingIsRight`) needs what the parser computes: reading a text line by line
  gives one event per person's turn, and each line spoken is in the event of the
  person of its last heading, and in no other (`TextIsRead`, `ParsedTells`;
  `ReadLine` is followed one line at a time). `LatestIsCurrent` shows that keeping
  the last record of each stream is leaving out what is superseded, `TopIsRight` and
  `RelationsAreRight` that the links go where they should.

Every one of these invariants was checked by TLC on the run before it was proved.
Some definitions of the parts are written for this: a call is a record of one of a
few shapes, and what folds rows is a recursive function, which the lemmas of
"Induction over data" above solve.

Only model-checked: the liveness properties (`ClosesOrStrands`,
`PendingEventRecovered`, `MetadataFollowsReceipt`, `EveryCallEnds`), which are out
of the prover's reach. Every invariant and every action property that a passing
run checks is stated by a theorem, `ImplementsRun` by the four of its parts.

## 5. Findings

Each has a run TLC refutes, and each was reproduced on the Python code.

1. `retryable_failure` is accepted while a run is paused, overwrites
   `resume_state` and strands it (`capture_run_stranded`).
2. `reconcile` does not look at the coverage's blockers nor at new messages in
   the final pass, and writes a full receipt where
   docs/capture-loop-operations.md says it must not (`reconcile_ignores_blockers`).
3. An edit that arrives with a window observed before reaches the ledger and not
   the coverage, and observed-full is verified although "any edit blocks" it
   (`observed_full_misses_edit`).
4. An audit reads scans, rows and certificates without a transaction. Another
   process records a scan with another inventory and then a certificate that the
   audit still reads: it says full, although its conditions were never true together
   as docs/parent-completeness-audit.md promises (`full_overtaken_by_scan`).
5. The closeout receipt binds the digest of its own audit of the parent, retirements
   counted. If that audit retired certificates and the call dies before it writes the
   metadata, every later call has another audit, is refused as a conflict, and the
   metadata are not the projection that can be made again of
   docs/capture-loop-operations.md (`projection_not_repaired`).

Seen while modelling, without a run of their own: the first group is behaviour
that a property of the runs excludes by its bounds or names as an exception, the
second is behaviour that the models have and no document denies.

* `gate_blocked` closes a run with the blocker `full_capture_gate_blocked`, which
  `save_checkpoint` stores and `load_checkpoint` refuses (`capture/store.py:1298`): the
  capture can never be read again. The command line cannot send that event:
  `capture-loop advance` submits names only (`cli.py:1689`), for which reason a pause
  for human approval, too, cannot be ended from where it can be begun.
* A call that another process overtakes between its look and its write may bind one
  capture to two threads (`completeness_store.py:416`), or retire a certificate by
  scans that are no longer the latest (`:665`), or one it has not looked at;
  `CertificatesFollowInventory` allows just that.
* A death in an append to the snapshot ledger may leave a row without its newline,
  which readers and writers accept (`core.py:1441`), may answer as saved, and destroy
  with the next append that is glued to it (`capture/store.py:577`);
  `AnsweredStaysContent` says that it is one row at most, and that nobody can read
  the ledger then. A cut or glued line in the registry makes every call that looks
  for a target raise (`target_registry.py:55`), though the append before said it was
  registered.
* A window that is submitted again behind a row without id is appended to the ledger
  a second time, at other places (`capture/service.py:539`), and may contradict itself
  there while the coverage knows nothing of it; `OrdersAgree` excepts the order of the
  windows then, and `PlacesKept` says when.
* The REST command takes an answer 200 that is no list for the end of the channel
  (`scripts/discord_rest_backfill.py:120`) and writes what it has as a success;
  `RestPairIsWhole` excepts it.
* Two closeouts of one run may conflict with each other
  (`capture/parallel_closeout.py:660`); a stop receipt (`:334`) and a closeout
  (`:384`) may be made while a producer that was not expected still writes.
* Two registrations of one target may both append (`target_registry.py:133`);
  `RedundantOnlyByRace` allows just that. A URL with spaces around it is registered
  again (`:138`), and a dry run counts differently from the run
  (`scripts/backfill_target_registry.py:313`).
* An import can drop a row whose writer was told it is saved
  (`external_snapshot_import.py:199` against `core.py:1514`): two locks.
* A note that a person begins between check and write is overwritten
  (`knowledge_projection.py:422`); the failure receipt is written after the lock
  is released.
* Library, registry and event log lose or repeat entries of overlapping calls and
  are torn by a death; `AnsweredIsKept` says so.
* A descendant outside the child's process group keeps `run_process` waiting for a
  pipe; `EveryCallEnds` excepts it.
* An observation is compared with a revoked row through the history of an alias
  (`core.py:1560`), and `select_latest_snapshot` (`core.py:2018`) may return a
  revoked observation.
* The fast path with nothing but a recent row of the raw cache does not read the
  text it is offered and answers `need_visible_text` (`cli.py:1413`); its "ready"
  ignores staleness; a bridge passport may be ready although its context is not.
* Reports of the send pipeline are not bound to each other by more than the draft.
  The preflight checks the attachment's preview and not its file, and advises
  `human_send_or_closeout` while it is blocked.
* A listing misses threads with one timestamp at a page boundary; the REST
  command's `full_capture_ready` is a flag of its caller, and a killed attempt may
  leave raw file and manifest of different attempts (not answered as "rest").

## 6. What is not modelled, and why

* Directory descriptors, symbolic links, file identities and permissions of the
  store: checks of one call, no state of their own.
* Digests: a receipt or a binding holds what its digest is taken of.
* Tags, directions, per-message source lists, wording and layout of reports:
  nothing reads them back.
* The next steps a closeout of a send recommends besides `done` (`check_unread_items`,
  `review_unread_items`) are folded into `fix_blockers`, and its blockers into eight:
  later commands look only whether it is `done`.
* Attachments in `CaptureEvidence` and messages in `AttachmentInventory`: the two
  halves of the gate are conjunctions of the same function and are modelled
  apart; the receipt of each binds its own half.
* Rows with one id and two contents inside one window, and file names that two
  attachments share on a case-insensitive disk.
* Browser-route and learning-handoff receipts: written once from their arguments.
* Schema migration and initialisation of the SQLite store, validation of bundles
  before anything is written, parsing of arguments.
* Topic packets, cache readers in foreign formats, credentials, identities of
  URLs, the Obsidian note, the MCP server (a front end of what is modelled), reports
  of `core.py`: pure functions or pure input and output.
* Programs the decider calls that are not in the repository (the gateway command,
  the inbox): they answer or do not.

## 7. Plan

Done: the capture (`CaptureLoop` to `AttachmentInventory`), the stores around it
(`ParallelCloseout`, `ParentCompleteness`, the stores of text) and the tools, each
with its proofs. What a next version would add, in this order:

1. `ParentCompleteness` and `ParallelCloseout` with the repairs of section 5 (one
   transaction for reads and writes, a digest without the count of retirements), for
   which `FullHeldAtOnce` and `MetadataIsProjection` should hold without exceptions.
2. Readers of `DurableCapture` without the lock other than the receipt's (the
   status projection), and the browser-route and learning receipts.
