# JAN Label: formal models of the desktop shell, its audit store and its clients

TLA+ modules for the parts of JAN Label that keep state on disk and decide what
may be printed, for the batch queue and the Windows shell that drive them, and for
the pure functions they rest on; the TLC configurations that check them, and
proofs for TLAPS.
Paths below are relative to the repository; `audit_store.rs` and `main.rs` are
those of `apps/desktop-shell/src-tauri/src/`.

## 1. The system

| Component | State | Operations | What makes it correct |
|---|---|---|---|
| Audit store (`audit_store.rs`) | two JSON ledgers, a write-ahead marker, backup bundles, a lock file | record, proof transaction, review, search/snapshot/export, trim, restore, seed, writability probes; all inside `with_lock` | one operation at a time; a proof and its dispatch together or not at all; no row lost; a trim keeps dependency chains |
| Audit records (`crates/audit-log`) | - | `ProofRecord::pending`, `decide`, `PrintAuditRecord::dispatch` | one live proof per lineage after an upsert; replays change nothing |
| Legacy proof seed (`main.rs`) | - | preflight and seed of a batch | what the preflight accepts the store takes, and can be printed once approved |
| Bridge configuration (`main.rs`) | environment of the process | load, status with warnings | a fallback is announced, and blocks submissions where it matters |
| Dispatch gate (`main.rs`: `dispatch_print_job`) | per-request | gate, preflight, dispatch, record | only approved content in its lineage is printed; lost records are errors |
| Print agent, printer adapters, barcode, renderer (`crates/*`) | output files, spooler | `dispatch`, `submit`, `render` | refuses unapproved execution; renders the version asked for |
| Template catalog (`main.rs`, `crates/render`) | overlay files, manifest | save, list, resolve, governance | a listed version resolves to its file; versions are not changed |
| Batch queue (`apps/admin-web/src/App.tsx`, snapshot in `main.rs`) | rows in memory, snapshot file | upload, build, submit, retry, load/save/clear snapshot | results reach the row they are of; a retry stays in the lineage of what it retries |
| Companion (`main.rs`, `apps/windows-shell/DesktopShellCompanionClient.cs`) | process, pending request | request/response lines, restart, resend | an answer belongs to its request; a command is not done twice |
| Importer, JAN codes, timestamps (`crates/importer`, `crates/domain`, `audit_store.rs`) | - | pure functions | a row that is read is whole; a wrong digit is noticed; dates keep their order |
| User interfaces, schemas, scripts | view state | display, release checks | not modelled |

Interaction: the web UI (through Tauri commands) and the Windows shell (through
a companion process of its own) both call the same commands, so **two processes
may share one audit directory, template overlay and batch snapshot**. The store
is protected by its lock file; the others are not protected. `dispatch_print_job`
takes the store lock separately for the approval lookup, for the preflight and
for the audit record, and not at all while it renders and submits. The Windows
shell kills a companion that does not answer as expected and sends the request
again.

The hard behaviours are therefore: crashes between two file operations, a lock
file that outlives its owner, partially failed multi-file operations, replays
of what was already done, and everything that can happen between the gate's
check and the print. `PROJECT.json` lists each hazard at its line with the
properties that cover it.

## 2. Modules

| Module | What it is |
|---|---|
| `Ledger` | rows of both ledgers and the pure functions on them; constants and assumptions |
| `LedgerProofs` | lemmas about those functions, and the calendar of `Timestamps` |
| `AuditStore` | processes, lock, marker, ledgers, bundles, crashes, I/O errors |
| `AuditLedger` | what the store promises: atomic ledgers without lock, marker or faults |
| `AuditStoreProofs` | the inductive invariant of `AuditStore`: types, lock, plans of one operation |
| `AuditPromisesProofs` | what the store promises its callers, `AuditViews`, and the refinement of `AuditLedger` |
| `Timestamps` | calendar timestamps and seconds, both ways |
| `AuditViews` | what search, trim and export answer, on `AuditStore` and `Timestamps` |
| `Jan` | JAN codes and their check digit |
| `Importer` | headers, columns and rows of an import, on `Jan` |
| `Bridge` | environment, configuration, warnings and status of the shell |
| `PrintJob` | one request from normalisation to the printer, on `Jan` and `Bridge` |
| `LegacySeed` | the seed of old proofs, on `PrintJob` and `Ledger` |
| `Renderer` | SVG, PDF and preview of a label, on `PrintJob` |
| `LabelProofs` | theorems about `Jan`, `Importer`, `LegacySeed` and `Renderer` |
| `BatchQueue`, `BatchQueueProofs` | the queue of the admin web and its snapshot file, on `PrintJob`; its theorems and those about `PrintJob` and `Bridge` |
| `DispatchGate`, `DispatchGateProofs` | `dispatch_print_job` on top of atomic store operations |
| `TemplateCatalog`, `TemplateCatalogProofs` | overlay files and manifest, saved in place by several shells |
| `CompanionClient`, `CompanionClientProofs` | the Windows shell's request client, its actions and the companion |
| `MCAuditStore`, `MCBatchQueue`, `MCDispatchGate`, `MCTemplateCatalog`, `MCCompanionClient` | instances for TLC |

### Ledger

A ledger is a *set* of rows. The code keeps an array but never appends a row
that is there already; position decides only ties when a trim ranks rows of the
same time, and `Kept` leaves ties open. Job ids name lineages too, as in the
code. A dispatch's template version and match subject are one value (`content`).
A time is a text, and a trim ranks rows by the texts (`RanksNotAfter`); only with
an age limit does it parse them, rank by the seconds first and refuse to work if one
is malformed (`Rankable`). `TrimmedId` takes the spaces from around an id: the
print agent and the gate trim ids, the shell puts the one of a proof into its
record as it was sent (`main.rs:1087-1094`).
Actors, notes, paths and artifact sizes are left out.

### AuditStore

`pc[p]` follows one call: `idle`, `waiting` (for the lock file), `recover`
(inside `with_lock`, the marker not yet looked at), `operate` (the closure),
`saving` (files left to write), `release` (the guard is dropped).

* An operation (`RecordDispatch`, `CommitProof`, `ReviewProof`, `Trim`,
  `RestoreBundle`, `SeedLegacyProofs`, `ProbeLedgers`, `ReadLedgers`) reads the
  ledgers and *plans*: `work[p]` holds what was read, the new ledgers and the
  set of files `left`, written in the order bundle, dispatches, proofs, marker
  removal. Reading and planning is one step because only the lock holder touches
  the files (the theorem `NoLostUpdate` states what this rests on).
* `SaveBundle`, `SaveDispatches`, `SaveProofs`, `ClearMarker` are one step each,
  since `write_json_file` writes a temporary file and renames it: a write happens
  or does not. A temporary file that is left behind has no effect.
* `CommitProof` puts the marker on disk, then applies it; `ReplayMarker` applies
  one that was left, and goes on to the operation afterwards.
* `RefuseTrim` is a trim whose age limit meets a malformed time. The cutoff is a
  value of the request; the code reads the clock once for each ledger, so that two
  cutoffs may differ by the time the first ledger takes to rank.
* A new proof and its dispatch belong together by their job id, up to spaces
  (`Backs`); what lineages they have is left open, since the two are made of the
  request in different ways. `ProofsBacked` and what follows from it say no more.
* `QuarantineMarker`: the marker cannot be read or parsed, is moved aside, and
  the call fails. `MarkerReadsFail` switches it off for an instance.
* `LockInitFails`, `ReleaseFails`, `IOError`, `Crash` may happen wherever the code
  can meet them, `MaxFaults` times in all. A process that dies inside
  `with_lock` leaves a `Stale` lock; `DeleteStaleLock` is a person, outside the code.
* `Restores` is the set of bundles on disk: what a trim wrote is what can be restored.

`ImplementsLedger` maps the store to `AuditLedger`. A proof dispatch counts as
done from the moment its marker is on disk: the mapping shows the ledgers with
the marker applied, so replays and the removal of the marker are stutters.

### AuditViews and Timestamps

Times in the ledgers are texts, numbered in their order. `Stamp` names the calendar
timestamp that is written there, or none, `Seconds` what it is parsed to; the
assumptions of `AuditViews` tie the three to each other (`TextBefore`,
`UnixSeconds`), and TLC checks them on the instance's times, which lie around the end
of a February. `search` sorts rows by their texts, and so does a `trim` by count; a
trim with an age limit sorts by the parsed seconds, and `SearchAgreesWithTrim` is
about both. The run has a trim of the second kind. `Shown` is the set of answers a
search may give, since rows of one time keep an order the model does not have. The
search text is matched by equality with a field; case and substrings are left out.

### Jan, Importer, Bridge, PrintJob, LegacySeed, Renderer

Pure functions, one operator for each function of the code. A text is a value of
which only its trimmed form is known (`Trimmed`), a JAN code the sequence of its
characters, a header a value that stands for a column or not. An environment of
`Bridge` has the adapter and the directories as both readers trim them, but
printer and zint as they are written: `Config` keeps the spaces around these
(`main.rs:823-829`), while the status shows and judges the trimmed text
(`StatusPrinter`, `StatusZint`; `main.rs:2327`, `2383`). So a zint path with a space before it is
looked for by the status and not found by the bridge, whose dispatches then fail
one by one. `PrintJob` holds
what the gate (`BridgeVersion`, `Subject`) and the agent (`AgentVersion`,
`Rendered`) each make of the same request, and `Refusal` the order of the checks of
`dispatch_print_job` and `PrintAgent::dispatch`. `LegacySeed` keeps the two
validations apart as the code does: `BatchOK` is that of the shell, on the ledgers
it read first, `Seedable` of `Ledger` that of the store under its lock. Job ids and
lineages are claimed within the batch before the other fields of a row are looked
at, so that a row that fails still refuses a later one (`JobClaimed`,
`LineageClaimed`). `Renderer` keeps what a viewer of each format sees. Lengths
are whole thousandths, of a millimetre in the SVG and of a point in the PDF, and
`Points` rounds as `format_pdf_number` does.

### BatchQueue

`submitQueuedRows` captures the rows that can be submitted (`Submit`), and for each
one writes it as "submitting" (`Start`), awaits `dispatch_print_job` (`DispatchSucceeds`,
`DispatchRefused`, `DispatchFails`) and writes the answer at the index the row had
(`Answer`); `Finish` unlocks the queue. Everything between two awaits is one step.
The effects that load and save the snapshot are keyed by an effect event, whose
identity is new in every render, so that they may run after any of them: `ReadFile`
and `ApplyLoad` are the two ends of a load and anything may come between, another
load included (the load at the start and that for a restored form may overlap);
`Persist` and `PersistFails` write what is rendered. `Crash` closes or reloads the
window while the shell may finish what it was asked for. The phase "idle" stands
for the phases after a submission as well (`succeeded`, `failed`): nothing reads
their difference but the text on the screen. A draft is identified by its sheet,
row and attempt, which is what its job id is made of; a retry in the same second
gets the same id. Of the gate only the lineage check is left (`GateAccepts`), its
approval being `DispatchGate`.

The model reaches states that the documents do not expect, without a property:
submitted rows that a late load has made ready again and that are then submitted a
second time under the same job id (`docs/todo/active.md:12` says they are not), and
a queue locked by a restored phase "submitting" (`App.tsx:4287`). The retry of a
failed print from a proof names the failed job as its lineage, which the gate
refuses (`main.rs:981`).

### DispatchGate

One action per step of `dispatch_print_job`: `PassGate`/`RefuseAtGate`,
`Preflight`, `AgentRefuses`/`RenderAndSubmit`, `Record`/`RecordFails`, `Answer`,
with `StepFails` and `Crash` between them, and `Review` and `SaveTemplate`
beside them. A store operation is one step here; that is what the refinement of
`AuditLedger` shows. `approvals` and `outputs` are history: what was ever
approved and what ever left the machine. Proofs are written to the PDF named by
their job id, before any record, in place, so that a failure or a crash may leave a
part (`Torn`); the gate looks at its size and first bytes only and may take a part
or refuse it. Ids come as clients send them, with spaces or blank: the
agent trims them for the dispatch record and the output (`DispatchLineage`,
`TrimmedField`), the proof record keeps them (`ProofLineage`), and the gate compares
trimmed ids with what the ledgers hold. `inOrder` gathers what else
`validate_execution` asks of the texts of a request. A store failure while recording a proof may
still take effect later, by the replay of the marker, hence the disjunction in
`RecordFails` and `Crash`.

### TemplateCatalog

`fs::write` empties a file and then fills it, so a save is `OpenTemplate`,
`CloseTemplate`, `LoadManifest`, `OpenManifest`, `CloseManifest`, `Acknowledge`, and a
file is `Broken` in between, for good if the writer dies there (`Fail`). Writers
that meet in one file may leave a mixture, whichever of them closes it last;
`Mixed` allows one whenever their saves overlapped. `Merged`, `Catalog`, `Contents`
and `Resolve` are the lookups of `crates/render`; `Issues` are the governance codes
that saves and lost files can lead to. Governance tells operators to treat the
catalog as single-writer state and nothing enforces it: the model lets shells
race, and `alone` marks the saves that no other overlapped, the only ones whose
effect `settled` (history) records. `Listing` is what `template_catalog_command` answers for the
manifest and the overlay files. Edits by hand (`LoseFile`, `SetManifestAside`)
happen while nobody saves, as the guidance asks. The dispatch gate has a catalog
of its own, reduced to the body of one version.

### CompanionClient

An action of the operator is a chain of requests (`todo`): the review, if it is
one, then a refresh, in which `fetch` stands for the three requests before the
audit search and `optional` for those after it, whose failure `LoadSnapshotAsync`
survives. Continuations run on the UI thread, so the code between two awaits is
one step: `Begin` (semaphore taken, process started), `Write`, `Read`. `semaphore` is
FIFO like `SemaphoreSlim`'s asynchronous waiters. `stdin` and `stdout` are the pipes,
with `Torn` for an incomplete line; a restart brings new ones. `Cancel` is any
token: the window's callers pass none today except for disposal, but the client
honours them (`apps/windows-shell/README.md:37`) and compares the answers' ids
(`:32`) to keep requests apart. `Serve` carries a command out; `Die` and every
kill lose its answer. The search of a refresh asks for the newest 200 dispatches
(`DesktopShellCompanionClient.cs:16`); the model takes the reviewed ones to be among
them, and `ReportedStaysVisible` says nothing of a review that has dropped out. A kill
inside the store's lock is `Crash` of `AuditStore`.

## 3. Runs

| Run | Configuration | Shows |
|---|---|---|
| `store_crash` | `AuditStore_crash.cfg` | types, mutual exclusion, no lost update, no operation on half a transaction, proofs keep their dispatch, acknowledged effects are on disk, rows only leave after their bundle, markers are not forgotten, and a trim can be undone by a restore |
| `store_mixed` | `AuditStore_mixed.cfg` | refinement of `AuditLedger`, unique proof jobs, trims keep chains; what a search shows first no trim removes unless it is too old |
| `store_attended` | `AuditStore_attended.cfg` | liveness: markers are replayed, calls return |
| `store_stale_lock` | `AuditStore_staleLock.cfg` | finding 1 |
| `store_trim` | `AuditStore_trim.cfg` | finding 2 |
| `gate` | `DispatchGate_gate.cfg` | prints were approved, lost records are errors |
| `gate_reprint` | `DispatchGate_reprint.cfg` | finding 3 |
| `gate_template` | `DispatchGate_template.cfg` | finding 4 |
| `catalog` | `TemplateCatalog_saves.cfg` | versions stand for what was saved; a catalog without errors dispatches what it offers, from the source it is listed under |
| `catalog_unreferenced` | `TemplateCatalog_unreferenced.cfg` | finding 5 |
| `queue` | `BatchQueue_queue.cfg` | what is printed for a row is of one lineage; a submitted row shows the job that was printed for it, in the queue and in the snapshot; prints fit their profile and are never made under a fallback |
| `companion` | `CompanionClient_shell.cfg` | answers reach their requests, a reported review stays visible, at most two executions, nothing runs after disposal; liveness: actions end |

Bounds. Two processes are enough for every conflict over one lock. `store_crash`
has one lineage with two proofs that supersede each other, one with spaces around its
job id, an approval, a print
and a trim of both ledgers by count, and two faults, so that a crash during the replay of
a crashed proof is reached. `store_mixed` has the remaining operations, a
re-dispatch of a seeded proof whose lineage comes with spaces, a print whose parent is
not its root, trims with an age limit, a seed at a malformed time that these refuse, and
two faults. One bundle (`MaxBundles`) is enough
for a restore to meet rows it collides with. Jobs, contents and times are the
smallest sets in which one proof is older than the other and a cutoff separates
them. Processes (and hosts) are symmetric in the safety runs; the liveness runs use
no symmetry. The gate has two hosts, two contents of one template version, two
proofs of one lineage, and one fault; the requests include a blank lineage, ids with spaces around
them (of a print's source and parent; those of proofs are left to the theorems), a
request without execution and a bypass that configuration does not allow. The catalog has two
shells, a packaged version, a version of the operator's own and one that is named
like the manifest, and two faults, so that a broken manifest can be set aside
after a crash. The queue has two sheets of one row, a proof and a print from a proof, both for
the spooler; four environments, of which the first, with spaces around its printer and zint,
lets submissions through and
the others (a spooler without a printer name, a host without spooler, a missing
directory) must block them. `MaxAttempts` 2 for the proof is the least in
which a retry is retried, and the lineage of the first attempt may differ from that of
the last; every retry of the print is refused, so one is enough. `MaxChanges` 2 lets the
template catalog block the rows and release them.
`Loops` 2 lets a loop start while another still runs, which happens once a load has
unlocked the queue; `MaxLoads` 2 lets one load be overtaken by a submission and a
second read what that submission saved; `MaxFaults` 1 is one crash, failed dispatch
(with or without output) or torn file. Two rows in one sheet add nothing the two
loops do not: an answer reaches its row by index, and the rows of a sheet never
change places.

The companion serves a refresh and two reviews, the least in which
a stale refresh can be overtaken by a review while another keeps the semaphore
busy, with two cancellations or deaths. Only this run switches deadlock checking
off: a shell that is closed, its actions done, stops. Elsewhere a client can
always call.

Fairness. `ProcFairness` says that a running process goes on and that clients keep
calling, which is so only while an admin web is open: its refresh effects call again
after every render. With every client closed a marker waits for the next start,
and `MarkerIsReplayed` does not hold. `acquire_store_lock` polls for
three seconds, so a waiting process that is never served times out: `TimeOut` is
enabled whenever the lock is taken, and weak fairness of the whole `Step` is
enough. Nothing is said about faults.
`CompanionClient` assumes that the UI thread runs continuations that are ready and
that the companion serves and answers; nothing about the operator, cancellations
or deaths. `AttendedSpec` adds that someone deletes a
stale lock file in the end; `UnattendedSpec`, without it, shows finding 1.

## 4. Findings

1. **A stale lock blocks recovery** (`store_stale_lock`). `docs/print-pipeline.md:47`
   promises that stale markers are replayed on the next locked access. A process
   that dies inside `with_lock` leaves `audit-store.lock`; nobody reads the pid
   in it, and there is no next locked access until it is deleted by hand.
2. **A trim can break chains** (`store_trim`). `docs/print-pipeline.md:60` promises
   that a trim preserves dependency chains. The two ledgers are written one
   after the other without a marker; if the second write does not happen, proofs
   stay without their dispatches. The dispatches are in the bundle
   (`ProofsBacked` holds), but restoring it collides with the proofs.
3. **A reprint can name a foreign parent** (`gate_reprint`).
   `docs/print-pipeline.md:40` demands that `reprintOfJobId` match the approved lineage;
   the check is skipped when `jobLineageId` is given.
4. **Template versions can be overwritten** (`gate_template`). `docs/domain-model.md:41`
   forbids it; `save_template_to_local_catalog` replaces the file, and an approved
   proof then prints differently.

5. **Unlisted template files can dispatch** (`catalog_unreferenced`). The guidance at
   `main.rs:1802` says they do not. A file in the overlay directory is taken for any
   entry of its path, so an override of a packaged version whose save stopped
   before the manifest was written is in force, with a warning only.

## 5. Proofs

Every invariant and every safety action property of the passing runs is also a theorem,
for any set of processes, any requests and any bounds. The inductive invariants were
checked with TLC on the instances of the runs before they were proved.

| Module | Theorems, and what they state |
|---|---|
| `AuditStoreProofs` | `TypeCorrect`, `MutualExclusion` (`LockHeld`), `NoLostUpdate` (`FreshCopies`), `Atomicity` (`NoHalfTransaction`), `NothingIsLost` (`RowsNeverLost`), `MarkerIsKept` (`MarkerNeverForgotten`) |
| `AuditPromisesProofs` | `OneRecordPerProof` (`ProofJobsUnique`), `NoProofWithoutDispatch` (`ProofsBacked`), `AnswersAreDurable` (`AcknowledgedIsDurable`), `ChainsAreKept` (`TrimKeepsChains`), `TrimsAreUndone` (`TrimCanBeUndone`), `SearchesAgreeWithTrims` (`SearchAgreesWithTrim`), `StoreImplementsLedger` (`ImplementsLedger`) |
| `DispatchGateProofs` | `TypeCorrect`, `NothingUnapproved` (`PrintsWereApproved`), `AuditIsComplete` (`AuditLossIsReported`) |
| `CompanionClientProofs` | `TypeCorrect`, `ReportsAreTrue` (`ReportedWasDone`), `ReportsStayVisible` (`ReportedStaysVisible`), `TwiceAtMost` (`ExecutedAtMostTwice`), `DisposedForGood` (`NothingRunsAfterDispose`) |
| `TemplateCatalogProofs` | `TypeCorrect`, `TemplatesAreKept` (`CatalogKeepsTemplates`), `HealthyCatalogsResolve` (`HealthyMeansResolvable`), `ListedSourcesAreTrue` (`SourcesAreAsListed`) |
| `BatchQueueProofs` | `TypeCorrect`, `OneLineage` (`OutputsShareLineage`), `ResultsAreTrue` (`ResultsAreOfTheirDrafts`), `OutputsFit` (`OutputsFitTheirProfile`), `FallbacksNeverPrint` (`NothingFromFallbacks`); and about `PrintJob` and `Bridge`: `GateSeesWhatIsPrinted`, `PrinterTakesWhatIsMade`, `FallbacksAreAnnounced` |
| `LedgerProofs` | `UpsertIdempotent`, `WithRequiredCloses`; of the calendar `DatesKeepTheirOrder`, `DaysAreCounted`, `CalendarRoundTrip` |
| `LabelProofs` | `CompletionIsStable`, `SingleErrorsAreRefused`; `IndexesAreSound`, `ColumnOrderDoesNotMatter`, `ReadRowsAreValid`; `PreflightAgreesWithStore`, `SeedsArePrintable`; `SameLabel`, `PreviewIsWhatPrints` |

### The audit store

`AuditStoreProofs` rests on one inductive invariant, `IndInv`. None of the four
invariants is inductive alone: `FreshCopies` says nothing about files already written,
so it cannot tell what the marker's removal leaves behind. `PlannedWork` adds it. For a
process that is saving, a file that is left is as it was read, a file that is not
left is as planned; the rows to be dropped are in a bundle unless the bundle is
left; the marker is on disk exactly while its removal is left, with both rows
among those planned. `Serving` ties idle processes to empty requests, for types.

The argument has three layers. `OperationPlans` shows that every operation, and
`ReplayPlans` that a replay, either refuses or plans work that is `WellPlanned`,
which uses the lemmas of `LedgerProofs`. `QuietStep` (no file changes) and
`OwnerStep` (the lock holder moves, nobody else is saving) reduce the invariant
to what the moving process does. One lemma for each group of actions then
discharges those, and `IndInvNext` collects them.

`AuditPromisesProofs` goes on from there. `IndInv` says that a plan is carried out;
`Promises` says what the plan *means* for the call it was made for (`Meaning`): the
trim's plan keeps what `WithRequired` closes, the plan of a proof applies its two
rows, and so on. `DiskHolds` adds what the files and bundles have in common at every
moment: one record for each proof job, and a dispatch for each proof in the
ledger or in a bundle, and for those of the marker too, which is why a crash between
the two ledgers of a trim leaves no proof without its dispatch, although it
does break chains (finding 2). `AnswersHold` carries the meaning of a plan past its
last write to the answer. The refinement is proved step by step from both
invariants: a step that writes a ledger, or puts a marker on disk, is a step of
`AuditLedger`, and every other one a stutter.

`StoreImplementsLedger` has the hypothesis `~MarkerReadsFail`: a marker that cannot be
read is set aside and its proof dispatch forgotten, which the atomic ledgers have
no step for. `MarkerIsKept` holds without it, and says just what is left then.
`SearchesAgreeWithTrims` has two cases. A trim by count ranks by the texts, as the search
does. One with an age limit needs that texts of one width are ordered as the seconds
they are parsed into: of two rows the earlier text has not the later second, or `TextBefore`
would hold of them the other way round. This rests on `DatesKeepTheirOrder`, for which a date is split
into the years before its March, the months since then and the day, each part
bounded by the length of the next.

### The dispatch gate

`HostHolds` says for each place a host may be at what it knows: after the gate,
that its request `ApprovedFor`, and nothing that others do can take this away, since
`approvals` and `outputs` are history and only grow (`Grows`). The ledgers have to be
tied to `approvals`: `LedgersHold` says that an approved proof was approved for
whatever its only dispatch says. It cannot say so of every dispatch of its job: the
agent trims the id of a dispatch, so that a proof sent as "p " adds a dispatch
to an approved proof "p" and leaves it approved. But then "p" has two dispatches, and
`ApprovedMatch` wants one. The lineage of an approval is that of the proof record, as it was sent, and a
dispatch has a trimmed one: a print passes only where they are the same, so a proof
with spaces in its lineage is never printed from.

### The companion client

`ReportedWasDone` needs all of the pipes. `PipesHold` says what lines and answers
may be in them, and that an answer of the number that is awaited is that of the
request that was sent with it; `QueueHolds` that the semaphore is a queue without
repetitions in which only the first is in flight; `SnapshotsHold` that what an
action has fetched contains every review reported before it got the semaphore.
`ExecutionsHold` counts: an execution is paid for by an attempt, and the line that
is still in a pipe is not executed yet. `FaultFree` adds that the count is 1 as
long as nothing has failed.

### The template catalog

`Keeps(files, manifest, settled)` says that a manifest makes of every settled version
what was saved. It has to hold of the manifest on disk and of the *drafts* of all
saves that may still replace it, which is the strengthening. A save that no other
overlapped (`AloneHolds`) is as far as it says it is; only these settle a version.
`TemplatesAreKept` and `ListedSourcesAreTrue` have the hypothesis `DistinctFiles`, that no
version is saved to the file of another: `sanitize_template_filename` replaces
characters that file names cannot have by `_`, so that two versions that differ
only in those share a file, and the later save replaces the template of the
earlier. Nothing in the code refuses that. `TypeCorrect` and
`HealthyCatalogsResolve` do not need it.

### The batch queue

`OneLineage` rests on what every row, captured row, call and snapshot knows: its lineage
is the root of its draft, and without a lineage its draft is that root
(`OfOneLineage`). So a retry, however stale the row it starts from, names the
same lineage. Outputs then have a lineage that is a function of the root
(`OutputHolds`), and `OutputsShareLineage` follows. That a submission is only let in by
a status without errors, and that the environment of a process does not change,
gives `FallbacksNeverPrint` by `FallbacksAreAnnounced`, which says of
printer and zint that what is used is, up to the spaces around it, what the status
shows and has judged. Snapshots on disk and on
their way to the screen satisfy what the queue does (`QueueHolds`), because what is
printed stays printed.

### Pure modules

They are proved about, not run: their theorems hold for all inputs. A JAN digit
is weighed with 1 or 3, both prime to 10, so a change of one digit changes the check
digit. `SeedsArePrintable` joins the seed, the review and the approval lookup; it is
about the ledgers: the gate also wants a file that begins as a PDF file, which the
seed does not ask for. `SameLabel` has the two limits of the code as its terms: a
character the PDF's font cannot show, and a border of width 0 (`WellFormed`), which
is a hairline in the PDF and invisible in the SVG.

### Assumptions

The assumptions on constants are named where the constants are declared, and TLC
evaluates them in the runs. Most say that a parameter has its type, or that a marker
value like `None` is no value of another kind (`MarksAssumption`). The others are facts
of the code:

* `RecordsAssumption` (`AuditStore`): the shell records only prints without a proof
  (`record_dispatch`, called at `main.rs:85` and `main.rs:98`); a proof and its dispatch are built from one request
  (`build_dispatch_record`, `build_pending_proof_record`), so that they have one job id up to
  the spaces around it, and nothing is assumed of their lineages; the two rows a
  seed makes of one of its rows have one id, which was trimmed.
* `StampAssumption`, `ParsedAssumption`, `TextAssumption` (`AuditViews`): a text that can be
  parsed has four digits for its year and two for each other part and stands for the
  second it is parsed to; such texts are in the order of their parts. The host
  and the admin web write their times so (`new Date().toISOString()`); the Windows
  shell's reviews end in `+00:00` and are malformed here, see section 6. The parser takes a year of more digits
  and parts of one digit as well, which a seed may bring in; the order of such texts is
  not that of their times, and what is shown of trims with an age limit does not hold
  of them.
* `TrimAssumption` (`Ledger`): trimming a second time changes nothing.
* `PackagedAssumption` (`TemplateCatalog`): the packaged default is enabled and what is
  enabled has a packaged file, as `packages/templates/template-manifest.json` does
  and the test `every_enabled_template_in_manifest_is_resolvable`
  (`crates/render/src/lib.rs:1007`) demands.
* `DraftsAssumption` (`BatchQueue`): a draft is a proof or a print and has a printer
  profile (`buildDraftFromRow`).

### Only model-checked

Liveness (`store_attended`, and `ActionsEnd` of `companion`) and whatever needs ENABLED
are out of the prover's reach. So is what recursive definitions over data compute for
every input; the modules have none that a theorem would need. The five findings are
counterexamples of TLC.

## 6. Not modelled

The order of rows in a file, the text of exports and bundle names, the syntax of SVG
and PDF, zint, the bytes that are spooled, and the user interfaces. The parsing of
requests, manifests and ledgers is serde's; the comparison of headers (case,
punctuation, full-width forms) is the constant `Aliases`. Unreadable ledgers
are `IOError`. A power loss that undoes a completed rename is not modelled: a
process crash is. Governance codes that only a manifest edited by hand can raise,
and entries saved by two shells at once (one of them is lost, which the guidance
excludes), have no property. A trim with `maxAgeDays` compares the stored times with the clock of
the host (`audit_store.rs:649`): the cutoff is any number here, so that a clock that is
wrong is a request with another cutoff. Nothing else compares a stored time with the
current one. The barcode is drawn into a file of its own that
no label refers to, so nothing about it can be compared. The code takes any text for the
time of a dispatch, a seed (`main.rs:2193`) or a decision (`audit_store.rs:353`); a
malformed one makes every trim with an age limit that ranks its row refuse to work
until the row is removed (`RefuseTrim`), and no trim by count. The decisions of the
Windows shell are such: `ToString("O")` of a `DateTimeOffset` ends in `+00:00`
(`MainWindow.xaml.cs:446`), the parser asks for a `Z` (`audit_store.rs:1169`). The run
has a malformed time; that an age limit can always be applied is not claimed by any
document and is no property here. That two job ids may be sanitised to the name of one PDF (`main.rs:902`) is not
modelled, the PDF being named by the job id; that two template versions may share a
file is (`FileOf`), but only the hypothesis `DistinctFiles` speaks of what is lost then:
such a template still resolves, and governance finds nothing.

What is left of the source that no definition stands for is data types, tests,
the wording of messages, view models and the registration of commands.

## 7. Plan

Done: the models of the store and its views, the gate, the bridge, the agent and the
renderer, seeds, imports, the catalog, the batch queue, the companion; and theorems
for every invariant, every safety action property and the refinement of the passing
runs. Next:

1. Lemmas that say more about single operations: which rows `Kept` keeps by age and by
   count, and that the second of two equal trims finds nothing to drop.
2. What holds of the known weaknesses short of the documents: a half-written trim is
   undone by the restore of its bundle as long as no proof it left is missing its
   dispatch; a print that is repeated after a stale load has the same job id.
3. `DispatchGate` as an implementation of an abstract printer that takes approved
   labels only.
