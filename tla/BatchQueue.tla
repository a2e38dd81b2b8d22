----------------------------- MODULE BatchQueue -----------------------------
(***************************************************************************)
(* The batch queue of the admin web (App.tsx) over the desktop shell: rows *)
(* of drafts that a loop submits one by one, each an await on              *)
(* dispatch_print_job, and the snapshot of the queue that the shell keeps  *)
(* in a file (main.rs).  React runs the effects that load and save the     *)
(* snapshot after every render, so that a load, a save and a submission    *)
(* overlap in any way; the window may be closed or reloaded at any time.   *)
(* What a dispatch makes of a draft is PrintJob; of the gate only the      *)
(* lineage of the approved proof is left.                                  *)
(***************************************************************************)
EXTENDS PrintJob, FiniteSets

CONSTANTS Sheets,       \* the drafts that are prepared, one sequence after the other
          Environments, \* the environments the shell may run in
          Loops,        \* bound: the submission loops that can overlap
          MaxAttempts,  \* bound: for each sheet, the job ids made for one draft of it
          MaxLoads,     \* bound: loads of the snapshot
          MaxChanges,   \* bound: changes of the template catalog
          MaxFaults,    \* bound: crashes and failures outside the code
          None, Torn    \* nothing, and a file whose write was cut off

RowIndex == UNION {DOMAIN Sheets[s] : s \in DOMAIN Sheets}

ASSUME QueueAssumption ==
  /\ Len(Sheets) \in Nat \ {0} /\ DOMAIN Sheets = 1..Len(Sheets)
  /\ {MaxLoads, MaxChanges, MaxFaults} \subseteq Nat
  /\ MaxAttempts \in [DOMAIN Sheets -> Nat]
  /\ Absent \notin Text /\ None # Torn

\* A draft is a proof or a print, and it has a printer profile
\* (buildDraftFromRow).
ASSUME DraftsAssumption ==
  \A s \in DOMAIN Sheets : \A i \in DOMAIN Sheets[s] :
    Sheets[s][i].mode \in {"proof", "print"} /\ Sheets[s][i].profile # Absent

\* A draft has its own job id: a new one for each sheet and each attempt.
Draft == UNION {[row : DOMAIN Sheets[s], sheet : {s}, attempt : 0..MaxAttempts[s]] :
                  s \in DOMAIN Sheets}

ASSUME NoDraftAssumption == None \notin Draft

FirstAttempts == {d \in Draft : d.attempt = 0}

Root(draft) == [draft EXCEPT !.attempt = 0]

\* QueuedRow; `issue' says that the error is that of the template catalog.
Row == [draft : Draft, status : {"ready", "submitting", "submitted", "failed"},
        lineage : Draft \cup {None}, result : Draft \cup {None}, issue : BOOLEAN]

\* The phases of a submission; an idle queue also stands for one whose last
\* submission succeeded or failed.
Phases == {"idle", "submitting"}

VARIABLES env, status,     \* the environment, and the bridge status on the screen
          rows, phase,     \* the queue and its submission
          issue,           \* the template catalog does not fit
          changes,         \* how often that changed so far
          hydrated,        \* a load has ended
          sheet,           \* the sheet the prepared rows come from
          attempts,        \* the attempt that was last made for a draft
          loops,           \* the submissions that are under way
          file,            \* batch-queue-snapshot.json
          loading,         \* the snapshots that were read and are on their way to the queue
          loads,           \* the loads so far
          outputs,         \* what was printed or proofed, ever
          faults

queue == <<rows, phase, issue, changes, hydrated, sheet>>
disk  == <<file, loading, loads>>
vars  == <<env, status, queue, attempts, loops, disk, outputs, faults>>

\* The rows of a queue, of a sheet or none.
Queue == UNION {[indexes -> Row] : indexes \in {{}} \cup {DOMAIN Sheets[s] : s \in DOMAIN Sheets}}

Snapshot == [rows : Queue, phase : Phases]

NoLoads == [n \in 1..MaxLoads |-> None]

Init ==
  /\ env \in Environments /\ status = None
  /\ rows = <<>> /\ phase = "idle" /\ issue = FALSE /\ changes = 0 /\ hydrated = FALSE
  /\ sheet = 1
  /\ attempts = [d \in FirstAttempts |-> 0]
  /\ loops = [l \in Loops |-> None]
  /\ file = None /\ loading = NoLoads
  /\ loads = 0 /\ outputs = {} /\ faults = 0

Fault == faults < MaxFaults /\ faults' = faults + 1

-----------------------------------------------------------------------------
(* The queue.  While the phase is "submitting", nothing else may change it.  *)

Locked == phase = "submitting"

SetQueue(newRows, newPhase) ==
  rows' = newRows /\ phase' = newPhase

RefreshBridgeStatus ==
  /\ status = None
  /\ status' = Status(env)
  /\ UNCHANGED <<env, queue, attempts, loops, disk, outputs, faults>>

\* handleDataUpload: new rows are prepared, with new job ids.
Upload ==
  /\ ~Locked
  /\ sheet < Len(Sheets)
  /\ sheet' = sheet + 1
  /\ SetQueue(<<>>, phase)
  /\ UNCHANGED <<env, status, issue, changes, hydrated, attempts, loops, disk, outputs, faults>>

\* preparedRows: an edit of the mapping, the template or the printer profile
\* makes new drafts, whatever the queue does.
Prepare ==
  /\ sheet < Len(Sheets)
  /\ sheet' = sheet + 1
  /\ UNCHANGED <<env, status, rows, phase, issue, changes, hydrated, attempts, loops, disk,
                 outputs, faults>>

\* buildQueueSnapshot: the prepared drafts, and again the same ones if nothing
\* was prepared meanwhile; none of them is ready if the catalog does not fit.
BuildQueue ==
  /\ ~Locked
  /\ SetQueue(IF issue THEN <<>>
              ELSE [i \in DOMAIN Sheets[sheet] |->
                      [draft |-> [row |-> i, sheet |-> sheet, attempt |-> 0],
                       status |-> "ready", lineage |-> None, result |-> None,
                       issue |-> FALSE]],
              "idle")
  /\ UNCHANGED <<env, status, issue, changes, hydrated, sheet, attempts, loops, disk, outputs, faults>>

\* clearQueueSnapshot, resetDataSource
ClearQueue ==
  /\ ~Locked
  /\ SetQueue(<<>>, "idle")
  /\ UNCHANGED <<env, status, issue, changes, hydrated, sheet, attempts, loops, disk, outputs, faults>>

\* Mutant: a status of its own.
BlockedByName(row) ==
  IF row.status \in {"ready", "submitting"} \/ row.issue
  THEN [row EXCEPT !.status = "blocked", !.result = None, !.issue = TRUE]
  ELSE row

\* The effect on templateCatalogIssue: rows that wait are failed, and those
\* that failed for it wait again.
Blocked(row) ==
  IF row.status \in {"ready", "submitting"} \/ row.issue
  THEN [row EXCEPT !.status = "failed", !.result = None, !.issue = TRUE]
  ELSE row

Unblocked(row) ==
  IF row.status = "failed" /\ row.issue /\ row.result = None
  THEN [row EXCEPT !.status = "ready", !.issue = FALSE]
  ELSE row

ChangeCatalog ==
  /\ changes < MaxChanges /\ changes' = changes + 1
  /\ issue' = ~issue
  /\ rows' = [i \in DOMAIN rows |-> IF issue THEN Unblocked(rows[i]) ELSE Blocked(rows[i])]
  /\ UNCHANGED <<env, status, phase, hydrated, sheet, attempts, loops, disk, outputs, faults>>

-----------------------------------------------------------------------------
(* submitQueuedRows: the rows are captured at the start, by their indexes, and *)
(* each answer is written back at the index its row had then.                *)

Submittable(row) == row.status \in {"ready", "failed"}

Captured == [i \in {j \in DOMAIN rows : Submittable(rows[j])} |-> rows[i]]

Submit(l) ==
  /\ loops[l] = None
  /\ ~Locked
  /\ status # None /\ ~Blocks(status) /\ ~issue /\ DOMAIN Captured # {}
  /\ phase' = "submitting"
  /\ loops' = [loops EXCEPT ![l] = [todo |-> Captured, call |-> None]]
  /\ UNCHANGED <<env, status, rows, issue, changes, hydrated, sheet, attempts, disk, outputs, faults>>

WriteRow(index, row) ==
  [i \in DOMAIN rows |-> IF i = index THEN row ELSE rows[i]]

\* Job ids are made of the time in seconds: the one of a retry is new, unless
\* the last retry was in the same second.
AttemptOf(root, n) ==
  /\ n \in {attempts[root], attempts[root] + 1} \cap 1..MaxAttempts[root.sheet]
  /\ attempts' = [attempts EXCEPT ![root] = n]

\* Mutant: a retry names the job that failed last.
RetryLineageLast(row) ==
  IF row.status = "failed" THEN row.draft ELSE row.lineage

\* createRetriedDraft names the job that failed, unless the row has a lineage.
RetryLineage(row) ==
  IF row.lineage # None THEN row.lineage
  ELSE IF row.status = "failed" THEN row.draft ELSE None

\* The draft a row is submitted with: a new job id if it has failed.
ActiveDraft(row, draft) ==
  IF row.status = "failed"
  THEN /\ AttemptOf(Root(row.draft), draft.attempt)
       /\ draft = [row.draft EXCEPT !.attempt = draft.attempt]
  ELSE draft = row.draft /\ UNCHANGED attempts

Without(todo, i) == [j \in DOMAIN todo \ {i} |-> todo[j]]

\* The row of the least index is next.
Start(l) ==
  /\ loops[l] # None
  /\ loops[l].call = None
  /\ \E i \in DOMAIN loops[l].todo, draft \in Draft :
       LET row == loops[l].todo[i]
           lineage == RetryLineage(row)
       IN  /\ \A j \in DOMAIN loops[l].todo : i <= j
           /\ ActiveDraft(row, draft)
           /\ rows' = WriteRow(i, [draft |-> draft, status |-> "submitting",
                                   lineage |-> lineage, result |-> None, issue |-> FALSE])
           /\ loops' = [loops EXCEPT ![l] =
                [todo |-> Without(loops[l].todo, i),
                 call |-> [index |-> i, draft |-> draft, lineage |-> lineage,
                           reply |-> "none"]]]
  /\ phase' = "submitting"
  /\ UNCHANGED <<env, status, issue, changes, hydrated, sheet, disk, outputs, faults>>

-----------------------------------------------------------------------------
(* dispatch_print_job.                                                       *)

\* toDispatchRequest: the data of the draft; its job id is known to be good.
RequestOf(draft) == Sheets[draft.sheet][draft.row]

\* buildProofLinkedDispatchOptions: a lineage that is given stays; a print from
\* a proof that the audit search shows is of the proof's lineage.
ProofLineage(draft) == RequestOf(draft).proof

\* The lineage check of the gate, and the lineage the job ends up in.
GateAccepts(call) ==
  ProofLineage(call.draft) # Absent => call.lineage = None

LineageOf(call) ==
  IF ProofLineage(call.draft) # Absent THEN ProofLineage(call.draft)
  ELSE IF call.lineage # None THEN call.lineage ELSE call.draft

Calling(l) == loops[l] # None /\ loops[l].call # None /\ loops[l].call.reply = "none"

Reply(l, reply) == loops' = [loops EXCEPT ![l].call.reply = reply]

Output(call) ==
  [draft |-> call.draft, lineage |-> LineageOf(call),
   result |-> Result(RequestOf(call.draft), env)]

DispatchSucceeds(l) ==
  LET call == loops[l].call IN
  /\ Calling(l)
  /\ GateAccepts(call)
  /\ Refusal(RequestOf(call.draft), env, TRUE) = "none"
  /\ outputs' = outputs \cup {Output(call)}
  /\ Reply(l, "ok")
  /\ UNCHANGED <<env, status, queue, attempts, disk, faults>>

DispatchRefused(l) ==
  LET call == loops[l].call IN
  /\ Calling(l)
  /\ ~GateAccepts(call) \/ Refusal(RequestOf(call.draft), env, TRUE) # "none"
  /\ Reply(l, "error")
  /\ UNCHANGED <<env, status, queue, attempts, disk, outputs, faults>>

\* zint, the template, the disk or the audit store fails; the store, after the
\* output is there.
DispatchFails(l) ==
  LET call == loops[l].call IN
  /\ Calling(l)
  /\ Fault
  /\ \/ UNCHANGED outputs
     \/ /\ GateAccepts(call) /\ Refusal(RequestOf(call.draft), env, TRUE) = "none"
        /\ outputs' = outputs \cup {Output(call)}
  /\ Reply(l, "error")
  /\ UNCHANGED <<env, status, queue, attempts, disk>>

-----------------------------------------------------------------------------
Answered(l) == loops[l] # None /\ loops[l].call # None /\ loops[l].call.reply # "none"

\* Mutant: the answer is put into whatever row is there now.
AnswerKeepsDraft(l) ==
  LET call == loops[l].call IN
  /\ Answered(l)
  /\ rows' = [i \in DOMAIN rows |->
                IF i = call.index
                THEN [rows[i] EXCEPT !.status = IF call.reply = "ok" THEN "submitted" ELSE "failed",
                                     !.result = IF call.reply = "ok" THEN call.draft ELSE None]
                ELSE rows[i]]
  /\ loops' = [loops EXCEPT ![l].call = None]
  /\ UNCHANGED <<env, status, phase, issue, changes, hydrated, sheet, attempts, disk, outputs, faults>>

Answer(l) ==
  LET call == loops[l].call IN
  /\ Answered(l)
  /\ rows' = WriteRow(call.index,
               [draft |-> call.draft, lineage |-> call.lineage, issue |-> FALSE,
                status |-> IF call.reply = "ok" THEN "submitted" ELSE "failed",
                result |-> IF call.reply = "ok" THEN call.draft ELSE None])
  /\ loops' = [loops EXCEPT ![l].call = None]
  /\ UNCHANGED <<env, status, phase, issue, changes, hydrated, sheet, attempts, disk, outputs, faults>>

Finish(l) ==
  /\ loops[l] # None
  /\ loops[l].call = None /\ DOMAIN loops[l].todo = {}
  /\ phase' = "idle"
  /\ loops' = [loops EXCEPT ![l] = None]
  /\ UNCHANGED <<env, status, rows, issue, changes, hydrated, sheet, attempts, disk, outputs, faults>>

-----------------------------------------------------------------------------
(* The snapshot file. *)

\* load_batch_queue_snapshot, at the start or for a restored form; a file that
\* cannot be parsed is an error.
ReadFile ==
  /\ loads < MaxLoads
  /\ loads' = loads + 1
  /\ loading' = [loading EXCEPT ![loads + 1] = [found |-> file]]
  /\ UNCHANGED <<env, status, queue, attempts, loops, file, outputs, faults>>

\* refreshDesktopBatchSnapshot replaces the rows and the phase, whatever they
\* are by now; a reload for a restored form leaves rows alone.
ApplyLoad(n) ==
  /\ loading[n] # None
  /\ \/ /\ loading[n].found \notin {None, Torn}
        /\ SetQueue(loading[n].found.rows, loading[n].found.phase)
     \/ /\ loading[n].found \in {None, Torn} \/ rows # <<>>
        /\ UNCHANGED <<rows, phase>>
  /\ loading' = [loading EXCEPT ![n] = None]
  /\ hydrated' = TRUE
  /\ UNCHANGED <<env, status, issue, changes, sheet, attempts, loops, file, loads, outputs, faults>>

\* persistDesktopBatchSnapshot, save_batch_queue_snapshot: what was rendered is
\* in the file some time later; the shell writes one snapshot after the other,
\* so that a late write is a write that has not been made yet.  An empty queue
\* removes the file (clear_batch_queue_snapshot).
Persist ==
  /\ hydrated
  /\ file' = IF rows = <<>> THEN None ELSE [rows |-> rows, phase |-> phase]
  /\ UNCHANGED <<env, status, queue, attempts, loops, loading, loads, outputs, faults>>

\* The file is written in place: a failure, or the end of the shell, may leave
\* a part of it.
PersistFails ==
  /\ hydrated /\ rows # <<>>
  /\ Fault
  /\ file' = Torn
  /\ UNCHANGED <<env, status, queue, attempts, loops, loading, loads, outputs>>

\* The window is closed or reloaded: nobody waits for the loops any more; the
\* shell may still do what it was asked to.
Crash ==
  /\ Fault
  /\ SetQueue(<<>>, "idle")
  /\ status' = None /\ issue' = FALSE /\ hydrated' = FALSE
  /\ loading' = NoLoads
  /\ outputs' \in {outputs} \cup
       {outputs \cup {Output(loops[l].call)} :
          l \in {k \in Loops : Calling(k) /\ GateAccepts(loops[k].call)
                   /\ Refusal(RequestOf(loops[k].call.draft), env, TRUE) = "none"}}
  /\ loops' = [l \in Loops |-> None]
  /\ UNCHANGED <<env, changes, sheet, attempts, file, loads>>

-----------------------------------------------------------------------------
Loop(l) ==
  \/ Start(l) \/ DispatchSucceeds(l) \/ DispatchRefused(l) \/ DispatchFails(l)
  \/ Answer(l) \/ Finish(l)

Operator == RefreshBridgeStatus \/ Upload \/ Prepare \/ BuildQueue \/ ClearQueue \/ ChangeCatalog

SnapshotFile ==
  \/ ReadFile \/ Persist \/ PersistFails
  \/ \E n \in 1..MaxLoads : ApplyLoad(n)

Next ==
  \/ Operator \/ SnapshotFile \/ Crash
  \/ \E l \in Loops : Submit(l) \/ Loop(l)

Spec == Init /\ [][Next]_vars

-----------------------------------------------------------------------------
(* Properties. *)

Call == [index : RowIndex, draft : Draft, lineage : Draft \cup {None},
         reply : {"none", "ok", "error"}]

\* A loop has rows to go, and a call.
Submission == [todo : UNION {[indexes -> Row] : indexes \in SUBSET RowIndex},
               call : Call \cup {None}]

\* The variables hold what their comments say.
TypeOK ==
  /\ env \in Environments /\ (status = None \/ status = Status(env))
  /\ [rows |-> rows, phase |-> phase] \in Snapshot
  /\ issue \in BOOLEAN /\ hydrated \in BOOLEAN /\ sheet \in DOMAIN Sheets
  /\ attempts \in [FirstAttempts -> Nat]
  /\ \A d \in FirstAttempts : attempts[d] \in 0..MaxAttempts[d.sheet]
  /\ loops \in [Loops -> Submission \cup {None}]
  /\ file \in Snapshot \cup {None, Torn}
  /\ loading \in [1..MaxLoads -> [found : Snapshot \cup {None, Torn}] \cup {None}]
  /\ loads \in 0..MaxLoads /\ changes \in 0..MaxChanges /\ faults \in 0..MaxFaults

\* Whatever fails, is retried, reloaded or restored from a snapshot: all that
\* was ever printed for a row of a sheet is of one lineage, so that the audit
\* trail shows a retry of a job that was printed after all (createRetriedDraft,
\* submitQueuedRows).
OutputsShareLineage ==
  \A o, p \in outputs : Root(o.draft) = Root(p.draft) => o.lineage = p.lineage

ResultsHold(queued) ==
  \A i \in DOMAIN queued : queued[i].status = "submitted" =>
    /\ queued[i].result = queued[i].draft
    /\ \E o \in outputs : o.draft = queued[i].draft

\* A row that says it was submitted shows the job it was submitted as, and
\* that job was printed, although answers are written back by index into rows
\* that a load may have replaced; and so does the snapshot that other shells
\* read (submitQueuedRows, refreshDesktopBatchSnapshot).
ResultsAreOfTheirDrafts ==
  /\ ResultsHold(rows)
  /\ file \notin {None, Torn} => ResultsHold(file.rows)

\* A proof is a PDF file and a print goes to the printer of its profile, as an
\* artifact that printer takes; what the host lacks is never replaced.
OutputsFitTheirProfile ==
  \A o \in outputs :
    LET r == RequestOf(o.draft) IN
    /\ o.result.adapter = IF r.mode = "proof" THEN "pdf" ELSE AdapterNamed(r.profile, env)
    /\ o.result.adapter \in Adapters(env)
    /\ o.result.media = IF o.result.adapter = "pdf" THEN "application/pdf" ELSE "image/svg+xml"

\* Nothing is submitted while the bridge falls back from what its environment
\* asks for: the status says so, and the queue waits for the status
\* (PrintBridgeStatus::from_environment, submitQueuedRows).
NothingFromFallbacks ==
  outputs # {} =>
    /\ env.adapter # NotSet => AdapterNamed(env.adapter, env) = Config(env).adapter
    /\ \A d \in Directories : env.dirs[d] # NotSet => env.dirs[d] \in env.existing
    /\ Config(env).adapter = "windows-spooler" => env.printer # NotSet
=============================================================================
