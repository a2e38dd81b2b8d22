----------------------------- MODULE AuditStore -----------------------------
(***************************************************************************)
(* The audit store of the desktop shell (audit_store.rs): two JSON ledgers,*)
(* a write-ahead marker for proof dispatches, backup bundles and a lock    *)
(* file, shared by the processes that open the same directory (the Tauri   *)
(* shell and the companion the Windows shell starts).  Every operation is  *)
(* with_lock(op): take the lock file, replay a marker that was left behind,*)
(* read the ledgers, write whole files one after the other (each by an     *)
(* atomic rename), drop the lock.  A process may die between any two of    *)
(* these steps, and each read or write may fail.                           *)
(***************************************************************************)
EXTENDS Ledger

CONSTANTS Procs,       \* processes that open the store
          Requests,    \* the calls they may make, restores apart
          Seconds,     \* the seconds since 1970 a time is parsed to, None if malformed
          Free,        \* no lock file
          Stale,       \* a lock file that no running process owns
          Idle,        \* no call in progress
          MaxFaults,   \* bound: crashes and I/O errors in a behaviour
          MaxBundles,  \* bound: no trim is called once there are so many
          MarkerReadsFail  \* whether reading the marker may fail

ASSUME FreeAssumption  == Free \notin Procs /\ Stale \notin Procs /\ Free # Stale
ASSUME SecondsAssumption == Seconds \in [Times -> Int \cup {None}] /\ None \notin Int
ASSUME NoMarkerAssumption == None \notin Transaction
ASSUME BoundAssumption == MaxFaults \in Nat /\ MaxBundles \in Nat

VARIABLES lock,        \* audit-store.lock: Free, Stale or its owner
          marker,      \* proof-dispatch-transaction.json, or None
          setAside,    \* quarantined markers
          dispatches,  \* dispatch-ledger.json
          proofs,      \* proof-ledger.json
          backups,     \* the bundles under backups/
          pc,          \* where each process is
          req,         \* the call it is serving, or Idle
          work,        \* what it read and the writes it has left
          reply,       \* the result it is about to return, or None
          faults       \* crashes and I/O errors so far

files == <<marker, setAside, dispatches, proofs, backups>>
vars  == <<lock, files, pc, req, work, reply, faults>>

\* AuditRetentionRequest; the cutoff is the present less maxAgeDays, in seconds.
Retention == [op : {"trim"}, scope : {"all", "dispatch", "proof"},
              entries : Nat \cup {None}, cutoff : Int \cup {None},
              dryRun : BOOLEAN]

Calls ==
  [op : {"record"}, dispatch : DispatchRow]
    \cup [op : {"proof"}, dispatch : DispatchRow, proof : ProofRow]
    \cup [op : {"review"}, job : Jobs, status : {"approved", "rejected"}, at : Times]
    \cup [op : {"probe"}, both : BOOLEAN]
    \cup [op : {"read"}]
    \cup Retention
    \cup [op : {"restore"}, bundle : Bundle]
    \cup [op : {"seed"}, rows : SUBSET Transaction]

ASSUME RequestsAssumption ==
  /\ Requests \subseteq Calls
  /\ Idle \notin Calls
  /\ \A r \in Requests : r.op # "restore"

\* The dispatch that shows what was proofed.  The proof has the job id as it
\* was sent, the dispatch the one the print agent trimmed; their lineages are
\* made of the request in different ways, too, and may differ at will.
Backs(d, p) == d.mode = "proof" /\ d.job = TrimmedId[p.job]

\* A new proof: its dispatch and its pending record are made of one request
\* (build_dispatch_record, build_pending_proof_record), or of one row of a
\* legacy seed.
Paired(t) == Backs(t.dispatch, t.proof) /\ t.proof.status = "pending"

\* What the shell hands over: only prints are recorded without a proof, and a
\* seed is a list of rows, each with one job id that was trimmed.
ASSUME RecordsAssumption == \A r \in Requests :
  /\ r.op = "record" => r.dispatch.mode = "print"
  /\ r.op = "proof" => Paired(r)
  /\ r.op = "seed" =>
       /\ IsFiniteSet(r.rows)
       /\ \A row \in r.rows : Paired(row) /\ row.dispatch.job = row.proof.job

-----------------------------------------------------------------------------
(* What a process has read, what it makes of the two ledgers, the files it   *)
(* has left to write (or, for the marker, to remove), and where it goes then. *)

Files == {"bundle", "dispatches", "proofs", "marker"}

Work == [readDispatches : SUBSET DispatchRow, readProofs : SUBSET ProofRow,
         dispatches : SUBSET DispatchRow, proofs : SUBSET ProofRow,
         left : SUBSET Files, then : {"operate", "release"}]

NoWork == [readDispatches |-> {}, readProofs |-> {}, dispatches |-> {},
           proofs |-> {}, left |-> {}, then |-> "release"]

WorkOf(ds, ps, left, then) ==
  [readDispatches |-> dispatches, readProofs |-> proofs,
   dispatches |-> ds, proofs |-> ps, left |-> left, then |-> then]

Writes(ds, ps, left) == WorkOf(ds, ps, left, "release")

\* The ledgers that differ from what was read.
Changed(ds, ps) ==
  {f \in {"dispatches", "proofs"} :
     \/ f = "dispatches" /\ ds # dispatches
     \/ f = "proofs" /\ ps # proofs}

\* apply_proof_dispatch_transaction and the removal of the marker; a ledger
\* that would not change is not written.
ApplyWrites(t, then) ==
  LET ds == dispatches \cup {t.dispatch}
      ps == Upsert(proofs, t.proof)
  IN  WorkOf(ds, ps, Changed(ds, ps) \cup {"marker"}, then)

\* Mutant: the bundle holds the rows that are kept as well.
AllThatWasRead(w) == [dispatches |-> w.readDispatches, proofs |-> w.readProofs]

\* The bundle of a trim: the rows that it removes.
Removed(w) == [dispatches |-> w.readDispatches \ w.dispatches,
               proofs |-> w.readProofs \ w.proofs]

Critical == {"recover", "operate", "saving", "release"}

Init ==
  /\ lock = Free
  /\ marker = None
  /\ setAside = {}
  /\ dispatches = {} /\ proofs = {} /\ backups = {}
  /\ pc = [p \in Procs |-> "idle"]
  /\ req = [p \in Procs |-> Idle]
  /\ work = [p \in Procs |-> NoWork]
  /\ reply = [p \in Procs |-> None]
  /\ faults = 0

Goto(p, label) == pc' = [pc EXCEPT ![p] = label]

Return(p) ==
  /\ Goto(p, "idle")
  /\ req' = [req EXCEPT ![p] = Idle]
  /\ work' = [work EXCEPT ![p] = NoWork]
  /\ reply' = [reply EXCEPT ![p] = None]

Answer(p, result) ==
  /\ Goto(p, "release")
  /\ reply' = [reply EXCEPT ![p] = result]

Fault == faults < MaxFaults /\ faults' = faults + 1

-----------------------------------------------------------------------------
(* A call waits for the lock file. *)

\* A trim without a limit, or with the limit 0, is refused before the lock.
Admitted(r) ==
  r.op = "trim" => ValidRetention(r) /\ Cardinality(backups) < MaxBundles

Restores == {[op |-> "restore", bundle |-> b] : b \in backups}

Call(p, r) ==
  /\ pc[p] = "idle"
  /\ Admitted(r)
  /\ Goto(p, "waiting")
  /\ req' = [req EXCEPT ![p] = r]
  /\ UNCHANGED <<lock, files, work, reply, faults>>

\* Mutant: the lock file is opened without create_new.
AcquireAnyway(p) ==
  /\ pc[p] = "waiting"
  /\ lock' = p
  /\ Goto(p, "recover")
  /\ UNCHANGED <<files, req, work, reply, faults>>

\* Mutant: the lock file is created without its owner.
AcquireNameless(p) ==
  /\ pc[p] = "waiting"
  /\ lock = Free
  /\ lock' = None
  /\ Goto(p, "recover")
  /\ UNCHANGED <<files, req, work, reply, faults>>

Acquire(p) ==
  /\ pc[p] = "waiting"
  /\ lock = Free
  /\ lock' = p
  /\ Goto(p, "recover")
  /\ UNCHANGED <<files, req, work, reply, faults>>

\* Mutant: the wait for the lock has no deadline.
NoTimeOut(p) == FALSE /\ UNCHANGED vars

\* Mutant: giving up removes the lock file as well.
TimeOutDropsLock(p) ==
  /\ pc[p] = "waiting"
  /\ lock # Free
  /\ lock' = Free
  /\ Return(p)
  /\ UNCHANGED <<files, faults>>

\* The deadline has passed and the lock file is there.
TimeOut(p) ==
  /\ pc[p] = "waiting"
  /\ lock # Free
  /\ Return(p)
  /\ UNCHANGED <<lock, files, faults>>

\* The lock file cannot be created; or it is, but its payload is not written
\* and no guard exists to remove it.
LockInitFails(p) ==
  /\ pc[p] = "waiting"
  /\ lock = Free
  /\ Fault
  /\ lock' \in {Free, Stale}
  /\ Return(p)
  /\ UNCHANGED files

-----------------------------------------------------------------------------
(* Recovery: the marker of a proof dispatch that did not finish. *)

NothingToRecover(p) ==
  /\ pc[p] = "recover"
  /\ marker = None
  /\ Goto(p, "operate")
  /\ UNCHANGED <<lock, files, req, work, reply, faults>>

\* Mutant: operates on the ledgers and leaves the marker to a later access.
PostponeReplay(p) ==
  /\ pc[p] = "recover"
  /\ marker # None
  /\ Goto(p, "operate")
  /\ UNCHANGED <<lock, files, req, work, reply, faults>>

ReplayMarker(p) ==
  /\ pc[p] = "recover"
  /\ marker # None
  /\ work' = [work EXCEPT ![p] = ApplyWrites(marker, "operate")]
  /\ Goto(p, "saving")
  /\ UNCHANGED <<lock, files, req, reply, faults>>

\* Reading or parsing the marker fails: it is moved aside, and the call is
\* refused so that an operator reconciles the ledgers.
QuarantineMarker(p) ==
  /\ MarkerReadsFail
  /\ pc[p] = "recover"
  /\ marker # None
  /\ Fault
  /\ setAside' = setAside \cup {marker}
  /\ marker' = None
  /\ Answer(p, "error")
  /\ UNCHANGED <<lock, dispatches, proofs, backups, req, work>>

-----------------------------------------------------------------------------
(* The operations, under the lock and with no marker left behind.           *)

Operating(p, op) == pc[p] = "operate" /\ req[p].op = op

Plan(p, writes) ==
  /\ work' = [work EXCEPT ![p] = writes]
  /\ Goto(p, "saving")
  /\ UNCHANGED <<lock, setAside, dispatches, proofs, backups, req, reply, faults>>

Refuse(p) ==
  /\ Answer(p, "error")
  /\ UNCHANGED <<lock, files, req, work, faults>>

\* search, snapshot, export and ensure_approved_proof_matches.
ReadLedgers(p) ==
  /\ Operating(p, "read")
  /\ Plan(p, Writes(dispatches, proofs, {}))
  /\ UNCHANGED marker

\* assert_dispatch_ledger_writable, assert_dispatch_and_proof_ledgers_writable
ProbeLedgers(p) ==
  /\ Operating(p, "probe")
  /\ Plan(p, Writes(dispatches, proofs,
                    {"dispatches"} \cup IF req[p].both THEN {"proofs"} ELSE {}))
  /\ UNCHANGED marker

RecordDispatch(p) ==
  /\ Operating(p, "record")
  /\ LET ds == dispatches \cup {req[p].dispatch}
     IN  Plan(p, Writes(ds, proofs, Changed(ds, proofs)))
  /\ UNCHANGED marker

\* record_proof_dispatch_transaction: the marker is on disk before the ledgers
\* are touched.
CommitProof(p) ==
  /\ Operating(p, "proof")
  /\ marker' = [dispatch |-> req[p].dispatch, proof |-> req[p].proof]
  /\ Plan(p, ApplyWrites([dispatch |-> req[p].dispatch, proof |-> req[p].proof],
                         "release"))

ReviewProof(p) ==
  /\ Operating(p, "review")
  /\ IF Reviewable(proofs, req[p].job)
     THEN Plan(p, Writes(dispatches,
                         Reviewed(proofs, req[p].job, req[p].status, req[p].at),
                         {"proofs"}))
     ELSE Refuse(p)
  /\ UNCHANGED marker

\* With an age limit, one malformed time in a ledger to be trimmed refuses the
\* call, a dry run as well.
CanRank(r) ==
  /\ r.scope # "proof" => Rankable(dispatches, DispatchTimes(dispatches), Seconds, r)
  /\ r.scope # "dispatch" => Rankable(proofs, ProofTimes(proofs), Seconds, r)

Trim(p) ==
  LET r == req[p] IN
  /\ Operating(p, "trim")
  /\ CanRank(r)
  /\ \E keptProofs \in IF r.scope = "dispatch" THEN {proofs}
                       ELSE Kept(proofs, ProofTimes(proofs), Seconds, r) :
     \E ranked \in IF r.scope = "proof" THEN {dispatches}
                   ELSE Kept(dispatches, DispatchTimes(dispatches), Seconds, r) :
       LET kept == WithRequired(dispatches, keptProofs, ranked)
           ds   == IF r.scope = "proof" THEN dispatches ELSE kept
       IN  Plan(p, IF r.dryRun THEN Writes(dispatches, proofs, {})
                   ELSE Writes(ds, keptProofs,
                          (IF Changed(ds, keptProofs) = {} THEN {} ELSE {"bundle"})
                          \cup (IF r.scope = "proof" THEN {} ELSE {"dispatches"})
                          \cup (IF r.scope = "dispatch" THEN {} ELSE {"proofs"})))
  /\ UNCHANGED marker

RefuseTrim(p) ==
  /\ Operating(p, "trim")
  /\ ~CanRank(req[p])
  /\ Refuse(p)

RestoreBundle(p) ==
  LET b == req[p].bundle IN
  /\ Operating(p, "restore")
  /\ IF Restorable(dispatches, proofs, b)
     THEN Plan(p, Writes(dispatches \cup b.dispatches, proofs \cup b.proofs,
                         {"dispatches", "proofs"}))
     ELSE Refuse(p)
  /\ UNCHANGED marker

SeedLegacyProofs(p) ==
  LET rows == req[p].rows IN
  /\ Operating(p, "seed")
  /\ IF Seedable(dispatches, proofs, rows)
     THEN Plan(p, Writes(dispatches \cup {row.dispatch : row \in rows},
                         proofs \cup {row.proof : row \in rows},
                         {"dispatches", "proofs"}))
     ELSE Refuse(p)
  /\ UNCHANGED marker

-----------------------------------------------------------------------------
(* The files are written one by one, each to a temporary file that is then   *)
(* renamed: a write happens or does not, and what a failure leaves unwritten *)
(* stays so.                                                                 *)

Done(p, file) == work' = [work EXCEPT ![p].left = @ \ {file}]

SaveBundle(p) ==
  /\ pc[p] = "saving"
  /\ "bundle" \in work[p].left
  /\ backups' = backups \cup {Removed(work[p])}
  /\ Done(p, "bundle")
  /\ UNCHANGED <<lock, marker, setAside, dispatches, proofs, pc, req, reply, faults>>

\* Mutant: the dispatch ledger is written before the bundle.
SaveDispatchesFirst(p) ==
  /\ pc[p] = "saving"
  /\ "dispatches" \in work[p].left
  /\ dispatches' = work[p].dispatches
  /\ Done(p, "dispatches")
  /\ UNCHANGED <<lock, marker, setAside, proofs, backups, pc, req, reply, faults>>

SaveDispatches(p) ==
  /\ pc[p] = "saving"
  /\ "dispatches" \in work[p].left
  /\ "bundle" \notin work[p].left
  /\ dispatches' = work[p].dispatches
  /\ Done(p, "dispatches")
  /\ UNCHANGED <<lock, marker, setAside, proofs, backups, pc, req, reply, faults>>

\* Mutant: the proof ledger does not wait for the dispatch ledger.
SaveProofsFirst(p) ==
  /\ pc[p] = "saving"
  /\ "proofs" \in work[p].left
  /\ "bundle" \notin work[p].left
  /\ proofs' = work[p].proofs
  /\ Done(p, "proofs")
  /\ UNCHANGED <<lock, marker, setAside, dispatches, backups, pc, req, reply, faults>>

SaveProofs(p) ==
  /\ pc[p] = "saving"
  /\ "proofs" \in work[p].left
  /\ "bundle" \notin work[p].left /\ "dispatches" \notin work[p].left
  /\ proofs' = work[p].proofs
  /\ Done(p, "proofs")
  /\ UNCHANGED <<lock, marker, setAside, dispatches, backups, pc, req, reply, faults>>

\* Mutant: the marker is removed before the ledgers are written.
ClearMarkerFirst(p) ==
  /\ pc[p] = "saving"
  /\ "marker" \in work[p].left
  /\ marker' = None
  /\ Done(p, "marker")
  /\ UNCHANGED <<lock, setAside, dispatches, proofs, backups, pc, req, reply, faults>>

ClearMarker(p) ==
  /\ pc[p] = "saving"
  /\ work[p].left = {"marker"}
  /\ marker' = None
  /\ Done(p, "marker")
  /\ UNCHANGED <<lock, setAside, dispatches, proofs, backups, pc, req, reply, faults>>

Finish(p) ==
  /\ pc[p] = "saving"
  /\ work[p].left = {}
  /\ \/ /\ work[p].then = "operate"
        /\ Goto(p, "operate")
        /\ work' = [work EXCEPT ![p] = NoWork]
        /\ UNCHANGED reply
     \/ /\ work[p].then = "release"
        /\ Answer(p, "ok")
        /\ UNCHANGED work
  /\ UNCHANGED <<lock, files, req, faults>>

\* The guard removes the lock file and the call returns.
Release(p) ==
  /\ pc[p] = "release"
  /\ lock' = Free
  /\ Return(p)
  /\ UNCHANGED <<files, faults>>

-----------------------------------------------------------------------------
(* Faults, and the operator.                                                *)

\* Mutant: a failed write is taken for a success.
IOErrorIgnored(p) ==
  /\ pc[p] = "saving"
  /\ work[p].left # {}
  /\ Fault
  /\ Answer(p, "ok")
  /\ UNCHANGED <<lock, files, req, work>>

\* A read or a write fails: the call returns its error, and the guard drops
\* the lock.
IOError(p) ==
  /\ \/ pc[p] = "recover" /\ marker # None
     \/ pc[p] = "operate"
     \/ pc[p] = "saving" /\ work[p].left # {}
  /\ Fault
  /\ Answer(p, "error")
  /\ UNCHANGED <<lock, files, req, work>>

\* Drop ignores that the lock file could not be removed.
ReleaseFails(p) ==
  /\ pc[p] = "release"
  /\ Fault
  /\ lock' = Stale
  /\ Return(p)
  /\ UNCHANGED files

\* The process dies (the Windows shell kills a companion that does not
\* answer) and is started again; a lock file of its own stays.
Crash(p) ==
  /\ pc[p] # "idle"
  /\ Fault
  /\ lock' = IF pc[p] \in Critical THEN Stale ELSE lock
  /\ Return(p)
  /\ UNCHANGED files

\* Outside the code: someone deletes a lock file no process owns.
DeleteStaleLock ==
  /\ lock = Stale
  /\ lock' = Free
  /\ UNCHANGED <<files, pc, req, work, reply, faults>>

-----------------------------------------------------------------------------
Operation(p) ==
  \/ ReadLedgers(p) \/ ProbeLedgers(p) \/ RecordDispatch(p) \/ CommitProof(p)
  \/ ReviewProof(p) \/ Trim(p) \/ RefuseTrim(p) \/ RestoreBundle(p) \/ SeedLegacyProofs(p)

Save(p) ==
  SaveBundle(p) \/ SaveDispatches(p) \/ SaveProofs(p) \/ ClearMarker(p) \/ Finish(p)

\* What a running process does next of its own accord.
Step(p) ==
  \/ Acquire(p) \/ TimeOut(p) \/ NothingToRecover(p) \/ ReplayMarker(p)
  \/ Operation(p) \/ Save(p) \/ Release(p)

Fails(p) ==
  \/ LockInitFails(p) \/ QuarantineMarker(p) \/ IOError(p) \/ ReleaseFails(p)
  \/ Crash(p)

SomeCall(p) == \E r \in Requests \cup Restores : Call(p, r)

Next ==
  \/ \E p \in Procs : SomeCall(p) \/ Step(p) \/ Fails(p)
  \/ DeleteStaleLock

Spec == Init /\ [][Next]_vars

\* A running process goes on, and clients keep calling, which is so while an
\* admin web is open: its refresh effects call again on every render.  Nothing
\* is said of faults or of the operator.
ProcFairness == \A p \in Procs : WF_vars(Step(p)) /\ WF_vars(SomeCall(p))

UnattendedSpec == Spec /\ ProcFairness

\* ... and a stale lock file is deleted by hand in the end.
AttendedSpec == UnattendedSpec /\ WF_vars(DeleteStaleLock)

-----------------------------------------------------------------------------
(* Properties.                                                              *)

\* The variables hold what their comments say.
TypeOK ==
  /\ lock \in Procs \cup {Free, Stale}
  /\ marker \in Transaction \cup {None}
  /\ setAside \in SUBSET Transaction
  /\ dispatches \in SUBSET DispatchRow
  /\ proofs \in SUBSET ProofRow
  /\ backups \in SUBSET Bundle
  /\ pc \in [Procs -> {"idle", "waiting"} \cup Critical]
  /\ req \in [Procs -> Calls \cup {Idle}]
  /\ work \in [Procs -> Work]
  /\ reply \in [Procs -> {"ok", "error", None}]
  /\ faults \in 0..MaxFaults

\* The lock file belongs to whoever is inside with_lock, and a process that is
\* neither idle nor waiting is the only one there (acquire_store_lock).
LockHeld == \A p \in Procs : pc[p] \in Critical <=> lock = p

\* No lost update: a ledger about to be overwritten still is what the writer
\* read, whoever else called, crashed or timed out meanwhile.
FreshCopies ==
  \A p \in Procs : pc[p] = "saving" =>
    /\ "dispatches" \in work[p].left => dispatches = work[p].readDispatches
    /\ "proofs" \in work[p].left => proofs = work[p].readProofs

\* An operation never sees or changes the ledgers while half of a proof
\* dispatch is in them: the marker was replayed before (with_lock).
NoHalfTransaction == \A p \in Procs : pc[p] = "operate" => marker = None

\* The proof ledger has one record for each proof job, so that the lookups by
\* position, the replacing upsert and the gate all speak of the same record.
ProofJobsUnique == OneRowPerJob(proofs)

\* A proof that can be reviewed or printed from has the proof dispatch that
\* shows what was proofed, in the ledger or at worst in a backup bundle:
\* whatever crashes, no proof outlives or precedes its dispatch row.
ProofsBacked ==
  \A p \in proofs :
    \E d \in dispatches \cup UNION {b.dispatches : b \in backups} : Backs(d, p)

\* What a call answered "ok" has done is in the files when it returns, and a
\* proof that was acknowledged is the only live one of its lineage.
AcknowledgedIsDurable ==
  \A p \in Procs : pc[p] = "release" /\ reply[p] = "ok" =>
    LET r == req[p] IN
    /\ marker = None
    /\ r.op \in {"record", "proof"} => r.dispatch \in dispatches
    /\ r.op = "proof" =>
         {q \in proofs : q.lineage = r.proof.lineage /\ q.status \in Live} = {r.proof}
    /\ r.op = "review" =>
         \E q \in proofs : q.job = r.job /\ q.status = r.status /\ q.decided = r.at
    /\ r.op = "restore" => r.bundle.dispatches \subseteq dispatches /\ r.bundle.proofs \subseteq proofs
    /\ r.op = "seed" => \A row \in r.rows : row.dispatch \in dispatches /\ row.proof \in proofs

\* "Trim preserves proof/proof-dispatch dependency chains": a trim that
\* answered "ok" left every kept proof its dispatches, and every kept dispatch
\* those of its parent and of its lineage root.
TrimKeepsChains ==
  \A p \in Procs : pc[p] = "release" /\ reply[p] = "ok" /\ req[p].op = "trim" =>
    /\ ProofDispatches(work[p].readDispatches, proofs) \subseteq dispatches
    /\ req[p].scope # "proof" =>
         ClosedUnderLineage(dispatches, work[p].readDispatches)

\* A row leaves a ledger only when a bundle on disk already holds it, so that
\* no crash and no failed write can lose it; a proof may be replaced by a
\* later record of the same job (trim, write_json_file).
RowsNeverLost ==
  [][/\ \A d \in dispatches \ dispatches' : \E b \in backups : d \in b.dispatches
     /\ \A p \in proofs : \/ p.job \in JobsOf(proofs')
                          \/ \E b \in backups : p \in b.proofs]_vars

\* Once the marker is on disk its proof dispatch is not forgotten: the marker
\* goes away only with both rows in the ledgers or the marker set aside, over
\* any crash, retry or operation of another process.
MarkerNeverForgotten ==
  [][marker # None /\ marker' # marker =>
       \/ marker.dispatch \in dispatches /\ marker.proof \in proofs
       \/ marker \in setAside']_vars

\* Every call returns, even while a lock file nobody owns blocks the store.
CallsReturn == \A p \in Procs : pc[p] # "idle" ~> pc[p] = "idle"

\* docs/print-pipeline.md: "Trim preserves proof/proof-dispatch dependency
\* chains": when no call is running and no marker is left, each proof in the
\* ledger has its dispatch there.
ChainsAreWhole ==
  lock = Free /\ marker = None => \A p \in proofs : \E d \in dispatches : Backs(d, p)

\* docs/print-pipeline.md: "Stale proof transaction markers are replayed
\* automatically on the next locked audit access".
MarkerIsReplayed == marker # None ~> marker = None
-----------------------------------------------------------------------------
(* The store implements AuditLedger: a proof dispatch takes effect when its   *)
(* marker is on disk, and applying, removing or replaying it changes nothing. *)

CommittedDispatches ==
  IF marker = None THEN dispatches ELSE dispatches \cup {marker.dispatch}

CommittedProofs ==
  IF marker = None THEN proofs ELSE Upsert(proofs, marker.proof)

Ledgers == INSTANCE AuditLedger WITH
  dispatches <- CommittedDispatches, proofs <- CommittedProofs

\* The calls of any number of processes, with crashes, failed writes and
\* replays between their steps, look like steps of the abstract ledgers.
ImplementsLedger == Ledgers!Spec
=============================================================================
