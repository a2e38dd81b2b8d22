-------------------------- MODULE AuditStoreProofs --------------------------
(***************************************************************************)
(* Proofs about AuditStore for any processes, requests and bounds: types,  *)
(* mutual exclusion, fresh copies, and the promises of the write-ahead     *)
(* marker and of the backup bundles.                                       *)
(***************************************************************************)
EXTENDS AuditStore, LedgerProofs

-----------------------------------------------------------------------------
(* The inductive invariant.                                                 *)

\* A process that is not idle serves a call.
Serving == \A p \in Procs : pc[p] = "idle" <=> req[p] = Idle

\* The rows that the work w takes from the ledgers are in a bundle already.
Covered(w) ==
  /\ \A d \in w.readDispatches \ w.dispatches : \E b \in backups : d \in b.dispatches
  /\ \A q \in w.readProofs : \/ q.job \in JobsOf(w.proofs)
                             \/ \E b \in backups : q \in b.proofs

\* A file that is left to write is as it was read, one that is not left is as
\* planned; rows go only after their bundle; and the marker stays for as long
\* as its removal is left, with both its rows among those to be written.
Planned(w) ==
  /\ dispatches = IF "dispatches" \in w.left THEN w.readDispatches ELSE w.dispatches
  /\ proofs = IF "proofs" \in w.left THEN w.readProofs ELSE w.proofs
  /\ "bundle" \notin w.left => Covered(w)
  /\ "marker" \notin w.left => marker = None
  /\ "marker" \in w.left => /\ marker # None
                            /\ marker.dispatch \in w.dispatches
                            /\ marker.proof \in w.proofs

PlannedWork == \A p \in Procs : pc[p] = "saving" => Planned(work[p])

IndInv == TypeOK /\ Serving /\ LockHeld /\ NoHalfTransaction /\ PlannedWork

-----------------------------------------------------------------------------
(* Calls and work.                                                          *)

\* The fields of a call, by its operation.
LEMMA CallFields ==
  ASSUME NEW r \in Calls
  PROVE  /\ r.op = "record" => r.dispatch \in DispatchRow
         /\ r.op = "proof" => r.dispatch \in DispatchRow /\ r.proof \in ProofRow
         /\ r.op = "review" =>
              r.job \in Jobs /\ r.status \in {"approved", "rejected"} /\ r.at \in Times
         /\ r.op = "restore" => r.bundle \in Bundle
         /\ r.op = "seed" => r.rows \in SUBSET Transaction
  BY DEF Calls, Retention

\* A call that starts is a call.
LEMMA RequestTypes ==
  ASSUME TypeOK, NEW r \in Requests \cup Restores
  PROVE  r \in Calls
  BY RequestsAssumption DEF TypeOK, Restores, Calls

\* A process that operates serves a call of that operation.
LEMMA OperatingCall ==
  ASSUME TypeOK, Serving, NEW p \in Procs, NEW op, Operating(p, op)
  PROVE  req[p] \in Calls /\ req[p].op = op
  BY DEF TypeOK, Operating, Serving

LEMMA NoWorkType == NoWork \in Work
  BY DEF NoWork, Work

\* What an operation plans is work on the ledgers as they are.
LEMMA WorkOfType ==
  ASSUME TypeOK, NEW ds \in SUBSET DispatchRow, NEW ps \in SUBSET ProofRow,
         NEW left \in SUBSET Files, NEW then \in {"operate", "release"}
  PROVE  LET w == WorkOf(ds, ps, left, then) IN
         /\ w \in Work
         /\ w.readDispatches = dispatches /\ w.readProofs = proofs
         /\ w.dispatches = ds /\ w.proofs = ps /\ w.left = left /\ w.then = then
  BY DEF WorkOf, Work, TypeOK

\* Ticking a file off keeps work work.
LEMMA DoneType ==
  ASSUME work \in [Procs -> Work], NEW p \in Procs, NEW file, Done(p, file)
  PROVE  /\ work' \in [Procs -> Work]
         /\ \A q \in Procs : q # p => work'[q] = work[q]
         /\ work'[p].left = work[p].left \ {file}
         /\ work'[p].readDispatches = work[p].readDispatches
         /\ work'[p].readProofs = work[p].readProofs
         /\ work'[p].dispatches = work[p].dispatches
         /\ work'[p].proofs = work[p].proofs
         /\ work'[p].then = work[p].then
<1>1. work[p] \in Work
  OBVIOUS
<1>2. work' = [work EXCEPT ![p] = [work[p] EXCEPT !.left = work[p].left \ {file}]]
  BY DEF Done
<1> DEFINE w == [work[p] EXCEPT !.left = work[p].left \ {file}]
<1>3. /\ w \in Work
      /\ w.left = work[p].left \ {file}
      /\ w.readDispatches = work[p].readDispatches /\ w.readProofs = work[p].readProofs
      /\ w.dispatches = work[p].dispatches /\ w.proofs = work[p].proofs
      /\ w.then = work[p].then
  BY <1>1 DEF Work
<1>4. work'[p] = w /\ work' \in [Procs -> Work] /\ \A q \in Procs : q # p => work'[q] = work[q]
  BY <1>2, <1>3
<1>5. QED
  BY <1>3, <1>4

\* A trim keeps rows of the ledger.
LEMMA KeptType ==
  ASSUME NEW rows, NEW time, NEW seconds, NEW request
  PROVE  \A kept \in Kept(rows, time, seconds, request) : kept \in SUBSET rows
  BY DEF Kept

-----------------------------------------------------------------------------
(* Every operation plans writes that are Planned, or refuses.               *)

\* w is planned well on the ledgers as they are, m being the marker on disk
\* from now on.
WellPlanned(w, m) ==
  /\ w \in Work
  /\ w.readDispatches = dispatches /\ w.readProofs = proofs
  /\ "dispatches" \notin w.left => w.dispatches = dispatches
  /\ "proofs" \notin w.left => w.proofs = proofs
  /\ "bundle" \notin w.left => /\ dispatches \subseteq w.dispatches
                               /\ \A q \in proofs : q.job \in JobsOf(w.proofs)
  /\ "marker" \notin w.left => m = None
  /\ "marker" \in w.left => /\ m # None
                            /\ m.dispatch \in w.dispatches
                            /\ m.proof \in w.proofs

\* Writes that take no row away.
LEMMA WritesPlanned ==
  ASSUME TypeOK, marker = None,
         NEW ds \in SUBSET DispatchRow, NEW ps \in SUBSET ProofRow,
         NEW left \in SUBSET {"dispatches", "proofs"},
         dispatches \subseteq ds, \A q \in proofs : q.job \in JobsOf(ps),
         "dispatches" \notin left => ds = dispatches,
         "proofs" \notin left => ps = proofs
  PROVE  WellPlanned(Writes(ds, ps, left), marker)
<1> DEFINE w == WorkOf(ds, ps, left, "release")
<1>1. left \in SUBSET Files
  BY DEF Files
<1>2. /\ w \in Work
      /\ w.readDispatches = dispatches /\ w.readProofs = proofs
      /\ w.dispatches = ds /\ w.proofs = ps /\ w.left = left
  BY <1>1, WorkOfType
<1>3. WellPlanned(w, marker)
  <2> HIDE DEF w
  <2> QED
    BY <1>2 DEF WellPlanned
<1>4. QED
  BY <1>3 DEF Writes

\* Applying a transaction that is on disk.
LEMMA ApplyWritesPlanned ==
  ASSUME TypeOK, NEW t \in Transaction, NEW then \in {"operate", "release"}
  PROVE  WellPlanned(ApplyWrites(t, then), t)
<1> DEFINE ds   == dispatches \cup {t.dispatch}
           ps   == Upsert(proofs, t.proof)
           left == Changed(ds, ps) \cup {"marker"}
           w    == WorkOf(ds, ps, left, then)
<1>1. t.dispatch \in DispatchRow /\ t.proof \in ProofRow /\ t # None
  BY NoMarkerAssumption DEF Transaction
<1>2. ds \in SUBSET DispatchRow
  BY <1>1 DEF TypeOK
<1>3. /\ ps \in SUBSET ProofRow
      /\ t.proof \in ps
      /\ \A q \in proofs : q.job \in JobsOf(ps)
  BY <1>1, UpsertType, UpsertJobs DEF TypeOK
<1>4. /\ left \in SUBSET Files
      /\ "dispatches" \notin left => ds = dispatches
      /\ "proofs" \notin left => ps = proofs
      /\ "marker" \in left
  BY DEF Changed, Files
<1>5. dispatches \subseteq ds /\ t.dispatch \in ds
  OBVIOUS
<1> HIDE DEF ds, ps, left
<1>6. /\ w \in Work
      /\ w.readDispatches = dispatches /\ w.readProofs = proofs
      /\ w.dispatches = ds /\ w.proofs = ps /\ w.left = left
  BY <1>2, <1>3, <1>4, WorkOfType
<1>7. WellPlanned(w, t)
  <2> HIDE DEF w
  <2> QED
    BY <1>1, <1>3, <1>4, <1>5, <1>6 DEF WellPlanned
<1>8. QED
  BY <1>7 DEF ApplyWrites, ds, ps, left

\* What planned work and refusals do to the variables.
Planning(p) ==
  \/ Refuse(p) /\ UNCHANGED marker
  \/ /\ marker' \in Transaction \cup {None}
     /\ \E w : Plan(p, w) /\ WellPlanned(w, marker')

\* An operation that plans well and leaves the marker alone.
LEMMA PlansWell ==
  ASSUME marker = None, UNCHANGED marker, NEW p, NEW w,
         Plan(p, w), WellPlanned(w, marker)
  PROVE  Planning(p)
<1>1. marker' = None
  OBVIOUS
<1>2. WellPlanned(w, None)
  OBVIOUS
<1>3. QED
  BY <1>1, <1>2 DEF Planning

\* A trim plans to drop rows only after it has planned their bundle.
LEMMA TrimPlans ==
  ASSUME TypeOK, marker = None, NEW p \in Procs, Trim(p)
  PROVE  \E w : Plan(p, w) /\ WellPlanned(w, marker)
<1> DEFINE r == req[p]
<1>1. PICK keptProofs \in IF r.scope = "dispatch" THEN {proofs}
                           ELSE Kept(proofs, ProofTimes(proofs), Seconds, r),
           ranked \in IF r.scope = "proof" THEN {dispatches}
                       ELSE Kept(dispatches, DispatchTimes(dispatches), Seconds, r) :
        LET kept == WithRequired(dispatches, keptProofs, ranked)
            ds   == IF r.scope = "proof" THEN dispatches ELSE kept
        IN  Plan(p, IF r.dryRun THEN Writes(dispatches, proofs, {})
                    ELSE Writes(ds, keptProofs,
                           (IF Changed(ds, keptProofs) = {} THEN {} ELSE {"bundle"})
                           \cup (IF r.scope = "proof" THEN {} ELSE {"dispatches"})
                           \cup (IF r.scope = "dispatch" THEN {} ELSE {"proofs"})))
  BY DEF Trim
<1> DEFINE kept == WithRequired(dispatches, keptProofs, ranked)
           ds   == IF r.scope = "proof" THEN dispatches ELSE kept
           left == (IF Changed(ds, keptProofs) = {} THEN {} ELSE {"bundle"})
                     \cup (IF r.scope = "proof" THEN {} ELSE {"dispatches"})
                     \cup (IF r.scope = "dispatch" THEN {} ELSE {"proofs"})
           w    == WorkOf(ds, keptProofs, left, "release")
<1>2. /\ dispatches \in SUBSET DispatchRow /\ proofs \in SUBSET ProofRow
      /\ \A q \in proofs : q.job \in JobsOf(proofs)
  BY DEF TypeOK, JobsOf
<1>3. keptProofs \in SUBSET proofs
  BY KeptType
<1>4. ds \in SUBSET dispatches
  BY DEF WithRequired
<1>5. /\ left \in SUBSET Files /\ "marker" \notin left
      /\ "dispatches" \notin left => ds = dispatches
      /\ "proofs" \notin left => keptProofs = proofs
      /\ "bundle" \notin left => Changed(ds, keptProofs) = {}
  BY DEF Files
<1>6. Changed(ds, keptProofs) = {} => ds = dispatches /\ keptProofs = proofs
  BY DEF Changed
<1>7. ASSUME r.dryRun
      PROVE  \E v : Plan(p, v) /\ WellPlanned(v, marker)
  <2>1. WellPlanned(Writes(dispatches, proofs, {}), marker)
    BY <1>2, WritesPlanned
  <2>2. QED
    BY <1>1, <1>7, <2>1
<1>8. ASSUME ~r.dryRun
      PROVE  \E v : Plan(p, v) /\ WellPlanned(v, marker)
  <2>1. Plan(p, w)
    BY <1>1, <1>8 DEF Writes
  <2> HIDE DEF ds, left
  <2>2. ds \in SUBSET DispatchRow /\ keptProofs \in SUBSET ProofRow
    BY <1>2, <1>3, <1>4
  <2>3. /\ w \in Work
        /\ w.readDispatches = dispatches /\ w.readProofs = proofs
        /\ w.dispatches = ds /\ w.proofs = keptProofs /\ w.left = left
    BY <1>5, <2>2, WorkOfType
  <2> HIDE DEF w
  <2>4. WellPlanned(w, marker)
    BY <1>2, <1>5, <1>6, <2>3 DEF WellPlanned
  <2>5. QED
    BY <2>1, <2>4
<1>9. QED
  BY <1>7, <1>8

\* The writes of an operation, for each operation of the store.
LEMMA OperationPlans ==
  ASSUME TypeOK, Serving, NoHalfTransaction, NEW p \in Procs, Operation(p)
  PROVE  pc[p] = "operate" /\ Planning(p)
<1>1. pc[p] = "operate"
  BY DEF Operation, Operating, ReadLedgers, ProbeLedgers, RecordDispatch, CommitProof,
         ReviewProof, Trim, RefuseTrim, RestoreBundle, SeedLegacyProofs
<1>2. marker = None
  BY <1>1 DEF NoHalfTransaction
<1>3. /\ dispatches \in SUBSET DispatchRow /\ proofs \in SUBSET ProofRow
      /\ \A q \in proofs : q.job \in JobsOf(proofs)
  BY DEF TypeOK, JobsOf
<1>4. CASE ReadLedgers(p)
  <2>1. WellPlanned(Writes(dispatches, proofs, {}), marker)
    BY <1>2, <1>3, WritesPlanned
  <2>2. QED
    BY <1>1, <1>2, <1>4, <2>1, PlansWell DEF ReadLedgers
<1>5. CASE ProbeLedgers(p)
  <2> DEFINE left == {"dispatches"} \cup IF req[p].both THEN {"proofs"} ELSE {}
  <2>1. WellPlanned(Writes(dispatches, proofs, left), marker)
    BY <1>2, <1>3, WritesPlanned
  <2>2. QED
    BY <1>1, <1>2, <1>5, <2>1, PlansWell DEF ProbeLedgers
<1>6. CASE RecordDispatch(p)
  <2> DEFINE ds == dispatches \cup {req[p].dispatch}
  <2>1. req[p].dispatch \in DispatchRow
    BY <1>6, OperatingCall, CallFields DEF RecordDispatch
  <2>2. /\ Changed(ds, proofs) \in SUBSET {"dispatches", "proofs"}
        /\ "dispatches" \notin Changed(ds, proofs) => ds = dispatches
    BY DEF Changed
  <2>3. ds \in SUBSET DispatchRow /\ dispatches \subseteq ds
    BY <1>3, <2>1
  <2> HIDE DEF ds
  <2>4. WellPlanned(Writes(ds, proofs, Changed(ds, proofs)), marker)
    BY <1>2, <1>3, <2>2, <2>3, WritesPlanned
  <2>5. QED
    BY <1>1, <1>2, <1>6, <2>4, PlansWell DEF RecordDispatch, ds
<1>7. CASE CommitProof(p)
  <2> DEFINE t == [dispatch |-> req[p].dispatch, proof |-> req[p].proof]
  <2>1. req[p].dispatch \in DispatchRow /\ req[p].proof \in ProofRow
    BY <1>7, OperatingCall, CallFields DEF CommitProof
  <2>2. t \in Transaction
    BY <2>1 DEF Transaction
  <2>3. WellPlanned(ApplyWrites(t, "release"), t)
    BY <2>2, ApplyWritesPlanned
  <2>4. marker' = t /\ Plan(p, ApplyWrites(t, "release"))
    BY <1>7 DEF CommitProof
  <2>5. QED
    BY <1>1, <2>2, <2>3, <2>4 DEF Planning
<1>8. CASE ReviewProof(p)
  <2> DEFINE ps == Reviewed(proofs, req[p].job, req[p].status, req[p].at)
  <2>1. /\ req[p].job \in Jobs /\ req[p].status \in {"approved", "rejected"}
        /\ req[p].at \in Times
    BY <1>8, OperatingCall, CallFields DEF ReviewProof
  <2>2. req[p].status \in Statuses
    BY <2>1 DEF Statuses
  <2>3. ps \in SUBSET ProofRow /\ \A q \in proofs : q.job \in JobsOf(ps)
    BY <1>3, <2>1, <2>2, ReviewedType
  <2> HIDE DEF ps
  <2>4. WellPlanned(Writes(dispatches, ps, {"proofs"}), marker)
    BY <1>2, <1>3, <2>3, WritesPlanned
  <2>5. Planning(p)
    <3>1. CASE Refuse(p)
      BY <1>8, <3>1 DEF ReviewProof, Planning
    <3>2. CASE ~Refuse(p)
      BY <1>2, <1>8, <2>4, <3>2, PlansWell DEF ReviewProof, ps
    <3>3. QED
      BY <3>1, <3>2
  <2>6. QED
    BY <1>1, <2>5
<1>9. CASE Trim(p)
  <2>1. PICK w : Plan(p, w) /\ WellPlanned(w, marker)
    BY <1>2, <1>9, TrimPlans
  <2>2. UNCHANGED marker
    BY <1>9 DEF Trim
  <2>3. QED
    BY <1>1, <1>2, <2>1, <2>2, PlansWell
<1>10. CASE RestoreBundle(p)
  <2> DEFINE b == req[p].bundle
  <2>1. b \in Bundle
    BY <1>10, OperatingCall, CallFields DEF RestoreBundle
  <2>2. b.dispatches \in SUBSET DispatchRow /\ b.proofs \in SUBSET ProofRow
    BY <2>1 DEF Bundle
  <2> DEFINE ds == dispatches \cup b.dispatches
             ps == proofs \cup b.proofs
  <2>3. /\ ds \in SUBSET DispatchRow /\ ps \in SUBSET ProofRow
        /\ dispatches \subseteq ds /\ \A q \in proofs : q.job \in JobsOf(ps)
    BY <1>3, <2>2 DEF JobsOf
  <2> HIDE DEF ds, ps
  <2>4. WellPlanned(Writes(ds, ps, {"dispatches", "proofs"}), marker)
    BY <1>2, <2>3, WritesPlanned
  <2>5. Planning(p)
    <3>1. CASE Refuse(p)
      BY <1>10, <3>1 DEF RestoreBundle, Planning
    <3>2. CASE ~Refuse(p)
      BY <1>2, <1>10, <2>4, <3>2, PlansWell DEF RestoreBundle, ds, ps
    <3>3. QED
      BY <3>1, <3>2
  <2>6. QED
    BY <1>1, <2>5
<1>11. CASE SeedLegacyProofs(p)
  <2> DEFINE ds == dispatches \cup {row.dispatch : row \in req[p].rows}
             ps == proofs \cup {row.proof : row \in req[p].rows}
  <2>1. req[p].rows \in SUBSET Transaction
    BY <1>11, OperatingCall, CallFields DEF SeedLegacyProofs
  <2>2. \A row \in req[p].rows : row.dispatch \in DispatchRow /\ row.proof \in ProofRow
    BY <2>1 DEF Transaction
  <2>3. /\ ds \in SUBSET DispatchRow /\ ps \in SUBSET ProofRow
        /\ dispatches \subseteq ds /\ \A q \in proofs : q.job \in JobsOf(ps)
    BY <1>3, <2>2 DEF JobsOf
  <2> HIDE DEF ds, ps
  <2>4. WellPlanned(Writes(ds, ps, {"dispatches", "proofs"}), marker)
    BY <1>2, <2>3, WritesPlanned
  <2>5. Planning(p)
    <3>1. CASE Refuse(p)
      BY <1>11, <3>1 DEF SeedLegacyProofs, Planning
    <3>2. CASE ~Refuse(p)
      BY <1>2, <1>11, <2>4, <3>2, PlansWell DEF SeedLegacyProofs, ds, ps
    <3>3. QED
      BY <3>1, <3>2
  <2>6. QED
    BY <1>1, <2>5
<1>12. CASE RefuseTrim(p)
  BY <1>1, <1>12 DEF RefuseTrim, Refuse, Planning, files
<1>13. QED
  BY <1>1, <1>4, <1>5, <1>6, <1>7, <1>8, <1>9, <1>10, <1>11, <1>12 DEF Operation

\* Replaying the marker plans well, too.
LEMMA ReplayPlans ==
  ASSUME TypeOK, NEW p \in Procs, ReplayMarker(p)
  PROVE  pc[p] = "recover" /\ Planning(p)
<1>1. marker \in Transaction
  BY DEF ReplayMarker, TypeOK
<1>2. WellPlanned(ApplyWrites(marker, "operate"), marker)
  BY <1>1, ApplyWritesPlanned
<1>3. pc[p] = "recover" /\ UNCHANGED marker /\ Plan(p, ApplyWrites(marker, "operate"))
  BY DEF ReplayMarker, Plan, files
<1>4. marker' = marker
  BY <1>3
<1>5. \E w : Plan(p, w) /\ WellPlanned(w, marker')
  BY <1>2, <1>3, <1>4
<1>6. QED
  BY <1>1, <1>3, <1>4, <1>5 DEF Planning

-----------------------------------------------------------------------------
(* The invariant is inductive.                                              *)

\* Only one process is inside with_lock.
LEMMA Exclusive ==
  ASSUME LockHeld, NEW p \in Procs, NEW q \in Procs,
         pc[p] \in Critical, pc[q] \in Critical
  PROVE  p = q
  BY DEF LockHeld

\* A plan whose process and whose files stand still remains good.
LEMMA PlannedFrame ==
  ASSUME UNCHANGED <<marker, dispatches, proofs, backups>>,
         NEW q \in Procs, work'[q] = work[q], Planned(work[q])
  PROVE  Planned(work[q])'
  BY DEF Planned, Covered

\* A step of p leaves the other processes where they are.
Alone(p) ==
  \A q \in Procs : q # p =>
    pc'[q] = pc[q] /\ req'[q] = req[q] /\ work'[q] = work[q]

\* Steps of a process that change no file.
LEMMA QuietStep ==
  ASSUME IndInv, NEW p \in Procs, TypeOK', Alone(p),
         UNCHANGED <<marker, dispatches, proofs, backups>>,
         pc'[p] = "idle" <=> req'[p] = Idle,
         pc'[p] \in Critical <=> lock' = p,
         \A q \in Procs : q # p => (lock' = q <=> lock = q),
         pc'[p] = "operate" => marker = None,
         pc'[p] # "saving"
  PROVE  IndInv'
<1>1. Serving'
  BY DEF IndInv, Serving, Alone
<1>2. LockHeld'
  BY DEF IndInv, LockHeld, Alone
<1>3. NoHalfTransaction'
  BY DEF IndInv, NoHalfTransaction, Alone
<1>4. PlannedWork'
  <2>1. SUFFICES ASSUME NEW q \in Procs, pc'[q] = "saving"
                 PROVE  Planned(work[q])'
    BY DEF PlannedWork
  <2>2. q # p
    BY <2>1
  <2>3. pc[q] = "saving" /\ work'[q] = work[q]
    BY <2>1, <2>2 DEF Alone
  <2>4. Planned(work[q])
    BY <2>3 DEF IndInv, PlannedWork
  <2>5. QED
    BY <2>3, <2>4, PlannedFrame
<1>5. QED
  BY <1>1, <1>2, <1>3, <1>4 DEF IndInv

\* Returning, for whatever reason.
LEMMA ReturnType ==
  ASSUME TypeOK, NEW p \in Procs, Return(p)
  PROVE  /\ pc' \in [Procs -> {"idle", "waiting"} \cup Critical]
         /\ req' \in [Procs -> Calls \cup {Idle}]
         /\ work' \in [Procs -> Work]
         /\ reply' \in [Procs -> {"ok", "error", None}]
         /\ pc'[p] = "idle" /\ req'[p] = Idle
         /\ Alone(p)
  BY NoWorkType DEF Return, Goto, TypeOK, Alone

\* Answering leads to the release of the lock.
LEMMA AnswerType ==
  ASSUME TypeOK, NEW p \in Procs, NEW result \in {"ok", "error"}, Answer(p, result),
         UNCHANGED <<req, work>>
  PROVE  /\ pc' \in [Procs -> {"idle", "waiting"} \cup Critical]
         /\ reply' \in [Procs -> {"ok", "error", None}]
         /\ pc'[p] = "release" /\ req'[p] = req[p]
         /\ Alone(p)
  BY DEF Answer, Goto, TypeOK, Alone, Critical

LEMMA GotoType ==
  ASSUME TypeOK, NEW p \in Procs,
         NEW label \in {"idle", "waiting"} \cup Critical, Goto(p, label)
  PROVE  /\ pc' \in [Procs -> {"idle", "waiting"} \cup Critical]
         /\ pc'[p] = label
         /\ \A q \in Procs : q # p => pc'[q] = pc[q]
  BY DEF Goto, TypeOK

LEMMA FaultType ==
  ASSUME faults \in 0..MaxFaults, Fault
  PROVE  faults' \in 0..MaxFaults
  BY BoundAssumption DEF Fault

\* A call starts.
LEMMA CallStep ==
  ASSUME IndInv, NEW p \in Procs, NEW r \in Requests \cup Restores, Call(p, r)
  PROVE  IndInv'
<1>1. r \in Calls /\ r # Idle
  BY RequestTypes, RequestsAssumption DEF IndInv
<1>2. TypeOK /\ pc[p] = "idle" /\ Goto(p, "waiting")
  BY DEF IndInv, Call
<1>3. /\ pc' \in [Procs -> {"idle", "waiting"} \cup Critical]
      /\ pc'[p] = "waiting"
      /\ \A q \in Procs : q # p => pc'[q] = pc[q]
  BY <1>2, GotoType
<1>4. /\ req' \in [Procs -> Calls \cup {Idle}]
      /\ req'[p] = r
      /\ \A q \in Procs : q # p => req'[q] = req[q]
  BY <1>1, <1>2 DEF Call, TypeOK
<1>5. UNCHANGED <<lock, marker, setAside, dispatches, proofs, backups, work, reply, faults>>
  BY DEF Call, files
<1>6. TypeOK' /\ Alone(p)
  BY <1>2, <1>3, <1>4, <1>5 DEF TypeOK, Alone
<1>7. pc[p] \notin Critical /\ pc'[p] \notin Critical
  BY <1>2, <1>3 DEF Critical
<1>8. lock # p
  BY <1>7 DEF IndInv, LockHeld
<1>9. QED
  BY <1>1, <1>3, <1>4, <1>5, <1>6, <1>7, <1>8, QuietStep

\* The lock file is created by one process.
LEMMA AcquireStep ==
  ASSUME IndInv, NEW p \in Procs, Acquire(p)
  PROVE  IndInv'
<1>1. TypeOK /\ pc[p] = "waiting" /\ Goto(p, "recover") /\ lock = Free /\ lock' = p
  BY DEF IndInv, Acquire
<1>2. /\ pc' \in [Procs -> {"idle", "waiting"} \cup Critical]
      /\ pc'[p] = "recover"
      /\ \A q \in Procs : q # p => pc'[q] = pc[q]
  BY <1>1, GotoType DEF Critical
<1>3. UNCHANGED <<marker, setAside, dispatches, proofs, backups, req, work, reply, faults>>
  BY DEF Acquire, files
<1>4. TypeOK' /\ Alone(p)
  BY <1>1, <1>2, <1>3 DEF TypeOK, Alone
<1>5. req[p] # Idle
  BY <1>1 DEF IndInv, Serving
<1>6. pc'[p] \in Critical
  BY <1>2 DEF Critical
<1>7. \A q \in Procs : q # p => (lock' = q <=> lock = q)
  BY <1>1, FreeAssumption
<1>8. QED
  BY <1>1, <1>2, <1>3, <1>4, <1>5, <1>6, <1>7, QuietStep

\* Returning leaves the rest as it is, if the lock goes to nobody.
LEMMA ReturnStep ==
  ASSUME IndInv, NEW p \in Procs, Return(p),
         UNCHANGED <<marker, setAside, dispatches, proofs, backups>>,
         faults' \in 0..MaxFaults,
         \/ lock' = lock /\ pc[p] \notin Critical
         \/ lock' \in {Free, Stale} /\ (lock = Free \/ pc[p] \in Critical)
  PROVE  IndInv'
<1>1. TypeOK
  BY DEF IndInv
<1>2. /\ pc' \in [Procs -> {"idle", "waiting"} \cup Critical]
      /\ req' \in [Procs -> Calls \cup {Idle}]
      /\ work' \in [Procs -> Work]
      /\ reply' \in [Procs -> {"ok", "error", None}]
      /\ pc'[p] = "idle" /\ req'[p] = Idle
      /\ Alone(p)
  BY <1>1, ReturnType
<1>3. lock' \in Procs \cup {Free, Stale}
  BY <1>1 DEF TypeOK
<1>4. TypeOK'
  BY <1>1, <1>2, <1>3 DEF TypeOK
<1>5. pc[p] \in Critical <=> lock = p
  BY DEF IndInv, LockHeld
<1>6. lock' # p /\ \A q \in Procs : q # p => (lock' = q <=> lock = q)
  BY <1>5, FreeAssumption
<1>7. pc'[p] \notin Critical
  BY <1>2 DEF Critical
<1>8. QED
  BY <1>2, <1>4, <1>6, <1>7, QuietStep

\* Giving up the wait, failing to fill the lock file, releasing it or not,
\* and dying are returns of that kind.
LEMMA ReturningSteps ==
  ASSUME IndInv, NEW p \in Procs,
         \/ TimeOut(p) \/ LockInitFails(p) \/ Release(p) \/ ReleaseFails(p) \/ Crash(p)
  PROVE  IndInv'
<1>1. faults \in 0..MaxFaults
  BY DEF IndInv, TypeOK
<1>2. CASE TimeOut(p)
  <2>1. pc[p] \notin Critical
    BY <1>2 DEF TimeOut, Critical
  <2>2. QED
    BY <1>1, <1>2, <2>1, ReturnStep DEF TimeOut, files
<1>3. CASE LockInitFails(p)
  BY <1>1, <1>3, FaultType, ReturnStep DEF LockInitFails, files
<1>4. CASE Release(p)
  <2>1. pc[p] \in Critical
    BY <1>4 DEF Release, Critical
  <2>2. QED
    BY <1>1, <1>4, <2>1, ReturnStep DEF Release, files
<1>5. CASE ReleaseFails(p)
  <2>1. pc[p] \in Critical
    BY <1>5 DEF ReleaseFails, Critical
  <2>2. QED
    BY <1>1, <1>5, <2>1, FaultType, ReturnStep DEF ReleaseFails, files
<1>6. CASE Crash(p)
  <2>1. faults' \in 0..MaxFaults
    BY <1>1, <1>6, FaultType DEF Crash
  <2>2. \/ lock' = lock /\ pc[p] \notin Critical
        \/ lock' = Stale /\ pc[p] \in Critical
    BY <1>6 DEF Crash
  <2>3. QED
    BY <1>6, <2>1, <2>2, ReturnStep DEF Crash, files
<1>7. QED
  BY <1>2, <1>3, <1>4, <1>5, <1>6

\* Answering inside with_lock leaves the rest as it is.
LEMMA AnswerStep ==
  ASSUME IndInv, NEW p \in Procs, NEW result \in {"ok", "error"}, Answer(p, result),
         pc[p] \in Critical,
         UNCHANGED <<lock, marker, setAside, dispatches, proofs, backups, req, work>>,
         faults' \in 0..MaxFaults
  PROVE  IndInv'
<1>1. TypeOK
  BY DEF IndInv
<1>2. /\ pc' \in [Procs -> {"idle", "waiting"} \cup Critical]
      /\ reply' \in [Procs -> {"ok", "error", None}]
      /\ pc'[p] = "release" /\ req'[p] = req[p]
      /\ Alone(p)
  BY <1>1, AnswerType
<1>3. TypeOK'
  BY <1>1, <1>2 DEF TypeOK
<1>4. req[p] # Idle /\ lock = p
  BY DEF IndInv, Serving, LockHeld, Critical
<1>5. pc'[p] \in Critical
  BY <1>2 DEF Critical
<1>6. QED
  BY <1>2, <1>3, <1>4, <1>5, QuietStep

\* Refusals and I/O errors answer.
LEMMA ErrorSteps ==
  ASSUME IndInv, NEW p \in Procs,
         \/ IOError(p)
         \/ Refuse(p) /\ UNCHANGED marker /\ pc[p] \in Critical
  PROVE  IndInv'
<1>1. faults \in 0..MaxFaults
  BY DEF IndInv, TypeOK
<1>2. CASE IOError(p)
  <2>1. pc[p] \in Critical
    BY <1>2 DEF IOError, Critical
  <2>2. faults' \in 0..MaxFaults
    BY <1>1, <1>2, FaultType DEF IOError
  <2>3. QED
    BY <1>2, <2>1, <2>2, AnswerStep DEF IOError, files
<1>3. CASE Refuse(p) /\ UNCHANGED marker /\ pc[p] \in Critical
  BY <1>1, <1>3, AnswerStep DEF Refuse, files
<1>4. QED
  BY <1>2, <1>3

\* Steps of the process that holds the lock.
LEMMA OwnerStep ==
  ASSUME IndInv, NEW p \in Procs, TypeOK', Alone(p), lock' = lock, req'[p] = req[p],
         pc[p] \in Critical, pc'[p] \in Critical,
         pc'[p] = "operate" => marker' = None,
         pc'[p] = "saving" => Planned(work[p])'
  PROVE  IndInv'
<1>1. \A q \in Procs : q # p => pc'[q] \notin Critical
  BY Exclusive DEF IndInv, Alone
<1>2. pc[p] # "idle" /\ pc'[p] # "idle"
  BY DEF Critical
<1>3. Serving'
  BY <1>2 DEF IndInv, Serving, Alone
<1>4. LockHeld'
  BY DEF IndInv, LockHeld, Alone
<1>5. NoHalfTransaction' /\ PlannedWork'
  <2>1. "operate" \in Critical /\ "saving" \in Critical
    BY DEF Critical
  <2>2. NoHalfTransaction'
    BY <1>1, <2>1 DEF NoHalfTransaction
  <2>3. SUFFICES ASSUME NEW q \in Procs, pc'[q] = "saving"
                 PROVE  Planned(work[q])'
    BY <2>2 DEF PlannedWork
  <2>4. q = p
    BY <1>1, <2>1, <2>3
  <2>5. QED
    BY <2>3, <2>4
<1>6. QED
  BY <1>3, <1>4, <1>5 DEF IndInv

\* Recovery finds no marker, or moves it aside.
LEMMA RecoverSteps ==
  ASSUME IndInv, NEW p \in Procs, NothingToRecover(p) \/ QuarantineMarker(p)
  PROVE  IndInv'
<1>1. TypeOK /\ pc[p] = "recover" /\ pc[p] \in Critical
  BY DEF IndInv, NothingToRecover, QuarantineMarker, Critical
<1>2. CASE NothingToRecover(p)
  <2>1. /\ pc' \in [Procs -> {"idle", "waiting"} \cup Critical]
        /\ pc'[p] = "operate"
        /\ \A q \in Procs : q # p => pc'[q] = pc[q]
    BY <1>1, <1>2, GotoType DEF NothingToRecover, Critical
  <2>2. /\ UNCHANGED <<lock, marker, setAside, dispatches, proofs, backups,
                       req, work, reply, faults>>
        /\ marker = None
    BY <1>2 DEF NothingToRecover, files
  <2>3. TypeOK' /\ Alone(p)
    BY <1>1, <2>1, <2>2 DEF TypeOK, Alone
  <2>4. pc'[p] \in Critical
    BY <2>1 DEF Critical
  <2>5. QED
    BY <1>1, <2>1, <2>2, <2>3, <2>4, OwnerStep
<1>3. CASE QuarantineMarker(p)
  <2>1. /\ pc' \in [Procs -> {"idle", "waiting"} \cup Critical]
        /\ reply' \in [Procs -> {"ok", "error", None}]
        /\ pc'[p] = "release" /\ req'[p] = req[p]
        /\ Alone(p)
    BY <1>1, <1>3, AnswerType DEF QuarantineMarker
  <2>2. /\ UNCHANGED <<lock, dispatches, proofs, backups, req, work>>
        /\ marker # None /\ setAside' = setAside \cup {marker} /\ marker' = None
    BY <1>3 DEF QuarantineMarker
  <2>3. faults' \in 0..MaxFaults
    BY <1>1, <1>3, FaultType DEF QuarantineMarker, TypeOK
  <2>4. TypeOK'
    BY <1>1, <2>1, <2>2, <2>3 DEF TypeOK
  <2>5. pc'[p] \in Critical
    BY <2>1 DEF Critical
  <2>6. QED
    BY <1>1, <2>1, <2>2, <2>4, <2>5, OwnerStep
<1>4. QED
  BY <1>2, <1>3

\* Planning the writes of an operation or of a replay.
LEMMA PlanningStep ==
  ASSUME IndInv, NEW p \in Procs, Planning(p), pc[p] \in Critical
  PROVE  IndInv'
<1>1. CASE Refuse(p) /\ UNCHANGED marker
  BY <1>1, ErrorSteps
<1>2. CASE /\ marker' \in Transaction \cup {None}
           /\ \E w : Plan(p, w) /\ WellPlanned(w, marker')
  <2>1. PICK w : Plan(p, w) /\ WellPlanned(w, marker')
    BY <1>2
  <2>2. TypeOK /\ w \in Work
    BY <2>1 DEF IndInv, WellPlanned
  <2>3. /\ pc' \in [Procs -> {"idle", "waiting"} \cup Critical]
        /\ pc'[p] = "saving"
        /\ \A q \in Procs : q # p => pc'[q] = pc[q]
    BY <2>1, <2>2, GotoType DEF Plan, Critical
  <2>4. /\ work' \in [Procs -> Work]
        /\ work'[p] = w
        /\ \A q \in Procs : q # p => work'[q] = work[q]
    BY <2>1, <2>2 DEF Plan, TypeOK
  <2>5. UNCHANGED <<lock, setAside, dispatches, proofs, backups, req, reply, faults>>
    BY <2>1 DEF Plan
  <2>6. TypeOK' /\ Alone(p)
    BY <1>2, <2>2, <2>3, <2>4, <2>5 DEF TypeOK, Alone
  <2>7. Planned(work[p])'
    BY <2>1, <2>4, <2>5 DEF WellPlanned, Planned, Covered
  <2>8. pc'[p] \in Critical
    BY <2>3 DEF Critical
  <2>9. QED
    BY <2>3, <2>5, <2>6, <2>7, <2>8, OwnerStep
<1>3. QED
  BY <1>1, <1>2 DEF Planning

\* Each write carries out its part of the plan.
LEMMA SaveSteps ==
  ASSUME IndInv, NEW p \in Procs,
         SaveBundle(p) \/ SaveDispatches(p) \/ SaveProofs(p) \/ ClearMarker(p)
  PROVE  IndInv'
<1>1. TypeOK /\ pc[p] = "saving" /\ pc[p] \in Critical
  BY DEF IndInv, SaveBundle, SaveDispatches, SaveProofs, ClearMarker, Critical
<1>2. Planned(work[p])
  BY <1>1 DEF IndInv, PlannedWork
<1>3. work \in [Procs -> Work] /\ work[p] \in Work
  BY <1>1 DEF TypeOK
<1>4. SUFFICES TypeOK' /\ Alone(p) /\ UNCHANGED <<lock, pc, req>> /\ Planned(work[p])'
  BY <1>1, OwnerStep
<1>5. UNCHANGED <<lock, pc, req, reply, faults>>
  BY DEF SaveBundle, SaveDispatches, SaveProofs, ClearMarker
<1>6. PICK file \in Files : Done(p, file)
  BY DEF SaveBundle, SaveDispatches, SaveProofs, ClearMarker, Files
<1>7. /\ work' \in [Procs -> Work]
      /\ \A q \in Procs : q # p => work'[q] = work[q]
      /\ work'[p].readDispatches = work[p].readDispatches
      /\ work'[p].readProofs = work[p].readProofs
      /\ work'[p].dispatches = work[p].dispatches
      /\ work'[p].proofs = work[p].proofs
  BY <1>3, <1>6, DoneType
<1>8. Alone(p)
  BY <1>5, <1>7 DEF Alone
<1>9. CASE SaveBundle(p)
  <2>1. work'[p].left = work[p].left \ {"bundle"}
    BY <1>3, <1>9, DoneType DEF SaveBundle
  <2>2. /\ backups' = backups \cup {Removed(work[p])}
        /\ UNCHANGED <<marker, setAside, dispatches, proofs>>
    BY <1>9 DEF SaveBundle
  <2>3. Removed(work[p]) \in Bundle
    BY <1>3 DEF Removed, Work, Bundle
  <2>4. TypeOK'
    BY <1>1, <1>5, <1>7, <2>2, <2>3 DEF TypeOK
  <2>5. Covered(work[p])'
    <3> DEFINE b == Removed(work[p])
    <3>1. /\ b \in backups'
          /\ b.dispatches = work[p].readDispatches \ work[p].dispatches
          /\ b.proofs = work[p].readProofs \ work[p].proofs
      BY <2>2 DEF Removed
    <3> HIDE DEF b
    <3>2. \A q \in work[p].proofs : q.job \in JobsOf(work[p].proofs)
      BY DEF JobsOf
    <3>3. JobsOf(work[p].proofs)' = JobsOf(work[p].proofs)
      BY <1>7 DEF JobsOf
    <3>4. QED
      BY <1>7, <3>1, <3>2, <3>3 DEF Covered
  <2>6. Planned(work[p])'
    BY <1>2, <1>7, <2>1, <2>2, <2>5 DEF Planned
  <2>7. QED
    BY <1>5, <1>8, <2>4, <2>6
<1>10. CASE SaveDispatches(p)
  <2>1. work'[p].left = work[p].left \ {"dispatches"}
    BY <1>3, <1>10, DoneType DEF SaveDispatches
  <2>2. /\ dispatches' = work[p].dispatches
        /\ UNCHANGED <<marker, setAside, proofs, backups>>
    BY <1>10 DEF SaveDispatches
  <2>3. work[p].dispatches \in SUBSET DispatchRow
    BY <1>3 DEF Work
  <2>4. TypeOK'
    BY <1>1, <1>5, <1>7, <2>2, <2>3 DEF TypeOK
  <2>5. Planned(work[p])'
    BY <1>2, <1>7, <2>1, <2>2 DEF Planned, Covered
  <2>6. QED
    BY <1>5, <1>8, <2>4, <2>5
<1>11. CASE SaveProofs(p)
  <2>1. work'[p].left = work[p].left \ {"proofs"}
    BY <1>3, <1>11, DoneType DEF SaveProofs
  <2>2. /\ proofs' = work[p].proofs
        /\ UNCHANGED <<marker, setAside, dispatches, backups>>
    BY <1>11 DEF SaveProofs
  <2>3. work[p].proofs \in SUBSET ProofRow
    BY <1>3 DEF Work
  <2>4. TypeOK'
    BY <1>1, <1>5, <1>7, <2>2, <2>3 DEF TypeOK
  <2>5. Planned(work[p])'
    BY <1>2, <1>7, <2>1, <2>2 DEF Planned, Covered
  <2>6. QED
    BY <1>5, <1>8, <2>4, <2>5
<1>12. CASE ClearMarker(p)
  <2>1. work'[p].left = work[p].left \ {"marker"}
    BY <1>3, <1>12, DoneType DEF ClearMarker
  <2>2. /\ marker' = None
        /\ UNCHANGED <<setAside, dispatches, proofs, backups>>
    BY <1>12 DEF ClearMarker
  <2>3. TypeOK'
    BY <1>1, <1>5, <1>7, <2>2 DEF TypeOK
  <2>4. Planned(work[p])'
    BY <1>2, <1>7, <2>1, <2>2 DEF Planned, Covered
  <2>5. QED
    BY <1>5, <1>8, <2>3, <2>4
<1>13. QED
  BY <1>9, <1>10, <1>11, <1>12

\* When all is written the process operates or answers.
LEMMA FinishStep ==
  ASSUME IndInv, NEW p \in Procs, Finish(p)
  PROVE  IndInv'
<1>1. TypeOK /\ pc[p] = "saving" /\ pc[p] \in Critical
  BY DEF IndInv, Finish, Critical
<1>2. marker = None
  BY <1>1 DEF IndInv, PlannedWork, Planned, Finish
<1>3. UNCHANGED <<lock, marker, setAside, dispatches, proofs, backups, req, faults>>
  BY DEF Finish, files
<1>4. CASE Answer(p, "ok") /\ UNCHANGED work
  BY <1>1, <1>3, <1>4, AnswerStep DEF TypeOK
<1>5. CASE Goto(p, "operate") /\ work' = [work EXCEPT ![p] = NoWork] /\ UNCHANGED reply
  <2>1. /\ pc' \in [Procs -> {"idle", "waiting"} \cup Critical]
        /\ pc'[p] = "operate"
        /\ \A q \in Procs : q # p => pc'[q] = pc[q]
    BY <1>1, <1>5, GotoType DEF Critical
  <2>2. TypeOK' /\ Alone(p)
    BY <1>1, <1>3, <1>5, <2>1, NoWorkType DEF TypeOK, Alone
  <2>3. pc'[p] \in Critical
    BY <2>1 DEF Critical
  <2>4. QED
    BY <1>1, <1>2, <1>3, <2>1, <2>2, <2>3, OwnerStep
<1>6. QED
  BY <1>4, <1>5 DEF Finish

\* Init establishes the invariant.
LEMMA IndInvInit == Init => IndInv
<1> SUFFICES ASSUME Init PROVE IndInv
  OBVIOUS
<1>1. TypeOK
  BY NoWorkType, BoundAssumption DEF Init, TypeOK
<1>2. Serving /\ LockHeld /\ NoHalfTransaction /\ PlannedWork
  BY FreeAssumption DEF Init, Serving, LockHeld, NoHalfTransaction, PlannedWork, Critical
<1>3. QED
  BY <1>1, <1>2 DEF IndInv

\* Every step, of any process, with any fault, preserves it.
LEMMA IndInvNext == IndInv /\ [Next]_vars => IndInv'
<1> SUFFICES ASSUME IndInv, [Next]_vars PROVE IndInv'
  OBVIOUS
<1>1. ASSUME NEW p \in Procs, SomeCall(p)
      PROVE  IndInv'
  BY <1>1, CallStep DEF SomeCall
<1>2. ASSUME NEW p \in Procs, Step(p)
      PROVE  IndInv'
  <2>1. CASE Acquire(p)
    BY <2>1, AcquireStep
  <2>2. CASE TimeOut(p) \/ Release(p)
    BY <2>2, ReturningSteps
  <2>3. CASE NothingToRecover(p)
    BY <2>3, RecoverSteps
  <2>4. CASE ReplayMarker(p) \/ Operation(p)
    <3>1. (pc[p] = "recover" \/ pc[p] = "operate") /\ Planning(p)
      BY <2>4, ReplayPlans, OperationPlans DEF IndInv
    <3>2. pc[p] \in Critical
      BY <3>1 DEF Critical
    <3>3. QED
      BY <3>1, <3>2, PlanningStep
  <2>5. CASE Save(p)
    BY <2>5, SaveSteps, FinishStep DEF Save
  <2>6. QED
    BY <1>2, <2>1, <2>2, <2>3, <2>4, <2>5 DEF Step
<1>3. ASSUME NEW p \in Procs, Fails(p)
      PROVE  IndInv'
  BY <1>3, ReturningSteps, RecoverSteps, ErrorSteps DEF Fails
<1>4. CASE DeleteStaleLock
  BY <1>4, FreeAssumption
     DEF IndInv, TypeOK, Serving, LockHeld, NoHalfTransaction, PlannedWork, Planned,
         Covered, DeleteStaleLock, files
<1>5. CASE UNCHANGED vars
  BY <1>5
     DEF IndInv, TypeOK, Serving, LockHeld, NoHalfTransaction, PlannedWork, Planned,
         Covered, vars, files
<1>6. QED
  BY <1>1, <1>2, <1>3, <1>4, <1>5 DEF Next

LEMMA Invariance == Spec => []IndInv
  BY IndInvInit, IndInvNext, PTL DEF Spec

-----------------------------------------------------------------------------
(* What follows for every behaviour.                                        *)

\* The variables always hold what their comments say.
THEOREM TypeCorrect == Spec => []TypeOK
<1>1. IndInv => TypeOK
  BY DEF IndInv
<1>2. QED
  BY <1>1, Invariance, PTL

\* with_lock is mutual exclusion, over crashes and failures of the lock file.
THEOREM MutualExclusion == Spec => []LockHeld
<1>1. IndInv => LockHeld
  BY DEF IndInv
<1>2. QED
  BY <1>1, Invariance, PTL

\* No ledger is overwritten that has changed since the writer read it.
THEOREM NoLostUpdate == Spec => []FreshCopies
<1>1. IndInv => FreshCopies
  BY DEF IndInv, PlannedWork, Planned, FreshCopies
<1>2. QED
  BY <1>1, Invariance, PTL

\* No operation ever works on ledgers with half of a proof dispatch in them.
THEOREM Atomicity == Spec => []NoHalfTransaction
<1>1. IndInv => NoHalfTransaction
  BY DEF IndInv
<1>2. QED
  BY <1>1, Invariance, PTL

-----------------------------------------------------------------------------
(* What no step may do.                                                     *)

\* Only three kinds of steps touch the ledgers or a marker that is on disk.
LEMMA WhatChanges ==
  ASSUME IndInv, [Next]_vars
  PROVE  \/ UNCHANGED <<dispatches, proofs>> /\ (marker = None \/ marker' = marker)
         \/ \E p \in Procs : SaveDispatches(p) \/ SaveProofs(p) \/ ClearMarker(p)
                               \/ QuarantineMarker(p)
<1> DEFINE Quiet == UNCHANGED <<dispatches, proofs>> /\ (marker = None \/ marker' = marker)
<1>1. ASSUME NEW p \in Procs, SomeCall(p)
      PROVE  Quiet
  BY <1>1 DEF SomeCall, Call, files
<1>2. ASSUME NEW p \in Procs, Operation(p)
      PROVE  Quiet
  <2>1. pc[p] = "operate" /\ Planning(p)
    BY <1>2, OperationPlans DEF IndInv
  <2>2. marker = None
    BY <2>1 DEF IndInv, NoHalfTransaction
  <2>3. UNCHANGED <<dispatches, proofs>>
    BY <2>1 DEF Planning, Plan, Refuse, files
  <2>4. QED
    BY <2>2, <2>3
<1>3. ASSUME NEW p \in Procs,
             \/ Acquire(p) \/ TimeOut(p) \/ NothingToRecover(p) \/ ReplayMarker(p)
             \/ SaveBundle(p) \/ Finish(p) \/ Release(p)
      PROVE  Quiet
  BY <1>3 DEF Acquire, TimeOut, NothingToRecover, ReplayMarker, SaveBundle, Finish,
              Release, files
<1>4. ASSUME NEW p \in Procs,
             LockInitFails(p) \/ IOError(p) \/ ReleaseFails(p) \/ Crash(p)
      PROVE  Quiet
  BY <1>4 DEF LockInitFails, IOError, ReleaseFails, Crash, files
<1>5. CASE DeleteStaleLock \/ UNCHANGED vars
  BY <1>5 DEF DeleteStaleLock, vars, files
<1>6. QED
  BY <1>1, <1>2, <1>3, <1>4, <1>5 DEF Next, Step, Save, Fails

\* A process that saves has its plan, and everything it wrote is on disk.
LEMMA SavingPlanned ==
  ASSUME IndInv, NEW p \in Procs, pc[p] = "saving"
  PROVE  Planned(work[p])
  BY DEF IndInv, PlannedWork

\* No step takes a row out of a ledger that is not in a bundle on disk.
LEMMA RowsCovered ==
  ASSUME IndInv, [Next]_vars
  PROVE  /\ \A d \in dispatches \ dispatches' : \E b \in backups : d \in b.dispatches
         /\ \A q \in proofs : \/ q.job \in JobsOf(proofs')
                              \/ \E b \in backups : q \in b.proofs
<1>1. \A q \in proofs : q.job \in JobsOf(proofs)
  BY DEF JobsOf
<1>2. CASE UNCHANGED <<dispatches, proofs>>
  BY <1>1, <1>2
<1>3. ASSUME NEW p \in Procs, SaveDispatches(p)
      PROVE  /\ \A d \in dispatches \ dispatches' : \E b \in backups : d \in b.dispatches
             /\ proofs' = proofs
  BY <1>3, SavingPlanned DEF SaveDispatches, Planned, Covered
<1>4. ASSUME NEW p \in Procs, SaveProofs(p)
      PROVE  /\ dispatches' = dispatches
             /\ \A q \in proofs : \/ q.job \in JobsOf(proofs')
                                  \/ \E b \in backups : q \in b.proofs
  <2>1. proofs = work[p].readProofs /\ Covered(work[p]) /\ proofs' = work[p].proofs
    BY <1>4, SavingPlanned DEF SaveProofs, Planned
  <2>2. JobsOf(proofs') = JobsOf(work[p].proofs)
    BY <2>1
  <2>3. dispatches' = dispatches
    BY <1>4 DEF SaveProofs
  <2>4. QED
    BY <2>1, <2>2, <2>3 DEF Covered
<1>5. ASSUME NEW p \in Procs, ClearMarker(p) \/ QuarantineMarker(p)
      PROVE  UNCHANGED <<dispatches, proofs>>
  BY <1>5 DEF ClearMarker, QuarantineMarker
<1>6. CASE proofs' = proofs /\ \E p \in Procs : SaveDispatches(p)
  BY <1>1, <1>3, <1>6
<1>7. CASE \E p \in Procs : SaveProofs(p)
  BY <1>4, <1>7
<1>8. QED
  BY <1>2, <1>3, <1>5, <1>6, <1>7, WhatChanges

\* No row leaves a ledger before a bundle on disk holds it.
THEOREM NothingIsLost == Spec => RowsNeverLost
<1>1. IndInv /\ [Next]_vars =>
        [/\ \A d \in dispatches \ dispatches' : \E b \in backups : d \in b.dispatches
         /\ \A p \in proofs : \/ p.job \in JobsOf(proofs')
                              \/ \E b \in backups : p \in b.proofs]_vars
  BY RowsCovered
<1>2. QED
  BY <1>1, Invariance, PTL DEF Spec, RowsNeverLost

\* A marker goes away only with both its rows in the ledgers, or set aside.
LEMMA MarkerStep ==
  ASSUME IndInv, [Next]_vars, marker # None, marker' # marker
  PROVE  \/ marker.dispatch \in dispatches /\ marker.proof \in proofs
         \/ marker \in setAside'
<1>1. ASSUME NEW p \in Procs, SaveDispatches(p) \/ SaveProofs(p)
      PROVE  marker' = marker
  BY <1>1 DEF SaveDispatches, SaveProofs
<1>2. ASSUME NEW p \in Procs, ClearMarker(p)
      PROVE  marker.dispatch \in dispatches /\ marker.proof \in proofs
  BY <1>2, SavingPlanned DEF ClearMarker, Planned
<1>3. ASSUME NEW p \in Procs, QuarantineMarker(p)
      PROVE  marker \in setAside'
  BY <1>3 DEF QuarantineMarker
<1>4. QED
  BY <1>1, <1>2, <1>3, WhatChanges

\* Once its marker is on disk a proof dispatch is applied or set aside.
THEOREM MarkerIsKept == Spec => MarkerNeverForgotten
<1>1. IndInv /\ [Next]_vars =>
        [marker # None /\ marker' # marker =>
           \/ marker.dispatch \in dispatches /\ marker.proof \in proofs
           \/ marker \in setAside']_vars
  BY MarkerStep
<1>2. QED
  BY <1>1, Invariance, PTL DEF Spec, MarkerNeverForgotten
=============================================================================
