------------------------ MODULE AuditPromisesProofs ------------------------
(***************************************************************************)
(* Proofs of what the audit store promises its callers, for any processes, *)
(* calls and bounds: that every proof keeps its dispatch, that an answer   *)
(* "ok" is true of the files, that a trim keeps what depends on each other *)
(* and can be undone, and that the store implements AuditLedger.           *)
(***************************************************************************)
EXTENDS AuditStoreProofs, AuditViews, FiniteSetTheorems

-----------------------------------------------------------------------------
(* The inductive invariant: what each plan means, over that of               *)
(* AuditStoreProofs.                                                         *)

\* The dispatches in the ledger or in a bundle; none ever leaves them.
Archive == dispatches \cup UNION {b.dispatches : b \in backups}

HasDispatch(q, ds) == \E d \in ds : Backs(d, q)

\* What is on disk: one record for each proof job, and a dispatch for each
\* proof, for those in the bundles and for the one in the marker.
DiskHolds ==
  /\ OneRowPerJob(proofs)
  /\ \A q \in proofs : HasDispatch(q, Archive)
  /\ \A b \in backups : IsFiniteSet(b.dispatches) /\ \A q \in b.proofs : HasDispatch(q, Archive)
  /\ IsFiniteSet(dispatches)
  /\ marker # None => Paired(marker)

\* A call that runs is one that may be made.
MayRun(r) ==
  /\ r \in Requests \/ (r.op = "restore" /\ r.bundle \in backups)
  /\ r.op = "trim" => ValidRetention(r)

CallsHold == \A p \in Procs : req[p] # Idle => MayRun(req[p])

\* What applying the transaction t makes of the ledgers that w read.
Applies(t, w) ==
  /\ w.dispatches = w.readDispatches \cup {t.dispatch}
  /\ w.proofs = Upsert(w.readProofs, t.proof)

\* A trim keeps rows of the ledgers, with everything they depend on, and of the
\* dispatches at least as many of the newest as it was asked to; with an age
\* limit, every dispatch it read has a time.
Trims(r, w) ==
  /\ w.dispatches \subseteq w.readDispatches
  /\ w.proofs \subseteq w.readProofs
  /\ ProofDispatches(w.readDispatches, w.proofs) \subseteq w.dispatches
  /\ ClosedUnderLineage(w.dispatches, w.readDispatches)
  /\ ~r.dryRun /\ r.scope # "proof" =>
       /\ Rankable(w.readDispatches, DispatchTimes(w.readDispatches), Seconds, r)
       /\ \E ranked \in Kept(w.readDispatches, DispatchTimes(w.readDispatches), Seconds, r) :
            ranked \subseteq w.dispatches

\* What the call r makes of the ledgers that w read.
Meant(r, w) ==
  /\ r.op \in {"read", "probe"} =>
       w.dispatches = w.readDispatches /\ w.proofs = w.readProofs
  /\ r.op = "record" =>
       w.dispatches = w.readDispatches \cup {r.dispatch} /\ w.proofs = w.readProofs
  /\ r.op = "proof" => Applies(r, w)
  /\ r.op = "review" =>
       /\ Reviewable(w.readProofs, r.job)
       /\ w.dispatches = w.readDispatches
       /\ w.proofs = Reviewed(w.readProofs, r.job, r.status, r.at)
  /\ r.op = "trim" => Trims(r, w)
  /\ r.op = "restore" =>
       /\ Restorable(w.readDispatches, w.readProofs, r.bundle)
       /\ w.dispatches = w.readDispatches \cup r.bundle.dispatches
       /\ w.proofs = w.readProofs \cup r.bundle.proofs
  /\ r.op = "seed" =>
       /\ Seedable(w.readDispatches, w.readProofs, r.rows)
       /\ w.dispatches = w.readDispatches \cup {row.dispatch : row \in r.rows}
       /\ w.proofs = w.readProofs \cup {row.proof : row \in r.rows}

\* What every plan keeps of what the disk holds.
Sound(w) ==
  /\ OneRowPerJob(w.readProofs) /\ OneRowPerJob(w.proofs)
  /\ IsFiniteSet(w.readDispatches) /\ IsFiniteSet(w.dispatches)
  /\ \A q \in w.proofs : HasDispatch(q, w.dispatches \cup Archive)

\* The plan of a call, or of a replay that comes before it: the marker is the
\* last file to go, and only a trim has a bundle to write, before all else.
Meaning(r, w) ==
  /\ Sound(w)
  /\ w.then = "release" => Meant(r, w)
  /\ "marker" \in w.left => /\ Applies(marker, w)
                            /\ w.then = "release" => r.op = "proof"
  /\ "marker" \notin w.left => w.left = {} \/ (w.then = "release" /\ r.op # "proof")
  /\ "bundle" \in w.left => /\ w.then = "release" /\ r.op = "trim"
                            /\ dispatches = w.readDispatches /\ proofs = w.readProofs
  /\ "dispatches" \in w.left => proofs = w.readProofs
  /\ w.then = "release" /\ r.op = "trim" /\ "bundle" \notin w.left =>
       \/ Removed(w) \in backups
       \/ w.dispatches = w.readDispatches /\ w.proofs = w.readProofs

PlansHold == \A p \in Procs : pc[p] = "saving" => Meaning(req[p], work[p])

\* A call that answered "ok" has carried out its plan.
Delivered(r, w) ==
  /\ marker = None
  /\ dispatches = w.dispatches /\ proofs = w.proofs
  /\ w.left = {} /\ w.then = "release"
  /\ Meaning(r, w)

AnswersHold ==
  \A p \in Procs : pc[p] = "release" /\ reply[p] = "ok" => Delivered(req[p], work[p])

Promises == DiskHolds /\ CallsHold /\ PlansHold /\ AnswersHold

-----------------------------------------------------------------------------
(* Every operation plans what its call means.                               *)

\* The plan w of the call r, made of the ledgers as they are, m being the
\* marker on disk from now on.
Means(r, w, m) ==
  /\ w.readDispatches = dispatches /\ w.readProofs = proofs
  /\ OneRowPerJob(w.proofs)
  /\ IsFiniteSet(w.dispatches)
  /\ \A q \in w.proofs : HasDispatch(q, w.dispatches \cup Archive)
  /\ w.then = "release" => Meant(r, w)
  /\ "marker" \in w.left => /\ m # None /\ Paired(m) /\ Applies(m, w)
                            /\ w.then = "release" => r.op = "proof"
  /\ "marker" \notin w.left => w.left = {} \/ (w.then = "release" /\ r.op # "proof")
  /\ "bundle" \in w.left => w.then = "release" /\ r.op = "trim"
  /\ w.then = "release" /\ r.op = "trim" /\ "bundle" \notin w.left =>
       w.dispatches = dispatches /\ w.proofs = proofs

\* A call that operates is one of the requests, or restores a bundle on disk.
LEMMA OperatingRequest ==
  ASSUME TypeOK, Serving, CallsHold, NEW p \in Procs, NEW op, Operating(p, op)
  PROVE  /\ req[p].op = op /\ req[p] \in Calls
         /\ op # "restore" => req[p] \in Requests
         /\ op = "restore" => req[p].bundle \in backups
<1>1. req[p].op = op /\ req[p] \in Calls /\ req[p] # Idle
  BY OperatingCall, RequestsAssumption
<1>2. QED
  BY <1>1, RequestsAssumption DEF CallsHold, MayRun

\* A proof that has its dispatch has it among more dispatches.
LEMMA MoreDispatches ==
  ASSUME NEW q, NEW some, NEW more, HasDispatch(q, some), some \subseteq more
  PROVE  HasDispatch(q, more)
  BY DEF HasDispatch

\* Only the job of a proof counts.
LEMMA SameBacking ==
  ASSUME NEW p, NEW q, q.job = p.job, NEW ds, HasDispatch(p, ds)
  PROVE  HasDispatch(q, ds)
  BY DEF HasDispatch, Backs

\* The fields of writes that are released when they are done.
LEMMA WritesFields ==
  ASSUME NEW ds, NEW ps, NEW left
  PROVE  LET w == Writes(ds, ps, left) IN
         /\ w.readDispatches = dispatches /\ w.readProofs = proofs
         /\ w.dispatches = ds /\ w.proofs = ps /\ w.left = left /\ w.then = "release"
  BY DEF Writes, WorkOf

\* Writes of the ledgers alone, of a call that is neither a proof nor a trim.
LEMMA WritesMean ==
  ASSUME NEW r, r.op \notin {"proof", "trim"},
         NEW ds, NEW ps, NEW left \in SUBSET {"dispatches", "proofs"},
         OneRowPerJob(ps), IsFiniteSet(ds),
         \A q \in ps : HasDispatch(q, ds \cup Archive),
         Meant(r, Writes(ds, ps, left))
  PROVE  Means(r, Writes(ds, ps, left), marker)
<1> DEFINE w == Writes(ds, ps, left)
<1>1. /\ w.readDispatches = dispatches /\ w.readProofs = proofs
      /\ w.dispatches = ds /\ w.proofs = ps /\ w.left = left /\ w.then = "release"
  BY WritesFields
<1>2. Meant(r, w)
  OBVIOUS
<1> HIDE DEF w
<1>3. "marker" \notin left /\ "bundle" \notin left
  OBVIOUS
<1>4. Means(r, w, marker)
  BY <1>1, <1>2, <1>3 DEF Means
<1>5. QED
  BY <1>4 DEF w

\* The ledgers as they are have nothing to hide.
LEMMA AsTheyAre ==
  ASSUME DiskHolds
  PROVE  /\ OneRowPerJob(proofs) /\ IsFiniteSet(dispatches)
         /\ \A ds : \A q \in proofs : HasDispatch(q, ds \cup Archive)
<1>1. \A q \in proofs : HasDispatch(q, Archive)
  BY DEF DiskHolds
<1>2. \A ds : \A q \in proofs : HasDispatch(q, ds \cup Archive)
  BY <1>1, MoreDispatches
<1>3. QED
  BY <1>2 DEF DiskHolds

\* search, snapshot and export; the writability probes.
LEMMA ReadsMean ==
  ASSUME DiskHolds, NEW r, r.op \in {"read", "probe"},
         NEW left \in SUBSET {"dispatches", "proofs"}
  PROVE  Means(r, Writes(dispatches, proofs, left), marker)
<1>1. Meant(r, Writes(dispatches, proofs, left))
  BY WritesFields DEF Meant
<1>2. QED
  BY <1>1, AsTheyAre, WritesMean

\* record_dispatch
LEMMA RecordMeans ==
  ASSUME DiskHolds, NEW r, r.op = "record"
  PROVE  LET ds == dispatches \cup {r.dispatch} IN
         Means(r, Writes(ds, proofs, Changed(ds, proofs)), marker)
<1> DEFINE ds == dispatches \cup {r.dispatch}
           left == Changed(ds, proofs)
<1>1. left \in SUBSET {"dispatches", "proofs"}
  BY DEF Changed
<1>2. IsFiniteSet(ds)
  BY AsTheyAre, FS_AddElement
<1>3. Meant(r, Writes(ds, proofs, left))
  BY WritesFields DEF Meant
<1> HIDE DEF ds, left
<1>4. Means(r, Writes(ds, proofs, left), marker)
  BY <1>1, <1>2, <1>3, AsTheyAre, WritesMean
<1>5. QED
  BY <1>4 DEF ds, left

\* review_proof
LEMMA ReviewMeans ==
  ASSUME TypeOK, DiskHolds, NEW r, r.op = "review", Reviewable(proofs, r.job)
  PROVE  Means(r, Writes(dispatches, Reviewed(proofs, r.job, r.status, r.at), {"proofs"}), marker)
<1> DEFINE ps == Reviewed(proofs, r.job, r.status, r.at)
<1>1. proofs \in SUBSET ProofRow
  BY DEF TypeOK
<1>2. OneRowPerJob(ps) /\ \A q \in ps : \E p \in proofs : q.job = p.job /\ q.lineage = p.lineage
  BY <1>1, ReviewedUnique, AsTheyAre
<1>3. Meant(r, Writes(dispatches, ps, {"proofs"}))
  BY WritesFields DEF Meant
<1> HIDE DEF ps
<1>4. \A q \in ps : HasDispatch(q, dispatches \cup Archive)
  BY <1>2, AsTheyAre, SameBacking
<1>5. Means(r, Writes(dispatches, ps, {"proofs"}), marker)
  BY <1>2, <1>3, <1>4, AsTheyAre, WritesMean
<1>6. QED
  BY <1>5 DEF ps

\* restore: a bundle brings its proofs' dispatches, or leaves them in bundles.
LEMMA RestoreMeans ==
  ASSUME DiskHolds, NEW r, r.op = "restore", r.bundle \in backups,
         Restorable(dispatches, proofs, r.bundle)
  PROVE  Means(r, Writes(dispatches \cup r.bundle.dispatches, proofs \cup r.bundle.proofs,
                         {"dispatches", "proofs"}), marker)
<1> DEFINE b  == r.bundle
           ds == dispatches \cup b.dispatches
           ps == proofs \cup b.proofs
<1>1. OneRowPerJob(ps)
  <2>1. OneRowPerJob(proofs) /\ OneRowPerJob(b.proofs)
    BY AsTheyAre DEF Restorable
  <2>2. \A p \in proofs, q \in b.proofs : p.job # q.job
    BY DEF Restorable, JobsOf
  <2>3. QED
    BY <2>1, <2>2 DEF OneRowPerJob
<1>2. IsFiniteSet(ds)
  <2>1. IsFiniteSet(b.dispatches)
    BY DEF DiskHolds
  <2>2. QED
    BY <2>1, AsTheyAre, FS_Union
<1>3. \A q \in ps : HasDispatch(q, ds \cup Archive)
  <2>1. \A q \in b.proofs : HasDispatch(q, Archive)
    BY DEF DiskHolds
  <2>2. \A q \in b.proofs : HasDispatch(q, ds \cup Archive)
    BY <2>1, MoreDispatches
  <2>3. QED
    BY <2>2, AsTheyAre
<1>4. Meant(r, Writes(ds, ps, {"dispatches", "proofs"}))
  BY WritesFields DEF Meant
<1> HIDE DEF ds, ps
<1>5. Means(r, Writes(ds, ps, {"dispatches", "proofs"}), marker)
  BY <1>1, <1>2, <1>3, <1>4, WritesMean
<1>6. QED
  BY <1>5 DEF ds, ps

\* The dispatches of a list of rows are finitely many.
LEMMA FinitelyManyDispatches ==
  ASSUME NEW rows, IsFiniteSet(rows)
  PROVE  IsFiniteSet({row.dispatch : row \in rows})
<1> DEFINE T == {row.dispatch : row \in rows}
           f == [row \in rows |-> row.dispatch]
<1>1. f \in Surjection(rows, T)
  BY DEF Surjection
<1>2. QED
  BY <1>1, FS_Surjection

\* seed_legacy_proofs: job ids and lineages that are new, each with its dispatch.
LEMMA SeedMeans ==
  ASSUME DiskHolds, NEW r \in Requests, r.op = "seed", Seedable(dispatches, proofs, r.rows)
  PROVE  Means(r, Writes(dispatches \cup {row.dispatch : row \in r.rows},
                         proofs \cup {row.proof : row \in r.rows},
                         {"dispatches", "proofs"}), marker)
<1> DEFINE ds == dispatches \cup {row.dispatch : row \in r.rows}
           ps == proofs \cup {row.proof : row \in r.rows}
<1>1. IsFiniteSet(r.rows) /\ \A row \in r.rows : Paired(row)
  BY RecordsAssumption
<1>2. OneRowPerJob(ps)
  <2>1. OneRowPerJob(proofs)
    BY AsTheyAre
  <2>2. \A row \in r.rows, p \in proofs : row.proof.job # p.job
    BY DEF Seedable
  <2>3. \A row \in r.rows, other \in r.rows :
          row.proof.job = other.proof.job => row.proof = other.proof
    BY DEF Seedable
  <2>4. QED
    BY <2>1, <2>2, <2>3 DEF OneRowPerJob
<1>3. IsFiniteSet(ds)
  BY <1>1, AsTheyAre, FinitelyManyDispatches, FS_Union
<1>4. \A q \in ps : HasDispatch(q, ds \cup Archive)
  <2>1. ASSUME NEW row \in r.rows
        PROVE  HasDispatch(row.proof, ds \cup Archive)
    <3>1. Backs(row.dispatch, row.proof)
      BY <1>1 DEF Paired
    <3>2. row.dispatch \in ds \cup Archive
      OBVIOUS
    <3>3. QED
      BY <3>1, <3>2 DEF HasDispatch
  <2>2. QED
    BY <2>1, AsTheyAre
<1>5. Meant(r, Writes(ds, ps, {"dispatches", "proofs"}))
  BY WritesFields DEF Meant
<1> HIDE DEF ds, ps
<1>6. Means(r, Writes(ds, ps, {"dispatches", "proofs"}), marker)
  BY <1>2, <1>3, <1>4, <1>5, WritesMean
<1>7. QED
  BY <1>6 DEF ds, ps

\* record_proof_dispatch_transaction, and a replay of what it left on disk.
LEMMA ApplyMeans ==
  ASSUME TypeOK, DiskHolds, NEW t \in Transaction, Paired(t), NEW r,
         NEW then \in {"operate", "release"},
         then = "release" => /\ r.op = "proof"
                             /\ r.dispatch = t.dispatch /\ r.proof = t.proof
  PROVE  Means(r, ApplyWrites(t, then), t)
<1> DEFINE ds   == dispatches \cup {t.dispatch}
           ps   == Upsert(proofs, t.proof)
           left == Changed(ds, ps) \cup {"marker"}
           w    == WorkOf(ds, ps, left, then)
<1>1. /\ w.readDispatches = dispatches /\ w.readProofs = proofs
      /\ w.dispatches = ds /\ w.proofs = ps /\ w.left = left /\ w.then = then
  BY DEF WorkOf
<1>2. /\ t.proof \in ProofRow /\ proofs \in SUBSET ProofRow
      /\ t # None
  BY NoMarkerAssumption DEF Transaction, TypeOK
<1>3. OneRowPerJob(ps)
  BY <1>2, AsTheyAre, UpsertUnique
<1>4. IsFiniteSet(ds)
  BY AsTheyAre, FS_AddElement
<1>5. \A q \in ps : HasDispatch(q, ds \cup Archive)
  <2>1. SUFFICES ASSUME NEW q \in ps PROVE HasDispatch(q, ds \cup Archive)
    OBVIOUS
  <2>2. CASE q = t.proof
    BY <2>2 DEF Paired, HasDispatch
  <2>3. CASE \E p \in proofs : q.job = p.job /\ q.lineage = p.lineage
    BY <2>3, AsTheyAre, SameBacking
  <2>4. QED
    BY <1>2, <2>1, <2>2, <2>3, UpsertRows
<1>6. "marker" \in left /\ "bundle" \notin left
  BY DEF Changed
<1>7. Applies(t, w)
  BY <1>1 DEF Applies
<1>8. then = "release" => Meant(r, w)
  <2>1. SUFFICES ASSUME then = "release" PROVE Meant(r, w)
    OBVIOUS
  <2>2. r.op = "proof" /\ r.dispatch = t.dispatch /\ r.proof = t.proof
    BY <2>1
  <2> HIDE DEF w
  <2>3. Applies(r, w)
    BY <1>7, <2>2 DEF Applies
  <2>4. QED
    BY <2>2, <2>3 DEF Meant
<1> HIDE DEF w, left, ds, ps
<1>9. Means(r, w, t)
  BY <1>1, <1>2, <1>3, <1>4, <1>5, <1>6, <1>7, <1>8 DEF Means
<1>10. QED
  BY <1>9 DEF w, left, ds, ps, ApplyWrites

\* A part of a ledger has one record for each proof job if the ledger has.
LEMMA PartUnique ==
  ASSUME NEW all, NEW part, OneRowPerJob(all), part \subseteq all
  PROVE  OneRowPerJob(part)
  BY DEF OneRowPerJob

\* What a trim keeps, with its scope: everything that the rest depends on.
LEMMA TrimKeeps ==
  ASSUME DiskHolds, NEW r,
         NEW keptProofs \in IF r.scope = "dispatch" THEN {proofs}
                            ELSE Kept(proofs, ProofTimes(proofs), Seconds, r),
         NEW ranked \in IF r.scope = "proof" THEN {dispatches}
                        ELSE Kept(dispatches, DispatchTimes(dispatches), Seconds, r)
  PROVE  LET kept == WithRequired(dispatches, keptProofs, ranked)
             ds   == IF r.scope = "proof" THEN dispatches ELSE kept
         IN  /\ ds \subseteq dispatches /\ keptProofs \subseteq proofs
             /\ ProofDispatches(dispatches, keptProofs) \subseteq ds
             /\ ClosedUnderLineage(ds, dispatches)
             /\ r.scope # "proof" =>
                  \E top \in Kept(dispatches, DispatchTimes(dispatches), Seconds, r) : top \subseteq ds
<1> DEFINE kept == WithRequired(dispatches, keptProofs, ranked)
           ds   == IF r.scope = "proof" THEN dispatches ELSE kept
<1>1. keptProofs \subseteq proofs /\ ranked \in SUBSET dispatches
  BY KeptType
<1>2. /\ kept \in SUBSET dispatches
      /\ ranked \cup ProofDispatches(dispatches, keptProofs) \subseteq kept
      /\ ClosedUnderLineage(kept, dispatches)
  BY <1>1, WithRequiredCloses
<1>3. /\ ProofDispatches(dispatches, keptProofs) \subseteq dispatches
      /\ ClosedUnderLineage(dispatches, dispatches)
  BY DEF ProofDispatches, ClosedUnderLineage
<1> HIDE DEF kept
<1>4. CASE r.scope = "proof"
  BY <1>1, <1>3, <1>4 DEF kept
<1>5. CASE r.scope # "proof"
  BY <1>1, <1>2, <1>5 DEF kept
<1>6. QED
  BY <1>4, <1>5

\* trim
LEMMA TrimMeans ==
  ASSUME TypeOK, DiskHolds, NEW p \in Procs, Trim(p)
  PROVE  \E w : Plan(p, w) /\ Means(req[p], w, marker)
<1> DEFINE r == req[p]
<1>1. PICK keptProofs \in IF r.scope = "dispatch" THEN {proofs}
                           ELSE Kept(proofs, ProofTimes(proofs), Seconds, r),
           ranked \in IF r.scope = "proof" THEN {dispatches}
                       ELSE Kept(dispatches, DispatchTimes(dispatches), Seconds, r) :
        LET kept == WithRequired(dispatches, keptProofs, ranked)
            ds   == IF r.scope = "proof" THEN dispatches ELSE kept
        IN  Plan(p, IF r.dryRun THEN Writes(dispatches, proofs, {})
                    ELSE Writes(ds, keptProofs,
                           (IF Changed(ds, keptProofs) = {} THEN {} ELSE {"bundle"})
                           \cup (IF r.scope = "proof" THEN {} ELSE {"dispatches"})
                           \cup (IF r.scope = "dispatch" THEN {} ELSE {"proofs"})))
  BY DEF Trim
<1> DEFINE kept == WithRequired(dispatches, keptProofs, ranked)
           ds   == IF r.scope = "proof" THEN dispatches ELSE kept
           left == (IF Changed(ds, keptProofs) = {} THEN {} ELSE {"bundle"})
                     \cup (IF r.scope = "proof" THEN {} ELSE {"dispatches"})
                     \cup (IF r.scope = "dispatch" THEN {} ELSE {"proofs"})
           w    == IF r.dryRun THEN Writes(dispatches, proofs, {})
                   ELSE Writes(ds, keptProofs, left)
<1>2. Plan(p, w) /\ r.op = "trim"
  BY <1>1 DEF Trim, Operating
<1>3. /\ ds \subseteq dispatches /\ keptProofs \subseteq proofs
      /\ ProofDispatches(dispatches, keptProofs) \subseteq ds
      /\ ClosedUnderLineage(ds, dispatches)
      /\ r.scope # "proof" =>
           \E top \in Kept(dispatches, DispatchTimes(dispatches), Seconds, r) : top \subseteq ds
  BY TrimKeeps
<1>4. /\ "marker" \notin left
      /\ "bundle" \notin left => Changed(ds, keptProofs) = {}
      /\ Changed(ds, keptProofs) = {} => ds = dispatches /\ keptProofs = proofs
  BY DEF Changed
<1> HIDE DEF ds, left
<1>5. w.readDispatches = dispatches /\ w.readProofs = proofs /\ w.then = "release"
  BY WritesFields
<1>6. /\ w.dispatches = IF r.dryRun THEN dispatches ELSE ds
      /\ w.proofs = IF r.dryRun THEN proofs ELSE keptProofs
      /\ w.left = IF r.dryRun THEN {} ELSE left
  BY WritesFields
<1> HIDE DEF w
<1>7. /\ ProofDispatches(dispatches, proofs) \subseteq dispatches
      /\ ClosedUnderLineage(dispatches, dispatches)
  BY DEF ProofDispatches, ClosedUnderLineage
<1>8. Trims(r, w)
  <2>1. r.scope # "proof" => Rankable(dispatches, DispatchTimes(dispatches), Seconds, r)
    BY DEF Trim, CanRank
  <2>2. QED
    BY <1>3, <1>5, <1>6, <1>7, <2>1 DEF Trims
<1>9. w.dispatches \in SUBSET dispatches /\ w.proofs \subseteq proofs
  BY <1>3, <1>6
<1>10. OneRowPerJob(w.proofs) /\ IsFiniteSet(w.dispatches)
  BY <1>9, AsTheyAre, PartUnique, FS_Subset
<1>11. \A q \in w.proofs : HasDispatch(q, w.dispatches \cup Archive)
  BY <1>9, AsTheyAre
<1>12. Meant(r, w)
  BY <1>2, <1>8 DEF Meant
<1>13. /\ "marker" \notin w.left
       /\ "bundle" \notin w.left => w.dispatches = dispatches /\ w.proofs = proofs
  BY <1>4, <1>6
<1>14. Means(r, w, marker)
  BY <1>2, <1>5, <1>10, <1>11, <1>12, <1>13 DEF Means
<1>15. QED
  BY <1>2, <1>14

\* Operations and replays refuse, or plan what their call means.
LEMMA OperationMeans ==
  ASSUME IndInv, DiskHolds, CallsHold, NEW p \in Procs, Operation(p) \/ ReplayMarker(p)
  PROVE  \/ Refuse(p) /\ UNCHANGED marker
         \/ \E w : Plan(p, w) /\ Means(req[p], w, marker')
<1> DEFINE r == req[p]
           Goal == \/ Refuse(p) /\ UNCHANGED marker
                   \/ \E w : Plan(p, w) /\ Means(r, w, marker')
<1>1. TypeOK /\ Serving
  BY DEF IndInv
<1>2. ASSUME UNCHANGED marker, NEW w, Plan(p, w), Means(r, w, marker)
      PROVE  Goal
  <2>1. Means(r, w, marker')
    BY <1>2 DEF Means
  <2>2. QED
    BY <1>2, <2>1
<1> HIDE DEF Goal
<1>3. CASE ReadLedgers(p)
  <2>1. r.op = "read"
    BY <1>3 DEF ReadLedgers, Operating
  <2>2. Means(r, Writes(dispatches, proofs, {}), marker)
    BY <2>1, ReadsMean
  <2>3. QED
    BY <1>2, <1>3, <2>2 DEF ReadLedgers
<1>4. CASE ProbeLedgers(p)
  <2> DEFINE left == {"dispatches"} \cup IF r.both THEN {"proofs"} ELSE {}
  <2>1. r.op = "probe"
    BY <1>4 DEF ProbeLedgers, Operating
  <2>2. left \in SUBSET {"dispatches", "proofs"}
    OBVIOUS
  <2>3. Plan(p, Writes(dispatches, proofs, left)) /\ UNCHANGED marker
    BY <1>4 DEF ProbeLedgers
  <2> HIDE DEF left
  <2>4. Means(r, Writes(dispatches, proofs, left), marker)
    BY <2>1, <2>2, ReadsMean
  <2>5. QED
    BY <1>2, <2>3, <2>4
<1>5. CASE RecordDispatch(p)
  <2> DEFINE ds == dispatches \cup {r.dispatch}
  <2>1. r.op = "record" /\ UNCHANGED marker /\ Plan(p, Writes(ds, proofs, Changed(ds, proofs)))
    BY <1>5 DEF RecordDispatch, Operating
  <2>2. Means(r, Writes(ds, proofs, Changed(ds, proofs)), marker)
    BY <2>1, RecordMeans
  <2>3. QED
    BY <1>2, <2>1, <2>2
<1>6. CASE CommitProof(p)
  <2> DEFINE t == [dispatch |-> r.dispatch, proof |-> r.proof]
  <2>1. Operating(p, "proof") /\ marker' = t /\ Plan(p, ApplyWrites(t, "release"))
    BY <1>6 DEF CommitProof
  <2>2. r.op = "proof" /\ r \in Requests /\ r \in Calls
    BY <1>1, <2>1, OperatingRequest
  <2>3. r.dispatch \in DispatchRow /\ r.proof \in ProofRow
    BY <2>2, CallFields
  <2>4. t \in Transaction /\ t.dispatch = r.dispatch /\ t.proof = r.proof
    BY <2>3 DEF Transaction
  <2>5. Paired(t)
    BY <2>2, RecordsAssumption DEF Paired
  <2> HIDE DEF t
  <2>6. Means(r, ApplyWrites(t, "release"), t)
    BY <1>1, <2>2, <2>4, <2>5, ApplyMeans
  <2>7. Means(r, ApplyWrites(t, "release"), marker')
    BY <2>1, <2>6
  <2>8. QED
    BY <2>1, <2>7 DEF Goal
<1>7. CASE ReviewProof(p)
  <2>1. r.op = "review" /\ UNCHANGED marker
    BY <1>7 DEF ReviewProof, Operating
  <2>2. CASE Reviewable(proofs, r.job)
    <3>1. Plan(p, Writes(dispatches, Reviewed(proofs, r.job, r.status, r.at), {"proofs"}))
      BY <1>7, <2>2 DEF ReviewProof
    <3>2. QED
      BY <1>1, <1>2, <2>1, <2>2, <3>1, ReviewMeans
  <2>3. CASE ~Reviewable(proofs, r.job)
    BY <1>7, <2>1, <2>3 DEF ReviewProof, Goal
  <2>4. QED
    BY <2>2, <2>3
<1>8. CASE Trim(p)
  <2>1. UNCHANGED marker
    BY <1>8 DEF Trim
  <2>2. QED
    BY <1>1, <1>2, <1>8, <2>1, TrimMeans
<1>9. CASE RestoreBundle(p)
  <2>1. Operating(p, "restore") /\ UNCHANGED marker
    BY <1>9 DEF RestoreBundle
  <2>2. r.op = "restore" /\ r.bundle \in backups
    BY <1>1, <2>1, OperatingRequest
  <2>3. CASE Restorable(dispatches, proofs, r.bundle)
    <3>1. Plan(p, Writes(dispatches \cup r.bundle.dispatches, proofs \cup r.bundle.proofs,
                         {"dispatches", "proofs"}))
      BY <1>9, <2>3 DEF RestoreBundle
    <3>2. QED
      BY <1>2, <2>1, <2>2, <2>3, <3>1, RestoreMeans
  <2>4. CASE ~Restorable(dispatches, proofs, r.bundle)
    BY <1>9, <2>1, <2>4 DEF RestoreBundle, Goal
  <2>5. QED
    BY <2>3, <2>4
<1>10. CASE SeedLegacyProofs(p)
  <2>1. Operating(p, "seed") /\ UNCHANGED marker
    BY <1>10 DEF SeedLegacyProofs
  <2>2. r.op = "seed" /\ r \in Requests
    BY <1>1, <2>1, OperatingRequest
  <2>3. CASE Seedable(dispatches, proofs, r.rows)
    <3>1. Plan(p, Writes(dispatches \cup {row.dispatch : row \in r.rows},
                         proofs \cup {row.proof : row \in r.rows},
                         {"dispatches", "proofs"}))
      BY <1>10, <2>3 DEF SeedLegacyProofs
    <3>2. QED
      BY <1>2, <2>1, <2>2, <2>3, <3>1, SeedMeans
  <2>4. CASE ~Seedable(dispatches, proofs, r.rows)
    BY <1>10, <2>1, <2>4 DEF SeedLegacyProofs, Goal
  <2>5. QED
    BY <2>3, <2>4
<1>11. CASE ReplayMarker(p)
  <2>1. /\ marker # None /\ UNCHANGED marker
        /\ Plan(p, ApplyWrites(marker, "operate"))
    BY <1>11 DEF ReplayMarker, Plan, files
  <2>2. marker \in Transaction /\ Paired(marker)
    BY <1>1, <2>1 DEF TypeOK, DiskHolds
  <2>3. Means(r, ApplyWrites(marker, "operate"), marker)
    BY <1>1, <2>2, ApplyMeans
  <2>4. QED
    BY <1>2, <2>1, <2>3
<1>12. CASE RefuseTrim(p)
  BY <1>12 DEF RefuseTrim, Refuse, files, Goal
<1>13. QED
  BY <1>3, <1>4, <1>5, <1>6, <1>7, <1>8, <1>9, <1>10, <1>11, <1>12 DEF Operation, Goal

-----------------------------------------------------------------------------
(* The invariant is inductive.                                              *)

\* A step of p, as seen by the other processes.
OnlyOf(p) == Alone(p) /\ \A q \in Procs : q # p => reply'[q] = reply[q]

\* A plan whose process and whose files stand still keeps its meaning.
LEMMA MeaningFrame ==
  ASSUME UNCHANGED <<marker, dispatches, proofs, backups>>, NEW r, NEW w, Meaning(r, w)
  PROVE  Meaning(r, w)'
  BY DEF Meaning, Sound, Archive

\* So does a call that has answered.
LEMMA DeliveredFrame ==
  ASSUME UNCHANGED <<marker, dispatches, proofs, backups>>, NEW r, NEW w, Delivered(r, w)
  PROVE  Delivered(r, w)'
  BY MeaningFrame DEF Delivered

LEMMA DiskFrame ==
  ASSUME UNCHANGED <<marker, dispatches, proofs, backups>>, DiskHolds
  PROVE  DiskHolds'
  BY DEF DiskHolds, Archive

\* Steps that change no file, plan nothing and deliver nothing.
LEMMA QuietPromises ==
  ASSUME Promises, NEW p \in Procs, OnlyOf(p),
         UNCHANGED <<marker, dispatches, proofs, backups>>,
         \/ req'[p] \in {Idle, req[p]}
         \/ MayRun(req'[p]),
         pc'[p] # "saving",
         ~(pc'[p] = "release" /\ reply'[p] = "ok")
  PROVE  Promises'
<1>1. DiskHolds'
  BY DiskFrame DEF Promises
<1>2. CallsHold'
  <2>1. SUFFICES ASSUME NEW q \in Procs, req'[q] # Idle
                 PROVE  MayRun(req'[q])
    BY DEF CallsHold, MayRun
  <2>2. CASE req'[q] = req[q]
    BY <2>1, <2>2 DEF Promises, CallsHold
  <2>3. CASE MayRun(req'[q])
    BY <2>3
  <2>4. QED
    BY <2>1, <2>2, <2>3 DEF OnlyOf, Alone
<1>3. PlansHold'
  <2>1. SUFFICES ASSUME NEW q \in Procs, pc'[q] = "saving"
                 PROVE  Meaning(req[q], work[q])'
    BY DEF PlansHold
  <2>2. pc[q] = "saving" /\ req'[q] = req[q] /\ work'[q] = work[q]
    BY <2>1 DEF OnlyOf, Alone
  <2>3. Meaning(req[q], work[q])
    BY <2>2 DEF Promises, PlansHold
  <2>4. QED
    BY <2>2, <2>3 DEF Meaning, Sound, Archive
<1>4. AnswersHold'
  <2>1. SUFFICES ASSUME NEW q \in Procs, pc'[q] = "release", reply'[q] = "ok"
                 PROVE  Delivered(req[q], work[q])'
    BY DEF AnswersHold
  <2>2. /\ pc[q] = "release" /\ reply[q] = "ok"
        /\ req'[q] = req[q] /\ work'[q] = work[q]
    BY <2>1 DEF OnlyOf, Alone
  <2>3. Delivered(req[q], work[q])
    BY <2>2 DEF Promises, AnswersHold
  <2>4. QED
    BY <2>2, <2>3 DEF Delivered, Meaning, Sound, Archive
<1>5. QED
  BY <1>1, <1>2, <1>3, <1>4 DEF Promises

\* Steps of the process that holds the lock.
LEMMA OwnerPromises ==
  ASSUME IndInv, Promises, NEW p \in Procs, OnlyOf(p), pc[p] \in Critical,
         req'[p] = req[p], backups \subseteq backups', DiskHolds',
         pc'[p] = "saving" => Meaning(req[p], work[p])',
         pc'[p] = "release" /\ reply'[p] = "ok" => Delivered(req[p], work[p])'
  PROVE  Promises'
<1>1. \A q \in Procs : q # p => pc'[q] \notin Critical
  BY Exclusive DEF IndInv, OnlyOf, Alone
<1>2. "saving" \in Critical /\ "release" \in Critical
  BY DEF Critical
<1>3. CallsHold'
  <2>1. \A q \in Procs : req'[q] = req[q]
    BY DEF OnlyOf, Alone
  <2>2. QED
    BY <2>1 DEF Promises, CallsHold, MayRun
<1>4. PlansHold'
  <2>1. SUFFICES ASSUME NEW q \in Procs, pc'[q] = "saving"
                 PROVE  Meaning(req[q], work[q])'
    BY DEF PlansHold
  <2>2. q = p
    BY <1>1, <1>2, <2>1
  <2>3. QED
    BY <2>1, <2>2
<1>5. AnswersHold'
  <2>1. SUFFICES ASSUME NEW q \in Procs, pc'[q] = "release", reply'[q] = "ok"
                 PROVE  Delivered(req[q], work[q])'
    BY DEF AnswersHold
  <2>2. q = p
    BY <1>1, <1>2, <2>1
  <2>3. QED
    BY <2>1, <2>2
<1>6. QED
  BY <1>3, <1>4, <1>5 DEF Promises

LEMMA ReturnOnly ==
  ASSUME TypeOK, NEW p \in Procs, Return(p)
  PROVE  OnlyOf(p) /\ pc'[p] = "idle" /\ req'[p] = Idle
  BY ReturnType DEF OnlyOf, Return, TypeOK

LEMMA AnswerOnly ==
  ASSUME TypeOK, NEW p \in Procs, NEW result \in {"ok", "error"}, Answer(p, result),
         UNCHANGED <<req, work>>
  PROVE  OnlyOf(p) /\ pc'[p] = "release" /\ reply'[p] = result /\ req'[p] = req[p]
  BY AnswerType DEF OnlyOf, Answer, TypeOK

\* Calls, the lock, recovery without a marker, and errors touch no promise.
LEMMA QuietSteps ==
  ASSUME IndInv, Promises, NEW p \in Procs,
         \/ SomeCall(p) \/ Acquire(p) \/ NothingToRecover(p)
         \/ TimeOut(p) \/ LockInitFails(p) \/ Release(p) \/ ReleaseFails(p) \/ Crash(p)
         \/ IOError(p)
         \/ Refuse(p) /\ UNCHANGED marker
  PROVE  Promises'
<1>1. TypeOK
  BY DEF IndInv
<1>2. CASE SomeCall(p)
  <2>1. PICK r \in Requests \cup Restores : Call(p, r)
    BY <1>2 DEF SomeCall
  <2>2. /\ pc'[p] = "waiting" /\ req'[p] = r /\ OnlyOf(p)
        /\ UNCHANGED <<marker, dispatches, proofs, backups>>
    BY <1>1, <2>1 DEF Call, Goto, files, OnlyOf, Alone, TypeOK
  <2>3. MayRun(r)
    BY <2>1, RequestsAssumption DEF Call, Admitted, Restores, MayRun
  <2>4. QED
    BY <2>2, <2>3, QuietPromises
<1>3. CASE Acquire(p) \/ NothingToRecover(p)
  <2>1. /\ pc'[p] \in {"recover", "operate"} /\ req'[p] = req[p] /\ OnlyOf(p)
        /\ UNCHANGED <<marker, dispatches, proofs, backups>>
    BY <1>1, <1>3 DEF Acquire, NothingToRecover, Goto, files, OnlyOf, Alone, TypeOK
  <2>2. QED
    BY <2>1, QuietPromises
<1>4. CASE TimeOut(p) \/ LockInitFails(p) \/ Release(p) \/ ReleaseFails(p) \/ Crash(p)
  <2>1. Return(p) /\ UNCHANGED <<marker, dispatches, proofs, backups>>
    BY <1>4 DEF TimeOut, LockInitFails, Release, ReleaseFails, Crash, files
  <2>2. OnlyOf(p) /\ pc'[p] = "idle" /\ req'[p] = Idle
    BY <1>1, <2>1, ReturnOnly
  <2>3. QED
    BY <2>1, <2>2, QuietPromises
<1>5. CASE IOError(p) \/ (Refuse(p) /\ UNCHANGED marker)
  <2>1. /\ Answer(p, "error") /\ UNCHANGED <<req, work>>
        /\ UNCHANGED <<marker, dispatches, proofs, backups>>
    BY <1>5 DEF IOError, Refuse, files
  <2>2. OnlyOf(p) /\ pc'[p] = "release" /\ reply'[p] = "error" /\ req'[p] = req[p]
    BY <1>1, <2>1, AnswerOnly
  <2>3. QED
    BY <2>1, <2>2, QuietPromises
<1>6. QED
  BY <1>2, <1>3, <1>4, <1>5

\* A marker that is moved aside was never promised to anyone.
LEMMA QuarantinePromises ==
  ASSUME IndInv, Promises, NEW p \in Procs, QuarantineMarker(p)
  PROVE  Promises'
<1>1. /\ Answer(p, "error") /\ UNCHANGED <<dispatches, proofs, backups, req, work>>
      /\ marker' = None /\ pc[p] \in Critical
  BY DEF QuarantineMarker, Critical
<1>2. OnlyOf(p) /\ pc'[p] = "release" /\ reply'[p] = "error" /\ req'[p] = req[p]
  BY <1>1, AnswerOnly DEF IndInv
<1>3. DiskHolds'
  BY <1>1 DEF Promises, DiskHolds, Archive
<1>4. QED
  BY <1>1, <1>2, <1>3, OwnerPromises

\* Planning gives the plan its meaning.
LEMMA PlanningPromises ==
  ASSUME IndInv, IndInv', Promises, NEW p \in Procs, Operation(p) \/ ReplayMarker(p)
  PROVE  Promises'
<1>1. CASE Refuse(p) /\ UNCHANGED marker
  BY <1>1, QuietSteps
<1>2. CASE \E w : Plan(p, w) /\ Means(req[p], w, marker')
  <2>1. PICK w : Plan(p, w) /\ Means(req[p], w, marker')
    BY <1>2
  <2>2. TypeOK /\ Planning(p) /\ pc[p] \in Critical
    BY OperationPlans, ReplayPlans DEF IndInv, Critical
  <2>3. /\ pc'[p] = "saving" /\ work'[p] = w /\ req'[p] = req[p] /\ OnlyOf(p)
        /\ UNCHANGED <<dispatches, proofs, backups, req, reply>>
    BY <2>1, <2>2 DEF Plan, Goto, OnlyOf, Alone, TypeOK
  <2>4. "marker" \notin w.left => marker' = None
    BY <2>3 DEF IndInv, PlannedWork, Planned
  <2>5. DiskHolds'
    BY <2>1, <2>3, <2>4 DEF Promises, DiskHolds, Archive, Means
  <2>6. Meaning(req[p], work[p])'
    <3>1. OneRowPerJob(proofs) /\ IsFiniteSet(dispatches)
      BY DEF Promises, DiskHolds
    <3>2. QED
      BY <2>1, <2>3, <3>1 DEF Meaning, Sound, Means, Archive
  <2>7. QED
    BY <2>2, <2>3, <2>5, <2>6, OwnerPromises
<1>3. QED
  BY <1>1, <1>2, OperationMeans DEF Promises

\* What a plan means does not depend on the files it has left.
LEMMA SameMeaning ==
  ASSUME NEW r, NEW v, NEW w, Meant(r, w),
         v.readDispatches = w.readDispatches, v.readProofs = w.readProofs,
         v.dispatches = w.dispatches, v.proofs = w.proofs
  PROVE  Meant(r, v)
<1>1. r.op = "proof" => Applies(r, v)
  BY DEF Meant, Applies
<1>2. r.op = "trim" => Trims(r, v)
  BY DEF Meant, Trims
<1>3. QED
  BY <1>1, <1>2 DEF Meant

\* No write takes a dispatch out of the ledger and the bundles.
LEMMA ArchiveGrows ==
  ASSUME IndInv, NEW p \in Procs,
         SaveBundle(p) \/ SaveDispatches(p) \/ SaveProofs(p) \/ ClearMarker(p)
  PROVE  Archive \subseteq Archive' /\ backups \subseteq backups'
<1>1. CASE SaveDispatches(p)
  <2>1. Planned(work[p])
    BY <1>1, SavingPlanned DEF SaveDispatches
  <2>2. /\ dispatches = work[p].readDispatches /\ dispatches' = work[p].dispatches
        /\ Covered(work[p]) /\ backups' = backups
    BY <1>1, <2>1 DEF SaveDispatches, Planned
  <2>3. QED
    BY <2>2 DEF Covered, Archive
<1>2. CASE SaveBundle(p) \/ SaveProofs(p) \/ ClearMarker(p)
  BY <1>2 DEF SaveBundle, SaveProofs, ClearMarker, Archive
<1>3. QED
  BY <1>1, <1>2

\* Each write keeps what the disk holds.
LEMMA SaveDisk ==
  ASSUME IndInv, Promises, NEW p \in Procs,
         SaveBundle(p) \/ SaveDispatches(p) \/ SaveProofs(p) \/ ClearMarker(p)
  PROVE  DiskHolds'
<1> DEFINE w == work[p]
<1>1. pc[p] = "saving"
  BY DEF SaveBundle, SaveDispatches, SaveProofs, ClearMarker
<1>2. Planned(w) /\ Meaning(req[p], w) /\ DiskHolds
  BY <1>1, SavingPlanned DEF Promises, PlansHold
<1>3. Archive \subseteq Archive'
  BY ArchiveGrows
<1>4. /\ \A q \in proofs : HasDispatch(q, Archive')
      /\ \A b \in backups : \A q \in b.proofs : HasDispatch(q, Archive')
  BY <1>2, <1>3, MoreDispatches DEF DiskHolds
<1>5. CASE SaveBundle(p)
  <2>1. /\ backups' = backups \cup {Removed(w)}
        /\ UNCHANGED <<marker, dispatches, proofs>>
    BY <1>5 DEF SaveBundle
  <2>2. proofs = w.readProofs /\ IsFiniteSet(w.readDispatches)
    BY <1>2, <1>5 DEF SaveBundle, Meaning, Sound
  <2>3. /\ Removed(w).dispatches = w.readDispatches \ w.dispatches
        /\ Removed(w).proofs \subseteq proofs
    BY <2>2 DEF Removed
  <2>4. IsFiniteSet(Removed(w).dispatches)
    BY <2>2, <2>3, FS_Difference
  <2>5. QED
    BY <1>2, <1>4, <2>1, <2>3, <2>4 DEF DiskHolds
<1>6. CASE SaveDispatches(p)
  <2>1. /\ dispatches' = w.dispatches
        /\ UNCHANGED <<marker, proofs, backups>>
    BY <1>6 DEF SaveDispatches
  <2>2. IsFiniteSet(w.dispatches)
    BY <1>2 DEF Meaning, Sound
  <2>3. QED
    BY <1>2, <1>4, <2>1, <2>2 DEF DiskHolds
<1>7. CASE SaveProofs(p)
  <2>1. /\ proofs' = w.proofs
        /\ UNCHANGED <<marker, dispatches, backups>>
    BY <1>7 DEF SaveProofs
  <2>2. OneRowPerJob(w.proofs) /\ \A q \in w.proofs : HasDispatch(q, w.dispatches \cup Archive)
    BY <1>2 DEF Meaning, Sound
  <2>3. w.dispatches = dispatches
    BY <1>2, <1>7 DEF SaveProofs, Planned
  <2>4. w.dispatches \cup Archive \subseteq Archive'
    BY <1>3, <2>3 DEF Archive
  <2>5. \A q \in w.proofs : HasDispatch(q, Archive')
    BY <2>2, <2>4, MoreDispatches
  <2>6. QED
    BY <1>2, <1>4, <2>1, <2>2, <2>5 DEF DiskHolds
<1>8. CASE ClearMarker(p)
  <2>1. marker' = None /\ UNCHANGED <<dispatches, proofs, backups>>
    BY <1>8 DEF ClearMarker
  <2>2. QED
    BY <1>2, <1>4, <2>1 DEF DiskHolds
<1>9. QED
  BY <1>5, <1>6, <1>7, <1>8

\* Each write leaves its plan with the same meaning.
LEMMA SavePromises ==
  ASSUME IndInv, Promises, NEW p \in Procs,
         SaveBundle(p) \/ SaveDispatches(p) \/ SaveProofs(p) \/ ClearMarker(p)
  PROVE  Promises'
<1>1. /\ TypeOK /\ pc[p] = "saving" /\ pc[p] \in Critical
      /\ UNCHANGED <<pc, req, reply>>
  BY DEF IndInv, SaveBundle, SaveDispatches, SaveProofs, ClearMarker, Critical
<1>2. PICK file : /\ file \in work[p].left /\ Done(p, file)
                  /\ file # "bundle" => UNCHANGED backups /\ "bundle" \notin work[p].left
                  /\ file = "bundle" => backups' = backups \cup {Removed(work[p])}
                  /\ file = "marker" => work[p].left = {"marker"}
                  /\ file # "marker" => UNCHANGED marker
                  /\ file = "proofs" => "dispatches" \notin work[p].left
                  /\ file # "proofs" => UNCHANGED proofs
  BY DEF SaveBundle, SaveDispatches, SaveProofs, ClearMarker
<1>3. PICK r, w, v : r = req[p] /\ w = work[p] /\ v = work'[p]
  OBVIOUS
<1>4. /\ \A q \in Procs : q # p => work'[q] = work[q]
      /\ v.left = w.left \ {file}
      /\ v.readDispatches = w.readDispatches /\ v.readProofs = w.readProofs
      /\ v.dispatches = w.dispatches /\ v.proofs = w.proofs /\ v.then = w.then
  BY <1>1, <1>2, <1>3, DoneType DEF TypeOK
<1>5. OnlyOf(p)
  BY <1>1, <1>4 DEF OnlyOf, Alone
<1>6. Meaning(r, w)
  BY <1>1, <1>3 DEF Promises, PlansHold
<1>7. Archive \subseteq Archive' /\ backups \subseteq backups'
  BY ArchiveGrows
<1>8. Meaning(r, v)'
  <2>1. Sound(v)'
    <3>1. w.dispatches \cup Archive \subseteq w.dispatches \cup Archive'
      BY <1>7
    <3>2. \A q \in w.proofs : HasDispatch(q, w.dispatches \cup Archive')
      BY <1>6, <3>1, MoreDispatches DEF Meaning, Sound
    <3>3. QED
      BY <1>4, <1>6, <3>2 DEF Sound, Meaning
  <2>2. v.then = "release" => Meant(r, v)
    BY <1>4, <1>6, SameMeaning DEF Meaning
  <2>3. "marker" \in v.left => /\ Applies(marker', v)
                               /\ v.then = "release" => r.op = "proof"
    <3>1. "marker" \in v.left => marker' = marker /\ "marker" \in w.left
      BY <1>2, <1>4
    <3>2. QED
      BY <1>4, <1>6, <3>1 DEF Meaning, Applies
  <2>4. "marker" \notin v.left => v.left = {} \/ (v.then = "release" /\ r.op # "proof")
    BY <1>2, <1>3, <1>4, <1>6 DEF Meaning
  <2>5. "bundle" \notin v.left
    BY <1>2, <1>3, <1>4
  <2>6. "dispatches" \in v.left => proofs' = v.readProofs
    BY <1>2, <1>3, <1>4, <1>6 DEF Meaning
  <2>7. v.then = "release" /\ r.op = "trim" =>
          \/ Removed(v) \in backups'
          \/ v.dispatches = v.readDispatches /\ v.proofs = v.readProofs
    <3>1. Removed(v) = Removed(w)
      BY <1>4 DEF Removed
    <3>2. QED
      BY <1>2, <1>3, <1>4, <1>6, <3>1 DEF Meaning
  <2>8. QED
    BY <2>1, <2>2, <2>3, <2>4, <2>5, <2>6, <2>7 DEF Meaning
<1>9. DiskHolds'
  BY SaveDisk
<1>10. Meaning(req[p], work[p])'
  BY <1>1, <1>3, <1>8
<1>11. pc'[p] # "release"
  BY <1>1
<1>12. QED
  BY <1>1, <1>5, <1>7, <1>9, <1>10, <1>11, OwnerPromises

\* When all is written the plan is carried out.
LEMMA FinishPromises ==
  ASSUME IndInv, Promises, NEW p \in Procs, Finish(p)
  PROVE  Promises'
<1>1. /\ TypeOK /\ pc[p] = "saving" /\ pc[p] \in Critical /\ work[p].left = {}
      /\ UNCHANGED <<marker, dispatches, proofs, backups, req>>
  BY DEF IndInv, Finish, files, Critical
<1>2. DiskHolds'
  BY <1>1, DiskFrame DEF Promises
<1>3. CASE work[p].then = "operate" /\ Goto(p, "operate")
             /\ work' = [work EXCEPT ![p] = NoWork] /\ UNCHANGED reply
  <2>1. OnlyOf(p) /\ pc'[p] = "operate" /\ req'[p] = req[p]
    BY <1>1, <1>3 DEF Goto, OnlyOf, Alone, TypeOK
  <2>2. QED
    BY <1>1, <2>1, QuietPromises
<1>4. CASE work[p].then = "release" /\ Answer(p, "ok") /\ UNCHANGED work
  <2>1. OnlyOf(p) /\ pc'[p] = "release" /\ req'[p] = req[p]
    BY <1>1, <1>4, AnswerOnly
  <2>2. PICK r, w : r = req[p] /\ w = work[p]
    OBVIOUS
  <2>3. Planned(w) /\ Meaning(r, w)
    BY <1>1, <2>2, SavingPlanned DEF Promises, PlansHold
  <2>4. Delivered(r, w)
    BY <1>1, <1>4, <2>2, <2>3 DEF Delivered, Planned
  <2>5. Delivered(r, w)'
    BY <1>1, <2>4, DeliveredFrame
  <2>6. Delivered(req[p], work[p])'
    BY <1>1, <1>4, <2>2, <2>5
  <2>7. QED
    BY <1>1, <1>2, <2>1, <2>6, OwnerPromises
<1>5. QED
  BY <1>3, <1>4 DEF Finish

\* Init establishes the promises.
LEMMA PromisesInit == Init => Promises
<1> SUFFICES ASSUME Init PROVE Promises
  OBVIOUS
<1>1. DiskHolds
  BY FS_EmptySet DEF Init, DiskHolds, OneRowPerJob
<1>2. CallsHold /\ PlansHold /\ AnswersHold
  BY DEF Init, CallsHold, PlansHold, AnswersHold
<1>3. QED
  BY <1>1, <1>2 DEF Promises

\* Every step, of any process, with any fault, preserves them.
LEMMA PromisesNext == IndInv /\ Promises /\ [Next]_vars => Promises'
<1> SUFFICES ASSUME IndInv, Promises, [Next]_vars PROVE Promises'
  OBVIOUS
<1>1. ASSUME NEW p \in Procs, SomeCall(p) \/ Step(p) \/ Fails(p)
      PROVE  Promises'
  <2>1. CASE Operation(p) \/ ReplayMarker(p)
    <3>1. IndInv'
      BY IndInvNext
    <3>2. QED
      BY <2>1, <3>1, PlanningPromises
  <2>2. CASE Save(p)
    BY <2>2, SavePromises, FinishPromises DEF Save
  <2>3. CASE QuarantineMarker(p)
    BY <2>3, QuarantinePromises
  <2>4. QED
    BY <1>1, <2>1, <2>2, <2>3, QuietSteps DEF Step, Fails
<1>2. ASSUME UNCHANGED <<marker, dispatches, proofs, backups, pc, req, work, reply>>
      PROVE  Promises'
  <2>1. DiskHolds'
    BY <1>2, DiskFrame DEF Promises
  <2>2. CallsHold' /\ PlansHold' /\ AnswersHold'
    BY <1>2 DEF Promises, CallsHold, MayRun, PlansHold, AnswersHold, Delivered, Meaning, Sound, Archive
  <2>3. QED
    BY <2>1, <2>2 DEF Promises
<1>3. CASE DeleteStaleLock \/ UNCHANGED vars
  BY <1>2, <1>3 DEF DeleteStaleLock, vars, files
<1>4. QED
  BY <1>1, <1>3 DEF Next

LEMMA PromisesKept == Spec => [](IndInv /\ Promises)
  BY IndInvInit, IndInvNext, PromisesInit, PromisesNext, PTL DEF Spec

-----------------------------------------------------------------------------
(* What the store promises.                                                 *)

\* What is known of a call that answered "ok".
LEMMA Answered ==
  ASSUME IndInv, Promises, NEW p \in Procs, pc[p] = "release", reply[p] = "ok"
  PROVE  /\ Delivered(req[p], work[p]) /\ Sound(work[p]) /\ Meant(req[p], work[p])
         /\ req[p] \in Calls
         /\ req[p] \in Requests \/ req[p].op = "restore"
         /\ work[p].readProofs \in SUBSET ProofRow
<1>1. Delivered(req[p], work[p])
  BY DEF Promises, AnswersHold
<1>2. req[p] # Idle /\ req[p] \in Calls
  BY DEF IndInv, Serving, TypeOK
<1>3. req[p] \in Requests \/ req[p].op = "restore"
  BY <1>2 DEF Promises, CallsHold, MayRun
<1>4. work[p].readProofs \in SUBSET ProofRow
  BY DEF IndInv, TypeOK, Work
<1>5. QED
  BY <1>1, <1>2, <1>3, <1>4 DEF Delivered, Meaning

\* The proof ledger has one record for each proof job, through upserts,
\* reviews, trims, restores, seeds and replays.
THEOREM OneRecordPerProof == Spec => []ProofJobsUnique
<1>1. Promises => ProofJobsUnique
  BY DEF Promises, DiskHolds, ProofJobsUnique
<1>2. QED
  BY <1>1, PromisesKept, PTL

\* No proof outlives or precedes the dispatch that shows what was proofed,
\* whatever crashes between the writes of the two ledgers.
THEOREM NoProofWithoutDispatch == Spec => []ProofsBacked
<1>1. Promises => ProofsBacked
  BY DEF Promises, DiskHolds, ProofsBacked, HasDispatch, Archive
<1>2. QED
  BY <1>1, PromisesKept, PTL

\* What an answer "ok" says of the ledgers is true when it is given.
LEMMA AnswersAreTrue == IndInv /\ Promises => AcknowledgedIsDurable
<1>1. SUFFICES ASSUME IndInv, Promises, NEW p \in Procs, pc[p] = "release", reply[p] = "ok"
               PROVE  LET r == req[p] IN
                      /\ marker = None
                      /\ r.op \in {"record", "proof"} => r.dispatch \in dispatches
                      /\ r.op = "proof" =>
                           {q \in proofs : q.lineage = r.proof.lineage /\ q.status \in Live}
                             = {r.proof}
                      /\ r.op = "review" =>
                           \E q \in proofs : /\ q.job = r.job /\ q.status = r.status
                                             /\ q.decided = r.at
                      /\ r.op = "restore" => /\ r.bundle.dispatches \subseteq dispatches
                                             /\ r.bundle.proofs \subseteq proofs
                      /\ r.op = "seed" => \A row \in r.rows : /\ row.dispatch \in dispatches
                                                              /\ row.proof \in proofs
  BY DEF AcknowledgedIsDurable
<1>2. PICK r, w : r = req[p] /\ w = work[p]
  OBVIOUS
<1>3. /\ Meant(r, w) /\ r \in Calls /\ (r \in Requests \/ r.op = "restore")
      /\ w.readProofs \in SUBSET ProofRow
      /\ marker = None /\ dispatches = w.dispatches /\ proofs = w.proofs
  BY <1>1, <1>2, Answered DEF Delivered
<1>4. r.op \in {"record", "proof"} => r.dispatch \in dispatches
  BY <1>3 DEF Meant, Applies
<1>5. ASSUME r.op = "proof"
      PROVE  {q \in proofs : q.lineage = r.proof.lineage /\ q.status \in Live} = {r.proof}
  <2>1. r.proof \in ProofRow
    BY <1>3, <1>5, CallFields
  <2>2. r.proof.status \in Live
    BY <1>3, <1>5, RecordsAssumption DEF Paired, Live
  <2>3. proofs = Upsert(w.readProofs, r.proof)
    BY <1>3, <1>5 DEF Meant, Applies
  <2>4. QED
    BY <1>3, <2>1, <2>2, <2>3, UpsertLive
<1>6. ASSUME r.op = "review"
      PROVE  \E q \in proofs : q.job = r.job /\ q.status = r.status /\ q.decided = r.at
  <2>1. /\ Reviewable(w.readProofs, r.job)
        /\ proofs = Reviewed(w.readProofs, r.job, r.status, r.at)
    BY <1>3, <1>6 DEF Meant
  <2>2. QED
    BY <1>3, <2>1, ReviewedDecides
<1>7. /\ r.op = "restore" => r.bundle.dispatches \subseteq dispatches /\ r.bundle.proofs \subseteq proofs
      /\ r.op = "seed" => \A row \in r.rows : row.dispatch \in dispatches /\ row.proof \in proofs
  BY <1>3 DEF Meant
<1>8. QED
  BY <1>2, <1>3, <1>4, <1>5, <1>6, <1>7

\* An acknowledged call is in the files, and an acknowledged proof is the only
\* live one of its lineage.
THEOREM AnswersAreDurable == Spec => []AcknowledgedIsDurable
  BY AnswersAreTrue, PromisesKept, PTL

\* A trim leaves every kept row what it depends on.
THEOREM ChainsAreKept == Spec => []TrimKeepsChains
<1>1. IndInv /\ Promises => TrimKeepsChains
  <2>1. SUFFICES ASSUME IndInv, Promises, NEW p \in Procs,
                        pc[p] = "release", reply[p] = "ok", req[p].op = "trim"
                 PROVE  /\ ProofDispatches(work[p].readDispatches, proofs) \subseteq dispatches
                        /\ ClosedUnderLineage(dispatches, work[p].readDispatches)
    BY DEF TrimKeepsChains
  <2>2. Trims(req[p], work[p])
    BY <2>1, Answered DEF Meant
  <2>3. dispatches = work[p].dispatches /\ proofs = work[p].proofs
    BY <2>1, Answered DEF Delivered
  <2>4. QED
    BY <2>2, <2>3 DEF Trims
<1>2. QED
  BY <1>1, PromisesKept, PTL

\* Two parts of a ledger with one row for each job share no job.
LEMMA PartsShareNoJob ==
  ASSUME NEW all, NEW part, OneRowPerJob(all), part \subseteq all
  PROVE  JobsOf(all \ part) \cap JobsOf(part) = {}
  BY DEF OneRowPerJob, JobsOf

\* The bundle of a trim is on disk, fits the trimmed ledgers and restores them.
LEMMA TrimsCanBeUndone == IndInv /\ Promises => TrimCanBeUndone
<1>1. SUFFICES ASSUME IndInv, Promises, NEW p \in Procs, Trimmed(p),
                      Removed(work[p]) # [dispatches |-> {}, proofs |-> {}],
                      OneRowPerJob(work[p].readDispatches)
               PROVE  LET w == work[p]
                          b == Removed(w)
                      IN  /\ b \in backups
                          /\ Restorable(dispatches, proofs, b)
                          /\ Exported(dispatches \cup b.dispatches, proofs \cup b.proofs, "all")
                               = Exported(w.readDispatches, w.readProofs, "all")
  BY DEF TrimCanBeUndone
<1>2. PICK r, w : r = req[p] /\ w = work[p]
  OBVIOUS
<1>3. PICK b : b = Removed(w)
  OBVIOUS
<1>4. /\ Delivered(r, w) /\ Trims(r, w) /\ OneRowPerJob(w.readProofs)
      /\ OneRowPerJob(w.readDispatches) /\ r.op = "trim"
  BY <1>1, <1>2, Answered DEF Trimmed, Meant, Sound
<1>5. /\ dispatches = w.dispatches /\ proofs = w.proofs
      /\ w.dispatches \subseteq w.readDispatches /\ w.proofs \subseteq w.readProofs
  BY <1>4 DEF Delivered, Trims
<1>6. /\ b.dispatches = w.readDispatches \ w.dispatches
      /\ b.proofs = w.readProofs \ w.proofs
      /\ b = [dispatches |-> b.dispatches, proofs |-> b.proofs]
  BY <1>3 DEF Removed
<1>7. b.dispatches # {} \/ b.proofs # {}
  BY <1>1, <1>2, <1>3, <1>6
<1>8. b \in backups
  BY <1>3, <1>4, <1>6, <1>7 DEF Delivered, Meaning
<1>9. Restorable(dispatches, proofs, b)
  <2>1. OneRowPerJob(b.dispatches) /\ OneRowPerJob(b.proofs)
    BY <1>4, <1>6, PartUnique
  <2>2. /\ JobsOf(b.dispatches) \cap JobsOf(dispatches) = {}
        /\ JobsOf(b.proofs) \cap JobsOf(proofs) = {}
    BY <1>4, <1>5, <1>6, PartsShareNoJob
  <2>3. QED
    BY <1>7, <2>1, <2>2 DEF Restorable
<1>10. /\ dispatches \cup b.dispatches = w.readDispatches
       /\ proofs \cup b.proofs = w.readProofs
  BY <1>5, <1>6
<1>11. QED
  BY <1>2, <1>3, <1>8, <1>9, <1>10

\* A trim can be undone with the bundle that it left.
THEOREM TrimsAreUndone == Spec => []TrimCanBeUndone
  BY TrimsCanBeUndone, PromisesKept, PTL

-----------------------------------------------------------------------------
(* The store implements AuditLedger, as long as markers can be read.        *)

\* The operators that AuditLedger speaks of are those of the store.
LEMMA LedgerOperators ==
  /\ \A rows : Ledgers!JobsOf(rows) = JobsOf(rows)
  /\ \A ds, ps : Ledgers!ProofDispatches(ds, ps) = ProofDispatches(ds, ps)
  /\ \A kept, ds : Ledgers!ClosedUnderLineage(kept, ds) <=> ClosedUnderLineage(kept, ds)
<1>1. \A rows : Ledgers!JobsOf(rows) = JobsOf(rows)
  BY DEF Ledgers!JobsOf, JobsOf
<1>2. \A ds, ps : Ledgers!ProofDispatches(ds, ps) = ProofDispatches(ds, ps)
  BY <1>1 DEF Ledgers!ProofDispatches, ProofDispatches
<1>3. \A kept, ds : Ledgers!ClosedUnderLineage(kept, ds) <=> ClosedUnderLineage(kept, ds)
  BY DEF Ledgers!ClosedUnderLineage, ClosedUnderLineage
<1>4. QED
  BY <1>1, <1>2, <1>3

LEMMA LedgerUpsert ==
  ASSUME NEW ps, NEW new
  PROVE  Ledgers!Upsert(ps, new) = Upsert(ps, new)
<1>1. \A row : Ledgers!SupersededBy(row, new) = SupersededBy(row, new)
  BY DEF Ledgers!SupersededBy, SupersededBy, Ledgers!Decide, Decide, Ledgers!Live, Live
<1>2. QED
  BY <1>1 DEF Ledgers!Upsert, Upsert

LEMMA LedgerReviewed ==
  ASSUME NEW ps, NEW job, NEW status, NEW at
  PROVE  Ledgers!Reviewed(ps, job, status, at) = Reviewed(ps, job, status, at)
  BY DEF Ledgers!Reviewed, Reviewed, Ledgers!Decide, Decide

\* Steps that touch neither a ledger nor a bundle nor the marker.
LEMMA FilesStandStill ==
  ASSUME UNCHANGED <<marker, dispatches, proofs, backups>>
  PROVE  UNCHANGED Ledgers!vars
  BY DEF Ledgers!vars, CommittedDispatches, CommittedProofs

\* Without a marker the ledgers on disk are the committed ones.
LEMMA NothingPending ==
  ASSUME marker = None, marker' = None
  PROVE  /\ CommittedDispatches = dispatches /\ CommittedDispatches' = dispatches'
         /\ CommittedProofs = proofs /\ CommittedProofs' = proofs'
  BY DEF CommittedDispatches, CommittedProofs

\* A proof dispatch is committed when its marker is written.
LEMMA CommitStep ==
  ASSUME IndInv, Promises, NEW p \in Procs, CommitProof(p)
  PROVE  Ledgers!CommitProof
<1> DEFINE t == [dispatch |-> req[p].dispatch, proof |-> req[p].proof]
<1>1. /\ Operating(p, "proof") /\ marker' = t
      /\ UNCHANGED <<dispatches, proofs, backups>>
  BY DEF CommitProof, Plan
<1>2. req[p] \in Requests /\ req[p].op = "proof" /\ req[p] \in Calls
  BY <1>1, OperatingRequest DEF IndInv, Promises
<1>3. req[p].dispatch \in DispatchRow /\ req[p].proof \in ProofRow /\ Paired(req[p])
  BY <1>2, CallFields, RecordsAssumption
<1>4. t \in Transaction /\ Paired(t) /\ t # None
  BY <1>3, NoMarkerAssumption DEF Transaction, Paired
<1> HIDE DEF t
<1>5. marker = None
  BY <1>1 DEF IndInv, NoHalfTransaction, Operating
<1>6. /\ CommittedDispatches = dispatches
      /\ CommittedDispatches' = dispatches \cup {t.dispatch}
      /\ CommittedProofs = proofs
      /\ CommittedProofs' = Upsert(proofs, t.proof)
  BY <1>1, <1>4, <1>5 DEF CommittedDispatches, CommittedProofs
<1>7. t.proof \in Upsert(proofs, t.proof)
  BY DEF Upsert
<1>8. Ledgers!Upsert(proofs, t.proof) = Upsert(proofs, t.proof)
  BY LedgerUpsert
<1>9. QED
  BY <1>1, <1>4, <1>6, <1>7, <1>8 DEF Ledgers!CommitProof, Paired, Backs

\* However far a transaction has been applied, applying it gives its result.
LEMMA AppliedEither ==
  ASSUME NEW t \in Transaction, NEW w, w.readProofs \in SUBSET ProofRow, Applies(t, w),
         NEW ds \in {w.readDispatches, w.dispatches},
         NEW ps \in {w.readProofs, w.proofs}
  PROVE  ds \cup {t.dispatch} = w.dispatches /\ Upsert(ps, t.proof) = w.proofs
<1>1. t.proof \in ProofRow
  BY DEF Transaction
<1>2. Upsert(Upsert(w.readProofs, t.proof), t.proof) = Upsert(w.readProofs, t.proof)
  BY <1>1, UpsertIdempotent
<1>3. QED
  BY <1>2 DEF Applies

\* Applying a marker, and removing it in the end, changes nothing that was
\* committed.
LEMMA ApplyingStutters ==
  ASSUME IndInv, Promises, NEW p \in Procs,
         SaveDispatches(p) \/ SaveProofs(p) \/ ClearMarker(p),
         "marker" \in work[p].left
  PROVE  UNCHANGED Ledgers!vars
<1>1. PICK w : w = work[p]
  OBVIOUS
<1>2. pc[p] = "saving" /\ UNCHANGED backups
  BY DEF SaveDispatches, SaveProofs, ClearMarker
<1>3. Planned(w) /\ Meaning(req[p], w) /\ w.readProofs \in SUBSET ProofRow
  BY <1>1, <1>2, SavingPlanned DEF Promises, PlansHold, IndInv, TypeOK, Work
<1>4. marker \in Transaction /\ marker # None /\ Applies(marker, w)
  BY <1>1, <1>3 DEF Planned, Meaning, IndInv, TypeOK
<1>5. dispatches \in {w.readDispatches, w.dispatches} /\ proofs \in {w.readProofs, w.proofs}
  BY <1>3 DEF Planned
<1>6. CommittedDispatches = w.dispatches /\ CommittedProofs = w.proofs
  BY <1>3, <1>4, <1>5, AppliedEither DEF CommittedDispatches, CommittedProofs
<1>7. CASE SaveDispatches(p) \/ SaveProofs(p)
  <2>1. /\ dispatches' \in {w.readDispatches, w.dispatches}
        /\ proofs' \in {w.readProofs, w.proofs}
        /\ marker' = marker
    BY <1>1, <1>5, <1>7 DEF SaveDispatches, SaveProofs
  <2>2. CommittedDispatches' = w.dispatches /\ CommittedProofs' = w.proofs
    BY <1>3, <1>4, <2>1, AppliedEither DEF CommittedDispatches, CommittedProofs
  <2>3. QED
    BY <1>2, <1>6, <2>2 DEF Ledgers!vars
<1>8. CASE ClearMarker(p)
  <2>1. marker' = None /\ UNCHANGED <<dispatches, proofs>> /\ w.left = {"marker"}
    BY <1>1, <1>8 DEF ClearMarker
  <2>2. dispatches = w.dispatches /\ proofs = w.proofs
    BY <1>3, <2>1 DEF Planned
  <2>3. QED
    BY <1>2, <1>6, <2>1, <2>2 DEF Ledgers!vars, CommittedDispatches, CommittedProofs
<1>9. QED
  BY <1>7, <1>8

\* What is known of the plan of a call that has no marker to remove.
LEMMA Unmarked ==
  ASSUME IndInv, Promises, NEW p \in Procs, pc[p] = "saving",
         work[p].left # {}, "marker" \notin work[p].left
  PROVE  /\ marker = None
         /\ Planned(work[p]) /\ Meaning(req[p], work[p]) /\ Meant(req[p], work[p])
         /\ work[p].then = "release" /\ req[p].op # "proof" /\ req[p] \in Calls
         /\ req[p] \in Requests \/ (req[p].op = "restore" /\ req[p].bundle \in backups)
<1>1. Planned(work[p]) /\ Meaning(req[p], work[p])
  BY SavingPlanned DEF Promises, PlansHold
<1>2. req[p] # Idle /\ req[p] \in Calls
  BY DEF IndInv, Serving, TypeOK
<1>3. req[p] \in Requests \/ (req[p].op = "restore" /\ req[p].bundle \in backups)
  BY <1>2 DEF Promises, CallsHold, MayRun
<1>4. QED
  BY <1>1, <1>2, <1>3 DEF Planned, Meaning

\* The operations of the store.
LEMMA Operations ==
  ASSUME NEW r \in Calls
  PROVE  r.op \in {"record", "proof", "review", "probe", "read", "trim", "restore", "seed"}
  BY DEF Calls, Retention

\* The bundle of a trim is made of rows of the ledgers.
LEMMA BundleStep ==
  ASSUME IndInv, Promises, NEW p \in Procs, SaveBundle(p)
  PROVE  Ledgers!BackUp
<1>1. PICK w : w = work[p]
  OBVIOUS
<1>2. /\ pc[p] = "saving" /\ "bundle" \in w.left
      /\ backups' = backups \cup {Removed(w)}
      /\ UNCHANGED <<marker, dispatches, proofs>>
  BY <1>1 DEF SaveBundle
<1>3. Planned(w) /\ Meaning(req[p], w)
  BY <1>1, <1>2, SavingPlanned DEF Promises, PlansHold
<1>4. marker = None /\ marker' = None
  BY <1>2, <1>3 DEF Planned, Meaning
<1>5. Removed(w).dispatches \subseteq dispatches /\ Removed(w).proofs \subseteq proofs
  BY <1>2, <1>3 DEF Meaning, Removed
<1>6. QED
  BY <1>2, <1>4, <1>5, NothingPending DEF Ledgers!BackUp

\* Writing the dispatch ledger.
LEMMA DispatchesStep ==
  ASSUME IndInv, Promises, NEW p \in Procs, SaveDispatches(p), "marker" \notin work[p].left
  PROVE  \/ Ledgers!RecordDispatch \/ Ledgers!DropDispatches \/ Ledgers!AddDispatches
         \/ UNCHANGED Ledgers!vars
<1>1. PICK r, w : r = req[p] /\ w = work[p]
  OBVIOUS
<1>2. /\ pc[p] = "saving" /\ "dispatches" \in w.left /\ "bundle" \notin w.left
      /\ dispatches' = w.dispatches
      /\ UNCHANGED <<marker, proofs, backups>>
  BY <1>1 DEF SaveDispatches
<1>3. /\ marker = None
      /\ Planned(w) /\ Meaning(r, w) /\ Meant(r, w)
      /\ w.then = "release" /\ r.op # "proof" /\ r \in Calls
      /\ r \in Requests \/ (r.op = "restore" /\ r.bundle \in backups)
  BY <1>1, <1>2, Unmarked
<1>4. dispatches = w.readDispatches /\ proofs = w.readProofs
  BY <1>2, <1>3 DEF Planned, Meaning
<1>5. /\ CommittedDispatches = dispatches /\ CommittedDispatches' = dispatches'
      /\ CommittedProofs = proofs /\ CommittedProofs' = proofs'
  BY <1>2, <1>3, NothingPending
<1>6. CASE dispatches' = dispatches
  BY <1>2, <1>3, <1>6, FilesStandStill
<1>7. CASE r.op = "record"
  <2>1. dispatches' = dispatches \cup {r.dispatch}
    BY <1>2, <1>3, <1>4, <1>7 DEF Meant
  <2>2. r.dispatch.mode = "print"
    BY <1>3, <1>7, RecordsAssumption
  <2>3. QED
    BY <1>2, <1>5, <2>1, <2>2 DEF Ledgers!RecordDispatch
<1>8. CASE r.op = "trim" /\ dispatches' # dispatches
  <2> DEFINE b == Removed(w)
  <2>1. Trims(r, w)
    BY <1>3, <1>8 DEF Meant
  <2>2. b \in backups
    BY <1>2, <1>3, <1>4, <1>8 DEF Meaning
  <2>3. /\ b.dispatches = dispatches \ dispatches'
        /\ b.proofs = proofs \ w.proofs
    BY <1>2, <1>4 DEF Removed
  <2> HIDE DEF b
  <2>4. /\ dispatches' \subseteq dispatches /\ w.proofs \subseteq proofs
        /\ ProofDispatches(dispatches, w.proofs) \subseteq dispatches'
        /\ ClosedUnderLineage(dispatches', dispatches)
    BY <1>2, <1>4, <2>1 DEF Trims
  <2>5. proofs \ b.proofs = w.proofs
    BY <2>3, <2>4
  <2>6. /\ Ledgers!ProofDispatches(dispatches, proofs \ b.proofs) \subseteq dispatches'
        /\ Ledgers!ClosedUnderLineage(dispatches', dispatches)
    BY <2>4, <2>5, LedgerOperators
  <2>7. QED
    BY <1>2, <1>5, <2>2, <2>3, <2>4, <2>6 DEF Ledgers!DropDispatches
<1>9. CASE r.op = "restore"
  <2>1. /\ r.bundle \in backups
        /\ dispatches' = dispatches \cup r.bundle.dispatches
        /\ JobsOf(r.bundle.dispatches) \cap JobsOf(dispatches) = {}
    BY <1>2, <1>3, <1>4, <1>9, RequestsAssumption DEF Meant, Restorable
  <2>2. dispatches' \ dispatches = r.bundle.dispatches
    BY <2>1 DEF JobsOf
  <2>3. Ledgers!JobsOf(r.bundle.dispatches) \cap Ledgers!JobsOf(dispatches) = {}
    BY <2>1, LedgerOperators
  <2>4. QED
    BY <1>2, <1>5, <2>1, <2>2, <2>3 DEF Ledgers!AddDispatches
<1>10. CASE r.op = "seed"
  <2>1. /\ Seedable(dispatches, proofs, r.rows)
        /\ dispatches' = dispatches \cup {row.dispatch : row \in r.rows}
    BY <1>2, <1>3, <1>4, <1>10 DEF Meant
  <2>2. \A row \in r.rows : Paired(row)
    BY <1>3, <1>10, RecordsAssumption
  <2>3. \A row \in r.rows : /\ row.dispatch.mode = "proof"
                            /\ row.dispatch.job = row.proof.job
                            /\ row.proof.job \notin JobsOf(proofs)
    BY <1>3, <1>10, <2>1, <2>2, RecordsAssumption DEF Paired, Backs, Seedable, JobsOf
  <2>4. \A d \in dispatches' \ dispatches : d.mode = "proof" /\ d.job \notin Ledgers!JobsOf(proofs)
    BY <2>1, <2>3, LedgerOperators
  <2>5. QED
    BY <1>2, <1>5, <2>1, <2>4 DEF Ledgers!AddDispatches
<1>11. CASE r.op \in {"read", "probe", "review"}
  <2>1. dispatches' = dispatches
    BY <1>2, <1>3, <1>4, <1>11 DEF Meant
  <2>2. QED
    BY <1>6, <2>1
<1>12. QED
  BY <1>3, <1>6, <1>7, <1>8, <1>9, <1>10, <1>11, Operations

\* Writing the proof ledger.
LEMMA ProofsStep ==
  ASSUME IndInv, Promises, NEW p \in Procs, SaveProofs(p), "marker" \notin work[p].left
  PROVE  \/ Ledgers!ReviewProof \/ Ledgers!DropProofs \/ Ledgers!AddProofs
         \/ UNCHANGED Ledgers!vars
<1>1. PICK r, w : r = req[p] /\ w = work[p]
  OBVIOUS
<1>2. /\ pc[p] = "saving" /\ "proofs" \in w.left
      /\ "bundle" \notin w.left /\ "dispatches" \notin w.left
      /\ proofs' = w.proofs
      /\ UNCHANGED <<marker, dispatches, backups>>
  BY <1>1 DEF SaveProofs
<1>3. /\ marker = None
      /\ Planned(w) /\ Meaning(r, w) /\ Meant(r, w)
      /\ w.then = "release" /\ r.op # "proof" /\ r \in Calls
      /\ r \in Requests \/ (r.op = "restore" /\ r.bundle \in backups)
  BY <1>1, <1>2, Unmarked
<1>4. dispatches = w.dispatches /\ proofs = w.readProofs
  BY <1>2, <1>3 DEF Planned
<1>5. /\ CommittedDispatches = dispatches /\ CommittedDispatches' = dispatches'
      /\ CommittedProofs = proofs /\ CommittedProofs' = proofs'
  BY <1>2, <1>3, NothingPending
<1>6. CASE proofs' = proofs
  BY <1>2, <1>3, <1>6, FilesStandStill
<1>7. CASE r.op = "review"
  <2>1. /\ Reviewable(proofs, r.job)
        /\ proofs' = Reviewed(proofs, r.job, r.status, r.at)
    BY <1>2, <1>3, <1>4, <1>7 DEF Meant
  <2>2. PICK q \in proofs : q.job = r.job /\ q.status # "superseded"
    BY <2>1 DEF Reviewable
  <2>3. r.status \in {"approved", "rejected"} /\ r.at \in Times
    BY <1>3, <1>7, CallFields
  <2>4. proofs' = Ledgers!Reviewed(proofs, q.job, r.status, r.at)
    BY <2>1, <2>2, LedgerReviewed
  <2>5. QED
    BY <1>2, <1>5, <2>2, <2>3, <2>4 DEF Ledgers!ReviewProof
<1>8. CASE r.op = "trim" /\ proofs' # proofs
  <2>1. w.proofs \subseteq proofs
    BY <1>3, <1>4, <1>8 DEF Meant, Trims
  <2>2. Removed(w) \in backups
    BY <1>2, <1>3, <1>4, <1>8 DEF Meaning
  <2>3. proofs \ proofs' \subseteq Removed(w).proofs
    BY <1>2, <1>4 DEF Removed
  <2>4. QED
    BY <1>2, <1>5, <2>1, <2>2, <2>3 DEF Ledgers!DropProofs
<1>9. CASE r.op = "restore"
  <2>1. /\ r.bundle \in backups
        /\ proofs' = proofs \cup r.bundle.proofs
        /\ JobsOf(r.bundle.proofs) \cap JobsOf(proofs) = {}
    BY <1>2, <1>3, <1>4, <1>9, RequestsAssumption DEF Meant, Restorable
  <2>2. proofs' \ proofs = r.bundle.proofs
    BY <2>1 DEF JobsOf
  <2>3. Ledgers!JobsOf(proofs' \ proofs) \cap Ledgers!JobsOf(proofs) = {}
    BY <2>1, <2>2, LedgerOperators
  <2>4. QED
    BY <1>2, <1>5, <2>1, <2>2, <2>3 DEF Ledgers!AddProofs
<1>10. CASE r.op = "seed"
  <2>1. /\ \A row \in r.rows : \A q \in proofs : row.proof.job # q.job
        /\ proofs' = proofs \cup {row.proof : row \in r.rows}
        /\ \A row \in r.rows : row.dispatch \in dispatches
    BY <1>2, <1>3, <1>4, <1>10 DEF Meant, Seedable
  <2>2. \A row \in r.rows : /\ row.proof.status = "pending"
                            /\ row.dispatch.mode = "proof"
                            /\ row.dispatch.job = TrimmedId[row.proof.job]
    BY <1>3, <1>10, RecordsAssumption DEF Paired, Backs
  <2>3. JobsOf(proofs' \ proofs) \cap JobsOf(proofs) = {}
    BY <2>1 DEF JobsOf
  <2>4. \A q \in proofs' \ proofs :
          q.status = "pending" /\ \E d \in dispatches : d.mode = "proof" /\ d.job = TrimmedId[q.job]
    BY <2>1, <2>2
  <2>5. Ledgers!JobsOf(proofs' \ proofs) \cap Ledgers!JobsOf(proofs) = {}
    BY <2>3, LedgerOperators
  <2>6. QED
    BY <1>2, <1>5, <2>1, <2>4, <2>5 DEF Ledgers!AddProofs
<1>11. CASE r.op \in {"read", "probe", "record"}
  <2>1. proofs' = proofs
    BY <1>2, <1>3, <1>4, <1>11 DEF Meant
  <2>2. QED
    BY <1>6, <2>1
<1>12. QED
  BY <1>3, <1>6, <1>7, <1>8, <1>9, <1>10, <1>11, Operations

\* Everything else leaves the files alone.
LEMMA OtherSteps ==
  ASSUME IndInv, NEW p \in Procs, SomeCall(p) \/ Step(p) \/ Fails(p),
         ~CommitProof(p), ~QuarantineMarker(p),
         ~(SaveBundle(p) \/ SaveDispatches(p) \/ SaveProofs(p) \/ ClearMarker(p))
  PROVE  UNCHANGED <<marker, dispatches, proofs, backups>>
<1>1. CASE Operation(p)
  BY <1>1 DEF Operation, ReadLedgers, ProbeLedgers, RecordDispatch, ReviewProof, Trim,
              RefuseTrim, RestoreBundle, SeedLegacyProofs, Plan, Refuse, files
<1>2. CASE SomeCall(p) \/ Acquire(p) \/ TimeOut(p) \/ NothingToRecover(p) \/ ReplayMarker(p)
  BY <1>2 DEF SomeCall, Call, Acquire, TimeOut, NothingToRecover, ReplayMarker, files
<1>3. CASE Finish(p) \/ Release(p) \/ LockInitFails(p) \/ IOError(p) \/ ReleaseFails(p) \/ Crash(p)
  BY <1>3 DEF Finish, Release, LockInitFails, IOError, ReleaseFails, Crash, files
<1>4. QED
  BY <1>1, <1>2, <1>3 DEF Step, Save, Fails

LEMMA RefinementStep ==
  ASSUME ~MarkerReadsFail, IndInv, Promises, [Next]_vars
  PROVE  [Ledgers!Next]_(Ledgers!vars)
<1>1. ASSUME NEW p \in Procs, SomeCall(p) \/ Step(p) \/ Fails(p)
      PROVE  [Ledgers!Next]_(Ledgers!vars)
  <2>1. CASE CommitProof(p)
    BY <2>1, CommitStep DEF Ledgers!Next
  <2>2. CASE SaveBundle(p)
    BY <2>2, BundleStep DEF Ledgers!Next
  <2>3. CASE /\ SaveDispatches(p) \/ SaveProofs(p) \/ ClearMarker(p)
             /\ "marker" \in work[p].left
    BY <2>3, ApplyingStutters
  <2>4. CASE SaveDispatches(p) /\ "marker" \notin work[p].left
    BY <2>4, DispatchesStep DEF Ledgers!Next
  <2>5. CASE SaveProofs(p) /\ "marker" \notin work[p].left
    BY <2>5, ProofsStep DEF Ledgers!Next
  <2>6. "marker" \in work[p].left \/ ~ClearMarker(p)
    BY DEF ClearMarker
  <2>7. ~QuarantineMarker(p)
    BY DEF QuarantineMarker
  <2>8. CASE UNCHANGED <<marker, dispatches, proofs, backups>>
    BY <2>8, FilesStandStill
  <2>9. QED
    BY <1>1, <2>1, <2>2, <2>3, <2>4, <2>5, <2>6, <2>7, <2>8, OtherSteps
<1>2. CASE DeleteStaleLock \/ UNCHANGED vars
  BY <1>2, FilesStandStill DEF DeleteStaleLock, vars, files
<1>3. QED
  BY <1>1, <1>2 DEF Next

\* The calls of any number of processes, with crashes, failed writes and
\* replays between their steps, are steps of the abstract ledgers, as long as
\* no marker is unreadable (recover_proof_dispatch_transaction).
THEOREM StoreImplementsLedger ==
  ASSUME ~MarkerReadsFail
  PROVE  Spec => ImplementsLedger
<1>1. Init => Ledgers!Init
  BY DEF Init, Ledgers!Init, CommittedDispatches, CommittedProofs
<1>2. IndInv /\ Promises /\ [Next]_vars => [Ledgers!Next]_(Ledgers!vars)
  BY RefinementStep
<1>3. QED
  BY <1>1, <1>2, PromisesKept, PTL DEF Spec, ImplementsLedger, Ledgers!Spec

-----------------------------------------------------------------------------
(* Searches and trims.                                                      *)

\* The order of two timestamps as texts, spelt out.
TextOrder(s, t) ==
  \/ s.year < t.year
  \/ s.year = t.year /\ s.month < t.month
  \/ s.year = t.year /\ s.month = t.month /\ s.day < t.day
  \/ /\ s.year = t.year /\ s.month = t.month /\ s.day = t.day
     /\ \/ s.hour < t.hour
        \/ s.hour = t.hour /\ s.minute < t.minute
        \/ s.hour = t.hour /\ s.minute = t.minute /\ s.second < t.second

LEMMA TextOrderSpelt ==
  ASSUME NEW s, NEW t
  PROVE  TextBefore(s, t) <=> TextOrder(s, t)
<1>1. /\ Parts(s)[1] = s.year /\ Parts(s)[2] = s.month /\ Parts(s)[3] = s.day
      /\ Parts(s)[4] = s.hour /\ Parts(s)[5] = s.minute /\ Parts(s)[6] = s.second
  BY DEF Parts
<1>2. /\ Parts(t)[1] = t.year /\ Parts(t)[2] = t.month /\ Parts(t)[3] = t.day
      /\ Parts(t)[4] = t.hour /\ Parts(t)[5] = t.minute /\ Parts(t)[6] = t.second
  BY DEF Parts
<1> DEFINE F(i) == Parts(s)[i] < Parts(t)[i]
           E(i) == Parts(s)[i] = Parts(t)[i]
<1>3. TextBefore(s, t) <=> \E i \in 1..6 : F(i) /\ \A j \in 1..i - 1 : E(j)
  BY DEF TextBefore
<1> HIDE DEF F, E
<1>4. (\E i \in 1..6 : F(i) /\ \A j \in 1..i - 1 : E(j))
        <=> \/ F(1)
            \/ F(2) /\ E(1)
            \/ F(3) /\ E(1) /\ E(2)
            \/ F(4) /\ E(1) /\ E(2) /\ E(3)
            \/ F(5) /\ E(1) /\ E(2) /\ E(3) /\ E(4)
            \/ F(6) /\ E(1) /\ E(2) /\ E(3) /\ E(4) /\ E(5)
  OBVIOUS
<1>5. QED
  BY <1>1, <1>2, <1>3, <1>4 DEF F, E, TextOrder

\* The parts of a timestamp, and its seconds.
LEMMA StampParts ==
  ASSUME NEW s, s.year \in Int, ValidTimestamp(s)
  PROVE  /\ s.month \in 1..12 /\ s.day \in 1..DaysInMonth(s.year, s.month) /\ s.day \in Int
         /\ s.hour \in 0..23 /\ s.minute \in 0..59 /\ s.second \in 0..59
         /\ DaysFromCivil(s.year, s.month, s.day) \in Int
<1>1. /\ s.month \in 1..12 /\ s.day \in 1..DaysInMonth(s.year, s.month)
      /\ s.hour \in 0..23 /\ s.minute \in 0..59 /\ s.second \in 0..59
  BY DEF ValidTimestamp, ValidDate
<1>2. s.day \in Int
  BY <1>1, MonthsAreOrdered
<1>3. DaysFromCivil(s.year, s.month, s.day) \in Int
  BY <1>1, DateParts
<1>4. QED
  BY <1>1, <1>2, <1>3

\* Two days are further apart than any two clocks.
LEMMA DaysApart ==
  ASSUME NEW u \in Int, NEW v \in Int, NEW a \in Nat, NEW b \in Nat,
         a < 86400, b < 86400, u + 86400 <= v \/ (u = v /\ a < b)
  PROVE  u + a < v + b
  BY SMT

Hours == 0..23
Sixty == 0..59

\* The seconds of a day and a clock.
SecondsOf(x, h, m, c) == x * 86400 + h * 3600 + m * 60 + c

\* Seconds rank two times as their days, and then their clocks, do.
LEMMA SecondsInOrder ==
  ASSUME NEW x \in Int, NEW h \in Hours, NEW m \in Sixty, NEW c \in Sixty,
         NEW y \in Int, NEW i \in Hours, NEW n \in Sixty, NEW d \in Sixty,
         \/ x < y
         \/ x = y /\ \/ h < i
                     \/ h = i /\ m < n
                     \/ h = i /\ m = n /\ c < d
  PROVE  SecondsOf(x, h, m, c) < SecondsOf(y, i, n, d)
<1> DEFINE u == x * 86400
           v == y * 86400
           a == h * 3600 + m * 60 + c
           b == i * 3600 + n * 60 + d
<1>1. u \in Int /\ v \in Int
  BY SMT
<1>2. a \in Nat /\ a < 86400 /\ b \in Nat /\ b < 86400
  BY SMT DEF Hours, Sixty
<1>3. x < y => u + 86400 <= v
  BY SMT
<1>4. x = y => u = v
  BY SMT
<1>5. \/ h < i
      \/ h = i /\ m < n
      \/ h = i /\ m = n /\ c < d
      => a < b
  BY SMT DEF Hours, Sixty
<1>6. SecondsOf(x, h, m, c) = u + a /\ SecondsOf(y, i, n, d) = v + b
  BY <1>1, SMT DEF SecondsOf, Hours, Sixty
<1> HIDE DEF u, v, a, b
<1>7. u + a < v + b
  BY <1>1, <1>2, <1>3, <1>4, <1>5, DaysApart, SMT
<1>8. QED
  BY <1>6, <1>7

\* What is earlier in the text is earlier in seconds.
LEMMA TextBeforeIsEarlier ==
  ASSUME NEW s, NEW t, s.year \in Int, ValidTimestamp(s), t.year \in Int, ValidTimestamp(t),
         TextBefore(s, t)
  PROVE  UnixSeconds(s) < UnixSeconds(t)
<1> DEFINE x == DaysFromCivil(s.year, s.month, s.day)
           y == DaysFromCivil(t.year, t.month, t.day)
<1>1. /\ s.month \in 1..12 /\ s.day \in 1..DaysInMonth(s.year, s.month)
      /\ s.hour \in Hours /\ s.minute \in Sixty /\ s.second \in Sixty
      /\ x \in Int
  BY StampParts DEF Hours, Sixty
<1>2. /\ t.month \in 1..12 /\ t.day \in 1..DaysInMonth(t.year, t.month)
      /\ t.hour \in Hours /\ t.minute \in Sixty /\ t.second \in Sixty
      /\ y \in Int
  BY StampParts DEF Hours, Sixty
<1>3. \/ Before(<<s.year, s.month, s.day>>, <<t.year, t.month, t.day>>)
      \/ /\ x = y
         /\ \/ s.hour < t.hour
            \/ s.hour = t.hour /\ s.minute < t.minute
            \/ s.hour = t.hour /\ s.minute = t.minute /\ s.second < t.second
  BY TextOrderSpelt DEF TextOrder, Before
<1>4. UnixSeconds(s) = SecondsOf(x, s.hour, s.minute, s.second)
  BY DEF UnixSeconds, SecondsOf
<1>5. UnixSeconds(t) = SecondsOf(y, t.hour, t.minute, t.second)
  BY DEF UnixSeconds, SecondsOf
<1>6. CASE Before(<<s.year, s.month, s.day>>, <<t.year, t.month, t.day>>)
  <2>1. DaysFromCivil(s.year, s.month, s.day) < DaysFromCivil(t.year, t.month, t.day)
    BY <1>1, <1>2, <1>6, DatesKeepTheirOrder
  <2> HIDE DEF x, y
  <2>2. SecondsOf(x, s.hour, s.minute, s.second) < SecondsOf(y, t.hour, t.minute, t.second)
    BY <1>1, <1>2, <2>1, SecondsInOrder DEF x, y
  <2>3. QED
    BY <1>4, <1>5, <2>2
<1>7. CASE ~Before(<<s.year, s.month, s.day>>, <<t.year, t.month, t.day>>)
  <2> HIDE DEF x, y
  <2>1. /\ x = y
        /\ \/ s.hour < t.hour
           \/ s.hour = t.hour /\ s.minute < t.minute
           \/ s.hour = t.hour /\ s.minute = t.minute /\ s.second < t.second
    BY <1>3, <1>7
  <2>2. SecondsOf(x, s.hour, s.minute, s.second) < SecondsOf(y, t.hour, t.minute, t.second)
    BY <1>1, <1>2, <2>1, SecondsInOrder
  <2>3. QED
    BY <1>4, <1>5, <2>2
<1>8. QED
  BY <1>6, <1>7

\* And the other way round: a search and a trim rank rows alike.
LEMMA EarlierIsTextBefore ==
  ASSUME NEW s, NEW t, s.year \in Int, ValidTimestamp(s), t.year \in Int, ValidTimestamp(t),
         UnixSeconds(s) < UnixSeconds(t)
  PROVE  TextBefore(s, t)
<1>1. /\ s.month \in Int /\ s.day \in Int /\ s.hour \in Int /\ s.minute \in Int /\ s.second \in Int
      /\ DaysFromCivil(s.year, s.month, s.day) \in Int
  BY StampParts
<1>2. /\ t.month \in Int /\ t.day \in Int /\ t.hour \in Int /\ t.minute \in Int /\ t.second \in Int
      /\ DaysFromCivil(t.year, t.month, t.day) \in Int
  BY StampParts
<1>3. UnixSeconds(s) \in Int /\ UnixSeconds(t) \in Int
  BY <1>1, <1>2 DEF UnixSeconds
<1>4. CASE TextBefore(t, s)
  BY <1>3, <1>4, TextBeforeIsEarlier
<1>5. CASE ~TextBefore(t, s) /\ ~TextBefore(s, t)
  <2>1. /\ s.year = t.year /\ s.month = t.month /\ s.day = t.day
        /\ s.hour = t.hour /\ s.minute = t.minute /\ s.second = t.second
    BY <1>1, <1>2, <1>5, TextOrderSpelt DEF TextOrder
  <2>2. UnixSeconds(s) = UnixSeconds(t)
    BY <2>1 DEF UnixSeconds
  <2>3. QED
    BY <1>3, <2>2
<1>6. QED
  BY <1>4, <1>5

\* The rows that are as new as any others, as many as fit the size.
Newest(rows, size) ==
  {top \in SUBSET rows :
     /\ Cardinality(top) = IF size < Cardinality(rows) THEN size ELSE Cardinality(rows)
     /\ \A r \in top, s \in rows \ top : r.at >= s.at}

\* A search without a text shows the newest rows.
LEMMA ShownNewest ==
  ASSUME NEW ds, NEW ps, NEW limit, ResultLimit(limit) # 0
  PROVE  Shown(ds, ps, None, limit) = Newest(ds, ResultLimit(limit))
<1>1. {d \in ds : MatchesSearch(SearchEntry(d, ps), None)} = ds
  BY DEF MatchesSearch
<1>2. QED
  BY <1>1 DEF Shown, Newest

\* The timestamp of a time that has seconds.
LEMMA StampIs ==
  ASSUME NEW t \in Times, Seconds[t] # None
  PROVE  /\ Stamp[t] # None /\ Stamp[t].year \in Int /\ ValidTimestamp(Stamp[t])
         /\ Seconds[t] = UnixSeconds(Stamp[t])
<1>1. Stamp[t] # None /\ Seconds[t] = UnixSeconds(Stamp[t])
  BY ParsedAssumption
<1>2. Stamp[t].year \in FourDigits /\ ValidTimestamp(Stamp[t])
  BY <1>1, StampAssumption
<1>3. FourDigits \subseteq Int
  BY DEF FourDigits
<1>4. QED
  BY <1>1, <1>2, <1>3

\* A time of more seconds has the later text.
LEMMA LaterSecondsLaterText ==
  ASSUME NEW s \in Times, NEW t \in Times, Seconds[s] # None, Seconds[t] # None,
         Seconds[s] > Seconds[t]
  PROVE  s > t
<1>1. /\ Stamp[s] # None /\ Stamp[s].year \in Int /\ ValidTimestamp(Stamp[s])
      /\ Seconds[s] = UnixSeconds(Stamp[s])
  BY StampIs
<1>2. /\ Stamp[t] # None /\ Stamp[t].year \in Int /\ ValidTimestamp(Stamp[t])
      /\ Seconds[t] = UnixSeconds(Stamp[t])
  BY StampIs
<1>3. Seconds[s] \in Int /\ Seconds[t] \in Int
  BY SecondsAssumption
<1>4. UnixSeconds(Stamp[t]) < UnixSeconds(Stamp[s])
  BY <1>1, <1>2, <1>3
<1>5. TextBefore(Stamp[t], Stamp[s])
  BY <1>1, <1>2, <1>4, EarlierIsTextBefore
<1>6. t < s
  BY <1>1, <1>2, <1>5, TextAssumption
<1>7. QED
  BY <1>6, TimesAssumption

\* A ranking by seconds, where every text has some, is one by texts, too.
LEMMA RankedByText ==
  ASSUME NEW s \in Times, NEW t \in Times, NEW r,
         r.cutoff # None => Seconds[s] # None /\ Seconds[t] # None,
         RanksNotAfter(s, t, Seconds, r)
  PROVE  s >= t
<1>1. CASE r.cutoff = None
  BY <1>1 DEF RanksNotAfter
<1>2. CASE r.cutoff # None /\ Seconds[s] > Seconds[t]
  BY <1>2, LaterSecondsLaterText, TimesAssumption
<1>3. CASE r.cutoff # None /\ ~(Seconds[s] > Seconds[t])
  BY <1>3 DEF RanksNotAfter
<1>4. QED
  BY <1>1, <1>2, <1>3

\* The newest rows that a trim picks before it looks at their age are rows that
\* a search of that size could have shown.
LEMMA KeptAreShown ==
  ASSUME NEW rows \in SUBSET DispatchRow, NEW r \in Retention, r.entries # None,
         Rankable(rows, DispatchTimes(rows), Seconds, r),
         NEW kept \in Kept(rows, DispatchTimes(rows), Seconds, r)
  PROVE  \E top \in Newest(rows, r.entries) :
           \A d \in top : d \in kept \/ (r.cutoff # None /\ Seconds[d.at] < r.cutoff)
<1> DEFINE time == DispatchTimes(rows)
<1>1. \A d \in rows : time[d] = d.at /\ d.at \in Times
  BY DEF DispatchTimes, DispatchRow
<1>2. \A d \in rows : r.cutoff # None =>
        Seconds[d.at] # None /\ Seconds[d.at] \in Int /\ r.cutoff \in Int
  BY <1>1, SecondsAssumption DEF Rankable, Retention
<1> HIDE DEF time
<1>3. PICK top \in SUBSET rows :
        /\ Cardinality(top) = IF r.entries < Cardinality(rows) THEN r.entries ELSE Cardinality(rows)
        /\ \A x \in top, y \in rows \ top : RanksNotAfter(time[x], time[y], Seconds, r)
        /\ kept = {x \in top : r.cutoff # None => Seconds[time[x]] >= r.cutoff}
  BY DEF Kept, time
<1>4. \A x \in top, y \in rows \ top : x.at >= y.at
  BY <1>1, <1>2, <1>3, RankedByText
<1>5. top \in Newest(rows, r.entries)
  BY <1>3, <1>4 DEF Newest
<1>6. \A d \in top : d \in kept \/ (r.cutoff # None /\ Seconds[d.at] < r.cutoff)
  BY <1>1, <1>2, <1>3
<1>7. QED
  BY <1>5, <1>6

\* What a trim has removed and a search of its size could have shown is too old.
LEMMA SearchAgrees == IndInv /\ Promises => SearchAgreesWithTrim
<1>1. SUFFICES ASSUME IndInv, Promises, NEW p \in Procs, Trimmed(p),
                      req[p].scope # "proof", req[p].entries \in 1..200
               PROVE  \E top \in Shown(work[p].readDispatches, work[p].readProofs, None,
                                       req[p].entries) :
                        \A d \in top : \/ d \in dispatches
                                       \/ req[p].cutoff # None /\ Seconds[d.at] < req[p].cutoff
  BY DEF SearchAgreesWithTrim
<1>2. PICK r, w : r = req[p] /\ w = work[p]
  OBVIOUS
<1>3. /\ Delivered(r, w) /\ Trims(r, w) /\ r \in Calls /\ r.op = "trim" /\ ~r.dryRun
  BY <1>1, <1>2, Answered DEF Trimmed, Meant
<1>4. r \in Retention /\ r.entries # None
  BY <1>1, <1>2, <1>3, SecondsAssumption DEF Calls
<1>5. ResultLimit(r.entries) = r.entries /\ ResultLimit(r.entries) # 0
  BY <1>1, <1>2, <1>4 DEF ResultLimit
<1>6. w.readDispatches \in SUBSET DispatchRow /\ dispatches = w.dispatches
  <2>1. w \in Work
    BY <1>1, <1>2 DEF IndInv, TypeOK
  <2>2. QED
    BY <1>3, <2>1 DEF Work, Delivered
<1>7. PICK kept \in Kept(w.readDispatches, DispatchTimes(w.readDispatches), Seconds, r) :
        kept \subseteq dispatches
  BY <1>1, <1>2, <1>3, <1>6 DEF Trims
<1>8. \E top \in Newest(w.readDispatches, r.entries) :
        \A d \in top : d \in kept \/ (r.cutoff # None /\ Seconds[d.at] < r.cutoff)
  <2>1. Rankable(w.readDispatches, DispatchTimes(w.readDispatches), Seconds, r)
    BY <1>1, <1>2, <1>3 DEF Trims
  <2>2. QED
    BY <1>4, <1>6, <1>7, <2>1, KeptAreShown
<1>9. QED
  BY <1>2, <1>5, <1>7, <1>8, ShownNewest

\* Of the rows that a search of its size could have shown first, a trim has
\* removed none that is not too old, although with an age limit it compares
\* seconds of calendar dates and the search texts (search, trim).
THEOREM SearchesAgreeWithTrims == Spec => []SearchAgreesWithTrim
  BY SearchAgrees, PromisesKept, PTL
=============================================================================
