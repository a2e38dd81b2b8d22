------------------------------- MODULE Ledger -------------------------------
(***************************************************************************)
(* The rows of dispatch-ledger.json and proof-ledger.json and the pure     *)
(* functions of audit_store.rs that compute one ledger from another.       *)
(*                                                                         *)
(* A ledger is a set of rows: the code keeps a JSON array, but it never    *)
(* stores the same row twice and its order decides nothing except a tie    *)
(* between two rows of the same time when a trim ranks them, which is left *)
(* open here.  A time is a text, and the texts are numbered in their order;*)
(* actors, notes and artifact paths are left out, and what the gate        *)
(* compares of a dispatch (template version and match subject) is one      *)
(* value, its content.                                                     *)
(***************************************************************************)
EXTENDS Integers, FiniteSets

CONSTANTS Jobs,      \* job ids; a lineage is named by the job id at its root
          TrimmedId, \* a job id without the spaces around it
          Contents,  \* template version and match subject of a dispatch
          Times,     \* timestamps, the texts in the order of texts
          NoJob,     \* a dispatch that reprints no other job
          None       \* an absent value: no decision, no limit, no write

ASSUME TimesAssumption == Times \subseteq Nat
ASSUME NoJobAssumption == NoJob \notin Jobs
ASSUME NoneAssumption  == None \notin Times
ASSUME TrimAssumption  ==
  /\ TrimmedId \in [Jobs -> Jobs]
  /\ \A j \in Jobs : TrimmedId[TrimmedId[j]] = TrimmedId[j]

Statuses == {"pending", "approved", "rejected", "superseded"}
Live     == {"pending", "approved"}

\* PersistedDispatchRecord: job, lineage and parent of its audit record.
DispatchRow == [job : Jobs, lineage : Jobs, parent : Jobs \cup {NoJob},
                mode : {"proof", "print"}, content : Contents, at : Times]

\* ProofRecord; `decided' is the time of its decision, None while pending.
ProofRow == [job : Jobs, lineage : Jobs, at : Times, status : Statuses,
             decided : Times \cup {None}]

\* ProofDispatchTransaction, the content of proof-dispatch-transaction.json.
Transaction == [dispatch : DispatchRow, proof : ProofRow]

\* AuditLedgerBundle: the rows a trim removed.
Bundle == [dispatches : SUBSET DispatchRow, proofs : SUBSET ProofRow]

JobsOf(rows) == {r.job : r \in rows}

OneRowPerJob(rows) == \A r, s \in rows : r.job = s.job => r = s

-----------------------------------------------------------------------------
(* Proof rows: ProofRecord::pending, decide, and the upsert of a new proof. *)

PendingProof(job, lineage, at) ==
  [job |-> job, lineage |-> lineage, at |-> at, status |-> "pending",
   decided |-> None]

Decide(row, status, at) == [row EXCEPT !.status = status, !.decided = at]

\* The older live proofs of the lineage give way to the new one.
SupersededBy(row, new) ==
  IF row.lineage = new.lineage /\ row.status \in Live
  THEN Decide(row, "superseded", new.at)
  ELSE row

\* Mutant: pushes the new record without replacing the old one of that id.
UpsertPushes(proofs, new) ==
  {SupersededBy(row, new) : row \in proofs} \cup {new}

Upsert(proofs, new) ==
  {SupersededBy(row, new) : row \in {p \in proofs : p.job # new.job}}
    \cup {new}

Reviewable(proofs, job) ==
  \E row \in proofs : row.job = job /\ row.status # "superseded"

Reviewed(proofs, job, status, at) ==
  {IF row.job = job THEN Decide(row, status, at) ELSE row : row \in proofs}

-----------------------------------------------------------------------------
(* Retention: which rows a trim keeps. *)

RetentionTime(proof) ==
  IF proof.decided = None THEN proof.at ELSE proof.decided

\* Rows are compared by their texts alone, unless there is an age limit: only
\* then are the texts parsed, and compared by their seconds first.
RanksNotAfter(text, other, seconds, request) ==
  IF request.cutoff = None THEN text >= other
  ELSE \/ seconds[text] > seconds[other]
       \/ seconds[text] = seconds[other] /\ text >= other

\* The `entries' newest rows, of them those not older than the cutoff.  Rows
\* of the same time are ranked by position in the file: any of them here.
Kept(rows, time, seconds, request) ==
  LET size == IF request.entries = None THEN Cardinality(rows)
              ELSE IF request.entries < Cardinality(rows) THEN request.entries
              ELSE Cardinality(rows)
      newest == {top \in SUBSET rows :
                   /\ Cardinality(top) = size
                   /\ \A r \in top, s \in rows \ top :
                        RanksNotAfter(time[r], time[s], seconds, request)}
  IN  {{r \in top : request.cutoff # None => seconds[time[r]] >= request.cutoff} :
         top \in newest}

\* Whether an age limit can be applied: one text that is no timestamp fails it.
Rankable(rows, time, seconds, request) ==
  request.cutoff # None => \A r \in rows : seconds[time[r]] # None

DispatchTimes(dispatches) == [d \in dispatches |-> d.at]
ProofTimes(proofs)        == [p \in proofs |-> RetentionTime(p)]

\* A set of dispatches that holds every dispatch of a parent or of a lineage
\* root of one of its members.
ClosedUnderLineage(kept, dispatches) ==
  \A k \in kept, d \in dispatches :
    (d.job = k.parent \/ (d.job = k.lineage /\ k.lineage # k.job)) => d \in kept

ProofDispatches(dispatches, proofs) ==
  {d \in dispatches : d.mode = "proof" /\ d.job \in JobsOf(proofs)}

\* Mutant: follows the lineages but forgets the dispatches of kept proofs.
LineageOnly(dispatches, proofs, kept) ==
  {d \in dispatches :
     \A closed \in SUBSET dispatches :
       (kept \subseteq closed /\ ClosedUnderLineage(closed, dispatches))
         => d \in closed}

\* preserve_required_dispatches: the least closed set that holds the kept
\* dispatches and the proof dispatches of the kept proofs.
WithRequired(dispatches, proofs, kept) ==
  LET seeds == kept \cup ProofDispatches(dispatches, proofs)
  IN  {d \in dispatches :
         \A closed \in SUBSET dispatches :
           (seeds \subseteq closed /\ ClosedUnderLineage(closed, dispatches))
             => d \in closed}

\* validate_retention_request
ValidRetention(request) ==
  /\ request.cutoff # None \/ request.entries # None
  /\ request.entries # 0

-----------------------------------------------------------------------------
(* Restore, legacy seed and the approval the print gate looks up. *)

\* validate_restore_bundle
Restorable(dispatches, proofs, bundle) ==
  /\ bundle.dispatches # {} \/ bundle.proofs # {}
  /\ OneRowPerJob(bundle.dispatches)
  /\ OneRowPerJob(bundle.proofs)
  /\ JobsOf(bundle.dispatches) \cap JobsOf(dispatches) = {}
  /\ JobsOf(bundle.proofs) \cap JobsOf(proofs) = {}

\* validate_legacy_seed_records, on a set of [dispatch, proof] rows.
Seedable(dispatches, proofs, rows) ==
  LET known == {d \in dispatches : d.mode = "proof"} \cup proofs
  IN  /\ \A row \in rows : \A old \in known :
           row.proof.job # old.job /\ row.proof.lineage # old.lineage
      /\ \A r, s \in rows :
           r # s => /\ r.proof.job # s.proof.job
                    /\ r.proof.lineage # s.proof.lineage

\* approved_proof_from_records; a proof that is pending, rejected or superseded
\* is none.
ApprovedProofs(proofs, job) == {p \in proofs : p.job = job /\ p.status = "approved"}

\* collect_dispatch_mismatches: template version, SKU, brand, JAN or quantity.
Mismatched(dispatch, content) == dispatch.content # content

\* ensure_approved_proof_matches: the approved proof and its only dispatch
\* agree with each other and with the content about to be printed.
ApprovedMatch(dispatches, proofs, job, content) ==
  \E p \in ApprovedProofs(proofs, job) : \E d \in dispatches :
    /\ {e \in dispatches : e.mode = "proof" /\ e.job = job} = {d}
    /\ d.lineage = p.lineage
    /\ ~Mismatched(d, content)
=============================================================================
