----------------------------- MODULE LegacySeed -----------------------------
(***************************************************************************)
(* The seed of proofs that were approved before there was a ledger         *)
(* (process_legacy_proof_seed of main.rs): a batch of rows is checked on a *)
(* snapshot of the ledgers, row by row, and handed to the audit store,     *)
(* which checks it again under its lock (Seedable of Ledger, the seed      *)
(* operation of AuditStore).                                               *)
(* A row of the request is a record of texts, `jan' as the characters Jan  *)
(* reads, `lineage' Absent if it is not given.  Times are the texts the    *)
(* rows give for them: nothing here parses one.                            *)
(***************************************************************************)
EXTENDS PrintJob, Ledger

CONSTANTS AbsolutePaths, PdfPaths, ExistingPaths,
          ProofDirPaths,  \* those that lie under the proof directory, links resolved
          PdfHeaders      \* those whose file begins with %PDF-

Rows(s) == {s[i] : i \in DOMAIN s}

-----------------------------------------------------------------------------
(* One row. *)

SeedJob(row) == Trimmed[row.job]

\* The job id stands in for a lineage that is absent or blank.
SeedLineage(row) ==
  IF row.lineage = Absent \/ IsBlank(row.lineage) THEN SeedJob(row)
  ELSE Trimmed[row.lineage]

\* validate_legacy_seed_artifact_path
ArtifactAccepted(path) ==
  Trimmed[path] \in AbsolutePaths \cap PdfPaths \cap ExistingPaths \cap ProofDirPaths

\* validate_existing_proof_artifact_path, which the gate of a print asks for;
\* the seed is content with the name of the file.
ArtifactReadable(path) == ArtifactAccepted(path) /\ Trimmed[path] \in PdfHeaders

\* validate_legacy_seed_actor
ActorOK(row) == ~IsBlank(row.user) /\ ~IsBlank(row.name)

\* validate_legacy_seed_match_subject
SeedSubject(row) ==
  IF IsBlank(row.sku) \/ IsBlank(row.brand) \/ row.qty = 0 \/ ~Accepts(row.jan)
  THEN Invalid
  ELSE [sku |-> Trimmed[row.sku], brand |-> Trimmed[row.brand],
        jan |-> Parse(row.jan).digits, qty |-> row.qty]

\* What is checked of a row by itself, after its ids.
FieldsOK(row) ==
  /\ ~IsBlank(row.version) /\ ActorOK(row) /\ ~IsBlank(row.at) /\ ~IsBlank(row.path)
  /\ SeedSubject(row) # Invalid
  /\ ArtifactAccepted(row.path)

\* The two records of a row: a dispatch that was never made, and its proof.
SeedRecord(row) ==
  LET job == SeedJob(row)
      at == Trimmed[row.at]
  IN  [dispatch |-> [job |-> job, lineage |-> SeedLineage(row), parent |-> NoJob,
                     mode |-> "proof", at |-> at,
                     content |-> [version |-> Trimmed[row.version],
                                  subject |-> SeedSubject(row)]],
       proof |-> PendingProof(job, SeedLineage(row), at)]

-----------------------------------------------------------------------------
(* The batch.  Ids are claimed in the order of the rows, before the other   *)
(* fields are looked at, so a row that fails later still claims them.       *)

KnownIn(dispatches, proofs) == {d \in dispatches : d.mode = "proof"} \cup proofs

IdsNew(row, known) ==
  /\ SeedJob(row) # Empty
  /\ \A old \in known : SeedJob(row) # old.job /\ SeedLineage(row) # old.lineage

\* A claim of the job id only counts if the ids are new to the ledgers ...
JobClaimed(rows, i, known) ==
  \E j \in 1..i - 1 : IdsNew(rows[j], known) /\ SeedJob(rows[j]) = SeedJob(rows[i])

\* ... and one of the lineage only if the job id was free, too.
LineageClaimed(rows, i, known) ==
  \E j \in 1..i - 1 :
    /\ IdsNew(rows[j], known) /\ ~JobClaimed(rows, j, known)
    /\ SeedLineage(rows[j]) = SeedLineage(rows[i])

\* validate_legacy_proof_seed_row
RowOK(rows, i, known) ==
  /\ IdsNew(rows[i], known)
  /\ ~JobClaimed(rows, i, known)
  /\ ~LineageClaimed(rows, i, known)
  /\ FieldsOK(rows[i])

BatchOK(rows, known) == \A i \in DOMAIN rows : RowOK(rows, i, known)

SeedRecords(rows) == {SeedRecord(row) : row \in Rows(rows)}

\* The ledgers once the records are pushed: dispatches before proofs.
SeededDispatches(dispatches, records) == dispatches \cup {r.dispatch : r \in records}
SeededProofs(proofs, records) == proofs \cup {r.proof : r \in records}

\* process_legacy_proof_seed, on the snapshot it reads first: what it asks the
\* store for, {} if nothing is to be applied.
Requested(rows, apply, dispatches, proofs) ==
  IF rows # <<>> /\ apply /\ BatchOK(rows, KnownIn(dispatches, proofs))
  THEN SeedRecords(rows) ELSE {}
=============================================================================
