---------------------------- MODULE MCAuditStore ----------------------------
(* Instances of AuditStore for TLC: one lineage with two proofs and a print. *)
EXTENDS AuditViews, TLC

CONSTANTS p1, p2, j1, c,
          p1s, p2s  \* p1 and p2 as a client may send them, with spaces around them

MCTrimmedId == [j \in {p1, p2, j1, p1s, p2s} |->
                  IF j = p1s THEN p1 ELSE IF j = p2s THEN p2 ELSE j]

\* The last second of a leap day, the next one, the next year, and a text that
\* is no timestamp.
MCStamp ==
  <<[year |-> 2024, month |-> 2, day |-> 29, hour |-> 23, minute |-> 59, second |-> 59],
    [year |-> 2024, month |-> 3, day |-> 1, hour |-> 0, minute |-> 0, second |-> 0],
    [year |-> 2025, month |-> 1, day |-> 1, hour |-> 0, minute |-> 0, second |-> 0],
    None>>

MCTimes   == 1..4
MCSeconds == [t \in MCTimes |-> IF t = 4 THEN None ELSE UnixSeconds(MCStamp[t])]

ProofDispatch(job, at) ==
  [job |-> MCTrimmedId[job], lineage |-> p1, parent |-> NoJob, mode |-> "proof",
   content |-> c, at |-> at]

PrintDispatch(job, parent, at) ==
  [job |-> job, lineage |-> p1, parent |-> parent, mode |-> "print", content |-> c, at |-> at]

\* The lineage of a proof as it was sent, too.
ProofCall(job, lineage, at) ==
  [op |-> "proof", dispatch |-> ProofDispatch(job, at),
   proof |-> PendingProof(job, lineage, at)]

TrimCall(scope, entries, cutoff) ==
  [op |-> "trim", scope |-> scope, entries |-> entries, cutoff |-> cutoff, dryRun |-> FALSE]

Review(job, status, at) == [op |-> "review", job |-> job, status |-> status, at |-> at]

SeedCall(job, at) ==
  [op |-> "seed",
   rows |-> {[dispatch |-> ProofDispatch(job, at), proof |-> PendingProof(job, p1, at)]}]

\* Proof dispatches that supersede each other, an approval, a print and a trim,
\* one job id with spaces around it.
CrashRequests ==
  {ProofCall(p1, p1, 1), ProofCall(p2s, p1, 2), Review(p1, "approved", 2),
   [op |-> "record", dispatch |-> PrintDispatch(j1, NoJob, 3)],
   TrimCall("all", 1, None)}

\* The other calls: a seed at a malformed time, a proof dispatched again, with
\* spaces in its lineage, a rejection, a print whose parent is not its root,
\* trims of one ledger that parse the times, reads and the writability probes.
MixedRequests ==
  {SeedCall(p1, 4), ProofCall(p1, p1s, 1), ProofCall(p2, p1, 2), Review(p1, "rejected", 3),
   TrimCall("proof", None, MCSeconds[3]), TrimCall("dispatch", 1, MCSeconds[2]),
   [op |-> "record", dispatch |-> PrintDispatch(j1, p2, 3)],
   [op |-> "probe", both |-> TRUE], [op |-> "read"]}

\* A proof dispatch and its approval, for the liveness runs.
ProofRequests == {ProofCall(p1, p1, 1), ProofCall(p2, p1, 2), Review(p1, "approved", 2)}

\* One proof, and a trim that removes it for its age.
TrimRequests == {ProofCall(p1, p1, 1), TrimCall("all", None, MCSeconds[3])}

Symmetry == Permutations(Procs)
=============================================================================
