---------------------------- MODULE AuditLedger ----------------------------
(***************************************************************************)
(* What the audit store promises to its callers, without lock, marker,     *)
(* processes or faults: two ledgers and the bundles cut from them, where   *)
(* a proof and its dispatch are committed in one step and nothing leaves a *)
(* ledger that a bundle does not hold.  A trim, a restore and a seed are   *)
(* two steps, one for each ledger, and the second may never come: the code *)
(* writes no marker for them.  AuditStore implements this (see its         *)
(* ImplementsLedger).                                                      *)
(***************************************************************************)
EXTENDS Ledger

VARIABLES dispatches, proofs, backups

vars == <<dispatches, proofs, backups>>

Init == dispatches = {} /\ proofs = {} /\ backups = {}

RecordDispatch ==
  /\ \E d \in dispatches' : d.mode = "print" /\ dispatches' = dispatches \cup {d}
  /\ UNCHANGED <<proofs, backups>>

\* Both rows at once, and the older live proofs of the lineage superseded.
CommitProof ==
  /\ \E d \in dispatches', p \in proofs' :
       /\ d.mode = "proof" /\ d.job = TrimmedId[p.job] /\ p.status = "pending"
       /\ dispatches' = dispatches \cup {d}
       /\ proofs' = Upsert(proofs, p)
  /\ UNCHANGED backups

\* A decision on a proof that no newer one has superseded.
ReviewProof ==
  /\ \E p \in proofs, status \in {"approved", "rejected"}, at \in Times :
       /\ p.status # "superseded"
       /\ proofs' = Reviewed(proofs, p.job, status, at)
  /\ UNCHANGED <<dispatches, backups>>

BackUp ==
  /\ \E b \in backups' :
       /\ b.dispatches \subseteq dispatches /\ b.proofs \subseteq proofs
       /\ backups' = backups \cup {b}
  /\ UNCHANGED <<dispatches, proofs>>

\* Rows of one bundle go, and none that a row which stays depends on.
DropDispatches ==
  /\ dispatches' \subseteq dispatches
  /\ \E b \in backups :
       /\ dispatches \ dispatches' \subseteq b.dispatches
       /\ ProofDispatches(dispatches, proofs \ b.proofs) \subseteq dispatches'
  /\ ClosedUnderLineage(dispatches', dispatches)
  /\ UNCHANGED <<proofs, backups>>

DropProofs ==
  /\ proofs' \subseteq proofs
  /\ \E b \in backups : proofs \ proofs' \subseteq b.proofs
  /\ UNCHANGED <<dispatches, backups>>

\* Rows of a bundle or of a seed come in, under job ids the ledger did not know.
AddDispatches ==
  /\ dispatches \subseteq dispatches'
  /\ \/ \E b \in backups : /\ dispatches' \ dispatches = b.dispatches
                           /\ JobsOf(b.dispatches) \cap JobsOf(dispatches) = {}
     \/ \A d \in dispatches' \ dispatches :
          d.mode = "proof" /\ d.job \notin JobsOf(proofs)
  /\ UNCHANGED <<proofs, backups>>

AddProofs ==
  /\ proofs \subseteq proofs'
  /\ JobsOf(proofs' \ proofs) \cap JobsOf(proofs) = {}
  /\ \/ \E b \in backups : proofs' \ proofs = b.proofs
     \/ \A p \in proofs' \ proofs :
          /\ p.status = "pending"
          /\ \E d \in dispatches : d.mode = "proof" /\ d.job = TrimmedId[p.job]
  /\ UNCHANGED <<dispatches, backups>>

Next ==
  \/ RecordDispatch \/ CommitProof \/ ReviewProof \/ BackUp
  \/ DropDispatches \/ DropProofs \/ AddDispatches \/ AddProofs

Spec == Init /\ [][Next]_vars
=============================================================================
