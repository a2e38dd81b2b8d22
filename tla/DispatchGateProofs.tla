-------------------------- MODULE DispatchGateProofs --------------------------
(***************************************************************************)
(* Proofs about DispatchGate for any hosts, requests, templates and bounds:*)
(* what leaves the machine was approved, and a dispatch that is answered   *)
(* "ok" is in the ledgers, over reviews, dispatches and saves of templates *)
(* between any two steps of a dispatch, failures and crashes.              *)
(***************************************************************************)
EXTENDS DispatchGate, LedgerProofs

-----------------------------------------------------------------------------
(* The inductive invariant.                                                 *)

ApprovalOf(p, d) == [job |-> p.job, lineage |-> p.lineage, content |-> d.content]

ProofDispatchesOf(job) == {e \in dispatches : e.mode = "proof" /\ e.job = job}

\* The ledgers: an approved proof was approved for what its only dispatch says,
\* because a later dispatch of its job id makes it pending again or, sent with
\* other spaces around the id, is a second one; and the lineage of a dispatch
\* was trimmed.
LedgersHold ==
  /\ OneRowPerJob(proofs)
  /\ \A d \in dispatches : d.lineage # Blank /\ TrimmedId[d.lineage] = d.lineage
  /\ \A p \in proofs : ProofDispatchesOf(TrimmedId[p.job]) # {}
  /\ \A p \in proofs, d \in dispatches :
       p.status = "approved" /\ ProofDispatchesOf(p.job) = {d}
         => ApprovalOf(p, d) \in approvals

\* An approval that a request may be printed for.
ApprovedFor(r) ==
  \E a \in approvals :
    a.job = Source(r) /\ a.content = r.content /\ a.lineage = DispatchLineage(r)

\* What a request asked for has been made.
Submitted(r) ==
  IF r.mode = "proof" THEN artifacts[r.job] # None
  ELSE \E o \in outputs : o.job = TrimmedId[r.job] /\ o.lineage = DispatchLineage(r)

InLedgers(r) ==
  /\ DispatchRecord(r) \in dispatches
  /\ r.mode = "proof" => r.job \in JobsOf(proofs)

\* What a host may rely on, where it is.
HostHolds(h) ==
  LET r == req[h] IN
  /\ pc[h] # "idle" => r \in Request
  /\ pc[h] \in {"preflight", "agent"} => catalog[r.content.version] # None
  /\ pc[h] \in {"preflight", "agent", "record"} =>
       (r.mode = "print" /\ ~r.bypass => ApprovedFor(r))
  /\ pc[h] \in {"record", "ok"} => r.mode \in {"proof", "print"} /\ Submitted(r)
  /\ pc[h] = "ok" => InLedgers(r)

IndInv == TypeOK /\ LedgersHold /\ PrintsWereApproved /\ \A h \in Hosts : HostHolds(h)

-----------------------------------------------------------------------------
(* What a step may rely on for the hosts it does not move.                  *)

Grows ==
  /\ approvals \subseteq approvals'
  /\ outputs \subseteq outputs'
  /\ dispatches \subseteq dispatches'
  /\ JobsOf(proofs) \subseteq JobsOf(proofs')
  /\ \A j \in Jobs : artifacts[j] # None => artifacts'[j] # None
  /\ \A v \in Versions : catalog[v] # None => catalog'[v] # None

Alone(h) == \A g \in Hosts : g # h => pc'[g] = pc[g] /\ req'[g] = req[g]

\* The fields of a request are of their types.
LEMMA RequestFields ==
  ASSUME NEW r \in Request
  PROVE  /\ r.mode \in {"proof", "print", "none"}
         /\ r.job \in Jobs /\ r.job # Blank
         /\ r.content \in Contents /\ r.content.version \in Versions
         /\ r.content.subject \in Subjects
         /\ r.at \in Times
         /\ r.lineage \in Jobs \cup {NoJob}
         /\ r.reprintOf \in Jobs \cup {NoJob}
         /\ r.source \in Jobs \cup {NoJob}
         /\ r.bypass \in BOOLEAN
  BY GateAssumption DEF Request

\* What trimming an id gives.
LEMMA TrimmedIs ==
  ASSUME NEW j \in Jobs
  PROVE  /\ TrimmedId[j] \in Jobs /\ TrimmedId[TrimmedId[j]] = TrimmedId[j]
         /\ j # Blank => TrimmedId[j] # Blank
  BY TrimAssumption, GateAssumption

\* A host that stands still keeps what it relies on.
LEMMA HostFrame ==
  ASSUME Grows, NEW h \in Hosts, HostHolds(h), pc'[h] = pc[h], req'[h] = req[h]
  PROVE  HostHolds(h)'
<1> DEFINE r == req[h]
<1>1. CASE pc[h] = "idle"
  BY <1>1 DEF HostHolds
<1>2. CASE pc[h] # "idle"
  <2>1. r \in Request /\ r.content.version \in Versions /\ r.job \in Jobs
    BY <1>2, RequestFields DEF HostHolds
  <2>2. pc[h] \in {"preflight", "agent"} => catalog'[r.content.version] # None
    BY <2>1 DEF HostHolds, Grows
  <2>3. ApprovedFor(r) => ApprovedFor(r)'
    BY DEF ApprovedFor, Grows, DispatchLineage, Source, TrimmedField, Given
  <2>4. Submitted(r) => Submitted(r)'
    BY <2>1 DEF Submitted, Grows, DispatchLineage, Given
  <2>5. InLedgers(r) => InLedgers(r)'
    BY DEF InLedgers, Grows, DispatchRecord, DispatchLineage, TrimmedField, Given
  <2>6. QED
    BY <2>1, <2>2, <2>3, <2>4, <2>5 DEF HostHolds
<1>3. QED
  BY <1>1, <1>2

-----------------------------------------------------------------------------
(* The ledgers.                                                             *)

LEMMA DispatchLineageIsJob ==
  ASSUME NEW r \in Request
  PROVE  /\ DispatchLineage(r) \in Jobs /\ DispatchLineage(r) # Blank
         /\ TrimmedId[DispatchLineage(r)] = DispatchLineage(r)
<1> DEFINE j == IF Given(r.lineage) THEN r.lineage
                ELSE IF Given(r.reprintOf) THEN r.reprintOf
                ELSE r.job
<1>1. j \in Jobs /\ j # Blank
  BY RequestFields DEF Given
<1>2. DispatchLineage(r) = TrimmedId[j]
  BY DEF DispatchLineage
<1> HIDE DEF j
<1>3. QED
  BY <1>1, <1>2, TrimmedIs

LEMMA ProofLineageIsJob ==
  ASSUME NEW r \in Request
  PROVE  ProofLineage(r) \in Jobs
  BY RequestFields DEF ProofLineage

\* Only requests that the agent accepts come to be recorded.
LEMMA DispatchRecordType ==
  ASSUME NEW r \in Request, r.mode \in {"proof", "print"}
  PROVE  /\ DispatchRecord(r) \in DispatchRow
         /\ DispatchRecord(r).lineage # Blank
         /\ TrimmedId[DispatchRecord(r).lineage] = DispatchRecord(r).lineage
         /\ DispatchRecord(r).mode = r.mode /\ DispatchRecord(r).job = TrimmedId[r.job]
<1>1. TrimmedId[r.job] \in Jobs
  BY RequestFields, TrimmedIs
<1>2. TrimmedField(r.reprintOf) \in Jobs \cup {NoJob}
  BY RequestFields, TrimmedIs DEF TrimmedField, Given
<1>3. QED
  BY <1>1, <1>2, RequestFields, DispatchLineageIsJob DEF DispatchRecord, DispatchRow

LEMMA ProofRecordType ==
  ASSUME NEW r \in Request
  PROVE  /\ ProofRecord(r) \in ProofRow
         /\ ProofRecord(r).job = r.job /\ ProofRecord(r).status = "pending"
  BY RequestFields, ProofLineageIsJob
     DEF ProofRecord, PendingProof, ProofRow, Statuses

\* An approved proof of the ledger after an upsert was there before, and its
\* job is another.
LEMMA UpsertApproved ==
  ASSUME NEW rows \in SUBSET ProofRow, NEW new \in ProofRow, new.status = "pending",
         NEW p \in Upsert(rows, new), p.status = "approved"
  PROVE  p \in rows /\ p.job # new.job
<1>1. PICK row \in {q \in rows : q.job # new.job} : p = SupersededBy(row, new)
  BY DEF Upsert
<1>2. Decide(row, "superseded", new.at).status = "superseded"
  BY DEF Decide, ProofRow
<1>3. p = row
  BY <1>1, <1>2 DEF SupersededBy
<1>4. QED
  BY <1>1, <1>3

\* record_dispatch and record_proof_dispatch keep the ledgers in order and
\* take no job away.
LEMMA RecordedLedgers ==
  ASSUME TypeOK, LedgersHold, NEW r \in Request, r.mode \in {"proof", "print"},
         Recorded(r), UNCHANGED approvals
  PROVE  /\ dispatches' \in SUBSET DispatchRow /\ proofs' \in SUBSET ProofRow
         /\ LedgersHold'
         /\ dispatches \subseteq dispatches'
         /\ JobsOf(proofs) \subseteq JobsOf(proofs')
         /\ DispatchRecord(r) \in dispatches'
         /\ r.mode = "proof" => r.job \in JobsOf(proofs')
<1> DEFINE new == ProofRecord(r)
           row == DispatchRecord(r)
<1>1. dispatches \in SUBSET DispatchRow /\ proofs \in SUBSET ProofRow
  BY DEF TypeOK
<1>2. /\ row \in DispatchRow /\ row.lineage # Blank /\ TrimmedId[row.lineage] = row.lineage
      /\ row.mode = r.mode /\ row.job = TrimmedId[r.job]
      /\ new \in ProofRow /\ new.job = r.job /\ new.status = "pending"
  BY DispatchRecordType, ProofRecordType
<1>3. dispatches' = dispatches \cup {row}
  BY DEF Recorded
<1> HIDE DEF row, new
<1>4. \A d \in dispatches' : d.lineage # Blank /\ TrimmedId[d.lineage] = d.lineage
  BY <1>2, <1>3 DEF LedgersHold
<1>5. CASE r.mode = "proof"
  <2>1. proofs' = Upsert(proofs, new)
    BY <1>5 DEF Recorded, new
  <2>2. proofs' \in SUBSET ProofRow /\ OneRowPerJob(proofs')
    BY <1>1, <1>2, <2>1, UpsertType, UpsertUnique DEF LedgersHold
  <2>3. /\ \A p \in proofs : p.job \in JobsOf(proofs')
        /\ new.job \in JobsOf(proofs')
    BY <1>1, <1>2, <2>1, UpsertJobs DEF JobsOf
  <2>4. ASSUME NEW p \in proofs'
        PROVE  (ProofDispatchesOf(TrimmedId[p.job]) # {})'
    <3>1. p = new \/ \E q \in proofs : q.job = p.job
      BY <1>1, <1>2, <2>1, UpsertRows
    <3>2. CASE p = new
      <4>1. row \in dispatches' /\ row.mode = "proof" /\ row.job = TrimmedId[p.job]
        BY <1>2, <1>3, <1>5, <3>2
      <4>2. QED
        BY <4>1 DEF ProofDispatchesOf
    <3>3. CASE \E q \in proofs : q.job = p.job
      <4>1. ProofDispatchesOf(TrimmedId[p.job]) # {}
        BY <3>3 DEF LedgersHold
      <4>2. QED
        BY <1>3, <4>1 DEF ProofDispatchesOf
    <3>4. QED
      BY <3>1, <3>2, <3>3
  <2>5. ASSUME NEW p \in proofs', NEW d \in dispatches', p.status = "approved",
               ProofDispatchesOf(p.job)' = {d}
        PROVE  ApprovalOf(p, d) \in approvals'
    <3>1. p \in proofs /\ p.job # r.job
      BY <1>1, <1>2, <2>1, <2>5, UpsertApproved
    <3>2. \A e \in dispatches' : e.mode = "proof" /\ e.job = p.job => e = d
      BY <2>5 DEF ProofDispatchesOf
    <3>3. d.mode = "proof" /\ d.job = p.job
      BY <2>5 DEF ProofDispatchesOf
    <3>4. d \in dispatches
      <4>1. CASE d = row
        <5>1. r.job \in Jobs /\ p.job = TrimmedId[r.job]
          BY <1>2, <3>3, <4>1, RequestFields
        <5>2. TrimmedId[p.job] = p.job
          BY <5>1, TrimmedIs
        <5>3. PICK e \in dispatches : e.mode = "proof" /\ e.job = p.job
          BY <3>1, <5>2 DEF LedgersHold, ProofDispatchesOf
        <5>4. QED
          BY <1>3, <3>2, <5>3
      <4>2. QED
        BY <1>3, <4>1
    <3>5. ProofDispatchesOf(p.job) = {d}
      BY <1>3, <3>2, <3>3, <3>4 DEF ProofDispatchesOf
    <3>6. QED
      BY <2>5, <3>1, <3>4, <3>5 DEF LedgersHold
  <2>6. LedgersHold'
    <3>1. OneRowPerJob(proofs)'
      BY <2>2 DEF OneRowPerJob
    <3>2. \A p \in proofs', d \in dispatches' :
            p.status = "approved" /\ ProofDispatchesOf(p.job)' = {d}
              => ApprovalOf(p, d)' \in approvals'
      BY <2>5 DEF ApprovalOf
    <3>3. QED
      BY <1>4, <2>4, <3>1, <3>2 DEF LedgersHold
  <2>7. QED
    BY <1>1, <1>2, <1>3, <2>2, <2>3, <2>6 DEF JobsOf, row
<1>6. CASE r.mode = "print"
  <2>1. proofs' = proofs
    BY <1>6 DEF Recorded
  <2>2. \A j : ProofDispatchesOf(j)' = ProofDispatchesOf(j)
    BY <1>2, <1>3, <1>6 DEF ProofDispatchesOf
  <2>3. LedgersHold'
    <3>1. OneRowPerJob(proofs)' /\ \A p \in proofs' : (ProofDispatchesOf(TrimmedId[p.job]) # {})'
      BY <2>1, <2>2 DEF LedgersHold, OneRowPerJob
    <3>2. \A p \in proofs', d \in dispatches' :
            p.status = "approved" /\ ProofDispatchesOf(p.job)' = {d}
              => ApprovalOf(p, d)' \in approvals'
      <4>1. SUFFICES ASSUME NEW p \in proofs, NEW d, p.status = "approved",
                            ProofDispatchesOf(p.job) = {d}
                     PROVE  ApprovalOf(p, d) \in approvals
        BY <2>1, <2>2 DEF ApprovalOf
      <4>2. d \in dispatches
        BY <4>1 DEF ProofDispatchesOf
      <4>3. QED
        BY <4>1, <4>2 DEF LedgersHold
    <3>3. QED
      BY <1>4, <3>1, <3>2 DEF LedgersHold
  <2>4. QED
    BY <1>1, <1>2, <1>3, <1>6, <2>1, <2>3 DEF row
<1>7. QED
  BY <1>5, <1>6

\* The record of a job that is there is the one LineageOfProof looks up.
LEMMA LineageFound ==
  ASSUME OneRowPerJob(proofs), NEW p \in proofs
  PROVE  LineageOfProof(p.job) = p.lineage
<1>1. (CHOOSE q \in proofs : q.job = p.job) = p
  BY DEF OneRowPerJob
<1>2. QED
  BY <1>1 DEF LineageOfProof

\* A review keeps the ledgers in order: what it approves is remembered.
LEMMA ReviewedLedgers ==
  ASSUME TypeOK, LedgersHold, NEW job \in Jobs, NEW status \in {"approved", "rejected"},
         Review(job, status)
  PROVE  /\ proofs' \in SUBSET ProofRow
         /\ LedgersHold'
         /\ JobsOf(proofs) \subseteq JobsOf(proofs')
         /\ approvals \subseteq approvals'
<1>1. proofs \in SUBSET ProofRow
  BY DEF TypeOK
<1>2. /\ proofs' = Reviewed(proofs, job, status, ReviewedAt)
      /\ dispatches' = dispatches
  BY DEF Review
<1>3. status \in Statuses /\ ReviewedAt \in Times
  BY GateAssumption DEF Statuses
<1>4. proofs' \in SUBSET ProofRow /\ \A p \in proofs : p.job \in JobsOf(proofs')
  BY <1>1, <1>2, <1>3, ReviewedType
<1>5. approvals \subseteq approvals'
  BY DEF Review
<1> DEFINE After(row) == IF row.job = job THEN Decide(row, status, ReviewedAt) ELSE row
<1>6. \A row \in proofs : /\ After(row).job = row.job
                          /\ After(row).lineage = row.lineage
                          /\ row.job = job => After(row).status = status
                          /\ row.job # job => After(row) = row
  BY <1>1 DEF Decide, ProofRow
<1>7. proofs' = {After(row) : row \in proofs}
  BY <1>2 DEF Reviewed
<1> HIDE DEF After
<1>8. OneRowPerJob(proofs')
  BY <1>6, <1>7 DEF LedgersHold, OneRowPerJob
<1>9. \A j : ProofDispatchesOf(j)' = ProofDispatchesOf(j)
  BY <1>2 DEF ProofDispatchesOf
<1>10. ASSUME NEW p \in proofs', NEW d \in dispatches', p.status = "approved",
              ProofDispatchesOf(p.job) = {d}
       PROVE  ApprovalOf(p, d) \in approvals'
  <2>1. PICK row \in proofs : p = After(row)
    BY <1>7
  <2>2. p.job = row.job /\ p.lineage = row.lineage
    BY <1>6, <2>1
  <2>3. CASE row.job = job
    <3>1. status = "approved"
      BY <1>6, <1>10, <2>1, <2>3
    <3>2. d \in dispatches /\ d.mode = "proof" /\ d.job = job
      BY <1>10, <2>2, <2>3 DEF ProofDispatchesOf
    <3>3. d \in ProofDispatches(dispatches, {q \in proofs : q.job = job})
      BY <2>3, <3>2 DEF ProofDispatches, JobsOf
    <3>4. LineageOfProof(job) = row.lineage
      BY <2>3, LineageFound DEF LedgersHold
    <3>5. [job |-> job, lineage |-> LineageOfProof(job), content |-> d.content] \in approvals'
      BY <3>1, <3>3 DEF Review
    <3>6. QED
      BY <2>2, <2>3, <3>4, <3>5 DEF ApprovalOf
  <2>4. CASE row.job # job
    BY <1>2, <1>5, <1>6, <1>10, <2>1, <2>4 DEF LedgersHold
  <2>5. QED
    BY <2>3, <2>4
<1>11. \A p \in proofs' : ProofDispatchesOf(TrimmedId[p.job]) # {}
  BY <1>6, <1>7 DEF LedgersHold
<1>12. LedgersHold'
  <2>1. \A p \in proofs', d \in dispatches' :
          p.status = "approved" /\ ProofDispatchesOf(p.job)' = {d}
            => ApprovalOf(p, d)' \in approvals'
    BY <1>9, <1>10 DEF ApprovalOf
  <2>2. OneRowPerJob(proofs)' /\ \A p \in proofs' : (ProofDispatchesOf(TrimmedId[p.job]) # {})'
    BY <1>8, <1>9, <1>11 DEF OneRowPerJob
  <2>3. \A d \in dispatches' : d.lineage # Blank /\ TrimmedId[d.lineage] = d.lineage
    BY <1>2 DEF LedgersHold
  <2>4. QED
    BY <2>1, <2>2, <2>3 DEF LedgersHold
<1>13. QED
  BY <1>4, <1>5, <1>12 DEF JobsOf

-----------------------------------------------------------------------------
(* The gate. *)

\* Whatever the gate lets through for a proof is printed with an approval of
\* just its content, in the lineage of its dispatch.
LEMMA GatePasses ==
  ASSUME TypeOK, LedgersHold, NEW r \in Request, r.mode = "print", ProofAccepts(r)
  PROVE  LET q == WithLineage(r, LineageOfProof(Source(r))) IN
         q \in Request /\ q.content = r.content /\ ApprovedFor(q)
<1> DEFINE expected == LineageOfProof(Source(r))
           q        == WithLineage(r, expected)
<1>1. PICK p \in proofs, d \in dispatches :
        /\ p.job = Source(r) /\ p.status = "approved"
        /\ {e \in dispatches : e.mode = "proof" /\ e.job = Source(r)} = {d}
        /\ d.lineage = p.lineage /\ d.content = r.content
  BY DEF ProofAccepts, ApprovedMatch, ApprovedProofs, Mismatched
<1>2. ProofDispatchesOf(p.job) = {d}
  BY <1>1 DEF ProofDispatchesOf
<1>3. /\ ApprovalOf(p, d) \in approvals
      /\ d.lineage # Blank /\ TrimmedId[d.lineage] = d.lineage
  BY <1>1, <1>2 DEF LedgersHold
<1>4. expected = p.lineage
  BY <1>1, LineageFound DEF LedgersHold
<1>5. /\ expected \in Jobs /\ expected # Blank /\ expected # NoJob
      /\ TrimmedId[expected] = expected
  BY <1>1, <1>3, <1>4, NoJobAssumption DEF TypeOK, ProofRow
<1>6. LineageAccepted(r, expected)
  BY DEF ProofAccepts
<1> HIDE DEF expected
<1>7. /\ q \in Request /\ q.content = r.content /\ q.source = r.source
      /\ DispatchLineage(q) = expected
  <2>1. CASE Given(r.lineage) \/ Given(r.reprintOf)
    BY <1>6, <2>1 DEF WithLineage, LineageAccepted, DispatchLineage
  <2>2. CASE ~(Given(r.lineage) \/ Given(r.reprintOf))
    <3>1. q = [r EXCEPT !.lineage = expected]
      BY <2>2 DEF WithLineage
    <3>2. /\ q \in Request /\ q.content = r.content /\ q.source = r.source
          /\ q.lineage = expected
      BY <1>5, <3>1 DEF Request
    <3>3. QED
      BY <1>5, <3>2 DEF DispatchLineage, Given
  <2>3. QED
    BY <2>1, <2>2
<1>8. Source(q) = Source(r)
  BY <1>7 DEF Source
<1>9. ApprovedFor(q)
  BY <1>1, <1>3, <1>4, <1>7, <1>8 DEF ApprovedFor, ApprovalOf
<1>10. QED
  BY <1>7, <1>9 DEF expected

-----------------------------------------------------------------------------
(* The invariant is inductive.                                              *)

\* It is enough to look at the host that moves.
LEMMA HostStep ==
  ASSUME IndInv, NEW h \in Hosts, TypeOK', LedgersHold', PrintsWereApproved',
         Grows, Alone(h), HostHolds(h)'
  PROVE  IndInv'
<1>1. ASSUME NEW g \in Hosts
      PROVE  HostHolds(g)'
  <2>1. CASE g = h
    BY <2>1
  <2>2. CASE g # h
    BY <2>2, HostFrame DEF IndInv, Alone
  <2>3. QED
    BY <2>1, <2>2
<1>2. QED
  BY <1>1 DEF IndInv

Labels == {"idle", "gate", "preflight", "agent", "record", "ok", "error"}

\* What is left alone stays as it was.
LEMMA LedgersFrame ==
  ASSUME LedgersHold, UNCHANGED <<ledgers, approvals>>
  PROVE  LedgersHold'
  BY DEF LedgersHold, OneRowPerJob, ApprovalOf, ProofDispatchesOf, ledgers

LEMMA PrintsFrame ==
  ASSUME PrintsWereApproved, UNCHANGED outputs, approvals \subseteq approvals'
  PROVE  PrintsWereApproved'
  BY DEF PrintsWereApproved

\* Steps of a host that touch neither the ledgers nor what was made.
LEMMA QuietStep ==
  ASSUME IndInv, NEW h \in Hosts, NEW label \in Labels, Goto(h, label),
         Alone(h), req' \in [Hosts -> Request \cup {NoRequest}],
         UNCHANGED <<ledgers, artifacts, outputs, approvals, catalog>>,
         faults' \in 0..MaxFaults, HostHolds(h)'
  PROVE  IndInv'
<1>1. TypeOK'
  BY DEF IndInv, TypeOK, Goto, Labels, ledgers
<1>2. LedgersHold' /\ PrintsWereApproved'
  BY LedgersFrame, PrintsFrame DEF IndInv
<1>3. Grows
  BY DEF Grows, ledgers
<1>4. QED
  BY <1>1, <1>2, <1>3, HostStep

LEMMA GotoMoves ==
  ASSUME TypeOK, NEW h \in Hosts, NEW label, Goto(h, label)
  PROVE  pc'[h] = label /\ \A g \in Hosts : g # h => pc'[g] = pc[g]
  BY DEF TypeOK, Goto

LEMMA FaultType ==
  ASSUME TypeOK, Fault
  PROVE  faults' \in 0..MaxFaults
  BY GateAssumption DEF TypeOK, Fault

\* A request comes in.
LEMMA ReceiveStep ==
  ASSUME IndInv, NEW h \in Hosts, NEW r \in Requests, Receive(h, r)
  PROVE  IndInv'
<1>1. TypeOK /\ r \in Request
  BY RequestsAssumption DEF IndInv
<1>2. /\ pc'[h] = "gate" /\ Goto(h, "gate")
      /\ req'[h] = r /\ Alone(h)
      /\ req' \in [Hosts -> Request \cup {NoRequest}]
  BY <1>1, GotoMoves DEF Receive, TypeOK, Alone
<1>3. HostHolds(h)'
  BY <1>1, <1>2 DEF HostHolds
<1>4. QED
  BY <1>1, <1>2, <1>3, QuietStep DEF Receive, Labels, TypeOK

\* The gate lets a request pass.
LEMMA PassGateStep ==
  ASSUME IndInv, NEW h \in Hosts, PassGate(h)
  PROVE  IndInv'
<1> DEFINE r == req[h]
<1>1. TypeOK /\ LedgersHold /\ r \in Request
  BY DEF IndInv, HostHolds, PassGate
<1>2. Goto(h, "preflight") /\ pc'[h] = "preflight" /\ catalog[r.content.version] # None
  BY <1>1, GotoMoves DEF PassGate
<1>3. PICK q \in Request :
        /\ req' = [req EXCEPT ![h] = q] /\ q.content = r.content
        /\ q.mode = "print" /\ ~q.bypass => ApprovedFor(q)
  <2>1. CASE Ungated(r) /\ UNCHANGED req
    BY <1>1, <2>1 DEF Ungated, TypeOK
  <2>2. CASE /\ ~Ungated(r) /\ ProofAccepts(r)
             /\ req' = [req EXCEPT ![h] = WithLineage(r, LineageOfProof(Source(r)))]
    BY <1>1, <2>2, GatePasses DEF Ungated
  <2>3. QED
    BY <2>1, <2>2 DEF PassGate
<1>4. /\ req'[h] = q /\ Alone(h)
      /\ req' \in [Hosts -> Request \cup {NoRequest}]
  BY <1>1, <1>2, <1>3, GotoMoves DEF TypeOK, Alone
<1>5. UNCHANGED <<ledgers, artifacts, outputs, approvals, catalog, faults>>
  BY DEF PassGate
<1>6. HostHolds(h)'
  BY <1>2, <1>3, <1>4, <1>5 DEF HostHolds, ApprovedFor
<1>7. QED
  BY <1>1, <1>2, <1>4, <1>5, <1>6, QuietStep DEF Labels, TypeOK

\* The next step, an error, or the answer.
LEMMA MovingSteps ==
  ASSUME IndInv, NEW h \in Hosts,
         \/ RefuseAtGate(h) \/ Preflight(h) \/ AgentRefuses(h) \/ Answer(h)
  PROVE  IndInv'
<1>1. TypeOK /\ HostHolds(h)
  BY DEF IndInv
<1>2. UNCHANGED <<ledgers, artifacts, outputs, approvals, catalog>>
  BY DEF RefuseAtGate, Preflight, AgentRefuses, Answer
<1>3. faults' \in 0..MaxFaults
  BY <1>1 DEF RefuseAtGate, Preflight, AgentRefuses, Answer, TypeOK
<1>4. CASE RefuseAtGate(h) \/ AgentRefuses(h)
  <2>1. Goto(h, "error") /\ UNCHANGED req /\ pc[h] # "idle"
    BY <1>4 DEF RefuseAtGate, AgentRefuses
  <2>2. HostHolds(h)' /\ Alone(h) /\ req' \in [Hosts -> Request \cup {NoRequest}]
    BY <1>1, <2>1, GotoMoves DEF HostHolds, Alone, TypeOK
  <2>3. QED
    BY <1>2, <1>3, <2>1, <2>2, QuietStep DEF Labels
<1>5. CASE Preflight(h)
  <2>1. Goto(h, "agent") /\ UNCHANGED req /\ pc[h] = "preflight" /\ pc'[h] = "agent"
    BY <1>1, <1>5, GotoMoves DEF Preflight
  <2>2. HostHolds(h)'
    BY <1>1, <1>2, <2>1 DEF HostHolds, ApprovedFor
  <2>3. Alone(h) /\ req' \in [Hosts -> Request \cup {NoRequest}]
    BY <1>1, <2>1, GotoMoves DEF Alone, TypeOK
  <2>4. QED
    BY <1>2, <1>3, <2>1, <2>2, <2>3, QuietStep DEF Labels
<1>6. CASE Answer(h)
  <2>1. Goto(h, "idle") /\ pc'[h] = "idle" /\ req' = [req EXCEPT ![h] = NoRequest]
    BY <1>1, <1>6, GotoMoves DEF Answer
  <2>2. HostHolds(h)' /\ Alone(h) /\ req' \in [Hosts -> Request \cup {NoRequest}]
    BY <1>1, <2>1, GotoMoves DEF HostHolds, Alone, TypeOK
  <2>3. QED
    BY <1>2, <1>3, <2>1, <2>2, QuietStep DEF Labels
<1>7. QED
  BY <1>4, <1>5, <1>6

\* A PDF that may be torn stays a PDF.
LEMMA TornArtifacts ==
  ASSUME TypeOK, NEW h \in Hosts, pc[h] # "idle" => req[h] \in Request, MayTear(h)
  PROVE  /\ artifacts' \in [Jobs -> [subject : Subjects, body : Bodies] \cup {None, Torn}]
         /\ \A j \in Jobs : artifacts[j] # None => artifacts'[j] # None
<1>1. CASE UNCHANGED artifacts
  BY <1>1 DEF TypeOK
<1>2. CASE pc[h] = "agent" /\ artifacts' = [artifacts EXCEPT ![req[h].job] = Torn]
  BY <1>2, RequestFields, MarksAssumption DEF TypeOK
<1>3. QED
  BY <1>1, <1>2 DEF MayTear

\* A step before the record fails.
LEMMA StepFailsStep ==
  ASSUME IndInv, NEW h \in Hosts, StepFails(h)
  PROVE  IndInv'
<1>1. TypeOK /\ HostHolds(h) /\ pc[h] # "idle" /\ req[h] \in Request
  BY DEF IndInv, HostHolds, StepFails
<1>2. /\ Goto(h, "error") /\ pc'[h] = "error"
      /\ UNCHANGED <<ledgers, outputs, approvals, catalog, req>>
      /\ faults' \in 0..MaxFaults
  BY <1>1, GotoMoves, FaultType DEF StepFails
<1>3. /\ artifacts' \in [Jobs -> [subject : Subjects, body : Bodies] \cup {None, Torn}]
      /\ \A j \in Jobs : artifacts[j] # None => artifacts'[j] # None
  BY <1>1, TornArtifacts DEF StepFails
<1>4. LedgersHold' /\ PrintsWereApproved'
  BY <1>2, LedgersFrame, PrintsFrame DEF IndInv
<1>5. Grows
  BY <1>2, <1>3 DEF Grows, ledgers
<1>6. TypeOK' /\ Alone(h)
  BY <1>1, <1>2, <1>3, GotoMoves DEF TypeOK, Alone, Goto, ledgers
<1>7. HostHolds(h)'
  BY <1>1, <1>2 DEF HostHolds
<1>8. QED
  BY <1>4, <1>5, <1>6, <1>7, HostStep

\* What is rendered is a rendering, and no mark for a missing one.
LEMMA RenderingType ==
  ASSUME TypeOK, NEW r \in Request, catalog[r.content.version] # None
  PROVE  /\ Rendering(r) \in [subject : Subjects, body : Bodies]
         /\ Rendering(r) # None
<1>1. r.content.version \in Versions /\ r.content.subject \in Subjects
  BY RequestFields
<1>2. catalog[r.content.version] \in Bodies
  BY <1>1 DEF TypeOK
<1>3. Rendering(r) \in [subject : Subjects, body : Bodies]
  BY <1>1, <1>2 DEF Rendering
<1>4. QED
  BY <1>3, MarksAssumption

\* The label is rendered and leaves the machine.
LEMMA RenderStep ==
  ASSUME IndInv, NEW h \in Hosts, RenderAndSubmit(h)
  PROVE  IndInv'
<1> DEFINE r == req[h]
           o == [job |-> TrimmedId[r.job], lineage |-> DispatchLineage(r),
                 parent |-> TrimmedField(r.reprintOf), content |-> r.content,
                 rendering |-> Rendering(r), source |-> Source(r), bypass |-> r.bypass]
<1>1. /\ TypeOK /\ LedgersHold /\ HostHolds(h) /\ pc[h] = "agent" /\ AgentAccepts(r)
      /\ Goto(h, "record") /\ pc'[h] = "record" /\ UNCHANGED req
  BY GotoMoves DEF IndInv, RenderAndSubmit
<1>2. r \in Request /\ catalog[r.content.version] # None
  BY <1>1 DEF HostHolds
<1>3. UNCHANGED <<ledgers, approvals, catalog, faults>>
  BY DEF RenderAndSubmit
<1>4. Alone(h) /\ pc' \in [Hosts -> Labels]
  BY <1>1, GotoMoves DEF Alone, Goto, TypeOK, Labels
<1>5. r.mode \in {"proof", "print"} /\ r.job \in Jobs
  BY <1>1, <1>2, RequestFields DEF AgentAccepts
<1>6. LedgersHold'
  BY <1>1, <1>3, LedgersFrame
<1>7. r.mode = "print" /\ ~r.bypass => ApprovedFor(r)
  BY <1>1 DEF HostHolds
<1>8. CASE r.mode = "proof"
  <2>1. artifacts' = [artifacts EXCEPT ![r.job] = Rendering(r)] /\ UNCHANGED outputs
    BY <1>8 DEF RenderAndSubmit
  <2>2. /\ artifacts' \in [Jobs -> [subject : Subjects, body : Bodies] \cup {None, Torn}]
        /\ \A j \in Jobs : artifacts[j] # None => artifacts'[j] # None
        /\ artifacts'[r.job] # None
    BY <1>1, <1>2, <1>5, <2>1, RenderingType DEF TypeOK
  <2>3. TypeOK'
    BY <1>1, <1>3, <1>4, <2>2 DEF TypeOK, Labels, ledgers
  <2>4. PrintsWereApproved'
    BY <1>3, <2>1, PrintsFrame DEF IndInv
  <2>5. Grows
    BY <1>3, <2>1, <2>2 DEF Grows, ledgers
  <2>6. HostHolds(h)'
    BY <1>1, <1>2, <1>8, <2>2 DEF HostHolds, Submitted
  <2>7. QED
    BY <1>4, <1>6, <2>3, <2>4, <2>5, <2>6, HostStep
<1>9. CASE r.mode = "print"
  <2>1. outputs' = outputs \cup {o} /\ UNCHANGED artifacts
    BY <1>9 DEF RenderAndSubmit
  <2>2. TypeOK'
    BY <1>1, <1>3, <1>4, <2>1 DEF TypeOK, Labels, ledgers
  <2>3. PrintsWereApproved'
    <3>1. SUFFICES ASSUME NEW x \in outputs', ~x.bypass
                   PROVE  \E a \in approvals' :
                            a.job = x.source /\ a.content = x.content /\ a.lineage = x.lineage
      BY DEF PrintsWereApproved
    <3>2. CASE x \in outputs
      BY <1>3, <3>1, <3>2 DEF IndInv, PrintsWereApproved
    <3>3. CASE x = o
      BY <1>3, <1>7, <1>9, <3>1, <3>3 DEF ApprovedFor
    <3>4. QED
      BY <2>1, <3>2, <3>3
  <2>4. Grows
    BY <1>3, <2>1 DEF Grows, ledgers
  <2>5. Submitted(r)'
    <3>1. o \in outputs' /\ o.job = TrimmedId[r.job] /\ o.lineage = DispatchLineage(r)
      BY <2>1
    <3>2. DispatchLineage(r)' = DispatchLineage(r) /\ r' = r
      BY <1>1 DEF DispatchLineage, Given
    <3>. HIDE DEF o
    <3>3. QED
      BY <1>9, <3>1, <3>2 DEF Submitted
  <2>6. HostHolds(h)'
    BY <1>1, <1>2, <1>3, <1>5, <1>7, <2>5 DEF HostHolds, ApprovedFor, DispatchLineage, Given
  <2>7. QED
    BY <1>4, <1>6, <2>2, <2>3, <2>4, <2>6, HostStep
<1>10. QED
  BY <1>5, <1>8, <1>9

\* The ledgers as they were, or with the record of the request.
LEMMA LedgersMove ==
  ASSUME IndInv, NEW r \in Request, r.mode \in {"proof", "print"},
         UNCHANGED ledgers \/ Recorded(r),
         UNCHANGED <<artifacts, outputs, approvals, catalog>>
  PROVE  /\ dispatches' \in SUBSET DispatchRow /\ proofs' \in SUBSET ProofRow
         /\ LedgersHold' /\ PrintsWereApproved' /\ Grows
<1>1. PrintsWereApproved'
  BY PrintsFrame DEF IndInv
<1>2. CASE UNCHANGED ledgers
  <2>1. LedgersHold'
    BY <1>2, LedgersFrame DEF IndInv
  <2>2. QED
    BY <1>1, <1>2, <2>1 DEF IndInv, TypeOK, ledgers, Grows
<1>3. CASE Recorded(r)
  BY <1>1, <1>3, RecordedLedgers DEF IndInv, Grows
<1>4. QED
  BY <1>2, <1>3

\* The record is written, or is lost.
LEMMA RecordSteps ==
  ASSUME IndInv, NEW h \in Hosts, Record(h) \/ RecordFails(h)
  PROVE  IndInv'
<1> DEFINE r == req[h]
<1>1. TypeOK /\ HostHolds(h) /\ pc[h] # "idle" /\ r \in Request
  BY DEF IndInv, HostHolds, Record, RecordFails
<1>2. UNCHANGED <<artifacts, outputs, approvals, catalog>> /\ faults' \in 0..MaxFaults
  BY <1>1, FaultType DEF Record, RecordFails, TypeOK
<1>3. CASE Record(h)
  <2>1. /\ pc[h] = "record" /\ Goto(h, "ok") /\ pc'[h] = "ok" /\ UNCHANGED req
        /\ Recorded(r)
    BY <1>1, <1>3, GotoMoves DEF Record
  <2>2. r.mode \in {"proof", "print"} /\ Submitted(r)
    BY <1>1, <2>1 DEF HostHolds
  <2>3. /\ dispatches' \in SUBSET DispatchRow /\ proofs' \in SUBSET ProofRow
        /\ LedgersHold' /\ PrintsWereApproved' /\ Grows
    BY <1>1, <1>2, <2>1, <2>2, LedgersMove
  <2>4. InLedgers(r)'
    <3>1. /\ DispatchRecord(r) \in dispatches'
          /\ r.mode = "proof" => r.job \in JobsOf(proofs')
      BY <1>1, <1>2, <2>1, <2>2, RecordedLedgers DEF IndInv
    <3>2. QED
      BY <2>1, <3>1 DEF InLedgers, DispatchRecord, DispatchLineage, Given, JobsOf
  <2>5. HostHolds(h)'
    BY <1>1, <1>2, <2>1, <2>2, <2>4 DEF HostHolds, Submitted, DispatchLineage, Given
  <2>6. TypeOK' /\ Alone(h)
    BY <1>1, <1>2, <2>1, <2>3, GotoMoves DEF TypeOK, Alone, Goto
  <2>7. QED
    BY <2>3, <2>5, <2>6, HostStep
<1>4. CASE RecordFails(h)
  <2>1. pc[h] = "record" /\ Goto(h, "error") /\ pc'[h] = "error" /\ UNCHANGED req
    BY <1>1, <1>4, GotoMoves DEF RecordFails
  <2>2. r.mode \in {"proof", "print"}
    BY <1>1, <2>1 DEF HostHolds
  <2>3. /\ dispatches' \in SUBSET DispatchRow /\ proofs' \in SUBSET ProofRow
        /\ LedgersHold' /\ PrintsWereApproved' /\ Grows
    BY <1>1, <1>2, <1>4, <2>2, LedgersMove DEF RecordFails
  <2>4. HostHolds(h)'
    BY <1>1, <2>1 DEF HostHolds
  <2>5. TypeOK' /\ Alone(h)
    BY <1>1, <1>2, <2>1, <2>3, GotoMoves DEF TypeOK, Alone, Goto
  <2>6. QED
    BY <2>3, <2>4, <2>5, HostStep
<1>5. QED
  BY <1>3, <1>4

\* The process dies.
LEMMA CrashStep ==
  ASSUME IndInv, NEW h \in Hosts, Crash(h)
  PROVE  IndInv'
<1> DEFINE r == req[h]
<1>1. TypeOK /\ HostHolds(h) /\ pc[h] # "idle" /\ r \in Request
  BY DEF IndInv, HostHolds, Crash
<1>2. /\ Goto(h, "idle") /\ pc'[h] = "idle" /\ req' = [req EXCEPT ![h] = NoRequest]
      /\ UNCHANGED <<outputs, approvals, catalog>>
      /\ faults' \in 0..MaxFaults
  BY <1>1, GotoMoves, FaultType DEF Crash
<1>3. /\ artifacts' \in [Jobs -> [subject : Subjects, body : Bodies] \cup {None, Torn}]
      /\ \A j \in Jobs : artifacts[j] # None => artifacts'[j] # None
  BY <1>1, TornArtifacts DEF Crash
<1>4. PrintsWereApproved'
  BY <1>2, PrintsFrame DEF IndInv
<1>5. /\ dispatches' \in SUBSET DispatchRow /\ proofs' \in SUBSET ProofRow
      /\ LedgersHold'
      /\ dispatches \subseteq dispatches' /\ JobsOf(proofs) \subseteq JobsOf(proofs')
  <2>1. CASE UNCHANGED ledgers
    <3>1. LedgersHold'
      BY <1>2, <2>1, LedgersFrame DEF IndInv
    <3>2. QED
      BY <1>1, <2>1, <3>1 DEF TypeOK, ledgers
  <2>2. CASE pc[h] = "record" /\ Recorded(r)
    <3>1. r.mode \in {"proof", "print"}
      BY <1>1, <2>2 DEF HostHolds
    <3>2. QED
      BY <1>1, <1>2, <2>2, <3>1, RecordedLedgers DEF IndInv
  <2>3. QED
    BY <2>1, <2>2 DEF Crash
<1>6. Grows
  BY <1>2, <1>3, <1>5 DEF Grows
<1>7. TypeOK' /\ Alone(h)
  BY <1>1, <1>2, <1>3, <1>5, GotoMoves DEF TypeOK, Alone, Goto
<1>8. HostHolds(h)'
  BY <1>2 DEF HostHolds
<1>9. QED
  BY <1>4, <1>5, <1>6, <1>7, <1>8, HostStep

\* A review beside the dispatches.
LEMMA ReviewStep ==
  ASSUME IndInv, NEW job \in Jobs, NEW status \in {"approved", "rejected"},
         Review(job, status)
  PROVE  IndInv'
<1>1. /\ proofs' \in SUBSET ProofRow /\ LedgersHold'
      /\ JobsOf(proofs) \subseteq JobsOf(proofs') /\ approvals \subseteq approvals'
  BY ReviewedLedgers DEF IndInv
<1>2. UNCHANGED <<dispatches, artifacts, outputs, catalog, pc, req, faults>>
  BY DEF Review
<1>3. TypeOK' /\ PrintsWereApproved' /\ Grows
  BY <1>1, <1>2, PrintsFrame DEF IndInv, TypeOK, Grows
<1>4. QED
  BY <1>1, <1>2, <1>3, HostFrame DEF IndInv

\* A save of a template beside the dispatches.
LEMMA SaveTemplateStep ==
  ASSUME IndInv, NEW version \in Versions, NEW body \in Edits, SaveTemplate(version, body)
  PROVE  IndInv'
<1>1. body \in Bodies /\ body # None
  BY GateAssumption, MarksAssumption
<1>2. UNCHANGED <<ledgers, artifacts, outputs, approvals, pc, req, faults>>
  BY DEF SaveTemplate
<1>3. /\ catalog' \in [Versions -> Bodies \cup {None}]
      /\ \A v \in Versions : catalog[v] # None => catalog'[v] # None
  BY <1>1 DEF IndInv, TypeOK, SaveTemplate
<1>4. TypeOK' /\ LedgersHold' /\ PrintsWereApproved' /\ Grows
  BY <1>2, <1>3, LedgersFrame, PrintsFrame DEF IndInv, TypeOK, Grows, ledgers
<1>5. QED
  BY <1>2, <1>4, HostFrame DEF IndInv

LEMMA IndInvInit == Init => IndInv
<1> SUFFICES ASSUME Init PROVE IndInv
  OBVIOUS
<1>1. TypeOK
  BY GateAssumption DEF Init, TypeOK
<1>2. LedgersHold /\ PrintsWereApproved
  BY DEF Init, LedgersHold, OneRowPerJob, PrintsWereApproved
<1>3. \A h \in Hosts : HostHolds(h)
  BY DEF Init, HostHolds
<1>4. QED
  BY <1>1, <1>2, <1>3 DEF IndInv

\* Every step, of any host, a reviewer or a designer of templates, with any
\* fault, preserves it.
LEMMA IndInvNext == IndInv /\ [Next]_vars => IndInv'
<1> SUFFICES ASSUME IndInv, [Next]_vars PROVE IndInv'
  OBVIOUS
<1>1. ASSUME NEW h \in Hosts, NEW r \in Requests, Receive(h, r)
      PROVE  IndInv'
  BY <1>1, ReceiveStep
<1>2. ASSUME NEW h \in Hosts, Dispatch(h) \/ RecordFails(h) \/ StepFails(h) \/ Crash(h)
      PROVE  IndInv'
  BY <1>2, PassGateStep, MovingSteps, RenderStep, RecordSteps, StepFailsStep, CrashStep
     DEF Dispatch
<1>3. CASE UNCHANGED vars
  <2>1. UNCHANGED <<ledgers, artifacts, outputs, approvals, catalog, pc, req, faults>>
    BY <1>3 DEF vars
  <2>2. TypeOK' /\ LedgersHold' /\ PrintsWereApproved' /\ Grows
    BY <2>1, LedgersFrame, PrintsFrame DEF IndInv, TypeOK, Grows, ledgers
  <2>3. QED
    BY <2>1, <2>2, HostFrame DEF IndInv
<1>4. QED
  BY <1>1, <1>2, <1>3, ReviewStep, SaveTemplateStep DEF Next

LEMMA Invariance == Spec => []IndInv
  BY IndInvInit, IndInvNext, PTL DEF Spec

-----------------------------------------------------------------------------
(* What follows for every behaviour.                                        *)

\* The variables always hold what their comments say.
THEOREM TypeCorrect == Spec => []TypeOK
<1>1. IndInv => TypeOK
  BY DEF IndInv
<1>2. QED
  BY <1>1, Invariance, PTL

\* A label leaves the machine only for a proof that was approved for just its
\* content, in its lineage, whatever is dispatched, reviewed, saved, failing or
\* dying meanwhile (validate_and_normalize_request, approve_proof).
THEOREM NothingUnapproved == Spec => []PrintsWereApproved
<1>1. IndInv => PrintsWereApproved
  BY DEF IndInv
<1>2. QED
  BY <1>1, Invariance, PTL

\* A dispatch that is answered "ok" has made its output and is in the ledgers,
\* and stays there until the answer is out (dispatch_print_job).
THEOREM AuditIsComplete == Spec => []AuditLossIsReported
<1>1. IndInv => AuditLossIsReported
  BY DEF IndInv, HostHolds, Submitted, InLedgers, AuditLossIsReported
<1>2. QED
  BY <1>1, Invariance, PTL
=============================================================================
