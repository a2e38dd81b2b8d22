---------------------------- MODULE DispatchGate ----------------------------
(***************************************************************************)
(* dispatch_print_job of the desktop shell (main.rs) with the print agent  *)
(* it calls: gate, preflight of the ledgers, render and submission, audit  *)
(* record.  Each step takes the store lock for itself or not at all, so a  *)
(* review, another dispatch or a save of the template can come in between. *)
(* An operation of the audit store is one step here, as AuditStore's       *)
(* refinement of AuditLedger allows; trims, restores and seeds are left to *)
(* that module.                                                            *)
(***************************************************************************)
EXTENDS Ledger

CONSTANTS Hosts,        \* processes that serve dispatch requests
          Requests,     \* the requests clients send
          Blank,        \* the id of a lineage field that holds only spaces
          Versions, Subjects, Bodies,  \* templates, match subjects, template files
          Packaged,     \* the body each version is shipped with, None if unknown
          AllowBypass,  \* JAN_LABEL_ALLOW_PRINT_WITHOUT_PROOF
          Edits,        \* the bodies an operator saves over a version
          ReviewedAt,   \* the time of a decision, on which nothing here depends
          Torn,         \* a PDF of which only a part was written
          MaxFaults     \* bound: failures and crashes in a behaviour

ASSUME GateAssumption ==
  /\ Contents = [version : Versions, subject : Subjects]
  /\ Packaged \in [Versions -> Bodies \cup {None}]
  /\ Edits \subseteq Bodies
  /\ ReviewedAt \in Times
  /\ MaxFaults \in Nat
  /\ Blank # NoJob /\ \A j \in Jobs \ {Blank} : TrimmedId[j] # Blank

\* DispatchRequest, its ids as they were sent.  Mode "none" has no execution
\* field at all; `inOrder' says of one that the approvedBy and approvedAt of a
\* print are there, that no text in it is blank and that its source is no path.
\* NoJob says that a field is not there.
Request ==
  [mode : {"proof", "print", "none"}, job : Jobs \ {Blank}, content : Contents,
   at : Times, lineage : Jobs \cup {NoJob}, reprintOf : Jobs \cup {NoJob},
   source : Jobs \cup {NoJob}, bypass : BOOLEAN, inOrder : BOOLEAN]

ASSUME RequestsAssumption == Requests \subseteq Request
ASSUME MarksAssumption ==
  /\ None \notin Bodies \cup Request \cup [subject : Subjects, body : Bodies]
  /\ Torn # None

VARIABLES dispatches, proofs,  \* the ledgers
          artifacts,  \* the proof PDF of a job id: what it shows, Torn or None
          outputs,    \* what was printed, ever
          approvals,  \* the proofs that were approved, ever, with their content
          catalog,    \* the file behind each template version
          pc, req,    \* the step and the (normalised) request of each host
          faults

ledgers == <<dispatches, proofs>>
vars == <<ledgers, artifacts, outputs, approvals, catalog, pc, req, faults>>

NoRequest == None

Init ==
  /\ dispatches = {} /\ proofs = {}
  /\ artifacts = [j \in Jobs |-> None]
  /\ outputs = {} /\ approvals = {}
  /\ catalog = Packaged
  /\ pc = [h \in Hosts |-> "idle"]
  /\ req = [h \in Hosts |-> NoRequest]
  /\ faults = 0

Goto(h, label) == pc' = [pc EXCEPT ![h] = label]

Fault == faults < MaxFaults /\ faults' = faults + 1

-----------------------------------------------------------------------------
(* Ids and lineages. *)

Given(id) == id # NoJob /\ id # Blank

\* optional_trimmed_non_empty
TrimmedField(id) == IF Given(id) THEN TrimmedId[id] ELSE NoJob

\* PrintAgent::dispatch trims the fields and skips the empty ones ...
DispatchLineage(r) ==
  TrimmedId[IF Given(r.lineage) THEN r.lineage
            ELSE IF Given(r.reprintOf) THEN r.reprintOf
            ELSE r.job]

\* Mutant: the job id is not the last resort.
ProofLineageGiven(r) == r.lineage

\* ... build_pending_proof_record takes the first that is present, as it is.
ProofLineage(r) ==
  IF r.lineage # NoJob THEN r.lineage
  ELSE IF r.reprintOf # NoJob THEN r.reprintOf
  ELSE r.job

LineageOfProof(job) == (CHOOSE p \in proofs : p.job = job).lineage

\* An explicit lineage is compared, or else the job that is reprinted.
LineageAccepted(r, expected) ==
  IF Given(r.lineage) THEN TrimmedId[r.lineage] = expected
  ELSE Given(r.reprintOf) => TrimmedId[r.reprintOf] = expected

\* The request as it goes on: with the proof's lineage if it named none.
WithLineage(r, expected) ==
  IF Given(r.lineage) \/ Given(r.reprintOf) THEN r
  ELSE [r EXCEPT !.lineage = expected]

-----------------------------------------------------------------------------
(* The gate. *)

Receive(h, r) ==
  /\ pc[h] = "idle"
  /\ Goto(h, "gate")
  /\ req' = [req EXCEPT ![h] = r]
  /\ UNCHANGED <<ledgers, artifacts, outputs, approvals, catalog, faults>>

Source(r) == TrimmedField(r.source)

\* Mutant: the lookup does not ask for an approval.
ProofFound(r) ==
  /\ Source(r) # NoJob
  /\ \E p \in proofs : p.job = Source(r)
  /\ artifacts[Source(r)] # None
  /\ LineageAccepted(r, LineageOfProof(Source(r)))

\* validate_and_normalize_request of a print that does not bypass the gate:
\* the ledgers are read under the store lock, the PDF after it is released.
ProofAccepts(r) ==
  /\ Source(r) # NoJob
  /\ ApprovedMatch(dispatches, proofs, Source(r), r.content)
  /\ artifacts[Source(r)] # None
  /\ LineageAccepted(r, LineageOfProof(Source(r)))

\* Only its size and its first bytes are looked at: a part may pass or not.
PartRefused(r) == Source(r) # NoJob /\ artifacts[Source(r)] = Torn

\* A proof, a bypass the configuration allows and a request without execution
\* only need their template.
Ungated(r) == r.mode # "print" \/ (r.bypass /\ AllowBypass)

PassGate(h) ==
  LET r == req[h] IN
  /\ pc[h] = "gate"
  /\ catalog[r.content.version] # None
  /\ \/ Ungated(r) /\ UNCHANGED req
     \/ /\ ~Ungated(r) /\ ~r.bypass
        /\ ProofAccepts(r)
        /\ req' = [req EXCEPT ![h] = WithLineage(r, LineageOfProof(Source(r)))]
  /\ Goto(h, "preflight")
  /\ UNCHANGED <<ledgers, artifacts, outputs, approvals, catalog, faults>>

RefuseAtGate(h) ==
  LET r == req[h] IN
  /\ pc[h] = "gate"
  /\ \/ catalog[r.content.version] = None
     \/ ~Ungated(r) /\ (r.bypass \/ ~ProofAccepts(r) \/ PartRefused(r))
  /\ Goto(h, "error")
  /\ UNCHANGED <<ledgers, artifacts, outputs, approvals, catalog, req, faults>>

\* ensure_audit_store_ready_for_request rewrites the ledgers as they are.
Preflight(h) ==
  /\ pc[h] = "preflight"
  /\ Goto(h, "agent")
  /\ UNCHANGED <<ledgers, artifacts, outputs, approvals, catalog, req, faults>>

-----------------------------------------------------------------------------
(* The print agent. *)

\* validate_execution; a missing execution counts as a print nobody approved.
AgentAccepts(r) ==
  /\ r.inOrder
  /\ \/ r.mode = "proof"
     \/ /\ r.mode = "print"
        /\ r.source # Blank
        /\ IF r.bypass THEN AllowBypass ELSE r.source # NoJob

AgentRefuses(h) ==
  /\ pc[h] = "agent"
  /\ ~AgentAccepts(req[h])
  /\ Goto(h, "error")
  /\ UNCHANGED <<ledgers, artifacts, outputs, approvals, catalog, req, faults>>

Rendering(r) == [subject |-> r.content.subject, body |-> catalog[r.content.version]]

\* The template is read now, not when the gate was passed; a proof overwrites
\* the PDF of its job id as it was sent, a print leaves the machine.
RenderAndSubmit(h) ==
  LET r == req[h] IN
  /\ pc[h] = "agent"
  /\ AgentAccepts(r)
  /\ IF r.mode = "proof"
     THEN /\ artifacts' = [artifacts EXCEPT ![r.job] = Rendering(r)]
          /\ UNCHANGED outputs
     ELSE /\ outputs' = outputs \cup
               {[job |-> TrimmedId[r.job], lineage |-> DispatchLineage(r),
                 parent |-> TrimmedField(r.reprintOf), content |-> r.content,
                 rendering |-> Rendering(r), source |-> Source(r), bypass |-> r.bypass]}
          /\ UNCHANGED artifacts
  /\ Goto(h, "record")
  /\ UNCHANGED <<ledgers, approvals, catalog, req, faults>>

-----------------------------------------------------------------------------
(* The audit record, and the answer.                                        *)

\* The dispatch has what the agent made of the ids, the proof what was sent.
DispatchRecord(r) ==
  [job |-> TrimmedId[r.job], lineage |-> DispatchLineage(r),
   parent |-> TrimmedField(r.reprintOf), mode |-> r.mode, content |-> r.content,
   at |-> r.at]

ProofRecord(r) == PendingProof(r.job, ProofLineage(r), r.at)

\* record_dispatch, record_proof_dispatch
Recorded(r) ==
  /\ dispatches' = dispatches \cup {DispatchRecord(r)}
  /\ proofs' = IF r.mode = "proof" THEN Upsert(proofs, ProofRecord(r)) ELSE proofs

Record(h) ==
  /\ pc[h] = "record"
  /\ Recorded(req[h])
  /\ Goto(h, "ok")
  /\ UNCHANGED <<artifacts, outputs, approvals, catalog, req, faults>>

\* Mutant: a lost audit record does not fail the dispatch.
RecordLostSilently(h) ==
  /\ pc[h] = "record"
  /\ Fault
  /\ Goto(h, "ok")
  /\ UNCHANGED <<ledgers, artifacts, outputs, approvals, catalog, req>>

\* The store fails (its lock times out, a write fails): the output exists and
\* the client gets an error.  A proof whose marker was written before the
\* failure is recorded all the same, by the next access.
RecordFails(h) ==
  /\ pc[h] = "record"
  /\ Fault
  /\ UNCHANGED ledgers \/ (req[h].mode = "proof" /\ Recorded(req[h]))
  /\ Goto(h, "error")
  /\ UNCHANGED <<artifacts, outputs, approvals, catalog, req>>

\* The PDF of a proof is written in place, so that a part of it may be left.
MayTear(h) ==
  \/ UNCHANGED artifacts
  \/ /\ pc[h] = "agent" /\ AgentAccepts(req[h]) /\ req[h].mode = "proof"
     /\ artifacts' = [artifacts EXCEPT ![req[h].job] = Torn]

\* Any earlier step fails: store, zint, renderer, adapter.
StepFails(h) ==
  /\ pc[h] \in {"gate", "preflight", "agent"}
  /\ Fault
  /\ MayTear(h)
  /\ Goto(h, "error")
  /\ UNCHANGED <<ledgers, outputs, approvals, catalog, req>>

Answer(h) ==
  /\ pc[h] \in {"ok", "error"}
  /\ Goto(h, "idle")
  /\ req' = [req EXCEPT ![h] = NoRequest]
  /\ UNCHANGED <<ledgers, artifacts, outputs, approvals, catalog, faults>>

\* The process dies; what it was recording may be in the ledgers or not.
Crash(h) ==
  /\ pc[h] \notin {"idle", "ok", "error"}
  /\ Fault
  /\ UNCHANGED ledgers \/ (pc[h] = "record" /\ Recorded(req[h]))
  /\ MayTear(h)
  /\ Goto(h, "idle")
  /\ req' = [req EXCEPT ![h] = NoRequest]
  /\ UNCHANGED <<outputs, approvals, catalog>>

-----------------------------------------------------------------------------
(* What happens beside a dispatch.                                          *)

\* approve_proof, reject_proof
Review(job, status) ==
  /\ Reviewable(proofs, job)
  /\ proofs' = Reviewed(proofs, job, status, ReviewedAt)
  /\ approvals' = IF status = "approved"
                   THEN approvals \cup
                     {[job |-> job, lineage |-> LineageOfProof(job), content |-> d.content] :
                        d \in ProofDispatches(dispatches, {p \in proofs : p.job = job})}
                   ELSE approvals
  /\ UNCHANGED <<dispatches, artifacts, outputs, catalog, pc, req, faults>>

\* save_template_to_local_catalog, of a version that is there already
SaveTemplate(version, body) ==
  /\ catalog[version] # body
  /\ catalog' = [catalog EXCEPT ![version] = body]
  /\ UNCHANGED <<ledgers, artifacts, outputs, approvals, pc, req, faults>>

Dispatch(h) ==
  \/ PassGate(h) \/ RefuseAtGate(h) \/ Preflight(h) \/ AgentRefuses(h)
  \/ RenderAndSubmit(h) \/ Record(h) \/ Answer(h)

Next ==
  \/ \E h \in Hosts : \/ \E r \in Requests : Receive(h, r)
                      \/ Dispatch(h)
                      \/ RecordFails(h) \/ StepFails(h) \/ Crash(h)
  \/ \E job \in Jobs, status \in {"approved", "rejected"} : Review(job, status)
  \/ \E version \in Versions, body \in Edits : SaveTemplate(version, body)

Spec == Init /\ [][Next]_vars
-----------------------------------------------------------------------------
(* Properties.                                                              *)

\* The variables hold what their comments say.
TypeOK ==
  /\ dispatches \in SUBSET DispatchRow
  /\ proofs \in SUBSET ProofRow
  /\ artifacts \in [Jobs -> [subject : Subjects, body : Bodies] \cup {None, Torn}]
  /\ catalog \in [Versions -> Bodies \cup {None}]
  /\ pc \in [Hosts -> {"idle", "gate", "preflight", "agent", "record", "ok", "error"}]
  /\ req \in [Hosts -> Request \cup {NoRequest}]
  /\ faults \in 0..MaxFaults

\* ADR 0008, docs/print-pipeline.md "Print Gate": whatever is dispatched,
\* reviewed or dispatched again meanwhile, a label leaves the machine only
\* for a proof that was approved for just this content, in its lineage.
PrintsWereApproved ==
  \A o \in outputs : ~o.bypass =>
    \E a \in approvals :
      a.job = o.source /\ a.content = o.content /\ a.lineage = o.lineage

\* ADR 0008: a lost audit record is never a success.  A dispatch that is
\* answered "ok" has produced its output and is in the ledgers.
AuditLossIsReported ==
  \A h \in Hosts : pc[h] = "ok" =>
    LET r == req[h] IN
    /\ DispatchRecord(r) \in dispatches
    /\ IF r.mode = "proof"
       THEN artifacts[r.job] # None /\ r.job \in JobsOf(proofs)
       ELSE \E o \in outputs : o.job = TrimmedId[r.job] /\ o.lineage = DispatchLineage(r)

\* docs/print-pipeline.md: "If `reprintOfJobId` is supplied, it must also match
\* the approved proof lineage chain."
ReprintsStayInLineage ==
  \A o \in outputs : ~o.bypass =>
    \A d \in dispatches : d.job = o.parent => d.lineage = o.lineage

\* docs/domain-model.md forbids overwriting a template version, so that a print
\* looks like the proof that was approved.
PrintsLookLikeTheirProof ==
  \A o \in outputs : ~o.bypass => artifacts[o.source] = o.rendering
=============================================================================
