-------------------------- MODULE BatchQueueProofs --------------------------
(***************************************************************************)
(* Proofs about PrintJob and Bridge, for every request and environment,    *)
(* and about BatchQueue for any sheets, environments, loops and bounds:    *)
(* what the queue shows and prints, whatever is retried, reloaded or lost. *)
(***************************************************************************)
EXTENDS BatchQueue, TLAPS

-----------------------------------------------------------------------------
(* PrintJob: the gate of the desktop shell, the print agent and the printer  *)
(* adapters check the same request one after the other, each with code of its*)
(* own.                                                                      *)

\* What is printed is what was compared with the approved proof: of a request
\* that both the gate and the agent can read, the agent renders the version
\* and the subject the gate has seen, although the one skips a blank version
\* and the other refuses it (resolve_template_version_for_request,
\* build_dispatch_match_subject; resolve_template_version, dispatch).
THEOREM GateSeesWhatIsPrinted ==
  ASSUME NEW r, BridgeVersion(r) # Invalid, Subject(r) # Invalid, AgentReads(r)
  PROVE  /\ Rendered(r).version = BridgeVersion(r)
         /\ Subject(r) = [sku |-> Rendered(r).sku, brand |-> Rendered(r).brand,
                          jan |-> Rendered(r).jan, qty |-> Rendered(r).qty]
<1>1. AgentVersion(r) = BridgeVersion(r)
  <2>1. CASE r.version = Absent
    BY <2>1 DEF AgentVersion, BridgeVersion
  <2>2. CASE r.version # Absent /\ IsBlank(r.version)
    <3>1. AgentVersion(r) = Agreed(Invalid, RefVersion(r.template))
      BY <2>2 DEF AgentVersion
    <3>2. AgentVersion(r) = Invalid
      BY <3>1 DEF Agreed
    <3> QED BY <3>2 DEF AgentReads
  <2>3. CASE r.version # Absent /\ ~IsBlank(r.version)
    BY <2>3 DEF AgentVersion, BridgeVersion
  <2> QED BY <2>1, <2>2, <2>3
<1>2. Subject(r) = [sku |-> Trimmed[r.sku], brand |-> Trimmed[r.brand],
                    jan |-> Parse(r.jan).digits, qty |-> r.qty]
  BY DEF Subject
<1> QED BY <1>1, <1>2 DEF Rendered

\* A request the agent could read and render does not fail at the printer any
\* more: the artifact is made for the adapter it goes to, so no file is left
\* behind by a submission that was refused for its kind (build_artifact,
\* PdfFileAdapter::submit, WindowsSpoolerAdapter::submit).
THEOREM PrinterTakesWhatIsMade ==
  ASSUME NEW r, NEW host, r.mode \in {"proof", "print"},
         Invalid \notin {"application/pdf", "image/svg+xml"},
         ~IsBlank(Config(host).printer)
  PROVE  Refusal(r, host, TRUE) \notin {"artifact", "submission"}
<1> DEFINE media == MediaType(r.mode, Kind(r, host))
<1> SUFFICES ASSUME r.mode # "proof" => PrintAdapter(r, host) \in Adapters(host)
             PROVE  media # Invalid /\ Takes(Adapter(r, host), media)
  BY DEF Refusal
<1>1. Adapter(r, host).kind = Kind(r, host) /\ Adapter(r, host).printer = Config(host).printer
  BY DEF Adapter
<1>2. CASE Kind(r, host) = "pdf"
  <2>1. media = "application/pdf"
    BY <1>2 DEF MediaType
  <2> QED BY <1>1, <1>2, <2>1 DEF Takes
<1>3. CASE Kind(r, host) # "pdf"
  <2>1. r.mode = "print" /\ Kind(r, host) = "windows-spooler"
    BY <1>3 DEF Kind, Adapters
  <2>2. media = "image/svg+xml"
    BY <2>1 DEF MediaType
  <2> QED BY <1>1, <2>1, <2>2 DEF Takes
<1> QED BY <1>2, <1>3

-----------------------------------------------------------------------------
\* What an error is raised for blocks the submission.
LEMMA ErrorsBlock ==
  ASSUME NEW host, ~Blocks(Status(host)), NEW code
  PROVE  /\ <<"error", code>> \notin AdapterWarnings(host)
         /\ <<"error", code>> \notin PrinterWarnings(host)
         /\ <<"error", code>> \notin ZintWarnings(host)
         /\ \A d \in Directories : <<"error", code>> \notin DirectoryWarnings(d, host)
<1> DEFINE error == <<"error", code>>
           all == (UNION {DirectoryWarnings(d, host) : d \in Directories})
                    \cup ZintWarnings(host) \cup AdapterWarnings(host)
                    \cup PrinterWarnings(host) \cup PolicyWarnings(host)
<1>1. Status(host).warnings = all
  BY DEF Status
<1>2. \A w \in all : w[1] # "error"
  BY <1>1 DEF Blocks
<1>3. error[1] = "error"
  OBVIOUS
<1>4. error \notin all
  BY <1>2, <1>3
<1> QED BY <1>4

\* Where the admin web may submit, the bridge works with what was configured:
\* a fallback the operator did not ask for has raised an error before.  The
\* adapter and the directories are those the status shows; the printer and
\* zint are those it shows and has judged up to the spaces around them, which
\* the status trims and the configuration keeps (PrintBridgeConfig::load,
\* PrintBridgeStatus::from_environment, isBridgeSubmitBlocked).
THEOREM FallbacksAreAnnounced ==
  ASSUME NEW host, ~Blocks(Status(host))
  PROVE  /\ host.adapter # NotSet => Config(host).adapter = AdapterNamed(host.adapter, host)
         /\ Config(host).adapter = "windows-spooler" =>
              /\ host.printer # NotSet /\ Config(host).printer = host.printer
              /\ Status(host).printer = Trimmed[Config(host).printer]
         /\ Status(host).zint \in {Config(host).zint, Trimmed[Config(host).zint]}
         /\ Status(host).zint \in host.absolute => Status(host).zint \in host.existing
         /\ \A d \in Directories :
              host.dirs[d] # NotSet => /\ Config(host).dirs[d] = host.dirs[d]
                                      /\ host.dirs[d] \in host.existing
<1>1. ASSUME host.adapter # NotSet
      PROVE  Config(host).adapter = AdapterNamed(host.adapter, host)
  <2>1. AdapterNamed(host.adapter, host) \notin {"unavailable", "unsupported"}
    <3>1. ASSUME AdapterNamed(host.adapter, host) = "unavailable" PROVE FALSE
      BY <1>1, <3>1, ErrorsBlock DEF AdapterWarnings
    <3>2. ASSUME AdapterNamed(host.adapter, host) = "unsupported" PROVE FALSE
      BY <1>1, <3>2, ErrorsBlock DEF AdapterWarnings
    <3> QED BY <3>1, <3>2
  <2>2. AdapterNamed(host.adapter, host) \in Adapters(host)
    BY <2>1 DEF AdapterNamed, Adapters
  <2> QED BY <1>1, <2>2 DEF Config, ConfiguredAdapter
<1>2. ASSUME Config(host).adapter = "windows-spooler"
      PROVE  /\ host.printer # NotSet /\ Config(host).printer = host.printer
             /\ Status(host).printer = Trimmed[Config(host).printer]
  <2>1. ConfiguredAdapter(host) = "windows-spooler"
    BY <1>2 DEF Config
  <2>2. host.printer # NotSet
    BY <2>1, ErrorsBlock DEF PrinterWarnings
  <2> QED BY <2>2 DEF Config, OrElse, Status, StatusPrinter, TrimmedOrElse
<1>3. /\ Status(host).zint \in {Config(host).zint, Trimmed[Config(host).zint]}
      /\ Status(host).zint \in host.absolute => Status(host).zint \in host.existing
  <2>1. Status(host).zint = StatusZint(host)
    BY DEF Status
  <2>2. StatusZint(host) \in {Config(host).zint, Trimmed[Config(host).zint]}
    BY DEF Config, OrElse, StatusZint, TrimmedOrElse
  <2>3. StatusZint(host) \in host.absolute => StatusZint(host) \in host.existing
    BY ErrorsBlock DEF ZintWarnings
  <2> QED BY <2>1, <2>2, <2>3
<1>4. ASSUME NEW d \in Directories, host.dirs[d] # NotSet
      PROVE  Config(host).dirs[d] = host.dirs[d] /\ host.dirs[d] \in host.existing
  <2>1. Config(host).dirs[d] = host.dirs[d]
    BY <1>4 DEF Config, OrElse
  <2> QED BY <1>4, <2>1, ErrorsBlock DEF DirectoryWarnings
<1> QED BY <1>1, <1>2, <1>3, <1>4

-----------------------------------------------------------------------------
(* Types of the queue.                                                      *)

\* A draft is of a sheet, a row and an attempt; its root is the first of them.
LEMMA DraftParts ==
  ASSUME NEW d \in Draft
  PROVE  /\ d.sheet \in DOMAIN Sheets /\ d.row \in DOMAIN Sheets[d.sheet]
         /\ d.attempt \in 0..MaxAttempts[d.sheet]
         /\ d = [row |-> d.row, sheet |-> d.sheet, attempt |-> d.attempt]
         /\ d.row \in RowIndex
<1>1. PICK s \in DOMAIN Sheets :
        d \in [row : DOMAIN Sheets[s], sheet : {s}, attempt : 0..MaxAttempts[s]]
  BY DEF Draft
<1>2. QED
  BY <1>1 DEF RowIndex

LEMMA DraftMade ==
  ASSUME NEW s \in DOMAIN Sheets, NEW i \in DOMAIN Sheets[s], NEW n \in 0..MaxAttempts[s]
  PROVE  [row |-> i, sheet |-> s, attempt |-> n] \in Draft
  BY DEF Draft

LEMMA RootType ==
  ASSUME NEW d \in Draft
  PROVE  /\ Root(d) \in FirstAttempts /\ Root(d) \in Draft
         /\ Root(d).sheet = d.sheet /\ Root(d).row = d.row /\ Root(d).attempt = 0
         /\ Root(Root(d)) = Root(d)
         /\ \A n \in 1..MaxAttempts[d.sheet] :
              [d EXCEPT !.attempt = n] \in Draft /\ Root([d EXCEPT !.attempt = n]) = Root(d)
<1>1. MaxAttempts[d.sheet] \in Nat
  BY DraftParts, QueueAssumption
<1>2. \A n : [d EXCEPT !.attempt = n] = [row |-> d.row, sheet |-> d.sheet, attempt |-> n]
  BY DraftParts
<1>3. Root(d) = [row |-> d.row, sheet |-> d.sheet, attempt |-> 0]
  BY <1>2 DEF Root
<1>4. Root(d) \in Draft
  BY <1>1, <1>3, DraftParts, DraftMade
<1>5. \A n \in 1..MaxAttempts[d.sheet] : [d EXCEPT !.attempt = n] \in Draft
  BY <1>1, <1>2, DraftParts, DraftMade
<1>6. \A n : Root([d EXCEPT !.attempt = n]) = Root(d)
  BY <1>2, <1>3 DEF Root
<1>7. QED
  BY <1>3, <1>4, <1>5, <1>6 DEF FirstAttempts, Root

\* A queue of rows that are put in one for one.
LEMMA QueueMade ==
  ASSUME NEW q \in Queue, NEW new, DOMAIN new = DOMAIN q, new = [i \in DOMAIN q |-> new[i]],
         \A i \in DOMAIN q : new[i] \in Row
  PROVE  new \in Queue
<1>1. PICK D \in {{}} \cup {DOMAIN Sheets[s] : s \in DOMAIN Sheets} : q \in [D -> Row]
  BY DEF Queue
<1>2. new \in [D -> Row]
  BY <1>1
<1>3. QED
  BY <1>2 DEF Queue

LEMMA QueueParts ==
  ASSUME NEW q \in Queue
  PROVE  /\ DOMAIN q \subseteq RowIndex
         /\ \A i \in DOMAIN q : q[i] \in Row
<1>1. PICK D \in {{}} \cup {DOMAIN Sheets[s] : s \in DOMAIN Sheets} : q \in [D -> Row]
  BY DEF Queue
<1>2. QED
  BY <1>1 DEF RowIndex

LEMMA EmptyQueue == <<>> \in Queue
<1>1. <<>> \in [{} -> Row]
  OBVIOUS
<1>2. QED
  BY <1>1 DEF Queue

-----------------------------------------------------------------------------
(* The inductive invariant.                                                 *)

\* Whoever knows a job of a row knows the first one, which named the lineage.
OfOneLineage(r) ==
  /\ r.lineage \in {None, Root(r.draft)}
  /\ r.lineage = None => r.draft = Root(r.draft)

Printed(draft, outs) == \E o \in outs : o.draft = draft

\* A queue, on the screen or in a snapshot.
QueueHolds(q, outs) ==
  \A i \in DOMAIN q :
    /\ OfOneLineage(q[i])
    /\ q[i].status = "submitted" => q[i].result = q[i].draft /\ Printed(q[i].draft, outs)

\* A submission that was let in, the rows that it has to go, and its call.
LoopHolds(loop, outs, e) ==
  /\ ~Blocks(Status(e))
  /\ \A i \in DOMAIN loop.todo : OfOneLineage(loop.todo[i])
  /\ loop.call # None =>
       /\ OfOneLineage(loop.call)
       /\ loop.call.reply = "ok" => Printed(loop.call.draft, outs)

\* What was printed was let in, and agrees with its draft.
OutputHolds(o, e) ==
  /\ ~Blocks(Status(e))
  /\ o.draft \in Draft
  /\ o.lineage = IF ProofLineage(o.draft) # Absent THEN ProofLineage(o.draft)
                 ELSE Root(o.draft)
  /\ o.result = Result(RequestOf(o.draft), e)
  /\ Refusal(RequestOf(o.draft), e, TRUE) = "none"

LoadHolds(load, outs) ==
  load # None /\ load.found \notin {None, Torn} => QueueHolds(load.found.rows, outs)

DiskHolds ==
  /\ file \notin {None, Torn} => QueueHolds(file.rows, outputs)
  /\ \A n \in 1..MaxLoads : LoadHolds(loading[n], outputs)

IndInv ==
  /\ TypeOK
  /\ QueueHolds(rows, outputs)
  /\ DiskHolds
  /\ \A l \in Loops : loops[l] # None => LoopHolds(loops[l], outputs, env)
  /\ \A o \in outputs : OutputHolds(o, env)

-----------------------------------------------------------------------------
(* Steps on the screen.                                                     *)

\* What is typed is the rows and the phase, each by itself.
LEMMA ScreenType ==
  /\ [rows |-> rows, phase |-> phase] \in Snapshot <=> rows \in Queue /\ phase \in Phases
  /\ ([rows |-> rows, phase |-> phase] \in Snapshot)' <=> rows' \in Queue /\ phase' \in Phases
  BY DEF Snapshot

\* The operator changes the rows, the sheet and the state of the screen.
LEMMA ScreenStep ==
  ASSUME IndInv, UNCHANGED <<env, attempts, loops, disk, outputs, faults>>,
         status' = None \/ status' = Status(env),
         rows' \in Queue, QueueHolds(rows', outputs), phase' \in Phases,
         issue' \in BOOLEAN, hydrated' \in BOOLEAN, sheet' \in DOMAIN Sheets,
         changes' \in 0..MaxChanges
  PROVE  IndInv'
<1>1. UNCHANGED <<file, loading, loads>>
  BY DEF disk
<1>2. TypeOK'
  BY <1>1, ScreenType DEF IndInv, TypeOK
<1>3. DiskHolds'
  BY <1>1 DEF IndInv, DiskHolds
<1>4. QED
  BY <1>2, <1>3 DEF IndInv

\* A row of the catalog's doing.
LEMMA CatalogRows ==
  ASSUME NEW row \in Row, NEW outs, OfOneLineage(row),
         row.status = "submitted" => row.result = row.draft /\ Printed(row.draft, outs),
         NEW new \in {Blocked(row), Unblocked(row)}
  PROVE  /\ new \in Row
         /\ OfOneLineage(new)
         /\ new.status = "submitted" => new.result = new.draft /\ Printed(new.draft, outs)
<1>1. CASE new = Blocked(row)
  BY <1>1 DEF Blocked, Row, OfOneLineage
<1>2. CASE new = Unblocked(row)
  BY <1>2 DEF Unblocked, Row, OfOneLineage
<1>3. QED
  BY <1>1, <1>2

LEMMA IndOperator == IndInv /\ Operator => IndInv'
<1>1. SUFFICES ASSUME IndInv, Operator PROVE IndInv'
  OBVIOUS
<1>2. /\ TypeOK /\ rows \in Queue /\ phase \in Phases /\ QueueHolds(rows, outputs)
      /\ issue \in BOOLEAN /\ hydrated \in BOOLEAN /\ sheet \in DOMAIN Sheets
      /\ changes \in 0..MaxChanges /\ (status = None \/ status = Status(env))
  BY <1>1, ScreenType DEF IndInv, TypeOK
<1>3. sheet < Len(Sheets) => sheet + 1 \in DOMAIN Sheets
  BY <1>2, QueueAssumption
<1>4. /\ QueueHolds(<<>>, outputs) /\ "idle" \in Phases
  BY DEF QueueHolds, Phases
<1>5. CASE RefreshBridgeStatus
  BY <1>1, <1>2, <1>5, ScreenStep DEF RefreshBridgeStatus, queue
<1>6. CASE Upload
  BY <1>1, <1>2, <1>3, <1>4, <1>6, ScreenStep, EmptyQueue DEF Upload, SetQueue
<1>7. CASE Prepare
  BY <1>1, <1>2, <1>3, <1>7, ScreenStep DEF Prepare
<1>8. CASE BuildQueue
  <2>1. PICK q : q = [i \in DOMAIN Sheets[sheet] |->
                        [draft |-> [row |-> i, sheet |-> sheet, attempt |-> 0],
                         status |-> "ready", lineage |-> None, result |-> None,
                         issue |-> FALSE]]
    OBVIOUS
  <2>2. rows' = (IF issue THEN <<>> ELSE q) /\ phase' = "idle"
    BY <1>8, <2>1 DEF BuildQueue, SetQueue
  <2>3. ASSUME NEW i \in DOMAIN q PROVE q[i] \in Row /\ OfOneLineage(q[i]) /\ q[i].status = "ready"
    <3>1. 0 \in 0..MaxAttempts[sheet]
      BY <1>2, QueueAssumption
    <3>2. PICK d \in Draft : d = [row |-> i, sheet |-> sheet, attempt |-> 0]
      BY <1>2, <2>1, <3>1, DraftMade
    <3>3. q[i] = [draft |-> d, status |-> "ready", lineage |-> None, result |-> None,
                  issue |-> FALSE]
      BY <2>1, <3>2
    <3>4. d = Root(d)
      BY <3>2 DEF Root
    <3>5. QED
      BY <3>3, <3>4 DEF Row, OfOneLineage
  <2>4. q \in Queue
    <3>1. q \in [DOMAIN Sheets[sheet] -> Row]
      BY <2>1, <2>3
    <3>2. QED
      BY <1>2, <3>1 DEF Queue
  <2>5. QueueHolds(q, outputs)
    BY <2>3 DEF QueueHolds
  <2>6. QED
    BY <1>1, <1>2, <1>4, <1>8, <2>2, <2>4, <2>5, ScreenStep, EmptyQueue DEF BuildQueue
<1>9. CASE ClearQueue
  BY <1>1, <1>2, <1>4, <1>9, ScreenStep, EmptyQueue DEF ClearQueue, SetQueue
<1>10. CASE ChangeCatalog
  <2>1. PICK q : q = [i \in DOMAIN rows |-> IF issue THEN Unblocked(rows[i]) ELSE Blocked(rows[i])]
    OBVIOUS
  <2>2. rows' = q
    BY <1>10, <2>1 DEF ChangeCatalog
  <2>3. ASSUME NEW i \in DOMAIN rows
        PROVE  /\ q[i] \in Row /\ OfOneLineage(q[i])
               /\ q[i].status = "submitted" =>
                    q[i].result = q[i].draft /\ Printed(q[i].draft, outputs)
    <3>1. /\ rows[i] \in Row /\ OfOneLineage(rows[i])
          /\ rows[i].status = "submitted" =>
               rows[i].result = rows[i].draft /\ Printed(rows[i].draft, outputs)
      BY <1>2, QueueParts DEF QueueHolds
    <3>2. q[i] \in {Blocked(rows[i]), Unblocked(rows[i])}
      BY <2>1
    <3>3. QED
      BY <3>1, <3>2, CatalogRows
  <2>4. q \in Queue
    BY <1>2, <2>1, <2>3, QueueMade
  <2>5. QueueHolds(q, outputs)
    BY <2>1, <2>3 DEF QueueHolds
  <2>6. changes' \in 0..MaxChanges /\ issue' \in BOOLEAN
    BY <1>2, <1>10, QueueAssumption DEF ChangeCatalog
  <2>7. QED
    BY <1>1, <1>2, <1>10, <2>2, <2>4, <2>5, <2>6, ScreenStep DEF ChangeCatalog
<1>11. QED
  BY <1>1, <1>5, <1>6, <1>7, <1>8, <1>9, <1>10 DEF Operator

-----------------------------------------------------------------------------
(* Steps of the submissions.                                                *)

\* What holds of a queue or a submission stays true as more is printed.
LEMMA MoreIsPrinted ==
  ASSUME NEW outs, NEW more, outs \subseteq more
  PROVE  /\ \A q : QueueHolds(q, outs) => QueueHolds(q, more)
         /\ \A loop, e : LoopHolds(loop, outs, e) => LoopHolds(loop, more, e)
<1>1. \A d : Printed(d, outs) => Printed(d, more)
  BY DEF Printed
<1>2. QED
  BY <1>1 DEF QueueHolds, LoopHolds

LEMMA LoopParts ==
  ASSUME IndInv, NEW l \in Loops, loops[l] # None
  PROVE  /\ loops[l] \in Submission
         /\ LoopHolds(loops[l], outputs, env)
         /\ DOMAIN loops[l].todo \subseteq RowIndex
         /\ \A i \in DOMAIN loops[l].todo : loops[l].todo[i] \in Row
         /\ loops[l].call # None => loops[l].call \in Call
<1>1. loops[l] \in Submission
  BY DEF IndInv, TypeOK
<1>2. PICK D \in SUBSET RowIndex : loops[l].todo \in [D -> Row]
  BY <1>1 DEF Submission
<1>3. loops[l].call \in Call \cup {None}
  BY <1>1 DEF Submission
<1>4. QED
  BY <1>1, <1>2, <1>3 DEF IndInv

\* A step of one submission, which may print.
LEMMA LoopStep ==
  ASSUME IndInv, NEW l \in Loops, NEW loop \in Submission \cup {None},
         loops' = [loops EXCEPT ![l] = loop],
         loop # None => LoopHolds(loop, outputs', env),
         outputs \subseteq outputs', \A o \in outputs' : OutputHolds(o, env),
         rows' \in Queue, QueueHolds(rows', outputs'), phase' \in Phases,
         attempts' \in [FirstAttempts -> Nat],
         \A d \in FirstAttempts : attempts'[d] \in 0..MaxAttempts[d.sheet],
         faults' \in 0..MaxFaults,
         UNCHANGED <<env, status, issue, changes, hydrated, sheet, disk>>
  PROVE  IndInv'
<1>1. UNCHANGED <<file, loading, loads>>
  BY DEF disk
<1>2. loops \in [Loops -> Submission \cup {None}]
  BY DEF IndInv, TypeOK
<1>3. loops' \in [Loops -> Submission \cup {None}]
  BY <1>2
<1>4. TypeOK'
  BY <1>1, <1>3, ScreenType DEF IndInv, TypeOK
<1>5. DiskHolds'
  BY <1>1, MoreIsPrinted DEF IndInv, DiskHolds, LoadHolds
<1>6. ASSUME NEW k \in Loops, loops'[k] # None
      PROVE  LoopHolds(loops'[k], outputs', env')
  <2>1. CASE k = l
    BY <1>2, <1>6, <2>1
  <2>2. CASE k # l
    <3>1. loops'[k] = loops[k]
      BY <1>2, <2>2
    <3>2. LoopHolds(loops[k], outputs, env)
      BY <1>6, <3>1 DEF IndInv
    <3>3. QED
      BY <3>1, <3>2, MoreIsPrinted
  <2>3. QED
    BY <2>1, <2>2
<1>7. QED
  BY <1>4, <1>5, <1>6 DEF IndInv

LEMMA IndSubmit == ASSUME IndInv, NEW l \in Loops, Submit(l) PROVE IndInv'
<1>1. /\ rows \in Queue /\ QueueHolds(rows, outputs)
      /\ attempts \in [FirstAttempts -> Nat]
      /\ \A d \in FirstAttempts : attempts[d] \in 0..MaxAttempts[d.sheet]
      /\ status = None \/ status = Status(env)
      /\ faults \in 0..MaxFaults /\ \A o \in outputs : OutputHolds(o, env)
  BY ScreenType DEF IndInv, TypeOK
<1>2. PICK todo : todo = Captured
  OBVIOUS
<1>3. /\ DOMAIN todo \subseteq DOMAIN rows /\ todo = [i \in DOMAIN todo |-> todo[i]]
      /\ \A i \in DOMAIN todo : todo[i] = rows[i]
  BY <1>2 DEF Captured
<1>4. todo \in [DOMAIN todo -> Row] /\ DOMAIN todo \in SUBSET RowIndex
  BY <1>1, <1>3, QueueParts
<1>5. PICK loop : loop = [todo |-> todo, call |-> None]
  OBVIOUS
<1>6. loop \in Submission
  BY <1>4, <1>5 DEF Submission
<1>7. LoopHolds(loop, outputs, env)
  <2>1. ~Blocks(Status(env))
    BY <1>1 DEF Submit
  <2>2. \A i \in DOMAIN todo : OfOneLineage(todo[i])
    BY <1>1, <1>3 DEF QueueHolds
  <2>3. QED
    BY <1>5, <2>1, <2>2 DEF LoopHolds
<1>8. loops' = [loops EXCEPT ![l] = loop]
  BY <1>2, <1>5 DEF Submit
<1>9. phase' \in Phases
  BY DEF Submit, Phases
<1>10. QED
  BY <1>1, <1>6, <1>7, <1>8, <1>9, LoopStep DEF Submit

\* A row of the queue replaced.
LEMMA RowWritten ==
  ASSUME IndInv, NEW i, NEW row \in Row, rows' = WriteRow(i, row), OfOneLineage(row),
         row.status = "submitted" => row.result = row.draft /\ Printed(row.draft, outputs)
  PROVE  rows' \in Queue /\ QueueHolds(rows', outputs)
<1>1. rows \in Queue /\ QueueHolds(rows, outputs)
  BY ScreenType DEF IndInv, TypeOK
<1>2. PICK q : q = [j \in DOMAIN rows |-> IF j = i THEN row ELSE rows[j]]
  OBVIOUS
<1>3. \A j \in DOMAIN rows : q[j] \in Row
  BY <1>1, <1>2, QueueParts
<1>4. q \in Queue
  BY <1>1, <1>2, <1>3, QueueMade
<1>5. QueueHolds(q, outputs)
  BY <1>1, <1>2 DEF QueueHolds
<1>6. QED
  BY <1>2, <1>4, <1>5 DEF WriteRow

\* The job ids that are made for a row are of its lineage.
LEMMA DraftSubmitted ==
  ASSUME IndInv, NEW row \in Row, OfOneLineage(row), NEW draft \in Draft,
         ActiveDraft(row, draft)
  PROVE  /\ attempts' \in [FirstAttempts -> Nat]
         /\ \A d \in FirstAttempts : attempts'[d] \in 0..MaxAttempts[d.sheet]
         /\ OfOneLineage([draft |-> draft, lineage |-> RetryLineage(row)])
         /\ RetryLineage(row) \in Draft \cup {None}
<1>1. /\ attempts \in [FirstAttempts -> Nat]
      /\ \A d \in FirstAttempts : attempts[d] \in 0..MaxAttempts[d.sheet]
  BY DEF IndInv, TypeOK
<1>2. /\ row.draft \in Draft /\ row.lineage \in Draft \cup {None}
      /\ row.lineage \in {None, Root(row.draft)}
      /\ row.lineage = None => row.draft = Root(row.draft)
  BY DEF Row, OfOneLineage
<1>3. CASE row.status = "failed"
  <2>1. PICK n : n = draft.attempt
    OBVIOUS
  <2>2. AttemptOf(Root(row.draft), n) /\ draft = [row.draft EXCEPT !.attempt = n]
    BY <1>3, <2>1 DEF ActiveDraft
  <2>3. PICK root \in FirstAttempts : root = Root(row.draft) /\ root.sheet = row.draft.sheet
    BY <1>2, RootType
  <2>4. n \in 1..MaxAttempts[root.sheet] /\ attempts' = [attempts EXCEPT ![root] = n]
    BY <2>2, <2>3 DEF AttemptOf
  <2>5. MaxAttempts[root.sheet] \in Nat
    BY <1>2, <2>3, DraftParts, QueueAssumption
  <2>6. Root(draft) = root
    BY <1>2, <2>2, <2>3, <2>4, RootType
  <2>7. RetryLineage(row) = root
    BY <1>2, <1>3, <2>3 DEF RetryLineage
  <2>8. root # None /\ root \in Draft
    BY NoDraftAssumption DEF FirstAttempts
  <2>9. OfOneLineage([draft |-> draft, lineage |-> RetryLineage(row)])
    BY <2>6, <2>7, <2>8 DEF OfOneLineage
  <2>10. QED
    BY <1>1, <2>4, <2>5, <2>7, <2>8, <2>9
<1>4. CASE row.status # "failed"
  <2>1. draft = row.draft /\ UNCHANGED attempts
    BY <1>4 DEF ActiveDraft
  <2>2. RetryLineage(row) = row.lineage
    BY <1>4 DEF RetryLineage
  <2>3. QED
    BY <1>1, <1>2, <2>1, <2>2 DEF OfOneLineage
<1>5. QED
  BY <1>3, <1>4

\* What the steps of a submission leave alone, and may.
LEMMA LoopFacts ==
  ASSUME IndInv
  PROVE  /\ rows \in Queue /\ QueueHolds(rows, outputs) /\ phase \in Phases
         /\ attempts \in [FirstAttempts -> Nat]
         /\ \A d \in FirstAttempts : attempts[d] \in 0..MaxAttempts[d.sheet]
         /\ faults \in 0..MaxFaults /\ \A o \in outputs : OutputHolds(o, env)
         /\ Fault => faults' \in 0..MaxFaults
  BY ScreenType, QueueAssumption DEF IndInv, TypeOK, Fault

LEMMA IndStart == ASSUME IndInv, NEW l \in Loops, Start(l) PROVE IndInv'
<1>1. PICK i \in DOMAIN loops[l].todo, draft \in Draft :
        /\ ActiveDraft(loops[l].todo[i], draft)
        /\ rows' = WriteRow(i, [draft |-> draft, status |-> "submitting",
                                lineage |-> RetryLineage(loops[l].todo[i]),
                                result |-> None, issue |-> FALSE])
        /\ loops' = [loops EXCEPT ![l] =
             [todo |-> Without(loops[l].todo, i),
              call |-> [index |-> i, draft |-> draft,
                        lineage |-> RetryLineage(loops[l].todo[i]), reply |-> "none"]]]
  BY DEF Start
<1>2. /\ loops[l] # None /\ phase' = "submitting"
      /\ UNCHANGED <<env, status, issue, changes, hydrated, sheet, disk, outputs, faults>>
  BY DEF Start
<1>3. /\ LoopHolds(loops[l], outputs, env)
      /\ DOMAIN loops[l].todo \subseteq RowIndex
      /\ \A j \in DOMAIN loops[l].todo : loops[l].todo[j] \in Row
  BY <1>2, LoopParts
<1>4. PICK row \in Row : row = loops[l].todo[i] /\ OfOneLineage(row)
  BY <1>1, <1>3 DEF LoopHolds
<1>5. PICK lineage \in Draft \cup {None} : lineage = RetryLineage(row)
  BY <1>1, <1>4, DraftSubmitted
<1>6. OfOneLineage([draft |-> draft, lineage |-> lineage])
  BY <1>1, <1>4, <1>5, DraftSubmitted
<1>7. PICK call : call = [index |-> i, draft |-> draft, lineage |-> lineage, reply |-> "none"]
  OBVIOUS
<1>8. call \in Call /\ OfOneLineage(call) /\ call.reply = "none"
  BY <1>1, <1>3, <1>6, <1>7 DEF Call, OfOneLineage
<1>9. PICK todo : todo = Without(loops[l].todo, i)
  OBVIOUS
<1>10. /\ DOMAIN todo \subseteq DOMAIN loops[l].todo /\ todo = [j \in DOMAIN todo |-> todo[j]]
       /\ \A j \in DOMAIN todo : todo[j] = loops[l].todo[j]
  BY <1>9 DEF Without
<1>11. todo \in [DOMAIN todo -> Row] /\ DOMAIN todo \in SUBSET RowIndex
  BY <1>3, <1>10
<1>12. PICK loop : loop = [todo |-> todo, call |-> call]
  OBVIOUS
<1>13. loop \in Submission
  BY <1>8, <1>11, <1>12 DEF Submission
<1>14. LoopHolds(loop, outputs, env)
  BY <1>3, <1>8, <1>10, <1>12 DEF LoopHolds
<1>15. loops' = [loops EXCEPT ![l] = loop]
  BY <1>1, <1>4, <1>5, <1>7, <1>9, <1>12
<1>16. PICK new : new = [draft |-> draft, status |-> "submitting", lineage |-> lineage,
                         result |-> None, issue |-> FALSE]
  OBVIOUS
<1>17. /\ new \in Row /\ OfOneLineage(new) /\ new.status # "submitted"
       /\ rows' = WriteRow(i, new)
  BY <1>1, <1>4, <1>5, <1>6, <1>16 DEF Row, OfOneLineage
<1>18. rows' \in Queue /\ QueueHolds(rows', outputs)
  BY <1>17, RowWritten
<1>19. /\ attempts' \in [FirstAttempts -> Nat]
       /\ \A d \in FirstAttempts : attempts'[d] \in 0..MaxAttempts[d.sheet]
  BY <1>1, <1>4, DraftSubmitted
<1>20. phase' \in Phases
  BY <1>2 DEF Phases
<1>21. QED
  BY <1>2, <1>13, <1>14, <1>15, <1>18, <1>19, <1>20, LoopFacts, LoopStep

\* A call of a submission.
LEMMA CallParts ==
  ASSUME IndInv, NEW l \in Loops, loops[l] # None, loops[l].call # None
  PROVE  /\ loops[l].call \in Call /\ OfOneLineage(loops[l].call)
         /\ ~Blocks(Status(env))
         /\ loops[l].call.reply = "ok" => Printed(loops[l].call.draft, outputs)
  BY LoopParts DEF LoopHolds

\* What a call prints that the gate accepts.
LEMMA OutputMade ==
  ASSUME NEW call \in Call, OfOneLineage(call), ~Blocks(Status(env)), GateAccepts(call),
         Refusal(RequestOf(call.draft), env, TRUE) = "none"
  PROVE  /\ OutputHolds(Output(call), env)
         /\ Output(call).draft = call.draft
<1>1. call.draft \in Draft
  BY DEF Call
<1>2. /\ Output(call).draft = call.draft /\ Output(call).lineage = LineageOf(call)
      /\ Output(call).result = Result(RequestOf(call.draft), env)
  BY DEF Output
<1>3. LineageOf(call) = IF ProofLineage(call.draft) # Absent THEN ProofLineage(call.draft)
                        ELSE Root(call.draft)
  BY DEF LineageOf, OfOneLineage
<1>4. QED
  BY <1>1, <1>2, <1>3 DEF OutputHolds

\* A call is answered, and may have printed.
LEMMA ReplyStep ==
  ASSUME IndInv, NEW l \in Loops, Calling(l), NEW reply \in {"ok", "error"}, Reply(l, reply),
         \/ UNCHANGED outputs /\ reply = "error"
         \/ /\ GateAccepts(loops[l].call)
            /\ Refusal(RequestOf(loops[l].call.draft), env, TRUE) = "none"
            /\ outputs' = outputs \cup {Output(loops[l].call)},
         faults' \in 0..MaxFaults,
         UNCHANGED <<env, status, queue, attempts, disk>>
  PROVE  IndInv'
<1>1. PICK call : call = loops[l].call
  OBVIOUS
<1>2. loops[l] # None /\ call # None
  BY <1>1 DEF Calling
<1>3. /\ call \in Call /\ OfOneLineage(call) /\ ~Blocks(Status(env))
  BY <1>1, <1>2, CallParts
<1>4. /\ outputs \subseteq outputs' /\ \A o \in outputs' : OutputHolds(o, env)
      /\ reply = "ok" => Printed(call.draft, outputs')
  <2>1. CASE UNCHANGED outputs /\ reply = "error"
    BY <2>1, LoopFacts
  <2>2. CASE /\ GateAccepts(call) /\ Refusal(RequestOf(call.draft), env, TRUE) = "none"
             /\ outputs' = outputs \cup {Output(call)}
    <3>1. OutputHolds(Output(call), env) /\ Output(call).draft = call.draft
      BY <1>3, <2>2, OutputMade
    <3>2. QED
      BY <2>2, <3>1, LoopFacts DEF Printed
  <2>3. QED
    BY <1>1, <2>1, <2>2
<1>5. PICK new : new = [call EXCEPT !.reply = reply]
  OBVIOUS
<1>6. /\ new \in Call /\ new.draft = call.draft /\ new.lineage = call.lineage
      /\ new.reply = reply
  BY <1>3, <1>5 DEF Call
<1>7. OfOneLineage(new)
  BY <1>3, <1>6 DEF OfOneLineage
<1>8. PICK loop : loop = [todo |-> loops[l].todo, call |-> new]
  OBVIOUS
<1>9. loops[l] \in Submission /\ LoopHolds(loops[l], outputs, env)
  BY <1>2, LoopParts
<1>10. loops[l] = [todo |-> loops[l].todo, call |-> call]
  BY <1>1, <1>9 DEF Submission
<1>11. loop = [loops[l] EXCEPT !.call.reply = reply]
  BY <1>5, <1>8, <1>10
<1>12. loop \in Submission
  BY <1>6, <1>8, <1>9 DEF Submission
<1>13. LoopHolds(loop, outputs', env)
  BY <1>3, <1>4, <1>6, <1>7, <1>8, <1>9 DEF LoopHolds
<1>14. loops' = [loops EXCEPT ![l] = loop]
  BY <1>11 DEF Reply
<1>15. QueueHolds(rows, outputs')
  BY <1>4, LoopFacts, MoreIsPrinted
<1>16. QED
  BY <1>4, <1>12, <1>13, <1>14, <1>15, LoopFacts, LoopStep DEF queue

LEMMA IndDispatch ==
  ASSUME IndInv, NEW l \in Loops, DispatchSucceeds(l) \/ DispatchRefused(l) \/ DispatchFails(l)
  PROVE  IndInv'
<1>1. CASE DispatchSucceeds(l)
  BY <1>1, ReplyStep, LoopFacts DEF DispatchSucceeds
<1>2. CASE DispatchRefused(l)
  BY <1>2, ReplyStep, LoopFacts DEF DispatchRefused
<1>3. CASE DispatchFails(l)
  BY <1>3, ReplyStep, LoopFacts DEF DispatchFails
<1>4. QED
  BY <1>1, <1>2, <1>3

LEMMA IndAnswer == ASSUME IndInv, NEW l \in Loops, Answer(l) PROVE IndInv'
<1>1. PICK call : call = loops[l].call
  OBVIOUS
<1>2. loops[l] # None /\ call # None
  BY <1>1 DEF Answer, Answered
<1>3. /\ call \in Call /\ OfOneLineage(call)
      /\ call.reply = "ok" => Printed(call.draft, outputs)
  BY <1>1, <1>2, CallParts
<1>4. PICK row : row = [draft |-> call.draft, lineage |-> call.lineage, issue |-> FALSE,
                        status |-> IF call.reply = "ok" THEN "submitted" ELSE "failed",
                        result |-> IF call.reply = "ok" THEN call.draft ELSE None]
  OBVIOUS
<1>5. /\ row \in Row /\ OfOneLineage(row)
      /\ row.status = "submitted" => row.result = row.draft /\ Printed(row.draft, outputs)
  BY <1>3, <1>4 DEF Row, Call, OfOneLineage
<1>6. rows' = WriteRow(call.index, row)
  BY <1>1, <1>4 DEF Answer
<1>7. rows' \in Queue /\ QueueHolds(rows', outputs)
  BY <1>5, <1>6, RowWritten
<1>8. loops[l] \in Submission /\ LoopHolds(loops[l], outputs, env)
  BY <1>2, LoopParts
<1>9. PICK loop : loop = [todo |-> loops[l].todo, call |-> None]
  OBVIOUS
<1>10. loop = [loops[l] EXCEPT !.call = None]
  BY <1>8, <1>9 DEF Submission
<1>11. loop \in Submission
  BY <1>8, <1>9 DEF Submission
<1>12. LoopHolds(loop, outputs, env)
  BY <1>8, <1>9 DEF LoopHolds
<1>13. loops' = [loops EXCEPT ![l] = loop]
  BY <1>10 DEF Answer
<1>14. QED
  BY <1>7, <1>11, <1>12, <1>13, LoopFacts, LoopStep DEF Answer

LEMMA IndFinish == ASSUME IndInv, NEW l \in Loops, Finish(l) PROVE IndInv'
<1>1. phase' \in Phases
  BY DEF Finish, Phases
<1>2. QED
  BY <1>1, LoopFacts, LoopStep DEF Finish

-----------------------------------------------------------------------------
(* Steps of the snapshot, and a crash.                                      *)

LEMMA SnapshotParts ==
  /\ \A s \in Snapshot : s.rows \in Queue /\ s.phase \in Phases
  /\ rows \in Queue /\ phase \in Phases => [rows |-> rows, phase |-> phase] \in Snapshot
  BY DEF Snapshot

LEMMA IndSnapshot == ASSUME IndInv, SnapshotFile PROVE IndInv'
<1>1. /\ TypeOK /\ DiskHolds /\ rows \in Queue /\ phase \in Phases /\ QueueHolds(rows, outputs)
      /\ file \in Snapshot \cup {None, Torn}
      /\ loading \in [1..MaxLoads -> [found : Snapshot \cup {None, Torn}] \cup {None}]
      /\ loads \in 0..MaxLoads
  BY ScreenType DEF IndInv, TypeOK
<1>2. CASE ReadFile
  <2>1. PICK l : l = [found |-> file]
    OBVIOUS
  <2>2. /\ loading' = [loading EXCEPT ![loads + 1] = l]
        /\ loads' = loads + 1 /\ loads < MaxLoads
        /\ UNCHANGED <<env, status, rows, phase, issue, changes, hydrated, sheet, attempts,
                       loops, file, outputs, faults>>
    BY <1>2, <2>1 DEF ReadFile, queue
  <2>3. /\ loading' \in [1..MaxLoads -> [found : Snapshot \cup {None, Torn}] \cup {None}]
        /\ \A n \in 1..MaxLoads : loading'[n] \in {l, loading[n]}
    <3>1. l \in [found : Snapshot \cup {None, Torn}]
      BY <1>1, <2>1
    <3>2. QED BY <1>1, <2>2, <3>1
  <2>4. loads' \in 0..MaxLoads
    BY <1>1, <2>2, QueueAssumption
  <2>5. TypeOK'
    BY <1>1, <2>2, <2>3, <2>4, ScreenType DEF TypeOK
  <2>6. DiskHolds'
    <3>1. LoadHolds(l, outputs)
      BY <1>1, <2>1 DEF DiskHolds, LoadHolds
    <3>2. \A n \in 1..MaxLoads : LoadHolds(loading'[n], outputs)
      BY <1>1, <2>3, <3>1 DEF DiskHolds
    <3>3. QED BY <1>1, <2>2, <3>2 DEF DiskHolds
  <2>7. QED
    BY <1>1, <2>2, <2>5, <2>6 DEF IndInv
<1>3. ASSUME NEW n \in 1..MaxLoads, ApplyLoad(n) PROVE IndInv'
  <2>1. /\ loading[n] # None /\ loading' = [loading EXCEPT ![n] = None] /\ hydrated' = TRUE
        /\ UNCHANGED <<env, status, issue, changes, sheet, attempts, loops, file, loads, outputs,
                       faults>>
        /\ \/ /\ loading[n].found \notin {None, Torn}
              /\ rows' = loading[n].found.rows /\ phase' = loading[n].found.phase
           \/ UNCHANGED <<rows, phase>>
    BY <1>3 DEF ApplyLoad, SetQueue
  <2>2. rows' \in Queue /\ phase' \in Phases /\ QueueHolds(rows', outputs)
    <3>1. CASE /\ loading[n].found \notin {None, Torn}
               /\ rows' = loading[n].found.rows /\ phase' = loading[n].found.phase
      <4>1. loading[n].found \in Snapshot
        BY <1>1, <2>1, <3>1
      <4>2. QueueHolds(loading[n].found.rows, outputs)
        BY <1>1, <2>1, <3>1 DEF DiskHolds, LoadHolds
      <4>3. QED
        BY <3>1, <4>1, <4>2, SnapshotParts
    <3>2. CASE UNCHANGED <<rows, phase>>
      BY <1>1, <3>2
    <3>3. QED
      BY <2>1, <3>1, <3>2
  <2>3. TypeOK'
    <3>1. loading' \in [1..MaxLoads -> [found : Snapshot \cup {None, Torn}] \cup {None}]
      BY <1>1, <2>1
    <3>2. QED BY <1>1, <2>1, <2>2, <3>1, ScreenType DEF TypeOK
  <2>4. DiskHolds'
    <3>1. \A k \in 1..MaxLoads : loading'[k] \in {None, loading[k]}
      BY <1>1, <2>1
    <3>2. \A k \in 1..MaxLoads : LoadHolds(loading'[k], outputs)
      BY <1>1, <3>1 DEF DiskHolds, LoadHolds
    <3>3. QED BY <1>1, <2>1, <3>2 DEF DiskHolds
  <2>5. QED
    BY <1>1, <2>1, <2>2, <2>3, <2>4 DEF IndInv
<1>4. CASE Persist
  <2>1. PICK s : s = [rows |-> rows, phase |-> phase]
    OBVIOUS
  <2>2. /\ file' = (IF rows = <<>> THEN None ELSE s)
        /\ UNCHANGED <<env, status, rows, phase, issue, changes, hydrated, sheet, attempts,
                       loops, loading, loads, outputs, faults>>
    BY <1>4, <2>1 DEF Persist, queue
  <2>3. s \in Snapshot /\ s.rows = rows
    BY <1>1, <2>1, SnapshotParts
  <2>4. TypeOK'
    BY <1>1, <2>2, <2>3, ScreenType DEF TypeOK
  <2>5. DiskHolds'
    BY <1>1, <2>2, <2>3 DEF DiskHolds
  <2>6. QED
    BY <1>1, <2>2, <2>4, <2>5 DEF IndInv
<1>5. CASE PersistFails
  <2>1. /\ file' = Torn
        /\ UNCHANGED <<env, status, rows, phase, issue, changes, hydrated, sheet, attempts,
                       loops, loading, loads, outputs>>
        /\ faults' \in 0..MaxFaults
    BY <1>5, LoopFacts DEF PersistFails, queue
  <2>2. TypeOK'
    BY <1>1, <2>1, ScreenType DEF TypeOK
  <2>3. DiskHolds'
    BY <1>1, <2>1 DEF DiskHolds
  <2>4. QED
    BY <1>1, <2>1, <2>2, <2>3 DEF IndInv
<1>6. QED
  BY <1>2, <1>3, <1>4, <1>5 DEF SnapshotFile

LEMMA IndCrash == ASSUME IndInv, Crash PROVE IndInv'
<1>1. /\ rows' = <<>> /\ phase' = "idle" /\ status' = None /\ issue' = FALSE
      /\ hydrated' = FALSE /\ loading' = NoLoads /\ loops' = [l \in Loops |-> None]
      /\ UNCHANGED <<env, changes, sheet, attempts, file, loads>>
      /\ faults' \in 0..MaxFaults
  BY LoopFacts DEF Crash, SetQueue
<1>2. /\ outputs \subseteq outputs' /\ \A o \in outputs' : OutputHolds(o, env)
  <2>1. CASE outputs' = outputs
    BY <2>1, LoopFacts
  <2>2. ASSUME NEW k \in Loops, Calling(k), GateAccepts(loops[k].call),
               Refusal(RequestOf(loops[k].call.draft), env, TRUE) = "none",
               outputs' = outputs \cup {Output(loops[k].call)}
        PROVE  /\ outputs \subseteq outputs' /\ \A o \in outputs' : OutputHolds(o, env)
    <3>1. /\ loops[k].call \in Call /\ OfOneLineage(loops[k].call) /\ ~Blocks(Status(env))
      BY <2>2, CallParts DEF Calling
    <3>2. OutputHolds(Output(loops[k].call), env)
      BY <2>2, <3>1, OutputMade
    <3>3. QED
      BY <2>2, <3>2, LoopFacts
  <2>3. QED
    BY <2>1, <2>2 DEF Crash
<1>3. loops' \in [Loops -> Submission \cup {None}] /\ \A l \in Loops : loops'[l] = None
  BY <1>1
<1>4. rows' \in Queue /\ phase' \in Phases /\ QueueHolds(rows', outputs')
  BY <1>1, EmptyQueue DEF Phases, QueueHolds
<1>5. TypeOK'
  BY <1>1, <1>3, <1>4, ScreenType DEF IndInv, TypeOK, NoLoads
<1>6. DiskHolds'
  BY <1>1, <1>2, MoreIsPrinted DEF IndInv, DiskHolds, LoadHolds, NoLoads
<1>7. QED
  BY <1>1, <1>2, <1>3, <1>4, <1>5, <1>6 DEF IndInv

LEMMA IndInit == Init => IndInv
<1>1. SUFFICES ASSUME Init PROVE IndInv
  OBVIOUS
<1>2. rows \in Queue /\ phase \in Phases /\ QueueHolds(rows, outputs)
  BY <1>1, EmptyQueue DEF Init, Phases, QueueHolds
<1>3. attempts \in [FirstAttempts -> Nat] /\ \A d \in FirstAttempts : attempts[d] = 0
  BY <1>1 DEF Init
<1>4. \A d \in FirstAttempts : 0 \in 0..MaxAttempts[d.sheet]
  BY DraftParts DEF FirstAttempts
<1>5. loops \in [Loops -> Submission \cup {None}] /\ \A l \in Loops : loops[l] = None
  BY <1>1 DEF Init
<1>6. /\ sheet \in DOMAIN Sheets /\ loads \in 0..MaxLoads /\ changes \in 0..MaxChanges
      /\ faults \in 0..MaxFaults
  BY <1>1, QueueAssumption DEF Init
<1>7. TypeOK
  BY <1>1, <1>2, <1>3, <1>4, <1>5, <1>6, ScreenType DEF Init, TypeOK, NoLoads
<1>8. DiskHolds
  BY <1>1 DEF Init, DiskHolds, LoadHolds, NoLoads
<1>9. QED
  BY <1>1, <1>2, <1>5, <1>7, <1>8 DEF Init, IndInv

LEMMA IndStep == ASSUME IndInv, [Next]_vars PROVE IndInv'
<1>1. CASE Operator
  BY <1>1, IndOperator
<1>2. CASE SnapshotFile
  BY <1>2, IndSnapshot
<1>3. CASE Crash
  BY <1>3, IndCrash
<1>4. ASSUME NEW l \in Loops, Submit(l) \/ Loop(l) PROVE IndInv'
  BY <1>4, IndSubmit, IndStart, IndDispatch, IndAnswer, IndFinish DEF Loop
<1>5. CASE UNCHANGED vars
  <2>1. UNCHANGED <<env, status, rows, phase, issue, changes, hydrated, sheet, attempts, loops,
                    file, loading, loads, outputs, faults>>
    BY <1>5 DEF vars, queue, disk
  <2>2. TypeOK'
    BY <2>1, ScreenType DEF IndInv, TypeOK
  <2>3. DiskHolds'
    BY <2>1 DEF IndInv, DiskHolds
  <2>4. QED
    BY <2>1, <2>2, <2>3 DEF IndInv
<1>6. QED
  BY <1>1, <1>2, <1>3, <1>4, <1>5 DEF Next

LEMMA Inductive == Spec => []IndInv
<1>1. IndInv /\ [Next]_vars => IndInv'
  BY IndStep
<1>2. QED
  BY <1>1, IndInit, PTL DEF Spec

-----------------------------------------------------------------------------
\* Of any sheets, environments, submissions and bounds, the queue, its
\* submissions and its snapshots are well formed, whoever changes them at once.
THEOREM TypeCorrect == Spec => []TypeOK
<1>1. IndInv => TypeOK
  BY DEF IndInv
<1>2. QED
  BY <1>1, Inductive, PTL

\* All that was ever printed for a row of a sheet is of one lineage, however
\* often it is retried, by whatever rows a snapshot brought back
\* (createRetriedDraft, submitQueuedRows, refreshDesktopBatchSnapshot): whoever
\* knows a later job of a row knows its first, which a refused or lost answer
\* leaves in the row.
THEOREM OneLineage == Spec => []OutputsShareLineage
<1>1. IndInv => OutputsShareLineage
  <2>1. SUFFICES ASSUME IndInv, NEW o \in outputs, NEW q \in outputs,
                        Root(o.draft) = Root(q.draft)
                 PROVE  o.lineage = q.lineage
    BY DEF OutputsShareLineage
  <2>2. OutputHolds(o, env) /\ OutputHolds(q, env)
    BY <2>1 DEF IndInv
  <2>3. o.draft.sheet = q.draft.sheet /\ o.draft.row = q.draft.row
    BY <2>1, <2>2, RootType DEF OutputHolds
  <2>4. ProofLineage(o.draft) = ProofLineage(q.draft)
    BY <2>3 DEF ProofLineage, RequestOf
  <2>5. QED
    BY <2>1, <2>2, <2>4 DEF OutputHolds
<1>2. QED
  BY <1>1, Inductive, PTL

\* A row that says it was submitted shows the job that was printed, on the
\* screen and in the snapshot, although an answer is written to whatever row
\* has its index by then (submitQueuedRows, refreshDesktopBatchSnapshot).
THEOREM ResultsAreTrue == Spec => []ResultsAreOfTheirDrafts
<1>1. IndInv => ResultsAreOfTheirDrafts
  <2>1. ASSUME NEW q, QueueHolds(q, outputs) PROVE ResultsHold(q)
    BY <2>1 DEF QueueHolds, ResultsHold, Printed
  <2>2. QED
    BY <2>1 DEF IndInv, DiskHolds, ResultsAreOfTheirDrafts
<1>2. QED
  BY <1>1, Inductive, PTL

\* Whatever the environment asks for and the host has, a proof is a PDF file
\* and a print goes to the printer of its profile
\* (resolve_print_adapter_for_request, build_artifact).
THEOREM OutputsFit == Spec => []OutputsFitTheirProfile
<1>1. IndInv => OutputsFitTheirProfile
  <2>1. SUFFICES ASSUME IndInv, NEW o \in outputs, NEW r, r = RequestOf(o.draft)
                 PROVE  /\ o.result.adapter =
                             IF r.mode = "proof" THEN "pdf" ELSE AdapterNamed(r.profile, env)
                        /\ o.result.adapter \in Adapters(env)
                        /\ o.result.media =
                             IF o.result.adapter = "pdf" THEN "application/pdf"
                             ELSE "image/svg+xml"
    BY DEF OutputsFitTheirProfile
  <2>2. OutputHolds(o, env)
    BY <2>1 DEF IndInv
  <2>3. r.mode \in {"proof", "print"} /\ r.profile # Absent
    BY <2>1, <2>2, DraftParts, DraftsAssumption DEF OutputHolds, RequestOf
  <2>4. r.mode # "proof" => PrintAdapter(r, env) \in Adapters(env)
    BY <2>1, <2>2 DEF OutputHolds, Refusal
  <2>5. Kind(r, env) = IF r.mode = "proof" THEN "pdf" ELSE AdapterNamed(r.profile, env)
    BY <2>3 DEF Kind, PrintAdapter
  <2>6. Kind(r, env) \in Adapters(env)
    BY <2>4 DEF Kind, Adapters
  <2>7. MediaType(r.mode, Kind(r, env)) =
          IF Kind(r, env) = "pdf" THEN "application/pdf" ELSE "image/svg+xml"
    BY <2>3, <2>6 DEF MediaType, Kind, Adapters
  <2>8. o.result.adapter = Kind(r, env) /\ o.result.media = MediaType(r.mode, Kind(r, env))
    BY <2>1, <2>2 DEF OutputHolds, Result
  <2>9. QED
    BY <2>5, <2>6, <2>7, <2>8
<1>2. QED
  BY <1>1, Inductive, PTL

\* Nothing is ever printed while the bridge falls back from what its
\* environment asks for: a submission is let in by a status that tells it
\* (PrintBridgeStatus::from_environment, isBridgeSubmitBlocked).
THEOREM FallbacksNeverPrint == Spec => []NothingFromFallbacks
<1>1. IndInv => NothingFromFallbacks
  <2>1. SUFFICES ASSUME IndInv, outputs # {}
                 PROVE  /\ env.adapter # NotSet =>
                             AdapterNamed(env.adapter, env) = Config(env).adapter
                        /\ \A d \in Directories :
                             env.dirs[d] # NotSet => env.dirs[d] \in env.existing
                        /\ Config(env).adapter = "windows-spooler" => env.printer # NotSet
    BY DEF NothingFromFallbacks
  <2>2. PICK o \in outputs : OutputHolds(o, env)
    BY <2>1 DEF IndInv
  <2>3. ~Blocks(Status(env))
    BY <2>2 DEF OutputHolds
  <2>4. ASSUME Config(env).adapter = "windows-spooler" PROVE env.printer # NotSet
    <3>1. ConfiguredAdapter(env) = "windows-spooler"
      BY <2>4 DEF Config
    <3>2. QED
      BY <2>3, <3>1, ErrorsBlock DEF PrinterWarnings
  <2>5. QED
    BY <2>3, <2>4, FallbacksAreAnnounced
<1>2. QED
  BY <1>1, Inductive, PTL
=============================================================================
