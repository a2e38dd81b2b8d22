------------------------------ MODULE PrintJob ------------------------------
(***************************************************************************)
(* What becomes of the data of one dispatch request: the checks and the    *)
(* normalisation the gate makes for itself (main.rs), those the print      *)
(* agent makes again, the barcode, the artifact and the printer adapter.   *)
(* A text is a value of which only its trimmed form is known; a field that *)
(* may be missing is Absent then.  The approval of a print is left to      *)
(* DispatchGate.                                                           *)
(***************************************************************************)
EXTENDS Jan, Bridge

CONSTANTS Text,       \* texts of the fields
          Empty,      \* the empty text
          Absent,     \* a field that is not there
          Invalid,    \* what a check refuses
          Joined,     \* the text "id@version"
          Separated   \* texts that hold a path separator

IsBlank(text) == Trimmed[text] = Empty

-----------------------------------------------------------------------------
(* The template version, from one field, from the other or from both. *)

\* LabelTemplateRef::to_template_version
RefVersion(ref) ==
  IF ref = Absent THEN Absent
  ELSE IF IsBlank(ref.id) \/ IsBlank(ref.version) THEN Invalid
  ELSE Joined[Trimmed[ref.id], Trimmed[ref.version]]

Agreed(version, named) ==
  IF version = Invalid \/ named = Invalid \/ (version = Absent /\ named = Absent)
  THEN Invalid
  ELSE IF version = Absent THEN named
  ELSE IF named = Absent \/ named = version THEN version
  ELSE Invalid

\* The agent refuses a blank version ...
AgentVersion(r) ==
  Agreed(IF r.version = Absent THEN Absent
         ELSE IF IsBlank(r.version) THEN Invalid ELSE Trimmed[r.version],
         RefVersion(r.template))

\* ... the bridge ignores it.
BridgeVersion(r) ==
  Agreed(IF r.version = Absent \/ IsBlank(r.version) THEN Absent ELSE Trimmed[r.version],
         RefVersion(r.template))

-----------------------------------------------------------------------------
(* What the gate compares with the approved proof. *)

Subject(r) ==
  IF IsBlank(r.sku) \/ IsBlank(r.brand) \/ ~Accepts(r.jan) \/ r.qty = 0 THEN Invalid
  ELSE [sku |-> Trimmed[r.sku], brand |-> Trimmed[r.brand],
        jan |-> Parse(r.jan).digits, qty |-> r.qty]

-----------------------------------------------------------------------------
(* What the agent renders. *)

RequiredFields == {"job", "sku", "brand", "user", "name", "at"}

AgentReads(r) ==
  /\ \A f \in RequiredFields : ~IsBlank(r[f])
  /\ AgentVersion(r) # Invalid
  /\ r.qty # 0
  /\ Accepts(r.jan)
  /\ Trimmed[r.job] \notin Separated

\* RenderLabelRequest
Rendered(r) ==
  [job |-> Trimmed[r.job], sku |-> Trimmed[r.sku], brand |-> Trimmed[r.brand],
   jan |-> Parse(r.jan).digits, qty |-> r.qty, version |-> AgentVersion(r)]

\* ZintCli::command_line, with EANX_CHK, which checks the check digit.
BarcodeData(r) == [symbology |-> "EANX_CHK", data |-> Parse(r.jan).digits]

-----------------------------------------------------------------------------
(* The printer. *)

\* Mutant: the printer profile is left out of account.
HostAdapter(r, env) == Config(env).adapter

\* resolve_print_adapter_for_request, of the host and not of the template
PrintAdapter(r, env) ==
  IF r.profile = Absent THEN Config(env).adapter ELSE AdapterNamed(r.profile, env)

\* A proof is a PDF file, whatever the printer profile says.
Kind(r, env) == IF r.mode = "proof" THEN "pdf" ELSE PrintAdapter(r, env)

\* build_artifact
MediaType(mode, kind) ==
  IF kind = "pdf" THEN "application/pdf"
  ELSE IF mode # "proof" /\ kind = "windows-spooler" THEN "image/svg+xml"
  ELSE Invalid

\* The file names are made of the job id and are never blank.
Adapter(r, env) ==
  [kind |-> Kind(r, env), output |-> r.job, printer |-> Config(env).printer]

\* PdfFileAdapter::submit, WindowsSpoolerAdapter::submit, up to the write
Takes(adapter, media) ==
  \/ adapter.kind = "pdf" /\ media = "application/pdf"
  \/ /\ adapter.kind = "windows-spooler" /\ media = "image/svg+xml"
     /\ ~IsBlank(adapter.printer)

\* The whole of PrintAgent::dispatch, of a request that was approved, as the
\* first thing that refuses it; only the last two come after the barcode was
\* drawn.  Whether zint, the template and the disk do their part is said by
\* `works'.
Refusal(r, env, works) ==
  LET media == MediaType(r.mode, Kind(r, env))
  IN  IF r.mode # "proof" /\ PrintAdapter(r, env) \notin Adapters(env) THEN "adapter"
      ELSE IF ~AgentReads(r) THEN "request"
      ELSE IF ~works THEN "environment"
      ELSE IF media = Invalid THEN "artifact"
      ELSE IF ~Takes(Adapter(r, env), media) THEN "submission"
      ELSE "none"

\* PrintDispatchResult
Result(r, env) ==
  [job |-> Trimmed[r.job], mode |-> r.mode, version |-> AgentVersion(r),
   media |-> MediaType(r.mode, Kind(r, env)), adapter |-> Kind(r, env)]
=============================================================================
