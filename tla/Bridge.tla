------------------------------- MODULE Bridge -------------------------------
(***************************************************************************)
(* The configuration of the print bridge (main.rs): where the desktop      *)
(* shell takes its printer and directories from, what it falls back to and *)
(* what it warns of.  The admin web blocks every submission while there is *)
(* a warning of severity "error".                                          *)
(* An environment is a record of the variables, NotSet when they are       *)
(* absent or blank, and of what the host has.  The adapter and the         *)
(* directories are trimmed wherever they are read, and the adapter is in   *)
(* lower case; the printer and zint are kept as they were written by the   *)
(* configuration, and trimmed by the status.                               *)
(***************************************************************************)
EXTENDS Naturals

CONSTANTS Trimmed,        \* a text without the spaces around it
          NotSet,         \* a variable that is absent or blank
          DefaultZint,    \* "zint", looked up in the PATH
          DefaultPrinter, \* "Default Printer"
          DefaultDirs     \* the directories under the temporary directory

Directories == {"print", "spool", "audit"}

SpoolerNames == {"spool", "spooler", "windows-spooler", "windows"}

\* What an adapter name stands for on this host.
AdapterNamed(name, env) ==
  IF name = "pdf" THEN "pdf"
  ELSE IF name \in SpoolerNames
       THEN IF env.windows THEN "windows-spooler" ELSE "unavailable"
  ELSE "unsupported"

Adapters(env) == {"pdf"} \cup IF env.windows THEN {"windows-spooler"} ELSE {}

\* resolve_print_adapter: anything else gives way to the PDF file.
ConfiguredAdapter(env) ==
  LET named == AdapterNamed(env.adapter, env)
  IN  IF env.adapter # NotSet /\ named \in Adapters(env) THEN named ELSE "pdf"

OrElse(value, default) == IF value = NotSet THEN default ELSE value

\* PrintBridgeConfig::load; printing without a proof stays disabled.  The
\* printer and zint keep the spaces around them.
Config(env) ==
  [adapter |-> ConfiguredAdapter(env),
   printer |-> OrElse(env.printer, DefaultPrinter),
   zint |-> OrElse(env.zint, DefaultZint),
   dirs |-> [d \in Directories |-> OrElse(env.dirs[d], DefaultDirs[d])],
   allowWithoutProof |-> FALSE]

-----------------------------------------------------------------------------
(* Warnings, as pairs of a severity and a code. *)

\* report_output_dir_warning, resolve_output_dir_with_warning
DirectoryWarnings(d, env) ==
  (IF env.dirs[d] = NotSet THEN {<<"info", "DIR_DEFAULTED">>} ELSE {})
    \cup (IF Config(env).dirs[d] \in env.existing THEN {}
          ELSE IF env.dirs[d] = NotSet THEN {<<"info", "DIR_WILL_BE_CREATED">>}
          ELSE {<<"error", "DIR_MISSING">>})

TrimmedOrElse(value, default) == IF value = NotSet THEN default ELSE Trimmed[value]

\* resolve_zint_binary_path_with_warning
StatusZint(env) == TrimmedOrElse(env.zint, DefaultZint)

\* resolve_windows_printer_name_with_warning
StatusPrinter(env) == TrimmedOrElse(env.printer, DefaultPrinter)

\* report_zint_warning: an absolute path that is not there; other names are
\* left to the PATH.
ZintWarnings(env) ==
  (IF env.zint = NotSet THEN {<<"info", "ZINT_DEFAULTED">>} ELSE {})
    \cup (IF StatusZint(env) \in env.absolute \ env.existing
          THEN {<<"error", "ZINT_MISSING">>} ELSE {})

\* Mutant: a spooler the host does not have goes without a warning.
UnsupportedWarnings(env) ==
  IF env.adapter = NotSet THEN {<<"info", "ADAPTER_DEFAULTED">>}
  ELSE IF AdapterNamed(env.adapter, env) = "unsupported"
       THEN {<<"error", "ADAPTER_UNSUPPORTED">>} ELSE {}

\* resolve_print_adapter_with_warning_for_host
AdapterWarnings(env) ==
  IF env.adapter = NotSet THEN {<<"info", "ADAPTER_DEFAULTED">>}
  ELSE CASE AdapterNamed(env.adapter, env) = "unavailable" ->
              {<<"error", "ADAPTER_UNAVAILABLE">>}
         [] AdapterNamed(env.adapter, env) = "unsupported" ->
              {<<"error", "ADAPTER_UNSUPPORTED">>}
         [] OTHER -> {}

\* The name of the printer only counts where the spooler is configured.
PrinterWarnings(env) ==
  IF ConfiguredAdapter(env) = "windows-spooler" /\ env.printer = NotSet
  THEN {<<"info", "PRINTER_DEFAULTED">>, <<"error", "PRINTER_DEFAULTED">>}
  ELSE {}

PolicyWarnings(env) ==
  IF env.allow \in {"1", "true", "yes", "on"}
  THEN {<<"warning", "ALLOW_WITHOUT_PROOF_IGNORED">>} ELSE {}

\* PrintBridgeStatus::from_environment
Status(env) ==
  [available |-> Adapters(env),
   adapter |-> ConfiguredAdapter(env),
   printer |-> StatusPrinter(env),
   zint |-> StatusZint(env),
   dirs |-> Config(env).dirs,
   allowWithoutProof |-> FALSE,
   warnings |-> (UNION {DirectoryWarnings(d, env) : d \in Directories})
                  \cup ZintWarnings(env) \cup AdapterWarnings(env)
                  \cup PrinterWarnings(env) \cup PolicyWarnings(env)]

\* isBridgeSubmitBlocked of the admin web
Blocks(status) == \E w \in status.warnings : w[1] = "error"
=============================================================================
