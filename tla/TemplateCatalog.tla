-------------------------- MODULE TemplateCatalog --------------------------
(***************************************************************************)
(* The template catalog: templates packaged with the program, overlaid by  *)
(* the files and the manifest of the overlay directory.  A save writes the *)
(* template and then rewrites the manifest (save_template_to_local_catalog *)
(* in main.rs), each in place and without a lock, so that a file that is   *)
(* being written is broken for whoever reads it, and stays broken when the *)
(* writer dies.  Lookups are those of the renderer (crates/render).        *)
(***************************************************************************)
EXTENDS Integers

CONSTANTS Shells,          \* processes that save templates
          Versions,        \* template versions
          Files,           \* file names in the overlay directory
          Bodies,          \* what templates of one version differ in
          ManifestFile,    \* template-manifest.json
          FileOf,          \* the file name a version is sanitised to
          Packaged,        \* the packaged manifest
          PackagedFiles,   \* the packaged template files
          Requests,        \* the saves that are asked for
          None,            \* no file, no entry, nothing settled
          Broken,          \* a file that does not parse
          Unknown,         \* "unknown template_version"
          MaxFaults        \* bound: failures and edits by hand

Template == [version : Versions, body : Bodies]
Entry    == [path : Files \cup {ManifestFile}, enabled : BOOLEAN]
Manifest == [default : Versions, entries : [Versions -> Entry \cup {None}]]
Request  == [template : Template, enabled : BOOLEAN, asDefault : BOOLEAN]

ASSUME FilesAssumption ==
  ManifestFile \notin Files /\ FileOf \in [Versions -> Files \cup {ManifestFile}]
\* What is packaged is complete: its default is enabled, and what is enabled has
\* a file.
ASSUME PackagedAssumption ==
  /\ Packaged \in Manifest /\ PackagedFiles \in [Files -> Template \cup {None}]
  /\ Packaged.entries[Packaged.default] # None
  /\ Packaged.entries[Packaged.default].enabled
  /\ \A v \in Versions : Packaged.entries[v] # None /\ Packaged.entries[v].enabled =>
       Packaged.entries[v].path \in Files /\ PackagedFiles[Packaged.entries[v].path] # None
ASSUME RequestsAssumption == Requests \subseteq Request
ASSUME MarksAssumption ==
  /\ None \notin Template \cup Entry \cup Manifest \cup Requests
  /\ Broken \notin Template \cup Manifest \cup {None}
  /\ Unknown \notin Template \cup {None, Broken}
ASSUME FaultsAssumption == MaxFaults \in Nat

\* No version is saved to the file of another one: sanitize_template_filename
\* does not see to it.
DistinctFiles ==
  \A v, w \in Versions : v # w /\ FileOf[v] \in Files =>
    /\ FileOf[w] # FileOf[v]
    /\ Packaged.entries[w] # None => Packaged.entries[w].path # FileOf[v]

VARIABLES overlay,   \* the template files of the overlay directory
          manifest,  \* its manifest, None or Broken
          pc,        \* where each shell is in a save
          req,       \* the save, or None
          draft,     \* the manifest it is going to write, or None
          alone,     \* no other save was under way since it began
          settled,   \* history: what each version stands for since its last
                     \* save was acknowledged, None if that is open
          faults     \* failures and edits by hand so far

vars == <<overlay, manifest, pc, req, draft, alone, settled, faults>>

-----------------------------------------------------------------------------
(* Lookups: merge_template_manifests and resolve_template_from_manifest.     *)

\* Mutant: packaged entries win over local ones.
PackagedWins(local) ==
  [v \in Versions |-> IF Packaged.entries[v] = None THEN local.entries[v]
                      ELSE Packaged.entries[v]]

Merged(local) ==
  [v \in Versions |-> IF local.entries[v] = None THEN Packaged.entries[v]
                      ELSE local.entries[v]]

\* template_catalog_with_overlay, for a manifest that is missing or parses.
Catalog ==
  IF manifest = None THEN Packaged
  ELSE [default |-> manifest.default, entries |-> Merged(manifest)]

Enabled(catalog, v) == catalog.entries[v] # None /\ catalog.entries[v].enabled

\* The overlay directory is looked at only if there is a manifest; a file of
\* that name there is taken, whichever entry leads to it.
FromOverlay(path) ==
  manifest # None /\ path \in Files /\ overlay[path] # None

\* An entry of the manifest's own name leads to the manifest, no template.
PackagedContents(path) ==
  IF path \in Files /\ PackagedFiles[path] # None THEN PackagedFiles[path] ELSE Broken

Contents(path) ==
  IF FromOverlay(path) THEN overlay[path] ELSE PackagedContents(path)

Resolve(v) ==
  IF manifest = Broken THEN Broken
  ELSE IF Enabled(Catalog, v) THEN Contents(Catalog.entries[v].path)
  ELSE Unknown

-----------------------------------------------------------------------------
(* inspect_template_catalog_governance: the codes of the issues it reports.  *)

LocalEntries ==
  IF manifest \in {None, Broken} THEN {}
  ELSE {manifest.entries[v] : v \in {x \in Versions : manifest.entries[x] # None}}

Referenced == {e.path : e \in LocalEntries}

\* Mutant: looks for the files of disabled entries only.
DisabledFileMissing ==
  \E e \in LocalEntries : ~e.enabled /\ e.path \in Files /\ overlay[e.path] = None

FileMissing == \E e \in LocalEntries : e.path \in Files /\ overlay[e.path] = None

\* overlay_json_files
OverlayFiles == {f \in Files : overlay[f] # None}

\* Mutant: the files the manifest does not list go unnoticed.
IssuesOfEntries ==
  {c \in {"manifest_missing", "manifest_parse_failed", "missing_template_file",
          "default_template_missing"} :
     \/ c = "manifest_missing" /\ manifest = None
     \/ c = "manifest_parse_failed" /\ manifest = Broken
     \/ c = "missing_template_file" /\ FileMissing
     \/ /\ c = "default_template_missing"
        /\ manifest \notin {None, Broken}
        /\ ~Enabled(Catalog, Catalog.default)}

Issues ==
  {c \in {"manifest_missing", "manifest_parse_failed", "missing_template_file",
          "default_template_missing", "unreferenced_local_file"} :
     \/ c = "manifest_missing" /\ manifest = None
     \/ c = "manifest_parse_failed" /\ manifest = Broken
     \/ c = "missing_template_file" /\ FileMissing
     \/ /\ c = "default_template_missing"
        /\ manifest \notin {None, Broken}
        /\ ~Enabled(Catalog, Catalog.default)
     \/ c = "unreferenced_local_file" /\ OverlayFiles \ Referenced # {}}

Errors == {"manifest_parse_failed", "missing_template_file", "default_template_missing"}

\* local_template_versions
LocalVersions ==
  IF manifest = None THEN {} ELSE {v \in Versions : Enabled(manifest, v)}

\* template_catalog_command, for a manifest that is missing or parses: the
\* versions an operator may choose, and where they are said to come from.
Listing ==
  [default |-> Catalog.default,
   source |-> [v \in {x \in Versions : Enabled(Catalog, x)} |->
                 IF v \in LocalVersions THEN "local" ELSE "packaged"]]

-----------------------------------------------------------------------------
(* save_template_to_local_catalog.                                          *)

Init ==
  /\ overlay = [f \in Files |-> None]
  /\ manifest = None
  /\ pc = [s \in Shells |-> "idle"]
  /\ req = [s \in Shells |-> None]
  /\ draft = [s \in Shells |-> None]
  /\ alone = [s \in Shells |-> FALSE]
  /\ settled = [v \in Versions |-> Resolve(v)]
  /\ faults = 0

Saving(s) == pc[s] # "idle"

Path(s) == FileOf[req[s].template.version]

\* Mutant: a new manifest has no default.
LoadedWithoutDefault ==
  IF manifest = None THEN [default |-> None, entries |-> [v \in Versions |-> None]]
  ELSE manifest

\* load_or_initialize_template_manifest
Loaded ==
  IF manifest = None THEN [default |-> Packaged.default,
                           entries |-> [v \in Versions |-> None]]
  ELSE manifest

\* The entry of the version is replaced or added.
WithEntry(m, r) ==
  [default |-> IF r.asDefault THEN r.template.version ELSE m.default,
   entries |-> [m.entries EXCEPT ![r.template.version] =
     [path |-> FileOf[r.template.version], enabled |-> r.enabled]]]

\* A template written over the manifest does not parse as a manifest.
PutTemplate(path, contents) ==
  IF path = ManifestFile
  THEN manifest' = Broken /\ UNCHANGED overlay
  ELSE overlay' = [overlay EXCEPT ![path] = contents] /\ UNCHANGED manifest

Goto(s, label) == pc' = [pc EXCEPT ![s] = label]

Return(s) ==
  /\ Goto(s, "idle")
  /\ req' = [req EXCEPT ![s] = None]
  /\ draft' = [draft EXCEPT ![s] = None]
  /\ alone' = [alone EXCEPT ![s] = FALSE]

\* Two writers of one file at a time may leave a mixture of both, and either of
\* them may be the last to close it.  Which of their writes met is left open.
Mixed(s, contents) == IF alone[s] THEN {contents} ELSE {contents, Broken}

\* The template file is opened, which empties it.
OpenTemplate(s, r) ==
  /\ ~Saving(s)
  /\ req' = [req EXCEPT ![s] = r]
  /\ PutTemplate(FileOf[r.template.version], Broken)
  /\ alone' = [t \in Shells |-> t = s /\ \A u \in Shells \ {s} : ~Saving(u)]
  /\ settled' = [settled EXCEPT ![r.template.version] = None]
  /\ Goto(s, "template")
  /\ UNCHANGED <<draft, faults>>

CloseTemplate(s) ==
  /\ pc[s] = "template"
  /\ \E contents \in Mixed(s, req[s].template) :
       PutTemplate(Path(s), contents)
  /\ Goto(s, "load")
  /\ UNCHANGED <<req, draft, alone, settled, faults>>

\* A manifest that does not parse ends the save.
LoadManifest(s) ==
  /\ pc[s] = "load"
  /\ \/ /\ manifest # Broken
        /\ draft' = [draft EXCEPT ![s] = WithEntry(Loaded, req[s])]
        /\ Goto(s, "rewrite")
        /\ UNCHANGED <<req, alone>>
     \/ manifest = Broken /\ Return(s)
  /\ UNCHANGED <<overlay, manifest, settled, faults>>

OpenManifest(s) ==
  /\ pc[s] = "rewrite"
  /\ manifest' = Broken
  /\ Goto(s, "manifest")
  /\ UNCHANGED <<overlay, req, draft, alone, settled, faults>>

CloseManifest(s) ==
  /\ pc[s] = "manifest"
  /\ manifest' \in Mixed(s, draft[s])
  /\ Goto(s, "reload")
  /\ UNCHANGED <<overlay, req, draft, alone, settled, faults>>

\* The catalog is read again and the save acknowledged, or refused if it does
\* not parse.
Acknowledge(s) ==
  LET v == req[s].template.version IN
  /\ pc[s] = "reload"
  /\ settled' = IF manifest \notin {None, Broken} /\ alone[s]
                THEN [settled EXCEPT ![v] = IF req[s].enabled THEN req[s].template
                                            ELSE Unknown]
                ELSE settled
  /\ Return(s)
  /\ UNCHANGED <<overlay, manifest, faults>>

-----------------------------------------------------------------------------
(* Failures, and edits by hand while nobody saves.                           *)

Fault == faults < MaxFaults /\ faults' = faults + 1

\* A read or a write fails, or the process dies: what is written stays.
Fail(s) ==
  /\ Saving(s)
  /\ Fault
  /\ Return(s)
  /\ UNCHANGED <<overlay, manifest, settled>>

\* A template file is removed from the overlay directory.
LoseFile(f) ==
  /\ \A s \in Shells : ~Saving(s)
  /\ overlay[f] # None
  /\ Fault
  /\ overlay' = [overlay EXCEPT ![f] = None]
  /\ settled' = [v \in Versions |-> IF FileOf[v] = f THEN None ELSE settled[v]]
  /\ UNCHANGED <<manifest, pc, req, draft, alone>>

\* "If the manifest is broken, rename it out of the overlay directory": what
\* was saved is gone, and the files that are left settle nothing.
SetManifestAside ==
  /\ \A s \in Shells : ~Saving(s)
  /\ manifest = Broken
  /\ Fault
  /\ manifest' = None
  /\ settled' = [v \in Versions |->
       IF ~Enabled(Packaged, v) THEN Unknown
       ELSE IF overlay[Packaged.entries[v].path] # None THEN None
       ELSE PackagedContents(Packaged.entries[v].path)]
  /\ UNCHANGED <<overlay, pc, req, draft, alone>>

Next ==
  \/ \E s \in Shells :
       \/ \E r \in Requests : OpenTemplate(s, r)
       \/ CloseTemplate(s) \/ LoadManifest(s) \/ OpenManifest(s)
       \/ CloseManifest(s) \/ Acknowledge(s) \/ Fail(s)
  \/ \E f \in Files : LoseFile(f)
  \/ SetManifestAside

Spec == Init /\ [][Next]_vars

-----------------------------------------------------------------------------
(* Properties.                                                              *)

\* The variables hold what their comments say.
TypeOK ==
  /\ overlay \in [Files -> Template \cup {None, Broken}]
  /\ manifest \in Manifest \cup {None, Broken}
  /\ pc \in [Shells -> {"idle", "template", "load", "rewrite", "manifest", "reload"}]
  /\ req \in [Shells -> Requests \cup {None}]
  /\ draft \in [Shells -> Manifest \cup {None}]
  /\ alone \in [Shells -> BOOLEAN]
  /\ settled \in [Versions -> Template \cup {None, Broken, Unknown}]
  /\ faults \in 0..MaxFaults

\* A version stands for what its last save made of it, if that was acknowledged
\* and no other overlapped it, and a packaged version that was never saved for
\* its packaged template, whatever saves of other versions follow, race, fail
\* or crash, unless the manifest is broken (save_template_to_local_catalog,
\* resolve_template_from_manifest).
CatalogKeepsTemplates ==
  manifest # Broken =>
    \A v \in Versions : settled[v] # None => Resolve(v) = settled[v]

\* When nobody saves and governance reports no error, the catalog's default is
\* among the versions it offers and each of them can be dispatched, apart from
\* broken files and from a version named like the manifest
\* (inspect_template_catalog_governance).
HealthyMeansResolvable ==
  /\ \A s \in Shells : ~Saving(s)
  /\ \A f \in Files : overlay[f] # Broken
  /\ Issues \cap Errors = {}
  => /\ Enabled(Catalog, Catalog.default)
     /\ \A v \in Versions :
          Enabled(Catalog, v) /\ FileOf[v] # ManifestFile => Resolve(v) \in Template

\* The list the operator chooses from tells where a template comes from: when
\* nobody saves and governance finds nothing to report, what is listed as local
\* is dispatched from the overlay and what is listed as packaged is not, though
\* the list goes by the entries and the dispatch by the files
\* (template_catalog_command, template_file_contents_with_overlay).
SourcesAreAsListed ==
  /\ \A s \in Shells : ~Saving(s)
  /\ Issues \subseteq {"manifest_missing"}
  => \A v \in DOMAIN Listing.source : FileOf[v] # ManifestFile =>
       (Listing.source[v] = "local" <=> FromOverlay(Catalog.entries[v].path))

\* inspect_template_catalog_governance tells the operator that "JSON files that
\* are not referenced by template-manifest.json do not dispatch": when nobody
\* saves, a template found in the overlay is one the manifest lists.
UnreferencedDoNotDispatch ==
  (manifest # Broken /\ \A s \in Shells : ~Saving(s)) =>
    \A v \in Versions :
      Resolve(v) \in Template /\ FromOverlay(Catalog.entries[v].path)
        => Catalog.entries[v].path \in Referenced
=============================================================================
