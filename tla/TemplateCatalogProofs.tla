----------------------- MODULE TemplateCatalogProofs -----------------------
(***************************************************************************)
(* Proofs about TemplateCatalog for any shells, templates, saves and       *)
(* bounds: what a version stands for, whatever saves of other versions do, *)
(* and what the governance report and the list of templates promise.       *)
(***************************************************************************)
EXTENDS TemplateCatalog, TLAPS

-----------------------------------------------------------------------------
(* What a manifest makes of a version.  A draft is a manifest too: what is   *)
(* said of the manifest has to hold of the drafts that may replace it.       *)

EntryIn(m, v) ==
  IF m = None THEN Packaged.entries[v]
  ELSE IF m.entries[v] = None THEN Packaged.entries[v] ELSE m.entries[v]

\* What a version stands for, with the files `o' and the manifest `m'.
Means(o, m, v) ==
  IF EntryIn(m, v) # None /\ EntryIn(m, v).enabled
  THEN IF m # None /\ EntryIn(m, v).path \in Files /\ o[EntryIn(m, v).path] # None
       THEN o[EntryIn(m, v).path]
       ELSE PackagedContents(EntryIn(m, v).path)
  ELSE Unknown

\* The manifest leaves what is settled as it is.
Keeps(o, m, st) == \A v \in Versions : st[v] # None => Means(o, m, v) = st[v]

\* Its entries lead to the files their versions are saved to.
OwnPaths(m) == \A v \in Versions : m.entries[v] # None => m.entries[v].path = FileOf[v]

\* No file hides the packaged template of a version that is settled: the first
\* manifest would bring it out.
NothingHidden(o, st) ==
  \A v \in Versions : st[v] # None /\ Enabled(Packaged, v) =>
    o[Packaged.entries[v].path] = None

\* Every file of the overlay directory was written by a save.
FilesOfSaves(o) == \A f \in Files : o[f] # None => \E v \in Versions : FileOf[v] = f

-----------------------------------------------------------------------------
(* The inductive invariants.  The first is of the manifests alone.          *)

Formed(s) ==
  pc[s] # "idle" =>
    /\ req[s] \in Requests
    /\ pc[s] \in {"rewrite", "manifest"} => draft[s] \in Manifest /\ OwnPaths(draft[s])

FormInv ==
  /\ TypeOK
  /\ manifest \in Manifest => OwnPaths(manifest)
  /\ \A s \in Shells : Formed(s)

\* A save that no other one overlaps is as far as it says.
AloneHolds(s) ==
  LET r == req[s]
      v == req[s].template.version IN
  /\ \A t \in Shells \ {s} : pc[t] = "idle"
  /\ FileOf[v] = ManifestFile => manifest = Broken /\ pc[s] \in {"template", "load"}
  /\ FileOf[v] # ManifestFile /\ pc[s] # "template" => overlay[FileOf[v]] = r.template
  /\ pc[s] \in {"rewrite", "manifest"} =>
       draft[s].entries[v] = [path |-> FileOf[v], enabled |-> r.enabled]
  /\ pc[s] = "reload" =>
       /\ manifest \in Manifest
       /\ manifest.entries[v] = [path |-> FileOf[v], enabled |-> r.enabled]

\* What is being saved is open, and the draft leaves the rest as it is.
SaveHolds(s) ==
  pc[s] # "idle" =>
    /\ settled[req[s].template.version] = None
    /\ pc[s] \in {"rewrite", "manifest"} => Keeps(overlay, draft[s], settled)
    /\ alone[s] => AloneHolds(s)

CatalogHolds ==
  /\ FilesOfSaves(overlay)
  /\ manifest # Broken => Keeps(overlay, manifest, settled)
  /\ manifest = None => NothingHidden(overlay, settled)

IndInv == FormInv /\ CatalogHolds /\ \A s \in Shells : SaveHolds(s)

-----------------------------------------------------------------------------
(* Types, and the manifests.                                                *)

\* A save that is asked for is one.
LEMMA RequestType ==
  ASSUME NEW r \in Requests
  PROVE  /\ r \in Request /\ r.template \in Template /\ r.template.version \in Versions
         /\ r.enabled \in BOOLEAN /\ r.asDefault \in BOOLEAN
         /\ FileOf[r.template.version] \in Files \cup {ManifestFile}
<1>1. r \in Request
  BY RequestsAssumption
<1>2. r.template \in Template /\ r.template.version \in Versions
  BY <1>1 DEF Request, Template
<1>3. QED
  BY <1>1, <1>2, FilesAssumption DEF Request

\* A template that is written leaves the manifest alone, or breaks it.
LEMMA PutType ==
  ASSUME TypeOK, NEW path \in Files \cup {ManifestFile},
         NEW contents \in Template \cup {None, Broken}, PutTemplate(path, contents)
  PROVE  /\ overlay' \in [Files -> Template \cup {None, Broken}]
         /\ manifest' \in Manifest \cup {None, Broken}
         /\ manifest' = manifest \/ manifest' = Broken
  BY DEF TypeOK, PutTemplate

LEMMA WithEntryType ==
  ASSUME NEW m \in Manifest, OwnPaths(m), NEW r \in Requests
  PROVE  /\ WithEntry(m, r) \in Manifest
         /\ OwnPaths(WithEntry(m, r))
         /\ WithEntry(m, r).entries[r.template.version]
              = [path |-> FileOf[r.template.version], enabled |-> r.enabled]
         /\ \A v \in Versions \ {r.template.version} :
              WithEntry(m, r).entries[v] = m.entries[v]
<1> DEFINE e == [path |-> FileOf[r.template.version], enabled |-> r.enabled]
           d == IF r.asDefault THEN r.template.version ELSE m.default
           es == [m.entries EXCEPT ![r.template.version] = e]
<1>1. e \in Entry /\ e.path = FileOf[r.template.version]
  BY RequestType DEF Entry
<1>2. m.entries \in [Versions -> Entry \cup {None}] /\ m.default \in Versions
  BY DEF Manifest
<1>3. d \in Versions
  BY <1>2, RequestType
<1> HIDE DEF e
<1>4. /\ es \in [Versions -> Entry \cup {None}]
      /\ es[r.template.version] = e
      /\ \A v \in Versions \ {r.template.version} : es[v] = m.entries[v]
  BY <1>1, <1>2, RequestType
<1>5. WithEntry(m, r) = [default |-> d, entries |-> es]
  BY DEF WithEntry, e
<1> HIDE DEF d, es
<1>6. WithEntry(m, r) \in Manifest /\ WithEntry(m, r).entries = es
  BY <1>3, <1>4, <1>5 DEF Manifest
<1>7. OwnPaths(WithEntry(m, r))
  BY <1>1, <1>4, <1>6 DEF OwnPaths
<1>8. QED
  BY <1>4, <1>6, <1>7 DEF e

\* A manifest that is loaded, or made of nothing.
LEMMA LoadedType ==
  ASSUME TypeOK, manifest # Broken, manifest \in Manifest => OwnPaths(manifest)
  PROVE  /\ Loaded \in Manifest /\ OwnPaths(Loaded)
         /\ manifest # None => Loaded = manifest
         /\ manifest = None => \A v \in Versions : Loaded.entries[v] = None
<1>1. CASE manifest = None
  <2>1. Loaded = [default |-> Packaged.default, entries |-> [v \in Versions |-> None]]
    BY <1>1 DEF Loaded
  <2>2. Packaged.default \in Versions
    BY PackagedAssumption DEF Manifest
  <2>3. QED
    BY <1>1, <2>1, <2>2 DEF Manifest, OwnPaths
<1>2. CASE manifest # None
  BY <1>2 DEF Loaded, TypeOK
<1>3. QED
  BY <1>1, <1>2

\* Where a save stops nothing is asked for.
LEMMA ReturnType ==
  ASSUME TypeOK, NEW s \in Shells, Return(s)
  PROVE  /\ pc' \in [Shells -> {"idle", "template", "load", "rewrite", "manifest", "reload"}]
         /\ req' \in [Shells -> Requests \cup {None}]
         /\ draft' \in [Shells -> Manifest \cup {None}]
         /\ alone' \in [Shells -> BOOLEAN]
         /\ pc'[s] = "idle"
         /\ \A t \in Shells \ {s} :
              pc'[t] = pc[t] /\ req'[t] = req[t] /\ draft'[t] = draft[t] /\ alone'[t] = alone[t]
  BY DEF TypeOK, Return, Goto

\* Where the others are does not change.
LEMMA GotoType ==
  ASSUME TypeOK, NEW s \in Shells,
         NEW label \in {"template", "load", "rewrite", "manifest", "reload"}, Goto(s, label)
  PROVE  /\ pc' \in [Shells -> {"idle", "template", "load", "rewrite", "manifest", "reload"}]
         /\ pc'[s] = label
         /\ \A t \in Shells \ {s} : pc'[t] = pc[t]
  BY DEF TypeOK, Goto

LEMMA FormOpenTemplate ==
  ASSUME FormInv, NEW s \in Shells, NEW r \in Requests, OpenTemplate(s, r)
  PROVE  FormInv'
<1>1. TypeOK
  BY DEF FormInv
<1>2. /\ overlay' \in [Files -> Template \cup {None, Broken}]
      /\ manifest' \in Manifest \cup {None, Broken}
      /\ manifest' = manifest \/ manifest' = Broken
  BY <1>1, RequestType, PutType DEF OpenTemplate
<1>3. /\ pc' \in [Shells -> {"idle", "template", "load", "rewrite", "manifest", "reload"}]
      /\ pc'[s] = "template"
      /\ \A t \in Shells \ {s} : pc'[t] = pc[t]
  BY <1>1, GotoType DEF OpenTemplate
<1>4. /\ req' \in [Shells -> Requests \cup {None}]
      /\ req'[s] = r /\ \A t \in Shells \ {s} : req'[t] = req[t]
  BY <1>1 DEF OpenTemplate, TypeOK
<1>5. alone' \in [Shells -> BOOLEAN]
  BY DEF OpenTemplate
<1>6. settled' \in [Versions -> Template \cup {None, Broken, Unknown}]
  BY <1>1 DEF OpenTemplate, TypeOK
<1>7. TypeOK'
  BY <1>1, <1>2, <1>3, <1>4, <1>5, <1>6 DEF OpenTemplate, TypeOK
<1>8. manifest' \in Manifest => OwnPaths(manifest')
  BY <1>2, MarksAssumption DEF FormInv
<1>9. ASSUME NEW t \in Shells PROVE Formed(t)'
  BY <1>3, <1>4 DEF FormInv, Formed, OpenTemplate
<1>10. QED
  BY <1>7, <1>8, <1>9 DEF FormInv

LEMMA FormCloseTemplate ==
  ASSUME FormInv, NEW s \in Shells, CloseTemplate(s)
  PROVE  FormInv'
<1>1. TypeOK
  BY DEF FormInv
<1>2. pc[s] = "template" /\ req[s] \in Requests
  BY DEF CloseTemplate, FormInv, Formed
<1>3. PICK contents \in Mixed(s, req[s].template) : PutTemplate(Path(s), contents)
  BY DEF CloseTemplate
<1>4. contents \in Template \cup {None, Broken}
  BY <1>2, RequestType DEF Mixed
<1>5. Path(s) \in Files \cup {ManifestFile}
  BY <1>2, RequestType DEF Path
<1>6. /\ overlay' \in [Files -> Template \cup {None, Broken}]
      /\ manifest' \in Manifest \cup {None, Broken}
      /\ manifest' = manifest \/ manifest' = Broken
  BY <1>1, <1>3, <1>4, <1>5, PutType
<1>7. /\ pc' \in [Shells -> {"idle", "template", "load", "rewrite", "manifest", "reload"}]
      /\ pc'[s] = "load"
      /\ \A t \in Shells \ {s} : pc'[t] = pc[t]
  BY <1>1, GotoType DEF CloseTemplate
<1>8. TypeOK'
  BY <1>1, <1>6, <1>7 DEF CloseTemplate, TypeOK
<1>9. manifest' \in Manifest => OwnPaths(manifest')
  BY <1>6, MarksAssumption DEF FormInv
<1>10. ASSUME NEW t \in Shells PROVE Formed(t)'
  BY <1>2, <1>7 DEF FormInv, Formed, CloseTemplate
<1>11. QED
  BY <1>8, <1>9, <1>10 DEF FormInv

LEMMA FormLoadManifest ==
  ASSUME FormInv, NEW s \in Shells, LoadManifest(s)
  PROVE  FormInv'
<1>1. TypeOK /\ pc[s] = "load" /\ req[s] \in Requests
  BY DEF FormInv, LoadManifest, Formed
<1>2. UNCHANGED <<overlay, manifest, settled, faults>>
  BY DEF LoadManifest
<1>3. CASE manifest = Broken /\ Return(s)
  <2>1. TypeOK'
    BY <1>1, <1>2, <1>3, ReturnType DEF TypeOK
  <2>2. ASSUME NEW t \in Shells PROVE Formed(t)'
    BY <1>1, <1>3, ReturnType DEF FormInv, Formed
  <2>3. QED
    BY <1>2, <2>1, <2>2 DEF FormInv
<1>4. CASE /\ manifest # Broken
           /\ draft' = [draft EXCEPT ![s] = WithEntry(Loaded, req[s])]
           /\ Goto(s, "rewrite")
           /\ UNCHANGED <<req, alone>>
  <2>1. Loaded \in Manifest /\ OwnPaths(Loaded)
    BY <1>1, <1>4, LoadedType DEF FormInv
  <2>2. PICK m \in Manifest : m = WithEntry(Loaded, req[s]) /\ OwnPaths(m)
    BY <1>1, <2>1, WithEntryType
  <2>3. /\ draft' \in [Shells -> Manifest \cup {None}]
        /\ draft'[s] = m /\ \A t \in Shells \ {s} : draft'[t] = draft[t]
    BY <1>1, <1>4, <2>2 DEF TypeOK
  <2>4. /\ pc' \in [Shells -> {"idle", "template", "load", "rewrite", "manifest", "reload"}]
        /\ pc'[s] = "rewrite"
        /\ \A t \in Shells \ {s} : pc'[t] = pc[t]
    BY <1>1, <1>4, GotoType
  <2>5. TypeOK'
    BY <1>1, <1>2, <1>4, <2>3, <2>4 DEF TypeOK
  <2>6. ASSUME NEW t \in Shells PROVE Formed(t)'
    BY <1>1, <1>4, <2>2, <2>3, <2>4 DEF FormInv, Formed
  <2>7. QED
    BY <1>2, <2>5, <2>6 DEF FormInv
<1>5. QED
  BY <1>3, <1>4 DEF LoadManifest

LEMMA FormManifest ==
  ASSUME FormInv, NEW s \in Shells, OpenManifest(s) \/ CloseManifest(s)
  PROVE  FormInv'
<1>1. TypeOK
  BY DEF FormInv
<1>2. UNCHANGED <<overlay, req, draft, alone, settled, faults>>
  BY DEF OpenManifest, CloseManifest
<1>3. /\ pc' \in [Shells -> {"idle", "template", "load", "rewrite", "manifest", "reload"}]
      /\ pc'[s] \in {"manifest", "reload"}
      /\ pc'[s] = "manifest" => pc[s] = "rewrite"
      /\ pc[s] # "idle"
      /\ \A t \in Shells \ {s} : pc'[t] = pc[t]
  BY <1>1, GotoType DEF OpenManifest, CloseManifest
<1>4. manifest' = Broken \/ (manifest' \in Manifest /\ OwnPaths(manifest'))
  BY DEF OpenManifest, CloseManifest, Mixed, FormInv, Formed
<1>5. TypeOK'
  BY <1>1, <1>2, <1>3, <1>4 DEF TypeOK
<1>6. ASSUME NEW t \in Shells PROVE Formed(t)'
  BY <1>2, <1>3 DEF FormInv, Formed
<1>7. QED
  BY <1>4, <1>5, <1>6, MarksAssumption DEF FormInv

LEMMA FormReturn ==
  ASSUME FormInv, NEW s \in Shells, Return(s), UNCHANGED <<overlay, manifest>>,
         settled' \in [Versions -> Template \cup {None, Broken, Unknown}],
         faults' \in 0..MaxFaults
  PROVE  FormInv'
<1>1. TypeOK
  BY DEF FormInv
<1>2. TypeOK'
  BY <1>1, ReturnType DEF TypeOK
<1>3. ASSUME NEW t \in Shells PROVE Formed(t)'
  BY <1>1, ReturnType DEF FormInv, Formed
<1>4. QED
  BY <1>2, <1>3 DEF FormInv

LEMMA PackagedContentsType == \A path : PackagedContents(path) \in Template \cup {Broken}
  BY PackagedAssumption DEF PackagedContents

LEMMA FormByHand ==
  ASSUME FormInv, (\E f \in Files : LoseFile(f)) \/ SetManifestAside
  PROVE  FormInv'
<1>1. TypeOK /\ UNCHANGED <<pc, req, draft, alone>>
  BY DEF FormInv, LoseFile, SetManifestAside
<1>2. faults' \in 0..MaxFaults
  BY <1>1, FaultsAssumption DEF TypeOK, LoseFile, SetManifestAside, Fault
<1>3. ASSUME NEW t \in Shells PROVE Formed(t)'
  BY <1>1 DEF FormInv, Formed
<1>4. CASE \E f \in Files : LoseFile(f)
  <2>1. overlay' \in [Files -> Template \cup {None, Broken}] /\ manifest' = manifest
    BY <1>1, <1>4 DEF LoseFile, TypeOK
  <2>2. settled' \in [Versions -> Template \cup {None, Broken, Unknown}]
    BY <1>1, <1>4 DEF LoseFile, TypeOK
  <2>3. QED
    BY <1>1, <1>2, <1>3, <2>1, <2>2 DEF FormInv, TypeOK
<1>5. CASE SetManifestAside
  <2>1. manifest' = None /\ overlay' = overlay
    BY <1>5 DEF SetManifestAside
  <2>2. settled' \in [Versions -> Template \cup {None, Broken, Unknown}]
    BY <1>5, PackagedContentsType DEF SetManifestAside
  <2>3. QED
    BY <1>1, <1>2, <1>3, <2>1, <2>2, MarksAssumption DEF FormInv, TypeOK
<1>6. QED
  BY <1>4, <1>5

LEMMA ResolveType ==
  ASSUME TypeOK, NEW v \in Versions
  PROVE  Resolve(v) \in Template \cup {None, Broken, Unknown}
<1>1. \A path : Contents(path) \in Template \cup {None, Broken}
  BY PackagedContentsType DEF Contents, FromOverlay, TypeOK
<1>2. QED
  BY <1>1 DEF Resolve

LEMMA FormStep == FormInv /\ [Next]_vars => FormInv'
<1>1. SUFFICES ASSUME FormInv, [Next]_vars PROVE FormInv'
  OBVIOUS
<1>2. ASSUME NEW s \in Shells, Acknowledge(s) PROVE FormInv'
  <2>1. req[s] \in Requests /\ TypeOK
    BY <1>1, <1>2 DEF Acknowledge, FormInv, Formed
  <2>2. settled' \in [Versions -> Template \cup {None, Broken, Unknown}]
    BY <1>2, <2>1, RequestType DEF Acknowledge, TypeOK
  <2>3. QED
    BY <1>1, <1>2, <2>1, <2>2, FormReturn DEF Acknowledge, TypeOK
<1>3. ASSUME NEW s \in Shells, Fail(s) PROVE FormInv'
  <2>1. TypeOK
    BY <1>1 DEF FormInv
  <2>2. faults' \in 0..MaxFaults
    BY <1>3, <2>1, FaultsAssumption DEF Fail, Fault, TypeOK
  <2>3. QED
    BY <1>1, <1>3, <2>1, <2>2, FormReturn DEF Fail, TypeOK
<1>4. CASE UNCHANGED vars
  <2>1. ASSUME NEW t \in Shells PROVE Formed(t)'
    BY <1>1, <1>4 DEF FormInv, Formed, vars
  <2>2. QED
    BY <1>1, <1>4, <2>1 DEF FormInv, TypeOK, vars
<1>5. QED
  BY <1>1, <1>2, <1>3, <1>4, FormOpenTemplate, FormCloseTemplate, FormLoadManifest,
     FormManifest, FormByHand DEF Next

LEMMA FormInit == Init => FormInv
<1>1. SUFFICES ASSUME Init PROVE FormInv
  OBVIOUS
<1>2. \A v \in Versions : Resolve(v) \in Template \cup {None, Broken, Unknown}
  <2>1. \A path : Contents(path) \in Template \cup {None, Broken}
    BY <1>1, PackagedContentsType DEF Init, Contents, FromOverlay
  <2>2. QED
    BY <2>1 DEF Resolve
<1>3. TypeOK
  BY <1>1, <1>2, FaultsAssumption DEF Init, TypeOK
<1>4. QED
  BY <1>1, <1>3, MarksAssumption DEF Init, FormInv, Formed

LEMMA FormKept == Spec => []FormInv
  BY FormInit, FormStep, PTL DEF Spec

\* The variables hold what their comments say.
THEOREM TypeCorrect == Spec => []TypeOK
<1>1. FormInv => TypeOK
  BY DEF FormInv
<1>2. QED
  BY <1>1, FormKept, PTL

-----------------------------------------------------------------------------
(* What a save of one version does to the others.                           *)

\* The manifest and the files say what the lookups find.
LEMMA ResolveMeans ==
  ASSUME TypeOK, manifest # Broken, NEW v \in Versions
  PROVE  /\ Catalog.entries[v] = EntryIn(manifest, v)
         /\ Resolve(v) = Means(overlay, manifest, v)
<1>1. Catalog.entries[v] = EntryIn(manifest, v)
  BY DEF Catalog, Merged, EntryIn
<1>2. QED
  BY <1>1 DEF Resolve, Enabled, Contents, FromOverlay, Means

\* The entry of a version never leads to the file of another one.
LEMMA PathsApart ==
  ASSUME DistinctFiles, NEW m, m = None \/ OwnPaths(m),
         NEW u \in Versions, FileOf[u] \in Files, NEW v \in Versions, v # u
  PROVE  EntryIn(m, v) # None => EntryIn(m, v).path # FileOf[u]
  BY DEF DistinctFiles, OwnPaths, EntryIn

\* What is written to the file of a version changes no other version.
LEMMA FileKeepsOthers ==
  ASSUME DistinctFiles, NEW m, m = None \/ OwnPaths(m), NEW u \in Versions, FileOf[u] \in Files,
         NEW o, NEW p, \A f \in Files : f # FileOf[u] => p[f] = o[f],
         NEW v \in Versions, v # u
  PROVE  Means(p, m, v) = Means(o, m, v)
<1>1. EntryIn(m, v) # None => EntryIn(m, v).path # FileOf[u]
  BY PathsApart
<1>2. QED
  BY <1>1 DEF Means

\* What is settled goes on to be, apart from a version.
Opens(st, new, u) ==
  \A v \in Versions : new[v] = None \/ (v # u /\ new[v] = st[v])

LEMMA FileKeeps ==
  ASSUME DistinctFiles, NEW m, m = None \/ OwnPaths(m), NEW u \in Versions, FileOf[u] \in Files,
         NEW o, NEW p, \A f \in Files : f # FileOf[u] => p[f] = o[f],
         NEW st, NEW new, Opens(st, new, u), Keeps(o, m, st)
  PROVE  Keeps(p, m, new)
<1>1. SUFFICES ASSUME NEW v \in Versions, new[v] # None
               PROVE  Means(p, m, v) = new[v]
  BY DEF Keeps
<1>2. v # u /\ new[v] = st[v] /\ Means(o, m, v) = st[v]
  BY <1>1 DEF Opens, Keeps
<1>3. Means(p, m, v) = Means(o, m, v)
  BY <1>2, FileKeepsOthers
<1>4. QED
  BY <1>2, <1>3

LEMMA FileHidesNothing ==
  ASSUME DistinctFiles, NEW o \in [Files -> Template \cup {None, Broken}], NEW contents,
         NEW u \in Versions, FileOf[u] \in Files,
         NEW st, NEW new, Opens(st, new, u), NothingHidden(o, st)
  PROVE  NothingHidden([o EXCEPT ![FileOf[u]] = contents], new)
<1>1. SUFFICES ASSUME NEW v \in Versions, new[v] # None, Enabled(Packaged, v)
               PROVE  [o EXCEPT ![FileOf[u]] = contents][Packaged.entries[v].path] = None
  BY DEF NothingHidden
<1>2. v # u /\ st[v] # None
  BY <1>1 DEF Opens
<1>3. Packaged.entries[v].path # FileOf[u] /\ Packaged.entries[v].path \in Files
  BY <1>1, <1>2, PackagedAssumption DEF DistinctFiles, Enabled
<1>4. o[Packaged.entries[v].path] = None
  BY <1>1, <1>2 DEF NothingHidden
<1>5. QED
  BY <1>3, <1>4

LEMMA FileOfSave ==
  ASSUME NEW o \in [Files -> Template \cup {None, Broken}], NEW contents,
         NEW u \in Versions, FileOf[u] \in Files, FilesOfSaves(o)
  PROVE  FilesOfSaves([o EXCEPT ![FileOf[u]] = contents])
  BY DEF FilesOfSaves

\* A new entry is of the version that is saved.
LEMMA EntryKeeps ==
  ASSUME NEW o, NEW st, NEW m \in Manifest, OwnPaths(m), NEW r \in Requests,
         st[r.template.version] = None, Keeps(o, m, st)
  PROVE  Keeps(o, WithEntry(m, r), st)
<1> DEFINE n == WithEntry(m, r)
<1>1. n # None /\ m # None
  BY WithEntryType, MarksAssumption
<1>2. \A v \in Versions \ {r.template.version} : n.entries[v] = m.entries[v]
  BY WithEntryType
<1> HIDE DEF n
<1>3. \A v \in Versions \ {r.template.version} : Means(o, n, v) = Means(o, m, v)
  BY <1>1, <1>2 DEF Means, EntryIn
<1>4. Keeps(o, n, st)
  BY <1>3 DEF Keeps
<1>5. QED
  BY <1>4 DEF n

\* The first manifest brings no file to light that a version is not settled by.
LEMMA FirstManifestKeeps ==
  ASSUME NEW o, NEW st, NEW m \in Manifest, \A v \in Versions : m.entries[v] = None,
         Keeps(o, None, st), NothingHidden(o, st)
  PROVE  Keeps(o, m, st)
<1>1. m # None
  BY MarksAssumption
<1>2. ASSUME NEW v \in Versions, st[v] # None PROVE Means(o, m, v) = Means(o, None, v)
  <2>1. EntryIn(m, v) = Packaged.entries[v] /\ EntryIn(None, v) = Packaged.entries[v]
    BY <1>1 DEF EntryIn
  <2>2. CASE Packaged.entries[v] # None /\ Packaged.entries[v].enabled
    <3>1. o[Packaged.entries[v].path] = None
      BY <1>2, <2>2 DEF NothingHidden, Enabled
    <3>2. QED
      BY <2>1, <2>2, <3>1 DEF Means
  <2>3. CASE ~(Packaged.entries[v] # None /\ Packaged.entries[v].enabled)
    BY <2>1, <2>3 DEF Means
  <2>4. QED
    BY <2>2, <2>3
<1>3. QED
  BY <1>2 DEF Keeps

-----------------------------------------------------------------------------
(* Steps of a save.  A save that is under way is not alone with another.     *)

LEMMA NotAlone ==
  ASSUME IndInv, NEW s \in Shells, pc[s] # "idle", NEW t \in Shells \ {s}, pc[t] # "idle"
  PROVE  ~alone[t]
  BY DEF IndInv, SaveHolds, AloneHolds

\* A template that is written to the file of a save that is under way.
LEMMA PutKeeps ==
  ASSUME IndInv, DistinctFiles, NEW s \in Shells, NEW u \in Versions, NEW contents,
         contents \in Template \cup {Broken}, PutTemplate(FileOf[u], contents),
         NEW new, Opens(settled, new, u)
  PROVE  /\ FilesOfSaves(overlay')
         /\ manifest' # Broken => Keeps(overlay', manifest', new)
         /\ manifest' = None => NothingHidden(overlay', new)
         /\ \A t \in Shells : pc[t] \in {"rewrite", "manifest"} =>
              Keeps(overlay', draft[t], new)
<1>1. /\ TypeOK /\ CatalogHolds
      /\ overlay \in [Files -> Template \cup {None, Broken}]
      /\ manifest \in Manifest \cup {None, Broken}
      /\ manifest \in Manifest => OwnPaths(manifest)
      /\ \A t \in Shells : pc[t] \in {"rewrite", "manifest"} =>
           OwnPaths(draft[t]) /\ Keeps(overlay, draft[t], settled)
  BY DEF IndInv, FormInv, Formed, SaveHolds, TypeOK
<1>2. FileOf[u] \in Files \cup {ManifestFile}
  BY FilesAssumption
<1>3. CASE FileOf[u] = ManifestFile
  <2>1. manifest' = Broken /\ overlay' = overlay
    BY <1>3 DEF PutTemplate
  <2>2. \A m : Keeps(overlay, m, settled) => Keeps(overlay, m, new)
    BY DEF Keeps, Opens
  <2>3. QED
    BY <1>1, <2>1, <2>2, MarksAssumption DEF CatalogHolds
<1>4. CASE FileOf[u] \in Files
  <2>1. manifest' = manifest /\ overlay' = [overlay EXCEPT ![FileOf[u]] = contents]
    BY <1>4, FilesAssumption DEF PutTemplate
  <2>2. PICK o, n : n = overlay /\ o = [overlay EXCEPT ![FileOf[u]] = contents]
    OBVIOUS
  <2>3. FilesOfSaves(o)
    BY <1>1, <1>4, <2>2, FileOfSave DEF CatalogHolds
  <2>4. \A m : (m = None \/ OwnPaths(m)) /\ Keeps(overlay, m, settled) => Keeps(o, m, new)
    <3>1. \A f \in Files : f # FileOf[u] => o[f] = overlay[f]
      BY <1>1, <2>2
    <3>2. QED
      BY <1>4, <3>1, FileKeeps
  <2>5. NothingHidden(overlay, settled) => NothingHidden(o, new)
    BY <1>1, <1>4, <2>2, FileHidesNothing
  <2>6. overlay' = o
    BY <2>1, <2>2
  <2>7. manifest # Broken => Keeps(o, manifest, new)
    BY <1>1, <2>4 DEF CatalogHolds
  <2>8. QED
    BY <1>1, <2>1, <2>3, <2>4, <2>5, <2>6, <2>7 DEF CatalogHolds
<1>5. QED
  BY <1>2, <1>3, <1>4

\* The saves that do not take the step, when it opens versions at most.
LEMMA OthersHold ==
  ASSUME IndInv, NEW s \in Shells, NEW t \in Shells \ {s},
         pc[s] # "idle" \/ alone'[t] = FALSE,
         pc'[t] = pc[t], req'[t] = req[t], draft'[t] = draft[t],
         alone'[t] = alone[t] \/ alone'[t] = FALSE,
         \A v \in Versions : settled'[v] = settled[v] \/ settled'[v] = None,
         pc[t] \in {"rewrite", "manifest"} => Keeps(overlay', draft[t], settled')
  PROVE  SaveHolds(t)'
<1>1. CASE pc[t] = "idle"
  BY <1>1 DEF SaveHolds
<1>2. CASE pc[t] # "idle"
  <2>1. ~alone'[t]
    BY <1>2, NotAlone
  <2>2. settled[req[t].template.version] = None /\ req[t] \in Requests
    BY <1>2 DEF IndInv, SaveHolds, FormInv, Formed
  <2>3. settled'[req[t].template.version] = None
    BY <2>2, RequestType
  <2>4. QED
    BY <2>1, <2>3 DEF SaveHolds
<1>3. QED
  BY <1>1, <1>2

LEMMA IndOpenTemplate ==
  ASSUME IndInv, DistinctFiles, NEW s \in Shells, NEW r \in Requests, OpenTemplate(s, r)
  PROVE  IndInv'
<1> DEFINE u == r.template.version
<1>1. FormInv'
  BY FormOpenTemplate DEF IndInv
<1>2. TypeOK /\ u \in Versions
  BY RequestType DEF IndInv, FormInv
<1>3. /\ settled' = [settled EXCEPT ![u] = None]
      /\ \A v \in Versions : settled'[v] = settled[v] \/ settled'[v] = None
      /\ settled'[u] = None
      /\ Opens(settled, settled', u)
  BY <1>2 DEF OpenTemplate, TypeOK, Opens
<1>4. /\ FilesOfSaves(overlay')
      /\ manifest' # Broken => Keeps(overlay', manifest', settled')
      /\ manifest' = None => NothingHidden(overlay', settled')
      /\ \A t \in Shells : pc[t] \in {"rewrite", "manifest"} =>
           Keeps(overlay', draft[t], settled')
  BY <1>2, <1>3, PutKeeps DEF OpenTemplate
<1>5. CatalogHolds'
  BY <1>4 DEF CatalogHolds
<1>6. /\ pc'[s] = "template" /\ req'[s] = r
      /\ alone'[s] = \A t \in Shells \ {s} : pc[t] = "idle"
      /\ \A t \in Shells \ {s} : /\ pc'[t] = pc[t] /\ req'[t] = req[t]
                                 /\ draft'[t] = draft[t] /\ alone'[t] = FALSE
  BY <1>2 DEF OpenTemplate, TypeOK, Goto, Saving
<1>7. FileOf[u] = ManifestFile => manifest' = Broken
  BY DEF OpenTemplate, PutTemplate
<1>8. alone'[s] => AloneHolds(s)'
  BY <1>6, <1>7 DEF AloneHolds
<1>9. SaveHolds(s)'
  BY <1>3, <1>6, <1>8 DEF SaveHolds
<1>10. ASSUME NEW t \in Shells \ {s} PROVE SaveHolds(t)'
  BY <1>3, <1>4, <1>6, OthersHold
<1>11. QED
  BY <1>1, <1>5, <1>9, <1>10 DEF IndInv

LEMMA IndCloseTemplate ==
  ASSUME IndInv, DistinctFiles, NEW s \in Shells, CloseTemplate(s)
  PROVE  IndInv'
<1> DEFINE u == req[s].template.version
<1>1. FormInv'
  BY FormCloseTemplate DEF IndInv
<1>2. TypeOK /\ pc[s] = "template" /\ req[s] \in Requests /\ settled[u] = None
  BY DEF IndInv, FormInv, Formed, SaveHolds, CloseTemplate
<1>3. u \in Versions /\ req[s].template \in Template /\ FileOf[u] \in Files \cup {ManifestFile}
  BY <1>2, RequestType
<1>4. PICK contents \in Mixed(s, req[s].template) : PutTemplate(FileOf[u], contents)
  BY DEF CloseTemplate, Path
<1>5. contents \in Template \cup {Broken}
  BY <1>3 DEF Mixed
<1>6. settled' = settled /\ Opens(settled, settled', u)
  BY <1>2 DEF CloseTemplate, Opens
<1>7. /\ FilesOfSaves(overlay')
      /\ manifest' # Broken => Keeps(overlay', manifest', settled')
      /\ manifest' = None => NothingHidden(overlay', settled')
      /\ \A t \in Shells : pc[t] \in {"rewrite", "manifest"} =>
           Keeps(overlay', draft[t], settled')
  BY <1>3, <1>4, <1>5, <1>6, PutKeeps
<1>8. CatalogHolds'
  BY <1>7 DEF CatalogHolds
<1>9. /\ pc'[s] = "load" /\ req' = req /\ draft' = draft /\ alone' = alone
      /\ \A t \in Shells \ {s} : pc'[t] = pc[t]
  BY <1>2 DEF CloseTemplate, TypeOK, Goto
<1>10. ASSUME alone[s] PROVE AloneHolds(s)'
  <2>1. \A t \in Shells \ {s} : pc[t] = "idle"
    BY <1>2, <1>10 DEF IndInv, SaveHolds, AloneHolds
  <2>2. contents = req[s].template
    BY <1>4, <1>10 DEF Mixed
  <2>3. CASE FileOf[u] = ManifestFile
    BY <1>4, <1>9, <2>1, <2>3 DEF PutTemplate, AloneHolds
  <2>4. CASE FileOf[u] # ManifestFile
    <3>1. overlay' = [overlay EXCEPT ![FileOf[u]] = req[s].template]
      BY <1>4, <2>2, <2>4 DEF PutTemplate
    <3>2. overlay'[FileOf[u]] = req[s].template
      BY <1>2, <1>3, <2>4, <3>1 DEF TypeOK
    <3>3. QED
      BY <1>9, <2>1, <2>4, <3>2 DEF AloneHolds
  <2>5. QED
    BY <2>3, <2>4
<1>11. SaveHolds(s)'
  BY <1>2, <1>6, <1>9, <1>10 DEF SaveHolds
<1>12. ASSUME NEW t \in Shells \ {s} PROVE SaveHolds(t)'
  BY <1>2, <1>6, <1>7, <1>9, OthersHold
<1>13. QED
  BY <1>1, <1>8, <1>11, <1>12 DEF IndInv

LEMMA IndLoadManifest ==
  ASSUME IndInv, NEW s \in Shells, LoadManifest(s)
  PROVE  IndInv'
<1> DEFINE u == req[s].template.version
<1>1. FormInv'
  BY FormLoadManifest DEF IndInv
<1>2. /\ TypeOK /\ CatalogHolds /\ pc[s] = "load" /\ req[s] \in Requests /\ settled[u] = None
      /\ manifest \in Manifest => OwnPaths(manifest)
  BY DEF IndInv, FormInv, Formed, SaveHolds, LoadManifest
<1>3. UNCHANGED <<overlay, manifest, settled, faults>>
  BY DEF LoadManifest
<1>4. CatalogHolds'
  BY <1>2, <1>3 DEF CatalogHolds
<1>5. CASE manifest = Broken /\ Return(s)
  <2>1. /\ pc'[s] = "idle"
        /\ \A t \in Shells \ {s} :
             pc'[t] = pc[t] /\ req'[t] = req[t] /\ draft'[t] = draft[t] /\ alone'[t] = alone[t]
    BY <1>2, <1>5, ReturnType
  <2>2. SaveHolds(s)'
    BY <2>1 DEF SaveHolds
  <2>3. ASSUME NEW t \in Shells \ {s} PROVE SaveHolds(t)'
    BY <1>2, <1>3, <2>1, OthersHold DEF IndInv, SaveHolds
  <2>4. QED
    BY <1>1, <1>4, <2>2, <2>3 DEF IndInv
<1>6. CASE /\ manifest # Broken
           /\ draft' = [draft EXCEPT ![s] = WithEntry(Loaded, req[s])]
           /\ Goto(s, "rewrite")
           /\ UNCHANGED <<req, alone>>
  <2>1. PICK r, m, l : r = req[s] /\ l = Loaded /\ m = WithEntry(l, r)
    OBVIOUS
  <2>2. /\ l \in Manifest /\ OwnPaths(l)
        /\ manifest # None => l = manifest
        /\ manifest = None => \A v \in Versions : l.entries[v] = None
    BY <1>2, <1>6, <2>1, LoadedType
  <2>3. Keeps(overlay, l, settled)
    BY <1>2, <1>6, <2>2, FirstManifestKeeps DEF CatalogHolds
  <2>4. Keeps(overlay, m, settled)
    BY <1>2, <2>1, <2>2, <2>3, EntryKeeps
  <2>5. m.entries[r.template.version]
          = [path |-> FileOf[r.template.version], enabled |-> r.enabled]
    BY <1>2, <2>1, <2>2, WithEntryType
  <2>6. /\ pc'[s] = "rewrite" /\ draft'[s] = m /\ req'[s] = r /\ alone'[s] = alone[s]
        /\ \A t \in Shells \ {s} :
             pc'[t] = pc[t] /\ req'[t] = req[t] /\ draft'[t] = draft[t] /\ alone'[t] = alone[t]
    BY <1>2, <1>6, <2>1 DEF Goto, TypeOK
  <2>7. ASSUME alone[s] PROVE AloneHolds(s)'
    <3>1. AloneHolds(s)
      BY <1>2, <2>7 DEF IndInv, SaveHolds
    <3>2. /\ \A t \in Shells \ {s} : pc'[t] = "idle"
          /\ FileOf[r.template.version] # ManifestFile
          /\ overlay'[FileOf[r.template.version]] = r.template
      BY <1>2, <1>3, <1>6, <2>1, <2>6, <3>1 DEF AloneHolds
    <3>3. QED
      BY <2>5, <2>6, <3>2 DEF AloneHolds
  <2>8. SaveHolds(s)'
    BY <1>2, <1>3, <2>1, <2>4, <2>6, <2>7 DEF SaveHolds
  <2>9. ASSUME NEW t \in Shells \ {s} PROVE SaveHolds(t)'
    BY <1>2, <1>3, <2>6, OthersHold DEF IndInv, SaveHolds
  <2>10. QED
    BY <1>1, <1>4, <2>8, <2>9 DEF IndInv
<1>7. QED
  BY <1>5, <1>6 DEF LoadManifest

LEMMA IndManifest ==
  ASSUME IndInv, NEW s \in Shells, OpenManifest(s) \/ CloseManifest(s)
  PROVE  IndInv'
<1>1. FormInv'
  BY FormManifest DEF IndInv
<1>2. /\ TypeOK /\ CatalogHolds /\ pc[s] \in {"rewrite", "manifest"} /\ req[s] \in Requests
      /\ settled[req[s].template.version] = None
      /\ draft[s] \in Manifest /\ Keeps(overlay, draft[s], settled)
  BY DEF IndInv, FormInv, Formed, SaveHolds, OpenManifest, CloseManifest
<1>3. UNCHANGED <<overlay, req, draft, alone, settled, faults>>
  BY DEF OpenManifest, CloseManifest
<1>4. manifest' = Broken \/ manifest' = draft[s]
  BY DEF OpenManifest, CloseManifest, Mixed
<1>5. Broken # None /\ draft[s] # None /\ draft[s] # Broken
  BY <1>2, MarksAssumption
<1>6. CatalogHolds'
  BY <1>2, <1>3, <1>4, <1>5 DEF CatalogHolds
<1>7. /\ \/ pc[s] = "rewrite" /\ pc'[s] = "manifest"
         \/ pc[s] = "manifest" /\ pc'[s] = "reload"
      /\ \A t \in Shells \ {s} : pc'[t] = pc[t]
  BY <1>2 DEF OpenManifest, CloseManifest, Goto, TypeOK
<1>8. ASSUME alone[s] PROVE AloneHolds(s)'
  <2>1. AloneHolds(s)
    BY <1>2, <1>8 DEF IndInv, SaveHolds
  <2>2. /\ \A t \in Shells \ {s} : pc[t] = "idle"
        /\ FileOf[req[s].template.version] # ManifestFile
        /\ overlay[FileOf[req[s].template.version]] = req[s].template
        /\ draft[s].entries[req[s].template.version]
             = [path |-> FileOf[req[s].template.version], enabled |-> req[s].enabled]
    BY <1>2, <2>1 DEF AloneHolds
  <2>3. pc[s] = "manifest" => manifest' = draft[s]
    BY <1>8 DEF OpenManifest, CloseManifest, Mixed
  <2>4. QED
    BY <1>2, <1>3, <1>7, <2>2, <2>3 DEF AloneHolds
<1>9. SaveHolds(s)'
  BY <1>2, <1>3, <1>7, <1>8 DEF SaveHolds
<1>10. ASSUME NEW t \in Shells \ {s} PROVE SaveHolds(t)'
  BY <1>2, <1>3, <1>7, OthersHold DEF IndInv, SaveHolds
<1>11. QED
  BY <1>1, <1>6, <1>9, <1>10 DEF IndInv

\* What a save that was alone made of its version.
LEMMA SavedIsMeant ==
  ASSUME IndInv, NEW s \in Shells, pc[s] = "reload", alone[s]
  PROVE  Means(overlay, manifest, req[s].template.version)
           = IF req[s].enabled THEN req[s].template ELSE Unknown
<1> DEFINE u == req[s].template.version
<1>1. req[s] \in Requests /\ AloneHolds(s)
  BY DEF IndInv, FormInv, Formed, SaveHolds
<1>2. /\ u \in Versions /\ req[s].template \in Template /\ req[s].enabled \in BOOLEAN
      /\ FileOf[u] \in Files \cup {ManifestFile}
  BY <1>1, RequestType
<1>3. PICK e : e = [path |-> FileOf[u], enabled |-> req[s].enabled]
  OBVIOUS
<1>4. e \in Entry /\ e.path = FileOf[u] /\ e.enabled = req[s].enabled
  BY <1>2, <1>3 DEF Entry
<1>5. /\ manifest \in Manifest /\ manifest.entries[u] = e
      /\ FileOf[u] \in Files /\ overlay[FileOf[u]] = req[s].template
  BY <1>1, <1>2, <1>3 DEF AloneHolds
<1>6. manifest # None /\ e # None /\ req[s].template # None
  BY <1>2, <1>4, <1>5, MarksAssumption
<1>7. EntryIn(manifest, u) = e
  BY <1>5, <1>6 DEF EntryIn
<1>8. QED
  BY <1>4, <1>5, <1>6, <1>7 DEF Means

LEMMA IndAcknowledge ==
  ASSUME IndInv, NEW s \in Shells, Acknowledge(s)
  PROVE  IndInv'
<1> DEFINE u == req[s].template.version
<1>1. FormInv'
  BY FormStep DEF IndInv, Next
<1>2. /\ TypeOK /\ CatalogHolds /\ pc[s] = "reload" /\ req[s] \in Requests
  BY DEF IndInv, FormInv, Formed, Acknowledge
<1>3. UNCHANGED <<overlay, manifest>>
  BY DEF Acknowledge
<1>4. /\ pc'[s] = "idle"
      /\ \A t \in Shells \ {s} :
           pc'[t] = pc[t] /\ req'[t] = req[t] /\ draft'[t] = draft[t] /\ alone'[t] = alone[t]
  BY <1>2, ReturnType DEF Acknowledge
<1>5. SaveHolds(s)'
  BY <1>4 DEF SaveHolds
<1>6. CASE manifest \notin {None, Broken} /\ alone[s]
  <2>1. settled' = [settled EXCEPT ![u] = IF req[s].enabled THEN req[s].template ELSE Unknown]
    BY <1>6 DEF Acknowledge
  <2>2. Means(overlay, manifest, u) = IF req[s].enabled THEN req[s].template ELSE Unknown
    BY <1>2, <1>6, SavedIsMeant
  <2>3. u \in Versions
    BY <1>2, RequestType
  <2>4. /\ settled'[u] = Means(overlay, manifest, u)
        /\ \A v \in Versions \ {u} : settled'[v] = settled[v]
    BY <1>2, <2>1, <2>2, <2>3 DEF TypeOK
  <2>5. Keeps(overlay, manifest, settled')
    BY <1>2, <1>6, <2>4 DEF Keeps, CatalogHolds
  <2>6. CatalogHolds'
    BY <1>2, <1>3, <1>6, <2>5 DEF CatalogHolds
  <2>7. \A t \in Shells \ {s} : pc[t] = "idle"
    BY <1>2, <1>6 DEF IndInv, SaveHolds, AloneHolds
  <2>8. ASSUME NEW t \in Shells \ {s} PROVE SaveHolds(t)'
    BY <1>4, <2>7 DEF SaveHolds
  <2>9. QED
    BY <1>1, <1>5, <2>6, <2>8 DEF IndInv
<1>7. CASE ~(manifest \notin {None, Broken} /\ alone[s])
  <2>1. settled' = settled
    BY <1>7 DEF Acknowledge
  <2>2. CatalogHolds'
    BY <1>2, <1>3, <2>1 DEF CatalogHolds
  <2>3. ASSUME NEW t \in Shells \ {s} PROVE SaveHolds(t)'
    BY <1>2, <1>3, <1>4, <2>1, OthersHold DEF IndInv, SaveHolds
  <2>4. QED
    BY <1>1, <1>5, <2>2, <2>3 DEF IndInv
<1>8. QED
  BY <1>6, <1>7

LEMMA IndFail ==
  ASSUME IndInv, NEW s \in Shells, Fail(s)
  PROVE  IndInv'
<1>1. FormInv'
  BY FormStep DEF IndInv, Next
<1>2. TypeOK /\ CatalogHolds /\ pc[s] # "idle"
  BY DEF IndInv, FormInv, Fail, Saving
<1>3. UNCHANGED <<overlay, manifest, settled>>
  BY DEF Fail
<1>4. /\ pc'[s] = "idle"
      /\ \A t \in Shells \ {s} :
           pc'[t] = pc[t] /\ req'[t] = req[t] /\ draft'[t] = draft[t] /\ alone'[t] = alone[t]
  BY <1>2, ReturnType DEF Fail
<1>5. SaveHolds(s)'
  BY <1>4 DEF SaveHolds
<1>6. ASSUME NEW t \in Shells \ {s} PROVE SaveHolds(t)'
  BY <1>2, <1>3, <1>4, OthersHold DEF IndInv, SaveHolds
<1>7. CatalogHolds'
  BY <1>2, <1>3 DEF CatalogHolds
<1>8. QED
  BY <1>1, <1>5, <1>6, <1>7 DEF IndInv

-----------------------------------------------------------------------------
(* Steps by hand, and the invariant.                                        *)

LEMMA IndLoseFile ==
  ASSUME IndInv, DistinctFiles, NEW f \in Files, LoseFile(f)
  PROVE  IndInv'
<1>1. FormInv'
  BY FormByHand DEF IndInv
<1>2. /\ TypeOK /\ CatalogHolds /\ overlay[f] # None
      /\ \A s \in Shells : pc[s] = "idle"
      /\ UNCHANGED <<manifest, pc, req, draft, alone>>
  BY DEF IndInv, FormInv, LoseFile, Saving
<1>3. PICK u \in Versions : FileOf[u] = f
  BY <1>2 DEF CatalogHolds, FilesOfSaves
<1>4. PICK o : o = [overlay EXCEPT ![FileOf[u]] = None]
  OBVIOUS
<1>5. overlay' = o
  BY <1>3, <1>4 DEF LoseFile
<1>6. \A g \in Files : g # FileOf[u] => o[g] = overlay[g]
  BY <1>2, <1>4 DEF TypeOK
<1>7. Opens(settled, settled', u)
  BY <1>3 DEF LoseFile, Opens
<1>8. FilesOfSaves(o)
  BY <1>2, <1>3, <1>4, FileOfSave DEF TypeOK, CatalogHolds
<1>9. ASSUME manifest # Broken PROVE Keeps(o, manifest, settled')
  <2>1. manifest = None \/ OwnPaths(manifest)
    BY <1>2, <1>9 DEF IndInv, FormInv, TypeOK
  <2>2. Keeps(overlay, manifest, settled)
    BY <1>2, <1>9 DEF CatalogHolds
  <2>3. PICK m, new : m = manifest /\ new = settled'
    OBVIOUS
  <2>4. Keeps(o, m, new)
    BY <1>3, <1>6, <1>7, <2>1, <2>2, <2>3, FileKeeps
  <2>5. QED
    BY <2>3, <2>4
<1>10. manifest = None => NothingHidden(o, settled')
  BY <1>2, <1>3, <1>4, <1>7, FileHidesNothing DEF TypeOK, CatalogHolds
<1>11. CatalogHolds'
  BY <1>2, <1>5, <1>8, <1>9, <1>10 DEF CatalogHolds
<1>12. ASSUME NEW s \in Shells PROVE SaveHolds(s)'
  BY <1>2 DEF SaveHolds
<1>13. QED
  BY <1>1, <1>11, <1>12 DEF IndInv

LEMMA IndSetManifestAside ==
  ASSUME IndInv, SetManifestAside
  PROVE  IndInv'
<1>1. FormInv'
  BY FormByHand DEF IndInv
<1>2. /\ CatalogHolds
      /\ \A s \in Shells : pc[s] = "idle"
      /\ manifest' = None
      /\ UNCHANGED <<overlay, pc, req, draft, alone>>
  BY DEF IndInv, SetManifestAside, Saving
<1>3. \A v \in Versions :
        settled'[v] = IF ~Enabled(Packaged, v) THEN Unknown
                      ELSE IF overlay[Packaged.entries[v].path] # None THEN None
                      ELSE PackagedContents(Packaged.entries[v].path)
  BY DEF SetManifestAside
<1>4. ASSUME NEW v \in Versions, settled'[v] # None
      PROVE  Means(overlay, None, v) = settled'[v]
  <2>1. EntryIn(None, v) = Packaged.entries[v]
    BY DEF EntryIn
  <2>2. Means(overlay, None, v) = IF Enabled(Packaged, v)
                                  THEN PackagedContents(Packaged.entries[v].path)
                                  ELSE Unknown
    BY <2>1 DEF Means, Enabled
  <2>3. QED
    BY <1>3, <1>4, <2>2
<1>5. NothingHidden(overlay, settled')
  BY <1>3 DEF NothingHidden
<1>6. CatalogHolds'
  BY <1>2, <1>4, <1>5 DEF CatalogHolds, Keeps
<1>7. ASSUME NEW s \in Shells PROVE SaveHolds(s)'
  BY <1>2 DEF SaveHolds
<1>8. QED
  BY <1>1, <1>6, <1>7 DEF IndInv

LEMMA IndInit == Init => IndInv
<1>1. SUFFICES ASSUME Init PROVE IndInv
  OBVIOUS
<1>2. FormInv /\ TypeOK
  BY <1>1, FormInit DEF FormInv
<1>3. manifest # Broken /\ settled = [v \in Versions |-> Resolve(v)]
  BY <1>1, MarksAssumption DEF Init
<1>4. Keeps(overlay, manifest, settled)
  BY <1>2, <1>3, ResolveMeans DEF Keeps
<1>5. NothingHidden(overlay, settled)
  BY <1>1, PackagedAssumption DEF Init, NothingHidden, Enabled
<1>6. FilesOfSaves(overlay)
  BY <1>1 DEF Init, FilesOfSaves
<1>7. \A s \in Shells : SaveHolds(s)
  BY <1>1 DEF Init, SaveHolds
<1>8. QED
  BY <1>2, <1>4, <1>5, <1>6, <1>7 DEF IndInv, CatalogHolds

LEMMA IndStep ==
  ASSUME DistinctFiles
  PROVE  IndInv /\ [Next]_vars => IndInv'
<1>1. SUFFICES ASSUME IndInv, [Next]_vars PROVE IndInv'
  OBVIOUS
<1>2. CASE UNCHANGED vars
  <2>1. FormInv'
    BY <1>1, <1>2, FormStep DEF IndInv
  <2>2. CatalogHolds'
    BY <1>1, <1>2 DEF IndInv, CatalogHolds, vars
  <2>3. ASSUME NEW s \in Shells PROVE SaveHolds(s)'
    <3>1. AloneHolds(s) => AloneHolds(s)'
      BY <1>2 DEF AloneHolds, vars
    <3>2. QED
      BY <1>1, <1>2, <3>1 DEF IndInv, SaveHolds, vars
  <2>4. QED
    BY <2>1, <2>2, <2>3 DEF IndInv
<1>3. QED
  BY <1>1, <1>2, IndOpenTemplate, IndCloseTemplate, IndLoadManifest, IndManifest,
     IndAcknowledge, IndFail, IndLoseFile, IndSetManifestAside DEF Next

\* Whatever saves of other versions do, a version stands for what was made of
\* it last: no matter how many shells save, fail and die, as long as no two
\* versions share a file.
THEOREM TemplatesAreKept ==
  ASSUME DistinctFiles
  PROVE  Spec => []CatalogKeepsTemplates
<1>1. IndInv => CatalogKeepsTemplates
  BY ResolveMeans DEF IndInv, FormInv, CatalogHolds, Keeps, CatalogKeepsTemplates
<1>2. QED
  BY <1>1, IndInit, IndStep, PTL DEF Spec

-----------------------------------------------------------------------------
(* What is reported of the catalog.                                         *)

\* Where nothing is reported, the files of the manifest are there.
LEMMA NothingMissing ==
  ASSUME FormInv, manifest \notin {None, Broken}, ~FileMissing,
         NEW v \in Versions, manifest.entries[v] # None, FileOf[v] # ManifestFile
  PROVE  /\ manifest.entries[v].path = FileOf[v]
         /\ FileOf[v] \in Files /\ overlay[FileOf[v]] # None
<1>1. manifest \in Manifest /\ OwnPaths(manifest)
  BY DEF FormInv, TypeOK
<1>2. manifest.entries[v].path = FileOf[v] /\ FileOf[v] \in Files
  BY <1>1, FilesAssumption DEF OwnPaths
<1>3. manifest.entries[v] \in LocalEntries
  BY DEF LocalEntries
<1>4. QED
  BY <1>2, <1>3 DEF FileMissing

LEMMA Resolvable == ASSUME FormInv PROVE HealthyMeansResolvable
<1>1. SUFFICES ASSUME \A f \in Files : overlay[f] # Broken, Issues \cap Errors = {}
               PROVE  /\ Enabled(Catalog, Catalog.default)
                      /\ \A v \in Versions :
                           Enabled(Catalog, v) /\ FileOf[v] # ManifestFile
                             => Resolve(v) \in Template
  BY DEF HealthyMeansResolvable
<1>2. TypeOK
  BY DEF FormInv
<1>3. manifest # Broken /\ ~FileMissing
  BY <1>1 DEF Issues, Errors
<1>4. Enabled(Catalog, Catalog.default)
  <2>1. CASE manifest = None
    BY <2>1, PackagedAssumption DEF Catalog, Enabled
  <2>2. CASE manifest # None
    BY <1>1, <1>3, <2>2 DEF Issues, Errors
  <2>3. QED
    BY <2>1, <2>2
<1>5. ASSUME NEW v \in Versions, Enabled(Catalog, v), FileOf[v] # ManifestFile
      PROVE  Resolve(v) \in Template
  <2>1. PICK path : path = Catalog.entries[v].path
    OBVIOUS
  <2>2. Resolve(v) = Contents(path)
    BY <1>3, <1>5, <2>1 DEF Resolve
  <2>3. CASE FromOverlay(path)
    BY <1>1, <1>2, <2>2, <2>3 DEF Contents, FromOverlay, TypeOK
  <2>4. CASE ~FromOverlay(path)
    <3>1. Catalog.entries[v] = EntryIn(manifest, v)
      BY <1>2, <1>3, ResolveMeans
    <3>2. manifest # None => manifest.entries[v] = None
      BY <1>1, <1>3, <1>5, <2>1, <2>4, <3>1, NothingMissing DEF EntryIn, FromOverlay
    <3>3. Catalog.entries[v] = Packaged.entries[v]
      BY <3>1, <3>2 DEF EntryIn
    <3>4. path \in Files /\ PackagedFiles[path] # None
      BY <1>5, <2>1, <3>3, PackagedAssumption DEF Enabled
    <3>5. QED
      BY <2>2, <2>4, <3>4, PackagedAssumption DEF Contents, PackagedContents
  <2>5. QED
    BY <2>3, <2>4
<1>6. QED
  BY <1>4, <1>5

\* A catalog of which no error is reported can be dispatched from.
THEOREM HealthyCatalogsResolve == Spec => []HealthyMeansResolvable
<1>1. FormInv => HealthyMeansResolvable
  BY Resolvable
<1>2. QED
  BY <1>1, FormKept, PTL

LEMMA SourcesAgree == ASSUME DistinctFiles, FormInv PROVE SourcesAreAsListed
<1>1. SUFFICES ASSUME Issues \subseteq {"manifest_missing"},
                      NEW v \in DOMAIN Listing.source, FileOf[v] # ManifestFile
               PROVE  Listing.source[v] = "local" <=> FromOverlay(Catalog.entries[v].path)
  BY DEF SourcesAreAsListed
<1>2. TypeOK
  BY DEF FormInv
<1>3. /\ v \in Versions /\ Enabled(Catalog, v)
      /\ Listing.source[v] = "local" <=> v \in LocalVersions
  BY <1>1 DEF Listing
<1>4. manifest # Broken /\ ~FileMissing /\ OverlayFiles \subseteq Referenced
  BY <1>1 DEF Issues
<1>5. Catalog.entries[v] = EntryIn(manifest, v)
  BY <1>2, <1>3, <1>4, ResolveMeans
<1>6. CASE manifest = None
  BY <1>3, <1>6 DEF LocalVersions, FromOverlay
<1>7. CASE manifest # None /\ manifest.entries[v] # None
  <2>1. Catalog.entries[v] = manifest.entries[v]
    BY <1>5, <1>7 DEF EntryIn
  <2>2. v \in LocalVersions
    BY <1>3, <1>7, <2>1 DEF LocalVersions, Enabled
  <2>3. FromOverlay(Catalog.entries[v].path)
    BY <1>1, <1>3, <1>4, <1>7, <2>1, NothingMissing DEF FromOverlay
  <2>4. QED
    BY <1>3, <2>2, <2>3
<1>8. CASE manifest # None /\ manifest.entries[v] = None
  <2>1. Catalog.entries[v] = Packaged.entries[v]
    BY <1>5, <1>8 DEF EntryIn
  <2>2. v \notin LocalVersions
    BY <1>8 DEF LocalVersions, Enabled
  <2>3. ASSUME FromOverlay(Catalog.entries[v].path) PROVE FALSE
    <3>1. PICK path \in Files : path = Packaged.entries[v].path /\ overlay[path] # None
      BY <2>1, <2>3 DEF FromOverlay
    <3>2. path \in Referenced
      BY <1>4, <3>1 DEF OverlayFiles
    <3>3. PICK u \in Versions : manifest.entries[u] # None /\ manifest.entries[u].path = path
      BY <3>2 DEF Referenced, LocalEntries
    <3>4. FileOf[u] = path
      BY <1>1, <1>2, <1>4, <1>8, <3>3 DEF FormInv, TypeOK, OwnPaths
    <3>5. Packaged.entries[v] # None
      BY <1>3, <2>1 DEF Enabled
    <3>6. QED
      BY <1>3, <1>8, <3>1, <3>3, <3>4, <3>5 DEF DistinctFiles
  <2>4. QED
    BY <1>3, <2>2, <2>3
<1>9. QED
  BY <1>6, <1>7, <1>8

\* The list tells the truth about where a template comes from, as long as no
\* two versions share a file.
THEOREM ListedSourcesAreTrue ==
  ASSUME DistinctFiles
  PROVE  Spec => []SourcesAreAsListed
<1>1. FormInv => SourcesAreAsListed
  BY SourcesAgree
<1>2. QED
  BY <1>1, FormKept, PTL
=============================================================================
