------------------------- MODULE MCTemplateCatalog -------------------------
(* Instances of TemplateCatalog for TLC: a packaged version, a version of the *)
(* operator's own, and one whose file name is that of the manifest.          *)
EXTENDS TemplateCatalog, TLC

CONSTANTS basic, own, clash, basicFile, ownFile, b0, b1

MCFileOf ==
  (basic :> basicFile) @@ (own :> ownFile) @@ (clash :> ManifestFile)

MCPackaged ==
  [default |-> basic,
   entries |-> [v \in Versions |->
     IF v = basic THEN [path |-> basicFile, enabled |-> TRUE] ELSE None]]

MCPackagedFiles ==
  [f \in Files |-> IF f = basicFile THEN [version |-> basic, body |-> b0] ELSE None]

Save(v, body, enabled, asDefault) ==
  [template |-> [version |-> v, body |-> body], enabled |-> enabled,
   asDefault |-> asDefault]

\* The packaged version overridden and hidden, two bodies of the own version,
\* one of them hidden but the default, and the version that clashes.
MCRequests ==
  {Save(basic, b1, TRUE, FALSE), Save(basic, b1, FALSE, FALSE),
   Save(own, b0, TRUE, TRUE), Save(own, b1, TRUE, FALSE), Save(own, b1, FALSE, TRUE),
   Save(clash, b1, TRUE, FALSE)}

PlainRequests == {Save(basic, b1, TRUE, FALSE), Save(own, b1, TRUE, FALSE)}

Symmetry == Permutations(Shells)
=============================================================================
