--------------------------- MODULE MCDispatchGate ---------------------------
(* Instances of DispatchGate for TLC. *)
EXTENDS DispatchGate, TLC

CONSTANTS p1, p2, j1, p1s, v, w, s1, s2, b1, b2

MCContents == [version : {v, w}, subject : {s1, s2}]
MCTimes == 1..2

\* p1s is p1 with spaces around it.
MCTrimmedId == [j \in {p1, p2, j1, p1s, Blank} |-> IF j = p1s THEN p1 ELSE j]

MCPackaged == [x \in {v, w} |-> IF x = v THEN b1 ELSE None]

A == [version |-> v, subject |-> s1]
B == [version |-> v, subject |-> s2]

ProofOf(job, content, at, lineage) ==
  [mode |-> "proof", job |-> job, content |-> content, at |-> at, lineage |-> lineage,
   reprintOf |-> NoJob, source |-> NoJob, bypass |-> FALSE, inOrder |-> TRUE]

PrintOf(content, lineage, reprintOf, source) ==
  [mode |-> "print", job |-> j1, content |-> content, at |-> 2, lineage |-> lineage,
   reprintOf |-> reprintOf, source |-> source, bypass |-> FALSE, inOrder |-> TRUE]

\* A proof, a newer one of its lineage with another content, a print (with a
\* lineage field of spaces, and spaces around the other ids), one without
\* execution, and a bypass with a template that does not exist.
GateRequests ==
  {ProofOf(p1, A, 1, NoJob), ProofOf(p2, B, 2, p1), PrintOf(A, Blank, p1s, p1s),
   [PrintOf(A, NoJob, NoJob, NoJob) EXCEPT !.mode = "none"],
   [PrintOf([version |-> w, subject |-> s1], NoJob, NoJob, NoJob) EXCEPT !.bypass = TRUE]}

\* Two proofs of two lineages, and a reprint that names both.
ReprintRequests ==
  {ProofOf(p1, A, 1, NoJob), ProofOf(p2, B, 2, NoJob), PrintOf(A, p1, p2, p1)}

\* A proof and its print.
PlainRequests == {ProofOf(p1, A, 1, NoJob), PrintOf(A, NoJob, NoJob, p1)}

Symmetry == Permutations(Hosts)
=============================================================================
