---------------------------- MODULE MCBatchQueue ----------------------------
(* Instances of BatchQueue for TLC. *)
EXTENDS BatchQueue, TLC

CONSTANTS word, spaced, spaces, tmp, here, gone, p

\* A word, the same with spaces around it, spaces alone, and nothing.
MCText == {word, spaced, spaces, Empty}
MCTrimmed == [t \in MCText |-> IF t = spaces THEN Empty ELSE IF t = spaced THEN word ELSE t]
MCJoined == [i \in MCText, v \in MCText |-> word]

Request(mode, jan, profile, proof) ==
  [mode |-> mode, job |-> word, sku |-> word, brand |-> word, user |-> word,
   name |-> word, at |-> word, jan |-> jan, qty |-> 1, version |-> Absent,
   template |-> [id |-> word, version |-> word], profile |-> profile, proof |-> proof]

GoodJan == <<4, 9, 0, 1, 2, 3, 4, 5, 6, 7, 8, 9>>

\* A proof; and then a print from an approved proof.
MCSheets == <<<<Request("proof", GoodJan, "spooler", Absent)>>,
              <<Request("print", GoodJan, "spooler", p)>>>>

\* The retry of a print from a proof is refused, and so is every later one.
MCAttempts == <<2, 1>>

Host(windows, adapter, printer, zint, printDir) ==
  [windows |-> windows, adapter |-> adapter, printer |-> printer, zint |-> zint,
   dirs |-> [d \in Directories |-> IF d = "print" THEN printDir ELSE NotSet],
   existing |-> {tmp, here}, absolute |-> {gone}, allow |-> "off"]

\* Windows, where the profile asks for another printer than the environment,
\* and the printer and zint are given with spaces around them; and what blocks all submissions: a spooler without the name of a printer, a
\* host without the spooler its environment asks for, a directory that is gone.
MCEnvironments ==
  {Host(TRUE, "pdf", spaced, spaced, here),
   Host(TRUE, "windows", NotSet, NotSet, NotSet),
   Host(FALSE, "spool", word, NotSet, here),
   Host(TRUE, "spooler", word, NotSet, gone)}

MCDefaultDirs == [d \in Directories |-> tmp]

Symmetry == Permutations(Loops)
=============================================================================
