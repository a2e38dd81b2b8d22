----------------------------- MODULE LabelProofs -----------------------------
(***************************************************************************)
(* Theorems about the data of a label, from the line of an imported table  *)
(* to the artifact a printer takes: the check digit of Jan, the columns of *)
(* Importer, the rows of LegacySeed and the renderings of Renderer.  They  *)
(* are pure functions: nothing here depends on a state.  The request of    *)
(* PrintJob is in BatchQueueProofs.                                        *)
(***************************************************************************)
EXTENDS Importer, Renderer, LegacySeed, SequenceTheorems, TLAPS

-----------------------------------------------------------------------------
(* Jan: what Jan::parse promises for every code.                             *)

\* The digits of a code are numbers.
LEMMA DigitsOfCode ==
  ASSUME NEW n \in Nat, NEW s \in Code(n), NEW i \in 1..n
  PROVE  s[i] \in Nat /\ s[i] < 10 /\ s[i] # NonDigit
<1>1. s[i] \in Digit
  BY DEF Code
<1>. QED  BY <1>1, AlphabetAssumption DEF Digit

\* A checksum only depends on the first twelve digits, and is a digit.
LEMMA ChecksumIsDigit ==
  ASSUME NEW n \in {12, 13}, NEW s \in Code(n)
  PROVE  Total(s) \in Nat /\ Checksum(s) \in Digit
<1>1. \A i \in 1..12 : s[i] \in Nat
  BY DigitsOfCode
<1>2. Total(s) \in Nat
  BY <1>1 DEF Total
<1>. QED  BY <1>2 DEF Checksum, Digit

\* What Parse answers for texts of digits of either length.
LEMMA ParseOfCode ==
  ASSUME NEW n \in {12, 13}, NEW s \in Code(n)
  PROVE  Parse(s) = IF n = 12 THEN Parsed(Append(s, Checksum(s)))
                    ELSE IF Checksum(s) = s[13] THEN Parsed(s)
                    ELSE Refused("InvalidChecksum")
<1>1. Len(s) = n /\ s # <<>> /\ DOMAIN s = 1..n
  BY DEF Code
<1>2. ~ \E i \in DOMAIN s : s[i] = NonDigit
  BY <1>1, DigitsOfCode
<1>3. CASE n = 12
  BY <1>1, <1>2, <1>3 DEF Parse
<1>4. CASE n = 13
  BY <1>1, <1>2, <1>4 DEF Parse
<1>. QED  BY <1>3, <1>4

\* print-agent, importer and desktop shell each parse what another may have
\* parsed before: a completed code is a code, and stays as it is.
THEOREM CompletionIsStable ==
  ASSUME NEW b \in Code(12)
  PROVE  LET jan == Parse(b).digits IN
         jan \in Code(13) /\ Parse(jan) = Parsed(jan)
<1>. DEFINE c == Checksum(b)
            jan == Append(b, c)
<1>1. c \in Digit /\ b \in Seq(Digit) /\ Len(b) = 12
  BY ChecksumIsDigit DEF Code
<1>2. jan \in Code(13) /\ jan[13] = c /\ \A i \in 1..12 : jan[i] = b[i]
  <2>. HIDE DEF c
  <2>0. b \in Seq(Digit) /\ c \in Digit
    BY <1>1
  <2>1. /\ jan \in Seq(Digit)
        /\ Len(jan) = Len(b) + 1
        /\ \A i \in 1..Len(b) : jan[i] = b[i]
        /\ jan[Len(b) + 1] = c
    BY <2>0, AppendProperties
  <2>. HIDE DEF jan
  <2>. QED  BY <1>1, <2>1 DEF Code
<1>3. Checksum(jan) = c
  <2>. HIDE DEF jan
  <2>1. Total(jan) = Total(b)
    BY <1>2 DEF Total
  <2>. QED  BY <2>1 DEF Checksum
<1>4. Parse(jan) = Parsed(jan)
  <2>. HIDE DEF jan, c
  <2>. QED  BY <1>2, <1>3, ParseOfCode
<1>5. Parse(b).digits = jan
  BY ParseOfCode DEF Parsed
<1>. QED  BY <1>2, <1>4, <1>5

\* Ten divides no difference of two digits, taken once or three times, so that
\* a total in which one digit changes asks for another check digit.
LEMMA DigitsDiffer ==
  ASSUME NEW t \in Nat, NEW a \in Nat, NEW c \in Nat, a < 10, c < 10, a # c
  PROVE  /\ (10 - ((t + a) % 10)) % 10 # (10 - ((t + c) % 10)) % 10
         /\ (10 - ((t + 3 * a) % 10)) % 10 # (10 - ((t + 3 * c) % 10)) % 10
  OBVIOUS

\* Jan::parse refuses a valid code in which one digit was changed, whichever.
THEOREM SingleErrorsAreRefused ==
  ASSUME NEW s \in Code(13), Accepts(s),
         NEW i \in 1..13, NEW d \in Digit, d # s[i]
  PROVE  Parse([s EXCEPT ![i] = d]) = Refused("InvalidChecksum")
<1>. DEFINE t == [s EXCEPT ![i] = d]
<1>1. s \in Seq(Digit) /\ Len(s) = 13
  BY DEF Code
<1>2. t \in Code(13) /\ t[i] = d /\ \A j \in 1..13 : j # i => t[j] = s[j]
  <2>0. s \in Seq(Digit) /\ i \in 1..Len(s)
    BY <1>1
  <2>1. /\ t \in Seq(Digit)
        /\ Len(t) = Len(s)
        /\ \A j \in 1..Len(s) : t[j] = IF j = i THEN d ELSE s[j]
    BY <2>0, ExceptSeq
  <2>. HIDE DEF t
  <2>. QED  BY <1>1, <2>1 DEF Code
<1>3. Checksum(s) = s[13]
  BY ParseOfCode DEF Accepts, Parsed, Refused
<1>4. \A j \in 1..13 : s[j] \in Nat /\ s[j] < 10
  BY DigitsOfCode
<1>5. d \in Nat /\ d < 10
  BY DEF Digit
<1>6. Checksum(t) # t[13]
  <2>. HIDE DEF t
  <2>1. CASE i = 13
    BY <1>2, <1>3, <2>1 DEF Checksum, Total
  <2>2. CASE i \in {1, 3, 5, 7, 9, 11}
    <3>. DEFINE r == Total(s) - s[i]
    <3>1. r \in Nat /\ Total(s) = r + s[i] /\ Total(t) = r + d
      BY <1>2, <1>4, <1>5, <2>2 DEF Total
    <3>. HIDE DEF r
    <3>2. Checksum(t) # Checksum(s)
      BY <1>4, <1>5, <3>1, DigitsDiffer DEF Checksum
    <3>. QED  BY <1>2, <1>3, <2>2, <3>2
  <2>3. CASE i \in {2, 4, 6, 8, 10, 12}
    <3>. DEFINE r == Total(s) - 3 * s[i]
    <3>1. r \in Nat /\ Total(s) = r + 3 * s[i] /\ Total(t) = r + 3 * d
      BY <1>2, <1>4, <1>5, <2>3 DEF Total
    <3>. HIDE DEF r
    <3>2. Checksum(t) # Checksum(s)
      BY <1>4, <1>5, <3>1, DigitsDiffer DEF Checksum
    <3>. QED  BY <1>2, <1>3, <2>3, <3>2
  <2>. QED  BY <2>1, <2>2, <2>3
<1>. HIDE DEF t
<1>7. Parse(t) = Refused("InvalidChecksum")
  BY <1>2, <1>6, ParseOfCode
<1>. QED  BY <1>7 DEF t

-----------------------------------------------------------------------------
(* Importer: what it makes of a header line, for every table of columns and  *)
(* aliases; a table means the same in any order of its columns.              *)

\* A column that a header line has once is where the index map says.
LEMMA IndexOfColumn ==
  ASSUME NEW headers, NEW c \in Column, NEW i, Positions(headers, c) = {i}
  PROVE  /\ i \in DOMAIN headers /\ ColumnOf(headers[i]) = c
         /\ IndexOf(headers)[c] = i
<1>1. \A j \in DOMAIN headers : ColumnOf(headers[j]) = c <=> j = i
  BY DEF Positions
<1>2. i \in DOMAIN headers
  BY DEF Positions
<1>3. (CHOOSE j \in DOMAIN headers : ColumnOf(headers[j]) = c) = i
  BY <1>1, <1>2
<1>. QED  BY <1>1, <1>2, <1>3 DEF IndexOf

\* A header line that can be validated has every column once.
LEMMA EachColumnOnce ==
  ASSUME NEW headers, CanValidate(headers), NEW c \in Column
  PROVE  \E i \in DOMAIN headers : Positions(headers, c) = {i}
BY DEF CanValidate, Unresolved, Duplicated, Once

\* resolve_header_indexes unwraps eight positions and both row checks index
\* with them: they exist, are within the header line, and no two columns read
\* the same cell.
THEOREM IndexesAreSound ==
  ASSUME NEW headers, CanValidate(headers), NEW c \in Column, NEW d \in Column, c # d
  PROVE  /\ IndexOf(headers)[c] \in DOMAIN headers
         /\ ColumnOf(headers[IndexOf(headers)[c]]) = c
         /\ IndexOf(headers)[c] # IndexOf(headers)[d]
<1>1. PICK i \in DOMAIN headers : Positions(headers, c) = {i}
  BY EachColumnOnce
<1>2. PICK j \in DOMAIN headers : Positions(headers, d) = {j}
  BY EachColumnOnce
<1>3. IndexOf(headers)[c] = i /\ ColumnOf(headers[i]) = c
  BY <1>1, IndexOfColumn
<1>4. IndexOf(headers)[d] = j /\ ColumnOf(headers[j]) = d
  BY <1>2, IndexOfColumn
<1>. QED  BY <1>3, <1>4

\* The columns of a file may come in any order: a full row reads the same when
\* the header line and the row are permuted alike, bad cells and all
\* (validate_row_with_headers).
THEOREM ColumnOrderDoesNotMatter ==
  ASSUME NEW n \in Nat,
         NEW headers \in [1..n -> Headers], NEW values \in Seq(Cells), Len(values) = n,
         NEW perm \in [1..n -> 1..n],
         \A i \in 1..n : \E k \in 1..n : perm[k] = i,
         \A k, l \in 1..n : perm[k] = perm[l] => k = l,
         CanValidate(headers), NEW number
  PROVE  LET permuted(s) == [k \in 1..n |-> s[perm[k]]] IN
         ValidateRow(number, permuted(headers), permuted(values))
           = ValidateRow(number, headers, values)
<1>. DEFINE h == [k \in 1..n |-> headers[perm[k]]]
            v == [k \in 1..n |-> values[perm[k]]]
<1>1. ASSUME NEW c \in Column
      PROVE  \E k \in 1..n : /\ Positions(h, c) = {k}
                             /\ IndexOf(h)[c] = k
                             /\ IndexOf(headers)[c] = perm[k]
  <2>1. PICK i \in DOMAIN headers : Positions(headers, c) = {i}
    BY EachColumnOnce
  <2>2. i \in 1..n /\ IndexOf(headers)[c] = i
    BY <2>1, IndexOfColumn
  <2>3. PICK k \in 1..n : perm[k] = i
    BY <2>2
  <2>4. Positions(h, c) = {k}
    <3>1. ASSUME NEW l \in 1..n PROVE l \in Positions(h, c) <=> l = k
      <4>1. l \in Positions(h, c) <=> ColumnOf(headers[perm[l]]) = c
        BY DEF Positions
      <4>2. ColumnOf(headers[perm[l]]) = c <=> perm[l] \in Positions(headers, c)
        BY DEF Positions
      <4>3. perm[l] = i <=> l = k
        BY <2>3
      <4>. QED  BY <4>1, <4>2, <4>3, <2>1
    <3>2. Positions(h, c) \subseteq 1..n
      BY DEF Positions
    <3>. QED  BY <3>1, <3>2
  <2>5. IndexOf(h)[c] = k
    <3>. HIDE DEF h, v
    <3>1. c \in Column
      OBVIOUS
    <3>. QED  BY ONLY <2>4, <3>1, IndexOfColumn
  <2>. QED  BY <2>2, <2>3, <2>4, <2>5
<1>. HIDE DEF h
<1>2. CanValidate(h)
  <2>1. \A c \in Column : Once(h, c) /\ Positions(h, c) # {}
    <3>1. DOMAIN h = 1..n
      BY DEF h
    <3>2. ASSUME NEW c \in Column PROVE Once(h, c) /\ Positions(h, c) # {}
      <4>1. PICK k \in 1..n : Positions(h, c) = {k}
        BY <1>1
      <4>. QED  BY <3>1, <4>1 DEF Once
    <3>. QED  BY <3>2
  <2>. QED  BY <2>1 DEF CanValidate, Unresolved, Duplicated
<1>3. DOMAIN v = 1..n /\ Len(v) = n
  OBVIOUS
<1>4. \A c \in Column : /\ IndexOf(h)[c] \in 1..n
                        /\ IndexOf(headers)[c] \in 1..n
                        /\ v[IndexOf(h)[c]] = values[IndexOf(headers)[c]]
  <2>1. ASSUME NEW c \in Column
        PROVE  /\ IndexOf(h)[c] \in 1..n /\ IndexOf(headers)[c] \in 1..n
               /\ v[IndexOf(h)[c]] = values[IndexOf(headers)[c]]
    <3>1. PICK k \in 1..n : IndexOf(h)[c] = k /\ IndexOf(headers)[c] = perm[k]
      BY <1>1
    <3>2. v[k] = values[perm[k]] /\ perm[k] \in 1..n
      OBVIOUS
    <3>. HIDE DEF v
    <3>. QED  BY <3>1, <3>2
  <2>. HIDE DEF v
  <2>. QED  BY <2>1
<1>. HIDE DEF v
<1>5. ReadRow(number, IndexOf(h), v)
        = Row(number, [c \in Column |-> v[IndexOf(h)[c]]])
  BY <1>3, <1>4 DEF ReadRow
<1>6. ReadRow(number, IndexOf(headers), values)
        = Row(number, [c \in Column |-> values[IndexOf(headers)[c]]])
  BY <1>4 DEF ReadRow
<1>7. [c \in Column |-> v[IndexOf(h)[c]]]
        = [c \in Column |-> values[IndexOf(headers)[c]]]
  BY <1>4
<1>8. ReadRow(number, IndexOf(h), v) = ReadRow(number, IndexOf(headers), values)
  BY <1>5, <1>6, <1>7
<1>. QED  BY <1>2, <1>8 DEF ValidateRow, h, v

\* An import row is whole: its code has thirteen digits and checks, and its
\* quantity is positive, whatever cells the row was read from (validate_row).
THEOREM ReadRowsAreValid ==
  ASSUME NEW number, NEW cells, "row" \in DOMAIN Row(number, cells),
         {"jan", "qty"} \subseteq Column,
         JanText[cells["jan"]] \in Code(12) \cup Code(13),
         Quantity[cells["qty"]] \in Nat \cup {NoValue}
  PROVE  LET row == Row(number, cells).row IN
         /\ row["jan"] \in Code(13) /\ Checksum(row["jan"]) = row["jan"][13]
         /\ row["qty"] \in Nat \ {0}
<1>. DEFINE bad == {c \in Column : ~CellOK(c, cells[c])}
            row == Row(number, cells).row
            text == JanText[cells["jan"]]
<1>1. bad = {} /\ row = [c \in Column |-> ValueOf(c, cells[c])]
  BY DEF Row
<1>2. CellOK("jan", cells["jan"]) /\ CellOK("qty", cells["qty"])
  BY <1>1
<1>3. row["jan"] = Parse(text).digits /\ row["qty"] = Quantity[cells["qty"]]
  BY <1>1 DEF ValueOf
<1>4. row["qty"] \in Nat \ {0}
  BY <1>2, <1>3 DEF CellOK
<1>5. Accepts(text)
  BY <1>2 DEF CellOK
<1>. HIDE DEF text
<1>6. CASE text \in Code(12)
  <2>1. Parse(text).digits \in Code(13)
    BY <1>6, CompletionIsStable
  <2>2. Parse(Parse(text).digits) = Parsed(Parse(text).digits)
    BY <1>6, CompletionIsStable
  <2>3. Checksum(Parse(text).digits) = Parse(text).digits[13]
    BY <2>1, <2>2, ParseOfCode DEF Parsed, Refused
  <2>. QED  BY <2>1, <2>3, <1>3, <1>4
<1>7. CASE text \in Code(13)
  <2>1. Checksum(text) = text[13] /\ Parse(text).digits = text
    BY <1>7, <1>5, ParseOfCode DEF Parsed, Refused, Accepts
  <2>. QED  BY <2>1, <1>3, <1>4, <1>7
<1>. QED  BY <1>6, <1>7 DEF text

-----------------------------------------------------------------------------
(* LegacySeed: the two validations of a seed, and the seed with the review and*)
(* the print gate that come after it.                                        *)

\* The subject of a seed is checked by code of its own, and is the subject the
\* gate makes of a request with the same fields.
LEMMA SubjectsAgree ==
  ASSUME NEW row
  PROVE  SeedSubject(row) = Subject(row)
BY DEF SeedSubject, Subject

\* What a row becomes.
LEMMA RecordOfRow ==
  ASSUME NEW row
  PROVE  /\ SeedRecord(row).dispatch.job = SeedJob(row)
         /\ SeedRecord(row).dispatch.lineage = SeedLineage(row)
         /\ SeedRecord(row).dispatch.mode = "proof"
         /\ SeedRecord(row).dispatch.content =
              [version |-> Trimmed[row.version], subject |-> Subject(row)]
         /\ SeedRecord(row).proof.job = SeedJob(row)
         /\ SeedRecord(row).proof.lineage = SeedLineage(row)
         /\ SeedRecord(row).proof.status = "pending"
  BY SubjectsAgree DEF SeedRecord, PendingProof

\* In a batch that passes, no two rows share a job id or a lineage.
LEMMA IdsAreDistinct ==
  ASSUME NEW T, NEW rows \in Seq(T), NEW known, BatchOK(rows, known),
         NEW i \in DOMAIN rows, NEW j \in DOMAIN rows, i # j
  PROVE  SeedJob(rows[i]) # SeedJob(rows[j]) /\ SeedLineage(rows[i]) # SeedLineage(rows[j])
<1>1. DOMAIN rows \subseteq Nat /\ \A n \in DOMAIN rows : n \in 1..Len(rows)
  OBVIOUS
<1>2. ASSUME NEW m \in DOMAIN rows, NEW n \in DOMAIN rows, m < n
      PROVE  SeedJob(rows[m]) # SeedJob(rows[n]) /\ SeedLineage(rows[m]) # SeedLineage(rows[n])
  <2>1. m \in 1..n - 1
    BY <1>1, <1>2
  <2>2. RowOK(rows, m, known) /\ RowOK(rows, n, known)
    BY DEF BatchOK
  <2>3. SeedJob(rows[m]) # SeedJob(rows[n])
    BY <2>1, <2>2 DEF RowOK, JobClaimed
  <2>4. SeedLineage(rows[m]) # SeedLineage(rows[n])
    BY <2>1, <2>2 DEF RowOK, LineageClaimed
  <2> QED BY <2>3, <2>4
<1>3. i < j \/ j < i
  BY <1>1
<1> QED BY <1>2, <1>3

\* The shell and the store check a batch with code of their own.  What the
\* shell finds in order the store takes, as long as the ledgers are those of
\* the snapshot: an operator who was shown "Ready to seed" is only refused for
\* what other calls have done in between (validate_legacy_proof_seed_rows,
\* validate_legacy_seed_records).
THEOREM PreflightAgreesWithStore ==
  ASSUME NEW T, NEW rows \in Seq(T), NEW dispatches, NEW proofs,
         BatchOK(rows, KnownIn(dispatches, proofs))
  PROVE  Seedable(dispatches, proofs, SeedRecords(rows))
<1> DEFINE known == KnownIn(dispatches, proofs)
<1>1. ASSUME NEW i \in DOMAIN rows, NEW old \in known
      PROVE  /\ SeedRecord(rows[i]).proof.job # old.job
             /\ SeedRecord(rows[i]).proof.lineage # old.lineage
  <2>1. RowOK(rows, i, known)
    BY DEF BatchOK
  <2> QED BY <2>1, RecordOfRow DEF RowOK, IdsNew
<1>2. ASSUME NEW i \in DOMAIN rows, NEW j \in DOMAIN rows,
             SeedRecord(rows[i]) # SeedRecord(rows[j])
      PROVE  /\ SeedRecord(rows[i]).proof.job # SeedRecord(rows[j]).proof.job
             /\ SeedRecord(rows[i]).proof.lineage # SeedRecord(rows[j]).proof.lineage
  <2>1. i # j
    BY <1>2
  <2>2. SeedJob(rows[i]) # SeedJob(rows[j]) /\ SeedLineage(rows[i]) # SeedLineage(rows[j])
    BY <2>1, IdsAreDistinct
  <2>3. /\ SeedRecord(rows[i]).proof.job = SeedJob(rows[i])
        /\ SeedRecord(rows[i]).proof.lineage = SeedLineage(rows[i])
        /\ SeedRecord(rows[j]).proof.job = SeedJob(rows[j])
        /\ SeedRecord(rows[j]).proof.lineage = SeedLineage(rows[j])
    BY RecordOfRow
  <2> QED BY <2>2, <2>3
<1>3. \A rec \in SeedRecords(rows) : \E i \in DOMAIN rows : rec = SeedRecord(rows[i])
  BY DEF SeedRecords, Rows
<1>4. ASSUME NEW rec \in SeedRecords(rows), NEW old \in known
      PROVE  rec.proof.job # old.job /\ rec.proof.lineage # old.lineage
  BY <1>1, <1>3
<1>5. ASSUME NEW rec \in SeedRecords(rows), NEW other \in SeedRecords(rows), rec # other
      PROVE  rec.proof.job # other.proof.job /\ rec.proof.lineage # other.proof.lineage
  <2>1. PICK i \in DOMAIN rows : rec = SeedRecord(rows[i])
    BY <1>3
  <2>2. PICK j \in DOMAIN rows : other = SeedRecord(rows[j])
    BY <1>3
  <2> QED BY <1>2, <1>5, <2>1, <2>2
<1> QED BY <1>4, <1>5 DEF Seedable, KnownIn

\* A seeded proof can do what a seed is for: once it is approved, the ledgers
\* let a print of the same fields through, whatever else is in them; the only
\* proof dispatch of its job id is its own.  What the gate still asks of the
\* print, and the seed does not, is that the file begins as a PDF file
\* (seed_legacy_proofs, approve_proof, ensure_approved_proof_matches).
THEOREM SeedsArePrintable ==
  ASSUME NEW T, NEW rows \in Seq(T), NEW dispatches, NEW proofs, NEW at,
         BatchOK(rows, KnownIn(dispatches, proofs)), NEW i \in DOMAIN rows
  PROVE  LET records == SeedRecords(rows)
             seeded  == SeededProofs(proofs, records)
             job     == SeedJob(rows[i])
         IN  /\ Reviewable(seeded, job)
             /\ ApprovedMatch(SeededDispatches(dispatches, records),
                              Reviewed(seeded, job, "approved", at), job,
                              [version |-> Trimmed[rows[i].version],
                               subject |-> Subject(rows[i])])
<1> DEFINE known == KnownIn(dispatches, proofs)
           records == SeedRecords(rows)
           seeded == SeededProofs(proofs, records)
           after == SeededDispatches(dispatches, records)
           job == SeedJob(rows[i])
           content == [version |-> Trimmed[rows[i].version], subject |-> Subject(rows[i])]
           d == SeedRecord(rows[i]).dispatch
           p == SeedRecord(rows[i]).proof
           approved == Decide(p, "approved", at)
<1>1. d.job = job /\ d.lineage = SeedLineage(rows[i]) /\ d.mode = "proof" /\ d.content = content
  BY RecordOfRow
<1>2. p.job = job /\ p.lineage = SeedLineage(rows[i]) /\ p.status = "pending"
  BY RecordOfRow
<1>3. SeedRecord(rows[i]) \in records
  BY DEF SeedRecords, Rows
<1>4. d \in after /\ p \in seeded
  BY <1>3 DEF SeededDispatches, SeededProofs
<1>5. Reviewable(seeded, job)
  BY <1>2, <1>4 DEF Reviewable
<1>6. approved \in ApprovedProofs(Reviewed(seeded, job, "approved", at), job)
      /\ approved.lineage = d.lineage
  <2>1. approved \in Reviewed(seeded, job, "approved", at)
    BY <1>2, <1>4 DEF Reviewed
  <2>2. approved.job = job /\ approved.status = "approved" /\ approved.lineage = p.lineage
    BY <1>2 DEF Decide, SeedRecord, PendingProof
  <2> QED BY <1>1, <1>2, <2>1, <2>2 DEF ApprovedProofs
<1>7. ASSUME NEW e \in after, e.mode = "proof", e.job = job
      PROVE  e = d
  <2>1. CASE e \in dispatches
    <3>1. e \in known
      BY <1>7, <2>1 DEF KnownIn
    <3>2. RowOK(rows, i, known)
      BY DEF BatchOK
    <3> QED BY <1>7, <3>1, <3>2 DEF RowOK, IdsNew
  <2>2. CASE e \notin dispatches
    <3>1. PICK j \in DOMAIN rows : e = SeedRecord(rows[j]).dispatch
      BY <2>2 DEF SeededDispatches, SeedRecords, Rows
    <3>2. SeedJob(rows[j]) = job
      BY <1>7, <3>1, RecordOfRow
    <3>3. j = i
      BY <3>2, IdsAreDistinct
    <3> QED BY <3>1, <3>3
  <2> QED BY <2>1, <2>2
<1>8. {e \in after : e.mode = "proof" /\ e.job = job} = {d}
  BY <1>1, <1>4, <1>7
<1>9. ~Mismatched(d, content)
  BY <1>1 DEF Mismatched
<1>10. ApprovedMatch(after, Reviewed(seeded, job, "approved", at), job, content)
  BY <1>4, <1>6, <1>8, <1>9 DEF ApprovedMatch
<1> QED BY <1>5, <1>10

-----------------------------------------------------------------------------
(* Renderer: an operator approves a PDF file and the spooler prints an SVG   *)
(* image, made by code of its own.                                           *)

\* A template whose texts lie on the page and whose border, if it is seen at
\* all, has a width.
WellFormed(template) ==
  /\ template.width \in Nat /\ template.height \in Nat
  /\ template.border.width \in Nat \ {0} \/ ~HasBorder(template)
  /\ \A i \in DOMAIN template.fields :
       /\ template.fields[i].x \in Nat
       /\ template.fields[i].size \in Nat
       /\ template.fields[i].y \in 0..template.height

\* A length in points is the length in millimetres to half a thousandth of a
\* point: 72 points, or 25.4 millimetres, are an inch.
Near(points, length) ==
  /\ points \in Nat
  /\ 254 * points <= 720 * length + 127
  /\ 720 * length <= 254 * points + 127

LEMMA PointsAreNear ==
  ASSUME NEW length \in Nat
  PROVE  Near(Points(length), length)
<1> DEFINE n == 720 * length + 127
<1>1. n \in Nat
  OBVIOUS
<1>2. n \div 254 \in Nat /\ 254 * (n \div 254) <= n /\ n < 254 * (n \div 254) + 254
  BY <1>1
<1> QED BY <1>2 DEF Points, Near

LEMMA ColorsAgree ==
  ASSUME NEW color \in HexColor
  PROVE  Rgb(color) = CssColor(color)
<1>1. color \in Seq(0..15) /\ Len(color) \in {3, 6}
      /\ \A i \in 1..Len(color) : color[i] \in 0..15
  BY DEF HexColor
<1>2. CASE Len(color) = 3
  <2>1. color[1] \in 0..15 /\ color[2] \in 0..15 /\ color[3] \in 0..15
    BY <1>1, <1>2
  <2>2. Rgb(color) = <<16 * color[1] + color[1], 16 * color[2] + color[2],
                       16 * color[3] + color[3]>>
    BY <1>2 DEF Rgb
  <2>3. CssColor(color) = [i \in 1..3 |-> 17 * color[i]]
    BY <1>2 DEF CssColor
  <2> QED BY <2>1, <2>2, <2>3
<1>3. CASE Len(color) = 6
  <2>1. \A i \in 1..6 : color[i] \in 0..15
    BY <1>1, <1>3
  <2>2. Rgb(color) = <<16 * color[1] + color[2], 16 * color[3] + color[4],
                       16 * color[5] + color[6]>>
    BY <1>3 DEF Rgb
  <2>3. CssColor(color) = [i \in 1..3 |-> 16 * color[2 * i - 1] + color[2 * i]]
    BY <1>3 DEF CssColor
  <2>4. CssColor(color)[1] = 16 * color[1] + color[2]
        /\ CssColor(color)[2] = 16 * color[3] + color[4]
        /\ CssColor(color)[3] = 16 * color[5] + color[6]
    BY <2>3
  <2> QED BY <2>2, <2>3, <2>4
<1> QED BY <1>1, <1>2, <1>3

LEMMA SanitizedIsColor ==
  ASSUME NEW color
  PROVE  Sanitized(color, Black) \in HexColor /\ Sanitized(color, White) \in HexColor
<1>1. Black \in HexColor /\ White \in HexColor
  BY DEF Black, White, HexColor
<1> QED BY <1>1 DEF Sanitized

\* What was approved is what is printed: of a well-formed template, the PDF has
\* the texts of the SVG, at their places and in their sizes to half a
\* thousandth of a point although the one counts y from the bottom, with their
\* colours, the background and the border; a text differs at most where the font
\* does not have the character (render_svg_with_template, render_pdf_content).
THEOREM SameLabel ==
  ASSUME NEW request, NEW template, WellFormed(template)
  PROVE  LET svg == Svg(request, template)
             pdf == Pdf(request, template)
         IN  /\ Near(pdf.width, svg.width) /\ Near(pdf.height, svg.height)
             /\ pdf.fill = CssColor(svg.fill)
             /\ IF HasBorder(template)
                THEN /\ Near(pdf.frame.width, svg.strokeWidth)
                     /\ pdf.frame.width # 0 /\ svg.strokeWidth # 0
                     /\ pdf.frame.color = CssColor(svg.stroke)
                ELSE pdf.frame = Absent /\ svg.stroke = Absent
             /\ DOMAIN pdf.texts = DOMAIN svg.texts
             /\ \A i \in DOMAIN svg.texts :
                  LET s == svg.texts[i]
                      p == pdf.texts[i]
                  IN  /\ Near(p.x, s.x) /\ Near(p.y, svg.height - s.y)
                      /\ Near(p.size, s.size)
                      /\ p.color = CssColor(s.color)
                      /\ DOMAIN p.text = DOMAIN s.text
                      /\ \A k \in DOMAIN s.text :
                           s.text[k] \in Plain => p.text[k] = s.text[k]
<1> DEFINE svg == Svg(request, template)
           pdf == Pdf(request, template)
<1>1. Near(pdf.width, svg.width) /\ Near(pdf.height, svg.height)
  BY PointsAreNear DEF Svg, Pdf, WellFormed
<1>2. pdf.fill = CssColor(svg.fill)
  BY ColorsAgree, SanitizedIsColor DEF Svg, Pdf
<1>3. ASSUME HasBorder(template)
      PROVE  /\ Near(pdf.frame.width, svg.strokeWidth)
             /\ pdf.frame.width # 0 /\ svg.strokeWidth # 0
             /\ pdf.frame.color = CssColor(svg.stroke)
  <2> DEFINE w == BorderWidth(template)
  <2>1. pdf.frame = [color |-> Rgb(BorderColor(template)), width |-> Points(w)]
    BY <1>3 DEF Pdf
  <2>2. svg.strokeWidth = w /\ svg.stroke = BorderColor(template)
    BY <1>3 DEF Svg
  <2>3. w \in Nat \ {0}
    BY <1>3 DEF WellFormed, BorderWidth
  <2>4. Near(Points(w), w)
    BY <2>3, PointsAreNear
  <2>5. Points(w) # 0
    BY <2>3, <2>4 DEF Near
  <2>6. BorderColor(template) \in HexColor
    BY <1>3, SanitizedIsColor DEF BorderColor
  <2> QED BY <2>1, <2>2, <2>3, <2>4, <2>5, <2>6, ColorsAgree
<1>4. ~HasBorder(template) => pdf.frame = Absent /\ svg.stroke = Absent
  BY DEF Svg, Pdf
<1>5. DOMAIN pdf.texts = DOMAIN template.fields /\ DOMAIN svg.texts = DOMAIN template.fields
  BY DEF Svg, Pdf
<1>6. ASSUME NEW i \in DOMAIN template.fields
      PROVE  LET s == svg.texts[i]
                 p == pdf.texts[i]
             IN  /\ Near(p.x, s.x) /\ Near(p.y, svg.height - s.y)
                 /\ Near(p.size, s.size)
                 /\ p.color = CssColor(s.color)
                 /\ DOMAIN p.text = DOMAIN s.text
                 /\ \A k \in DOMAIN s.text :
                      s.text[k] \in Plain => p.text[k] = s.text[k]
  <2> DEFINE f == template.fields[i]
             s == svg.texts[i]
             p == pdf.texts[i]
  <2>1. s = [x |-> f.x, y |-> f.y, size |-> f.size, color |-> Sanitized(f.color, Black),
             text |-> FieldText(f.text, request)]
    BY DEF Svg
  <2>2. p = [x |-> Points(f.x), y |-> Points(template.height - f.y),
             size |-> Points(f.size), color |-> Rgb(Sanitized(f.color, Black)),
             text |-> PdfShows(FieldText(f.text, request))]
    BY DEF Pdf
  <2>3. f.x \in Nat /\ f.size \in Nat /\ template.height - f.y \in Nat
    BY DEF WellFormed
  <2>4. Near(p.x, s.x) /\ Near(p.size, s.size)
    BY <2>1, <2>2, <2>3, PointsAreNear
  <2>5. svg.height = template.height
    BY DEF Svg
  <2>6. Near(p.y, svg.height - s.y)
    BY <2>1, <2>2, <2>3, <2>5, PointsAreNear
  <2>7. p.color = CssColor(s.color)
    BY <2>1, <2>2, ColorsAgree, SanitizedIsColor
  <2>8. /\ DOMAIN p.text = DOMAIN s.text
        /\ \A k \in DOMAIN s.text : s.text[k] \in Plain => p.text[k] = s.text[k]
    BY <2>1, <2>2 DEF PdfShows
  <2> QED BY <2>4, <2>6, <2>7, <2>8
<1> QED BY <1>1, <1>2, <1>3, <1>4, <1>5, <1>6

\* The preview of a template shows what the spooler prints of it: an operator
\* who previews with the data of a request sees the image of that request, if
\* the source has the version it is dispatched under (preview_template_draft,
\* build_artifact).
THEOREM PreviewIsWhatPrints ==
  ASSUME NEW r, NEW template, AgentReads(r), AgentVersion(r) = template.version
  PROVE  /\ SampleOK(r)
         /\ Preview(r, template).svg = Svg(Rendered(r), template)
         /\ Artifact(Rendered(r), template, "image/svg+xml") = Preview(r, template).svg
<1>1. SampleOK(r)
  BY DEF AgentReads, SampleOK, RequiredFields
<1>2. Preview(r, template).svg = Svg(Rendered(r), template)
  BY <1>1 DEF Preview, Rendered
<1>3. Artifact(Rendered(r), template, "image/svg+xml") = Svg(Rendered(r), template)
  BY DEF Artifact
<1> QED BY <1>1, <1>2, <1>3

=============================================================================
