---------------------------- MODULE LedgerProofs ----------------------------
(* Lemmas about the operators of Ledger, what they preserve and return, and  *)
(* about the times its rows are ranked by.                                   *)
EXTENDS Ledger, Timestamps, TLAPS

\* A decided record is a record (ProofRecord::decide).
LEMMA DecideType ==
  ASSUME NEW row \in ProofRow, NEW status \in Statuses, NEW at \in Times
  PROVE  Decide(row, status, at) \in ProofRow
  BY DEF Decide, ProofRow

\* Superseding keeps a record a record, and its job.
LEMMA SupersededByType ==
  ASSUME NEW row \in ProofRow, NEW new \in ProofRow
  PROVE  /\ SupersededBy(row, new) \in ProofRow
         /\ SupersededBy(row, new).job = row.job
<1>1. new.at \in Times /\ "superseded" \in Statuses
  BY DEF ProofRow, Statuses
<1>2. Decide(row, "superseded", new.at) \in ProofRow
  BY <1>1, DecideType
<1>3. Decide(row, "superseded", new.at).job = row.job
  BY DEF Decide, ProofRow
<1>4. QED
  BY <1>2, <1>3 DEF SupersededBy

\* upsert_pending_proof_record returns a proof ledger.
LEMMA UpsertType ==
  ASSUME NEW proofs \in SUBSET ProofRow, NEW new \in ProofRow
  PROVE  Upsert(proofs, new) \in SUBSET ProofRow
  BY SupersededByType DEF Upsert

\* The new record is in the ledger, and no job has left it.
LEMMA UpsertJobs ==
  ASSUME NEW proofs \in SUBSET ProofRow, NEW new \in ProofRow
  PROVE  /\ new \in Upsert(proofs, new)
         /\ \A p \in proofs : p.job \in JobsOf(Upsert(proofs, new))
<1>1. new \in Upsert(proofs, new)
  BY DEF Upsert
<1>2. ASSUME NEW p \in proofs
      PROVE  p.job \in JobsOf(Upsert(proofs, new))
  <2>1. CASE p.job = new.job
    BY <1>1, <2>1 DEF JobsOf
  <2>2. CASE p.job # new.job
    <3>1. SupersededBy(p, new) \in Upsert(proofs, new)
      BY <2>2 DEF Upsert
    <3>2. SupersededBy(p, new).job = p.job
      BY SupersededByType
    <3>3. QED
      BY <3>1, <3>2 DEF JobsOf
  <2>3. QED
    BY <2>1, <2>2
<1>3. QED
  BY <1>1, <1>2

\* Superseding twice is superseding once.
LEMMA SupersededByTwice ==
  ASSUME NEW row \in ProofRow, NEW new \in ProofRow
  PROVE  SupersededBy(SupersededBy(row, new), new) = SupersededBy(row, new)
<1>1. CASE row.lineage = new.lineage /\ row.status \in Live
  <2>1. SupersededBy(row, new) = Decide(row, "superseded", new.at)
    BY <1>1 DEF SupersededBy
  <2>2. Decide(row, "superseded", new.at).status = "superseded"
    BY DEF Decide, ProofRow
  <2>3. "superseded" \notin Live
    BY DEF Live
  <2>4. QED
    BY <2>1, <2>2, <2>3 DEF SupersededBy
<1>2. CASE ~(row.lineage = new.lineage /\ row.status \in Live)
  BY <1>2 DEF SupersededBy
<1>3. QED
  BY <1>1, <1>2

\* Replaying a proof dispatch that is in the ledger already changes nothing:
\* apply_proof_dispatch_transaction may be repeated after any crash.
THEOREM UpsertIdempotent ==
  ASSUME NEW proofs \in SUBSET ProofRow, NEW new \in ProofRow
  PROVE  Upsert(Upsert(proofs, new), new) = Upsert(proofs, new)
<1> DEFINE Others == {p \in proofs : p.job # new.job}
           Once   == {SupersededBy(p, new) : p \in Others}
<1>1. Upsert(proofs, new) = Once \cup {new}
  BY DEF Upsert
<1>2. \A p \in Once : p.job # new.job
  BY SupersededByType
<1>3. {p \in Upsert(proofs, new) : p.job # new.job} = Once
  BY <1>1, <1>2
<1>4. {SupersededBy(p, new) : p \in Once} = Once
  <2>1. \A p \in Once : SupersededBy(p, new) = p
    BY SupersededByTwice
  <2>2. QED
    BY <2>1
<1>5. Upsert(Upsert(proofs, new), new) = {SupersededBy(p, new) : p \in Once} \cup {new}
  BY <1>3 DEF Upsert
<1>6. QED
  BY <1>1, <1>4, <1>5

\* review_proof returns a proof ledger with the same jobs.
LEMMA ReviewedType ==
  ASSUME NEW proofs \in SUBSET ProofRow, NEW job \in Jobs,
         NEW status \in Statuses, NEW at \in Times
  PROVE  /\ Reviewed(proofs, job, status, at) \in SUBSET ProofRow
         /\ \A p \in proofs : p.job \in JobsOf(Reviewed(proofs, job, status, at))
<1>1. Reviewed(proofs, job, status, at) \in SUBSET ProofRow
  BY DecideType DEF Reviewed
<1>2. ASSUME NEW p \in proofs
      PROVE  p.job \in JobsOf(Reviewed(proofs, job, status, at))
  <2> DEFINE q == IF p.job = job THEN Decide(p, status, at) ELSE p
  <2>1. q \in Reviewed(proofs, job, status, at)
    BY DEF Reviewed
  <2>2. q.job = p.job
    BY DEF Decide, ProofRow
  <2>3. QED
    BY <2>1, <2>2 DEF JobsOf
<1>3. QED
  BY <1>1, <1>2

\* preserve_required_dispatches returns dispatches of the ledger; they hold the
\* ones it was given and those of the kept proofs, and are closed under
\* parents and lineage roots.
THEOREM WithRequiredCloses ==
  ASSUME NEW dispatches, NEW proofs, NEW kept \in SUBSET dispatches
  PROVE  LET result == WithRequired(dispatches, proofs, kept) IN
         /\ result \in SUBSET dispatches
         /\ kept \cup ProofDispatches(dispatches, proofs) \subseteq result
         /\ ClosedUnderLineage(result, dispatches)
<1> DEFINE result == WithRequired(dispatches, proofs, kept)
           seeds  == kept \cup ProofDispatches(dispatches, proofs)
<1>1. result \in SUBSET dispatches
  BY DEF WithRequired
<1>2. seeds \subseteq result
  BY DEF WithRequired, ProofDispatches
<1>3. ClosedUnderLineage(result, dispatches)
  <2>1. SUFFICES ASSUME NEW k \in result, NEW d \in dispatches,
                        d.job = k.parent \/ (d.job = k.lineage /\ k.lineage # k.job),
                        NEW closed \in SUBSET dispatches,
                        seeds \subseteq closed, ClosedUnderLineage(closed, dispatches)
                 PROVE  d \in closed
    BY DEF ClosedUnderLineage, WithRequired
  <2>2. k \in closed
    BY <2>1 DEF WithRequired
  <2>3. QED
    BY <2>1, <2>2 DEF ClosedUnderLineage
<1>4. QED
  BY <1>1, <1>2, <1>3

\* The upsert keeps one record for each proof job.
LEMMA UpsertUnique ==
  ASSUME NEW proofs \in SUBSET ProofRow, NEW new \in ProofRow, OneRowPerJob(proofs)
  PROVE  OneRowPerJob(Upsert(proofs, new))
<1>1. ASSUME NEW p \in proofs, NEW q \in proofs,
             SupersededBy(p, new).job = SupersededBy(q, new).job
      PROVE  p = q
  BY <1>1, SupersededByType DEF OneRowPerJob
<1>2. ASSUME NEW p \in proofs, p.job # new.job
      PROVE  SupersededBy(p, new).job # new.job
  BY <1>2, SupersededByType
<1>3. SUFFICES ASSUME NEW r \in Upsert(proofs, new), NEW s \in Upsert(proofs, new),
                      r.job = s.job
               PROVE  r = s
  BY DEF OneRowPerJob
<1>4. \A t \in Upsert(proofs, new) :
        t = new \/ \E p \in proofs : p.job # new.job /\ t = SupersededBy(p, new)
  BY DEF Upsert
<1>5. QED
  BY <1>1, <1>2, <1>3, <1>4

\* Its records are the new one and records of the ledger with another status.
LEMMA UpsertRows ==
  ASSUME NEW proofs \in SUBSET ProofRow, NEW new \in ProofRow
  PROVE  \A q \in Upsert(proofs, new) :
           \/ q = new
           \/ \E p \in proofs : q.job = p.job /\ q.lineage = p.lineage
<1>1. ASSUME NEW p \in proofs
      PROVE  /\ SupersededBy(p, new).job = p.job
             /\ SupersededBy(p, new).lineage = p.lineage
  BY DEF SupersededBy, Decide, ProofRow
<1>2. QED
  BY <1>1 DEF Upsert

\* The new record is the only live one of its lineage.
LEMMA UpsertLive ==
  ASSUME NEW proofs \in SUBSET ProofRow, NEW new \in ProofRow, new.status \in Live
  PROVE  {q \in Upsert(proofs, new) : q.lineage = new.lineage /\ q.status \in Live} = {new}
<1>1. ASSUME NEW p \in proofs
      PROVE  LET q == SupersededBy(p, new) IN ~(q.lineage = new.lineage /\ q.status \in Live)
  <2>1. "superseded" \notin Live
    BY DEF Live
  <2>2. Decide(p, "superseded", new.at).status = "superseded"
    BY DEF Decide, ProofRow
  <2>3. QED
    BY <2>1, <2>2 DEF SupersededBy
<1>2. \A q \in Upsert(proofs, new) : q = new \/ \E p \in proofs : q = SupersededBy(p, new)
  BY DEF Upsert
<1>3. new \in Upsert(proofs, new)
  BY DEF Upsert
<1>4. QED
  BY <1>1, <1>2, <1>3

\* A review keeps one record for each proof job, and each record's lineage.
LEMMA ReviewedUnique ==
  ASSUME NEW proofs \in SUBSET ProofRow, NEW job, NEW status, NEW at, OneRowPerJob(proofs)
  PROVE  /\ OneRowPerJob(Reviewed(proofs, job, status, at))
         /\ \A q \in Reviewed(proofs, job, status, at) :
              \E p \in proofs : q.job = p.job /\ q.lineage = p.lineage
<1> DEFINE After(p) == IF p.job = job THEN Decide(p, status, at) ELSE p
<1>1. ASSUME NEW p \in proofs
      PROVE  After(p).job = p.job /\ After(p).lineage = p.lineage
  BY DEF Decide, ProofRow
<1>2. \A q \in Reviewed(proofs, job, status, at) : \E p \in proofs : q = After(p)
  BY DEF Reviewed
<1> HIDE DEF After
<1>3. QED
  BY <1>1, <1>2 DEF OneRowPerJob

\* A review that finds its proof leaves it decided.
LEMMA ReviewedDecides ==
  ASSUME NEW proofs \in SUBSET ProofRow, NEW job, NEW status, NEW at,
         Reviewable(proofs, job)
  PROVE  \E q \in Reviewed(proofs, job, status, at) :
           q.job = job /\ q.status = status /\ q.decided = at
<1>1. PICK p \in proofs : p.job = job
  BY DEF Reviewable
<1>2. Decide(p, status, at) \in Reviewed(proofs, job, status, at)
  BY <1>1 DEF Reviewed
<1>3. /\ Decide(p, status, at).job = job /\ Decide(p, status, at).status = status
      /\ Decide(p, status, at).decided = at
  BY <1>1 DEF Decide, ProofRow
<1>4. QED
  BY <1>2, <1>3

-----------------------------------------------------------------------------
(* Timestamps: the calendar behind the ranking of rows, for every timestamp. *)

\* The days up to March 1st of a year, counted from year 0.
DaysToMarch(y) == 365 * y + y \div 4 - y \div 100 + y \div 400

\* The year that a date belongs to when years begin in March.
MarchYear(year, month) == IF month <= 2 THEN year - 1 ELSE year

\* The days up to March 1st of the year yoe of an era.
DaysToYearOfEra(era, yoe) == era * 146097 + (yoe * 365 + yoe \div 4 - yoe \div 100)

\* A year is the one of its number in its era.
IsYearOfEra(y, era, yoe) == y \in Int /\ era \in Int /\ yoe \in 0..399 /\ y = 400 * era + yoe

\* Eras only keep the numbers small.
LEMMA ErasDoNotCount ==
  ASSUME NEW y, NEW era, NEW yoe, IsYearOfEra(y, era, yoe)
  PROVE  DaysToYearOfEra(era, yoe) = DaysToMarch(y)
<1>0. y \in Int /\ era \in Int /\ yoe \in 0..399 /\ y = 400 * era + yoe
  BY DEF IsYearOfEra
<1>1. y \div 4 = 100 * era + yoe \div 4
  BY <1>0, SMT
<1>2. y \div 100 = 4 * era + yoe \div 100
  BY <1>0, SMT
<1>3. y \div 400 = era
  BY <1>0, SMT
<1>4. yoe \div 4 \in Int /\ yoe \div 100 \in Int
  BY <1>0, SMT
<1>. QED  BY <1>0, <1>1, <1>2, <1>3, <1>4, SMT DEF DaysToMarch, DaysToYearOfEra

\* Where the days since 1970 begin.
Origin == 719469

LEMMA OriginIsInt == Origin \in Int
  BY SMT DEF Origin

LEMMA DaysInClosedForm ==
  ASSUME NEW year \in Int, NEW month \in 1..12, NEW day \in Int
  PROVE  DaysFromCivil(year, month, day) + Origin
           = DaysToMarch(MarchYear(year, month)) + DaysBeforeMonth(month) + day
<1>. DEFINE y == MarchYear(year, month)
            era == y \div 400
            yoe == y - era * 400
<1>1. y \in Int
  BY SMT DEF MarchYear
<1>2. DaysToYearOfEra(era, yoe) = DaysToMarch(y)
  <2>. HIDE DEF y
  <2>1. IsYearOfEra(y, era, yoe)
    BY <1>1, SMT DEF IsYearOfEra
  <2>. HIDE DEF era, yoe
  <2>. QED  BY <2>1, ErasDoNotCount, Zenon
<1>3. DaysBeforeMonth(month) \in Int
  BY SMT DEF DaysBeforeMonth
<1>4. DaysFromCivil(year, month, day) + Origin
        = DaysToYearOfEra(era, yoe) + DaysBeforeMonth(month) + day
  BY <1>3, SMT DEF DaysFromCivil, MarchYear, Origin, DaysToYearOfEra
<1>. HIDE DEF y, era, yoe
<1>. QED  BY <1>2, <1>4, SMT DEF y

\* A year from March to March is as long as the February at its end makes it.
LengthOfYear(year) == 365 + (IF IsLeapYear(year) THEN 1 ELSE 0)

LEMMA YearLength ==
  ASSUME NEW y \in Int
  PROVE  DaysToMarch(y + 1) = DaysToMarch(y) + LengthOfYear(y + 1)
  BY SMTT(60) DEF DaysToMarch, IsLeapYear, LengthOfYear

\* Later years begin later, by at least a year.
LEMMA YearsAreOrdered ==
  ASSUME NEW x \in Int, NEW y \in Int, x < y
  PROVE  DaysToMarch(x + 1) <= DaysToMarch(y)
  BY SMTT(60) DEF DaysToMarch

\* The months, counted from March.
MarchMonth(month) == IF month > 2 THEN month - 3 ELSE month + 9

\* A month ends before the next one begins, and the last one with the year.
LEMMA MonthsAreOrdered ==
  ASSUME NEW year \in Int, NEW month \in 1..12, NEW day \in 1..DaysInMonth(year, month)
  PROVE  /\ day \in Nat /\ day > 0
         /\ DaysBeforeMonth(month) \in Nat
         /\ LengthOfYear(MarchYear(year, month) + 1) \in Int
         /\ DaysBeforeMonth(month) + day <= LengthOfYear(MarchYear(year, month) + 1)
         /\ \A other \in 1..12 :
              MarchMonth(month) < MarchMonth(other)
                => DaysBeforeMonth(month) + day <= DaysBeforeMonth(other)
  BY SMTT(60)
  DEF DaysInMonth, DaysBeforeMonth, MarchMonth, MarchYear, LengthOfYear, IsLeapYear

\* The numbers that a date is counted with.
LEMMA DateParts ==
  ASSUME NEW year \in Int, NEW month \in 1..12, NEW day \in 1..DaysInMonth(year, month)
  PROVE  /\ MarchYear(year, month) \in Int
         /\ DaysToMarch(MarchYear(year, month)) \in Int
         /\ DaysToMarch(MarchYear(year, month) + 1) \in Int
         /\ DaysFromCivil(year, month, day) \in Int
         /\ DaysFromCivil(year, month, day) + Origin
              = DaysToMarch(MarchYear(year, month)) + DaysBeforeMonth(month) + day
<1>1. DaysInMonth(year, month) \in Int
  BY SMT DEF DaysInMonth
<1>2. day \in Int
  BY <1>1, SMT
<1>3. MarchYear(year, month) \in Int
  BY SMT DEF MarchYear
<1>4. \A x \in Int : DaysToMarch(x) \in Int
  BY SMT DEF DaysToMarch
<1>5. DaysFromCivil(year, month, day) \in Int
  BY <1>2, SMT DEF DaysFromCivil, DaysBeforeMonth
<1>. QED  BY <1>2, <1>3, <1>4, <1>5, DaysInClosedForm, SMTT(60)

\* A day belongs to the year that runs from its March to the next.
LEMMA DayWithinYear ==
  ASSUME NEW year \in Int, NEW month \in 1..12, NEW day \in 1..DaysInMonth(year, month)
  PROVE  /\ DaysFromCivil(year, month, day) + Origin > DaysToMarch(MarchYear(year, month))
         /\ DaysFromCivil(year, month, day) + Origin <= DaysToMarch(MarchYear(year, month) + 1)
<1>. DEFINE y == MarchYear(year, month)
            n == DaysFromCivil(year, month, day) + Origin
<1>1. /\ y \in Int /\ DaysToMarch(y) \in Int
      /\ n = DaysToMarch(y) + DaysBeforeMonth(month) + day
  BY DateParts, Zenon
<1>2. DaysToMarch(y + 1) = DaysToMarch(y) + LengthOfYear(y + 1)
  BY <1>1, YearLength, Zenon
<1>3. /\ day \in Nat /\ day > 0 /\ DaysBeforeMonth(month) \in Nat
      /\ LengthOfYear(y + 1) \in Int
      /\ DaysBeforeMonth(month) + day <= LengthOfYear(y + 1)
  BY MonthsAreOrdered, Zenon
<1>. HIDE DEF y, n
<1>4. n > DaysToMarch(y) /\ n <= DaysToMarch(y + 1)
  BY <1>1, <1>2, <1>3, SMT
<1>. QED  BY <1>4, Zenon DEF y, n

\* One date is before another.
Before(c, d) ==
  \/ c[1] < d[1]
  \/ c[1] = d[1] /\ c[2] < d[2]
  \/ c[1] = d[1] /\ c[2] = d[2] /\ c[3] < d[3]

\* days_from_civil never ranks a later date before an earlier one, or with it:
\* retention keeps what the calendar says is newest.
THEOREM DatesKeepTheirOrder ==
  ASSUME NEW y1 \in Int, NEW m1 \in 1..12, NEW d1 \in 1..DaysInMonth(y1, m1),
         NEW y2 \in Int, NEW m2 \in 1..12, NEW d2 \in 1..DaysInMonth(y2, m2),
         Before(<<y1, m1, d1>>, <<y2, m2, d2>>)
  PROVE  DaysFromCivil(y1, m1, d1) < DaysFromCivil(y2, m2, d2)
<1>. DEFINE x == MarchYear(y1, m1)
            y == MarchYear(y2, m2)
            s == DaysFromCivil(y1, m1, d1)
            t == DaysFromCivil(y2, m2, d2)
<1>1. /\ x \in Int /\ DaysToMarch(x) \in Int /\ DaysToMarch(x + 1) \in Int /\ s \in Int
      /\ s + Origin = DaysToMarch(x) + DaysBeforeMonth(m1) + d1
  BY DateParts, Zenon
<1>2. /\ y \in Int /\ DaysToMarch(y) \in Int /\ DaysToMarch(y + 1) \in Int /\ t \in Int
      /\ t + Origin = DaysToMarch(y) + DaysBeforeMonth(m2) + d2
  BY DateParts, Zenon
<1>3. /\ d1 \in Nat /\ DaysBeforeMonth(m1) \in Nat
      /\ MarchMonth(m1) < MarchMonth(m2)
           => DaysBeforeMonth(m1) + d1 <= DaysBeforeMonth(m2)
  BY MonthsAreOrdered, Zenon
<1>4. d2 \in Nat /\ d2 > 0 /\ DaysBeforeMonth(m2) \in Nat
  BY MonthsAreOrdered, Zenon
<1>5. /\ s + Origin <= DaysToMarch(x + 1)
      /\ t + Origin > DaysToMarch(y)
  BY DayWithinYear, Zenon
<1>6. CASE x < y
  <2>1. DaysToMarch(x + 1) <= DaysToMarch(y)
    BY <1>1, <1>2, <1>6, YearsAreOrdered, Zenon
  <2>. HIDE DEF x, y, s, t
  <2>2. s < t
    BY <1>1, <1>2, <1>5, <2>1, OriginIsInt, SMT
  <2>. QED  BY <2>2, Zenon DEF s, t
<1>7. CASE x = y
  <2>1. \/ MarchMonth(m1) < MarchMonth(m2)
        \/ m1 = m2 /\ d1 < d2
    BY <1>3, <1>4, <1>7, SMT DEF Before, MarchYear, MarchMonth
  <2>. HIDE DEF x, y
  <2>2. CASE MarchMonth(m1) < MarchMonth(m2)
    BY <1>1, <1>2, <1>3, <1>4, <1>7, <2>2, OriginIsInt, SMT
  <2>3. CASE m1 = m2 /\ d1 < d2
    BY <1>1, <1>2, <1>3, <1>4, <1>7, <2>3, OriginIsInt, SMT
  <2>. QED  BY <2>1, <2>2, <2>3, Zenon DEF s, t
<1>8. x <= y
  BY <1>3, <1>4, SMT DEF Before, MarchYear
<1>. QED  BY <1>1, <1>2, <1>6, <1>7, <1>8, SMT

\* The day after a date.
NextDay(c) ==
  IF c[3] < DaysInMonth(c[1], c[2]) THEN <<c[1], c[2], c[3] + 1>>
  ELSE IF c[2] < 12 THEN <<c[1], c[2] + 1, 1>>
  ELSE <<c[1] + 1, 1, 1>>

\* A month is as long as the next one begins later; February ends the year.
LEMMA MonthLength ==
  ASSUME NEW year \in Int, NEW month \in 1..12
  PROVE  /\ DaysInMonth(year, month) \in 1..31
         /\ month \in 1..11 \ {2} =>
              DaysBeforeMonth(month + 1) = DaysBeforeMonth(month) + DaysInMonth(year, month)
         /\ month = 12 => DaysBeforeMonth(1) = DaysBeforeMonth(12) + DaysInMonth(year, 12)
         /\ month = 2 => LengthOfYear(year) = DaysBeforeMonth(2) + DaysInMonth(year, 2)
         /\ DaysBeforeMonth(3) = 0
         /\ DaysBeforeMonth(month) \in Nat
  BY SMTT(60) DEF DaysInMonth, DaysBeforeMonth, LengthOfYear, IsLeapYear

\* Counted from any date on, every day of the calendar is one day: no leap year
\* or month is too short or too long.
THEOREM DaysAreCounted ==
  ASSUME NEW year \in Int, NEW month \in 1..12, NEW day \in 1..DaysInMonth(year, month)
  PROVE  LET next == NextDay(<<year, month, day>>) IN
         DaysFromCivil(next[1], next[2], next[3]) = DaysFromCivil(year, month, day) + 1
<1>. DEFINE n == DaysFromCivil(year, month, day)
            y == MarchYear(year, month)
<1>1. /\ n \in Int /\ y \in Int /\ DaysToMarch(y) \in Int /\ DaysToMarch(y + 1) \in Int
      /\ n + Origin = DaysToMarch(y) + DaysBeforeMonth(month) + day
  BY DateParts, Zenon
<1>2. day \in Nat /\ day > 0 /\ DaysInMonth(year, month) \in 1..31 /\ DaysBeforeMonth(month) \in Nat
  BY MonthLength, MonthsAreOrdered, Zenon
<1>3. day <= DaysInMonth(year, month)
  BY <1>2, SMT
<1>4. CASE day < DaysInMonth(year, month)
  <2>1. NextDay(<<year, month, day>>) = <<year, month, day + 1>>
    BY <1>4, SMT DEF NextDay
  <2>2. DaysFromCivil(year, month, day + 1) + Origin
          = DaysToMarch(y) + DaysBeforeMonth(month) + (day + 1)
    <3>1. day + 1 \in 1..DaysInMonth(year, month)
      BY <1>2, <1>4, SMT
    <3>. QED  BY <3>1, DateParts, Zenon
  <2>3. DaysFromCivil(year, month, day + 1) = n + 1
    <3>1. DaysFromCivil(year, month, day + 1) \in Int
      BY <1>2, <1>4, SMT DEF DaysFromCivil, DaysBeforeMonth
    <3>. HIDE DEF n, y
    <3>. QED  BY <1>1, <1>2, <2>2, <3>1, OriginIsInt, SMT
  <2>. QED  BY <2>1, <2>3, SMT
<1>5. CASE day = DaysInMonth(year, month)
  <2>1. CASE month \in 1..11 \ {2}
    <3>1. NextDay(<<year, month, day>>) = <<year, month + 1, 1>>
      BY <1>2, <1>5, <2>1, SMT DEF NextDay
    <3>2. /\ month + 1 \in 1..12
          /\ 1 \in 1..DaysInMonth(year, month + 1)
          /\ MarchYear(year, month + 1) = y
      BY <2>1, SMT DEF DaysInMonth, MarchYear
    <3>3. /\ DaysFromCivil(year, month + 1, 1) \in Int
          /\ DaysFromCivil(year, month + 1, 1) + Origin
               = DaysToMarch(y) + DaysBeforeMonth(month + 1) + 1
      BY <3>2, DateParts, ZenonT(60)
    <3>4. DaysBeforeMonth(month + 1) = DaysBeforeMonth(month) + day
      BY <1>5, <2>1, MonthLength, Zenon
    <3>5. DaysFromCivil(year, month + 1, 1) = n + 1
      <4>. HIDE DEF n, y
      <4>. QED  BY <1>1, <1>2, <3>3, <3>4, OriginIsInt, SMT
    <3>. QED  BY <3>1, <3>5, SMT
  <2>2. CASE month = 2
    <3>1. NextDay(<<year, month, day>>) = <<year, 3, 1>>
      BY <1>2, <1>5, <2>2, SMT DEF NextDay
    <3>2. 3 \in 1..12 /\ 1 \in 1..DaysInMonth(year, 3) /\ MarchYear(year, 3) = y + 1
      BY <2>2, SMT DEF DaysInMonth, MarchYear
    <3>3. /\ DaysFromCivil(year, 3, 1) \in Int
          /\ DaysFromCivil(year, 3, 1) + Origin = DaysToMarch(y + 1) + DaysBeforeMonth(3) + 1
      BY <3>2, DateParts, Zenon
    <3>4. DaysToMarch(y + 1) = DaysToMarch(y) + LengthOfYear(y + 1) /\ y + 1 = year
      <4>1. y + 1 = year
        BY <2>2, SMT DEF MarchYear
      <4>. QED  BY <1>1, <4>1, YearLength, Zenon
    <3>5. LengthOfYear(year) = DaysBeforeMonth(2) + day /\ DaysBeforeMonth(3) = 0
      BY <1>5, <2>2, MonthLength, Zenon
    <3>6. DaysFromCivil(year, 3, 1) = n + 1
      <4>. HIDE DEF n, y
      <4>. QED  BY <1>1, <1>2, <2>2, <3>3, <3>4, <3>5, OriginIsInt, SMT
    <3>. QED  BY <3>1, <3>6, SMT
  <2>3. CASE month = 12
    <3>1. NextDay(<<year, month, day>>) = <<year + 1, 1, 1>>
      BY <1>2, <1>5, <2>3, SMT DEF NextDay
    <3>2. /\ year + 1 \in Int /\ 1 \in 1..12
          /\ 1 \in 1..DaysInMonth(year + 1, 1)
          /\ MarchYear(year + 1, 1) = y
      BY <2>3, SMT DEF DaysInMonth, MarchYear
    <3>3. /\ DaysFromCivil(year + 1, 1, 1) \in Int
          /\ DaysFromCivil(year + 1, 1, 1) + Origin = DaysToMarch(y) + DaysBeforeMonth(1) + 1
      <4>. DEFINE v == year + 1
      <4>1. v \in Int /\ 1 \in 1..12 /\ 1 \in 1..DaysInMonth(v, 1) /\ MarchYear(v, 1) = y
        BY <3>2, Zenon
      <4>. HIDE DEF v
      <4>2. /\ DaysFromCivil(v, 1, 1) \in Int
            /\ DaysFromCivil(v, 1, 1) + Origin
                 = DaysToMarch(MarchYear(v, 1)) + DaysBeforeMonth(1) + 1
        BY <4>1, DateParts, ZenonT(60)
      <4>. QED  BY <4>1, <4>2, Zenon DEF v
    <3>4. DaysBeforeMonth(1) = DaysBeforeMonth(12) + day
      BY <1>5, <2>3, MonthLength, Zenon
    <3>5. DaysFromCivil(year + 1, 1, 1) = n + 1
      <4>. HIDE DEF n, y
      <4>. QED  BY <1>1, <1>2, <2>3, <3>3, <3>4, OriginIsInt, SMT
    <3>. QED  BY <3>1, <3>5, SMT
  <2>. QED  BY <2>1, <2>2, <2>3, SMT
<1>. QED  BY <1>2, <1>3, <1>4, <1>5, SMT

\* civil_from_days finds the year in an era of 146097 days: the day is the doy-th
\* of year 100c + 4q + s.
LEMMA YearWithinEra ==
  ASSUME NEW c \in 0..3, NEW q \in 0..24, NEW s \in 0..3, NEW doy \in 0..365,
         doy = 365 => s = 3 /\ (q # 24 \/ c = 3)
  PROVE LET doe == 36524 * c + 1461 * q + 365 * s + doy
        IN  (doe - doe \div 1460 + doe \div 36524 - doe \div 146096) \div 365 = 100 * c + 4 * q + s
<1>. DEFINE doe == 36524 * c + 1461 * q + 365 * s + doy
            x == 24 * c + q + 365 * s + doy
            e == IF x < 1460 THEN 0 ELSE 1
<1>0. doe \in Int /\ doe = 1460 * (25 * c + q) + x /\ x \in 0..1556
  BY SMT
<1>1. doe \div 1460 = 25 * c + q + e
  <2>. HIDE DEF doe, x
  <2>. QED  BY <1>0, SMT
<1>2. doe \div 36524 - doe \div 146096 = c
  <2>1. CASE doe = 146096
    <3>. HIDE DEF doe
    <3>1. c = 3 
      BY <1>0, <2>1, SMT DEF doe
    <3>. QED  BY <2>1, <3>1, SMT
  <2>2. CASE doe # 146096
    <3>. DEFINE y == 1461 * q + 365 * s + doy
    <3>1. y \in Int /\ y >= 0 /\ doe = 36524 * c + y
      BY SMT
    <3>2. y < 36524
      <4>1. CASE doy = 365 /\ q = 24
        BY <2>2, <4>1, SMT
      <4>2. CASE doy # 365 \/ q # 24
        BY <4>2, SMT
      <4>. QED  BY <4>1, <4>2, SMT
    <3>. HIDE DEF doe, y
    <3>3. doe \div 36524 = c
      BY <3>1, <3>2, SMT
    <3>4. doe \div 146096 = 0
      BY <3>1, <3>2, <2>2, SMT
    <3>. QED  BY <3>3, <3>4, SMT
  <2>. QED  BY <2>1, <2>2, SMT
<1>3. doy - e \in 0..364
  BY SMT
<1>4. doe = 365 * (100 * c + 4 * q + s) + 24 * c + q + doy
  BY SMT
<1>5. e \in Int
  BY SMT
<1>. HIDE DEF doe, e
<1>. QED  BY <1>0, <1>1, <1>2, <1>3, <1>4, <1>5, SMT

\* The first day of a year of an era.
StartOfYear(yoe) == yoe * 365 + yoe \div 4 - yoe \div 100

\* A year of an era, in centuries, leap cycles and the rest.
LEMMA YearInCycles ==
  ASSUME NEW yoe \in 0..399
  PROVE  \E c \in 0..3, q \in 0..24, s \in 0..3 :
           /\ StartOfYear(yoe) = 36524 * c + 1461 * q + 365 * s
           /\ yoe = 100 * c + 4 * q + s
           /\ IsLeapYear(yoe + 1) => s = 3 /\ (q # 24 \/ c = 3)
<1>. DEFINE c == yoe \div 100
            q == (yoe - 100 * c) \div 4
            s == yoe - 100 * c - 4 * q
<1>1. /\ c \in 0..3 /\ q \in 0..24 /\ s \in 0..3
      /\ StartOfYear(yoe) = 36524 * c + 1461 * q + 365 * s
      /\ yoe = 100 * c + 4 * q + s
      /\ IsLeapYear(yoe + 1) => s = 3 /\ (q # 24 \/ c = 3)
  BY SMTT(60) DEF IsLeapYear, StartOfYear
<1>. HIDE DEF c, q, s
<1>. USE <1>1
<1>. WITNESS c \in 0..3, q \in 0..24, s \in 0..3
<1>. QED  OBVIOUS

\* The days of 400 years.
DaysOfEra == 146097

\* A day of a year of an era is in the era, and the year is found from it.
LEMMA YearIsFound ==
  ASSUME NEW yoe \in 0..399, NEW doy \in 0..365, doy = 365 => IsLeapYear(yoe + 1)
  PROVE  /\ StartOfYear(yoe) + doy \in Nat
         /\ StartOfYear(yoe) + doy < DaysOfEra
         /\ YearOfEra(StartOfYear(yoe) + doy) = yoe
<1>1. PICK c \in 0..3, q \in 0..24, s \in 0..3 :
        /\ StartOfYear(yoe) = 36524 * c + 1461 * q + 365 * s
        /\ yoe = 100 * c + 4 * q + s
        /\ IsLeapYear(yoe + 1) => s = 3 /\ (q # 24 \/ c = 3)
  BY YearInCycles, SMTT(60)
<1>2. doy = 365 => s = 3 /\ (q # 24 \/ c = 3)
  BY <1>1, SMT
<1>3. StartOfYear(yoe) + doy = 36524 * c + 1461 * q + 365 * s + doy
  BY <1>1, SMT
<1>4. /\ 36524 * c + 1461 * q + 365 * s + doy \in Nat
      /\ 36524 * c + 1461 * q + 365 * s + doy < 146097
  BY SMT
<1>5. LET doe == 36524 * c + 1461 * q + 365 * s + doy IN
      (doe - doe \div 1460 + doe \div 36524 - doe \div 146096) \div 365
        = 100 * c + 4 * q + s
  BY <1>2, YearWithinEra, SMTT(60)
<1>. QED  BY <1>1, <1>3, <1>4, <1>5, SMT DEF YearOfEra, DaysOfEra

\* The month and its day are found from the day of the year.
LEMMA MonthWithinYear ==
  ASSUME NEW year \in Int, NEW month \in 1..12, NEW day \in 1..DaysInMonth(year, month)
  PROVE  MonthAndDay(DaysBeforeMonth(month) + day - 1) = <<month, day>>
  BY SMTT(60) DEF DaysInMonth, DaysBeforeMonth, MonthAndDay

\* civil_from_days undoes days_from_civil: the stamp in the name of a bundle is
\* the day it was made, for every date.
THEOREM CalendarRoundTrip ==
  ASSUME NEW year \in Int, NEW month \in 1..12, NEW day \in 1..DaysInMonth(year, month)
  PROVE  CivilFromDays(DaysFromCivil(year, month, day)) = <<year, month, day>>
<1>. DEFINE y == MarchYear(year, month)
            era == y \div 400
            yoe == y - era * 400
            doy == DaysBeforeMonth(month) + day - 1
            doe == StartOfYear(yoe) + doy
            n == DaysFromCivil(year, month, day)
<1>1. y \in Int /\ era \in Int /\ yoe \in 0..399
  BY SMT DEF MarchYear
<1>2. /\ day \in Nat /\ day > 0 /\ DaysBeforeMonth(month) \in Nat
      /\ DaysBeforeMonth(month) + day <= LengthOfYear(y + 1)
  BY MonthsAreOrdered, Zenon
<1>3. doy \in 0..365 /\ (doy = 365 => IsLeapYear(yoe + 1))
  <2>1. IsLeapYear(y + 1) <=> IsLeapYear(yoe + 1)
    BY <1>1, SMT DEF IsLeapYear
  <2>2. /\ LengthOfYear(y + 1) \in 365..366
        /\ LengthOfYear(y + 1) = 366 => IsLeapYear(yoe + 1)
    BY <2>1, SMT DEF LengthOfYear
  <2>. HIDE DEF y, yoe
  <2>. QED  BY <1>2, <2>2, SMTT(60)
<1>4. doe \in Nat /\ doe < DaysOfEra /\ YearOfEra(doe) = yoe
  <2>. HIDE DEF yoe, doy
  <2>. QED  BY <1>1, <1>3, YearIsFound, ZenonT(60)
<1>5. StartOfYear(yoe) \in Int /\ n \in Int
  <2>1. n \in Int
    BY DateParts, SMT
  <2>2. StartOfYear(yoe) \in Int
    <3>. HIDE DEF yoe
    <3>. QED  BY <1>1, SMT DEF StartOfYear
  <2>. QED  BY <2>1, <2>2, SMT
<1>6. n + 719468 = era * 146097 + doe
  <2>1. n = era * 146097 + (StartOfYear(yoe) + DaysBeforeMonth(month) + day - 1) - 719468
    BY SMT DEF DaysFromCivil, MarchYear, StartOfYear
  <2>. HIDE DEF era, yoe, n
  <2>. QED  BY <1>1, <1>2, <1>5, <2>1, SMT
<1>7. doe - (365 * yoe + yoe \div 4 - yoe \div 100) = doy
  <2>. HIDE DEF yoe
  <2>. QED  BY <1>1, <1>2, SMT DEF StartOfYear
<1>8. MonthAndDay(doy) = <<month, day>>
  BY MonthWithinYear, Zenon
<1>9. (IF month <= 2 THEN yoe + era * 400 + 1 ELSE yoe + era * 400) = year
  BY <1>1, SMT DEF MarchYear
<1>. HIDE DEF y, era, yoe, doy, doe, n
<1>10. CivilOfEra(era, doe) = <<year, month, day>>
  BY <1>4, <1>7, <1>8, <1>9, SMT DEF CivilOfEra
<1>11. (n + 719468) \div 146097 = era /\ n + 719468 - era * 146097 = doe
  BY <1>1, <1>4, <1>5, <1>6, SMT DEF DaysOfEra
<1>12. CivilFromDays(n) = <<year, month, day>>
  BY <1>1, <1>4, <1>5, <1>10, <1>11, SMT DEF CivilFromDays
<1>. QED  BY <1>12 DEF n
=============================================================================
