----------------------------- MODULE AuditViews -----------------------------
(***************************************************************************)
(* What the audit store answers about its ledgers: the search the operator *)
(* reviews proofs from, and the export.  A search ranks rows by the text   *)
(* of their timestamps, and so does a trim without an age limit; a trim    *)
(* with one ranks them by the seconds it parses from that text.  A bundle  *)
(* that a trim leaves behind is there to be restored.                      *)
(***************************************************************************)
EXTENDS AuditStore, Timestamps

CONSTANT Stamp  \* the calendar timestamp a time is the text of, None if malformed

\* Texts of one width are ordered by their first difference.
Parts(t) == <<t.year, t.month, t.day, t.hour, t.minute, t.second>>

TextBefore(s, t) ==
  \E i \in 1..6 : /\ Parts(s)[i] < Parts(t)[i]
                  /\ \A j \in 1..i - 1 : Parts(s)[j] = Parts(t)[j]

FourDigits == 0..9999

\* The texts that can be parsed have four digits for the year and two for each
\* other part, as the web admin writes them; a fraction of a second may tell
\* texts of one second apart.
ASSUME StampAssumption ==
  \A t \in Times : Stamp[t] # None => Stamp[t].year \in FourDigits /\ ValidTimestamp(Stamp[t])
ASSUME ParsedAssumption ==
  \A t \in Times : Seconds[t] = IF Stamp[t] = None THEN None ELSE UnixSeconds(Stamp[t])
ASSUME TextAssumption ==
  \A t, u \in Times :
    Stamp[t] # None /\ Stamp[u] # None /\ TextBefore(Stamp[t], Stamp[u]) => t < u

-----------------------------------------------------------------------------
(* Searches. *)

\* The limit of a query: 50 if it has none, and never more than 200.
ResultLimit(limit) == IF limit = None THEN 50 ELSE IF limit < 200 THEN limit ELSE 200

\* AuditSearchEntry: a row with the proof of its job id, if there is one.
SearchEntry(d, ps) ==
  [dispatch |-> d,
   proof |-> IF d.job \in JobsOf(ps) THEN CHOOSE p \in ps : p.job = d.job ELSE None]

\* matches_search; a text that is contained in a value stands for it here.
MatchesSearch(entry, text) ==
  \/ text = None
  \/ text \in {entry.dispatch.job, entry.dispatch.lineage, entry.dispatch.mode,
               entry.dispatch.content}
  \/ entry.proof # None /\ text = entry.proof.status

\* The sets of rows that could be shown, according to how equal times are
\* sorted.  The limit is looked at after a row, so that 0 looks at one row.
Shown(ds, ps, text, limit) ==
  LET matching == {d \in ds : MatchesSearch(SearchEntry(d, ps), text)}
      n == ResultLimit(limit)
      First(rows, size) ==
        {top \in SUBSET rows :
           /\ Cardinality(top) = IF size < Cardinality(rows) THEN size ELSE Cardinality(rows)
           /\ \A r \in top, s \in rows \ top : r.at >= s.at}
  IN  IF n = 0 THEN {top \cap matching : top \in First(ds, 1)} ELSE First(matching, n)

\* scoped_snapshot
Exported(ds, ps, scope) ==
  [dispatches |-> IF scope = "proof" THEN {} ELSE ds,
   proofs |-> IF scope = "dispatch" THEN {} ELSE ps]

-----------------------------------------------------------------------------
(* Properties. *)

Trimmed(p) == pc[p] = "release" /\ reply[p] = "ok" /\ req[p].op = "trim" /\ ~req[p].dryRun

\* What the operator saw first is what a trim keeps: of the rows that a search
\* for as many as the trim was asked to keep could have shown, it has removed
\* none that is not too old, although the search compares texts and a trim with
\* an age limit the seconds of calendar dates (search, trim).  A search shows
\* no more than 200 rows.
SearchAgreesWithTrim ==
  \A p \in Procs :
    LET r == req[p] IN
    Trimmed(p) /\ r.scope # "proof" /\ r.entries \in 1..200 =>
      \E top \in Shown(work[p].readDispatches, work[p].readProofs, None, r.entries) :
        \A d \in top :
          d \in dispatches \/ (r.cutoff # None /\ Seconds[d.at] < r.cutoff)

\* A trim can be undone: when it has answered, the bundle it left is one that
\* restore takes, and restoring it brings back the ledgers as they were, unless
\* a job was dispatched twice (trim, validate_restore_bundle).
TrimCanBeUndone ==
  \A p \in Procs :
    LET w == work[p]
        b == Removed(w)
    IN  Trimmed(p) /\ b # [dispatches |-> {}, proofs |-> {}] /\ OneRowPerJob(w.readDispatches) =>
          /\ b \in backups
          /\ Restorable(dispatches, proofs, b)
          /\ Exported(dispatches \cup b.dispatches, proofs \cup b.proofs, "all")
               = Exported(w.readDispatches, w.readProofs, "all")
=============================================================================
