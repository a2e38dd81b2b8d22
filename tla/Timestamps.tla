----------------------------- MODULE Timestamps -----------------------------
(***************************************************************************)
(* The conversion between calendar timestamps and seconds since 1970 with  *)
(* which the audit store ranks rows and names bundles (audit_store.rs).    *)
(* A timestamp is a record of numbers: the text is split at its separators *)
(* and a fraction of a second is cut off, so that it does not count.       *)
(***************************************************************************)
EXTENDS Integers

IsLeapYear(year) == (year % 4 = 0 /\ year % 100 # 0) \/ year % 400 = 0

DaysInMonth(year, month) ==
  IF month \in {4, 6, 9, 11} THEN 30
  ELSE IF month # 2 THEN 31
  ELSE IF IsLeapYear(year) THEN 29 ELSE 28

ValidDate(year, month, day) ==
  month \in 1..12 /\ day \in 1..DaysInMonth(year, month)

\* validate_calendar_components
ValidTimestamp(t) ==
  /\ ValidDate(t.year, t.month, t.day)
  /\ t.hour \in 0..23 /\ t.minute \in 0..59 /\ t.second \in 0..59

\* The days since March 1st that come before a month.
DaysBeforeMonth(month) ==
  (153 * (month + (IF month > 2 THEN -3 ELSE 9)) + 2) \div 5

\* Mutant: years begin in January, but leap days are still counted at their start.
DaysFromJanuary(year, month, day) ==
  year * 365 + year \div 4 - year \div 100 + year \div 400
    + DaysBeforeMonth(month) + day - 719469

\* days_from_civil; the code's eras of 400 years round towards minus infinity,
\* like \div.
DaysFromCivil(year, month, day) ==
  LET y == IF month <= 2 THEN year - 1 ELSE year
      era == y \div 400
      yearOfEra == y - era * 400
      dayOfEra == yearOfEra * 365 + yearOfEra \div 4 - yearOfEra \div 100
                    + DaysBeforeMonth(month) + day - 1
  IN  era * 146097 + dayOfEra - 719468

\* parse_rfc3339_utc_timestamp_to_unix_secs, of a valid timestamp
UnixSeconds(t) ==
  DaysFromCivil(t.year, t.month, t.day) * 86400
    + t.hour * 3600 + t.minute * 60 + t.second

\* civil_from_days, as <<year, month, day>>: the year of an era in which a day
\* falls, the month and the day of that year, and the whole.
YearOfEra(dayOfEra) ==
  (dayOfEra - dayOfEra \div 1460 + dayOfEra \div 36524 - dayOfEra \div 146096) \div 365

MonthAndDay(dayOfYear) ==
  LET piece == (5 * dayOfYear + 2) \div 153
  IN  <<IF piece < 10 THEN piece + 3 ELSE piece - 9,
        dayOfYear - (153 * piece + 2) \div 5 + 1>>

CivilOfEra(era, dayOfEra) ==
  LET y == YearOfEra(dayOfEra)
      civil == MonthAndDay(dayOfEra - (365 * y + y \div 4 - y \div 100))
      year == y + era * 400
  IN  <<IF civil[1] <= 2 THEN year + 1 ELSE year, civil[1], civil[2]>>

CivilFromDays(n) ==
  LET days == n + 719468
      era == days \div 146097
  IN  CivilOfEra(era, days - era * 146097)

\* format_unix_timestamp_rfc3339
FromUnixSeconds(value) ==
  LET civil == CivilFromDays(value \div 86400)
      seconds == value % 86400
  IN  [year |-> civil[1], month |-> civil[2], day |-> civil[3],
       hour |-> seconds \div 3600, minute |-> (seconds % 3600) \div 60,
       second |-> seconds % 60]
=============================================================================
