------------------------------- MODULE Calendar -------------------------------
(***************************************************************************)
(* Dates without a calendar library: seconds since 1970 become the stamps  *)
(* of notes, records and instance names, and come back from them           *)
(* (project/clock.rs, sandbox/liveness.rs; the guest's server.rs has the   *)
(* first half once more), to age them (status.rs) and to drop cards        *)
(* archived for over an hour from a listing (query.rs).                    *)
(*                                                                         *)
(* Time is walked through, day by day, beside a calendar that only knows   *)
(* how long its months are.  A moment is a day and the seconds in it.      *)
(***************************************************************************)
EXTENDS Integers, Sequences

CONSTANTS
  Moments,   \* bound of the model: the seconds of a day at which the clock is read
  Stamping,  \* bound of the model: the days on which something is stamped
  LastDay,   \* bound of the model: days since 1970
  MaxAge     \* bound of the model: seconds a stamp is kept

Seconds == {s \in Nat : s < 86400}

\* The last day is one whose year has four digits, as in every stamp: up to
\* the end of 9999.
ASSUME CalendarAssumption ==
  /\ 0 \in Moments /\ Moments \subseteq Seconds
  /\ LastDay \in Nat /\ LastDay <= 2932896 /\ Stamping \subseteq 0..LastDay /\ MaxAge \in Nat

VARIABLES
  day, secs,  \* now
  date,       \* the day, on the calendar
  stamp,      \* a stamp that has been made, empty without one
  age         \* seconds since (history)

calendarVars == <<day, secs, date, stamp, age>>

-----------------------------------------------------------------------------
\* Rust's division, which truncates.
Quo(a, b) == IF a >= 0 THEN a \div b ELSE -((-a) \div b)

\* Mutant: the last day of 400 years is not told from the first of the next.
CivilOfYear(days) ==
  LET z   == days + 719468
      era == Quo(IF z >= 0 THEN z ELSE z - 146096, 146097)
      doe == z - era * 146097
      yoe == Quo(doe - Quo(doe, 1460) + Quo(doe, 36524), 365)
      doy == doe - (365 * yoe + Quo(yoe, 4) - Quo(yoe, 100))
      mp  == Quo(5 * doy + 2, 153)
      m   == IF mp < 10 THEN mp + 3 ELSE mp - 9
  IN  <<yoe + era * 400 + (IF m <= 2 THEN 1 ELSE 0), m, doy - Quo(153 * mp + 2, 5) + 1>>

\* civil_from_days, and the date of unix_to_civil: year, month and day.
CivilFromDays(days) ==
  LET z   == days + 719468
      era == Quo(IF z >= 0 THEN z ELSE z - 146096, 146097)
      doe == z - era * 146097
      yoe == Quo(doe - Quo(doe, 1460) + Quo(doe, 36524) - Quo(doe, 146096), 365)
      doy == doe - (365 * yoe + Quo(yoe, 4) - Quo(yoe, 100))
      mp  == Quo(5 * doy + 2, 153)
      m   == IF mp < 10 THEN mp + 3 ELSE mp - 9
  IN  <<yoe + era * 400 + (IF m <= 2 THEN 1 ELSE 0), m, doy - Quo(153 * mp + 2, 5) + 1>>

\* days_from_civil, and civil_to_unix.
DaysFromCivil(d) ==
  LET y   == IF d[2] <= 2 THEN d[1] - 1 ELSE d[1]
      era == Quo(IF y >= 0 THEN y ELSE y - 399, 400)
      yoe == y - era * 400
      mp  == IF d[2] > 2 THEN d[2] - 3 ELSE d[2] + 9
      doy == Quo(153 * mp + 2, 5) + d[3] - 1
  IN  era * 146097 + (yoe * 365 + Quo(yoe, 4) - Quo(yoe, 100) + doy) - 719468

\* format_rfc3339, the numbers of the text; and of an instance's name.
Stamp(d, s) == CivilFromDays(d) \o <<Quo(s, 3600), Quo(s % 3600, 60), s % 60>>

\* parse_rfc3339: seconds from a day on, to a moment that a stamp says.
\* Nothing is parsed from what is out of range.
Readable(t) ==
  /\ t # <<>>
  /\ t[2] \in 1..12 /\ t[3] \in 1..31
  /\ t[4] \in 0..23 /\ t[5] \in 0..59 /\ t[6] \in 0..59
Parsed3339(t, d) == (DaysFromCivil(SubSeq(t, 1, 3)) - d) * 86400 + t[4] * 3600 + t[5] * 60 + t[6]

\* Seconds from a stamp to now.
Elapsed(t) == secs - Parsed3339(t, day)

\* is_stale_archive, with its window of an hour.
Stale(t) == ~Readable(t) \/ Elapsed(t) > 3600

\* humanize_ago: a number, and the seconds of its unit.
Ago(t) ==
  CHOOSE r \in {IF d < 60 THEN <<d, 1>> ELSE IF d < 3600 THEN <<Quo(d, 60), 60>>
                ELSE IF d < 86400 THEN <<Quo(d, 3600), 3600>> ELSE <<Quo(d, 86400), 86400>>
                  : d \in {IF Elapsed(t) > 0 THEN Elapsed(t) ELSE 0}} : TRUE

\* humanize_duration_secs: hours and minutes, or seconds.
Duration(d) ==
  IF d < 60 THEN <<0, 0, d>> ELSE IF d < 3600 THEN <<0, Quo(d, 60), 0>>
  ELSE <<Quo(Quo(d, 60), 60), Quo(d, 60) % 60, 0>>

-----------------------------------------------------------------------------
IsLeap(y) == y % 4 = 0 /\ (y % 100 # 0 \/ y % 400 = 0)
LengthOf(y, m) == IF m = 2 THEN (IF IsLeap(y) THEN 29 ELSE 28) ELSE IF m \in {4, 6, 9, 11} THEN 30 ELSE 31

Morrow(d) ==
  IF d[3] < LengthOf(d[1], d[2]) THEN <<d[1], d[2], d[3] + 1>>
  ELSE IF d[2] < 12 THEN <<d[1], d[2] + 1, 1>> ELSE <<d[1] + 1, 1, 1>>

CalendarInit ==
  /\ day = 0 /\ secs = 0 /\ date = <<1970, 1, 1>>
  /\ stamp = <<>> /\ age = 0

\* A card is archived, or an agent says something.
Stamps3339 ==
  /\ stamp = <<>> /\ day \in Stamping
  /\ stamp' = Stamp(day, secs) /\ age' = 0
  /\ UNCHANGED <<day, secs, date>>

Forgets ==
  /\ stamp # <<>>
  /\ stamp' = <<>> /\ age' = 0
  /\ UNCHANGED <<day, secs, date>>

\* Time passes.
Ages(n) == age' = IF stamp = <<>> THEN 0 ELSE age + n

Passes(s) ==
  /\ day \in Stamping \/ stamp # <<>>
  /\ s > secs /\ Ages(s - secs) /\ age' <= MaxAge
  /\ secs' = s
  /\ UNCHANGED <<day, date, stamp>>

Midnight ==
  /\ day < LastDay /\ Ages(86400 - secs) /\ age' <= MaxAge
  /\ day' = day + 1 /\ secs' = 0 /\ date' = Morrow(date)
  /\ UNCHANGED stamp

CalendarNext == Stamps3339 \/ Forgets \/ Midnight \/ \E s \in Moments : Passes(s)

CalendarSpec == CalendarInit /\ [][CalendarNext]_calendarVars

-----------------------------------------------------------------------------
FourDigits == 1000..9999

(* Types; and every field of a stamp is in the range the parsers accept.   *)
CalendarTypeOK ==
  /\ day \in 0..LastDay /\ secs \in Seconds /\ age \in 0..MaxAge
  /\ LET t == Stamp(day, secs) IN t[1] \in FourDigits /\ t[2] \in 1..12 /\ t[3] \in 1..31 /\ \A n \in 4..6 : t[n] \in 0..59

(* The arithmetic on days agrees with the calendar, both ways.             *)
DatesAreTrue == CivilFromDays(day) = date /\ DaysFromCivil(date) = day

\* Whether a text of these fields sorts before another.
SortsBefore(t, u) == \E n \in DOMAIN t : t[n] < u[n] /\ \A k \in 1..n - 1 : t[k] = u[k]

(* Cards are slotted by the text of `created`, instances are told apart by *)
(* their names: a later stamp sorts after an earlier one.                  *)
StampsSortLikeTime == [][SortsBefore(Stamp(day, secs), Stamp(day', secs'))]_<<day, secs>>

(* A card stays listed for an hour after it was archived and no longer,    *)
(* over midnights, months and years.                                       *)
ArchivedShowForAnHour == stamp # <<>> => (Stale(stamp) <=> age > 3600)

(* An age is told in units of which it has at least one, without rounding  *)
(* up, and a duration to the minute.                                       *)
AgesAreHonest ==
  stamp # <<>> =>
    /\ \E r \in {Ago(stamp)} :
         /\ r[1] * r[2] <= age /\ age < (r[1] + 1) * r[2]
         /\ r[2] > 1 => r[1] >= 1
         /\ r[2] < 86400 => age < 86400
    /\ \E d \in {Duration(age)} :
         LET told == 3600 * d[1] + 60 * d[2] + d[3] IN
         told <= age /\ age < told + (IF age < 60 THEN 1 ELSE 60) /\ d[2] < 60 /\ d[3] < 60

(* A stamp tells the time: as a date, as a text that sorts, and as an age. *)
StampsTellTheTime ==
  [](CalendarTypeOK /\ DatesAreTrue /\ ArchivedShowForAnHour /\ AgesAreHonest) /\ StampsSortLikeTime
=============================================================================
