------------------------------- MODULE IsoTime -------------------------------
(***************************************************************************)
(* parse_iso8601_utc() and to_iso8601_utc() of utils_kit/normalization.py. *)
(*                                                                         *)
(* Time is counted in units of which offsets of time zones are multiples;  *)
(* the calendar of datetime has a first and a last one (years 1 and 9999). *)
(* A stamp is a Python value given to one of the two functions or text     *)
(* made by them: datetime, date, time, str, None, or something else.  Of a *)
(* str, form says what it spells: a datetime, a date, a time, nothing, or  *)
(* no time at all.                                                         *)
(***************************************************************************)
EXTENDS Integers

CONSTANTS FirstTime, LastTime,  \* datetime.min, datetime.max
          MaxOffset             \* offsets of zones lie between -MaxOffset and MaxOffset

ASSUME CalendarAssumption ==
    /\ FirstTime \in Int /\ LastTime \in Int /\ MaxOffset \in Nat
    /\ FirstTime <= LastTime

Calendar == FirstTime .. LastTime

\* Zone: none given (naive), UTC (a str may say Z or +00:00), or an offset.
Stamps ==
    [type : {"datetime", "date", "time", "str", "none", "int"},
     form : {"datetime", "date", "time", "blank", "garbage"},
     local : Calendar, zone : {"naive", "utc", "offset"},
     offset : -MaxOffset .. MaxOffset, micro : BOOLEAN]

\* A naive time is taken for UTC.
Offset(s) == IF s.zone = "offset" THEN s.offset ELSE 0

\* Mutant: replace(tzinfo=utc) instead of astimezone(utc) (lines 25, 40).
InUTC_Relabelled(s) == s.local

\* The time at UTC, which may lie outside of the calendar: OverflowError.
InUTC(s) == s.local - Offset(s)

AtUTC(type, at, micro) ==
    [type |-> type, form |-> "datetime", local |-> at, zone |-> "utc",
     offset |-> 0, micro |-> micro]

None == [type |-> "none", form |-> "blank", local |-> FirstTime, zone |-> "naive",
         offset |-> 0, micro |-> FALSE]

Returned(s) == [raised |-> FALSE, value |-> s]
Raised == [raised |-> TRUE, value |-> None]

\* The result of a datetime that was converted to UTC.
Converted(s, micro) ==
    IF InUTC(s) \in Calendar
    THEN Returned(AtUTC("datetime", InUTC(s), micro))
    ELSE Raised

\* fromisoformat() refuses blanks, times of day and garbage; a date is midnight,
\* without a zone.  The conversion to UTC stands outside of the try statement.
parse_iso8601_utc(s) ==
    CASE s.form = "datetime" -> Converted(s, FALSE)
      [] s.form = "date" -> Converted([s EXCEPT !.zone = "naive"], FALSE)
      [] OTHER -> Returned(None)

\* isoformat() of a datetime at UTC
AsText(result) ==
    IF result.raised \/ result.value.type = "none" THEN result
    ELSE Returned(AtUTC("str", result.value.local, result.value.micro))

\* A datetime is a date too, and is tested first.
to_iso8601_utc(s) ==
    CASE s.type = "datetime" -> AsText(Converted(s, s.micro))
      [] s.type \in {"date", "time"} -> Returned([s EXCEPT !.type = "str", !.form = s.type])
      [] s.type = "str" -> AsText(parse_iso8601_utc(s))
      [] OTHER -> Returned(None)

=============================================================================
