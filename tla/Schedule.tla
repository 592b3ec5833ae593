------------------------------ MODULE Schedule ------------------------------
(***************************************************************************)
(* The two kinds of Schedule of src/datetools.cpp, as values.              *)
(*                                                                         *)
(* A StaticSchedule holds one date.  An ICalSchedule holds a libical       *)
(* iterator: the occurrence it stands on (next) and the ones after it.     *)
(* Occurrences are Interval seconds apart and finite in number (COUNT), so *)
(* the iterator is "next, and left more".  Dates are instants, in seconds  *)
(* from the start of the model; NullDate is the date libical calls null.   *)
(* libical compares dates as they are written: in local time, which is     *)
(* TimezoneOffset ahead (no change of daylight saving time happens), or in *)
(* UTC when the start date of the rule is.                                 *)
(***************************************************************************)
EXTENDS Integers, FiniteSetsExt

CONSTANTS Interval,        \* seconds between two occurrences of a rule
          TimezoneOffset,  \* getTimezoneOffset(): seconds east of UTC
          StartsInUTC      \* m_StartDate.is_utc

ASSUME IntervalAssumption == Interval \in Nat \ {0}
ASSUME TimezoneAssumption == TimezoneOffset \in Int /\ StartsInUTC \in BOOLEAN

NullDate == -1

Schedules == [recur : BOOLEAN, next : Nat \cup {NullDate}, left : Nat]

StaticSchedule(when) == [recur |-> FALSE, next |-> when, left |-> 0]

(* k times icalrecur_iterator_next *)
PastTheEnd(s, k) == [s EXCEPT !.next = @ + k * Interval, !.left = @ - k]
AdvanceBy(s, k) ==
  IF k > s.left THEN [s EXCEPT !.next = NullDate, !.left = 0]
                ELSE [s EXCEPT !.next = @ + k * Interval, !.left = @ - k]

(* An instant in local time, and as the dates of an ICalSchedule are       *)
(* written (the inverse of ical_to_tm)                                     *)
Local(date)   == date + TimezoneOffset
Written(date) == IF StartsInUTC THEN date ELSE Local(date)

(* leapAdjust: skip the occurrences before endTime, compared as they are   *)
(* written.  Only the iterator of an ICalSchedule moves, StaticSchedule inherits a leapAdjust that does   *)
(* nothing.                                                                *)
LeapAdjust(s, endTime) ==
  IF ~s.recur \/ s.next = NullDate THEN s
  ELSE AdvanceBy(s, Min({k \in 0 .. s.left + 1 :
                           \/ k = s.left + 1
                           \/ Written(s.next + k * Interval) >= endTime}))

(* The constructor moves the iterator to the first occurrence not in the   *)
(* past.                                                                   *)
ICalSchedule(start, count, now) ==
  LeapAdjust([recur |-> TRUE, next |-> start, left |-> count - 1], Written(now))

(* getNextOccurence returns an instant and, for an ICalSchedule whose      *)
(* current occurrence is not after from in local time, moves the iterator. *)
NextOccurrence(s, from) ==
  IF ~s.recur /\ from > s.next THEN from ELSE s.next

AfterNextOccurrence(s, from) ==
  IF s.recur /\ s.next # NullDate /\ Local(from) >= Written(s.next)
  THEN AdvanceBy(s, 1) ELSE s
=============================================================================
