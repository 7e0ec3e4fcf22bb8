----------------------------- MODULE TimeFilter -----------------------------
(***************************************************************************)
(* Option -t of recoverfs.ssdfs: which checkpoints belong to the state of  *)
(* the files the user asked for.  A time range gives a year, a month, a    *)
(* day, an hour and a minute, any of them possibly left out.  The test of  *)
(* a timestamp fills in fields of the range that were left out, so it      *)
(* returns the verdict together with the range the next test will see.     *)
(***************************************************************************)
EXTENDS Integers

CONSTANT AnyTime      \* a field that was left out: SSDFS_ANY_YEAR, ...

Fields == {"year", "month", "day", "hour", "minute"}
Calendar == [Fields -> Nat]
TimeRanges == [Fields -> Nat \cup {AnyTime}]

Given(s, f) == s[f] # AnyTime

-----------------------------------------------------------------------------
(* ssdfs_recoverfs_timestamp_granularity *)

HourGranularity(s) ==
  IF ~Given(s, "hour") THEN "day"
  ELSE IF Given(s, "minute") THEN "minute" ELSE "hour"

DayGranularity(s) == IF Given(s, "day") THEN HourGranularity(s) ELSE "month"

MonthGranularity(s) == IF Given(s, "month") THEN DayGranularity(s) ELSE "year"

Granularity(s) ==
  CASE Given(s, "year")  -> MonthGranularity(s)
    [] ~Given(s, "year") /\ Given(s, "month") -> DayGranularity(s)
    [] ~Given(s, "year") /\ ~Given(s, "month") /\ Given(s, "day") ->
         HourGranularity(s)
    [] ~Given(s, "year") /\ ~Given(s, "month") /\ ~Given(s, "day")
         /\ Given(s, "hour") -> HourGranularity(s)
    [] OTHER -> "current"

-----------------------------------------------------------------------------
(* Each test does the coarser one first and stops where it fails: the      *)
(* fields below that one stay as they were.                                *)

Test(r, f, now, time) ==
  IF ~r.in THEN r
  ELSE LET s == IF Given(r.range, f) THEN r.range
                                     ELSE [r.range EXCEPT ![f] = now[f]]
       IN  [in |-> time[f] <= s[f], range |-> s]

YearInside(s, now, time) == Test([in |-> TRUE, range |-> s], "year", now, time)
MonthInside(s, now, time) == Test(YearInside(s, now, time), "month", now, time)
DayInside(s, now, time) == Test(MonthInside(s, now, time), "day", now, time)
HourInside(s, now, time) == Test(DayInside(s, now, time), "hour", now, time)

(* The finest test compares with the fields of struct tm as they are: the  *)
(* year counts from 1900 and the month from 0.                             *)
MinuteInside(s, time) ==
  \/ \E f \in Fields : ~Given(s, f)
  \/ /\ time.year - 1900 <= s.year
     /\ time.month - 1 <= s.month
     /\ time.day <= s.day
     /\ time.hour <= s.hour
     /\ time.minute <= s.minute

InsideRange(s, now, time) ==
  CASE Granularity(s) = "year"   -> YearInside(s, now, time)
    [] Granularity(s) = "month"  -> MonthInside(s, now, time)
    [] Granularity(s) = "day"    -> DayInside(s, now, time)
    [] Granularity(s) = "hour"   -> HourInside(s, now, time)
    [] Granularity(s) = "minute" -> [in |-> MinuteInside(s, time), range |-> s]
    [] OTHER                     -> [in |-> TRUE, range |-> s]
=============================================================================
