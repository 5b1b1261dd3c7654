--------------------------------- MODULE Clocks ---------------------------------
(***************************************************************************)
(* internal/timefmt: wall clocks, the instants they stand for, and what    *)
(* the zone does to them.                                                  *)
(*                                                                         *)
(* Time is in whole hours.  An instant is a number; what the local zone    *)
(* shows at that instant is a reading, of which DayHours make a day.  The  *)
(* zone has one transition: it puts the clocks forward or back.            *)
(***************************************************************************)
EXTENDS Integers

CONSTANTS
  DayHours,  (* Hours in a day.  Bounds the model.                          *)
  Zone       (* [before, at, after]: the offsets from UTC on either side of *)
             (* the instant Zone.at.                                        *)

ASSUME ZoneAssumption == /\ DayHours \in Nat \ {0}
                         /\ Zone \in [before : Int, at : Int, after : Int]

Offset(t) == IF t < Zone.at THEN Zone.before ELSE Zone.after

(* What a clock on the wall shows at instant t.                            *)
Shown(t) == t + Offset(t)

Day(r)  == r \div DayHours
Hour(r) == r % DayHours
Reading(day, hour) == day * DayHours + hour

SamePeriod(t, u) == (t < Zone.at) = (u < Zone.at)

(* time.Date, with its first guess at the offset: the one in force at the  *)
(* instant the reading would be in UTC.                                    *)
Date(r) ==
  LET guess == r - Offset(r) IN
  IF Offset(r) = 0 \/ SamePeriod(guess, r) THEN guess ELSE r - Offset(guess)

(* Bug: no look at what time.Date made of the clock.                       *)
LocalClockTrusting(r) == [t |-> Date(r), exists |-> TRUE]

LocalClock(r) == [t |-> Date(r), exists |-> Shown(Date(r)) = r]

(* Bug: the new clock put on the day of the new time.                      *)
SpliceTimeWhole(orig, new) == LocalClock(Shown(new))

SpliceTime(orig, new) ==
  LocalClock(Reading(Day(Shown(orig)), Hour(Shown(new))))

SpliceDate(orig, new) ==
  LocalClock(Reading(Day(Shown(new)), Hour(Shown(orig))))

(* time.AddDate in whole days: the clock is kept as far as the zone lets   *)
(* it be.                                                                  *)
AddDays(t, n) == Date(Shown(t) + n * DayHours)

(* Midnight of t's day, as startOfDay makes it.                            *)
StartOfDay(t) == Date(Reading(Day(Shown(t)), 0))

-------------------------------------------------------------------------------
(* What a user may type for a time, and what parsePartial makes of it at   *)
(* the instant now.  A value is [form, day, hour, ago]; a form ignores the *)
(* fields it has no use for.                                               *)

Forms == {"clock",      (* 9:30                                             *)
          "date",       (* 2026-04-15                                       *)
          "both",       (* 2026-04-15T09:30                                 *)
          "instant",    (* RFC 3339, "now", "3 hours ago"                   *)
          "dayAgo",     (* "today", "yesterday", "2 days ago"               *)
          "dayAgoAt"}   (* "yesterday at 9:30"                              *)

HasDate(v) == v.form # "clock"
HasTime(v) == v.form \notin {"date", "dayAgo"}

(* A bare date names no clock for the zone to skip.                        *)
ParsePartial(v, now) ==
  CASE v.form = "clock"    -> LocalClock(Reading(Day(Shown(now)), v.hour))
    [] v.form = "date"     -> [LocalClock(Reading(v.day, 0)) EXCEPT !.exists = TRUE]
    [] v.form = "both"     -> LocalClock(Reading(v.day, v.hour))
    [] v.form = "instant"  -> [t |-> now - v.ago, exists |-> TRUE]
    [] v.form = "dayAgo"   -> [t |-> AddDays(now, -v.ago), exists |-> TRUE]
    [] v.form = "dayAgoAt" -> LocalClock(Reading(Day(Shown(AddDays(now, -v.ago))), v.hour))

(* Bug: a day's upper bound its midnight.                                  *)
ParseBoundExclusive(v, upper, now) ==
  LET t == ParsePartial(v, now).t IN
  IF HasTime(v) THEN (IF upper THEN t + 1 ELSE t) ELSE StartOfDay(t)

(* list's parseBound: down to the start of what was named, or up past its  *)
(* end.                                                                    *)
ParseBound(v, upper, now) ==
  LET t == ParsePartial(v, now).t IN
  IF HasTime(v) THEN (IF upper THEN t + 1 ELSE t)
  ELSE IF upper THEN AddDays(StartOfDay(t), 1) ELSE StartOfDay(t)

===============================================================================
