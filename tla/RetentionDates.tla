--------------------------- MODULE RetentionDates ---------------------------
(***************************************************************************)
(* Retention and review dates (deriveRecordDates, addUtcMonths), on the    *)
(* calendar JavaScript's Date keeps: months count from 0, and setters with *)
(* a month or a day out of range carry over.                               *)
(***************************************************************************)
EXTENDS Integers, Sequences, FiniteSets

CONSTANTS Created, Ended, Months, NoDate

VARIABLES created, ended, policy

datesVars == <<created, ended, policy>>

CalendarDate == [year : Int, month : 0 .. 11, day : Int]

ASSUME KnownDates ==
  /\ Created \subseteq CalendarDate /\ Ended \subseteq CalendarDate /\ Months \subseteq Nat
  /\ NoDate \notin CalendarDate /\ NoDate \notin Nat

(* ECMAScript's DayFromYear and DayWithinYear, from 1 January 1970.        *)
DayFromYear(y) ==
  365 * (y - 1970) + (y - 1969) \div 4 - (y - 1901) \div 100 + (y - 1601) \div 400

Leap(y) == DayFromYear(y + 1) - DayFromYear(y) = 366

DayWithinYear(y, m) ==
  <<0, 31, 59, 90, 120, 151, 181, 212, 243, 273, 304, 334>>[m + 1]
  + (IF m > 1 /\ Leap(y) THEN 1 ELSE 0)

DayNumber(y, m, d) ==
  DayFromYear(y + m \div 12) + DayWithinYear(y + m \div 12, m % 12) + d - 1

(* Date.UTC(y, m + 1, 0), getUTCDate                                       *)
LastDay(y, m) == DayNumber(y, m + 1, 1) - DayNumber(y, m, 1)

SmallerOf(a, b) == IF a < b THEN a ELSE b

(* Defect: setUTCMonth on the day as it is: 31 February is 3 March.        *)
AddRolling(date, n) ==
  LET m == date.month + n
      y == date.year + m \div 12
      last == LastDay(y, m % 12)
  IN  IF date.day <= last THEN [year |-> y, month |-> m % 12, day |-> date.day]
      ELSE [year |-> y + ((m % 12) + 1) \div 12, month |-> (m + 1) % 12,
            day |-> date.day - last]

AddUtcMonths(date, n) ==
  LET m == date.month + n
      y == date.year + m \div 12
  IN  [year |-> y, month |-> m % 12, day |-> SmallerOf(date.day, LastDay(y, m % 12))]

DeriveRecordDates ==
  LET base == IF policy.mode = "FIXED_FROM_RELATIONSHIP_END" THEN ended ELSE created
      after(date, n) == IF date = NoDate \/ n = NoDate THEN NoDate ELSE AddUtcMonths(date, n)
  IN  [retainUntil |-> IF policy.mode = "NONE" THEN NoDate ELSE after(base, policy.retain),
       reviewDueAt |-> after(created, policy.review)]

DatesInit ==
  /\ created \in Created
  /\ ended \in Ended \cup {NoDate}
  /\ policy \in [mode : {"NONE", "FIXED_FROM_CREATED", "FIXED_FROM_RELATIONSHIP_END"},
                 retain : Months \cup {NoDate}, review : {NoDate, 12}]

----------------------------------------------------------------------------
(* The calendar as people know it.                                         *)
LeapYear(y) == y % 4 = 0 /\ (y % 100 = 0 => y % 400 = 0)

DaysIn(y, m) ==
  CASE m = 1 -> IF LeapYear(y) THEN 29 ELSE 28
    [] m \in {3, 5, 8, 10} -> 30
    [] OTHER -> 31

InMonths(date, n, result) ==
  /\ 12 * result.year + result.month = 12 * date.year + date.month + n
  /\ result.month \in 0 .. 11
  /\ result.day = SmallerOf(date.day, DaysIn(result.year, result.month))

(* A record is kept for whole months from the date its definition names,   *)
(* to the same day of the month or, where there is none, to its last day,  *)
(* across year ends and leap years; it is reviewed as many months after it *)
(* was made; no end of the relationship, no end of retention yet           *)
(* (addUtcMonths, deriveRecordDates).                                      *)
DatesAsCalendar ==
  LET base == IF policy.mode = "FIXED_FROM_RELATIONSHIP_END" THEN ended ELSE created
      dates == DeriveRecordDates
  IN  /\ IF policy.mode = "NONE" \/ policy.retain = NoDate \/ base = NoDate
         THEN dates.retainUntil = NoDate
         ELSE dates.retainUntil # NoDate
              /\ InMonths(base, policy.retain, dates.retainUntil)
      /\ IF policy.review = NoDate THEN dates.reviewDueAt = NoDate
         ELSE InMonths(created, policy.review, dates.reviewDueAt)

=============================================================================
