----------------------------- MODULE BillingMath -----------------------------
(***************************************************************************)
(* packages/shared/src/logic/billing.ts as operators: the calendar of a    *)
(* billing schedule, proration, the settlement of a cancellation and what  *)
(* of a shipped line may be invoiced.                                      *)
(*                                                                         *)
(* Money is a count of cents.  An instant is a day number, day 0 being     *)
(* 1 January 2024; all instants share one time of day, so what daysBetween *)
(* truncates is nothing.  A quotient is kept as numerator and denominator  *)
(* where the code computes with a double.                                  *)
(***************************************************************************)
EXTENDS Integers, Sequences

Cycles == {"WEEKLY", "MONTHLY", "QUARTERLY", "YEARLY"}
ProrationRules == {"PRORATED", "FULL_PERIOD", "NONE"}

CycleDays == [WEEKLY |-> 7, MONTHLY |-> 30, QUARTERLY |-> 90, YEARLY |-> 365]
CycleMonths == [MONTHLY |-> 1, QUARTERLY |-> 3, YEARLY |-> 12]

AtLeast(bound, n) == IF n < bound THEN bound ELSE n
AtMost(bound, n) == IF n > bound THEN bound ELSE n

(* num / den to the nearest integer, a half away from zero.  den > 0.      *)
RoundHalfAway(num, den) ==
    IF num < 0 THEN -((den - 2 * num) \div (2 * den)) ELSE (den + 2 * num) \div (2 * den)
MulMoney(amount, num, den) == RoundHalfAway(amount * num, den)

---------------------------------------------------------------------------
(* The calendar: months are counted from January 2024, a leap year.        *)

DaysBefore == <<0, 31, 59, 90, 120, 151, 181, 212, 243, 273, 304, 334>>
MonthStart(m) ==
    LET year == m \div 12
        leapDays == (year + 3) \div 4 + (IF year % 4 = 0 /\ m % 12 > 1 THEN 1 ELSE 0)
    IN  365 * year + leapDays + DaysBefore[(m % 12) + 1]
MonthLength(m) == MonthStart(m + 1) - MonthStart(m)
MonthOf(day) == CHOOSE m \in 0..(day \div 28) : MonthStart(m) <= day /\ day < MonthStart(m + 1)
DayOfMonth(day) == day - MonthStart(MonthOf(day)) + 1

(* Same day of a later month, or its last day.                             *)
AddMonths(day, months) ==
    LET target == MonthOf(day) + months
    IN  MonthStart(target) + AtMost(MonthLength(target), DayOfMonth(day)) - 1

AdvanceCycle(day, cycle) ==
    IF cycle = "WEEKLY" THEN day + 7 ELSE AddMonths(day, CycleMonths[cycle])

(* Each date is reached from the one before it, not from the start.        *)
NextBillingDates(start, cycle, count) ==
    LET date[i \in 1..count] == IF i = 1 THEN start ELSE AdvanceCycle(date[i - 1], cycle)
    IN  date

---------------------------------------------------------------------------
(* Proration of a change and settlement of a cancellation.                 *)

Prorate(oldAmount, newAmount, remaining, cycle, rule) ==
    LET days == CycleDays[cycle]
        left == AtMost(days, AtLeast(0, remaining))
        credit == MulMoney(oldAmount, left, days)
        charge == MulMoney(newAmount, left, days)
    IN  CASE rule = "NONE" -> [credit |-> 0, charge |-> 0, net |-> 0]
          [] rule = "FULL_PERIOD" -> [credit |-> 0, charge |-> newAmount, net |-> newAmount]
          [] OTHER -> [credit |-> credit, charge |-> charge, net |-> charge - credit]

ProrateFromDates(oldAmount, newAmount, day, periodStart, cycle, rule) ==
    Prorate(oldAmount, newAmount, AdvanceCycle(periodStart, cycle) - day, cycle, rule)

(* The remaining days are not held below the nominal length of the cycle.  *)
CancellationCredit(amount, remaining, cycle, rule) ==
    IF rule = "PRORATED" THEN MulMoney(amount, AtLeast(0, remaining), CycleDays[cycle]) ELSE 0

---------------------------------------------------------------------------
(* invoiceableOneTimeLines: what has shipped and is not yet invoiced.      *)

(* Fault: the units invoiced before are forgotten.                         *)
Invoiceable_Again(ordered, shipped, invoiced) == AtMost(ordered, shipped)
Invoiceable(ordered, shipped, invoiced) == AtLeast(0, AtMost(ordered, shipped) - invoiced)

LineTotal(qty, price, discountPct, taxPct) ==
    LET gross == price * qty
        net == gross - RoundHalfAway(gross * discountPct, 100)
    IN  net + RoundHalfAway(net * taxPct, 100)
=============================================================================
