------------------------------ MODULE Interest ------------------------------
(***************************************************************************)
(* Interest arithmetic of a pawn loan (apps/loans/models.py, class Loan).  *)
(*                                                                         *)
(* Money is an integer number of paise, a rate is an integer number of     *)
(* thousandths of a percent (interest_rate_pct has three decimals), a date *)
(* is a day number.  Django money is a two-decimal Decimal, and            *)
(* Decimal.quantize rounds half to even; HalfEven does the same to a       *)
(* quotient.                                                               *)
(***************************************************************************)
EXTENDS Integers

MonthDays == 30              \* one interest cycle

RateTypes == {"annual", "monthly"}

NonNegative(x) == IF x < 0 THEN 0 ELSE x

\* n / d rounded to the nearest integer, ties to the even one (n >= 0).
HalfEven(n, d) ==
  LET q == n \div d
      r == n % d
  IN  IF 2 * r > d \/ (2 * r = d /\ q % 2 = 1) THEN q + 1 ELSE q

\* Loan.monthly_interest: principal * pct / 100, or pct / 1200 for a yearly rate.
MonthlyInterest(principal, rateType, pct) ==
  HalfEven(principal * pct, IF rateType = "monthly" THEN 100000 ELSE 1200000)

\* Loan.days_outstanding: never negative, also for a loan dated ahead.
DaysOutstanding(start, today) == NonNegative(today - start)

\* Mutant: cycles completed, rounded up.
MonthsRoundedUp(start, today) ==
  IF start > today THEN 0 ELSE (today - start + MonthDays - 1) \div MonthDays

\* Loan.months_charged: the figure printed beside the accrued interest.
MonthsCharged(start, today) ==
  IF start > today THEN 0 ELSE (today - start) \div MonthDays + 1

\* Loan.interest_accrued: a flat month for the first 30 days, then a daily
\* pro rata of the month; nothing before the start date.
InterestAccrued(monthly, start, today) ==
  IF start > today THEN 0
  ELSE IF DaysOutstanding(start, today) <= MonthDays THEN monthly
  ELSE HalfEven(monthly * DaysOutstanding(start, today), MonthDays)
=============================================================================
