---------------------------- MODULE PayrollMath ----------------------------
(***************************************************************************)
(* The arithmetic of one salary: PayrollCalculatorService.calculate (core, *)
(* decimal.js), its copy calculatePayroll in the worker (binary floating   *)
(* point), and the income tax slabs both walk through.                     *)
(*                                                                         *)
(* Money is in paise, attendance in half days, overtime in whole hours. A  *)
(* product of rupees and a rate is a quotient of integers that is rounded  *)
(* where the code rounds.                                                  *)
(***************************************************************************)
EXTENDS Integers, Sequences, SequencesExt

Rupees(n) == 100 * n
Least(a, b) == IF a < b THEN a ELSE b
Positive(n) == IF n > 0 THEN n ELSE 0

\* n / d to the nearest integer. A tie may come out either way: 7/30 has no
\* end in the 20 digits of decimal.js, and few ties have one in binary, so
\* that what is rounded may lie a little below. "tie" says which happened.
Rounded(n, d, tie) ==
    LET q == n \div d  twice == 2 * (n % d)
    IN  IF twice > d \/ (twice = d /\ tie = "up") THEN q + 1 ELSE q

PfCeiling == Rupees(15000)
EsicCeiling == Rupees(21000)

\* [width |-> of the slab, rate |-> in twentieths (5 %)], in order; the last
\* one has no end.
Slabs == << [width |-> Rupees(300000), rate |-> 0], [width |-> Rupees(400000), rate |-> 1],
            [width |-> Rupees(300000), rate |-> 2], [width |-> Rupees(200000), rate |-> 3],
            [width |-> Rupees(300000), rate |-> 4] >>
TopRate == 6

\* A walk through the slabs that gives what lies above one to no other.
SlabTaxUntopped(income) ==
    LET Take(acc, slab) ==
          LET taxable == Least(acc.left, slab.width)
          IN  IF acc.left <= 0 THEN acc
              ELSE [tax |-> acc.tax + taxable * slab.rate, left |-> acc.left - taxable]
    IN  FoldLeft(Take, [tax |-> 0, left |-> income], Slabs).tax

\* Walks the slabs with what is left of the income; in twentieths of a paisa.
SlabTax(income) ==
    LET Take(acc, slab) ==
          LET taxable == Least(acc.left, slab.width)
          IN  IF acc.left <= 0 THEN acc
              ELSE [tax |-> acc.tax + taxable * slab.rate, left |-> acc.left - taxable]
        end == FoldLeft(Take, [tax |-> 0, left |-> income], Slabs)
    IN  end.tax + Positive(end.left) * TopRate

\* The whole result from the parts both copies compute alike.
Salary(in, tie, TdsOf(_)) ==
    LET payable == in.present + 2 * in.leave            \* half days
        Part(amount) == IF in.working > 0
                        THEN Rounded(amount * payable, 2 * in.working, tie) ELSE 0
        overtime == Rounded(in.basic * in.overtime * 2, 26 * 8, tie)
        gross == Part(in.basic) + Part(in.hra) + Part(in.allowances) + overtime + in.bonus
        pf == IF in.pf THEN Rounded(Least(in.basic, PfCeiling) * 12, 100, tie) ELSE 0
        esic == IF in.esic /\ gross <= EsicCeiling
                THEN Rounded(gross * 3, 400, tie) ELSE 0   \* 0.75 %
        tds == IF in.tds THEN TdsOf(12 * gross) ELSE 0
        deductions == pf + esic + tds + in.other
    IN  [overtime |-> overtime, gross |-> gross, pf |-> pf, esic |-> esic, tds |-> tds,
         deductions |-> deductions, net |-> gross - deductions]

\* The core rounds the annual tax to paise before it takes the month's share.
CoreCalculate(in, tie) ==
    LET MonthlyTwice(annual) == Rounded(Rounded(SlabTax(annual), 20, tie), 12, tie)
    IN  Salary(in, tie, MonthlyTwice)
Calculate(in) == CoreCalculate(in, "up")

\* The worker rounds once, at the end.
WorkerCalculate(in, tie) ==
    LET MonthlyOnce(annual) == Rounded(SlabTax(annual), 240, tie)
    IN  Salary(in, tie, MonthlyOnce)
=============================================================================
