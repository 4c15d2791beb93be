------------------------------- MODULE Figures -------------------------------
(***************************************************************************)
(* The sums the system works out more than once, and in words, checked     *)
(* against each other over boundary values: salaries by the core and by    *)
(* the worker, income tax by a walk and by its definition, GST as CGST and *)
(* SGST or as IGST, and the words under the figure on an invoice.          *)
(***************************************************************************)
EXTENDS PayrollMath, Gst

CONSTANTS
    Salaries, HalfDays, Working, Overtime,  \* paise, half days, days, hours
    Incomes,                                \* of a year, in paise
    Items,                                  \* invoice lines
    Crores, Belows                          \* an amount: crores, and rupees below one crore

VARIABLE sum        \* the sum in hand

Init ==
    \/ \E basic, hra \in Salaries, days \in HalfDays, hours \in Overtime, flags \in BOOLEAN :
         /\ days <= 2 * Working
         /\ sum = [kind |-> "salary",
                   in |-> [basic |-> basic, hra |-> hra, allowances |-> 0, present |-> days,
                           leave |-> 0, working |-> Working, overtime |-> hours, bonus |-> 0,
                           other |-> 0, pf |-> flags, esic |-> flags, tds |-> TRUE]]
    \/ \E income \in Incomes : sum = [kind |-> "tax", income |-> income]
    \/ \E item \in Items : sum = [kind |-> "item", item |-> item]
    \/ \E crore \in Crores, below \in Belows :
         sum = [kind |-> "words", crore |-> crore, below |-> below]
Next == FALSE /\ sum' = sum

-----------------------------------------------------------------------------
\* convertBlock: hundreds, tens and the rest as places in the word lists, whose
\* first has words for 0 .. 19 and whose second for 0 .. 9 tens.
Block(n) ==
    LET below100 == n % 100
    IN  [hundreds |-> n \div 100,
         tens |-> IF below100 > 19 THEN below100 \div 10 ELSE 0,
         rest |-> IF below100 > 19 THEN below100 % 10 ELSE below100]
Spoken(block) == block.hundreds \in 0 .. 19 /\ block.tens \in 0 .. 9 /\ block.rest \in 0 .. 19
Heard(block) == 100 * block.hundreds + 10 * block.tens + block.rest

\* convertAmount, of which the core and the worker keep a copy each: crores, lakhs, thousands and the rest, each as a block.
Words(crore, below) ==
    [crore |-> Block(crore), lakh |-> Block(below \div 100000),
     thousand |-> Block((below % 100000) \div 1000), rest |-> Block(below % 1000)]

\* Tax by definition: every rate is paid on what lies above its threshold
\* more than the rate below it.
TaxByThresholds(income) ==
    LET Above(lakhs) == Positive(income - Rupees(100000) * lakhs)
    IN  Above(3) + Above(7) + Above(10) + Above(12) + 2 * Above(15)

Near(a, b, paise) == a - b \in -paise .. paise

\* Two computations of one sum agree: the core's and the worker's net pay
\* to the paise their roundings differ by, the slabs with the thresholds,
\* IGST with CGST and SGST to the paisa the halves lose, either of them with what
\* the form showed to two paise (unless the server replaced the rate), and the
\* words of an amount with its figure, up to the 1,999 crore the lists have words for.
FiguresAgree ==
    CASE sum.kind = "salary" ->
           \A core, worker \in {"up", "down"} :
             Near(CoreCalculate(sum.in, core).net, WorkerCalculate(sum.in, worker).net, 3)
      [] sum.kind = "tax" -> SlabTax(sum.income) = TaxByThresholds(sum.income)
      [] sum.kind = "item" ->
           LET state == ItemGst(sum.item, FALSE)  inter == ItemGst(sum.item, TRUE)
           IN  /\ Near(state.cgst + state.sgst, inter.igst, 1) /\ state.taxable = inter.taxable
               /\ ChargedRate(sum.item) = sum.item.gstRate =>
                    /\ Near(100 * state.total, FormTotal(sum.item, TRUE), 200)
                    /\ Near(100 * inter.total, FormTotal(sum.item, TRUE), 200)
      [] sum.kind = "words" ->
           LET words == Words(sum.crore, sum.below)
           IN  /\ \A unit \in DOMAIN words : Spoken(words[unit])
               /\ Heard(words.crore) = sum.crore
               /\ 100000 * Heard(words.lakh) + 1000 * Heard(words.thousand)
                    + Heard(words.rest) = sum.below
=============================================================================
