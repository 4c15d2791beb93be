-------------------------------- MODULE Gst --------------------------------
(***************************************************************************)
(* The money of one invoice line, as GstService charges it and as the      *)
(* invoice form shows it before it is saved (invoice-totals.tsx).          *)
(*                                                                         *)
(* An item is [quantity, rate, discount, gstRate]: the rate in paise, the  *)
(* discount and the GST rate in per cent; gstRate is None when the request *)
(* leaves it out.                                                          *)
(***************************************************************************)
EXTENDS Integers

CONSTANT None

\* n / d to the nearest integer, a tie to the even neighbour (n >= 0).
Bankers(n, d) ==
    LET q == n \div d  twice == 2 * (n % d)
    IN  IF twice > d \/ (twice = d /\ q % 2 = 1) THEN q + 1 ELSE q

\* `item.gstRate || 18`: no rate and the rate 0 are the same.
ChargedRate(item) == IF item.gstRate \in {None, 0} THEN 18 ELSE item.gstRate

\* calculateItemGst: whether the invoice is a GST invoice is not asked.
ItemGst(item, interState) ==
    LET taxable == Bankers(item.quantity * item.rate * (100 - item.discount), 100)
        rate == ChargedRate(item)
        half == Bankers(taxable * rate, 200)
        igst == IF interState THEN Bankers(taxable * rate, 100) ELSE 0
        cgst == IF interState THEN 0 ELSE half
    IN  [taxable |-> taxable, cgst |-> cgst, sgst |-> cgst, igst |-> igst,
         total |-> taxable + 2 * cgst + igst]

\* What the form shows as the total of the line before it is saved, in 1/100
\* paisa: it rounds only to print, and takes no rate for 0 %.
FormTotal(item, isGstInvoice) ==
    LET taxable == item.quantity * item.rate * (100 - item.discount)
        rate == IF item.gstRate = None \/ ~isGstInvoice THEN 0 ELSE item.gstRate
        Share(n) == n * (100 + rate)
    IN  Share(taxable \div 100) + Share(taxable % 100) \div 100
=============================================================================
