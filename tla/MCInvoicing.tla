---------------------------- MODULE MCInvoicing ----------------------------
\* Instances of Invoicing for TLC.
EXTENDS Invoicing, TLC

\* A total in the middle of the amounts, and one no payment can ever match.
MCTotal == {0, 2, 3}

Symmetry == Permutations(Invoice) \cup Permutations(Request)
=============================================================================
