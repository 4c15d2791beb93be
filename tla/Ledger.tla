------------------------------- MODULE Ledger -------------------------------
(***************************************************************************)
(* What InvoiceService promises of an invoice, as its guards state it: the *)
(* total changes in DRAFT only, an issued invoice is never withdrawn, the  *)
(* payments recorded never exceed the total, and PAID, the last stage, is  *)
(* reached by the payment that completes it.  Every operation is one step. *)
(*                                                                         *)
(* Handlers that overlap on an invoice can break the promise; such an      *)
(* invoice is disputed, and the ledger says nothing more of it.            *)
(***************************************************************************)
EXTENDS Integers

CONSTANTS
    Invoice,
    Total,          \* totals the items of an invoice can add up to
    Amount          \* amounts of a payment

VARIABLES
    stage,          \* by invoice
    total, paid     \* by invoice; the total, the sum of the Payment rows

vars == <<stage, total, paid>>

Init ==
    /\ stage = [i \in Invoice |-> "ABSENT"]
    /\ total = [i \in Invoice |-> 0] /\ paid = [i \in Invoice |-> 0]

Become(i, new) == stage' = [stage EXCEPT ![i] = new]

\* create, and update with new items.
Draw(i, t) ==
    /\ stage[i] \in {"ABSENT", "DRAFT"}
    /\ Become(i, "DRAFT") /\ total' = [total EXCEPT ![i] = t]
    /\ UNCHANGED paid

\* send and remove.
Issue(i) == stage[i] = "DRAFT" /\ Become(i, "SENT") /\ UNCHANGED <<total, paid>>
Withdraw(i) == stage[i] = "DRAFT" /\ Become(i, "CANCELLED") /\ UNCHANGED <<total, paid>>

\* addPayment, which refuses no stage but PAID.
Receive(i, n) ==
    /\ stage[i] \notin {"ABSENT", "PAID", "disputed"}
    /\ paid[i] + n <= total[i]
    /\ paid' = [paid EXCEPT ![i] = @ + n]
    /\ Become(i, IF paid[i] + n = total[i] THEN "PAID" ELSE "PARTIAL")
    /\ UNCHANGED total

\* The overdue sweep.
FallDue(i) == stage[i] \in {"SENT", "PARTIAL"} /\ Become(i, "OVERDUE") /\ UNCHANGED <<total, paid>>

Dispute(I) ==
    LET Without(f, none) == [i \in Invoice |-> IF i \in I THEN none ELSE f[i]]
    IN  stage' = Without(stage, "disputed") /\ total' = Without(total, 0) /\ paid' = Without(paid, 0)

Next ==
    \/ \E i \in Invoice : \/ \E t \in Total : Draw(i, t)
                          \/ \E n \in Amount : Receive(i, n)
                          \/ Issue(i) \/ Withdraw(i) \/ FallDue(i)
    \/ \E I \in SUBSET Invoice : Dispute(I)

Spec == Init /\ [][Next]_vars
=============================================================================
