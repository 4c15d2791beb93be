---------------------------- MODULE MCMessaging ----------------------------
(***************************************************************************)
(* Messaging with a desk per behaviour: the parts share no state, so that  *)
(* side by side they would only multiply states. The core has the messages *)
(* to itself where two of a day are within the limit, and shares them with *)
(* the worker where the second is over it. The index is checked while the  *)
(* books change, and the conversations while they do not.                  *)
(***************************************************************************)
EXTENDS Messaging, TLC

CONSTANTS a1, a2, r1, r2, i1, l1

VARIABLE desk

MCAttempts == [otp |-> {2}, invoice |-> {1, 2}, reminder |-> {1}]
MCText == {{}, {"INVOICE_LIST"}, {"BALANCE_CHECK"}, {"REPORT", "STAFF_SUMMARY"}, {"STAFF_SUMMARY"}}
MCTable == [r \in Record |-> IF r = i1 THEN "invoices" ELSE "leads"]
Symmetry == Permutations({a1, a2}) \cup Permutations({r1, r2})

DeskInit ==
    /\ desk \in {"documents", "core", "messages", "bot", "index", "talk"}
    /\ Init
    /\ total = IF desk = "messages" THEN 1 ELSE 0
    /\ desk # "bot" => who = [p \in Phone |-> "unknown"]

DeskNext ==
    /\ desk' = desk
    /\ \/ desk = "documents" /\ DocumentStep
       \/ desk = "core" /\ SendStep /\ \A w \in Worker : sender'[w] = sender[w]
       \/ desk = "messages" /\ SendStep
       \/ desk = "bot" /\ BotStep
       \/ desk = "index" /\ AssistantStep /\ asked' = asked
       \/ desk = "talk" /\ AssistantStep /\ UNCHANGED <<changes, tasks>>

DeskSpec == DeskInit /\ [][DeskNext]_<<vars, desk>>
=============================================================================
