----------------------------- MODULE MCPlatform -----------------------------
(***************************************************************************)
(* Platform with a desk per behaviour: the parts share no state, so that   *)
(* side by side they would only multiply states. Invoices and staff, which *)
(* share Redis and the requests, have a desk each, and so have the job     *)
(* queue and the starts of its processes, which share a count of faults.   *)
(***************************************************************************)
EXTENDS Platform, TLC

CONSTANTS a1, a2, i1, i2, p1, w1, w2, c1, c2, s1

VARIABLE desk

Symmetry == Permutations({a1, a2}) \cup Permutations({i1, i2}) \cup Permutations({w1, w2})

DesksInit ==
    /\ desk \in {"invoices", "staff", "queue", "crons", "pages", "signin"}
    /\ PlatformInit
    /\ desk # "signin" => store.user = None /\ route = "login" /\ owned = {}
    /\ desk # "pages" => server[p1].status = "DRAFT"

DesksNext ==
    /\ UNCHANGED desk
    /\ \/ desk = "invoices" /\ RegisterStep /\ \A r \in Request : req'[r].at \notin Staff \cup {"staff"}
       \/ desk = "staff" /\ RegisterStep /\ UNCHANGED inv
       \/ desk = "queue" /\ JobStep /\ UNCHANGED J!cronVars
       \/ desk = "crons" /\ JobStep /\ UNCHANGED J!queueVars /\ faults' <= 2
       \/ desk = "pages" /\ PageStep
       \/ desk = "signin" /\ SigninStep

DesksSpec == DesksInit /\ [][DesksNext]_<<platformVars, desk>>
=============================================================================
