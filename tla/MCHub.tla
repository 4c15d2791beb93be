------------------------------- MODULE MCHub -------------------------------
\* Instances of Hub for TLC: two clients of one tenant and one of another.
EXTENDS Hub, TLC

CONSTANTS a1, a2, b1

MCTenantOf == [c \in Client |-> IF c = b1 THEN "B" ELSE "A"]
MCUserOf == [c \in Client |-> IF c = a1 THEN "u1" ELSE "u2"]
=============================================================================
