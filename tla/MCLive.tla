------------------------------- MODULE MCLive -------------------------------
(***************************************************************************)
(* Connection under fairness, one desk per behaviour: the page with its    *)
(* sockets, timers and tokens; the page and the bus that brings it events; *)
(* and the hub with one client and a process that may be stopped.          *)
(***************************************************************************)
EXTENDS Connection, TLC

CONSTANT a1

VARIABLE desk

MCTenantOf == a1 :> "A"
MCUserOf == a1 :> "u1"
\* Tokens 11 and 12 are of tenant 1, token 21 is of tenant 2.
MCIssuedTo == [t \in Token |-> t \div 10]

allVars == <<desk, vars, liveVars>>

DeskInit == desk \in {"page", "bus", "hub"} /\ BothInit

\* The page without events has one turn more.
At(name, action) == desk = name /\ action /\ desk' = desk
OnPage(action) == desk # "hub" /\ Page(action) /\ desk' = desk
OnServer(action) == At("hub", Server(action))
DeskNext ==
    \/ At("page", Page(L!Next)) /\ UNCHANGED event
    \/ At("bus", Page(L!Next)) /\ turns' < MaxTurns
    \/ OnServer(Next)

\* The fairness of Live, whose fair actions take no turn and publish nothing,
\* and of Hub, each for the desk at work.
FairDeskSpec ==
    /\ DeskInit /\ [][DeskNext]_allVars
    /\ \A s \in Socket : /\ WF_allVars(OnPage(L!OnOpen(s))) /\ WF_allVars(OnPage(L!Refused(s)))
                         /\ WF_allVars(OnPage(L!OnClose(s)))
    /\ \A t \in Timer : WF_allVars(OnPage(L!TimeoutFires(t)))
    /\ WF_allVars(OnServer(HandleRegister)) /\ WF_allVars(OnServer(HandleUnregister))
    /\ WF_allVars(OnServer(HandleBroadcast))
    /\ WF_allVars(OnServer(StartPumps(a1) \/ Greet(a1) \/ Return(a1)))
    /\ \A p \in Pump :
         WF_allVars(OnServer(Close(a1, p) \/ (ctxDone[a1] /\ PumpExits(a1, p))))

\* Live: a page that stays signed in gets a socket; Hub: a client that closes
\* leaves its room.
ConnectionsSettle == L!GetsSocket /\ ClosedLeaves
=============================================================================
