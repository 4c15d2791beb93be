----------------------------- MODULE Connection -----------------------------
(***************************************************************************)
(* Both ends of the realtime connection: the hub of the server, and the    *)
(* page of a browser with the bus that brings it events. They meet in      *)
(* Live's inbox, which stands for what the hub sends; they share no state. *)
(***************************************************************************)
EXTENDS Hub

CONSTANTS
    None, Socket, Timer, Event, Token,      \* Live
    IssuedTo,                               \* tenant by token
    Cap, MaxTurns

VARIABLES
    token, used, valid, socket, ref, timer, timerRef, connected, subscribed, event, inbox,
    shown, turns, doubled

liveVars == <<token, used, valid, socket, ref, timer, timerRef, connected, subscribed, event,
              inbox, shown, turns, doubled>>

L == INSTANCE Live WITH TenantOf <- IssuedTo

ASSUME ConnectionAssumption == L!LiveAssumption

Page(action) == action /\ UNCHANGED vars
Server(action) == action /\ UNCHANGED liveVars

BothInit == Init /\ L!Init
BothNext == Server(Next) \/ Page(L!Next)
BothSpec == BothInit /\ [][BothNext]_<<vars, liveVars>>

-----------------------------------------------------------------------------
\* The hub is in a sound state; the page has one socket, and shows only its own
\* tenants' events.
PageIsOwn == TypeOK /\ L!TypeOK /\ L!OneSocket /\ L!OnlyOwnEvents
=============================================================================
