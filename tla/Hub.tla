-------------------------------- MODULE Hub --------------------------------
(***************************************************************************)
(* The WebSocket hub of realtime-service: the Hub goroutine and its three  *)
(* channels, the rooms it keeps by tenant, the two pumps of every client,  *)
(* and the shutdown sequence of main.                                      *)
(*                                                                         *)
(* A channel is a bounded sequence and select takes any ready case.  The   *)
(* hub's handlers run under its lock in the one Hub goroutine, so each is  *)
(* one action; Client.Close, which both pumps call, is taken apart.        *)
(*                                                                         *)
(* The payload of an event is left out: an event is its address.           *)
(***************************************************************************)
EXTENDS Integers, Sequences, FiniteSets

CONSTANTS
    Client, Tenant, User,
    TenantOf, UserOf,       \* claims of the token each client came with
    All,                    \* address of a system-wide event
    QueueCap,               \* capacity of register and unregister (1024)
    BroadcastCap,           \* capacity of broadcast (4096)
    SendCap,                \* capacity of a client's send channel (256)
    MaxEvents               \* bound: events published, pings and signals received

ASSUME HubAssumption ==
    /\ IsFiniteSet(Client)
    /\ TenantOf \in [Client -> Tenant] /\ UserOf \in [Client -> User]
    /\ Tenant \cap User = {} /\ All \notin Tenant \cup User
    /\ {QueueCap, BroadcastCap, SendCap} \subseteq Nat \ {0} /\ MaxEvents \in Nat

VARIABLES
    \* the hub
    rooms,              \* members by tenant, for the tenants with a room
    registerQ, unregisterQ, broadcastQ,
    totalConnections,
    \* the clients
    phase,              \* ServeHTTP: new, queued, started, greeted, returned
    ctxDone,            \* the request context is cancelled
    pump,               \* where the two pumps are
    done,               \* the done channel is closed
    send,               \* frames in the send channel
    \* the process
    stage,              \* up, cancelled, noticed, stopped (hub), panicked
    published,          \* events put on broadcastQ, pings and signals
    overtaken,          \* history: unregistered before they were registered
    undercount          \* history: decrements for a client that was in no room

hubVars == <<rooms, registerQ, unregisterQ, broadcastQ, totalConnections, overtaken, undercount>>
clientVars == <<phase, ctxDone, pump, done, send>>
vars == <<hubVars, clientVars, stage, published>>

Pump == {"read", "write"}
PumpStep == {"off", "run", "check", "close", "unregister", "gone"}
Address == Tenant \cup User \cup {All}
Frame == Address \cup {"hello", "pong"}

TypeOK ==
    /\ DOMAIN rooms \subseteq Tenant
    /\ \A t \in DOMAIN rooms : rooms[t] \subseteq Client
    /\ registerQ \in Seq(Client) /\ unregisterQ \in Seq(Client)
    /\ broadcastQ \in Seq(Address)
    /\ totalConnections \in Int
    /\ phase \in [Client -> {"new", "queued", "started", "greeted", "returned"}]
    /\ ctxDone \in [Client -> BOOLEAN]
    /\ pump \in [Client -> [Pump -> PumpStep]]
    /\ done \in [Client -> BOOLEAN]
    /\ send \in [Client -> Seq(Frame)]
    /\ stage \in {"up", "cancelled", "noticed", "stopped", "panicked"}
    /\ published \in 0 .. MaxEvents
    /\ overtaken \subseteq Client /\ undercount \in Nat

Init ==
    /\ rooms = [t \in {} |-> {}]
    /\ registerQ = <<>> /\ unregisterQ = <<>> /\ broadcastQ = <<>>
    /\ totalConnections = 0
    /\ phase = [c \in Client |-> "new"]
    /\ ctxDone = [c \in Client |-> FALSE]
    /\ pump = [c \in Client |-> [p \in Pump |-> "off"]]
    /\ done = [c \in Client |-> FALSE]
    /\ send = [c \in Client |-> <<>>]
    /\ stage = "up"
    /\ published = 0
    /\ overtaken = {} /\ undercount = 0

Alive == stage # "panicked"
HubRuns == stage \notin {"stopped", "panicked"}
Members == UNION {rooms[t] : t \in DOMAIN rooms}

\* A send that drops the frame when the channel is full.
Offered(c, f) == IF Len(send[c]) < SendCap THEN Append(send[c], f) ELSE send[c]

-----------------------------------------------------------------------------
(* WSHandler.ServeHTTP and Client.Start *)

Register(c) ==
    /\ Alive /\ phase[c] = "new" /\ Len(registerQ) < QueueCap
    /\ registerQ' = Append(registerQ, c)
    /\ phase' = [phase EXCEPT ![c] = "queued"]
    /\ UNCHANGED <<rooms, unregisterQ, broadcastQ, totalConnections, overtaken, undercount,
                   ctxDone, pump, done, send, stage, published>>

StartPumps(c) ==
    /\ Alive /\ phase[c] = "queued"
    /\ phase' = [phase EXCEPT ![c] = "started"]
    /\ pump' = [pump EXCEPT ![c] = [p \in Pump |-> "run"]]
    /\ UNCHANGED <<hubVars, ctxDone, done, send, stage, published>>

Greet(c) ==
    /\ Alive /\ phase[c] = "started"
    /\ phase' = [phase EXCEPT ![c] = "greeted"]
    /\ send' = [send EXCEPT ![c] = Offered(c, "hello")]
    /\ UNCHANGED <<hubVars, ctxDone, pump, done, stage, published>>

\* net/http cancels the request context when the handler returns, hijacked
\* connection or not.
Return(c) ==
    /\ Alive /\ phase[c] = "greeted"
    /\ phase' = [phase EXCEPT ![c] = "returned"]
    /\ ctxDone' = [ctxDone EXCEPT ![c] = TRUE]
    /\ UNCHANGED <<hubVars, pump, done, send, stage, published>>

-----------------------------------------------------------------------------
(* The pumps *)

MovePump(c, p, step) == pump' = [pump EXCEPT ![c][p] = step]

\* The context is done, the other pump has closed the client, or reading or
\* writing fails (the peer may go at any time).
PumpExits(c, p) ==
    /\ Alive /\ pump[c][p] = "run"
    /\ MovePump(c, p, "check")
    /\ UNCHANGED <<hubVars, phase, ctxDone, done, send, stage, published>>

Ping(c) ==
    /\ Alive /\ pump[c]["read"] = "run" /\ published < MaxEvents
    /\ published' = published + 1
    /\ send' = [send EXCEPT ![c] = Offered(c, "pong")]
    /\ UNCHANGED <<hubVars, phase, ctxDone, pump, done, stage>>

Write(c) ==
    /\ Alive /\ pump[c]["write"] = "run" /\ send[c] # <<>>
    /\ send' = [send EXCEPT ![c] = Tail(@)]
    /\ UNCHANGED <<hubVars, phase, ctxDone, pump, done, stage, published>>

\* Client.Close: select on done, ...
CloseCheck(c, p) ==
    /\ Alive /\ pump[c][p] = "check"
    /\ MovePump(c, p, IF done[c] THEN "gone" ELSE "close")
    /\ UNCHANGED <<hubVars, phase, ctxDone, done, send, stage, published>>

\* ... close(done), which panics when the other pump has been here, ...
CloseDone(c, p) ==
    /\ Alive /\ pump[c][p] = "close"
    /\ \/ /\ done[c]
          /\ stage' = "panicked" /\ UNCHANGED <<done, pump>>
       \/ /\ ~done[c]
          /\ done' = [done EXCEPT ![c] = TRUE]
          /\ MovePump(c, p, "unregister") /\ UNCHANGED stage
    /\ UNCHANGED <<hubVars, phase, ctxDone, send, published>>

\* ... and unregister.
Unregister(c, p) ==
    /\ Alive /\ pump[c][p] = "unregister" /\ Len(unregisterQ) < QueueCap
    /\ unregisterQ' = Append(unregisterQ, c)
    /\ MovePump(c, p, "gone")
    /\ UNCHANGED <<rooms, registerQ, broadcastQ, totalConnections, overtaken, undercount,
                   phase, ctxDone, done, send, stage, published>>

-----------------------------------------------------------------------------
(* Hub.Run *)

\* Mutant: the room is that of the user, not of the tenant.
HandleRegisterByUser ==
    LET c == Head(registerQ)
        t == UserOf[c]
    IN
    /\ HubRuns /\ registerQ # <<>>
    /\ registerQ' = Tail(registerQ)
    /\ rooms' = [s \in DOMAIN rooms \cup {t} |->
                    (IF s \in DOMAIN rooms THEN rooms[s] ELSE {})
                        \cup (IF s = t THEN {c} ELSE {})]
    /\ totalConnections' = totalConnections + 1
    /\ UNCHANGED <<unregisterQ, broadcastQ, overtaken, undercount, clientVars, stage, published>>

HandleRegister ==
    LET c == Head(registerQ)
        t == TenantOf[c]
    IN
    /\ HubRuns /\ registerQ # <<>>
    /\ registerQ' = Tail(registerQ)
    /\ rooms' = [s \in DOMAIN rooms \cup {t} |->
                    (IF s \in DOMAIN rooms THEN rooms[s] ELSE {})
                        \cup (IF s = t THEN {c} ELSE {})]
    /\ totalConnections' = totalConnections + 1
    /\ UNCHANGED <<unregisterQ, broadcastQ, overtaken, undercount, clientVars, stage, published>>

\* Mutant: an emptied room is kept.
HandleUnregisterKeepRoom ==
    LET c == Head(unregisterQ)
        t == TenantOf[c]
    IN
    /\ HubRuns /\ unregisterQ # <<>>
    /\ unregisterQ' = Tail(unregisterQ)
    /\ rooms' = [s \in DOMAIN rooms |-> rooms[s] \ {c}]
    /\ totalConnections' = totalConnections - (IF t \in DOMAIN rooms THEN 1 ELSE 0)
    /\ undercount' = undercount + (IF t \in DOMAIN rooms /\ c \notin rooms[t] THEN 1 ELSE 0)
    /\ overtaken' = overtaken \cup (IF c \in Members THEN {} ELSE {c})
    /\ UNCHANGED <<registerQ, broadcastQ, clientVars, stage, published>>

\* Mutant: the counter goes down whether or not the tenant has a room.
HandleUnregisterAlways ==
    LET c == Head(unregisterQ)
        t == TenantOf[c]
        left == [s \in DOMAIN rooms |-> rooms[s] \ {c}]
    IN
    /\ HubRuns /\ unregisterQ # <<>>
    /\ unregisterQ' = Tail(unregisterQ)
    /\ rooms' = [s \in {s \in DOMAIN rooms : left[s] # {}} |-> left[s]]
    /\ totalConnections' = totalConnections - 1
    /\ undercount' = undercount + (IF t \in DOMAIN rooms /\ c \notin rooms[t] THEN 1 ELSE 0)
    /\ overtaken' = overtaken \cup (IF c \in Members THEN {} ELSE {c})
    /\ UNCHANGED <<registerQ, broadcastQ, clientVars, stage, published>>

\* Mutant: the client stays in its room.
HandleUnregisterForget ==
    /\ HubRuns /\ unregisterQ # <<>>
    /\ unregisterQ' = Tail(unregisterQ)
    /\ overtaken' = overtaken \cup (IF Head(unregisterQ) \in Members THEN {} ELSE {Head(unregisterQ)})
    /\ UNCHANGED <<rooms, totalConnections, undercount, registerQ, broadcastQ,
                   clientVars, stage, published>>

\* The counter goes down whenever the tenant has a room, the client in it or not.
HandleUnregister ==
    LET c == Head(unregisterQ)
        t == TenantOf[c]
        left == [s \in DOMAIN rooms |-> rooms[s] \ {c}]
    IN
    /\ HubRuns /\ unregisterQ # <<>>
    /\ unregisterQ' = Tail(unregisterQ)
    /\ rooms' = [s \in {s \in DOMAIN rooms : s # t \/ left[s] # {}} |-> left[s]]
    /\ totalConnections' = totalConnections - (IF t \in DOMAIN rooms THEN 1 ELSE 0)
    /\ undercount' = undercount + (IF t \in DOMAIN rooms /\ c \notin rooms[t] THEN 1 ELSE 0)
    /\ overtaken' = overtaken \cup (IF c \in Members THEN {} ELSE {c})
    /\ UNCHANGED <<registerQ, broadcastQ, clientVars, stage, published>>

\* Mutant: a tenant's event goes to every room.
AddressedAll(c, a) == c \in Members

\* A tenant's event goes to its room, a user's and a system-wide one to all rooms.
Addressed(c, a) ==
    \/ a \in DOMAIN rooms /\ c \in rooms[a]
    \/ c \in Members /\ a \in {All, UserOf[c]}

HandleBroadcast ==
    LET a == Head(broadcastQ) IN
    /\ HubRuns /\ broadcastQ # <<>>
    /\ broadcastQ' = Tail(broadcastQ)
    /\ send' = [c \in Client |-> IF Addressed(c, a) THEN Offered(c, a) ELSE send[c]]
    /\ UNCHANGED <<rooms, registerQ, unregisterQ, totalConnections, overtaken, undercount,
                   phase, ctxDone, pump, done, stage, published>>

-----------------------------------------------------------------------------
(* The subscriber, and main *)

\* An event with a userId goes to the user, any other to the tenant.
Publish(a) ==
    /\ Alive /\ Len(broadcastQ) < BroadcastCap /\ published < MaxEvents
    /\ broadcastQ' = Append(broadcastQ, a)
    /\ published' = published + 1
    /\ UNCHANGED <<rooms, registerQ, unregisterQ, totalConnections, overtaken, undercount,
                   clientVars, stage>>

\* A signal: main cancels the hub's context first, ...
Cancel ==
    /\ stage = "up" /\ published < MaxEvents
    /\ stage' = "cancelled"
    /\ published' = published + 1
    /\ UNCHANGED <<hubVars, clientVars>>

\* ... and queues system.shutdown after that.
Notice ==
    /\ stage = "cancelled" /\ Len(broadcastQ) < BroadcastCap
    /\ stage' = "noticed"
    /\ broadcastQ' = Append(broadcastQ, All)
    /\ UNCHANGED <<rooms, registerQ, unregisterQ, totalConnections, overtaken, undercount,
                   clientVars, published>>

\* Run's select may take ctx.Done() at any time from then on.
HubStops ==
    /\ stage \in {"cancelled", "noticed"}
    /\ stage' = "stopped"
    /\ UNCHANGED <<hubVars, clientVars, published>>

-----------------------------------------------------------------------------

Handle == HandleRegister \/ HandleUnregister \/ HandleBroadcast

Serve(c) == Register(c) \/ StartPumps(c) \/ Greet(c) \/ Return(c)

Close(c, p) == CloseCheck(c, p) \/ CloseDone(c, p) \/ Unregister(c, p)

Next ==
    \/ \E c \in Client : Serve(c) \/ Ping(c) \/ Write(c)
                         \/ \E p \in Pump : PumpExits(c, p) \/ Close(c, p)
    \/ Handle
    \/ \E a \in Tenant \cup User : Publish(a)
    \/ Cancel \/ Notice \/ HubStops

Spec == Init /\ [][Next]_vars

\* Goroutines that can run do. Select is random, so that a case that stays
\* ready is taken in the end; nothing obliges a client to come or a peer to go,
\* but a pump whose context is done leaves its loop.
FairSpec ==
    /\ Spec
    /\ WF_vars(HandleRegister) /\ WF_vars(HandleUnregister) /\ WF_vars(HandleBroadcast)
    /\ \A c \in Client :
         /\ WF_vars(StartPumps(c) \/ Greet(c) \/ Return(c))
         /\ \A p \in Pump : WF_vars(Close(c, p) \/ (ctxDone[c] /\ PumpExits(c, p)))

-----------------------------------------------------------------------------
(* Properties *)

\* The hub keeps no room without members.
NoEmptyRoom == \A t \in DOMAIN rooms : rooms[t] # {}

\* The connection counter is the number of clients in the rooms, less one for
\* every client of a tenant with a room that unregistered before it registered.
CounterMatchesRooms ==
    totalConnections =
        Cardinality(Members) - undercount

\* A client whose unregister was handled is in no room, unless its register
\* came second.
NoGhost ==
    \A c \in Client \ overtaken :
        (\A p \in Pump : pump[c][p] = "gone") /\ c \notin {unregisterQ[n] : n \in DOMAIN unregisterQ}
            => c \notin Members

\* Nobody is sent an event of another tenant or another user.
TenantIsolation ==
    \A c \in Client :
        {send[c][n] : n \in DOMAIN send[c]}
            \subseteq {"hello", "pong", All, TenantOf[c], UserOf[c]}

\* A client that closes leaves its room, while the hub runs.
ClosedLeaves ==
    \A c \in Client : done[c] ~> (c \notin Members \/ c \in overtaken \/ stage # "up")

\* client.go:53 "already closed": closing a client twice is harmless.
CloseTwiceIsHarmless == stage # "panicked"

=============================================================================
