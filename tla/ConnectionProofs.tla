-------------------------- MODULE ConnectionProofs --------------------------
(***************************************************************************)
(* The hub for any number of clients, tenants and users, any capacities    *)
(* and any number of events; and the page of a browser for any number of   *)
(* sockets, timers, tokens and events.                                     *)
(***************************************************************************)
EXTENDS Connection, FiniteSetTheorems, SequenceTheorems, TLAPS

-----------------------------------------------------------------------------
(* Queues *)

Elements(q) == {q[n] : n \in DOMAIN q}
NoRepeat(q) == \A m, n \in DOMAIN q : q[m] = q[n] => m = n

\* What is appended is the only new element.
LEMMA AppendElements ==
    ASSUME NEW S, NEW q \in Seq(S), NEW e \in S
    PROVE  /\ Append(q, e) \in Seq(S)
           /\ Elements(Append(q, e)) = Elements(q) \cup {e}
           /\ NoRepeat(q) /\ e \notin Elements(q) => NoRepeat(Append(q, e))
<1> DEFINE new == Append(q, e)
<1>1. /\ new \in Seq(S) /\ Len(new) = Len(q) + 1 /\ Len(q) \in Nat
      /\ \A n \in 1 .. Len(q) : new[n] = q[n]
      /\ new[Len(q) + 1] = e
  BY AppendProperties, LenProperties
<1>2. DOMAIN q = 1 .. Len(q) /\ DOMAIN new = 1 .. Len(q) + 1
  BY <1>1, LenProperties
<1> HIDE DEF new
<1>3. Elements(new) = Elements(q) \cup {e}
  <2>1. \A x \in Elements(new) : x \in Elements(q) \cup {e}
    BY <1>1, <1>2 DEF Elements
  <2>2. \A x \in Elements(q) : x \in Elements(new)
    <3> SUFFICES ASSUME NEW n \in DOMAIN q PROVE q[n] \in Elements(new)
      BY DEF Elements
    <3>1. n \in DOMAIN new /\ new[n] = q[n]
      BY <1>1, <1>2
    <3>2. QED
      BY <3>1 DEF Elements
  <2>3. e \in Elements(new)
    <3>1. Len(q) + 1 \in DOMAIN new
      BY <1>1, <1>2
    <3>2. QED
      BY <1>1, <3>1 DEF Elements
  <2>4. QED
    BY <2>1, <2>2, <2>3
<1>4. ASSUME NoRepeat(q), e \notin Elements(q), NEW m \in DOMAIN new, NEW n \in DOMAIN new,
             new[m] = new[n]
      PROVE  m = n
  <2>1. \A i \in 1 .. Len(q) : q[i] # e
    BY <1>2, <1>4 DEF Elements
  <2>2. QED
    BY <1>1, <1>2, <1>4, <2>1 DEF NoRepeat
<1>5. QED
  BY <1>1, <1>3, <1>4 DEF new, NoRepeat

\* What is taken from the front is the only element to go.
LEMMA TailElements ==
    ASSUME NEW S, NEW q \in Seq(S), q # <<>>
    PROVE  /\ Head(q) \in S /\ Tail(q) \in Seq(S)
           /\ Elements(q) = Elements(Tail(q)) \cup {Head(q)}
           /\ NoRepeat(q) => NoRepeat(Tail(q)) /\ Head(q) \notin Elements(Tail(q))
<1> DEFINE rest == Tail(q)
<1>1. /\ Head(q) \in S /\ rest \in Seq(S) /\ Len(rest) = Len(q) - 1
      /\ \A n \in 1 .. Len(rest) : rest[n] = q[n + 1]
  BY HeadTailProperties
<1>2. DOMAIN q = 1 .. Len(q) /\ DOMAIN rest = 1 .. Len(q) - 1 /\ Len(q) \in Nat /\ Len(q) > 0
  BY <1>1, LenProperties, EmptySeq
<1>3. Head(q) = q[1]
  BY HeadTailProperties
<1> HIDE DEF rest
<1>4. Elements(q) = Elements(rest) \cup {Head(q)}
  <2>1. ASSUME NEW n \in DOMAIN q PROVE q[n] \in Elements(rest) \cup {Head(q)}
    <3>1. CASE n = 1
      BY <1>3, <3>1
    <3>2. CASE n # 1
      <4>1. n - 1 \in DOMAIN rest /\ rest[n - 1] = q[n]
        BY <1>1, <1>2, <3>2
      <4>2. QED
        BY <4>1 DEF Elements
    <3>3. QED
      BY <3>1, <3>2
  <2>2. ASSUME NEW n \in DOMAIN rest PROVE rest[n] \in Elements(q)
    <3>1. n + 1 \in DOMAIN q /\ rest[n] = q[n + 1]
      BY <1>1, <1>2
    <3>2. QED
      BY <3>1 DEF Elements
  <2>3. Head(q) \in Elements(q)
    <3>1. 1 \in DOMAIN q
      BY <1>2
    <3>2. QED
      BY <1>3, <3>1 DEF Elements
  <2>4. QED
    BY <2>1, <2>2, <2>3 DEF Elements
<1>5. ASSUME NoRepeat(q) PROVE NoRepeat(rest) /\ Head(q) \notin Elements(rest)
  <2>1. \A n \in DOMAIN rest : n + 1 \in DOMAIN q /\ rest[n] = q[n + 1] /\ n \in Nat /\ n >= 1
    BY <1>1, <1>2
  <2>2. NoRepeat(rest)
    <3> SUFFICES ASSUME NEW m \in DOMAIN rest, NEW n \in DOMAIN rest, rest[m] = rest[n]
                 PROVE  m = n
      BY DEF NoRepeat
    <3>1. m + 1 = n + 1
      BY <1>5, <2>1 DEF NoRepeat
    <3>2. QED
      BY <2>1, <3>1
  <2>3. Head(q) \notin Elements(rest)
    <3> SUFFICES ASSUME NEW n \in DOMAIN rest, Head(q) = rest[n] PROVE FALSE
      BY DEF Elements
    <3>1. 1 = n + 1
      BY <1>2, <1>3, <1>5, <2>1 DEF NoRepeat
    <3>2. QED
      BY <2>1, <3>1
  <2>4. QED
    BY <2>2, <2>3
<1>6. QED
  BY <1>1, <1>4, <1>5 DEF rest

-----------------------------------------------------------------------------
(* Types *)

\* Next, one disjunct per action.
LEMMA NextCases ==
    ASSUME Next
    PROVE  \/ \E c \in Client :
                 \/ Register(c) \/ StartPumps(c) \/ Greet(c) \/ Return(c) \/ Ping(c) \/ Write(c)
                 \/ \E p \in Pump : \/ PumpExits(c, p) \/ CloseCheck(c, p) \/ CloseDone(c, p)
                                    \/ Unregister(c, p)
           \/ HandleRegister \/ HandleUnregister \/ HandleBroadcast
           \/ \E a \in Tenant \cup User : Publish(a)
           \/ Cancel \/ Notice \/ HubStops
BY DEF Next, Serve, Close, Handle

LEMMA PumpType ==
    ASSUME TypeOK, NEW c \in Client, NEW p \in Pump, NEW step \in PumpStep, MovePump(c, p, step)
    PROVE  pump' \in [Client -> [Pump -> PumpStep]]
<1>1. pump[c] \in [Pump -> PumpStep]
  BY DEF TypeOK
<1>2. [pump[c] EXCEPT ![p] = step] \in [Pump -> PumpStep]
  BY <1>1
<1>3. pump' = [pump EXCEPT ![c] = [pump[c] EXCEPT ![p] = step]]
  BY DEF MovePump
<1>4. QED
  BY <1>2, <1>3 DEF TypeOK

LEMMA OfferedType ==
    ASSUME NEW S, NEW c, send[c] \in Seq(S), NEW f \in S
    PROVE  Offered(c, f) \in Seq(S)
BY AppendProperties DEF Offered

\* What the rooms are after a registration and after an unregistration.
LEMMA AfterRegister ==
    ASSUME TypeOK, HandleRegister, NEW c, c = Head(registerQ)
    PROVE  /\ c \in Client /\ TenantOf[c] \in Tenant
           /\ DOMAIN rooms' = DOMAIN rooms \cup {TenantOf[c]}
           /\ \A t \in DOMAIN rooms' :
                  rooms'[t] = (IF t \in DOMAIN rooms THEN rooms[t] ELSE {})
                                  \cup (IF t = TenantOf[c] THEN {c} ELSE {})
           /\ Members' = Members \cup {c}
<1>1. c \in Client /\ TenantOf[c] \in Tenant
  BY TailElements, HubAssumption DEF HandleRegister, TypeOK
<1>2. rooms' = [t \in DOMAIN rooms \cup {TenantOf[c]} |->
                   (IF t \in DOMAIN rooms THEN rooms[t] ELSE {})
                       \cup (IF t = TenantOf[c] THEN {c} ELSE {})]
  BY DEF HandleRegister
<1>3. /\ DOMAIN rooms' = DOMAIN rooms \cup {TenantOf[c]}
      /\ \A t \in DOMAIN rooms' :
             rooms'[t] = (IF t \in DOMAIN rooms THEN rooms[t] ELSE {})
                             \cup (IF t = TenantOf[c] THEN {c} ELSE {})
  BY <1>2
<1>4. Members' = Members \cup {c}
  <2>1. \A x : x \in Members' <=> \E t \in DOMAIN rooms' : x \in rooms'[t]
    BY DEF Members
  <2>2. \A x : x \in Members <=> \E t \in DOMAIN rooms : x \in rooms[t]
    BY DEF Members
  <2>3. QED
    BY <1>3, <2>1, <2>2
<1>5. QED
  BY <1>1, <1>3, <1>4

LEMMA AfterUnregister ==
    ASSUME TypeOK, HandleUnregister, NEW c, c = Head(unregisterQ)
    PROVE  /\ c \in Client /\ TenantOf[c] \in Tenant
           /\ DOMAIN rooms' = {t \in DOMAIN rooms : t # TenantOf[c] \/ rooms[t] \ {c} # {}}
           /\ \A t \in DOMAIN rooms' : rooms'[t] = rooms[t] \ {c}
           /\ Members' = Members \ {c}
<1>1. c \in Client /\ TenantOf[c] \in Tenant
  BY TailElements, HubAssumption DEF HandleUnregister, TypeOK
<1>2. /\ DOMAIN rooms' = {t \in DOMAIN rooms : t # TenantOf[c] \/ rooms[t] \ {c} # {}}
      /\ \A t \in DOMAIN rooms' : rooms'[t] = rooms[t] \ {c}
  BY DEF HandleUnregister
<1>3. Members' = Members \ {c}
  <2>1. \A x : x \in Members' <=> \E t \in DOMAIN rooms' : x \in rooms'[t]
    BY DEF Members
  <2>2. \A x : x \in Members <=> \E t \in DOMAIN rooms : x \in rooms[t]
    BY DEF Members
  <2>3. QED
    BY <1>2, <2>1, <2>2
<1>4. QED
  BY <1>1, <1>2, <1>3

LEMMA InitTypeOK == Init => TypeOK
<1> SUFFICES ASSUME Init PROVE TypeOK
  OBVIOUS
<1>1. pump \in [Client -> [Pump -> PumpStep]]
  BY DEF Init, PumpStep
<1>2. send \in [Client -> Seq(Frame)] /\ broadcastQ \in Seq(Address)
      /\ registerQ \in Seq(Client) /\ unregisterQ \in Seq(Client)
  BY EmptySeq DEF Init
<1>3. /\ phase \in [Client -> {"new", "queued", "started", "greeted", "returned"}]
      /\ ctxDone \in [Client -> BOOLEAN] /\ done \in [Client -> BOOLEAN]
  BY DEF Init
<1>4. DOMAIN rooms = {}
  BY DEF Init
<1>5. published \in 0 .. MaxEvents /\ undercount \in Nat /\ totalConnections \in Int
  BY HubAssumption DEF Init
<1>6. QED
  BY <1>1, <1>2, <1>3, <1>4, <1>5 DEF Init, TypeOK

LEMMA NextTypeOK == TypeOK /\ [Next]_vars => TypeOK'
<1> SUFFICES ASSUME TypeOK, [Next]_vars PROVE TypeOK'
  OBVIOUS
<1> USE HubAssumption
<1>1. ASSUME NEW c \in Client, Register(c) PROVE TypeOK'
  <2>1. registerQ' \in Seq(Client)
    BY <1>1, AppendProperties DEF Register, TypeOK
  <2>2. QED
    BY <1>1, <2>1 DEF Register, TypeOK
<1>2. ASSUME NEW c \in Client, StartPumps(c) PROVE TypeOK'
  <2>1. pump' \in [Client -> [Pump -> PumpStep]]
    BY <1>2 DEF StartPumps, TypeOK, PumpStep
  <2>2. QED
    BY <1>2, <2>1 DEF StartPumps, TypeOK, hubVars
<1>3. ASSUME NEW c \in Client, Greet(c) PROVE TypeOK'
  <2>1. Offered(c, "hello") \in Seq(Frame)
    BY OfferedType DEF TypeOK, Frame
  <2>2. send' \in [Client -> Seq(Frame)]
    BY <1>3, <2>1 DEF Greet, TypeOK
  <2>3. QED
    BY <1>3, <2>2 DEF Greet, TypeOK, hubVars
<1>4. ASSUME NEW c \in Client, Return(c) PROVE TypeOK'
  BY <1>4 DEF Return, TypeOK, hubVars
<1>5. ASSUME NEW c \in Client, Ping(c) PROVE TypeOK'
  <2>1. Offered(c, "pong") \in Seq(Frame)
    BY OfferedType DEF TypeOK, Frame
  <2>2. send' \in [Client -> Seq(Frame)] /\ published' \in 0 .. MaxEvents
    BY <1>5, <2>1 DEF Ping, TypeOK
  <2>3. QED
    BY <1>5, <2>2 DEF Ping, TypeOK, hubVars
<1>6. ASSUME NEW c \in Client, Write(c) PROVE TypeOK'
  <2>1. Tail(send[c]) \in Seq(Frame)
    BY <1>6, TailElements DEF Write, TypeOK
  <2>2. send' \in [Client -> Seq(Frame)]
    BY <1>6, <2>1 DEF Write, TypeOK
  <2>3. QED
    BY <1>6, <2>2 DEF Write, TypeOK, hubVars
<1>7. ASSUME NEW c \in Client, NEW p \in Pump, PumpExits(c, p) PROVE TypeOK'
  <2>1. pump' \in [Client -> [Pump -> PumpStep]]
    BY <1>7, PumpType DEF PumpExits, PumpStep
  <2>2. QED
    BY <1>7, <2>1 DEF PumpExits, TypeOK, hubVars
<1>8. ASSUME NEW c \in Client, NEW p \in Pump, CloseCheck(c, p) PROVE TypeOK'
  <2>1. pump' \in [Client -> [Pump -> PumpStep]]
    BY <1>8, PumpType DEF CloseCheck, PumpStep
  <2>2. QED
    BY <1>8, <2>1 DEF CloseCheck, TypeOK, hubVars
<1>9. ASSUME NEW c \in Client, NEW p \in Pump, CloseDone(c, p) PROVE TypeOK'
  <2>1. pump' \in [Client -> [Pump -> PumpStep]]
    <3>1. CASE pump' = pump
      BY <3>1 DEF TypeOK
    <3>2. CASE MovePump(c, p, "unregister")
      BY <3>2, PumpType DEF PumpStep
    <3>3. QED
      BY <1>9, <3>1, <3>2 DEF CloseDone
  <2>2. done' \in [Client -> BOOLEAN]
        /\ stage' \in {"up", "cancelled", "noticed", "stopped", "panicked"}
    BY <1>9 DEF CloseDone, TypeOK
  <2>3. QED
    BY <1>9, <2>1, <2>2 DEF CloseDone, TypeOK, hubVars
<1>10. ASSUME NEW c \in Client, NEW p \in Pump, Unregister(c, p) PROVE TypeOK'
  <2>1. pump' \in [Client -> [Pump -> PumpStep]]
    BY <1>10, PumpType DEF Unregister, PumpStep
  <2>2. unregisterQ' \in Seq(Client)
    BY <1>10, AppendProperties DEF Unregister, TypeOK
  <2>3. QED
    BY <1>10, <2>1, <2>2 DEF Unregister, TypeOK
<1>11. CASE HandleRegister
  <2> DEFINE c == Head(registerQ)
  <2>1. DOMAIN rooms' \subseteq Tenant /\ \A t \in DOMAIN rooms' : rooms'[t] \subseteq Client
    <3>1. /\ c \in Client /\ TenantOf[c] \in Tenant
          /\ DOMAIN rooms' = DOMAIN rooms \cup {TenantOf[c]}
          /\ \A t \in DOMAIN rooms' :
                 rooms'[t] = (IF t \in DOMAIN rooms THEN rooms[t] ELSE {})
                                 \cup (IF t = TenantOf[c] THEN {c} ELSE {})
      BY <1>11, AfterRegister
    <3>2. QED
      BY <3>1 DEF TypeOK
  <2>2. registerQ' \in Seq(Client)
    BY <1>11, TailElements DEF HandleRegister, TypeOK
  <2>3. totalConnections' \in Int
    BY <1>11 DEF HandleRegister, TypeOK
  <2>4. QED
    BY <1>11, <2>1, <2>2, <2>3 DEF HandleRegister, TypeOK, clientVars
<1>12. CASE HandleUnregister
  <2> DEFINE c == Head(unregisterQ)
  <2>1. DOMAIN rooms' \subseteq Tenant /\ \A t \in DOMAIN rooms' : rooms'[t] \subseteq Client
    BY <1>12, AfterUnregister DEF TypeOK
  <2>2. unregisterQ' \in Seq(Client) /\ c \in Client
    BY <1>12, TailElements DEF HandleUnregister, TypeOK
  <2>3. totalConnections' \in Int /\ undercount' \in Nat
    BY <1>12 DEF HandleUnregister, TypeOK
  <2>4. overtaken' \subseteq Client
    BY <1>12, <2>2 DEF HandleUnregister, TypeOK
  <2>5. QED
    BY <1>12, <2>1, <2>2, <2>3, <2>4 DEF HandleUnregister, TypeOK, clientVars
<1>13. CASE HandleBroadcast
  <2> DEFINE a == Head(broadcastQ)
  <2>1. broadcastQ' \in Seq(Address) /\ a \in Frame
    BY <1>13, TailElements DEF HandleBroadcast, TypeOK, Frame
  <2>2. \A c \in Client : send[c] \in Seq(Frame) /\ Offered(c, a) \in Seq(Frame)
    BY <2>1, OfferedType DEF TypeOK
  <2>3. send' \in [Client -> Seq(Frame)]
    BY <1>13, <2>2 DEF HandleBroadcast
  <2>4. QED
    BY <1>13, <2>1, <2>3 DEF HandleBroadcast, TypeOK
<1>14. ASSUME NEW a \in Tenant \cup User, Publish(a) PROVE TypeOK'
  <2>1. broadcastQ' \in Seq(Address) /\ published' \in 0 .. MaxEvents
    BY <1>14, AppendProperties DEF Publish, TypeOK, Address
  <2>2. QED
    BY <1>14, <2>1 DEF Publish, TypeOK, clientVars
<1>15. CASE Cancel \/ HubStops
  BY <1>15 DEF Cancel, HubStops, TypeOK, hubVars, clientVars
<1>16. CASE Notice
  <2>1. broadcastQ' \in Seq(Address)
    BY <1>16, AppendProperties DEF Notice, TypeOK, Address
  <2>2. QED
    BY <1>16, <2>1 DEF Notice, TypeOK, clientVars
<1>17. CASE UNCHANGED vars
  BY <1>17 DEF vars, hubVars, clientVars, TypeOK
<1>18. QED
  BY <1>1, <1>2, <1>3, <1>4, <1>5, <1>6, <1>7, <1>8, <1>9, <1>10, <1>11, <1>12, <1>13, <1>14,
     <1>15, <1>16, <1>17, NextCases

\* Rooms, queues, clients and counters keep their types.
THEOREM TypeCorrect == Spec => []TypeOK
BY InitTypeOK, NextTypeOK, PTL DEF Spec

-----------------------------------------------------------------------------
(* NoEmptyRoom and CounterMatchesRooms: a client registers once, in the room *)
(* of its tenant.                                                            *)

ByTenant == \A t \in DOMAIN rooms : \A c \in rooms[t] : TenantOf[c] = t

RegisterOnce ==
    /\ NoRepeat(registerQ)
    /\ \A c \in Elements(registerQ) : c \notin Members /\ phase[c] # "new"
    /\ \A c \in Members : phase[c] # "new"

RoomsInv == TypeOK /\ ByTenant /\ RegisterOnce /\ NoEmptyRoom /\ CounterMatchesRooms

\* A client can be in no other room than its tenant's.
LEMMA InOwnRoom ==
    ASSUME TypeOK, ByTenant, NEW c
    PROVE  c \in Members <=> TenantOf[c] \in DOMAIN rooms /\ c \in rooms[TenantOf[c]]
BY DEF Members, ByTenant

LEMMA MembersFinite ==
    ASSUME TypeOK
    PROVE  Members \subseteq Client /\ IsFiniteSet(Members) /\ Cardinality(Members) \in Nat
<1>1. Members \in SUBSET Client
  BY DEF Members, TypeOK
<1>2. QED
  BY <1>1, HubAssumption, FS_Subset, FS_CardinalityType

\* Steps that leave the rooms and what surrounds them alone.
LEMMA RoomsStay ==
    ASSUME RoomsInv, UNCHANGED <<rooms, registerQ, totalConnections, undercount>>,
           \A c \in Client : phase[c] # "new" => phase'[c] # "new"
    PROVE  ByTenant' /\ RegisterOnce' /\ NoEmptyRoom' /\ CounterMatchesRooms'
<1>1. Members' = Members
  BY DEF Members
<1>2. Members \subseteq Client /\ Elements(registerQ) \subseteq Client
  BY MembersFinite DEF RoomsInv, TypeOK, Elements
<1>3. RegisterOnce'
  BY <1>1, <1>2 DEF RoomsInv, RegisterOnce
<1>4. QED
  BY <1>1, <1>3 DEF RoomsInv, ByTenant, NoEmptyRoom, CounterMatchesRooms

LEMMA NextRoomsInv == RoomsInv /\ [Next]_vars => RoomsInv'
<1> SUFFICES ASSUME RoomsInv, [Next]_vars
             PROVE  ByTenant' /\ RegisterOnce' /\ NoEmptyRoom' /\ CounterMatchesRooms'
  BY NextTypeOK DEF RoomsInv
<1>0. TypeOK /\ ByTenant /\ RegisterOnce /\ NoEmptyRoom /\ CounterMatchesRooms
  BY DEF RoomsInv
<1>1. ASSUME NEW c \in Client, Register(c)
      PROVE  ByTenant' /\ RegisterOnce' /\ NoEmptyRoom' /\ CounterMatchesRooms'
  <2>1. Members' = Members
    BY <1>1 DEF Register, Members
  <2>2. c \notin Elements(registerQ) /\ c \notin Members
    BY <1>0, <1>1 DEF Register, RegisterOnce
  <2>3. NoRepeat(registerQ') /\ Elements(registerQ') = Elements(registerQ) \cup {c}
    BY <1>0, <1>1, <2>2, AppendElements DEF Register, RegisterOnce, TypeOK
  <2>4. \A d \in Client : phase'[d] = IF d = c THEN "queued" ELSE phase[d]
    BY <1>0, <1>1 DEF Register, TypeOK
  <2>5. Members \subseteq Client /\ Elements(registerQ) \subseteq Client
    BY <1>0, MembersFinite DEF TypeOK, Elements
  <2>6. RegisterOnce'
    BY <1>0, <2>1, <2>2, <2>3, <2>4, <2>5 DEF RegisterOnce
  <2>7. QED
    BY <1>0, <1>1, <2>1, <2>6 DEF Register, ByTenant, NoEmptyRoom, CounterMatchesRooms
<1>2. CASE HandleRegister
  <2> DEFINE c == Head(registerQ)
             t == TenantOf[c]
  <2>1. /\ c \in Client
        /\ DOMAIN rooms' = DOMAIN rooms \cup {t}
        /\ \A s \in DOMAIN rooms' : rooms'[s] = (IF s \in DOMAIN rooms THEN rooms[s] ELSE {})
                                                    \cup (IF s = t THEN {c} ELSE {})
        /\ Members' = Members \cup {c}
    BY <1>0, <1>2, AfterRegister
  <2>2. /\ Elements(registerQ) = Elements(registerQ') \cup {c}
        /\ NoRepeat(registerQ') /\ c \notin Elements(registerQ')
    BY <1>0, <1>2, TailElements DEF HandleRegister, RegisterOnce, TypeOK
  <2>3. phase' = phase /\ undercount' = undercount /\ totalConnections' = totalConnections + 1
    BY <1>2 DEF HandleRegister, clientVars
  <2> HIDE DEF c
  <2>4. ByTenant'
    BY <1>0, <2>1 DEF ByTenant
  <2>5. NoEmptyRoom'
    BY <1>0, <2>1 DEF NoEmptyRoom
  <2>6. c \notin Members
    BY <1>0, <2>2 DEF RegisterOnce
  <2>7. RegisterOnce'
    BY <1>0, <2>1, <2>2, <2>3 DEF RegisterOnce
  <2>8. Cardinality(Members') = Cardinality(Members) + 1
    BY <1>0, <2>1, <2>6, MembersFinite, FS_AddElement
  <2>9. CounterMatchesRooms'
    BY <1>0, <2>3, <2>8, MembersFinite DEF CounterMatchesRooms, TypeOK
  <2>10. QED
    BY <2>4, <2>5, <2>7, <2>9
<1>3. CASE HandleUnregister
  <2> DEFINE c == Head(unregisterQ)
             t == TenantOf[c]
  <2>1. /\ c \in Client
        /\ DOMAIN rooms' = {s \in DOMAIN rooms : s # t \/ rooms[s] \ {c} # {}}
        /\ \A s \in DOMAIN rooms' : rooms'[s] = rooms[s] \ {c}
        /\ Members' = Members \ {c}
    BY <1>0, <1>3, AfterUnregister
  <2>2. /\ phase' = phase /\ registerQ' = registerQ
        /\ totalConnections' = totalConnections - (IF t \in DOMAIN rooms THEN 1 ELSE 0)
        /\ undercount' = undercount + (IF t \in DOMAIN rooms /\ c \notin rooms[t] THEN 1 ELSE 0)
    BY <1>3 DEF HandleUnregister, clientVars
  <2> HIDE DEF c
  <2>3. ByTenant'
    BY <1>0, <2>1 DEF ByTenant
  <2>4. NoEmptyRoom'
    <3> SUFFICES ASSUME NEW s \in DOMAIN rooms' PROVE rooms[s] \ {c} # {}
      BY <2>1 DEF NoEmptyRoom
    <3>1. CASE s = t
      BY <2>1, <3>1
    <3>2. CASE s # t
      <4>1. c \notin rooms[s] /\ rooms[s] # {}
        BY <1>0, <2>1, <3>2 DEF ByTenant, NoEmptyRoom
      <4>2. QED
        BY <4>1
    <3>3. QED
      BY <3>1, <3>2
  <2>5. RegisterOnce'
    BY <1>0, <2>1, <2>2 DEF RegisterOnce
  <2>6. CounterMatchesRooms'
    <3>1. c \in Members <=> t \in DOMAIN rooms /\ c \in rooms[t]
      BY <1>0, InOwnRoom
    <3>2. CASE c \in Members
      <4>1. Cardinality(Members') = Cardinality(Members) - 1
        BY <1>0, <2>1, <3>2, MembersFinite, FS_RemoveElement
      <4>2. totalConnections' = totalConnections - 1 /\ undercount' = undercount + 0
        BY <2>2, <3>1, <3>2
      <4>3. QED
        BY <1>0, <4>1, <4>2, MembersFinite DEF CounterMatchesRooms, TypeOK
    <3>3. CASE c \notin Members
      <4>1. Cardinality(Members') = Cardinality(Members)
        BY <2>1, <3>3
      <4>2. CASE t \in DOMAIN rooms
        <5>1. totalConnections' = totalConnections - 1 /\ undercount' = undercount + 1
          BY <2>2, <3>1, <3>3, <4>2
        <5>2. totalConnections = Cardinality(Members) - undercount
          BY <1>0 DEF CounterMatchesRooms
        <5>3. \A m, u \in Int : (m - u) - 1 = m - (u + 1)
          OBVIOUS
        <5>4. Cardinality(Members) \in Int /\ undercount \in Int
          BY <1>0, MembersFinite DEF TypeOK
        <5>5. totalConnections' = Cardinality(Members') - undercount'
          BY <4>1, <5>1, <5>2, <5>3, <5>4, Zenon
        <5>6. QED
          BY <5>5 DEF CounterMatchesRooms
      <4>3. CASE t \notin DOMAIN rooms
        <5>1. totalConnections' = totalConnections - 0 /\ undercount' = undercount + 0
          BY <2>2, <4>3
        <5>2. QED
          BY <1>0, <4>1, <5>1, MembersFinite DEF CounterMatchesRooms, TypeOK
      <4>4. QED
        BY <4>2, <4>3
    <3>4. QED
      BY <3>2, <3>3
  <2>7. QED
    BY <2>3, <2>4, <2>5, <2>6
<1>4. ASSUME NEW c \in Client,
             \/ StartPumps(c) \/ Greet(c) \/ Return(c) \/ Ping(c) \/ Write(c)
             \/ \E p \in Pump : \/ PumpExits(c, p) \/ CloseCheck(c, p) \/ CloseDone(c, p)
                                \/ Unregister(c, p)
      PROVE  ByTenant' /\ RegisterOnce' /\ NoEmptyRoom' /\ CounterMatchesRooms'
  <2>1. UNCHANGED <<rooms, registerQ, totalConnections, undercount>>
    BY <1>4 DEF StartPumps, Greet, Return, Ping, Write, PumpExits, CloseCheck, CloseDone,
                Unregister, hubVars
  <2>2. \A d \in Client : phase[d] # "new" => phase'[d] # "new"
    BY <1>0, <1>4 DEF StartPumps, Greet, Return, Ping, Write, PumpExits, CloseCheck, CloseDone,
                      Unregister, TypeOK
  <2>3. QED
    BY <2>1, <2>2, RoomsStay
<1>5. ASSUME \/ HandleBroadcast \/ Cancel \/ Notice \/ HubStops \/ UNCHANGED vars
             \/ \E a \in Tenant \cup User : Publish(a)
      PROVE  ByTenant' /\ RegisterOnce' /\ NoEmptyRoom' /\ CounterMatchesRooms'
  <2>1. UNCHANGED <<rooms, registerQ, totalConnections, undercount, phase>>
    BY <1>5 DEF HandleBroadcast, Cancel, Notice, HubStops, Publish, vars, hubVars, clientVars
  <2>2. QED
    BY <2>1, RoomsStay
<1>6. QED
  BY <1>1, <1>2, <1>3, <1>4, <1>5, NextCases

LEMMA InitRoomsInv == Init => RoomsInv
<1> SUFFICES ASSUME Init PROVE RoomsInv
  OBVIOUS
<1>1. DOMAIN rooms = {} /\ Members = {} /\ DOMAIN registerQ = {}
  BY DEF Init, Members
<1>2. Elements(registerQ) = {} /\ Cardinality(Members) = 0
  BY <1>1, FS_EmptySet DEF Elements
<1>3. ByTenant /\ NoEmptyRoom /\ RegisterOnce
  BY <1>1, <1>2 DEF ByTenant, NoEmptyRoom, RegisterOnce, NoRepeat
<1>4. CounterMatchesRooms
  BY <1>2 DEF Init, CounterMatchesRooms
<1>5. QED
  BY <1>3, <1>4, InitTypeOK DEF RoomsInv

\* The hub keeps no room without members.
THEOREM RoomsAreUsed == Spec => []NoEmptyRoom
<1>1. RoomsInv => NoEmptyRoom
  BY DEF RoomsInv
<1>2. QED
  BY <1>1, InitRoomsInv, NextRoomsInv, PTL DEF Spec

\* The connection counter is off by exactly the clients of a tenant with a room
\* that unregistered before they registered.
THEOREM CounterFollowsRooms == Spec => []CounterMatchesRooms
<1>1. RoomsInv => CounterMatchesRooms
  BY DEF RoomsInv
<1>2. QED
  BY <1>1, InitRoomsInv, NextRoomsInv, PTL DEF Spec

-----------------------------------------------------------------------------
(* TenantIsolation: a room has clients of its tenant only.                  *)

Own(c) == {"hello", "pong", All, TenantOf[c], UserOf[c]}
Isolated == \A c \in Client : send[c] \in Seq(Own(c))

LEMMA NextIsolated == RoomsInv /\ Isolated /\ [Next]_vars => Isolated'
<1> SUFFICES ASSUME RoomsInv, Isolated, [Next]_vars, NEW c \in Client
             PROVE  send'[c] \in Seq(Own(c))
  BY DEF Isolated, Own
<1>0. TypeOK /\ ByTenant /\ send[c] \in Seq(Own(c))
  BY DEF RoomsInv, Isolated
<1>1. ASSUME NEW f \in Own(c) PROVE Offered(c, f) \in Seq(Own(c))
  BY <1>0, OfferedType
<1>2. ASSUME NEW d \in Client, Greet(d) \/ Ping(d) PROVE send'[c] \in Seq(Own(c))
  <2>1. send'[c] = send[c] \/ \E f \in {"hello", "pong"} : send'[c] = Offered(c, f)
    BY <1>0, <1>2 DEF Greet, Ping, TypeOK
  <2>2. QED
    BY <1>0, <1>1, <2>1 DEF Own
<1>3. ASSUME NEW d \in Client, Write(d) PROVE send'[c] \in Seq(Own(c))
  <2>1. send'[c] = send[c] \/ (send'[c] = Tail(send[c]) /\ send[c] # <<>>)
    BY <1>0, <1>3 DEF Write, TypeOK
  <2>2. send[c] # <<>> => Tail(send[c]) \in Seq(Own(c))
    BY <1>0, TailElements
  <2>3. QED
    BY <1>0, <2>1, <2>2
<1>4. CASE HandleBroadcast
  <2> DEFINE a == Head(broadcastQ)
  <2>1. send'[c] = IF Addressed(c, a) THEN Offered(c, a) ELSE send[c]
    BY <1>4 DEF HandleBroadcast
  <2>2. ASSUME Addressed(c, a) PROVE a \in Own(c)
    BY <1>0, <2>2 DEF Addressed, ByTenant, Own
  <2>3. QED
    BY <1>0, <1>1, <2>1, <2>2
<1>5. send' = send \/ HandleBroadcast \/ \E d \in Client : Greet(d) \/ Ping(d) \/ Write(d)
  BY NextCases DEF Register, StartPumps, Return, PumpExits, CloseCheck, CloseDone, Unregister,
         HandleRegister, HandleUnregister, Publish, Cancel, Notice, HubStops, vars, clientVars
<1>6. QED
  BY <1>0, <1>2, <1>3, <1>4, <1>5

\* Nobody is sent an event of another tenant or another user.
THEOREM TenantsAreIsolated == Spec => []TenantIsolation
<1>1. Init => Isolated
  BY EmptySeq DEF Init, Isolated
<1>2. Isolated => TenantIsolation
  <2> SUFFICES ASSUME Isolated, NEW c \in Client, NEW n \in DOMAIN send[c]
               PROVE  send[c][n] \in Own(c)
    BY DEF TenantIsolation, Own
  <2>1. send[c] \in Seq(Own(c))
    BY DEF Isolated
  <2>2. n \in 1 .. Len(send[c])
    BY <2>1, LenProperties
  <2>3. QED
    BY <2>1, <2>2, ElementOfSeq
<1>3. QED
  BY <1>1, <1>2, InitRoomsInv, NextRoomsInv, NextIsolated, PTL DEF Spec

-----------------------------------------------------------------------------
(* NoGhost: from the close of done on, a client's unregister is to come, is  *)
(* queued, or was handled: then the client has left, or is overtaken.        *)

Leaving(c) == (\E p \in Pump : pump[c][p] = "unregister") \/ c \in Elements(unregisterQ)
Left(c) == c \notin Members /\ c \notin Elements(registerQ)

GhostInv ==
    \A c \in Client :
        /\ done[c] => Leaving(c) \/ c \in overtaken \/ Left(c)
        /\ done[c] => phase[c] \notin {"new", "queued"}
        /\ \A p \in Pump : /\ pump[c][p] \in {"unregister", "gone"} => done[c]
                           /\ pump[c][p] # "off" => phase[c] \notin {"new", "queued"}

\* Steps that neither move pumps nor touch the queues and the rooms.
LEMMA GhostStays ==
    ASSUME GhostInv,
           UNCHANGED <<rooms, registerQ, unregisterQ, overtaken, pump, done>>,
           \A c \in Client : phase[c] \notin {"new", "queued"} => phase'[c] \notin {"new", "queued"}
    PROVE  GhostInv'
<1>1. Members' = Members
  BY DEF Members
<1>2. QED
  BY <1>1 DEF GhostInv, Leaving, Left

\* What the pumps are after one of them has moved.
LEMMA AfterMove ==
    ASSUME TypeOK, NEW c \in Client, NEW p \in Pump, NEW step, MovePump(c, p, step)
    PROVE  \A d \in Client : \A q \in Pump :
               pump'[d][q] = IF d = c /\ q = p THEN step ELSE pump[d][q]
<1>1. pump[c] \in [Pump -> PumpStep] /\ pump \in [Client -> [Pump -> PumpStep]]
  BY DEF TypeOK
<1>2. pump' = [pump EXCEPT ![c] = [pump[c] EXCEPT ![p] = step]]
  BY DEF MovePump
<1>3. \A d \in Client : pump'[d] = IF d = c THEN [pump[c] EXCEPT ![p] = step] ELSE pump[d]
  BY <1>1, <1>2
<1>4. \A q \in Pump : [pump[c] EXCEPT ![p] = step][q] = IF q = p THEN step ELSE pump[c][q]
  BY <1>1
<1>5. QED
  BY <1>3, <1>4

LEMMA NextGhostInv == RoomsInv /\ GhostInv /\ [Next]_vars => GhostInv'
<1> SUFFICES ASSUME RoomsInv, GhostInv, [Next]_vars PROVE GhostInv'
  OBVIOUS
<1>0. TypeOK /\ RegisterOnce
  BY DEF RoomsInv
<1>1. ASSUME NEW c \in Client, Register(c) PROVE GhostInv'
  <2>1. Members' = Members
    BY <1>1 DEF Register, Members
  <2>2. Elements(registerQ') = Elements(registerQ) \cup {c}
    BY <1>0, <1>1, AppendElements DEF Register, TypeOK
  <2>3. ~done[c]
    BY <1>1 DEF Register, GhostInv
  <2>4. \A d \in Client : phase'[d] = IF d = c THEN "queued" ELSE phase[d]
    BY <1>0, <1>1 DEF Register, TypeOK
  <2>5. UNCHANGED <<unregisterQ, overtaken, pump, done>> /\ phase[c] = "new"
    BY <1>1 DEF Register
  <2>6. QED
    BY <2>1, <2>2, <2>3, <2>4, <2>5 DEF GhostInv, Leaving, Left
<1>2. ASSUME NEW c \in Client, StartPumps(c) PROVE GhostInv'
  <2>1. \A d \in Client : \A p \in Pump : pump'[d][p] = IF d = c THEN "run" ELSE pump[d][p]
    BY <1>0, <1>2 DEF StartPumps, TypeOK
  <2>2. phase[c] = "queued" /\ \A d \in Client : phase'[d] = IF d = c THEN "started" ELSE phase[d]
    BY <1>0, <1>2 DEF StartPumps, TypeOK
  <2>3. UNCHANGED <<rooms, registerQ, unregisterQ, overtaken, done>> /\ Members' = Members
    BY <1>2 DEF StartPumps, hubVars, Members
  <2>4. ~done[c]
    BY <2>2 DEF GhostInv
  <2>5. QED
    BY <2>1, <2>2, <2>3, <2>4 DEF GhostInv, Leaving, Left
<1>3. ASSUME NEW c \in Client, NEW p \in Pump, PumpExits(c, p) \/ CloseCheck(c, p) PROVE GhostInv'
  <2>1. PICK step \in {"check", "gone", "close"} :
            MovePump(c, p, step) /\ (step = "gone" => done[c])
    BY <1>3 DEF PumpExits, CloseCheck
  <2>2. pump[c][p] \in {"run", "check"}
    BY <1>3 DEF PumpExits, CloseCheck
  <2>3. \A d \in Client : \A q \in Pump :
            pump'[d][q] = IF d = c /\ q = p THEN step ELSE pump[d][q]
    BY <1>0, <2>1, AfterMove
  <2>4. UNCHANGED <<rooms, registerQ, unregisterQ, overtaken, done, phase>> /\ Members' = Members
    BY <1>3 DEF PumpExits, CloseCheck, hubVars, Members
  <2>5. \A d \in Client : Leaving(d)' <=> Leaving(d)
    BY <2>1, <2>2, <2>3, <2>4 DEF Leaving
  <2>6. QED
    BY <2>1, <2>2, <2>3, <2>4, <2>5 DEF GhostInv, Left
<1>4. ASSUME NEW c \in Client, NEW p \in Pump, CloseDone(c, p) PROVE GhostInv'
  <2>1. UNCHANGED <<rooms, registerQ, unregisterQ, overtaken, phase>> /\ Members' = Members
    BY <1>4 DEF CloseDone, hubVars, Members
  <2>2. CASE UNCHANGED <<done, pump>>
    BY <2>1, <2>2, GhostStays
  <2>3. CASE done' = [done EXCEPT ![c] = TRUE] /\ MovePump(c, p, "unregister")
    <3>1. \A d \in Client : \A q \in Pump :
              pump'[d][q] = IF d = c /\ q = p THEN "unregister" ELSE pump[d][q]
      BY <1>0, <2>3, AfterMove
    <3>2. \A d \in Client : done'[d] = IF d = c THEN TRUE ELSE done[d]
      BY <1>0, <2>3 DEF TypeOK
    <3>3. pump[c][p] = "close" /\ phase[c] \notin {"new", "queued"}
      BY <1>4 DEF CloseDone, GhostInv
    <3>4. Leaving(c)' /\ \A d \in Client : Leaving(d) => Leaving(d)'
      BY <2>1, <3>1, <3>3 DEF Leaving
    <3>5. QED
      BY <2>1, <3>1, <3>2, <3>3, <3>4 DEF GhostInv, Left
  <2>4. QED
    BY <1>4, <2>2, <2>3 DEF CloseDone
<1>5. ASSUME NEW c \in Client, NEW p \in Pump, Unregister(c, p) PROVE GhostInv'
  <2>1. UNCHANGED <<rooms, registerQ, overtaken, phase, done>> /\ Members' = Members
    BY <1>5 DEF Unregister, Members
  <2>2. Elements(unregisterQ') = Elements(unregisterQ) \cup {c}
    BY <1>0, <1>5, AppendElements DEF Unregister, TypeOK
  <2>3. \A d \in Client : \A q \in Pump :
            pump'[d][q] = IF d = c /\ q = p THEN "gone" ELSE pump[d][q]
    BY <1>0, <1>5, AfterMove DEF Unregister
  <2>4. \A d \in Client : Leaving(d) => Leaving(d)'
    BY <2>2, <2>3 DEF Leaving
  <2>5. Leaving(c)'
    BY <2>2 DEF Leaving
  <2>6. pump[c][p] = "unregister"
    BY <1>5 DEF Unregister
  <2>7. done[c]
    BY <2>6 DEF GhostInv
  <2>8. QED
    BY <2>1, <2>3, <2>4, <2>5, <2>6, <2>7 DEF GhostInv, Left
<1>6. CASE HandleRegister
  <2> DEFINE c == Head(registerQ)
  <2>1. Members' = Members \cup {c}
    BY <1>0, <1>6, AfterRegister
  <2>2. Elements(registerQ) = Elements(registerQ') \cup {c}
    BY <1>0, <1>6, TailElements DEF HandleRegister, TypeOK
  <2>3. UNCHANGED <<unregisterQ, overtaken, pump, done, phase>>
    BY <1>6 DEF HandleRegister, clientVars
  <2> HIDE DEF c
  <2>4. \A d \in Client : (Leaving(d)' <=> Leaving(d)) /\ (Left(d) => Left(d)')
    BY <2>1, <2>2, <2>3 DEF Leaving, Left
  <2>5. QED
    BY <2>3, <2>4 DEF GhostInv
<1>7. CASE HandleUnregister
  <2>0. PICK c : c = Head(unregisterQ)
    OBVIOUS
  <2>1. Members' = Members \ {c}
    BY <1>0, <1>7, <2>0, AfterUnregister
  <2>2. Elements(unregisterQ) = Elements(unregisterQ') \cup {c}
    BY <1>0, <1>7, <2>0, TailElements DEF HandleUnregister, TypeOK
  <2>3. /\ UNCHANGED <<registerQ, pump, done, phase>>
        /\ overtaken' = overtaken \cup (IF c \in Members THEN {} ELSE {c})
    BY <1>7, <2>0 DEF HandleUnregister, clientVars
  <2>4. \A d \in Client : Left(d) => Left(d)'
    BY <2>1, <2>3 DEF Left
  <2>5. \A d \in Client : Leaving(d) => Leaving(d)' \/ d = c
    BY <2>2, <2>3 DEF Leaving
  <2>6. c \in overtaken' \/ Left(c)'
    <3>1. CASE c \in Members
      <4>1. c \notin Elements(registerQ)
        BY <1>0, <3>1 DEF RegisterOnce
      <4>2. QED
        BY <2>1, <2>3, <4>1 DEF Left
    <3>2. CASE c \notin Members
      BY <2>3, <3>2
    <3>3. QED
      BY <3>1, <3>2
  <2>7. overtaken \subseteq overtaken'
    BY <2>3
  <2>8. \A d \in Client : done'[d] => Leaving(d)' \/ d \in overtaken' \/ Left(d)'
    <3> SUFFICES ASSUME NEW d \in Client, done[d]
                 PROVE  Leaving(d)' \/ d \in overtaken' \/ Left(d)'
      BY <2>3
    <3>1. Leaving(d) \/ d \in overtaken \/ Left(d)
      BY DEF GhostInv
    <3>2. QED
      BY <2>4, <2>5, <2>6, <2>7, <3>1
  <2>9. QED
    BY <2>3, <2>8 DEF GhostInv
<1>8. ASSUME NEW c \in Client, Greet(c) \/ Return(c) \/ Ping(c) \/ Write(c) PROVE GhostInv'
  <2>1. UNCHANGED <<rooms, registerQ, unregisterQ, overtaken, pump, done>>
    BY <1>8 DEF Greet, Return, Ping, Write, hubVars
  <2>2. \A d \in Client : phase[d] \notin {"new", "queued"} => phase'[d] \notin {"new", "queued"}
    BY <1>0, <1>8 DEF Greet, Return, Ping, Write, TypeOK
  <2>3. QED
    BY <2>1, <2>2, GhostStays
<1>9. ASSUME \/ HandleBroadcast \/ Cancel \/ Notice \/ HubStops \/ UNCHANGED vars
             \/ \E a \in Tenant \cup User : Publish(a)
      PROVE  GhostInv'
  <2>1. UNCHANGED <<rooms, registerQ, unregisterQ, overtaken, pump, done, phase>>
    BY <1>9 DEF HandleBroadcast, Cancel, Notice, HubStops, Publish, vars, hubVars, clientVars
  <2>2. QED
    BY <2>1, GhostStays
<1>10. QED
  BY <1>1, <1>2, <1>3, <1>4, <1>5, <1>6, <1>7, <1>8, <1>9, NextCases

\* A client whose unregister was handled is in no room, unless its register
\* came second.
THEOREM NoGhostStays == Spec => []NoGhost
<1>1. Init => GhostInv
  BY DEF Init, GhostInv
<1>2. GhostInv => NoGhost
  <2> SUFFICES ASSUME GhostInv, NEW c \in Client, c \notin overtaken,
                      \A p \in Pump : pump[c][p] = "gone", c \notin Elements(unregisterQ)
               PROVE  c \notin Members
    BY DEF NoGhost, Elements
  <2>1. done[c]
    BY DEF GhostInv, Pump
  <2>2. ~Leaving(c)
    BY DEF Leaving
  <2>3. QED
    BY <2>1, <2>2 DEF GhostInv, Left
<1>3. QED
  BY <1>1, <1>2, InitRoomsInv, NextRoomsInv, NextGhostInv, PTL DEF Spec

-----------------------------------------------------------------------------
(***************************************************************************)
(* Live: the page of a browser and the bus that brings it events           *)
(***************************************************************************)

LEMMA LiveFits == None \notin Socket /\ Cap \in Nat
BY ConnectionAssumption DEF L!LiveAssumption

LEMMA SameCardinality == \A S : L!Cardinality(S) = Cardinality(S)
BY DEF L!Cardinality, Cardinality

-----------------------------------------------------------------------------
(* The invariant *)

SocketState == {"none", "connecting", "open", "closing"}
PageTypes ==
    /\ token \in Token \cup {None} /\ used \subseteq Token /\ valid \subseteq used
    /\ socket \in [Socket -> [state : SocketState, token : Token \cup {None}]]
    /\ ref \in Socket \cup {None}
    /\ timer \in [Timer -> Token \cup {None}] /\ timerRef \in Timer \cup {None}
    /\ event \in [Event -> [state : {"new", "redis", "lost", "sent"}, tenant : L!Tenants \cup {None}]]
    /\ inbox \in [Socket -> Seq(Event)]
    /\ shown \in Seq(Event) /\ Len(shown) <= Cap
    /\ doubled \in BOOLEAN

\* Every socket and every timeout carries a token that was issued here.
OwnTokens ==
    /\ token # None => token \in used
    /\ \A s \in Socket : socket[s].state # "none" => socket[s].token \in used
    /\ \A t \in Timer : timer[t] # None => timer[t] \in used
\* Only wsRef's socket is connecting or open, ...
Active(s) == socket[s].state \in {"connecting", "open"}
OnlyRef == \A s \in Socket : Active(s) => ref = s
\* ... and connected shows a socket.
ShowsSocket == connected => \E s \in Socket : socket[s].state \in {"open", "closing"}
\* What is on its way was sent, to the tenant of the socket's token; what the
\* page shows was sent, to a tenant who has been signed in here.
Carried ==
    \A s \in Socket : \A e \in Elements(inbox[s]) :
        /\ event[e].state = "sent" /\ socket[s].state # "none"
        /\ event[e].tenant = IssuedTo[socket[s].token]
Seen ==
    \A e \in Elements(shown) :
        event[e].state = "sent" /\ event[e].tenant \in {IssuedTo[t] : t \in used}
\* An event is on its way or shown, once.
Once ==
    /\ NoRepeat(shown)
    /\ \A s \in Socket : /\ NoRepeat(inbox[s])
                         /\ \A e \in Elements(inbox[s]) : e \notin Elements(shown)
    /\ \A r, s \in Socket : r # s => \A e \in Elements(inbox[r]) : e \notin Elements(inbox[s])

PageInv ==
    /\ PageTypes /\ OwnTokens /\ ShowsSocket /\ Carried /\ Seen
    /\ doubled \/ (OnlyRef /\ Once)

-----------------------------------------------------------------------------
(* The steps *)

\* The steps of the page and its sockets, and of the bus.
PageStep ==
    \/ \E t \in Token : L!NewToken(t) \/ L!TokenExpires(t)
    \/ L!SignOut
    \/ \E s \in Socket : L!OnOpen(s) \/ L!Refused(s) \/ L!Dropped(s) \/ L!OnClose(s)
    \/ \E t \in Timer : L!TimeoutFires(t)
Issue == \E e \in Event, tenant \in L!Tenants, envelope \in BOOLEAN : L!Publish(e, tenant, envelope)
IssueBulk == \E es \in SUBSET Event, tenant \in L!Tenants : L!PublishBulk(es, tenant)
LEMMA PageNextCases ==
    ASSUME L!Next
    PROVE  \/ PageStep \/ Issue \/ IssueBulk
           \/ \E s \in Socket : L!AddEvent(s)
           \/ \E e \in Event : L!ProcessPubSubMessage(e)
           \/ L!SubscriptionBreaks \/ L!Resubscribe
BY DEF L!Next, PageStep, Issue, IssueBulk, L!NotificationJob, L!PublishEvent

\* What one step does to one socket.
Moves(s) ==
    \/ socket'[s] = socket[s]
    \/ Active(s) /\ socket'[s] = [socket[s] EXCEPT !.state = "closing"]
    \/ /\ socket[s].state = "connecting" /\ connected'
       /\ socket'[s] = [socket[s] EXCEPT !.state = "open"]
    \/ /\ socket[s].state = "none" /\ ref' = s
       /\ socket'[s].state = "connecting" /\ socket'[s].token \in used'
       /\ socket'[s].token \in Token
    \/ socket[s].state = "closing" /\ socket'[s] = L!NoSocket /\ inbox'[s] = <<>> /\ ~connected'

LEMMA ConnectMoves ==
    ASSUME NEW was, was \in [Socket -> [state : SocketState, token : Token \cup {None}]],
           NEW t \in Token, L!Connect(was, t)
    PROVE  \/ socket' = was /\ ref' = ref /\ ref # None /\ was[ref].state = "open"
           \/ /\ ref = None \/ was[ref].state # "open"
              /\ \E n \in Socket :
                   /\ was[n].state = "none" /\ ref' = n
                   /\ socket' = [was EXCEPT ![n] = [state |-> "connecting", token |-> t]]
BY DEF L!Connect

LEMMA SocketStates ==
    ASSUME PageTypes, NEW s \in Socket
    PROVE  /\ socket[s] \in [state : SocketState, token : Token \cup {None}]
           /\ L!NoSocket \in [state : SocketState, token : Token \cup {None}]
           /\ \A x \in SocketState :
                [socket[s] EXCEPT !.state = x] \in [state : SocketState, token : Token \cup {None}]
           /\ \A t \in Token :
                [state |-> "connecting", token |-> t] \in [state : SocketState, token : Token \cup {None}]
<1>1. socket[s] \in [state : SocketState, token : Token \cup {None}]
  BY DEF PageTypes
<1>2. ASSUME NEW x \in SocketState
      PROVE  [socket[s] EXCEPT !.state = x] \in [state : SocketState, token : Token \cup {None}]
  BY <1>1
<1>3. "none" \in SocketState /\ "connecting" \in SocketState
  BY DEF SocketState
<1>4. QED
  BY <1>1, <1>2, <1>3 DEF L!NoSocket

LEMMA ClosedType ==
    ASSUME PageTypes
    PROVE  /\ L!Closed \in [Socket -> [state : SocketState, token : Token \cup {None}]]
           /\ \A s \in Socket :
                L!Closed[s] = IF Active(s) /\ ref = s THEN [socket[s] EXCEPT !.state = "closing"]
                              ELSE socket[s]
           /\ L!Cleaned \in [Timer -> Token \cup {None}]
           /\ \A t \in Timer : L!Cleaned[t] # None => L!Cleaned[t] = timer[t]
<1>1. \A s \in Socket : /\ socket[s] \in [state : SocketState, token : Token \cup {None}]
                        /\ [socket[s] EXCEPT !.state = "closing"]
                               \in [state : SocketState, token : Token \cup {None}]
  BY SocketStates DEF SocketState
<1>2. \A t \in Timer : timer[t] \in Token \cup {None}
  BY DEF PageTypes
<1>3. QED
  BY <1>1, <1>2 DEF L!Closed, L!Current, Active, L!Cleaned

\* A step of the page: what it leaves alone, and the moves of its sockets.
LEMMA PageSteps ==
    ASSUME PageTypes, OwnTokens, PageStep
    PROVE  /\ used \subseteq used' /\ event' = event /\ shown' = shown
           /\ \A s \in Socket : Moves(s)
           /\ \A s \in Socket : inbox'[s] = inbox[s] \/ inbox'[s] = <<>>
           /\ PageTypes' /\ (token' # None => token' \in used')
           /\ \A t \in Timer : timer'[t] # None => timer'[t] \in used'
           /\ ~connected' \/ connected' = connected \/ \E s \in Socket : socket'[s].state = "open"
           /\ doubled => doubled'
<1> DEFINE SocketType == [state : SocketState, token : Token \cup {None}]
           G == /\ used \subseteq used' /\ event' = event /\ shown' = shown
                /\ \A s \in Socket : Moves(s)
                /\ \A s \in Socket : inbox'[s] = inbox[s] \/ inbox'[s] = <<>>
                /\ PageTypes' /\ (token' # None => token' \in used')
                /\ \A t \in Timer : timer'[t] # None => timer'[t] \in used'
                /\ ~connected' \/ connected' = connected \/ \E s \in Socket : socket'[s].state = "open"
                /\ doubled => doubled'
<1>0. \A s \in Socket :
        /\ socket[s] \in SocketType /\ L!NoSocket \in SocketType
        /\ \A x \in SocketState : [socket[s] EXCEPT !.state = x] \in SocketType
        /\ \A t \in Token : [state |-> "connecting", token |-> t] \in SocketType
  BY SocketStates
<1>1. ASSUME NEW t \in Token, L!NewToken(t) PROVE G
  <2>1. /\ L!Closed \in [Socket -> SocketType] /\ L!Cleaned \in [Timer -> Token \cup {None}]
        /\ \A s \in Socket :
             L!Closed[s] = IF Active(s) /\ ref = s THEN [socket[s] EXCEPT !.state = "closing"]
                           ELSE socket[s]
        /\ \A x \in Timer : L!Cleaned[x] # None => L!Cleaned[x] = timer[x]
    BY ClosedType
  <2>2. L!Connect(L!Closed, t) /\ used' = used \cup {t} /\ token' = t /\ valid' = valid \cup {t}
        /\ timer' = L!Cleaned
        /\ UNCHANGED <<timerRef, connected, L!busVars, inbox, shown, doubled>>
    BY <1>1 DEF L!NewToken
  <2>3. ref = None \/ L!Closed[ref].state # "open"
    BY <2>1, LiveFits DEF Active, PageTypes, SocketState
  <2>4. PICK n \in Socket :
          /\ L!Closed[n].state = "none" /\ ref' = n
          /\ socket' = [L!Closed EXCEPT ![n] = [state |-> "connecting", token |-> t]]
    BY <2>1, <2>2, <2>3, ConnectMoves
  <2>5. \A s \in Socket : Moves(s)
    <3> SUFFICES ASSUME NEW s \in Socket PROVE Moves(s)
      OBVIOUS
    <3>1. CASE s = n
      <4>1. socket[s].state = "none"
        BY <1>0, <2>1, <2>4, <3>1
      <4>2. socket'[s] = [state |-> "connecting", token |-> t]
        BY <2>1, <2>4, <3>1
      <4>3. QED
        BY <2>2, <2>4, <3>1, <4>1, <4>2 DEF Moves
    <3>2. CASE s # n
      BY <2>1, <2>4, <3>2 DEF Moves
    <3>3. QED
      BY <3>1, <3>2
  <2>6. socket' \in [Socket -> SocketType]
    BY <1>0, <2>1, <2>4
  <2>7. PageTypes'
    BY <2>1, <2>2, <2>4, <2>6 DEF PageTypes, L!busVars
  <2>8. QED
    BY <2>1, <2>2, <2>5, <2>7 DEF OwnTokens, L!busVars
<1>2. CASE L!SignOut
  <2>1. /\ L!Closed \in [Socket -> SocketType] /\ L!Cleaned \in [Timer -> Token \cup {None}]
        /\ \A s \in Socket :
             L!Closed[s] = IF Active(s) /\ ref = s THEN [socket[s] EXCEPT !.state = "closing"]
                           ELSE socket[s]
        /\ \A x \in Timer : L!Cleaned[x] # None => L!Cleaned[x] = timer[x]
    BY ClosedType
  <2>2. token' = None /\ timer' = L!Cleaned /\ socket' = L!Closed
        /\ UNCHANGED <<used, valid, ref, timerRef, connected, L!busVars, inbox, shown, doubled>>
    BY <1>2 DEF L!SignOut
  <2>3. \A s \in Socket : Moves(s)
    BY <2>1, <2>2 DEF Moves
  <2>4. PageTypes'
    BY <2>1, <2>2 DEF PageTypes, L!busVars
  <2>5. QED
    BY <2>1, <2>2, <2>3, <2>4 DEF OwnTokens, L!busVars
<1>3. ASSUME NEW t \in Token, L!TokenExpires(t) PROVE G
  <2>1. valid' \subseteq valid
        /\ UNCHANGED <<token, used, socket, ref, timer, timerRef, connected, L!busVars, inbox, shown, doubled>>
    BY <1>3 DEF L!TokenExpires
  <2>2. PageTypes'
    BY <2>1 DEF PageTypes, L!busVars
  <2>3. QED
    BY <2>1, <2>2 DEF OwnTokens, Moves, L!busVars
<1>4. ASSUME NEW s \in Socket, L!OnOpen(s) PROVE G
  <2>1. /\ socket[s].state = "connecting" /\ connected' = TRUE
        /\ socket' = [socket EXCEPT ![s] = [socket[s] EXCEPT !.state = "open"]]
        /\ UNCHANGED <<L!pageVars, L!busVars, inbox, shown>>
    BY <1>4 DEF L!OnOpen
  <2>2. socket' \in [Socket -> SocketType] /\ socket'[s] = [socket[s] EXCEPT !.state = "open"]
    BY <1>0, <2>1 DEF PageTypes, SocketState
  <2>3. socket'[s].state = "open"
    BY <1>0, <2>2
  <2>4. \A r \in Socket : Moves(r)
    BY <2>1, <2>2 DEF Moves, PageTypes
  <2>5. PageTypes'
    BY <2>1, <2>2 DEF PageTypes, L!busVars, L!pageVars
  <2>6. QED
    BY <2>1, <2>3, <2>4, <2>5 DEF OwnTokens, L!busVars, L!pageVars
<1>5. ASSUME NEW s \in Socket, L!Refused(s) \/ L!Dropped(s) PROVE G
  <2>1. /\ Active(s)
        /\ socket' = [socket EXCEPT ![s] = [socket[s] EXCEPT !.state = "closing"]]
        /\ UNCHANGED <<token, used, valid, ref, timer, timerRef, connected, L!busVars, inbox, shown, doubled>>
    BY <1>5 DEF L!Refused, L!Dropped, Active, L!pageVars
  <2>2. socket' \in [Socket -> SocketType] /\ socket'[s] = [socket[s] EXCEPT !.state = "closing"]
    BY <1>0, <2>1 DEF PageTypes, SocketState
  <2>3. \A r \in Socket : Moves(r)
    BY <2>1, <2>2 DEF Moves, PageTypes
  <2>4. PageTypes'
    BY <2>1, <2>2 DEF PageTypes, L!busVars
  <2>5. QED
    BY <2>1, <2>3, <2>4 DEF OwnTokens, L!busVars
<1>6. ASSUME NEW s \in Socket, L!OnClose(s) PROVE G
  <2>1. PICK t \in Timer : /\ timer' = [timer EXCEPT ![t] = socket[s].token] /\ timerRef' = t
    BY <1>6 DEF L!OnClose
  <2>2. /\ socket[s].state = "closing" /\ connected' = FALSE
        /\ socket' = [socket EXCEPT ![s] = L!NoSocket] /\ inbox' = [inbox EXCEPT ![s] = <<>>]
        /\ ref' = (IF ref = s THEN None ELSE ref)
        /\ UNCHANGED <<token, used, valid, L!busVars, shown, turns, doubled>>
    BY <1>6 DEF L!OnClose
  <2>3. socket' \in [Socket -> SocketType] /\ socket'[s] = L!NoSocket /\ inbox'[s] = <<>>
        /\ inbox' \in [Socket -> Seq(Event)]
    BY <1>0, <2>2, EmptySeq DEF PageTypes
  <2>4. \A r \in Socket : Moves(r)
    BY <2>2, <2>3 DEF Moves, PageTypes
  <2>5. socket[s].token \in used /\ socket[s].token \in Token
    BY <2>2 DEF OwnTokens, PageTypes
  <2>6. timer' \in [Timer -> Token \cup {None}]
        /\ \A x \in Timer : timer'[x] # None => timer'[x] \in used'
    BY <2>1, <2>2, <2>5 DEF PageTypes, OwnTokens
  <2>7. PageTypes'
    BY <2>1, <2>2, <2>3, <2>6 DEF PageTypes, L!busVars
  <2>8. \A r \in Socket : inbox'[r] = inbox[r] \/ inbox'[r] = <<>>
    BY <2>2 DEF PageTypes
  <2>9. QED
    BY <2>2, <2>4, <2>6, <2>7, <2>8 DEF OwnTokens, L!busVars
<1>7. ASSUME NEW x \in Timer, L!TimeoutFires(x) PROVE G
  <2> DEFINE t == timer[x]
  <2>1. /\ t # None /\ timer' = [timer EXCEPT ![x] = None] /\ L!Connect(socket, t)
        /\ doubled' = (doubled \/ (L!InState("connecting") # {} /\ ~L!RefOpen))
        /\ UNCHANGED <<token, used, valid, timerRef, connected, L!busVars, inbox, shown, turns>>
    BY <1>7 DEF L!TimeoutFires
  <2>2. t \in Token /\ t \in used
    BY <2>1 DEF PageTypes, OwnTokens
  <2>3. timer' \in [Timer -> Token \cup {None}]
        /\ \A y \in Timer : timer'[y] # None => timer'[y] \in used'
    BY <2>1 DEF PageTypes, OwnTokens
  <2>4. socket \in [Socket -> SocketType]
    BY DEF PageTypes
  <2>5. CASE socket' = socket /\ ref' = ref
    <3>1. PageTypes'
      BY <2>1, <2>3, <2>5 DEF PageTypes, L!busVars
    <3>2. QED
      BY <2>1, <2>3, <2>5, <3>1 DEF OwnTokens, Moves, L!busVars
  <2>6. ASSUME NEW n \in Socket, socket[n].state = "none", ref' = n,
               socket' = [socket EXCEPT ![n] = [state |-> "connecting", token |-> t]]
        PROVE  G
    <3>1. socket' \in [Socket -> SocketType]
          /\ socket'[n] = [state |-> "connecting", token |-> t]
      BY <1>0, <2>2, <2>4, <2>6
    <3>2. Moves(n)
      BY <2>1, <2>2, <2>6, <3>1 DEF Moves
    <3>3. \A s \in Socket : Moves(s)
      BY <2>4, <2>6, <3>2 DEF Moves
    <3>4. PageTypes'
      BY <2>1, <2>3, <2>6, <3>1 DEF PageTypes, L!busVars
    <3>5. QED
      BY <2>1, <2>3, <3>3, <3>4 DEF OwnTokens, L!busVars
  <2>7. QED
    BY <2>1, <2>2, <2>4, <2>5, <2>6, ConnectMoves
<1>8. QED
  BY <1>1, <1>2, <1>3, <1>4, <1>5, <1>6, <1>7 DEF PageStep

\* The steps of the bus leave the sockets alone.
BusStep ==
    \/ Issue \/ IssueBulk
    \/ \E s \in Socket : L!AddEvent(s)
    \/ \E e \in Event : L!ProcessPubSubMessage(e)
    \/ L!SubscriptionBreaks \/ L!Resubscribe
LEMMA BusSteps ==
    ASSUME BusStep
    PROVE  UNCHANGED <<token, used, valid, socket, ref, timer, timerRef, connected, doubled>>
<1>1. Issue \/ IssueBulk => UNCHANGED <<L!pageVars, socket, connected>>
  BY DEF Issue, IssueBulk, L!Publish, L!PublishBulk
<1>2. \A s \in Socket : L!AddEvent(s) => UNCHANGED <<L!pageVars, socket, connected>>
  BY DEF L!AddEvent
<1>3. \A e \in Event : L!ProcessPubSubMessage(e) => UNCHANGED <<L!pageVars, socket, connected>>
  BY DEF L!ProcessPubSubMessage
<1>4. L!Resubscribe => UNCHANGED <<L!pageVars, socket, connected>>
  BY DEF L!Resubscribe
<1>5. QED
  BY <1>1, <1>2, <1>3, <1>4 DEF BusStep, L!SubscriptionBreaks, L!pageVars

\* Publishing changes an event that was not published yet.
LEMMA IssueSteps ==
    ASSUME PageTypes, Issue \/ IssueBulk
    PROVE  /\ event' \in [Event -> [state : {"new", "redis", "lost", "sent"}, tenant : L!Tenants \cup {None}]]
           /\ \A e \in Event : event'[e] = event[e] \/ event[e].state = "new"
           /\ UNCHANGED <<inbox, shown>>
<1>1. CASE Issue
  <2>1. PICK e \in Event, tenant \in L!Tenants, envelope \in BOOLEAN : L!Publish(e, tenant, envelope)
    BY <1>1 DEF Issue
  <2> DEFINE new == [state |-> IF subscribed THEN "redis" ELSE "lost",
                     tenant |-> IF envelope THEN tenant ELSE None]
  <2>2. new \in [state : {"new", "redis", "lost", "sent"}, tenant : L!Tenants \cup {None}]
    OBVIOUS
  <2>3. event[e].state = "new" /\ event' = [event EXCEPT ![e] = new] /\ UNCHANGED <<inbox, shown>>
    BY <2>1 DEF L!Publish
  <2> HIDE DEF new
  <2>4. QED
    BY <2>2, <2>3 DEF PageTypes
<1>2. CASE IssueBulk
  <2>1. PICK es \in SUBSET Event, tenant \in L!Tenants : L!PublishBulk(es, tenant)
    BY <1>2 DEF IssueBulk
  <2> DEFINE new == [state |-> IF subscribed THEN "redis" ELSE "lost", tenant |-> tenant]
  <2>2. new \in [state : {"new", "redis", "lost", "sent"}, tenant : L!Tenants \cup {None}]
    OBVIOUS
  <2>3. /\ \A e \in es : event[e].state = "new"
        /\ event' = [e \in Event |-> IF e \notin es THEN event[e] ELSE new]
        /\ UNCHANGED <<inbox, shown>>
    BY <2>1 DEF L!PublishBulk
  <2> HIDE DEF new
  <2>4. \A e \in Event :
          event[e] \in [state : {"new", "redis", "lost", "sent"}, tenant : L!Tenants \cup {None}]
    BY DEF PageTypes
  <2>5. QED
    BY <2>2, <2>3, <2>4
<1>3. QED
  BY <1>1, <1>2

\* Delivering appends the event for the open sockets of its tenant, ...
LEMMA DeliverSteps ==
    ASSUME PageTypes, NEW e \in Event, L!ProcessPubSubMessage(e)
    PROVE  /\ event[e].state = "redis" /\ shown' = shown
           /\ event' \in [Event -> [state : {"new", "redis", "lost", "sent"}, tenant : L!Tenants \cup {None}]]
           /\ event'[e].state = "sent" /\ event'[e].tenant = event[e].tenant
           /\ \A x \in Event : x # e => event'[x] = event[x]
           /\ inbox' \in [Socket -> Seq(Event)]
           /\ \A s \in Socket :
                \/ inbox'[s] = inbox[s]
                \/ /\ inbox'[s] = Append(inbox[s], e)
                   /\ socket[s].state = "open" /\ IssuedTo[socket[s].token] = event[e].tenant
<1>1. /\ event[e].state = "redis" /\ event' = [event EXCEPT ![e] = [event[e] EXCEPT !.state = "sent"]]
      /\ inbox' = [s \in Socket |-> IF event[e].tenant # None /\ s \in L!Listeners(event[e].tenant)
                                    THEN Append(inbox[s], e) ELSE inbox[s]]
      /\ shown' = shown
  BY DEF L!ProcessPubSubMessage
<1>2. \A s \in Socket : inbox[s] \in Seq(Event) /\ Append(inbox[s], e) \in Seq(Event)
  BY AppendProperties DEF PageTypes
<1>3. event[e] \in [state : {"new", "redis", "lost", "sent"}, tenant : L!Tenants \cup {None}]
  BY DEF PageTypes
<1>4. [event[e] EXCEPT !.state = "sent"]
        \in [state : {"new", "redis", "lost", "sent"}, tenant : L!Tenants \cup {None}]
  BY <1>3
<1>5. /\ [event[e] EXCEPT !.state = "sent"].state = "sent"
      /\ [event[e] EXCEPT !.state = "sent"].tenant = event[e].tenant
  BY <1>3
<1>6. \A s \in Socket : s \in L!Listeners(event[e].tenant) =>
          socket[s].state = "open" /\ IssuedTo[socket[s].token] = event[e].tenant
  BY DEF L!Listeners, L!InState
<1>7. event'[e] = [event[e] EXCEPT !.state = "sent"] /\ \A x \in Event : x # e => event'[x] = event[x]
  BY <1>1 DEF PageTypes
<1>8. QED
  BY <1>1, <1>2, <1>4, <1>5, <1>6, <1>7 DEF PageTypes

\* ... and the page takes the oldest of a socket and forgets what is beyond Cap.
LEMMA ShowSteps ==
    ASSUME PageTypes, NEW s \in Socket, L!AddEvent(s)
    PROVE  LET e == Head(inbox[s]) IN
           /\ inbox[s] # <<>> /\ socket[s].state = "open" /\ e \in Event /\ event' = event
           /\ inbox' = [inbox EXCEPT ![s] = Tail(inbox[s])] /\ Tail(inbox[s]) \in Seq(Event)
           /\ shown' \in Seq(Event) /\ Len(shown') <= Cap
           /\ Elements(shown') \subseteq Elements(shown) \cup {e}
           /\ NoRepeat(shown) /\ e \notin Elements(shown) => NoRepeat(shown')
<1> DEFINE e == Head(inbox[s])
           all == <<e>> \o shown
           n == IF Len(all) > Cap THEN Cap ELSE Len(all)
<1>1. /\ socket[s].state = "open" /\ inbox[s] # <<>> /\ event' = event
      /\ shown' = SubSeq(all, 1, n) /\ inbox' = [inbox EXCEPT ![s] = Tail(inbox[s])]
  BY DEF L!AddEvent, L!busVars
<1>2. e \in Event /\ Tail(inbox[s]) \in Seq(Event)
  BY <1>1, TailElements DEF PageTypes
<1>3. <<e>> \in Seq(Event) /\ Len(<<e>>) = 1 /\ <<e>>[1] = e
  BY <1>2
<1>4. shown \in Seq(Event) /\ Len(shown) \in Nat
  BY LenProperties DEF PageTypes
<1>5. /\ all \in Seq(Event) /\ Len(all) = 1 + Len(shown)
      /\ \A i \in 1 .. Len(all) : all[i] = IF i <= 1 THEN <<e>>[i] ELSE shown[i - 1]
  BY <1>3, <1>4, ConcatProperties
<1>6. n \in Nat /\ n <= Len(all) /\ n <= Cap
  BY <1>4, <1>5, LiveFits
<1> HIDE DEF all, n
<1>7. /\ shown' \in Seq(Event) /\ Len(shown') = n
      /\ \A i \in 1 .. n : shown'[i] = all[i]
  <2>1. /\ SubSeq(all, 1, n) \in Seq(Event)
        /\ Len(SubSeq(all, 1, n)) = IF 1 <= n THEN n - 1 + 1 ELSE 0
        /\ \A i \in 1 .. n - 1 + 1 : SubSeq(all, 1, n)[i] = all[1 + i - 1]
    BY <1>4, <1>5, <1>6, SubSeqProperties
  <2>2. Len(SubSeq(all, 1, n)) = n
    BY <1>6, <2>1
  <2>3. ASSUME NEW i \in 1 .. n PROVE shown'[i] = all[i]
    <3>1. i \in 1 .. n - 1 + 1 /\ 1 + i - 1 = i
      BY <1>6
    <3>2. QED
      BY <1>1, <2>1, <3>1
  <2>4. QED
    BY <1>1, <2>1, <2>2, <2>3
<1>8. DOMAIN shown' = 1 .. n /\ DOMAIN shown = 1 .. Len(shown)
  BY <1>4, <1>7, LenProperties
<1>9. \A i \in 1 .. n : (i = 1 /\ shown'[i] = e)
                        \/ (i - 1 \in DOMAIN shown /\ shown'[i] = shown[i - 1])
  BY <1>3, <1>4, <1>5, <1>6, <1>7, <1>8
<1>10. Elements(shown') \subseteq Elements(shown) \cup {e}
  BY <1>8, <1>9 DEF Elements
<1>11. ASSUME NoRepeat(shown), e \notin Elements(shown) PROVE NoRepeat(shown')
  <2> SUFFICES ASSUME NEW i \in 1 .. n, NEW j \in 1 .. n, shown'[i] = shown'[j]
               PROVE  i = j
    BY <1>8 DEF NoRepeat
  <2>1. \A k \in DOMAIN shown : shown[k] # e
    BY <1>11 DEF Elements
  <2>2. \A k, m \in DOMAIN shown : shown[k] = shown[m] => k = m
    BY <1>11 DEF NoRepeat
  <2>3. CASE i = 1 \/ j = 1
    <3>1. 0 \notin DOMAIN shown
      BY <1>4, <1>8
    <3>2. QED
      BY <1>9, <2>1, <2>3, <3>1
  <2>4. CASE i # 1 /\ j # 1
    <3>1. i - 1 = j - 1
      BY <1>9, <2>2, <2>4
    <3>2. QED
      BY <1>6, <3>1
  <2>5. QED
    BY <2>3, <2>4
<1>12. QED
  BY <1>1, <1>2, <1>6, <1>7, <1>10, <1>11

-----------------------------------------------------------------------------
(* What each step preserves *)

LEMMA PageStarts == L!Init => PageInv
<1> SUFFICES ASSUME L!Init PROVE PageInv
  OBVIOUS
<1>1. <<>> \in Seq(Event) /\ Elements(<<>>) = {} /\ NoRepeat(<<>>) /\ Len(<<>>) = 0
  BY EmptySeq DEF Elements, NoRepeat
<1>2. shown = <<>> /\ inbox = [s \in Socket |-> <<>>]
  BY DEF L!Init
<1>3. PageTypes
  <2>1. socket \in [Socket -> [state : SocketState, token : Token \cup {None}]]
    BY DEF L!Init, L!NoSocket, SocketState
  <2>2. timer \in [Timer -> Token \cup {None}] /\ used = {} /\ valid = {} /\ token = None
        /\ ref = None /\ timerRef = None /\ doubled = FALSE
        /\ event \in [Event -> [state : {"new", "redis", "lost", "sent"}, tenant : L!Tenants \cup {None}]]
    BY DEF L!Init
  <2>3. inbox \in [Socket -> Seq(Event)] /\ shown \in Seq(Event) /\ Len(shown) <= Cap
    BY <1>1, <1>2, LiveFits
  <2>4. QED
    BY <2>1, <2>2, <2>3 DEF PageTypes
<1>4. OwnTokens /\ ShowsSocket /\ OnlyRef
  BY DEF L!Init, OwnTokens, ShowsSocket, OnlyRef, Active, L!NoSocket
<1>5. Carried /\ Seen /\ Once
  BY <1>1, <1>2 DEF Carried, Seen, Once
<1>6. QED
  BY <1>3, <1>4, <1>5 DEF PageInv

LEMMA PageTypesStep == ASSUME PageTypes, OwnTokens, [L!Next]_(L!vars) PROVE PageTypes' /\ (doubled => doubled')
<1>1. CASE PageStep
  BY <1>1, PageSteps
<1>2. CASE Issue \/ IssueBulk
  BY <1>2, IssueSteps, BusSteps DEF PageTypes, BusStep
<1>3. ASSUME NEW s \in Socket, L!AddEvent(s) PROVE PageTypes' /\ (doubled => doubled')
  <2>1. inbox' \in [Socket -> Seq(Event)] /\ event' = event
        /\ shown' \in Seq(Event) /\ Len(shown') <= Cap
    BY <1>3, ShowSteps DEF PageTypes
  <2>2. QED
    BY <1>3, <2>1, BusSteps DEF PageTypes, BusStep
<1>4. ASSUME NEW e \in Event, L!ProcessPubSubMessage(e) PROVE PageTypes' /\ (doubled => doubled')
  BY <1>4, DeliverSteps, BusSteps DEF PageTypes, BusStep
<1>5. CASE L!SubscriptionBreaks \/ L!Resubscribe
  BY <1>5, BusSteps DEF PageTypes, BusStep, L!SubscriptionBreaks, L!Resubscribe
<1>6. CASE UNCHANGED L!vars
  BY <1>6 DEF PageTypes, L!vars, L!pageVars, L!busVars
<1>7. QED
  BY <1>1, <1>2, <1>3, <1>4, <1>5, <1>6, PageNextCases

LEMMA OwnTokensStep ==
    ASSUME PageTypes, OwnTokens, ShowsSocket, [L!Next]_(L!vars)
    PROVE  OwnTokens' /\ ShowsSocket'
<1>1. CASE PageStep
  <2>1. /\ used \subseteq used' /\ \A s \in Socket : Moves(s)
        /\ (token' # None => token' \in used')
        /\ \A t \in Timer : timer'[t] # None => timer'[t] \in used'
        /\ ~connected' \/ connected' = connected \/ \E s \in Socket : socket'[s].state = "open"
    BY <1>1, PageSteps
  <2>2. \A s \in Socket : /\ socket[s] \in [state : SocketState, token : Token \cup {None}]
                          /\ L!NoSocket.state = "none"
    BY SocketStates DEF L!NoSocket
  <2>3. ASSUME NEW s \in Socket, socket'[s].state # "none" PROVE socket'[s].token \in used'
    <3>1. CASE socket[s].state = "none"
      BY <2>1, <2>2, <2>3, <3>1 DEF Moves, Active
    <3>2. CASE socket[s].state # "none"
      <4>1. socket[s].token \in used
        BY <3>2 DEF OwnTokens
      <4>2. socket'[s].token = socket[s].token
        BY <2>1, <2>2, <2>3, <3>2 DEF Moves
      <4>3. QED
        BY <2>1, <4>1, <4>2
    <3>3. QED
      BY <3>1, <3>2
  <2>4. ASSUME connected' PROVE \E s \in Socket : socket'[s].state \in {"open", "closing"}
    <3>1. CASE \E s \in Socket : socket'[s].state = "open"
      BY <3>1
    <3>2. CASE connected' = connected
      <4>1. PICK s \in Socket : socket[s].state \in {"open", "closing"}
        BY <2>4, <3>2 DEF ShowsSocket
      <4>2. socket'[s].state \in {"open", "closing"}
        BY <2>1, <2>2, <2>4, <4>1 DEF Moves
      <4>3. QED
        BY <4>2
    <3>3. QED
      BY <2>1, <2>4, <3>1, <3>2
  <2>5. QED
    BY <2>1, <2>3, <2>4 DEF OwnTokens, ShowsSocket
<1>2. CASE BusStep
  BY <1>2, BusSteps DEF OwnTokens, ShowsSocket
<1>3. CASE UNCHANGED L!vars
  BY <1>3 DEF OwnTokens, ShowsSocket, L!vars, L!pageVars
<1>4. QED
  BY <1>1, <1>2, <1>3, PageNextCases DEF BusStep

\* Events reach the page of the tenant they were published to.
LEMMA CarriedStep ==
    ASSUME PageTypes, OwnTokens, Carried, Seen, [L!Next]_(L!vars)
    PROVE  Carried' /\ Seen'
<1>1. CASE PageStep
  <2>1. /\ used \subseteq used' /\ event' = event /\ shown' = shown
        /\ \A s \in Socket : Moves(s)
        /\ \A s \in Socket : inbox'[s] = inbox[s] \/ inbox'[s] = <<>>
    BY <1>1, PageSteps
  <2>2. Elements(<<>>) = {} /\ L!NoSocket.state = "none"
    BY DEF Elements, L!NoSocket
  <2>3. ASSUME NEW s \in Socket, NEW e \in Elements(inbox'[s])
        PROVE  /\ event'[e].state = "sent" /\ socket'[s].state # "none"
               /\ event'[e].tenant = IssuedTo[socket'[s].token]
    <3>1. inbox'[s] = inbox[s] /\ inbox'[s] # <<>>
      BY <2>1, <2>2, <2>3
    <3>2. /\ event[e].state = "sent" /\ socket[s].state # "none"
          /\ event[e].tenant = IssuedTo[socket[s].token]
      BY <2>3, <3>1 DEF Carried
    <3>3. socket[s] \in [state : SocketState, token : Token \cup {None}]
      BY SocketStates
    <3>4. socket'[s].state # "none" /\ socket'[s].token = socket[s].token
      BY <2>1, <3>1, <3>2, <3>3 DEF Moves
    <3>5. QED
      BY <2>1, <3>2, <3>4
  <2>4. QED
    BY <2>1, <2>3 DEF Carried, Seen
<1>2. CASE Issue \/ IssueBulk
  <2>1. /\ \A e \in Event : event[e].state = "sent" => event'[e] = event[e]
        /\ inbox' = inbox /\ shown' = shown /\ socket' = socket /\ used' = used
    BY <1>2, IssueSteps, BusSteps DEF BusStep
  <2>2. \A s \in Socket : Elements(inbox[s]) \subseteq Event
    BY LenProperties DEF PageTypes, Elements
  <2>3. Elements(shown) \subseteq Event
    BY LenProperties DEF PageTypes, Elements
  <2>4. QED
    BY <2>1, <2>2, <2>3 DEF Carried, Seen
<1>3. ASSUME NEW s \in Socket, L!AddEvent(s) PROVE Carried' /\ Seen'
  <2> DEFINE e == Head(inbox[s])
  <2>1. /\ inbox[s] # <<>> /\ event' = event /\ inbox[s] \in Seq(Event) /\ s \in DOMAIN inbox
        /\ inbox' = [inbox EXCEPT ![s] = Tail(inbox[s])]
        /\ Elements(shown') \subseteq Elements(shown) \cup {e}
    BY <1>3, ShowSteps DEF PageTypes
  <2>2. Elements(inbox[s]) = Elements(Tail(inbox[s])) \cup {e}
    BY <2>1, TailElements
  <2>3. socket' = socket /\ used' = used
    BY <1>3, BusSteps DEF BusStep
  <2>4. \A r \in Socket : Elements(inbox'[r]) \subseteq Elements(inbox[r])
    BY <2>1, <2>2 DEF PageTypes
  <2>5. Carried'
    BY <2>1, <2>3, <2>4 DEF Carried
  <2>6. event[e].state = "sent" /\ event[e].tenant \in {IssuedTo[t] : t \in used}
    BY <2>2 DEF Carried, OwnTokens
  <2>7. QED
    BY <2>1, <2>3, <2>5, <2>6 DEF Seen
<1>4. ASSUME NEW e \in Event, L!ProcessPubSubMessage(e) PROVE Carried' /\ Seen'
  <2>1. /\ event[e].state = "redis" /\ shown' = shown /\ socket' = socket /\ used' = used
        /\ event'[e].state = "sent" /\ event'[e].tenant = event[e].tenant
        /\ \A x \in Event : x # e => event'[x] = event[x]
    BY <1>4, DeliverSteps, BusSteps DEF BusStep
  <2>2. Elements(shown) \subseteq Event
    BY LenProperties DEF PageTypes, Elements
  <2>3. Seen'
    BY <2>1, <2>2 DEF Seen
  <2>4. ASSUME NEW s \in Socket, NEW x \in Elements(inbox'[s])
        PROVE  /\ event'[x].state = "sent" /\ socket'[s].state # "none"
               /\ event'[x].tenant = IssuedTo[socket'[s].token]
    <3>1. inbox[s] \in Seq(Event) /\ Elements(inbox[s]) \subseteq Event
      BY LenProperties DEF PageTypes, Elements
    <3>2. CASE x \in Elements(inbox[s])
      BY <2>1, <3>1, <3>2 DEF Carried
    <3>3. CASE x \notin Elements(inbox[s])
      <4>1. /\ inbox'[s] = Append(inbox[s], e)
            /\ socket[s].state = "open" /\ IssuedTo[socket[s].token] = event[e].tenant
        BY <1>4, <2>4, <3>3, DeliverSteps
      <4>2. x = e
        BY <2>4, <3>1, <3>3, <4>1, AppendElements
      <4>3. QED
        BY <2>1, <4>1, <4>2
    <3>4. QED
      BY <3>2, <3>3
  <2>5. QED
    BY <2>3, <2>4 DEF Carried
<1>5. CASE L!SubscriptionBreaks \/ L!Resubscribe
  BY <1>5, BusSteps DEF Carried, Seen, BusStep, L!SubscriptionBreaks, L!Resubscribe
<1>6. CASE UNCHANGED L!vars
  BY <1>6 DEF Carried, Seen, L!vars, L!pageVars, L!busVars
<1>7. QED
  BY <1>1, <1>2, <1>3, <1>4, <1>5, <1>6, PageNextCases

\* Unless a timeout finds another socket connecting, the new socket is alone.
LEMMA OnlyRefStep ==
    ASSUME PageTypes, OwnTokens, OnlyRef, ~doubled', [L!Next]_(L!vars)
    PROVE  OnlyRef'
<1> DEFINE SocketType == [state : SocketState, token : Token \cup {None}]
<1>0. /\ \A s \in Socket : socket[s] \in SocketType /\ ~(L!NoSocket.state \in {"connecting", "open"})
      /\ \A s \in Socket : [socket[s] EXCEPT !.state = "closing"].state = "closing"
  BY SocketStates DEF L!NoSocket
<1>1. ASSUME NEW t \in Token, L!NewToken(t) PROVE OnlyRef'
  <2>1. /\ L!Closed \in [Socket -> SocketType]
        /\ \A s \in Socket :
             L!Closed[s] = IF Active(s) /\ ref = s THEN [socket[s] EXCEPT !.state = "closing"]
                           ELSE socket[s]
    BY ClosedType
  <2>2. \A s \in Socket : L!Closed[s].state \notin {"connecting", "open"}
    BY <1>0, <2>1 DEF OnlyRef, Active
  <2>3. L!Connect(L!Closed, t)
    BY <1>1 DEF L!NewToken
  <2>4. ref = None \/ L!Closed[ref].state # "open"
    BY <2>2 DEF PageTypes
  <2>5. PICK n \in Socket :
          /\ L!Closed[n].state = "none" /\ ref' = n
          /\ socket' = [L!Closed EXCEPT ![n] = [state |-> "connecting", token |-> t]]
    BY <2>1, <2>3, <2>4, ConnectMoves
  <2>6. \A s \in Socket : s # n => socket'[s] = L!Closed[s]
    BY <2>1, <2>5
  <2>7. QED
    BY <2>2, <2>5, <2>6 DEF OnlyRef, Active
<1>2. CASE L!SignOut
  <2>1. /\ \A s \in Socket :
             L!Closed[s] = IF Active(s) /\ ref = s THEN [socket[s] EXCEPT !.state = "closing"]
                           ELSE socket[s]
        /\ socket' = L!Closed
    BY <1>2, ClosedType DEF L!SignOut
  <2>2. QED
    BY <1>0, <2>1 DEF OnlyRef, Active
<1>3. ASSUME NEW s \in Socket, L!OnOpen(s) PROVE OnlyRef'
  <2>1. /\ Active(s) /\ ref' = ref
        /\ \A r \in Socket : r # s => socket'[r] = socket[r]
    BY <1>3 DEF L!OnOpen, Active, L!pageVars, PageTypes
  <2>2. QED
    BY <2>1 DEF OnlyRef, Active
<1>4. ASSUME NEW s \in Socket, L!Refused(s) \/ L!Dropped(s) PROVE OnlyRef'
  <2>1. /\ Active(s) /\ ref' = ref
        /\ \A r \in Socket : r # s => socket'[r] = socket[r]
    BY <1>4 DEF L!Refused, L!Dropped, Active, L!pageVars, PageTypes
  <2>2. QED
    BY <2>1 DEF OnlyRef, Active
<1>5. ASSUME NEW s \in Socket, L!OnClose(s) PROVE OnlyRef'
  <2>1. /\ socket[s].state = "closing" /\ socket' = [socket EXCEPT ![s] = L!NoSocket]
        /\ ref' = (IF ref = s THEN None ELSE ref)
    BY <1>5 DEF L!OnClose
  <2>2. socket'[s] = L!NoSocket /\ \A r \in Socket : r # s => socket'[r] = socket[r]
    BY <2>1 DEF PageTypes
  <2>3. QED
    BY <1>0, <2>1, <2>2 DEF OnlyRef, Active
<1>6. ASSUME NEW x \in Timer, L!TimeoutFires(x) PROVE OnlyRef'
  <2>1. /\ timer[x] \in Token /\ L!Connect(socket, timer[x]) /\ socket \in [Socket -> SocketType]
        /\ ~(L!InState("connecting") # {} /\ ~L!RefOpen)
    BY <1>6 DEF L!TimeoutFires, PageTypes
  <2>2. CASE socket' = socket /\ ref' = ref
    BY <2>2 DEF OnlyRef, Active
  <2>3. ASSUME ref = None \/ socket[ref].state # "open",
               NEW n \in Socket, ref' = n,
               socket' = [socket EXCEPT ![n] = [state |-> "connecting", token |-> timer[x]]]
        PROVE  OnlyRef'
    <3>1. \A s \in Socket : ~Active(s)
      <4>1. \A s \in Socket : socket[s].state # "connecting"
        BY <2>1, <2>3 DEF L!RefOpen, L!InState
      <4>2. QED
        BY <2>3, <4>1, LiveFits DEF OnlyRef, Active
    <3>2. \A s \in Socket : s # n => socket'[s] = socket[s]
      BY <2>1, <2>3
    <3>3. QED
      BY <2>3, <3>1, <3>2 DEF OnlyRef, Active
  <2>4. QED
    BY <2>1, <2>2, <2>3, ConnectMoves
<1>7. CASE BusStep
  BY <1>7, BusSteps DEF OnlyRef, Active
<1>8. CASE UNCHANGED <<socket, ref>>
  BY <1>8 DEF OnlyRef, Active
<1>9. QED
  BY <1>1, <1>2, <1>3, <1>4, <1>5, <1>6, <1>7, <1>8, PageNextCases
     DEF BusStep, PageStep, L!TokenExpires, L!vars, L!pageVars

LEMMA OnceStep ==
    ASSUME PageTypes, OwnTokens, Carried, Seen, OnlyRef, Once, [L!Next]_(L!vars)
    PROVE  Once'
<1>0. Elements(<<>>) = {} /\ NoRepeat(<<>>)
  BY DEF Elements, NoRepeat
<1>1. CASE PageStep
  <2>1. shown' = shown /\ \A s \in Socket : inbox'[s] = inbox[s] \/ inbox'[s] = <<>>
    BY <1>1, PageSteps
  <2>2. \A s \in Socket : NoRepeat(inbox'[s]) /\ Elements(inbox'[s]) \subseteq Elements(inbox[s])
    BY <1>0, <2>1 DEF Once
  <2>3. QED
    BY <2>1, <2>2 DEF Once
<1>2. CASE inbox' = inbox /\ shown' = shown
  BY <1>2 DEF Once
<1>3. ASSUME NEW s \in Socket, L!AddEvent(s) PROVE Once'
  <2> DEFINE e == Head(inbox[s])
  <2>1. /\ inbox[s] # <<>> /\ inbox[s] \in Seq(Event)
        /\ inbox' = [inbox EXCEPT ![s] = Tail(inbox[s])]
        /\ Elements(shown') \subseteq Elements(shown) \cup {e}
        /\ NoRepeat(shown) /\ e \notin Elements(shown) => NoRepeat(shown')
    BY <1>3, ShowSteps DEF PageTypes
  <2>2. /\ Elements(inbox[s]) = Elements(Tail(inbox[s])) \cup {e}
        /\ NoRepeat(Tail(inbox[s])) /\ e \notin Elements(Tail(inbox[s]))
    BY <2>1, TailElements DEF Once
  <2>3. inbox'[s] = Tail(inbox[s]) /\ \A r \in Socket : r # s => inbox'[r] = inbox[r]
    BY <2>1 DEF PageTypes
  <2>4. NoRepeat(shown')
    BY <2>1, <2>2 DEF Once
  <2>5. \A r \in Socket : NoRepeat(inbox'[r]) /\ Elements(inbox'[r]) \subseteq Elements(inbox[r])
    BY <2>2, <2>3 DEF Once
  <2>6. \A r \in Socket : e \notin Elements(inbox'[r])
    BY <2>2, <2>3 DEF Once
  <2>7. ASSUME NEW r \in Socket, NEW x \in Elements(inbox'[r]) PROVE x \notin Elements(shown')
    <3>1. x \in Elements(inbox[r]) /\ x # e
      BY <2>5, <2>6
    <3>2. x \notin Elements(shown)
      BY <3>1 DEF Once
    <3>3. QED
      BY <2>1, <3>1, <3>2
  <2>8. \A q, r \in Socket : q # r => \A x \in Elements(inbox'[q]) : x \notin Elements(inbox'[r])
    BY <2>5 DEF Once
  <2>9. QED
    BY <2>4, <2>5, <2>7, <2>8 DEF Once
<1>4. ASSUME NEW e \in Event, L!ProcessPubSubMessage(e) PROVE Once'
  <2>1. /\ event[e].state = "redis" /\ shown' = shown
        /\ \A s \in Socket : \/ inbox'[s] = inbox[s]
                             \/ inbox'[s] = Append(inbox[s], e) /\ socket[s].state = "open"
        /\ \A s \in Socket : inbox[s] \in Seq(Event)
    BY <1>4, DeliverSteps DEF PageTypes
  <2>2. e \notin Elements(shown) /\ \A s \in Socket : e \notin Elements(inbox[s])
    BY <2>1 DEF Carried, Seen
  <2>3. \A s \in Socket :
          /\ NoRepeat(inbox'[s]) /\ Elements(inbox'[s]) \subseteq Elements(inbox[s]) \cup {e}
          /\ e \in Elements(inbox'[s]) => ref = s
    <3> SUFFICES ASSUME NEW s \in Socket
                 PROVE  /\ NoRepeat(inbox'[s]) /\ Elements(inbox'[s]) \subseteq Elements(inbox[s]) \cup {e}
                        /\ e \in Elements(inbox'[s]) => ref = s
      OBVIOUS
    <3>1. CASE inbox'[s] = inbox[s]
      BY <2>2, <3>1 DEF Once
    <3>2. CASE inbox'[s] = Append(inbox[s], e) /\ socket[s].state = "open"
      <4>1. NoRepeat(inbox'[s]) /\ Elements(inbox'[s]) = Elements(inbox[s]) \cup {e}
        BY <2>1, <2>2, <3>2, AppendElements DEF Once
      <4>2. ref = s
        BY <3>2 DEF OnlyRef, Active
      <4>3. QED
        BY <4>1, <4>2
    <3>3. QED
      BY <2>1, <3>1, <3>2
  <2>4. NoRepeat(shown')
    BY <2>1 DEF Once
  <2>5. \A s \in Socket : \A x \in Elements(inbox'[s]) : x \notin Elements(shown')
    BY <2>1, <2>2, <2>3 DEF Once
  <2>6. ASSUME NEW r \in Socket, NEW s \in Socket, r # s, NEW x \in Elements(inbox'[r]),
               x \in Elements(inbox'[s])
        PROVE  FALSE
    <3>1. CASE x = e
      BY <2>3, <2>6, <3>1
    <3>2. CASE x # e
      BY <2>3, <2>6, <3>2 DEF Once
    <3>3. QED
      BY <3>1, <3>2
  <2>7. QED
    BY <2>3, <2>4, <2>5, <2>6 DEF Once
<1>5. QED
  BY <1>1, <1>2, <1>3, <1>4, IssueSteps, PageNextCases
     DEF L!SubscriptionBreaks, L!Resubscribe, L!vars, L!pageVars, L!busVars

LEMMA PageInvSteps == PageInv /\ [L!Next]_(L!vars) => PageInv'
<1> SUFFICES ASSUME PageInv, [L!Next]_(L!vars) PROVE PageInv'
  OBVIOUS
<1>1. PageTypes' /\ (doubled => doubled') /\ OwnTokens' /\ ShowsSocket' /\ Carried' /\ Seen'
  BY PageTypesStep, OwnTokensStep, CarriedStep DEF PageInv
<1>2. ASSUME ~doubled' PROVE OnlyRef' /\ Once'
  BY <1>1, <1>2, OnlyRefStep, OnceStep DEF PageInv
<1>3. QED
  BY <1>1, <1>2 DEF PageInv

LEMMA PageInvHolds == L!Spec => []PageInv
BY PageStarts, PageInvSteps, PTL DEF L!Spec

-----------------------------------------------------------------------------
(* The theorems *)

LEMMA PageTypesFollow == PageInv => L!TypeOK
<1> SUFFICES ASSUME PageInv PROVE L!TypeOK
  OBVIOUS
<1>1. \A s \in Socket : socket[s].state \in {"none", "connecting", "open", "closing"}
  BY DEF PageInv, PageTypes, SocketState
<1>2. QED
  BY <1>1 DEF PageInv, PageTypes, L!TypeOK

LEMMA OneSocketFollows == PageInv => L!OneSocket
<1> SUFFICES ASSUME PageInv PROVE L!OneSocket
  OBVIOUS
<1>1. connected => L!InState("open") \cup L!InState("closing") # {}
  BY DEF PageInv, ShowsSocket, L!InState
<1>2. ASSUME ~doubled PROVE Cardinality(L!InState("open")) <= 1
  <2>1. L!InState("open") \subseteq {ref}
    BY <1>2 DEF PageInv, OnlyRef, Active, L!InState
  <2>2. IsFiniteSet({ref}) /\ Cardinality({ref}) = 1
    BY FS_Singleton
  <2>3. QED
    BY <2>1, <2>2, FS_Subset
<1>3. ASSUME ~doubled PROVE \A i, j \in 1 .. Len(shown) : shown[i] = shown[j] => i = j
  <2>1. DOMAIN shown = 1 .. Len(shown) /\ NoRepeat(shown)
    BY <1>3, LenProperties DEF PageInv, PageTypes, Once
  <2>2. QED
    BY <2>1 DEF NoRepeat
<1>4. QED
  BY <1>1, <1>2, <1>3, SameCardinality DEF L!OneSocket

LEMMA OwnEventsFollow == PageInv => L!OnlyOwnEvents
BY DEF PageInv, Seen, L!OnlyOwnEvents, L!Range, Elements

\* Every variable of the page and of the bus has its type.
THEOREM PageTypeCorrect == L!Spec => []L!TypeOK
BY PageInvHolds, PageTypesFollow, PTL

\* The page says it is connected only with a socket, has one socket open and
\* shows an event once, unless a timeout fired while another was connecting.
THEOREM PageHasOneSocket == L!Spec => []L!OneSocket
BY PageInvHolds, OneSocketFollows, PTL

\* What the page shows was published to a tenant who has been signed in here,
\* whatever sockets of an earlier session bring.
THEOREM PageShowsOwnEvents == L!Spec => []L!OnlyOwnEvents
BY PageInvHolds, OwnEventsFollow, PTL

-----------------------------------------------------------------------------
(* Both ends *)

\* A step is a step of one end, or leaves it alone.
LEMMA Ends == BothSpec => Spec /\ L!Spec
<1>1. BothInit => Init /\ L!Init
  BY DEF BothInit
<1>2. [BothNext]_<<vars, liveVars>> => [Next]_vars /\ [L!Next]_(L!vars)
  <2>1. [BothNext]_<<vars, liveVars>> => [Next]_vars /\ [L!Next]_liveVars
    BY DEF BothNext, Server, Page
  <2>2. UNCHANGED liveVars => UNCHANGED L!vars
    BY DEF liveVars, L!vars, L!pageVars, L!busVars
  <2>3. QED
    BY <2>1, <2>2
<1>3. QED
  BY <1>1, <1>2, PTL DEF BothSpec, Spec, L!Spec

\* The hub is well-formed, and the page of a browser has one socket and shows
\* only the events of its own tenants: for every number of clients, sockets,
\* timers, tokens and events, however sessions and connections come and go.
THEOREM PageStaysOwn == BothSpec => []PageIsOwn
<1>1. TypeOK /\ L!TypeOK /\ L!OneSocket /\ L!OnlyOwnEvents => PageIsOwn
  BY DEF PageIsOwn
<1>2. QED
  BY <1>1, Ends, TypeCorrect, PageTypeCorrect, PageHasOneSocket, PageShowsOwnEvents, PTL

=============================================================================
