--------------------------- MODULE SessionsProofs ---------------------------
(***************************************************************************)
(* Type correctness of Sessions, and what a browser's tokens are worth     *)
(* while nothing disturbs its calls, for any number of devices, calls and  *)
(* tokens.                                                                 *)
(***************************************************************************)
EXTENDS Sessions, TLAPS

\* A call in flight belongs to a device.
CallsHaveDevice == \A c \in Call : call[c] # Idle => call[c].dev \in Device

TypeInv == TypeOK /\ CallsHaveDevice

\* The refresh tokens device d holds, in its store or in a call.
Holds(d, t) == store[d].refresh = t \/ \E c \in Call : call[c].dev = d /\ call[c].token = t

\* No two devices hold the same token: one is made for a device, and goes
\* nowhere else.
OwnTokens == \A d1, d2 \in Device, t \in Token : Holds(d1, t) /\ Holds(d2, t) => d1 = d2

\* Logout revokes whatever token is the newest: every device is disturbed.
LogoutDisturbs == leaving.step # "no" => disturbed = Device

\* What is in the store of a device and what its calls rely on go together.
StoreWhole(d) ==
    /\ store[d].auth <=> store[d].refresh # None
    /\ store[d].auth <=> store[d].access # None
    /\ \A c \in InFlight(d) :
         /\ call[c].kind = "login" => ~store[d].auth
         /\ call[c].kind # "login" => store[d].auth
         /\ call[c].kind = "verify" => call[c].closure # None

\* One call at a time refreshes, and a sign-in is alone.
OneRefresh(d) ==
    /\ \A c1, c2 \in RefreshingNow(d) : c1 = c2
    /\ \A c1, c2 \in InFlight(d) : call[c1].kind = "login" => c1 = c2

Live == {"active", "expired"}

\* A refresh token that is kept, or on its way, has not been revoked.
TokensLive(d) ==
    /\ store[d].refresh # None /\ RefreshingNow(d) = {} => row[store[d].refresh] \in Live
    /\ \A c \in InFlight(d) :
         call[c].step \in Refreshing \ {"create"} => row[call[c].token] \in Live

Undisturbed(d) == StoreWhole(d) /\ OneRefresh(d) /\ TokensLive(d)

SessionInv ==
    /\ TypeInv /\ OwnTokens /\ LogoutDisturbs
    /\ \A d \in Device \ disturbed : Undisturbed(d)

-----------------------------------------------------------------------------
(* Types *)

LEMMA InitType == Init => TypeInv
  BY SessionsAssumption
  DEF Init, TypeInv, TypeOK, CallsHaveDevice, CallState, Idle, StoreState, SignedOut, Refreshing

\* Any step preserves the types, and a call in flight keeps its device.
LEMMA NextType == TypeInv /\ [Next]_vars => TypeInv'
<1> SUFFICES ASSUME TypeInv, [Next]_vars PROVE TypeInv'
  OBVIOUS
<1> USE SessionsAssumption DEF TypeInv, TypeOK, CallsHaveDevice, server, browser
<1>s. /\ SignedOut \in StoreState
      /\ Idle \in CallState
      /\ Idle.dev = None /\ Idle.step = "idle"
  BY DEF SignedOut, StoreState, Idle, CallState
<1>c. \A c \in Call : call[c].step # "idle" => call[c].dev \in Device
  BY DEF Idle
<1>1. CASE UNCHANGED vars
  BY <1>1 DEF vars
<1>2. ASSUME NEW d \in Device, Reload(d) \/ LocalLogout(d) PROVE TypeInv'
  <2>1. UNCHANGED <<row, valid, session, leaving, call, expiries, drops>>
    BY <1>2 DEF Reload, LocalLogout
  <2>2. due' \in [Device -> BOOLEAN]
    BY <1>2 DEF Reload, LocalLogout, SignOut
  <2>3. store' \in [Device -> StoreState] /\ disturbed' \subseteq Device
    BY <1>2, <1>s DEF Reload, LocalLogout, SignOut
  <2> QED BY <2>1, <2>2, <2>3
<1>3. ASSUME NEW d \in Device, NEW c \in Call, ApiCall(c, d) \/ Login(c, d) \/ Verify(c, d)
      PROVE  TypeInv'
  <2>1. PICK x \in CallState :
          /\ x.step \in {"sent", "create"} /\ x.dev = d
          /\ call' = [call EXCEPT ![c] = x]
    <3>1. ASSUME NEW kind \in {"api", "verify"}, Send(c, d, kind)
          PROVE  \E x \in CallState : /\ x.step \in {"sent", "create"} /\ x.dev = d
                                      /\ call' = [call EXCEPT ![c] = x]
      BY <3>1, store[d] \in StoreState DEF Send, CallState, StoreState
    <3>2. CASE Login(c, d)
      <4> DEFINE x == [Idle EXCEPT !.step = "create", !.dev = d, !.kind = "login"]
      <4>1. x \in CallState /\ x.step = "create" /\ x.dev = d
        BY DEF Idle, CallState, Refreshing
      <4> QED BY <3>2, <4>1 DEF Login
    <3> QED BY <1>3, <3>1, <3>2 DEF ApiCall, Verify
  <2>2. UNCHANGED <<row, valid, session, leaving, store, expiries, drops>>
    BY <1>3 DEF ApiCall, Login, Verify
  <2>3. due' \in [Device -> BOOLEAN] /\ disturbed' \subseteq Device
    BY <1>3 DEF ApiCall, Login, Verify
  <2> QED BY <2>1, <2>2, <2>3 DEF Refreshing
<1>4. CASE LogoutRead \/ LogoutRevoke \/ LogoutDel
  <2>1. /\ row' \in [Token -> {"absent", "active", "revoked", "expired"}]
        /\ session' \in Token \cup {None}
        /\ leaving' \in [step : {"no", "revoke", "del"}, token : Token \cup {None}]
        /\ disturbed' \subseteq Device
    BY <1>4 DEF LogoutRead, LogoutRevoke, LogoutDel
  <2>2. UNCHANGED <<valid, store, due, call, expiries, drops>>
    BY <1>4 DEF LogoutRead, LogoutRevoke, LogoutDel
  <2> QED BY <2>1, <2>2
<1>5. ASSUME NEW c \in Call, Accept(c) \/ Reject(c) \/ RefreshRead(c) \/ Answer(c) \/ Drop(c)
      PROVE  TypeInv'
  <2>1. call[c].dev \in Device
    BY <1>5, <1>c DEF Accept, Reject, RefreshRead, Answer, Drop, Refreshing
  <2>2. PICK x \in CallState :
          /\ x # Idle => x.dev \in Device
          /\ x.step \in Refreshing \ {"create"} => x.token # None
          /\ call' = [call EXCEPT ![c] = x]
    <3> DEFINE Moves == \E x \in CallState :
                          /\ x # Idle => x.dev \in Device
                          /\ x.step \in Refreshing \ {"create"} => x.token # None
                          /\ call' = [call EXCEPT ![c] = x]
    <3>1. call[c] \in CallState /\ store[call[c].dev] \in StoreState
      BY <2>1
    <3>2. CASE End(c)
      BY <3>2, <1>s DEF End, Refreshing
    <3>3. CASE Reject(c) /\ ~End(c)
      <4> DEFINE x == [call[c] EXCEPT !.step = "refresh", !.token = store[call[c].dev].refresh]
      <4>1. x \in CallState /\ x.dev = call[c].dev /\ x.token # None
        BY <3>1, <3>3 DEF Reject, CallState, StoreState, Refreshing
      <4>2. call' = [call EXCEPT ![c] = x]
        BY <3>3 DEF Reject
      <4> QED BY <2>1, <4>1, <4>2
    <3>4. CASE RefreshRead(c) /\ ~End(c)
      <4> DEFINE x == [call[c] EXCEPT !.step = "revoke"]
      <4>1. x \in CallState /\ x.dev = call[c].dev /\ x.token # None
        BY <3>1, <3>4 DEF RefreshRead, CallState, Refreshing
      <4>2. call' = [call EXCEPT ![c] = x]
        BY <3>4 DEF RefreshRead, Goto
      <4> QED BY <2>1, <4>1, <4>2
    <3>5. CASE Answer(c) /\ ~End(c)
      <4> DEFINE x == [call[c] EXCEPT !.step = "sent", !.access = call[c].token, !.retry = TRUE,
                                      !.token = None]
      <4>1. x \in CallState /\ x.dev = call[c].dev /\ x.step = "sent"
        BY <3>1 DEF CallState
      <4>2. call' = [call EXCEPT ![c] = x]
        BY <3>5 DEF Answer
      <4> QED BY <2>1, <4>1, <4>2 DEF Refreshing
    <3> QED BY <1>5, <3>2, <3>3, <3>4, <3>5 DEF Accept, Drop
  <2>3. store' \in [Device -> StoreState]
    <3>1. \A y \in Token \cup {None}, z \in StoreState :
            /\ [z EXCEPT !.auth = TRUE, !.access = y] \in StoreState
            /\ [z EXCEPT !.access = y, !.refresh = y] \in StoreState
            /\ [auth |-> TRUE, access |-> y, refresh |-> y] \in StoreState
      BY DEF StoreState
    <3>2. call[c].token \in Token \cup {None} /\ call[c].closure \in Token \cup {None}
      BY call[c] \in CallState DEF CallState
    <3>3. store[call[c].dev] \in StoreState
      BY <2>1
    <3>4. CASE Accept(c)
      <4> DEFINE z == [store[call[c].dev] EXCEPT !.auth = TRUE, !.access = call[c].closure]
      <4>1. store' = store \/ store' = [store EXCEPT ![call[c].dev] = z]
        BY <2>1, <3>3, <3>4 DEF Accept, StoreState
      <4>2. z \in StoreState
        BY <3>1, <3>2, <3>3
      <4> QED BY <2>1, <4>1, <4>2
    <3>5. CASE Answer(c)
      <4> DEFINE t == call[c].token
                 y == [auth |-> TRUE, access |-> t, refresh |-> t]
                 z == [store[call[c].dev] EXCEPT !.access = t, !.refresh = t]
      <4>1. \/ store' = [store EXCEPT ![call[c].dev] = y]
            \/ store' = [store EXCEPT ![call[c].dev] = z]
        BY <2>1, <3>3, <3>5 DEF Answer, StoreState
      <4>2. y \in StoreState /\ z \in StoreState
        BY <3>1, <3>2, <3>3
      <4> QED BY <2>1, <4>1, <4>2
    <3>6. CASE Reject(c) \/ RefreshRead(c) \/ Drop(c)
      <4>1. store' = store \/ store' = [store EXCEPT ![call[c].dev] = SignedOut]
        BY <3>6 DEF Reject, RefreshRead, Drop, SignOut
      <4> QED BY <1>s, <2>1, <4>1
    <3> QED BY <1>5, <3>4, <3>5, <3>6
  <2>8. due' \in [Device -> BOOLEAN]
    <3>1. due' = due \/ \E b \in BOOLEAN : due' = [due EXCEPT ![call[c].dev] = b]
      <4>1. CASE Accept(c)
        <5>1. (due[call[c].dev] \/ store[call[c].dev].access # call[c].closure) \in BOOLEAN
          OBVIOUS
        <5> QED BY <4>1 DEF Accept
      <4>2. CASE Answer(c)
        BY <4>2 DEF Answer
      <4>3. CASE Reject(c) \/ RefreshRead(c) \/ Drop(c)
        BY <4>3 DEF Reject, RefreshRead, Drop, SignOut
      <4> QED BY <1>5, <4>1, <4>2, <4>3
    <3> QED BY <2>1, <3>1
  <2>9. disturbed' \subseteq Device
    BY <1>5, <2>1 DEF Accept, Reject, RefreshRead, Answer, Drop, SignOut
  <2>4. /\ UNCHANGED <<row, valid, session, leaving, expiries>>
        /\ drops' \in 0 .. MaxDrops
    BY <1>5 DEF Accept, Reject, RefreshRead, Answer, Drop
  <2>5. call' \in [Call -> CallState]
    BY <2>2
  <2>6. \A k \in Call : call'[k].step \in Refreshing \ {"create"} => call'[k].token # None
    BY <2>2
  <2>7. \A k \in Call : call'[k] # Idle => call'[k].dev \in Device
    BY <2>2
  <2> QED BY <2>3, <2>4, <2>5, <2>6, <2>7, <2>8, <2>9
<1>6. ASSUME NEW c \in Call,
             RefreshRevoke(c) \/ Remember(c) \/ \E t \in Token : CreateToken(c, t)
      PROVE  TypeInv'
  <2>1. call[c] \in CallState /\ call[c].dev \in Device
    BY <1>6, <1>c DEF RefreshRevoke, Remember, CreateToken
  <2>2. PICK x \in CallState :
          /\ x.dev \in Device
          /\ x.step \in Refreshing \ {"create"} => x.token # None
          /\ call' = [call EXCEPT ![c] = x]
    <3>1. CASE RefreshRevoke(c)
      <4> DEFINE x == [call[c] EXCEPT !.step = "create"]
      <4>1. x \in CallState /\ x.dev = call[c].dev /\ x.step = "create"
        BY <2>1 DEF CallState, Refreshing
      <4>2. call' = [call EXCEPT ![c] = x]
        BY <3>1 DEF RefreshRevoke, Goto
      <4> QED BY <2>1, <4>1, <4>2
    <3>2. CASE Remember(c)
      <4> DEFINE x == [call[c] EXCEPT !.step = "answer"]
      <4>1. x \in CallState /\ x.dev = call[c].dev /\ x.token # None
        BY <2>1, <3>2 DEF Remember, CallState, Refreshing
      <4>2. call' = [call EXCEPT ![c] = x]
        BY <3>2 DEF Remember, Goto
      <4> QED BY <2>1, <4>1, <4>2
    <3>3. ASSUME NEW t \in Token, CreateToken(c, t)
          PROVE  \E x \in CallState :
                   /\ x.dev \in Device
                   /\ x.step \in Refreshing \ {"create"} => x.token # None
                   /\ call' = [call EXCEPT ![c] = x]
      <4> DEFINE x == [call[c] EXCEPT !.step = "remember", !.token = t]
      <4>1. x \in CallState /\ x.dev = call[c].dev /\ x.token # None
        BY <2>1 DEF CallState, Refreshing
      <4>2. call' = [call EXCEPT ![c] = x]
        BY <3>3 DEF CreateToken
      <4> QED BY <2>1, <4>1, <4>2
    <3> QED BY <1>6, <3>1, <3>2, <3>3
  <2>3. /\ row' \in [Token -> {"absent", "active", "revoked", "expired"}]
        /\ valid' \subseteq Token /\ session' \in Token \cup {None}
    <3>1. call[c].token \in Token \cup {None}
      BY <2>1 DEF CallState
    <3> QED BY <1>6, <3>1 DEF RefreshRevoke, Remember, CreateToken
  <2>4. UNCHANGED <<leaving, store, due, expiries, drops, disturbed>>
    BY <1>6 DEF RefreshRevoke, Remember, CreateToken
  <2>5. call' \in [Call -> CallState]
    BY <2>2
  <2>6. \A k \in Call : call'[k].step \in Refreshing \ {"create"} => call'[k].token # None
    BY <2>2
  <2>7. \A k \in Call : call'[k] # Idle => call'[k].dev \in Device
    BY <2>2
  <2> QED BY <2>3, <2>4, <2>5, <2>6, <2>7
<1>7. ASSUME NEW t \in Token, AccessExpires(t) \/ RefreshExpires(t) PROVE TypeInv'
  <2>1. expiries' \in 0 .. MaxExpiries
    BY <1>7 DEF AccessExpires, RefreshExpires
  <2>2. row' \in [Token -> {"absent", "active", "revoked", "expired"}] /\ valid' \subseteq Token
    BY <1>7 DEF AccessExpires, RefreshExpires
  <2>3. UNCHANGED <<session, leaving, store, due, call, drops, disturbed>>
    BY <1>7 DEF AccessExpires, RefreshExpires
  <2> QED BY <2>1, <2>2, <2>3
<1> QED
  BY <1>1, <1>2, <1>3, <1>4, <1>5, <1>6, <1>7 DEF Next, UserActs, Serve

-----------------------------------------------------------------------------
(* Whose a token is, and what a logout does to everybody *)

\* A device that is disturbed stays so, and a logout disturbs them all.
LEMMA NextDisturbs == TypeInv /\ LogoutDisturbs /\ [Next]_vars
                        => disturbed \subseteq disturbed' /\ LogoutDisturbs'
<1> SUFFICES ASSUME TypeInv, LogoutDisturbs, [Next]_vars
             PROVE  disturbed \subseteq disturbed' /\ LogoutDisturbs'
  OBVIOUS
<1>1. disturbed \subseteq Device
  BY DEF TypeInv, TypeOK
<1>2. \A c \in Call : call[c] # Idle => call[c].dev \in Device
  BY DEF TypeInv, CallsHaveDevice
<1> USE DEF LogoutDisturbs, SignOut
<1>3. CASE UNCHANGED vars
  BY <1>3 DEF vars
<1>4. ASSUME NEW d \in Device, Reload(d) \/ LocalLogout(d) \/ \E c \in Call : ApiCall(c, d) \/ Login(c, d) \/ Verify(c, d)
      PROVE  disturbed \subseteq disturbed' /\ LogoutDisturbs'
  BY <1>1, <1>4 DEF Reload, LocalLogout, ApiCall, Login, Verify
<1>5. CASE LogoutRead \/ LogoutRevoke \/ LogoutDel
  BY <1>1, <1>5 DEF LogoutRead, LogoutRevoke, LogoutDel
<1>6. ASSUME NEW c \in Call, Serve(c) \/ Drop(c) PROVE disturbed \subseteq disturbed' /\ LogoutDisturbs'
  <2>1. call[c].dev \in Device
    <3>1. CASE Drop(c)
      BY <1>2, <3>1 DEF Drop
    <3>2. CASE Serve(c)
      <4>1. call[c].step \in {"sent"} \cup Refreshing
        BY <3>2 DEF Serve, Accept, Reject, RefreshRead, RefreshRevoke, Remember, Answer, CreateToken,
                    Refreshing
      <4> QED BY <1>2, <4>1 DEF Idle, Refreshing
    <3> QED BY <1>6, <3>1, <3>2
  <2> QED
    <3>1. CASE Drop(c)
      BY <1>1, <2>1, <3>1 DEF Drop
    <3>2. CASE Accept(c) \/ RefreshRevoke(c) \/ Remember(c) \/ Answer(c)
               \/ \E t \in Token : CreateToken(c, t)
      BY <3>2 DEF Accept, RefreshRevoke, Remember, Answer, CreateToken
    <3>3. CASE Reject(c) \/ RefreshRead(c)
      BY <1>1, <2>1, <3>3 DEF Reject, RefreshRead
    <3> QED BY <1>6, <3>1, <3>2, <3>3 DEF Serve
<1>7. ASSUME NEW t \in Token, AccessExpires(t) \/ RefreshExpires(t)
      PROVE  disturbed \subseteq disturbed' /\ LogoutDisturbs'
  BY <1>7 DEF AccessExpires, RefreshExpires
<1> QED
  BY <1>3, <1>4, <1>5, <1>6, <1>7 DEF Next, UserActs

\* If no device takes hold of a token it did not hold, each keeps its own.
LEMMA KeepOwn ==
    ASSUME OwnTokens, \A d \in Device, t \in Token : Holds(d, t)' => Holds(d, t)
    PROVE  OwnTokens'
  BY DEF OwnTokens

\* Tokens pass from the store to a call and back within one device, and a
\* new one is fresh.
LEMMA NextOwn == TypeInv /\ OwnTokens /\ [Next]_vars => OwnTokens'
<1> SUFFICES ASSUME TypeInv, OwnTokens, [Next]_vars PROVE OwnTokens'
  OBVIOUS
<1> DEFINE Kept == \A d \in Device, t \in Token : Holds(d, t)' => Holds(d, t)
<1>1. CASE UNCHANGED vars
  <2>1. Kept
    BY <1>1 DEF vars, browser, Holds
  <2> QED BY <2>1, KeepOwn
<1>t. /\ None \notin Token \cup Device
      /\ store \in [Device -> StoreState]
      /\ call \in [Call -> CallState]
      /\ \A c \in Call : call[c] # Idle => call[c].dev \in Device
  BY SessionsAssumption DEF TypeInv, TypeOK, CallsHaveDevice
<1> USE <1>t DEF Holds, CallState, StoreState, Idle, SignedOut, server, browser, Goto, End, SignOut
<1>2. ASSUME NEW d \in Device, Reload(d) \/ LocalLogout(d) PROVE OwnTokens'
  <2>1. Kept
    BY <1>2 DEF Reload, LocalLogout
  <2> QED BY <2>1, KeepOwn
<1>3. ASSUME NEW d \in Device, NEW c \in Call, ApiCall(c, d) \/ Login(c, d) \/ Verify(c, d)
      PROVE  OwnTokens'
  <2>1. store' = store
    BY <1>3 DEF ApiCall, Login, Verify
  <2>2. call'[c].token = None /\ \A k \in Call \ {c} : call'[k] = call[k]
    <3>1. CASE ApiCall(c, d) \/ Verify(c, d)
      BY <3>1 DEF ApiCall, Verify, Send
    <3>2. CASE Login(c, d)
      BY <3>2 DEF Login
    <3> QED BY <1>3, <3>1, <3>2
  <2>3. Kept
    BY <2>1, <2>2
  <2> QED BY <2>3, KeepOwn
<1>4. CASE LogoutRead \/ LogoutRevoke \/ LogoutDel
  <2>1. Kept
    BY <1>4 DEF LogoutRead, LogoutRevoke, LogoutDel
  <2> QED BY <2>1, KeepOwn
<1>5. ASSUME NEW c \in Call, Accept(c) \/ Reject(c) \/ RefreshRead(c) PROVE OwnTokens'
  <2>1. CASE Accept(c)
    <3>1. Kept
      BY <2>1 DEF Accept
    <3> QED BY <3>1, KeepOwn
  <2>2. CASE Reject(c)
    <3>1. Kept
      BY <2>2 DEF Reject
    <3> QED BY <3>1, KeepOwn
  <2>3. CASE RefreshRead(c)
    <3>1. Kept
      BY <2>3 DEF RefreshRead
    <3> QED BY <3>1, KeepOwn
  <2> QED BY <1>5, <2>1, <2>2, <2>3
<1>6. ASSUME NEW c \in Call, RefreshRevoke(c) \/ Remember(c) \/ Answer(c) \/ Drop(c) PROVE OwnTokens'
  <2>1. CASE RefreshRevoke(c) \/ Remember(c)
    <3>1. \A k \in Call : call'[k].dev = call[k].dev /\ call'[k].token = call[k].token
      BY <2>1 DEF RefreshRevoke, Remember
    <3>2. Kept
      BY <2>1, <3>1 DEF RefreshRevoke, Remember
    <3> QED BY <3>2, KeepOwn
  <2>2. CASE Answer(c)
    <3>1. /\ call'[c].token = None
          /\ \A k \in Call \ {c} : call'[k] = call[k]
      BY <2>2 DEF Answer
    <3>2. /\ call[c].dev \in Device
          /\ store'[call[c].dev].refresh = call[c].token
          /\ \A d \in Device \ {call[c].dev} : store'[d] = store[d]
      BY <2>2 DEF Answer
    <3>3. Kept
      BY <3>1, <3>2
    <3> QED BY <3>3, KeepOwn
  <2>3. CASE Drop(c)
    <3>1. Kept
      BY <2>3 DEF Drop
    <3> QED BY <3>1, KeepOwn
  <2> QED BY <1>6, <2>1, <2>2, <2>3
<1>7. ASSUME NEW c \in Call, NEW t \in Token, CreateToken(c, t) PROVE OwnTokens'
  <2>1. \A d \in Device : ~Holds(d, t)
    BY <1>7 DEF CreateToken, Fresh
  <2>2. \A d \in Device, u \in Token : Holds(d, u)' => Holds(d, u) \/ (u = t /\ d = call[c].dev)
    BY <1>7 DEF CreateToken
  <2> HIDE DEF Holds
  <2> QED BY <2>1, <2>2 DEF OwnTokens
<1>8. ASSUME NEW t \in Token, AccessExpires(t) \/ RefreshExpires(t) PROVE OwnTokens'
  <2>1. Kept
    BY <1>8 DEF AccessExpires, RefreshExpires
  <2> QED BY <2>1, KeepOwn
<1> QED
  BY <1>1, <1>2, <1>3, <1>4, <1>5, <1>6, <1>7, <1>8 DEF Next, UserActs, Serve

-----------------------------------------------------------------------------
(* A device that nothing disturbs *)

\* A step that leaves the store and the calls of a device alone, and revokes
\* none of its tokens, leaves it undisturbed.
LEMMA Frame ==
    ASSUME TypeInv, TypeInv', NEW d \in Device, Undisturbed(d),
           store'[d] = store[d],
           \A c \in Call : call[c].dev = d \/ call'[c].dev = d => call'[c] = call[c],
           \A t \in Token : Holds(d, t) /\ row[t] \in Live => row'[t] \in Live
    PROVE  Undisturbed(d)'
<1>1. InFlight(d)' = InFlight(d)
  BY DEF InFlight
<1>2. \A c \in InFlight(d) : call'[c] = call[c]
  BY DEF InFlight
<1>3. RefreshingNow(d)' = RefreshingNow(d)
  BY <1>1, <1>2 DEF RefreshingNow
<1>4. StoreWhole(d)' /\ OneRefresh(d)'
  BY <1>1, <1>2, <1>3 DEF Undisturbed, StoreWhole, OneRefresh, RefreshingNow
<1>5. store[d].refresh \in Token \cup {None}
  BY DEF TypeInv, TypeOK, StoreState
<1>6. \A c \in InFlight(d) : call[c].step \in Refreshing \ {"create"} => Holds(d, call[c].token) /\ call[c].token \in Token
  BY DEF TypeInv, TypeOK, CallState, Holds, InFlight
<1>7. TokensLive(d)'
  <2>1. store'[d].refresh # None /\ RefreshingNow(d)' = {} => row'[store'[d].refresh] \in Live
    BY <1>3, <1>5 DEF Undisturbed, TokensLive, Holds
  <2>2. \A c \in InFlight(d)' :
          call'[c].step \in Refreshing \ {"create"} => row'[call'[c].token] \in Live
    BY <1>1, <1>2, <1>6 DEF Undisturbed, TokensLive
  <2> QED BY <2>1, <2>2 DEF TokensLive, Live
<1> QED BY <1>4, <1>7 DEF Undisturbed

\* A device that is signed out, with nothing in flight, is undisturbed.
LEMMA SignedOutAtRest ==
    ASSUME NEW d \in Device, store'[d] = SignedOut, InFlight(d)' = {}
    PROVE  Undisturbed(d)'
<1>1. RefreshingNow(d)' = {}
  BY DEF RefreshingNow
<1>2. StoreWhole(d)' /\ TokensLive(d)'
  BY <1>1 DEF StoreWhole, TokensLive, SignedOut
<1>3. OneRefresh(d)'
  BY <1>1 DEF OneRefresh
<1> QED BY <1>2, <1>3 DEF Undisturbed

\* A refresh reads a token, and one that is not active ends it: alone, it
\* leaves the device signed out and at rest.
LEMMA LeavesAtRest ==
    ASSUME TypeInv, TypeInv', NEW d \in Device, NEW c \in Call, call[c].dev = d,
           End(c), SignOut(d, InFlight(d) \ {c}), d \notin disturbed'
    PROVE  Undisturbed(d)'
<1>1. InFlight(d) \ {c} = {}
  BY DEF SignOut
<1>2. d # None
  BY SessionsAssumption
<1>3. InFlight(d)' = {}
  <2>1. call'[c].dev = None /\ \A k \in Call \ {c} : call'[k] = call[k]
    BY DEF End, TypeInv, TypeOK, Idle
  <2> QED BY <1>1, <1>2, <2>1 DEF InFlight
<1>4. store'[d] = SignedOut
  BY DEF SignOut, TypeInv, TypeOK
<1> QED BY <1>3, <1>4, SignedOutAtRest

\* What a user does on a device nothing disturbs.
LEMMA UserKeepsUndisturbed ==
    ASSUME TypeInv, TypeInv', NEW d \in Device, NEW e \in Device, Undisturbed(d), d \notin disturbed',
           \/ Reload(e) \/ LocalLogout(e)
           \/ \E c \in Call : ApiCall(c, e) \/ Login(c, e) \/ Verify(c, e)
    PROVE  Undisturbed(d)'
<1> USE DEF server, browser
<1>n. d # None /\ e # None
  BY SessionsAssumption
<1>t. store \in [Device -> StoreState] /\ call \in [Call -> CallState]
  BY DEF TypeInv, TypeOK
<1>1. CASE Reload(e)
  BY <1>1, Frame DEF Reload
<1>2. CASE LocalLogout(e)
  <2>1. CASE d = e
    <3>1. InFlight(d)' = {}
      BY <1>2, <2>1 DEF LocalLogout, SignOut, InFlight
    <3>2. store'[d] = SignedOut
      BY <1>2, <1>t, <2>1 DEF LocalLogout, SignOut
    <3> QED BY <3>1, <3>2, SignedOutAtRest
  <2>2. CASE d # e
    BY <1>2, <1>t, <2>2, Frame DEF LocalLogout, SignOut
  <2> QED BY <2>1, <2>2
<1>3. ASSUME NEW c \in Call, ApiCall(c, e) \/ Login(c, e) \/ Verify(c, e) PROVE Undisturbed(d)'
  <2>1. call[c] = Idle /\ store' = store /\ row' = row
    BY <1>3 DEF ApiCall, Login, Verify
  <2>2. call[c].dev = None
    BY <2>1 DEF Idle
  <2> DEFINE Starts(x) ==
        /\ x.dev = e
        /\ \/ x.kind = "login" /\ x.step = "create" /\ Login(c, e)
           \/ /\ x.kind \in {"api", "verify"} /\ x.step = "sent"
              /\ x.closure = store[e].access
              /\ x.kind = "verify" => store[e].access # None
              /\ store[e].auth \/ store[e].access # None
  <2>3. PICK x : call' = [call EXCEPT ![c] = x] /\ Starts(x)
    <3>1. CASE Login(c, e)
      <4> DEFINE x == [Idle EXCEPT !.step = "create", !.dev = e, !.kind = "login"]
      <4>1. Starts(x)
        BY <3>1 DEF Idle
      <4> QED BY <3>1, <4>1 DEF Login
    <3>2. ASSUME NEW kind \in {"api", "verify"}, Send(c, e, kind),
                 kind = "verify" => store[e].access # None,
                 store[e].auth \/ store[e].access # None
          PROVE  \E x : call' = [call EXCEPT ![c] = x] /\ Starts(x)
      <4> DEFINE x == [step |-> "sent", dev |-> e, kind |-> kind, retry |-> FALSE,
                       access |-> store[e].access, closure |-> store[e].access, token |-> None]
      <4>1. Starts(x)
        BY <3>2
      <4> HIDE DEF Starts
      <4> QED BY <3>2, <4>1 DEF Send
    <3> HIDE DEF Starts
    <3> QED BY <1>3, <3>1, <3>2 DEF ApiCall, Verify
  <2>4. call'[c] = x /\ \A k \in Call \ {c} : call'[k] = call[k]
    BY <1>t, <2>3
  <2>5. CASE d # e
    <3>1. \A k \in Call : call[k].dev = d \/ call'[k].dev = d => call'[k] = call[k]
      BY <1>n, <2>2, <2>3, <2>4, <2>5
    <3> QED BY <2>1, <3>1, Frame
  <2>6. CASE d = e
    <3>1. c \notin InFlight(d) /\ InFlight(d)' = InFlight(d) \cup {c}
      BY <1>n, <2>2, <2>3, <2>4, <2>6 DEF InFlight
    <3>2. CASE Login(c, e)
      <4>1. InFlight(d)' = {c} /\ x.kind = "login" /\ x.step = "create" /\ ~store[d].auth
        <5>1. InFlight(d) = {}
          BY <2>6, <3>2 DEF Login
        <5>2. [Idle EXCEPT !.step = "create", !.dev = e, !.kind = "login"] = x
          BY <2>3, <2>4, <3>2, <1>t DEF Login
        <5> QED BY <2>6, <3>1, <3>2, <5>1, <5>2 DEF Login, Idle
      <4>2. StoreWhole(d)' /\ OneRefresh(d)'
        BY <2>1, <2>4, <4>1 DEF Undisturbed, StoreWhole, OneRefresh, RefreshingNow
      <4>3. store[d].refresh = None
        BY <4>1 DEF Undisturbed, StoreWhole
      <4>4. TokensLive(d)'
        BY <2>1, <2>4, <4>1, <4>3 DEF TokensLive
      <4> QED BY <4>2, <4>4 DEF Undisturbed
    <3>3. CASE ~Login(c, e)
      <4>1. x.kind # "login" /\ x.step = "sent" /\ store[d].auth
        BY <2>3, <2>6, <3>3 DEF Undisturbed, StoreWhole
      <4>2. RefreshingNow(d)' = RefreshingNow(d)
        BY <2>4, <3>1, <4>1 DEF RefreshingNow, Refreshing, InFlight
      <4>3. \A k \in InFlight(d) : k # c /\ call'[k] = call[k] /\ call[k].kind # "login"
        BY <2>4, <3>1, <4>1 DEF Undisturbed, StoreWhole, InFlight
      <4>4. StoreWhole(d)'
        <5>1. \A k \in InFlight(d)' : /\ call'[k].kind = "login" => ~store[d].auth
                                      /\ call'[k].kind # "login" => store[d].auth
                                      /\ call'[k].kind = "verify" => call'[k].closure # None
          BY <2>3, <2>4, <2>6, <3>1, <4>1, <4>3 DEF Undisturbed, StoreWhole
        <5> QED BY <2>1, <5>1 DEF Undisturbed, StoreWhole
      <4>5. OneRefresh(d)'
        <5>1. \A c1, c2 \in RefreshingNow(d)' : c1 = c2
          BY <4>2 DEF Undisturbed, OneRefresh
        <5>2. \A c1 \in InFlight(d)' : call'[c1].kind # "login"
          BY <2>4, <3>1, <4>1, <4>3
        <5> QED BY <5>1, <5>2 DEF OneRefresh
      <4>6. TokensLive(d)'
        <5>1. \A k \in InFlight(d)' : call'[k].step \in Refreshing \ {"create"} => k # c
          BY <2>4, <4>1 DEF Refreshing
        <5> QED BY <2>1, <3>1, <4>2, <4>3, <5>1 DEF Undisturbed, TokensLive
      <4> QED BY <4>4, <4>5, <4>6 DEF Undisturbed
    <3> QED BY <3>2, <3>3
  <2> QED BY <2>5, <2>6
<1> QED BY <1>1, <1>2, <1>3

\* What the server and the interceptor do with a call of a device nothing
\* disturbs, and with those of others.
LEMMA CallKeepsUndisturbed ==
    ASSUME TypeInv, TypeInv', OwnTokens, NEW d \in Device, NEW c \in Call,
           Undisturbed(d), d \notin disturbed', Serve(c) \/ Drop(c)
    PROVE  Undisturbed(d)'
<1> USE DEF server, browser
<1>n. d # None
  BY SessionsAssumption
<1>t. /\ store \in [Device -> StoreState] /\ call \in [Call -> CallState]
      /\ row \in [Token -> {"absent", "active", "revoked", "expired"}]
  BY DEF TypeInv, TypeOK
<1>c. call[c].dev \in Device
  BY DEF TypeInv, CallsHaveDevice, Serve, Accept, Reject, RefreshRead, RefreshRevoke, Remember, Answer,
         CreateToken, Drop, Idle
<1>1. CASE call[c].dev # d
  <2>1. call'[c].dev # d /\ \A k \in Call \ {c} : call'[k] = call[k]
    BY <1>1, <1>n, <1>t DEF Serve, Accept, Reject, RefreshRead, RefreshRevoke, Remember, Answer,
         CreateToken, Drop, Goto, End, Idle, CallState
  <2>2. store'[d] = store[d]
    BY <1>1, <1>t, <1>c DEF Serve, Accept, Reject, RefreshRead, RefreshRevoke, Remember, Answer,
         CreateToken, Drop, SignOut
  <2>3. \A t \in Token : Holds(d, t) /\ row[t] \in Live => row'[t] \in Live
    <3>1. CASE RefreshRevoke(c)
      <4>1. call[c].token \in Token => Holds(call[c].dev, call[c].token)
        BY DEF Holds
      <4>2. \A t \in Token : Holds(d, t) => t # call[c].token
        BY <1>1, <1>c, <4>1 DEF OwnTokens
      <4> QED BY <1>t, <3>1, <4>2 DEF RefreshRevoke
    <3>2. ASSUME NEW t \in Token, CreateToken(c, t) PROVE \A u \in Token : row[u] \in Live => row'[u] \in Live
      BY <1>t, <3>2 DEF CreateToken, Live
    <3>3. CASE ~RefreshRevoke(c) /\ ~\E t \in Token : CreateToken(c, t)
      BY <3>3 DEF Serve, Accept, Reject, RefreshRead, Remember, Answer, Drop
    <3> QED BY <3>1, <3>2, <3>3
  <2> QED BY <1>1, <2>1, <2>2, <2>3, Frame
<1>2. CASE call[c].dev = d
  <2>f. c \in InFlight(d)
    BY <1>2 DEF InFlight
  <2>g. /\ call[c].kind = "login" => ~store[d].auth
        /\ call[c].kind # "login" => store[d].auth
        /\ call[c].kind = "verify" => call[c].closure # None
        /\ store[d].auth <=> store[d].refresh # None
        /\ store[d].auth <=> store[d].access # None
    BY <2>f DEF Undisturbed, StoreWhole
  \* A call that ends without having refreshed anything.
  <2>e. ASSUME End(c), call[c].step = "sent", row' = row,
               store'[d].refresh = store[d].refresh,
               store'[d].auth <=> store[d].auth,
               store'[d].access = None <=> store[d].access = None
        PROVE  Undisturbed(d)'
    <3>1. call'[c].dev = None /\ \A k \in Call \ {c} : call'[k] = call[k]
      BY <1>t, <2>e DEF End, Idle
    <3>2. InFlight(d)' = InFlight(d) \ {c}
      BY <1>n, <3>1 DEF InFlight
    <3>3. RefreshingNow(d)' = RefreshingNow(d)
      BY <2>e, <3>1, <3>2 DEF RefreshingNow, Refreshing, InFlight
    <3>4. \A k \in InFlight(d)' : k \in InFlight(d) /\ call'[k] = call[k]
      BY <3>1, <3>2 DEF InFlight
    <3>5. StoreWhole(d)'
      BY <2>e, <3>4 DEF Undisturbed, StoreWhole
    <3>6. OneRefresh(d)'
      BY <3>3, <3>4 DEF Undisturbed, OneRefresh
    <3>7. TokensLive(d)'
      BY <2>e, <3>3, <3>4 DEF Undisturbed, TokensLive
    <3> QED BY <3>5, <3>6, <3>7 DEF Undisturbed
  \* A call that goes on, and touches neither the store nor another call.
  <2>s. ASSUME NEW x, call' = [call EXCEPT ![c] = x], store' = store,
               x.dev = d, x.kind = call[c].kind, x.closure = call[c].closure
        PROVE  /\ InFlight(d)' = InFlight(d) /\ call'[c] = x
               /\ \A k \in Call \ {c} : call'[k] = call[k]
               /\ StoreWhole(d)'
               /\ \A c1, c2 \in InFlight(d)' : call'[c1].kind = "login" => c1 = c2
    <3>1. call'[c] = x /\ \A k \in Call \ {c} : call'[k] = call[k]
      BY <1>t, <2>s
    <3>2. InFlight(d)' = InFlight(d)
      BY <1>2, <2>s, <3>1 DEF InFlight
    <3>3. \A k \in InFlight(d) : call'[k].kind = call[k].kind /\ call'[k].closure = call[k].closure
      BY <2>s, <3>1 DEF InFlight
    <3>4. StoreWhole(d)'
      BY <2>s, <3>2, <3>3 DEF Undisturbed, StoreWhole
    <3> QED BY <3>1, <3>2, <3>3, <3>4 DEF Undisturbed, OneRefresh
  \* A call that was refreshing alone goes on refreshing.
  <2>r. ASSUME call[c].step \in Refreshing
        PROVE  \A k \in Call \ {c} : k \notin RefreshingNow(d)
    BY <2>f, <2>r DEF Undisturbed, OneRefresh, RefreshingNow
  <2>o. ASSUME call'[c].dev = d, call'[c].step \in Refreshing,
               \A k \in Call \ {c} : call'[k] = call[k] /\ k \notin RefreshingNow(d)
        PROVE  RefreshingNow(d)' = {c}
    BY <2>o DEF RefreshingNow, InFlight
  <2>1. CASE Accept(c)
    <3>1. call[c].kind = "verify" => store'[d] = [store[d] EXCEPT !.auth = TRUE, !.access = call[c].closure]
      BY <1>2, <1>c, <1>t, <2>1 DEF Accept, StoreState
    <3>2. call[c].kind # "verify" => store' = store
      BY <2>1 DEF Accept
    <3>3. store[d] \in StoreState
      BY <1>t
    <3>4. /\ store'[d].refresh = store[d].refresh
          /\ store'[d].auth <=> store[d].auth
          /\ store'[d].access = None <=> store[d].access = None
      BY <2>g, <3>1, <3>2, <3>3 DEF StoreState
    <3> QED BY <2>1, <2>e, <3>4 DEF Accept
  <2>2. CASE Reject(c)
    <3>1. CASE call[c].retry
      BY <2>2, <2>e, <3>1 DEF Reject
    <3>2. CASE ~call[c].retry /\ store[d].refresh = None
      BY <1>2, <2>2, <3>2, LeavesAtRest DEF Reject
    <3>3. CASE ~call[c].retry /\ store[d].refresh # None
      <4> DEFINE x == [call[c] EXCEPT !.step = "refresh", !.token = store[d].refresh]
      <4>1. call' = [call EXCEPT ![c] = x] /\ store' = store /\ row' = row
        BY <1>2, <2>2, <3>3 DEF Reject
      <4>2. /\ x.dev = d /\ x.kind = call[c].kind /\ x.closure = call[c].closure
            /\ x.step = "refresh" /\ x.token = store[d].refresh
        BY <1>2, <1>t DEF CallState
      <4> HIDE DEF x
      <4>3. /\ InFlight(d)' = InFlight(d) /\ call'[c] = x
            /\ \A k \in Call \ {c} : call'[k] = call[k]
            /\ StoreWhole(d)'
            /\ \A c1, c2 \in InFlight(d)' : call'[c1].kind = "login" => c1 = c2
        BY <2>s, <4>1, <4>2
      <4>4. RefreshingNow(d) = {}
        BY <1>2, <2>2, <3>3 DEF Reject
      <4>5. RefreshingNow(d)' = {c}
        BY <2>o, <4>2, <4>3, <4>4 DEF Refreshing
      <4>6. row[store[d].refresh] \in Live
        BY <3>3, <4>4 DEF Undisturbed, TokensLive
      <4>7. TokensLive(d)'
        <5>1. \A k \in InFlight(d)' \ {c} : call'[k].step \notin Refreshing
          BY <4>5 DEF RefreshingNow
        <5> QED BY <4>1, <4>2, <4>3, <4>5, <4>6, <5>1 DEF TokensLive, Live
      <4> QED BY <4>3, <4>5, <4>7 DEF Undisturbed, OneRefresh
    <3> QED BY <3>1, <3>2, <3>3
  <2>3. CASE RefreshRead(c)
    <3>1. CASE row[call[c].token] = "active"
      <4> DEFINE x == [call[c] EXCEPT !.step = "revoke"]
      <4>1. call' = [call EXCEPT ![c] = x] /\ store' = store /\ row' = row
        BY <2>3, <3>1 DEF RefreshRead, Goto
      <4>2. /\ x.dev = d /\ x.kind = call[c].kind /\ x.closure = call[c].closure
            /\ x.step = "revoke" /\ x.token = call[c].token
        BY <1>2, <1>t DEF CallState
      <4> HIDE DEF x
      <4>3. /\ InFlight(d)' = InFlight(d) /\ call'[c] = x
            /\ \A k \in Call \ {c} : call'[k] = call[k]
            /\ StoreWhole(d)'
            /\ \A c1, c2 \in InFlight(d)' : call'[c1].kind = "login" => c1 = c2
        BY <2>s, <4>1, <4>2
      <4>4. RefreshingNow(d)' = {c}
        BY <2>3, <2>o, <2>r, <4>2, <4>3 DEF RefreshRead, Refreshing
      <4>5. TokensLive(d)'
        <5>1. \A k \in InFlight(d)' \ {c} : call'[k].step \notin Refreshing
          BY <4>4 DEF RefreshingNow
        <5> QED BY <3>1, <4>1, <4>2, <4>3, <4>4, <5>1 DEF TokensLive, Live
      <4> QED BY <4>3, <4>4, <4>5 DEF Undisturbed, OneRefresh
    <3>2. CASE row[call[c].token] # "active"
      BY <1>2, <2>3, <3>2, LeavesAtRest DEF RefreshRead
    <3> QED BY <3>1, <3>2
  <2>4. CASE RefreshRevoke(c)
    <3> DEFINE x == [call[c] EXCEPT !.step = "create"]
    <3>1. call' = [call EXCEPT ![c] = x] /\ store' = store
      BY <2>4 DEF RefreshRevoke, Goto
    <3>2. /\ x.dev = d /\ x.kind = call[c].kind /\ x.closure = call[c].closure
          /\ x.step = "create"
      BY <1>2, <1>t DEF CallState
    <3> HIDE DEF x
    <3>3. /\ InFlight(d)' = InFlight(d) /\ call'[c] = x
          /\ \A k \in Call \ {c} : call'[k] = call[k]
          /\ StoreWhole(d)'
          /\ \A c1, c2 \in InFlight(d)' : call'[c1].kind = "login" => c1 = c2
      BY <2>s, <3>1, <3>2
    <3>4. RefreshingNow(d)' = {c}
      BY <2>4, <2>o, <2>r, <3>2, <3>3 DEF RefreshRevoke, Refreshing
    <3>5. TokensLive(d)'
      <4>1. \A k \in InFlight(d)' \ {c} : call'[k].step \notin Refreshing
        BY <3>4 DEF RefreshingNow
      <4> QED BY <3>2, <3>3, <3>4, <4>1 DEF TokensLive
    <3> QED BY <3>3, <3>4, <3>5 DEF Undisturbed, OneRefresh
  <2>5. CASE Remember(c)
    <3> DEFINE x == [call[c] EXCEPT !.step = "answer"]
    <3>1. call' = [call EXCEPT ![c] = x] /\ store' = store /\ row' = row
      BY <2>5 DEF Remember, Goto
    <3>2. /\ x.dev = d /\ x.kind = call[c].kind /\ x.closure = call[c].closure
          /\ x.step = "answer" /\ x.token = call[c].token
      BY <1>2, <1>t DEF CallState
    <3> HIDE DEF x
    <3>3. /\ InFlight(d)' = InFlight(d) /\ call'[c] = x
          /\ \A k \in Call \ {c} : call'[k] = call[k]
          /\ StoreWhole(d)'
          /\ \A c1, c2 \in InFlight(d)' : call'[c1].kind = "login" => c1 = c2
      BY <2>s, <3>1, <3>2
    <3>4. RefreshingNow(d)' = {c}
      BY <2>5, <2>o, <2>r, <3>2, <3>3 DEF Remember, Refreshing
    <3>5. row[call[c].token] \in Live
      BY <2>5, <2>f DEF Remember, Undisturbed, TokensLive, Refreshing
    <3>6. TokensLive(d)'
      <4>1. \A k \in InFlight(d)' \ {c} : call'[k].step \notin Refreshing
        BY <3>4 DEF RefreshingNow
      <4> QED BY <3>1, <3>2, <3>3, <3>4, <3>5, <4>1 DEF TokensLive, Live
    <3> QED BY <3>3, <3>4, <3>6 DEF Undisturbed, OneRefresh
  <2>6. CASE Answer(c)
    <3>1. row[call[c].token] \in Live /\ row' = row
      BY <2>6, <2>f DEF Answer, Undisturbed, TokensLive, Refreshing
    <3>2. call[c].token # None
      BY <2>6 DEF Answer, TypeInv, TypeOK, Refreshing
    <3>3. \A k \in Call \ {c} : call'[k] = call[k] /\ k \notin RefreshingNow(d)
      BY <1>t, <2>6, <2>r DEF Answer, End, Refreshing
    <3>4. CASE call[c].kind = "login"
      <4>1. InFlight(d) = {c}
        BY <2>f, <3>4 DEF Undisturbed, OneRefresh
      <4>2. InFlight(d)' = {}
        BY <1>n, <1>t, <2>6, <3>4, <4>1 DEF Answer, End, Idle, InFlight
      <4>3. RefreshingNow(d)' = {}
        BY <4>2 DEF RefreshingNow
      <4>4. store'[d] = [auth |-> TRUE, access |-> call[c].token, refresh |-> call[c].token]
        BY <1>2, <1>t, <1>c, <2>6, <3>4 DEF Answer
      <4>5. StoreWhole(d)' /\ OneRefresh(d)' /\ TokensLive(d)'
        BY <3>1, <3>2, <4>2, <4>3, <4>4 DEF StoreWhole, OneRefresh, TokensLive, Live
      <4> QED BY <4>5 DEF Undisturbed
    <3>5. CASE call[c].kind # "login"
      <4>1. store'[d] = [store[d] EXCEPT !.access = call[c].token, !.refresh = call[c].token]
        BY <1>2, <1>t, <1>c, <2>6, <3>5 DEF Answer, StoreState
      <4>2. store[d] \in StoreState
        BY <1>t
      <4>3. store'[d].access = call[c].token /\ store'[d].refresh = call[c].token /\ store'[d].auth = store[d].auth
        BY <4>1, <4>2 DEF StoreState
      <4>4. call'[c] = [call[c] EXCEPT !.step = "sent", !.access = call[c].token, !.retry = TRUE, !.token = None]
        BY <1>t, <2>6, <3>5 DEF Answer, CallState
      <4>5. /\ call'[c].step = "sent" /\ call'[c].dev = d /\ call'[c].kind = call[c].kind
            /\ call'[c].closure = call[c].closure
        BY <1>2, <1>t, <4>4 DEF CallState
      <4>6. InFlight(d)' = InFlight(d)
        BY <1>2, <3>3, <4>5 DEF InFlight
      <4>7. RefreshingNow(d)' = {}
        BY <3>3, <4>5, <4>6 DEF RefreshingNow, InFlight, Refreshing
      <4>8. \A k \in InFlight(d) : call'[k].kind = call[k].kind /\ call'[k].closure = call[k].closure
        BY <3>3, <4>5 DEF InFlight
      <4>9. StoreWhole(d)'
        BY <2>g, <3>2, <3>5, <4>3, <4>6, <4>8 DEF Undisturbed, StoreWhole
      <4>10. OneRefresh(d)'
        BY <4>6, <4>7, <4>8 DEF Undisturbed, OneRefresh
      <4>11. TokensLive(d)'
        <5>1. \A k \in InFlight(d)' : call'[k].step \notin Refreshing
          BY <4>7 DEF RefreshingNow
        <5> QED BY <3>1, <4>3, <5>1 DEF TokensLive, Live
      <4> QED BY <4>9, <4>10, <4>11 DEF Undisturbed
    <3> QED BY <3>4, <3>5
  <2>7. ASSUME NEW t \in Token, CreateToken(c, t) PROVE Undisturbed(d)'
    <3> DEFINE x == [call[c] EXCEPT !.step = "remember", !.token = t]
    <3>1. call' = [call EXCEPT ![c] = x] /\ store' = store /\ row'[t] = "active"
      BY <1>t, <2>7 DEF CreateToken
    <3>2. /\ x.dev = d /\ x.kind = call[c].kind /\ x.closure = call[c].closure
          /\ x.step = "remember" /\ x.token = t
      BY <1>2, <1>t DEF CallState
    <3> HIDE DEF x
    <3>3. /\ InFlight(d)' = InFlight(d) /\ call'[c] = x
          /\ \A k \in Call \ {c} : call'[k] = call[k]
          /\ StoreWhole(d)'
          /\ \A c1, c2 \in InFlight(d)' : call'[c1].kind = "login" => c1 = c2
      BY <2>s, <3>1, <3>2
    <3>4. RefreshingNow(d)' = {c}
      BY <2>7, <2>o, <2>r, <3>2, <3>3 DEF CreateToken, Refreshing
    <3>5. TokensLive(d)'
      <4>1. \A k \in InFlight(d)' \ {c} : call'[k].step \notin Refreshing
        BY <3>4 DEF RefreshingNow
      <4> QED BY <3>1, <3>2, <3>3, <3>4, <4>1 DEF TokensLive, Live
    <3> QED BY <3>3, <3>4, <3>5 DEF Undisturbed, OneRefresh
  <2>8. CASE Drop(c)
    BY <1>2, <2>8 DEF Drop
  <2> QED BY <2>1, <2>2, <2>3, <2>4, <2>5, <2>6, <2>7, <2>8 DEF Serve
<1> QED BY <1>1, <1>2

\* Time revokes nothing, and the logout handler finds every device disturbed.
LEMMA NextUndisturbed ==
    ASSUME SessionInv, [Next]_vars, NEW d \in Device \ disturbed'
    PROVE  Undisturbed(d)'
<1> USE DEF server, browser
<1>1. TypeInv /\ TypeInv' /\ OwnTokens /\ LogoutDisturbs
  BY NextType DEF SessionInv
<1>2. Undisturbed(d) /\ d \in Device
  BY <1>1, NextDisturbs DEF SessionInv
<1>3. CASE UNCHANGED vars
  BY <1>1, <1>2, <1>3, Frame DEF vars
<1>4. ASSUME NEW e \in Device,
             \/ Reload(e) \/ LocalLogout(e)
             \/ \E c \in Call : ApiCall(c, e) \/ Login(c, e) \/ Verify(c, e)
      PROVE  Undisturbed(d)'
  BY <1>1, <1>2, <1>4, UserKeepsUndisturbed
<1>5. ASSUME NEW c \in Call, Serve(c) \/ Drop(c) PROVE Undisturbed(d)'
  BY <1>1, <1>2, <1>5, CallKeepsUndisturbed
<1>6. CASE LogoutRead \/ LogoutRevoke \/ LogoutDel
  BY <1>1, <1>2, <1>6 DEF LogoutRead, LogoutRevoke, LogoutDel, LogoutDisturbs
<1>7. ASSUME NEW t \in Token, AccessExpires(t) \/ RefreshExpires(t) PROVE Undisturbed(d)'
  <2>1. \A u \in Token : row[u] \in Live => row'[u] \in Live
    BY <1>1, <1>7 DEF AccessExpires, RefreshExpires, Live, TypeInv, TypeOK
  <2> QED BY <1>1, <1>2, <1>7, <2>1, Frame DEF AccessExpires, RefreshExpires
<1> QED
  BY <1>3, <1>4, <1>5, <1>6, <1>7 DEF Next, UserActs

LEMMA SessionInvHolds == Spec => []SessionInv
<1>1. Init => SessionInv
  <2> SUFFICES ASSUME Init PROVE SessionInv
    OBVIOUS
  <2>1. \A c \in Call : call[c] = Idle
    BY DEF Init
  <2>2. None \notin Device /\ None \notin Token
    BY SessionsAssumption
  <2>3. \A d \in Device : InFlight(d) = {} /\ store[d] = SignedOut
    BY <2>1, <2>2 DEF Init, InFlight, Idle
  <2>4. \A d \in Device : RefreshingNow(d) = {}
    BY <2>3 DEF RefreshingNow
  <2>5. \A d \in Device : Undisturbed(d)
    BY <2>3, <2>4 DEF Undisturbed, StoreWhole, OneRefresh, TokensLive, SignedOut
  <2>6. OwnTokens
    BY <2>1, <2>2, <2>3 DEF OwnTokens, Holds, Idle, SignedOut
  <2>7. LogoutDisturbs
    BY DEF Init, LogoutDisturbs
  <2> QED BY InitType, <2>5, <2>6, <2>7 DEF SessionInv
<1>2. SessionInv /\ [Next]_vars => SessionInv'
  BY NextType, NextOwn, NextDisturbs, NextUndisturbed DEF SessionInv
<1> QED BY <1>1, <1>2, PTL DEF Spec

-----------------------------------------------------------------------------
(* What it comes to *)

\* The variables of both sides stay within their types, and a refresh that is
\* under way always has a token to present.
THEOREM TypeCorrect == Spec => []TypeOK
<1>1. SessionInv => TypeOK
  BY DEF SessionInv, TypeInv
<1> QED BY <1>1, SessionInvHolds, PTL

\* A browser nothing disturbs is signed in exactly when it has a refresh token.
THEOREM TokenWhileSignedIn == Spec => []SignedInHasToken
<1>1. SessionInv => SignedInHasToken
  BY DEF SessionInv, Undisturbed, StoreWhole, SignedInHasToken
<1> QED BY <1>1, SessionInvHolds, PTL

\* The refresh token it keeps between refreshes is never revoked.
THEOREM KeptTokenIsLive == Spec => []StoredTokenLive
<1>1. SessionInv => StoredTokenLive
  BY DEF SessionInv, Undisturbed, TokensLive, Live, StoredTokenLive
<1> QED BY <1>1, SessionInvHolds, PTL

\* The interceptor signs it out only when its refresh token has expired.
THEOREM OnlyExpiryForcesOut == Spec => ForcedOutOnlyByExpiry
<1> DEFINE A == \A c \in Call :
                   /\ call[c].step = "refresh" /\ call'[c] = Idle /\ drops' = drops
                   /\ call[c].dev \notin disturbed
                   => row[call[c].token] = "expired"
<1>1. SessionInv /\ [Next]_vars => A
  <2> SUFFICES ASSUME SessionInv, [Next]_vars, NEW c \in Call,
                      call[c].step = "refresh", call'[c] = Idle, drops' = drops,
                      call[c].dev \notin disturbed
               PROVE  row[call[c].token] = "expired"
    OBVIOUS
  <2>t. /\ call \in [Call -> CallState] /\ drops \in Nat
        /\ call[c].dev \in Device /\ call[c] # Idle
    BY SessionsAssumption DEF SessionInv, TypeInv, TypeOK, CallsHaveDevice, Idle
  <2>1. row[call[c].token] \in Live
    BY <2>t DEF SessionInv, Undisturbed, TokensLive, InFlight, Refreshing
  <2>2. RefreshRead(c)
    <3>1. ~UNCHANGED call
      BY <2>t
    <3>2. ASSUME NEW k \in Call, NEW d \in Device, ApiCall(k, d) \/ Login(k, d) \/ Verify(k, d)
          PROVE  FALSE
      BY <2>t, <3>2 DEF ApiCall, Login, Verify, Send
    <3>3. ASSUME NEW k \in Call, Drop(k) PROVE FALSE
      BY <2>t, <3>3 DEF Drop
    <3>4. ASSUME NEW k \in Call, Serve(k) PROVE k = c /\ RefreshRead(c)
      BY <2>t, <3>4 DEF Serve, Accept, Reject, RefreshRead, RefreshRevoke, Remember, Answer, CreateToken,
           Goto, End, Idle
    <3> QED BY <3>1, <3>2, <3>3, <3>4
            DEF vars, Next, UserActs, Reload, LocalLogout, LogoutRead, LogoutRevoke, LogoutDel,
                AccessExpires, RefreshExpires
  <2>3. row[call[c].token] # "active"
    BY <2>2, <2>t DEF RefreshRead, Goto, Idle
  <2> QED BY <2>1, <2>3 DEF Live
<1>2. Spec => [][A]_vars
  BY <1>1, SessionInvHolds, PTL DEF Spec
<1> QED BY <1>2 DEF ForcedOutOnlyByExpiry
=============================================================================
