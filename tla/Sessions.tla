------------------------------ MODULE Sessions ------------------------------
(***************************************************************************)
(* The sign-in of one user, on both sides of the network.                  *)
(*                                                                         *)
(* Server: AuthService issues pairs of an access and a refresh token,      *)
(* rotates the refresh token on use and remembers the newest in Redis.     *)
(* Browser: the axios interceptor answers a 401 with a refresh and a       *)
(* retry, or signs the user out; AuthProvider calls /auth/me whenever the  *)
(* access token in the store changes, and stores the user it gets back     *)
(* together with the access token it started with.                         *)
(*                                                                         *)
(* A token stands for the pair issued together. One that nothing refers to *)
(* can never be presented again, and its id is reused, so that a run may   *)
(* rotate for ever.                                                        *)
(***************************************************************************)
EXTENDS Integers, FiniteSets

CONSTANTS
    Device,         \* browsers the user is signed in from
    Call,           \* requests in flight at once
    Token, None,
    MaxExpiries,    \* bound: tokens that expire
    MaxDrops        \* bound: requests lost on the network or by a crash

ASSUME SessionsAssumption ==
    /\ None \notin Token \cup Device
    /\ MaxExpiries \in Nat /\ MaxDrops \in Nat

VARIABLES
    row,        \* RefreshToken rows: absent, active, revoked or expired
    valid,      \* pairs whose access token has not expired
    session,    \* Redis session:{userId}: the newest refresh token
    leaving,    \* the logout handler in flight, with the token it read
    store,      \* auth.store of each device
    due,        \* AuthProvider has yet to verify the access token in the store
    call,       \* requests in flight
    expiries, drops,
    disturbed   \* history: devices whose calls overlapped badly or were lost

server == <<row, valid, session>>
browser == <<store, due>>
vars == <<server, leaving, browser, call, expiries, drops, disturbed>>

\* Steps of a refresh or a sign-in, on the server and back.
Refreshing == {"refresh", "revoke", "create", "remember", "answer"}

CallState ==
    [step : {"idle", "sent"} \cup Refreshing, dev : Device \cup {None},
     kind : {"api", "verify", "login"}, retry : BOOLEAN,
     access : Token \cup {None},    \* access token on the request
     closure : Token \cup {None},   \* access token the caller started with
     token : Token \cup {None}]     \* refresh token in use, or the new pair
Idle == [step |-> "idle", dev |-> None, kind |-> "api", retry |-> FALSE,
         access |-> None, closure |-> None, token |-> None]

StoreState == [auth : BOOLEAN, access : Token \cup {None}, refresh : Token \cup {None}]
SignedOut == [auth |-> FALSE, access |-> None, refresh |-> None]

TypeOK ==
    /\ row \in [Token -> {"absent", "active", "revoked", "expired"}]
    /\ valid \subseteq Token
    /\ session \in Token \cup {None}
    /\ leaving \in [step : {"no", "revoke", "del"}, token : Token \cup {None}]
    /\ store \in [Device -> StoreState]
    /\ due \in [Device -> BOOLEAN]
    /\ call \in [Call -> CallState]
    /\ \A c \in Call :
         call[c].step \in Refreshing \ {"create"} => call[c].token # None
    /\ expiries \in 0 .. MaxExpiries /\ drops \in 0 .. MaxDrops
    /\ disturbed \subseteq Device

Init ==
    /\ row = [t \in Token |-> "absent"]
    /\ valid = {}
    /\ session = None
    /\ leaving = [step |-> "no", token |-> None]
    /\ store = [d \in Device |-> SignedOut]
    /\ due = [d \in Device |-> FALSE]
    /\ call = [c \in Call |-> Idle]
    /\ expiries = 0 /\ drops = 0
    /\ disturbed = {}

-----------------------------------------------------------------------------

InFlight(d) == {c \in Call : call[c].dev = d}
RefreshingNow(d) == {c \in InFlight(d) : call[c].step \in Refreshing}

\* Nothing refers to t any more.
Fresh(t) ==
    /\ t # session /\ t # leaving.token
    /\ \A d \in Device : t # store[d].access /\ t # store[d].refresh
    /\ \A c \in Call : t \notin {call[c].access, call[c].closure, call[c].token}

Goto(c, step) == call' = [call EXCEPT ![c].step = step]
End(c) == call' = [call EXCEPT ![c] = Idle]

\* auth.store's logout, by the user or by the interceptor: a call still in
\* flight may write to the store afterwards.
SignOut(d, others) ==
    /\ store' = [store EXCEPT ![d] = SignedOut]
    /\ due' = [due EXCEPT ![d] = FALSE]
    /\ disturbed' = disturbed \cup (IF others = {} THEN {} ELSE {d})

-----------------------------------------------------------------------------
(* Calls the browser makes *)

Send(c, d, kind) ==
    call' = [call EXCEPT ![c] =
        [step |-> "sent", dev |-> d, kind |-> kind, retry |-> FALSE,
         access |-> store[d].access, closure |-> store[d].access, token |-> None]]

ApiCall(c, d) ==
    /\ call[c] = Idle /\ store[d].auth
    /\ Send(c, d, "api")
    /\ UNCHANGED <<server, leaving, browser, expiries, drops, disturbed>>

\* verifyOtp succeeded: generateTokens is next.
Login(c, d) ==
    /\ call[c] = Idle /\ ~store[d].auth
    /\ call' = [call EXCEPT ![c] = [Idle EXCEPT !.step = "create", !.dev = d, !.kind = "login"]]
    /\ disturbed' = disturbed \cup (IF InFlight(d) = {} THEN {} ELSE {d})
    /\ UNCHANGED <<server, leaving, browser, expiries, drops>>

\* AuthProvider's effect, 100 ms after the access token changed.
Verify(c, d) ==
    /\ call[c] = Idle /\ due[d] /\ store[d].access # None
    /\ Send(c, d, "verify")
    /\ due' = [due EXCEPT ![d] = FALSE]
    /\ UNCHANGED <<server, leaving, store, expiries, drops, disturbed>>

\* A page load runs the effect once more.
Reload(d) ==
    /\ InFlight(d) = {} /\ store[d].access # None /\ ~due[d]
    /\ due' = [due EXCEPT ![d] = TRUE]
    /\ UNCHANGED <<server, leaving, store, call, expiries, drops, disturbed>>

LocalLogout(d) ==
    /\ store[d].auth
    /\ SignOut(d, InFlight(d))
    /\ UNCHANGED <<server, leaving, call, expiries, drops>>

-----------------------------------------------------------------------------
(* JwtAuthGuard's answer, and what the browser does with it *)

\* Mutant: AuthProvider keeps the user but drops the refresh token.
AcceptForgetful(c) ==
    LET d == call[c].dev IN
    /\ call[c].step = "sent" /\ call[c].access \in valid
    /\ store' = IF call[c].kind = "verify"
                THEN [store EXCEPT ![d] = [auth |-> TRUE, access |-> call[c].closure, refresh |-> None]]
                ELSE store
    /\ End(c)
    /\ UNCHANGED <<server, leaving, due, expiries, drops, disturbed>>

Accept(c) ==
    LET d == call[c].dev IN
    /\ call[c].step = "sent" /\ call[c].access \in valid
    /\ \/ /\ call[c].kind = "verify"
          /\ store' = [store EXCEPT ![d].auth = TRUE, ![d].access = call[c].closure]
          /\ due' = [due EXCEPT ![d] = @ \/ store[d].access # call[c].closure]
       \/ call[c].kind = "api" /\ UNCHANGED browser
    /\ End(c)
    /\ UNCHANGED <<server, leaving, expiries, drops, disturbed>>

\* Mutant: the refresh goes out with or without a refresh token.
RejectNoToken(c) ==
    LET d == call[c].dev IN
    /\ call[c].step = "sent" /\ call[c].access \notin valid /\ ~call[c].retry
    /\ call' = [call EXCEPT ![c].step = "refresh", ![c].token = store[d].refresh]
    /\ disturbed' = disturbed \cup (IF RefreshingNow(d) = {} THEN {} ELSE {d})
    /\ UNCHANGED <<server, leaving, browser, expiries, drops>>

\* A 401: the retried call fails, any other asks for a refresh with the
\* refresh token in the store.
Reject(c) ==
    LET d == call[c].dev
        t == store[d].refresh
    IN
    /\ call[c].step = "sent" /\ call[c].access \notin valid
    /\ \/ /\ call[c].retry
          /\ End(c) /\ UNCHANGED <<browser, disturbed>>
       \/ /\ ~call[c].retry /\ t = None
          /\ End(c) /\ SignOut(d, InFlight(d) \ {c})
       \/ /\ ~call[c].retry /\ t # None
          /\ call' = [call EXCEPT ![c].step = "refresh", ![c].token = t]
          /\ disturbed' = disturbed \cup (IF RefreshingNow(d) = {} THEN {} ELSE {d})
          /\ UNCHANGED browser
    /\ UNCHANGED <<server, leaving, expiries, drops>>

-----------------------------------------------------------------------------
(* AuthService.refreshToken and generateTokens *)

\* A token that was revoked, or has expired, signs the browser out.
RefreshRead(c) ==
    /\ call[c].step = "refresh"
    /\ \/ /\ row[call[c].token] = "active"
          /\ Goto(c, "revoke") /\ UNCHANGED <<browser, disturbed>>
       \/ /\ row[call[c].token] # "active"
          /\ End(c) /\ SignOut(call[c].dev, InFlight(call[c].dev) \ {c})
    /\ UNCHANGED <<server, leaving, expiries, drops>>

RefreshRevoke(c) ==
    /\ call[c].step = "revoke"
    /\ row' = [row EXCEPT ![call[c].token] = "revoked"]
    /\ Goto(c, "create")
    /\ UNCHANGED <<valid, session, leaving, browser, expiries, drops, disturbed>>

\* Mutant: the new refresh token is not stored.
CreateTokenUnsaved(c, t) ==
    /\ call[c].step = "create" /\ Fresh(t)
    /\ valid' = valid \cup {t}
    /\ call' = [call EXCEPT ![c].step = "remember", ![c].token = t]
    /\ UNCHANGED <<row, session, leaving, browser, expiries, drops, disturbed>>

CreateToken(c, t) ==
    /\ call[c].step = "create" /\ Fresh(t)
    /\ row' = [row EXCEPT ![t] = "active"]
    /\ valid' = valid \cup {t}
    /\ call' = [call EXCEPT ![c].step = "remember", ![c].token = t]
    /\ UNCHANGED <<session, leaving, browser, expiries, drops, disturbed>>

Remember(c) ==
    /\ call[c].step = "remember"
    /\ session' = call[c].token
    /\ Goto(c, "answer")
    /\ UNCHANGED <<row, valid, leaving, browser, expiries, drops, disturbed>>

\* Mutant: the interceptor keeps the old refresh token.
AnswerKeepRefresh(c) ==
    LET d == call[c].dev
        t == call[c].token
    IN
    /\ call[c].step = "answer"
    /\ due' = [due EXCEPT ![d] = TRUE]
    /\ \/ /\ call[c].kind = "login"
          /\ store' = [store EXCEPT ![d] = [auth |-> TRUE, access |-> t, refresh |-> t]]
          /\ End(c)
       \/ /\ call[c].kind # "login"
          /\ store' = [store EXCEPT ![d].access = t]
          /\ call' = [call EXCEPT ![c].step = "sent", ![c].access = t, ![c].retry = TRUE,
                                  ![c].token = None]
    /\ UNCHANGED <<server, leaving, expiries, drops, disturbed>>

\* setAuth after a sign-in; setTokens and the retry after a refresh, whether
\* or not the user has signed out meanwhile.
Answer(c) ==
    LET d == call[c].dev
        t == call[c].token
    IN
    /\ call[c].step = "answer"
    /\ due' = [due EXCEPT ![d] = TRUE]
    /\ \/ /\ call[c].kind = "login"
          /\ store' = [store EXCEPT ![d] = [auth |-> TRUE, access |-> t, refresh |-> t]]
          /\ End(c)
       \/ /\ call[c].kind # "login"
          /\ store' = [store EXCEPT ![d].access = t, ![d].refresh = t]
          /\ call' = [call EXCEPT ![c].step = "sent", ![c].access = t, ![c].retry = TRUE,
                                  ![c].token = None]
    /\ UNCHANGED <<server, leaving, expiries, drops, disturbed>>

-----------------------------------------------------------------------------
(* AuthService.logout: revokes the newest token, whoever asks *)

LogoutRead ==
    /\ leaving.step = "no" /\ session # None
    /\ leaving' = [step |-> "revoke", token |-> session]
    /\ disturbed' = Device
    /\ UNCHANGED <<server, browser, call, expiries, drops>>

LogoutRevoke ==
    /\ leaving.step = "revoke"
    /\ row' = [row EXCEPT ![leaving.token] = "revoked"]
    /\ leaving' = [leaving EXCEPT !.step = "del"]
    /\ UNCHANGED <<valid, session, browser, call, expiries, drops, disturbed>>

LogoutDel ==
    /\ leaving.step = "del"
    /\ session' = None
    /\ leaving' = [step |-> "no", token |-> None]
    /\ UNCHANGED <<row, valid, browser, call, expiries, drops, disturbed>>

-----------------------------------------------------------------------------
(* Time and failures *)

AccessExpires(t) ==
    /\ t \in valid /\ expiries < MaxExpiries
    /\ valid' = valid \ {t}
    /\ expiries' = expiries + 1
    /\ UNCHANGED <<row, session, leaving, browser, call, drops, disturbed>>

RefreshExpires(t) ==
    /\ row[t] = "active" /\ expiries < MaxExpiries
    /\ row' = [row EXCEPT ![t] = "expired"]
    /\ expiries' = expiries + 1
    /\ UNCHANGED <<valid, session, leaving, browser, call, drops, disturbed>>

\* The request or its answer is lost, or the server dies in the middle of it.
\* The interceptor's catch takes any failure of the refresh for a rejection.
Drop(c) ==
    LET d == call[c].dev IN
    /\ call[c] # Idle /\ drops < MaxDrops
    /\ drops' = drops + 1
    /\ End(c)
    /\ \/ /\ call[c].step = "sent" \/ call[c].kind = "login"
          /\ UNCHANGED browser
       \/ /\ call[c].step \in Refreshing /\ call[c].kind # "login"
          /\ store' = [store EXCEPT ![d] = SignedOut]
          /\ due' = [due EXCEPT ![d] = FALSE]
    /\ disturbed' = disturbed \cup {d}
    /\ UNCHANGED <<server, leaving, expiries>>

-----------------------------------------------------------------------------

Serve(c) ==
    \/ Accept(c) \/ Reject(c)
    \/ RefreshRead(c) \/ RefreshRevoke(c) \/ Remember(c) \/ Answer(c)
    \/ \E t \in Token : CreateToken(c, t)

UserActs ==
    \/ \E d \in Device : Reload(d) \/ LocalLogout(d) \/ \E c \in Call : ApiCall(c, d) \/ Login(c, d)
    \/ LogoutRead

Next ==
    \/ UserActs
    \/ \E c \in Call, d \in Device : Verify(c, d)
    \/ \E c \in Call : Serve(c) \/ Drop(c)
    \/ \E t \in Token : AccessExpires(t) \/ RefreshExpires(t)
    \/ LogoutRevoke \/ LogoutDel

Spec == Init /\ [][Next]_vars

\* Requests are answered and React runs its effects; the user does as they like.
FairSpec ==
    /\ Spec
    /\ \A c \in Call : WF_vars(Serve(c))
    /\ \A d \in Device : WF_vars(\E c \in Call : Verify(c, d))

-----------------------------------------------------------------------------
(* Properties *)

\* A signed-in browser always has a refresh token to go on with, and a
\* signed-out one has none left behind.
SignedInHasToken ==
    \A d \in Device \ disturbed : store[d].auth <=> store[d].refresh # None

\* The refresh token a browser keeps between refreshes is never one the
\* server has revoked.
StoredTokenLive ==
    \A d \in Device \ disturbed :
        store[d].refresh # None /\ RefreshingNow(d) = {} =>
            row[store[d].refresh] \in {"active", "expired"}

\* Unless calls overlap or are lost, the interceptor signs the user out only
\* when the refresh token has expired.
ForcedOutOnlyByExpiry ==
    [][\A c \in Call :
         /\ call[c].step = "refresh" /\ call'[c] = Idle /\ drops' = drops
         /\ call[c].dev \notin disturbed
         => row[call[c].token] = "expired"]_vars

\* client.ts:23 "handle 401, refresh token": once the user stops acting, the
\* browser comes to rest.
RefreshSettles ==
    (<>[][~UserActs]_vars) => \A d \in Device : <>[](~due[d])
=============================================================================
