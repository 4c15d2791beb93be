-------------------------------- MODULE Live --------------------------------
(***************************************************************************)
(* Live updates, from the event to the page of one browser: the publishers *)
(* in the core, the worker and the realtime service, Redis pub/sub         *)
(* (external), the subscriber, and the hook useWebSocket with its sockets, *)
(* its reconnect timers and its effect that runs with every new token.     *)
(* The hub is in Hub; here it hands an event to the tenant's open sockets. *)
(*                                                                         *)
(* A token stands for the tenant and user it was issued to.                *)
(***************************************************************************)
EXTENDS Integers, Sequences, FiniteSets, Functions

CONSTANTS
    Socket, Timer, Event, None,
    Token,
    TenantOf,       \* tenant by token
    Cap,            \* events the page keeps, 100
    MaxTurns        \* bound: sign-ins, refreshes, sign-outs, drops

\* None is none of the sockets, and the page keeps a number of events.
LiveAssumption == None \notin Socket /\ Cap \in Nat

VARIABLES
    token,          \* the store's accessToken, None when signed out
    used,           \* tokens issued so far
    valid,          \* tokens the server accepts
    socket,         \* by socket: [state, token]
    ref,            \* wsRef.current
    timer,          \* by timeout: the token its connect() was made with, or None
    timerRef,       \* reconnectTimeoutRef.current
    connected,      \* the store's flag
    subscribed,     \* the subscriber listens to Redis
    event,          \* by event: "new", "redis", "lost", "sent", and whose
    inbox,          \* by socket: events on their way
    shown,          \* events on the page, newest first
    turns,
    doubled         \* history: a timeout fired while another socket was connecting

pageVars == <<token, used, valid, ref, timer, timerRef, turns, doubled>>
busVars == <<subscribed, event>>
vars == <<pageVars, busVars, socket, connected, inbox, shown>>

NoSocket == [state |-> "none", token |-> None]
InState(state) == {s \in Socket : socket[s].state = state}
Turn == turns < MaxTurns /\ turns' = turns + 1
Current(s) == ref = s

Init ==
    /\ token = None /\ used = {} /\ valid = {}
    /\ socket = [s \in Socket |-> NoSocket] /\ ref = None
    /\ timer = [t \in Timer |-> None] /\ timerRef = None /\ connected = FALSE
    /\ subscribed = TRUE
    /\ event = [e \in Event |-> [state |-> "new", tenant |-> None]]
    /\ inbox = [s \in Socket |-> <<>>] /\ shown = <<>>
    /\ turns = 0 /\ doubled = FALSE

-----------------------------------------------------------------------------
(* connect(): nothing while wsRef's socket is open, else a new socket with  *)
(* the token of this closure.                                               *)
RefOpen == ref # None /\ socket[ref].state = "open"
Connect(was, t) ==
    IF ref # None /\ was[ref].state = "open" THEN socket' = was /\ ref' = ref
    ELSE \E s \in Socket :
           /\ was[s].state = "none"
           /\ socket' = [was EXCEPT ![s] = [state |-> "connecting", token |-> t]]
           /\ ref' = s

\* The effect's cleanup: the newest timeout, and wsRef's socket.
Cleaned == [t \in Timer |-> IF t = timerRef THEN None ELSE timer[t]]
Closed == [s \in Socket |-> IF Current(s) /\ socket[s].state \in {"connecting", "open"}
                            THEN [socket[s] EXCEPT !.state = "closing"] ELSE socket[s]]

(* setAuth, setTokens, logout, and the effect that follows each.            *)
NewToken(t) ==
    /\ t \notin used /\ Turn
    /\ token # None => TenantOf[t] = TenantOf[token]
    /\ token' = t /\ used' = used \cup {t} /\ valid' = valid \cup {t}
    /\ timer' = Cleaned /\ Connect(Closed, t)
    /\ UNCHANGED <<timerRef, connected, busVars, inbox, shown, doubled>>
SignOut ==
    /\ token # None /\ Turn
    /\ token' = None /\ timer' = Cleaned /\ socket' = Closed
    /\ UNCHANGED <<used, valid, ref, timerRef, connected, busVars, inbox, shown, doubled>>
TokenExpires(t) ==
    /\ t \in valid /\ Turn /\ valid' = valid \ {t}
    /\ UNCHANGED <<token, used, socket, ref, timer, timerRef, connected, busVars, inbox, shown, doubled>>

OnOpen(s) ==
    /\ socket[s].state = "connecting" /\ socket[s].token \in valid
    /\ socket' = [socket EXCEPT ![s].state = "open"] /\ connected' = TRUE
    /\ UNCHANGED <<pageVars, busVars, inbox, shown>>
\* The server refuses a token; the server or the network ends a socket.
Refused(s) ==
    /\ socket[s].state = "connecting" /\ socket[s].token \notin valid
    /\ socket' = [socket EXCEPT ![s].state = "closing"]
    /\ UNCHANGED <<pageVars, busVars, connected, inbox, shown>>
Dropped(s) ==
    /\ socket[s].state \in {"connecting", "open"} /\ Turn
    /\ socket' = [socket EXCEPT ![s].state = "closing"]
    /\ UNCHANGED <<token, used, valid, ref, timer, timerRef, connected, busVars, inbox, shown, doubled>>
OnCloseForGood(s) ==
    /\ socket[s].state = "closing"
    /\ connected' = FALSE
    /\ socket' = [socket EXCEPT ![s] = NoSocket] /\ inbox' = [inbox EXCEPT ![s] = <<>>]
    /\ ref' = IF ref = s THEN None ELSE ref
    /\ UNCHANGED <<token, used, valid, timer, timerRef, busVars, shown, turns, doubled>>
\* onclose: a timeout to connect again with the token this socket had. (The
\* ref stays on a closed socket, which counts as none.)
OnClose(s) ==
    /\ socket[s].state = "closing"
    /\ connected' = FALSE
    /\ \E t \in Timer : /\ timer[t] = None
                        /\ timer' = [timer EXCEPT ![t] = socket[s].token] /\ timerRef' = t
    /\ socket' = [socket EXCEPT ![s] = NoSocket] /\ inbox' = [inbox EXCEPT ![s] = <<>>]
    /\ ref' = IF ref = s THEN None ELSE ref
    /\ UNCHANGED <<token, used, valid, busVars, shown, turns, doubled>>
TimeoutFires(t) ==
    /\ timer[t] # None
    /\ timer' = [timer EXCEPT ![t] = None] /\ Connect(socket, timer[t])
    /\ doubled' = (doubled \/ (InState("connecting") # {} /\ ~RefOpen))
    /\ UNCHANGED <<token, used, valid, timerRef, connected, busVars, inbox, shown, turns>>

-----------------------------------------------------------------------------
(* Publishers: the worker's notification job writes {type, payload,         *)
(* timestamp}; EventPublisherService and the realtime service's two publish *)
(* endpoints write the tenant (or the user) too.                            *)
Publish(e, tenant, envelope) ==
    /\ event[e].state = "new"
    /\ event' = [event EXCEPT ![e] = [state |-> IF subscribed THEN "redis" ELSE "lost",
                                      tenant |-> IF envelope THEN tenant ELSE None]]
    /\ UNCHANGED <<pageVars, subscribed, socket, connected, inbox, shown>>
NotificationJob(e, tenant) == Publish(e, tenant, FALSE)
PublishEvent(e, tenant) == Publish(e, tenant, TRUE)
PublishBulk(es, tenant) ==
    /\ \A e \in es : event[e].state = "new"
    /\ event' = [e \in Event |-> IF e \notin es THEN event[e]
                   ELSE [state |-> IF subscribed THEN "redis" ELSE "lost", tenant |-> tenant]]
    /\ UNCHANGED <<pageVars, subscribed, socket, connected, inbox, shown>>

\* processPubSubMessage, a goroutine for each message: dropped without a
\* tenant, else to the tenant's sockets.
Listeners(tenant) == {s \in InState("open") : TenantOf[socket[s].token] = tenant}
ToEveryone(e) ==
    /\ event[e].state = "redis" /\ event' = [event EXCEPT ![e].state = "sent"]
    /\ inbox' = [s \in Socket |-> IF s \in InState("open") THEN Append(inbox[s], e) ELSE inbox[s]]
    /\ UNCHANGED <<pageVars, subscribed, socket, connected, shown>>
ProcessPubSubMessage(e) ==
    /\ event[e].state = "redis" /\ event' = [event EXCEPT ![e].state = "sent"]
    /\ inbox' = [s \in Socket |-> IF event[e].tenant # None /\ s \in Listeners(event[e].tenant)
                                  THEN Append(inbox[s], e) ELSE inbox[s]]
    /\ UNCHANGED <<pageVars, subscribed, socket, connected, shown>>
\* subscribeAndListen ends, Start subscribes again after its backoff.
SubscriptionBreaks ==
    /\ subscribed /\ Turn /\ subscribed' = FALSE
    /\ UNCHANGED <<token, used, valid, ref, timer, timerRef, doubled, event, socket, connected, inbox, shown>>
Resubscribe ==
    /\ ~subscribed /\ subscribed' = TRUE
    /\ UNCHANGED <<pageVars, event, socket, connected, inbox, shown>>

\* onmessage, addEvent: the page shows what a socket brings, newest first.
AddEvent(s) ==
    /\ socket[s].state = "open" /\ inbox[s] # <<>>
    /\ shown' = LET all == <<Head(inbox[s])>> \o shown
                IN  SubSeq(all, 1, IF Len(all) > Cap THEN Cap ELSE Len(all))
    /\ inbox' = [inbox EXCEPT ![s] = Tail(@)]
    /\ UNCHANGED <<pageVars, busVars, socket, connected>>

Tenants == {TenantOf[t] : t \in Token}
Next ==
    \/ \E t \in Token : NewToken(t) \/ TokenExpires(t)
    \/ SignOut
    \/ \E s \in Socket : OnOpen(s) \/ Refused(s) \/ Dropped(s) \/ OnClose(s) \/ AddEvent(s)
    \/ \E t \in Timer : TimeoutFires(t)
    \/ \E e \in Event : \/ ProcessPubSubMessage(e)
                        \/ \E tenant \in Tenants : NotificationJob(e, tenant) \/ PublishEvent(e, tenant)
    \/ \E es \in SUBSET Event, tenant \in Tenants : Cardinality(es) > 1 /\ PublishBulk(es, tenant)
    \/ SubscriptionBreaks \/ Resubscribe

\* The browser runs its timers and the handlers of its sockets, and the server
\* answers every request for a socket.
Fairness ==
    /\ \A s \in Socket : WF_vars(OnOpen(s)) /\ WF_vars(Refused(s)) /\ WF_vars(OnClose(s))
    /\ \A t \in Timer : WF_vars(TimeoutFires(t))
Spec == Init /\ [][Next]_vars
FairSpec == Spec /\ Fairness

-----------------------------------------------------------------------------
TypeOK ==
    /\ token \in Token \cup {None} /\ valid \subseteq used
    /\ \A s \in Socket : socket[s].state \in {"none", "connecting", "open", "closing"}
    /\ timerRef \in Timer \cup {None} /\ ref \in Socket \cup {None} /\ Len(shown) <= Cap

\* The page says it is connected only while a socket is open or about to
\* report its end; and it has one socket open, so that it shows an event once,
\* unless a timeout fired while another socket was connecting.
OneSocket ==
    /\ connected => InState("open") \cup InState("closing") # {}
    /\ Cardinality(InState("open")) <= 1 \/ doubled
    /\ (\A i, j \in 1 .. Len(shown) : shown[i] = shown[j] => i = j) \/ doubled

\* What the page shows was published to a tenant who has been signed in here.
OnlyOwnEvents == \A e \in Range(shown) : event[e].tenant \in {TenantOf[t] : t \in used}

\* A page that stays signed in with a token the server accepts gets a socket.
GetsSocket ==
    \A t \in Token : (token = t /\ t \in valid) ~> (token # t \/ t \notin valid \/ InState("open") # {})

=============================================================================
