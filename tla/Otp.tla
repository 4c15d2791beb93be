-------------------------------- MODULE Otp --------------------------------
(***************************************************************************)
(* Signing in with a one-time password, for one phone: AuthService.sendOtp *)
(* behind its counter in Redis, and AuthService.verifyOtp over the         *)
(* OtpVerification rows, one action per call to Redis or the database.     *)
(*                                                                         *)
(* A code is the number of the row it was made for; the user can enter a   *)
(* code that was sent to them, or a wrong one.                             *)
(***************************************************************************)
EXTENDS Integers, Sequences, FiniteSets

CONSTANTS
    Request,        \* requests that may run at the same time
    MaxSends,       \* OTPs per window (3)
    MaxAttempts,    \* otp.maxAttempts (5)
    MaxWindows,     \* bound: windows that open
    MaxFailures     \* bound: handlers that die half way

ASSUME OtpAssumption ==
    /\ IsFiniteSet(Request)
    /\ {MaxSends, MaxAttempts} \subseteq Nat \ {0}
    /\ MaxWindows \in Nat /\ MaxFailures \in Nat

VARIABLES
    counter,    \* otp_rate_limit:{phone}; 0 when there is no key
    hasTTL,     \* the key expires
    windows,    \* keys created so far
    otps,       \* OtpVerification rows, oldest first
    messaged,   \* rows whose code was enqueued for WhatsApp
    hasUser,    \* the User row, unique by phone
    newUsers,   \* answers that said isNewUser
    signIns,    \* token pairs issued, by row
    request, failures,
    contended   \* history: rows two verifications were about to accept together

limiter == <<counter, hasTTL, windows>>
account == <<hasUser, newUsers, signIns>>
vars == <<limiter, otps, messaged, account, request, failures, contended>>

Sending == {"expire", "create", "enqueue"}
Verifying == {"wrong", "mark", "user", "newUser", "tokens"}
RequestState == [step : {"idle"} \cup Sending \cup Verifying, otp : Nat]
Idle == [step |-> "idle", otp |-> 0]

Otp == [attempts : Nat, verified : BOOLEAN, expired : BOOLEAN]
Row == DOMAIN otps

TypeOK ==
    /\ counter \in Nat /\ hasTTL \in BOOLEAN /\ windows \in 0 .. MaxWindows
    /\ otps \in Seq(Otp)
    /\ messaged \subseteq Row
    /\ hasUser \in BOOLEAN /\ newUsers \in Nat
    /\ signIns \in Seq(Nat) /\ Len(signIns) = Len(otps)
    /\ request \in [Request -> RequestState]
    /\ failures \in 0 .. MaxFailures
    /\ contended \subseteq Row

Init ==
    /\ counter = 0 /\ hasTTL = FALSE /\ windows = 0
    /\ otps = <<>> /\ messaged = {}
    /\ hasUser = FALSE /\ newUsers = 0 /\ signIns = <<>>
    /\ request = [r \in Request |-> Idle]
    /\ failures = 0
    /\ contended = {}

Goto(r, step) == request' = [request EXCEPT ![r].step = step]
End(r) == request' = [request EXCEPT ![r] = Idle]
At(step, o) == {r \in Request : request[r] = [step |-> step, otp |-> o]}

-----------------------------------------------------------------------------
(* sendOtp *)

\* Mutant: one more OTP than the limit.
IncrementOneMore(r) ==
    /\ request[r] = Idle
    /\ counter <= MaxSends + 1
    /\ counter = 0 => windows < MaxWindows
    /\ counter' = counter + 1
    /\ windows' = IF counter = 0 THEN windows + 1 ELSE windows
    /\ IF counter = 0 THEN Goto(r, "expire")
       ELSE IF counter <= MaxSends THEN Goto(r, "create")
       ELSE UNCHANGED request
    /\ UNCHANGED <<hasTTL, otps, messaged, account, failures, contended>>

\* INCR; the first of a window has the TTL to set, and those over the limit
\* are refused. (Further refusals only count higher: they are cut off.)
Increment(r) ==
    /\ request[r] = Idle
    /\ counter <= MaxSends
    /\ counter = 0 => windows < MaxWindows
    /\ counter' = counter + 1
    /\ windows' = IF counter = 0 THEN windows + 1 ELSE windows
    /\ IF counter = 0 THEN Goto(r, "expire")
       ELSE IF counter < MaxSends THEN Goto(r, "create")
       ELSE UNCHANGED request
    /\ UNCHANGED <<hasTTL, otps, messaged, account, failures, contended>>

\* Mutant: the TTL is never set.
ExpireSkipped(r) ==
    /\ request[r].step = "expire"
    /\ Goto(r, "create")
    /\ UNCHANGED <<limiter, otps, messaged, account, failures, contended>>

Expire(r) ==
    /\ request[r].step = "expire"
    /\ hasTTL' = TRUE
    /\ Goto(r, "create")
    /\ UNCHANGED <<counter, windows, otps, messaged, account, failures, contended>>

\* Mutant: the message goes out for a row that was not written.
CreateOtpUnsaved(r) ==
    /\ request[r].step = "create"
    /\ request' = [request EXCEPT ![r] = [step |-> "enqueue", otp |-> Len(otps) + 1]]
    /\ UNCHANGED <<limiter, otps, messaged, account, failures, contended>>

CreateOtp(r) ==
    /\ request[r].step = "create"
    /\ otps' = Append(otps, [attempts |-> 0, verified |-> FALSE, expired |-> FALSE])
    /\ signIns' = Append(signIns, 0)
    /\ request' = [request EXCEPT ![r] = [step |-> "enqueue", otp |-> Len(otps) + 1]]
    /\ UNCHANGED <<limiter, messaged, hasUser, newUsers, failures, contended>>

Enqueue(r) ==
    /\ request[r].step = "enqueue"
    /\ messaged' = messaged \cup {request[r].otp}
    /\ End(r)
    /\ UNCHANGED <<limiter, otps, account, failures, contended>>

-----------------------------------------------------------------------------
(* verifyOtp *)

Live == {o \in Row : ~otps[o].verified /\ ~otps[o].expired}
Latest(o) == o \in Live /\ \A p \in Live : p <= o

\* Mutant: the attempts are not looked at.
FindUnlimited(r, code) ==
    \E o \in Row :
        /\ request[r] = Idle /\ Latest(o)
        /\ request' = [request EXCEPT ![r] =
               [step |-> IF code = o THEN "mark" ELSE "wrong", otp |-> o]]
        /\ contended' = contended \cup (IF code = o /\ At("mark", o) # {} THEN {o} ELSE {})
        /\ UNCHANGED <<limiter, otps, messaged, account, failures>>

\* The newest row that is neither verified nor expired decides.
Find(r, code) ==
    \E o \in Row :
        /\ request[r] = Idle /\ Latest(o)
        /\ otps[o].attempts < MaxAttempts
        /\ request' = [request EXCEPT ![r] =
               [step |-> IF code = o THEN "mark" ELSE "wrong", otp |-> o]]
        /\ contended' = contended \cup (IF code = o /\ At("mark", o) # {} THEN {o} ELSE {})
        /\ UNCHANGED <<limiter, otps, messaged, account, failures>>

CountAttempt(r) ==
    /\ request[r].step = "wrong"
    /\ otps' = [otps EXCEPT ![request[r].otp].attempts = @ + 1]
    /\ End(r)
    /\ UNCHANGED <<limiter, messaged, account, failures, contended>>

\* Mutant: the row is not marked.
MarkVerifiedNot(r) ==
    /\ request[r].step = "mark"
    /\ Goto(r, "user")
    /\ UNCHANGED <<limiter, otps, messaged, account, failures, contended>>

MarkVerified(r) ==
    /\ request[r].step = "mark"
    /\ otps' = [otps EXCEPT ![request[r].otp].verified = TRUE]
    /\ Goto(r, "user")
    /\ UNCHANGED <<limiter, messaged, account, failures, contended>>

FindUser(r) ==
    /\ request[r].step = "user"
    /\ Goto(r, IF hasUser THEN "tokens" ELSE "newUser")
    /\ UNCHANGED <<limiter, otps, messaged, account, failures, contended>>

\* Mutant: phone is not unique.
CreateUserAgain(r) ==
    /\ request[r].step = "newUser"
    /\ hasUser' = TRUE /\ newUsers' = newUsers + 1
    /\ Goto(r, "tokens")
    /\ UNCHANGED <<limiter, otps, messaged, signIns, failures, contended>>

\* Tenant and User in one transaction; the unique phone refuses the second.
CreateUser(r) ==
    /\ request[r].step = "newUser"
    /\ \/ /\ hasUser
          /\ End(r) /\ UNCHANGED <<hasUser, newUsers>>
       \/ /\ ~hasUser
          /\ hasUser' = TRUE /\ newUsers' = newUsers + 1
          /\ Goto(r, "tokens")
    /\ UNCHANGED <<limiter, otps, messaged, signIns, failures, contended>>

IssueTokens(r) ==
    /\ request[r].step = "tokens"
    /\ signIns' = [signIns EXCEPT ![request[r].otp] = @ + 1]
    /\ End(r)
    /\ UNCHANGED <<limiter, otps, messaged, hasUser, newUsers, failures, contended>>

-----------------------------------------------------------------------------

WindowEnds ==
    /\ hasTTL
    /\ counter' = 0 /\ hasTTL' = FALSE
    /\ UNCHANGED <<windows, otps, messaged, account, request, failures, contended>>

OtpExpires(o) ==
    /\ ~otps[o].expired
    /\ otps' = [otps EXCEPT ![o].expired = TRUE]
    /\ UNCHANGED <<limiter, messaged, account, request, failures, contended>>

Fail(r) ==
    /\ request[r] # Idle
    /\ failures < MaxFailures
    /\ failures' = failures + 1
    /\ End(r)
    /\ UNCHANGED <<limiter, otps, messaged, account, contended>>

Step(r) ==
    \/ Expire(r) \/ CreateOtp(r) \/ Enqueue(r)
    \/ CountAttempt(r) \/ MarkVerified(r) \/ FindUser(r) \/ CreateUser(r) \/ IssueTokens(r)

Next ==
    \/ \E r \in Request :
         \/ Increment(r) \/ Step(r) \/ Fail(r)
         \/ \E code \in messaged \cup {0} : Find(r, code)
    \/ \E o \in Row : OtpExpires(o)
    \/ WindowEnds

Spec == Init /\ [][Next]_vars

\* Handlers go on, and Redis drops a key when its TTL is over.
FairSpec == Spec /\ WF_vars(WindowEnds) /\ \A r \in Request : WF_vars(Step(r))

-----------------------------------------------------------------------------
(* Properties *)

\* No more OTPs than MaxSends for every window, those about to be made included.
SendsBounded ==
    Len(otps) + Cardinality({r \in Request : request[r].step \in {"expire", "create"}})
        <= MaxSends * windows

\* Wrong guesses at one code: MaxAttempts, and one for every other request
\* that read the row before the last of them was counted.
AttemptsBounded ==
    \A o \in Row : otps[o].attempts <= MaxAttempts + Cardinality(Request) - 1

\* A code signs in once, unless two verifications were about to accept it together.
OneSignInPerCode == \A o \in Row \ contended : signIns[o] <= 1

\* However many first sign-ins race, one of them makes the account.
OneNewUser == newUsers <= 1

\* While no handler dies, a counter always has, or is about to get, its TTL.
CounterExpires ==
    failures = 0 /\ counter # 0 =>
        hasTTL \/ \E r \in Request : request[r].step = "expire"

\* A window (auth.service.ts:35) comes to an end, unless a handler dies between
\* INCR and EXPIRE: then the phone may be refused for ever.
WindowEndsUnlessFailed == counter # 0 /\ failures = 0 ~> counter = 0 \/ failures > 0
=============================================================================
