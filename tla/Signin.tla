------------------------------- MODULE Signin -------------------------------
(***************************************************************************)
(* The way into the application in one browser tab: the pages /login (the  *)
(* form for a phone number and its OTP) and /onboarding (the form for the  *)
(* business) under their layout, the layout of the dashboard, and the      *)
(* check of a kept session by AuthProvider.                                *)
(*                                                                         *)
(* Each of them reads the store and pushes routes of its own, and answers  *)
(* come when they come.  The API is external here: it answers the pages as *)
(* they expect.  Tokens are those of Sessions; here only their owner       *)
(* matters, and a business is either there or not.                         *)
(***************************************************************************)
EXTENDS Naturals

CONSTANTS
  Phone,        \* numbers, each a user of its own
  Call,         \* requests of the tab that may be under way together
  None,         \* no user, no route pushed, nothing seen, no call
  Seconds,      \* the countdown before a resend (60)
  Boxes,        \* digits of a code (6)
  MaxClicks     \* bound: requests the user starts

Page == {"login", "onboarding", "dashboard"}
ApiCall == [op : {"send", "resend", "verify", "me", "onboard"}, phone : Phone \cup {None},
            answer : {None, "ok", "no"}, named : BOOLEAN, here : BOOLEAN]

\* None is no number, no route, no request, no step and no answer, and there is
\* something to count down and to fill in.
SigninAssumption ==
  /\ None \notin Phone \cup Call /\ None \notin Page \cup {"ok", "no"} /\ None \notin 0 .. 4
  /\ None \notin ApiCall \cup [auth : BOOLEAN, onboarded : BOOLEAN]
  /\ Seconds \in Nat \ {0} /\ Boxes \in Nat \ {0}

VARIABLES
  store,        \* the auth store: whose user, access and refresh token, and if onboarded
  loading,      \* AuthProvider shows no page before the kept session is checked
  check,        \* its timer runs: getMe is due
  page,         \* the route shown
  going,        \* the route pushed last and not yet shown, or None
  seen,         \* what the effect of the mounted layout saw last, or None
  otp,          \* OTPForm and OTPInput
  wizard,       \* OnboardingForm
  call,         \* requests under way, or None
  clicks,
  owned,        \* the API: users with a business
  crossed       \* history: an answer of an earlier session changed the store

vars == <<store, loading, check, page, going, seen, otp, wizard, call, clicks, owned, crossed>>
site == <<page, going, seen>>
forms == <<otp, wizard>>

SignedOut == [user |-> None, access |-> None, refresh |-> None, tenant |-> FALSE]
SignedIn(p, named) == [user |-> p, access |-> p, refresh |-> p, tenant |-> named]
Flags == [auth |-> store.user # None, onboarded |-> store.tenant]

NewOtp == [step |-> 1, phone |-> None, error |-> FALSE, success |-> FALSE, left |-> Seconds,
           resend |-> FALSE, boxes |-> 0, latest |-> None, moved |-> FALSE]
NewWizard == [step |-> 1, leaving |-> None, filled |-> FALSE, gst |-> "none", slipped |-> FALSE]

Under(op) == {c \in Call : call[c] # None /\ call[c].op = op}
Free == {c \in Call : call[c] = None}
Ask(c, op, p) == call' = [call EXCEPT ![c] = [op |-> op, phone |-> p, answer |-> None,
                                               named |-> FALSE, here |-> TRUE]]
Start(c, op, p) == c \in Free /\ clicks < MaxClicks /\ clicks' = clicks + 1 /\ Ask(c, op, p)

\* A tab is opened on a route, signed out or with the store of an earlier day.
Opened(at) ==
  /\ page' = at /\ going' = None /\ seen' = None /\ loading' = TRUE
  /\ check' = (store'.access # None)
  /\ otp' = NewOtp /\ wizard' = NewWizard
  /\ call' = [c \in Call |-> None]

Init ==
  /\ owned \in SUBSET Phone
  /\ store \in {SignedOut} \cup {SignedIn(p, p \in owned) : p \in Phone}
                           \cup {SignedIn(p, FALSE) : p \in Phone}
  /\ page \in {"login", "onboarding", "dashboard"} /\ going = None /\ seen = None
  /\ loading = TRUE /\ check = (store.access # None)
  /\ otp = NewOtp /\ wizard = NewWizard
  /\ call = [c \in Call |-> None]
  /\ clicks = 0 /\ crossed = FALSE

Reload ==
  /\ ~loading /\ store' = store /\ Opened(page)
  /\ UNCHANGED <<clicks, owned, crossed>>

-----------------------------------------------------------------------------
(* Routes.                                                                  *)

Group(at) == IF at = "dashboard" THEN "dashboard" ELSE "auth"

\* The effect of a layout, on mounting and whenever the two flags changed.
LayoutEffect ==
  /\ ~loading /\ seen # Flags
  /\ seen' = Flags
  /\ going' = IF ~Flags.auth THEN (IF page = "dashboard" THEN "login" ELSE going)
              ELSE IF ~Flags.onboarded THEN "onboarding"
              ELSE IF page = "dashboard" THEN going ELSE "dashboard"
  /\ UNCHANGED <<store, loading, check, page, forms, call, clicks, owned, crossed>>

\* The last push wins.  A form that is left forgets what it held, and its
\* requests go on without it; a layout is mounted anew when the group changes.
Arrive ==
  /\ going # None
  /\ page' = going /\ going' = None
  /\ seen' = IF Group(going) = Group(page) THEN seen ELSE None
  /\ otp' = IF going = page THEN otp ELSE NewOtp
  /\ wizard' = IF going = page THEN wizard ELSE NewWizard
  /\ call' = [c \in Call |-> IF call[c] = None \/ going = page THEN call[c]
                             ELSE [call[c] EXCEPT !.here = FALSE]]
  /\ UNCHANGED <<store, loading, check, clicks, owned, crossed>>

\* useAuth.logout, offered by the dashboard.
Logout ==
  /\ ~loading /\ page = "dashboard" /\ store.user # None
  /\ store' = SignedOut /\ check' = FALSE /\ going' = "login"
  /\ crossed' = FALSE
  /\ UNCHANGED <<loading, page, seen, forms, call, clicks, owned>>

-----------------------------------------------------------------------------
(* AuthProvider: a new access token is checked after 100 ms.                *)

\* Without a token the pages are shown at once.
Ready ==
  /\ loading /\ store.access = None
  /\ loading' = FALSE
  /\ UNCHANGED <<store, check, site, forms, call, clicks, owned, crossed>>

AskMe(c) ==
  /\ check /\ c \in Free
  /\ check' = FALSE
  /\ Ask(c, "me", store.access)
  /\ UNCHANGED <<store, loading, site, forms, clicks, owned, crossed>>

\* setAuth with the token the check began with and the refresh token there is now;
\* a failure is silent, unless it was a 401 (ForcedOut).
MeAnswered(c) ==
  /\ c \in Under("me") /\ call[c].answer # None
  /\ store' = IF call[c].answer = "no" THEN store
              ELSE [store EXCEPT !.user = call[c].phone, !.access = call[c].phone,
                                 !.tenant = call[c].named]
  /\ check' = (check \/ store'.access # store.access)
  /\ crossed' = (crossed \/ store'.access # store.access)
  /\ loading' = FALSE
  /\ call' = [call EXCEPT ![c] = None]
  /\ UNCHANGED <<site, forms, clicks, owned>>

-----------------------------------------------------------------------------
(* The API.                                                                 *)

Answer(c, answer, named) ==
  call' = [call EXCEPT ![c].answer = answer, ![c].named = named]

\* Any request may be refused or lost before it is handled.
Refuse(c) ==
  /\ call[c] # None /\ call[c].answer = None
  /\ Answer(c, "no", FALSE)
  /\ UNCHANGED <<store, loading, check, site, forms, clicks, owned, crossed>>

Grant(c) ==
  /\ call[c] # None /\ call[c].answer = None /\ call[c].op # "onboard"
  /\ Answer(c, "ok", call[c].phone \in owned)
  /\ UNCHANGED <<store, loading, check, site, forms, clicks, owned, crossed>>

\* The business is stored; the answer may be lost.
Onboarded(c, answer) ==
  /\ c \in Under("onboard") /\ call[c].answer = None /\ call[c].phone # None
  /\ owned' = owned \cup {call[c].phone}
  /\ Answer(c, answer, answer = "ok")
  /\ UNCHANGED <<store, loading, check, site, forms, clicks, crossed>>

-----------------------------------------------------------------------------
(* The sign-in form.  An exit animation outlives its step by moments; the   *)
(* form of step 1 is disabled while it leaves, and step 2 goes at once.     *)

AtLogin == ~loading /\ page = "login" /\ ~otp.success
Sending == otp.latest # None
Verifying == \E c \in Under("verify") : call[c].here

SendOtp(c, p) ==
  /\ AtLogin /\ otp.step = 1 /\ ~Sending
  /\ Start(c, "send", p)
  /\ otp' = [otp EXCEPT !.latest = c]
  /\ UNCHANGED <<store, loading, check, site, wizard, owned, crossed>>

\* The link stays while it is sent again.
Resend(c) ==
  /\ AtLogin /\ otp.step = 2 /\ otp.resend
  /\ Start(c, "resend", otp.phone)
  /\ otp' = [otp EXCEPT !.latest = c]
  /\ UNCHANGED <<store, loading, check, site, wizard, owned, crossed>>

\* Step 2 opens with empty boxes; the error of an earlier code stays.
Sent(c) ==
  /\ c \in Under("send") \cup Under("resend") /\ call[c].answer # None
  /\ LET waiting == [otp EXCEPT !.latest = IF @ = c THEN None ELSE @]
         again == [waiting EXCEPT !.left = Seconds, !.resend = FALSE]
     IN  otp' = IF ~call[c].here THEN otp
                ELSE IF call[c].answer = "no" THEN waiting
                ELSE IF call[c].op = "resend" THEN [again EXCEPT !.error = FALSE]
                ELSE [again EXCEPT !.step = 2, !.phone = call[c].phone, !.boxes = 0]
  /\ call' = [call EXCEPT ![c] = None]
  /\ UNCHANGED <<store, loading, check, site, wizard, clicks, owned, crossed>>

\* One timer per second; the link appears at zero.
Tick ==
  /\ ~loading /\ page = "login" /\ otp.step = 2 /\ otp.left > 0
  /\ otp' = [otp EXCEPT !.left = @ - 1, !.resend = (otp.left = 1)]
  /\ UNCHANGED <<store, loading, check, site, wizard, call, clicks, owned, crossed>>

\* Nothing stops it while a code is verified.
ChangeNumber ==
  /\ AtLogin /\ otp.step = 2
  /\ otp' = [otp EXCEPT !.step = 1, !.boxes = 0, !.moved = @ \/ Verifying]
  /\ UNCHANGED <<store, loading, check, site, wizard, call, clicks, owned, crossed>>

\* Digits are typed, pasted or deleted until n boxes are filled.
Digits(n) ==
  /\ AtLogin /\ otp.step = 2 /\ ~Verifying
  /\ n # otp.boxes /\ n < Boxes
  /\ otp' = [otp EXCEPT !.boxes = n]
  /\ UNCHANGED <<store, loading, check, site, wizard, call, clicks, owned, crossed>>

\* The last box is filled: onComplete, for the number shown.
Complete(c) ==
  /\ AtLogin /\ otp.step = 2 /\ ~Verifying
  /\ Start(c, "verify", otp.phone)
  /\ otp' = [otp EXCEPT !.boxes = Boxes, !.error = FALSE, !.moved = FALSE]
  /\ UNCHANGED <<store, loading, check, site, wizard, owned, crossed>>

\* setAuth and the route by what the answer says; or the error, and the
\* effect of OTPInput on it, which empties the boxes when the error is new.
Verified(c) ==
  /\ c \in Under("verify") /\ call[c].answer # None
  /\ call' = [call EXCEPT ![c] = None]
  /\ IF call[c].answer = "ok"
     THEN /\ store' = SignedIn(call[c].phone, call[c].named)
          /\ check' = (check \/ store'.access # store.access)
          /\ going' = IF call[c].named THEN "dashboard" ELSE "onboarding"
          /\ otp' = IF call[c].here THEN [otp EXCEPT !.success = TRUE]
                    ELSE [otp EXCEPT !.moved = @ \/ otp.success]
          /\ crossed' = FALSE
     ELSE /\ otp' = IF call[c].here
                    THEN [otp EXCEPT !.error = TRUE, !.boxes = IF otp.error THEN @ ELSE 0]
                    ELSE otp
          /\ UNCHANGED <<store, check, going, crossed>>
  /\ UNCHANGED <<loading, page, seen, wizard, clicks, owned>>

-----------------------------------------------------------------------------
(* The onboarding form.  A step on its way out stays clickable until its    *)
(* animation ends, with the checks of its own step, and moves the step      *)
(* there is by then (AnimatePresence mode="wait").                          *)

AtWizard == ~loading /\ page = "onboarding"
Shown == IF wizard.leaving # None THEN wizard.leaving ELSE wizard.step
Saving == \E c \in Under("onboard") : call[c].here

\* The resolver checks the fields of all steps.
Valid == wizard.filled /\ wizard.gst # "bad"

Edit(filled, gst) ==
  /\ AtWizard
  /\ \/ Shown = 1 /\ filled # wizard.filled /\ gst = wizard.gst
     \/ Shown = 2 /\ filled = wizard.filled /\ gst # wizard.gst
  /\ wizard' = [wizard EXCEPT !.filled = filled, !.gst = gst]
  /\ UNCHANGED <<store, loading, check, site, otp, call, clicks, owned, crossed>>

MoveTo(step) ==
  wizard' = [wizard EXCEPT !.step = step,
                           !.leaving = IF Shown = step THEN None ELSE Shown,
                           !.slipped = @ \/ wizard.leaving # None]

NextStep ==
  /\ AtWizard /\ wizard.step \in 0 .. 3
  /\ \/ Shown = 1 /\ wizard.filled
     \/ Shown = 2 /\ wizard.gst # "bad"
  /\ MoveTo(wizard.step + 1)
  /\ UNCHANGED <<store, loading, check, site, otp, call, clicks, owned, crossed>>

PrevStep ==
  /\ AtWizard /\ wizard.step \in 1 .. 4
  /\ Shown \in {2, 3}
  /\ MoveTo(wizard.step - 1)
  /\ UNCHANGED <<store, loading, check, site, otp, call, clicks, owned, crossed>>

ExitComplete ==
  /\ wizard.leaving # None
  /\ wizard' = [wizard EXCEPT !.leaving = None]
  /\ UNCHANGED <<store, loading, check, site, otp, call, clicks, owned, crossed>>

\* The buttons of step 3 are disabled while a request is under way; Enter in
\* the GST number, the one field of step 2, submits as well.
Submit(c) ==
  /\ AtWizard
  /\ \/ Shown = 3 /\ ~Saving
     \/ Shown = 2 /\ wizard.gst # "none"
  /\ Valid
  /\ Start(c, "onboard", store.access)
  /\ UNCHANGED <<store, loading, check, site, forms, owned, crossed>>

\* setTenant, and on to the dashboard; or a toast, if the request had a token.
Saved(c) ==
  /\ c \in Under("onboard") /\ call[c].answer # None
  /\ IF call[c].answer = "ok"
     THEN /\ store' = [store EXCEPT !.tenant = TRUE]
          /\ going' = "dashboard"
          /\ crossed' = (crossed \/ store.user # call[c].phone)
     ELSE /\ call[c].phone # None
          /\ UNCHANGED <<store, going, crossed>>
  /\ call' = [call EXCEPT ![c] = None]
  /\ UNCHANGED <<loading, check, page, seen, forms, clicks, owned>>

\* The interceptor: a 401, which any request with a token may get and one
\* without always gets, and no refresh: signed out, and /login is loaded anew.
ForcedOut(c) ==
  /\ c \in Under("me") \cup Under("onboard") /\ call[c].answer = "no"
  /\ store' = SignedOut /\ Opened("login")
  /\ crossed' = FALSE
  /\ UNCHANGED <<clicks, owned>>

\* React runs the effects of a change before it takes the next event.
Settled == loading \/ seen = Flags

Clicked(c) == Resend(c) \/ Complete(c) \/ Submit(c) \/ \E p \in Phone : SendOtp(c, p)
Answered(c) == MeAnswered(c) \/ Sent(c) \/ Verified(c) \/ Saved(c) \/ ForcedOut(c)

Next ==
  \/ LayoutEffect
  \/ /\ Settled
     /\ \/ Arrive \/ Logout \/ Reload \/ Ready
        \/ Tick \/ ChangeNumber \/ NextStep \/ PrevStep \/ ExitComplete
        \/ \E n \in 0 .. Boxes : Digits(n)
        \/ \E filled \in BOOLEAN, gst \in {"none", "bad", "good"} : Edit(filled, gst)
        \/ \E c \in Call : AskMe(c) \/ Clicked(c) \/ Answered(c)
  \/ \E c \in Call : Refuse(c) \/ Grant(c) \/ \E answer \in {"ok", "no"} : Onboarded(c, answer)

Spec == Init /\ [][Next]_vars

-----------------------------------------------------------------------------
TypeOK ==
  /\ store.user \in Phone \cup {None} /\ store.access = store.user
  /\ store.refresh \in Phone \cup {None} /\ store.tenant \in BOOLEAN
  /\ page \in Page /\ going \in Page \cup {None} /\ call \in [Call -> ApiCall \cup {None}]
  /\ otp.step \in {1, 2} /\ otp.left \in 0 .. Seconds /\ otp.boxes \in 0 .. Boxes
  /\ wizard.step \in 0 .. 4 /\ wizard.leaving \in {None, 1, 2, 3}
  /\ owned \subseteq Phone

\* Three places push routes by three readings of the store (useAuth, AuthLayout,
\* DashboardLayout).  When they have come to rest, the page is the one for
\* this user: the dashboard for somebody onboarded, /onboarding for somebody
\* who is not.  An answer to an earlier session is the exception: its push
\* may replace the one that a logout began.
RestsWhereItShould ==
  ~loading /\ going = None /\ seen = Flags /\ ~crossed =>
      IF ~Flags.auth THEN page # "dashboard"
      ELSE page = IF Flags.onboarded THEN "dashboard" ELSE "onboarding"

\* The user shown is the one whose tokens are kept, and is called onboarded
\* only with a business, unless an answer to an earlier session came late:
\* getMe puts its user beside the refresh token there is by then.
OneIdentity ==
  store.user # None /\ ~crossed =>
      /\ store.refresh = store.user
      /\ store.tenant => store.user \in owned

\* Who signs in is the number on the page, unless it was changed while its
\* code was being verified, or the code of a form left before is accepted
\* after this one.
SignsInShownNumber ==
  otp.success /\ ~otp.moved /\ ~crossed => store.user = otp.phone

\* A complete code is on its way or accepted: the boxes are never left full
\* with nothing to happen.
FullCodeIsVerified ==
  otp.boxes = Boxes => Verifying \/ otp.success

\* Another OTP is offered only when the countdown is over, and then it is.
ResendWaits ==
  otp.step = 2 => (otp.resend <=> otp.left = 0)

\* The wizard shows one of its steps, unless a step was clicked on its way out.
WizardShowsStep ==
  wizard.step \in 1 .. 3 \/ wizard.slipped
=============================================================================
