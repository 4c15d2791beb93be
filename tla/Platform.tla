------------------------------ MODULE Platform ------------------------------
(***************************************************************************)
(* What the rest of the system stands on: the registers (the module        *)
(* extended), the job queue and its schedules, the invoice pages of a      *)
(* browser and its way in. The four share no state: a step is a step of    *)
(* one of them.                                                            *)
(***************************************************************************)
EXTENDS Registers

CONSTANTS
    Job, Worker, Admin, Starter, Cron, Attempts, Tries, MaxFaults,  \* Jobs
    InvoiceId, Click, Asked, Amount, MaxVersion,                    \* Pages
    Phone, Call, Seconds, Boxes, MaxClicks                          \* Signin

VARIABLES
    job, worker, closing, admin, repeat, starter, faults, mails, runs, grants,
    untold, halfSet,
    server, query, page, form, request, opened, wrote, missed, puzzled,
    store, loading, check, route, going, seen, otp, wizard, call, clicks, owned, crossed

jobVars == <<job, worker, closing, admin, repeat, starter, faults, mails, runs, grants,
             untold, halfSet>>
pageVars == <<server, query, page, form, request, opened, wrote, missed, puzzled>>
signinVars == <<store, loading, check, route, going, seen, otp, wizard, call, clicks, owned,
                crossed>>
platformVars == <<vars, jobVars, pageVars, signinVars>>

J == INSTANCE Jobs
P == INSTANCE Pages WITH Invoice <- InvoiceId
W == INSTANCE Signin WITH page <- route

ASSUME PlatformAssumption ==
    RegisterAssumption /\ J!JobsAssumption /\ P!PagesAssumption /\ W!SigninAssumption

PlatformInit == Init /\ J!Init /\ P!Init /\ W!Init

RegisterStep == Next /\ UNCHANGED <<jobVars, pageVars, signinVars>>
JobStep == J!Next /\ UNCHANGED <<vars, pageVars, signinVars>>
PageStep == P!Next /\ UNCHANGED <<vars, jobVars, signinVars>>
SigninStep == W!Next /\ UNCHANGED <<vars, jobVars, pageVars>>
PlatformNext == RegisterStep \/ JobStep \/ PageStep \/ SigninStep

PlatformSpec == PlatformInit /\ [][PlatformNext]_platformVars

-----------------------------------------------------------------------------
\* Jobs: mails and runs are limited, and every cron job is scheduled.
JobsRunAsPlanned == J!TypeOK /\ J!MailsAreLimited /\ J!CronsAreScheduled
\* Pages: an own write shows, and what the newest data offers is granted; the
\* way in leads everybody to a page of their own, as themselves.
PagesTellTruth ==
    /\ P!TypeOK /\ P!OwnWriteShows /\ P!RefusedOnlyWhenStale
    /\ W!TypeOK /\ W!RestsWhereItShould /\ W!OneIdentity /\ W!SignsInShownNumber
    /\ W!FullCodeIsVerified /\ W!ResendWaits /\ W!WizardShowsStep
\* "Enforce fresh fetch when editing": the form starts from the invoice as it
\* was stored when the page was opened, or newer.
EditStartsFresh == P!EditStartsFresh
=============================================================================
