-------------------------------- MODULE Jobs --------------------------------
(***************************************************************************)
(* The job queues of BullMQ (external) as this code uses them: jobs with   *)
(* attempts and a backoff, a processor with retries of its own around one  *)
(* call (the mails), workers that stop, the admin endpoints; and the cron  *)
(* jobs every worker process sets up as it starts.                         *)
(***************************************************************************)
EXTENDS Integers, FiniteSets

CONSTANTS
    Job, Worker, Admin, Starter, Cron, None,
    Attempts,       \* runs of a job before it counts as failed, 2, 3 or 5
    Tries,          \* withRetry of retry.ts: calls in one run, 3
    MaxFaults       \* bound: lost answers, refusals, stops and admin requests

\* A job runs at least once, with at least one try, and None is no job.
JobsAssumption == None \notin Job /\ Attempts \in Nat \ {0} /\ Tries \in Nat \ {0}

VARIABLES
    job,            \* by job: [state, made (runs that failed), try, stalls]; "answered" is
                    \* active still, with its mail answered
    worker,         \* by worker: the job it runs, or None
    closing,        \* SIGTERM: workers take no job any more
    admin,          \* by admin request: the failed jobs it has yet to retry
    repeat,         \* repeatable jobs in Redis
    starter,        \* by worker process: [step, left]
    faults,
    mails,          \* history: mails the provider took, by job
    runs,           \* history: runs begun, by job
    grants,         \* history: runs an admin or a stop has added, by job
    untold,         \* history: mails the queue was never told of, by job
    halfSet         \* history: a starter failed on its way

queueVars == <<job, worker, closing, admin, mails, runs, grants, untold>>
cronVars == <<repeat, starter, halfSet>>
vars == <<queueVars, cronVars, faults>>

Fault == faults < MaxFaults /\ faults' = faults + 1
NoFault == faults' = faults
Into(j, state) == [job EXCEPT ![j].state = state]
InState(state) == {j \in Job : job[j].state = state}
Running(j) == CHOOSE w \in Worker : worker[w] = j
Release(j) == worker' = [worker EXCEPT ![Running(j)] = None]

Init ==
    /\ job = [j \in Job |-> [state |-> "none", made |-> 0, try |-> 1, stalls |-> 0]]
    /\ worker = [w \in Worker |-> None] /\ closing = FALSE
    /\ admin = [a \in Admin |-> {}]
    /\ repeat = {} /\ starter = [s \in Starter |-> [step |-> "off", left |-> {}]]
    /\ faults = 0 /\ mails = [j \in Job |-> 0] /\ runs = [j \in Job |-> 0]
    /\ grants = [j \in Job |-> 0] /\ untold = [j \in Job |-> 0] /\ halfSet = FALSE

-----------------------------------------------------------------------------
(* QueueService: add with attempts and an exponential backoff.              *)
Add(j) ==
    /\ job[j].state = "none" /\ job' = Into(j, "waiting")
    /\ NoFault /\ UNCHANGED <<worker, closing, admin, mails, runs, grants, untold, cronVars>>
Begin(w, j) ==
    /\ worker[w] = None /\ job[j].state = "waiting" /\ ~closing
    /\ worker' = [worker EXCEPT ![w] = j]
    /\ job' = [job EXCEPT ![j].state = "active", ![j].try = 1]
    /\ runs' = [runs EXCEPT ![j] = @ + 1]
    /\ NoFault /\ UNCHANGED <<closing, admin, mails, grants, untold, cronVars>>

\* The run threw: another after the backoff, or failed for good.
RunFails(j) ==
    /\ job' = [job EXCEPT ![j].made = @ + 1,
                 ![j].state = IF job[j].made + 1 < Attempts THEN "delayed" ELSE "failed"]
    /\ Release(j)
(* processEmailJob, withRetry: the provider is called until it answers ok;  *)
(* then the processor returns, and the worker tells Redis.                  *)
MailAccepted(j) ==
    /\ job[j].state = "active" /\ mails' = [mails EXCEPT ![j] = @ + 1]
    /\ job' = Into(j, "answered")
    /\ NoFault /\ UNCHANGED <<worker, closing, admin, runs, grants, untold, cronVars>>
Completed(j) ==
    /\ job[j].state = "answered" /\ job' = Into(j, "completed") /\ Release(j)
    /\ NoFault /\ UNCHANGED <<closing, admin, mails, runs, grants, untold, cronVars>>
\* A mail the provider took though nobody will know of it.
MailUntold(j, taken) ==
    /\ mails' = IF taken THEN [mails EXCEPT ![j] = @ + 1] ELSE mails
    /\ untold' = IF taken THEN [untold EXCEPT ![j] = @ + 1] ELSE untold
MailFails(j, taken) ==
    /\ job[j].state = "active" /\ Fault /\ MailUntold(j, taken)
    /\ IF job[j].try < Tries THEN job' = [job EXCEPT ![j].try = @ + 1] /\ worker' = worker
       ELSE RunFails(j)
    /\ UNCHANGED <<closing, admin, runs, grants, cronVars>>
BackoffEnds(j) ==
    /\ job[j].state = "delayed" /\ job' = Into(j, "waiting")
    /\ NoFault /\ UNCHANGED <<worker, closing, admin, mails, runs, grants, untold, cronVars>>

\* A killed process, or one that loses Redis: its job is found stalled and runs
\* again, once. A call may be under way, or answered already.
Killed(w, taken) ==
    LET j == worker[w]
    IN  /\ j # None /\ Fault
        /\ IF job[j].state = "active" THEN MailUntold(j, taken)
           ELSE mails' = mails /\ untold' = [untold EXCEPT ![j] = @ + 1]
        /\ job' = [job EXCEPT ![j].stalls = @ + 1,
                              ![j].state = IF job[j].stalls = 0 THEN "waiting" ELSE "failed"]
        /\ grants' = [grants EXCEPT ![j] = @ + 1]
        /\ worker' = [worker EXCEPT ![w] = None]
        /\ UNCHANGED <<closing, admin, runs, cronVars>>
\* gracefulShutdown: jobs in hand are finished; then another process starts.
Shutdown ==
    /\ ~closing /\ closing' = TRUE /\ Fault
    /\ UNCHANGED <<job, worker, admin, mails, runs, grants, untold, cronVars>>
Restart ==
    /\ closing /\ \A w \in Worker : worker[w] = None
    /\ closing' = FALSE
    /\ NoFault /\ UNCHANGED <<job, worker, admin, mails, runs, grants, untold, cronVars>>

-----------------------------------------------------------------------------
(* The admin endpoints. job.retry() throws for a job that is not failed any *)
(* more, which ends retryFailedJobs; the runs made so far still count.      *)
RetryAnyJob(j) ==
    /\ job[j].state \in {"failed", "completed"} /\ Fault
    /\ job' = Into(j, "waiting") /\ grants' = [grants EXCEPT ![j] = @ + 1]
    /\ UNCHANGED <<worker, closing, admin, mails, runs, untold, cronVars>>
RetryJob(j) ==
    /\ job[j].state = "failed" /\ Fault
    /\ job' = Into(j, "waiting") /\ grants' = [grants EXCEPT ![j] = @ + 1]
    /\ UNCHANGED <<worker, closing, admin, mails, runs, untold, cronVars>>
GetFailed(a) ==
    /\ admin[a] = {} /\ InState("failed") # {} /\ Fault
    /\ admin' = [admin EXCEPT ![a] = InState("failed")]
    /\ UNCHANGED <<job, worker, closing, mails, runs, grants, untold, cronVars>>
RetryNext(a, j) ==
    /\ j \in admin[a]
    /\ IF job[j].state = "failed"
       THEN /\ job' = Into(j, "waiting") /\ grants' = [grants EXCEPT ![j] = @ + 1]
            /\ admin' = [admin EXCEPT ![a] = @ \ {j}]
       ELSE admin' = [admin EXCEPT ![a] = {}] /\ UNCHANGED <<job, grants>>
    /\ NoFault /\ UNCHANGED <<worker, closing, mails, runs, untold, cronVars>>
\* deleteJob throws for a job a worker holds; pruneJobs takes a whole state.
DeleteJob(j) ==
    /\ job[j].state \notin {"none", "active", "answered", "gone"} /\ Fault
    /\ job' = Into(j, "gone")
    /\ UNCHANGED <<worker, closing, admin, mails, runs, grants, untold, cronVars>>
PruneJobs(state) ==
    /\ InState(state) # {} /\ Fault
    /\ job' = [j \in Job |-> IF job[j].state = state THEN [job[j] EXCEPT !.state = "gone"] ELSE job[j]]
    /\ UNCHANGED <<worker, closing, admin, mails, runs, grants, untold, cronVars>>

-----------------------------------------------------------------------------
(* setupRepeatableJobs: list, remove what was listed, add the six; an error *)
(* is logged and the process goes on.                                       *)
At(s, step) == starter[s].step = step
To(s, step, left) == starter' = [starter EXCEPT ![s] = [step |-> step, left |-> left]]
ListCrons(s) ==
    /\ At(s, "off") /\ To(s, "remove", repeat)
    /\ NoFault /\ UNCHANGED <<queueVars, repeat, halfSet>>
RemoveCron(s, c) ==
    /\ At(s, "remove") /\ c \in starter[s].left
    /\ repeat' = repeat \ {c} /\ To(s, "remove", starter[s].left \ {c})
    /\ NoFault /\ UNCHANGED <<queueVars, halfSet>>
Pruned(s) ==
    /\ At(s, "remove") /\ starter[s].left = {} /\ To(s, "add", Cron)
    /\ NoFault /\ UNCHANGED <<queueVars, repeat, halfSet>>
AddCron(s, c) ==
    /\ At(s, "add") /\ c \in starter[s].left
    /\ repeat' = repeat \cup {c} /\ To(s, "add", starter[s].left \ {c})
    /\ NoFault /\ UNCHANGED <<queueVars, halfSet>>
SetUp(s) ==
    /\ At(s, "add") /\ starter[s].left = {} /\ To(s, "up", {})
    /\ NoFault /\ UNCHANGED <<queueVars, repeat, halfSet>>
SetupFails(s) ==
    /\ starter[s].step \in {"remove", "add"} /\ Fault
    /\ To(s, "up", {}) /\ halfSet' = TRUE
    /\ UNCHANGED <<queueVars, repeat>>
\* A process that was up is started anew, by a deployment or after a crash.
StartAgain(s) ==
    /\ At(s, "up") /\ Fault /\ To(s, "off", {})
    /\ UNCHANGED <<queueVars, repeat, halfSet>>

Next ==
    \/ \E j \in Job : \/ Add(j) \/ MailAccepted(j) \/ Completed(j) \/ BackoffEnds(j)
                      \/ RetryJob(j) \/ DeleteJob(j)
                      \/ \E taken \in BOOLEAN : MailFails(j, taken)
                      \/ \E w \in Worker : Begin(w, j)
                      \/ \E a \in Admin : RetryNext(a, j)
    \/ \E w \in Worker, taken \in BOOLEAN : Killed(w, taken)
    \/ Shutdown \/ Restart
    \/ \E a \in Admin : GetFailed(a)
    \/ \E state \in {"completed", "failed"} : PruneJobs(state)
    \/ \E s \in Starter : \/ ListCrons(s) \/ Pruned(s) \/ SetUp(s) \/ SetupFails(s) \/ StartAgain(s)
                          \/ \E c \in Cron : RemoveCron(s, c) \/ AddCron(s, c)

Spec == Init /\ [][Next]_vars

-----------------------------------------------------------------------------
TypeOK ==
    /\ \A j \in Job : /\ job[j].state \in {"none", "waiting", "active", "answered", "delayed",
                                           "completed", "failed", "gone"}
                      /\ job[j].try \in 1 .. Tries /\ job[j].made \in Nat
    /\ repeat \subseteq Cron

\* A mail goes out once, and once more for every mail the queue was never told
\* of: its answer was lost, or its worker died between the answer and the
\* completion. A job is run no more often than its attempts, one more for a stop
\* of its worker and one for each time somebody asked for it.
MailsAreLimited ==
    \A j \in Job :
        /\ mails[j] <= untold[j] + 1
        /\ runs[j] <= Attempts + grants[j]
        /\ job[j].state \in {"active", "answered"} => \E w \in Worker : worker[w] = j

\* However the starts of several processes interleave, all cron jobs are there
\* once each of them is through, unless one failed on its way.
CronsAreScheduled ==
    (\E s \in Starter : At(s, "up")) /\ (\A s \in Starter : At(s, "up") \/ At(s, "off"))
        => repeat = Cron \/ halfSet
=============================================================================
