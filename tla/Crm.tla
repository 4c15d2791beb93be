--------------------------------- MODULE Crm ---------------------------------
(***************************************************************************)
(* One tenant of the CRM service: contacts, leads on the stages of a       *)
(* pipeline, the activity line of a lead, and the list answers that        *)
(* services/lead.go and services/contact.go keep in Redis.                 *)
(*                                                                         *)
(* A request is a few calls to PostgreSQL and Redis, one action each:      *)
(* check, write, note (the activity), drop (the cached lists). Names,      *)
(* values and dates are left out; phones are kept, they are checked.       *)
(***************************************************************************)
EXTENDS Integers, Sequences

CONSTANTS
    Contact, Lead, Request,
    Stage,          \* stage ids a pipeline of the tenant may have
    Phone,          \* NoPhone among them: the phone is optional
    NoPhone, None,
    Query,          \* lists asked for: [of, status, stage], None for a filter left out
    MaxRequests,    \* bound: requests started
    MaxFailures     \* bound: calls that fail

\* There are lists of leads and of contacts; None is none of the things it
\* stands beside.
CrmAssumption ==
    /\ \A q \in Query : q.of \in {"leads", "contacts"}
    /\ None \notin {"OPEN", "WON", "LOST"}
    /\ None \notin [phone : Phone, active : BOOLEAN]
    /\ None \notin [contact : Contact, pipeline : Nat, stage : Stage, status : {"OPEN", "WON", "LOST"}]
    /\ None \notin [asked : Query, ids : SUBSET (Contact \cup Lead), stale : BOOLEAN]

VARIABLES
    contact,        \* by id: [phone, active], or None
    lead,           \* by id: [contact, pipeline, stage, status], or None
    pipelines,      \* the pipelines in order of creation, each its set of stages
    told,           \* by lead: what its newest activity says of its status
    cache,          \* by Redis key: [asked, ids] and whether a drop missed it (stale), or None
    req, started, failures,
    late,           \* history: leads created as their contact was going or gone
    muddled,        \* history: leads with two changes of status in flight, or an activity lost
    adrift,         \* history: leads on a stage their pipeline does not have
    reseeded        \* history: two first looks at the pipelines overlapped

rows == <<contact, lead, pipelines>>
history == <<late, muddled, adrift, reseeded>>
vars == <<rows, told, cache, req, started, failures, history>>

Idle == [op |-> "idle", step |-> "done", at |-> None, arg |-> None, ids |-> {}, over |-> FALSE]
Contacts == {c \in Contact : contact[c] # None}
Active == {c \in Contacts : contact[c].active}
Leads == {l \in Lead : lead[l] # None}
Open == {l \in Leads : lead[l].status = "OPEN"}
InStep(op, step) == {r \in Request : req[r].op = op /\ req[r].step = step}

\* The rows a list shows: LeadRepo.FindAll, ContactRepo.FindAll.
Answer(q) ==
    IF q.of = "contacts" THEN Active
    ELSE {l \in Leads : /\ q.status \in {None, lead[l].status}
                        /\ q.stage \in {None, lead[l].stage}}
\* The key a list is kept under names its status filter and no other.
Key(q) == <<q.of, q.status>>
Keys == {Key(q) : q \in Query}
\* GetKanban: the stages of the pipeline with their open leads.
Board(p) == [s \in pipelines[p] |-> {l \in Open : lead[l].pipeline = p /\ lead[l].stage = s}]

Init ==
    /\ contact = [c \in Contact |-> None] /\ lead = [l \in Lead |-> None]
    /\ pipelines = <<>> /\ told = [l \in Lead |-> None]
    /\ cache = [k \in Keys |-> None]
    /\ req = [r \in Request |-> Idle] /\ started = 0 /\ failures = 0
    /\ late = {} /\ muddled = {} /\ adrift = {} /\ reseeded = FALSE

-----------------------------------------------------------------------------
Start(r, op, step, at, arg) ==
    /\ req[r] = Idle /\ started < MaxRequests /\ started' = started + 1
    /\ req' = [req EXCEPT ![r] = [Idle EXCEPT !.op = op, !.step = step, !.at = at, !.arg = arg]]
Go(r, step) == req' = [req EXCEPT ![r].step = step]
Finish(r) == req' = [req EXCEPT ![r] = Idle]

\* The error of a check is thrown away (exists, _ := ...): it reads as "no".
Failing == failures < MaxFailures /\ failures' = failures + 1
Fine == failures' = failures

(* ContactService.Create and Update: only Create looks for the phone.       *)
ContactAsk(r, c, phone) ==
    /\ \/ c \notin Contacts /\ (\A q \in Request : req[q].at # c)
          /\ Start(r, "contact", IF phone = NoPhone THEN "write" ELSE "check", c, phone)
       \/ c \in Contacts /\ Start(r, "contact", "write", c, phone)
    /\ UNCHANGED <<rows, told, cache, failures, history>>

PhoneExists(phone) == \E c \in Active : contact[c].phone = phone
PhoneCheck(r, fails) ==
    /\ r \in InStep("contact", "check")
    /\ IF fails THEN Failing ELSE Fine
    /\ IF ~fails /\ PhoneExists(req[r].arg) THEN Finish(r) ELSE Go(r, "write")
    /\ UNCHANGED <<rows, told, cache, started, history>>

ContactWrite(r) ==
    LET c == req[r].at  phone == req[r].arg
    IN  /\ r \in InStep("contact", "write")
        /\ contact' = [contact EXCEPT ![c] =
                         [phone |-> phone, active |-> c \notin Contacts \/ contact[c].active]]
        /\ Go(r, "drop")
        /\ UNCHANGED <<lead, pipelines, told, cache, started, failures, history>>

(* ContactService.Delete: refused while HasOpenLeads.                       *)
DeleteAsk(r, c) ==
    /\ c \in Contacts /\ Start(r, "delete", "check", c, None)
    /\ UNCHANGED <<rows, told, cache, failures, history>>

HasOpenLeads(c) == \E l \in Open : lead[l].contact = c
DeleteCheckNever(r, fails) ==
    /\ r \in InStep("delete", "check")
    /\ IF fails THEN Failing ELSE Fine
    /\ Go(r, "write")
    /\ UNCHANGED <<rows, told, cache, started, history>>
DeleteCheck(r, fails) ==
    LET c == req[r].at
    IN  /\ r \in InStep("delete", "check")
        /\ IF fails THEN Failing ELSE Fine
        /\ IF ~fails /\ HasOpenLeads(c) THEN Finish(r) ELSE Go(r, "write")
        /\ late' = IF fails THEN late \cup {l \in Open : lead[l].contact = c} ELSE late
        /\ UNCHANGED <<rows, told, cache, started, muddled, adrift, reseeded>>

SoftDelete(r) ==
    LET c == req[r].at
    IN  /\ r \in InStep("delete", "write")
        /\ contact' = [contact EXCEPT ![c].active = FALSE]
        /\ Go(r, "drop")
        /\ UNCHANGED <<lead, pipelines, told, cache, started, failures, history>>

(* LeadService: Create, MoveStage, MarkWon, MarkLost. Nothing asks whether  *)
(* the contact is active, the stage exists or the lead is still open.       *)
LeadCreate(r, l, c, p, stage) ==
    /\ l \notin Leads /\ c \in Contacts
    /\ Start(r, "lead", "note", l, "OPEN")
    /\ lead' = [lead EXCEPT ![l] = [contact |-> c, pipeline |-> p, stage |-> stage,
                                       status |-> "OPEN"]]
    /\ late' = IF c \notin Active \/ \E d \in InStep("delete", "write") : req[d].at = c
               THEN late \cup {l} ELSE late
    /\ adrift' = IF stage \in pipelines[p] THEN adrift ELSE adrift \cup {l}
    /\ UNCHANGED <<contact, pipelines, told, cache, failures, muddled, reseeded>>

Changing(l) == \E q \in InStep("lead", "note") : req[q].at = l /\ req[q].arg # "moved"
Close(r, l, status) ==
    /\ l \in Leads /\ Start(r, "lead", "note", l, status)
    /\ lead' = [lead EXCEPT ![l].status = status]
    /\ muddled' = IF Changing(l) THEN muddled \cup {l} ELSE muddled
    /\ UNCHANGED <<contact, pipelines, told, cache, failures, late, adrift, reseeded>>

MoveStage(r, l, stage) ==
    /\ l \in Leads /\ Start(r, "lead", "note", l, "moved")
    /\ lead' = [lead EXCEPT ![l].stage = stage]
    /\ adrift' = IF stage \in pipelines[lead[l].pipeline] THEN adrift ELSE adrift \cup {l}
    /\ UNCHANGED <<contact, pipelines, told, cache, failures, late, muddled, reseeded>>

\* Title, value and date are not in the model; the lists are dropped.
LeadUpdate(r, l) ==
    /\ l \in Leads /\ Start(r, "lead", "drop", l, None)
    /\ UNCHANGED <<rows, told, cache, failures, history>>

\* The activity; its error is not looked at.
Note(r, fails) ==
    LET l == req[r].at
    IN  /\ r \in InStep("lead", "note")
        /\ IF fails THEN Failing ELSE Fine
        /\ told' = IF fails \/ req[r].arg = "moved" THEN told
                   ELSE [told EXCEPT ![l] = req[r].arg]
        /\ muddled' = IF fails THEN muddled \cup {l} ELSE muddled
        /\ Go(r, "drop")
        /\ UNCHANGED <<rows, cache, started, late, adrift, reseeded>>

(* invalidateCache: KEYS and DEL of the table's lists; their errors are not *)
(* looked at. What a list request has read and not stored yet escapes it.   *)
Table(r) == IF req[r].op = "lead" THEN "leads" ELSE "contacts"
Outdated(entry) == IF entry = None THEN None ELSE [entry EXCEPT !.stale = TRUE]
NoDrop(r, fails) ==
    /\ req[r].step = "drop" /\ Finish(r)
    /\ IF fails THEN Failing ELSE Fine
    /\ UNCHANGED <<rows, told, cache, started, history>>
Drop(r, fails) ==
    /\ req[r].step = "drop"
    /\ IF fails THEN Failing ELSE Fine
    /\ cache' = [k \in Keys |-> IF k[1] # Table(r) THEN cache[k]
                                 ELSE IF fails THEN Outdated(cache[k]) ELSE None]
    /\ req' = [q \in Request |->
                 IF q = r THEN Idle
                 ELSE IF req[q].op = "list" /\ req[q].arg.of = Table(r)
                      THEN [req[q] EXCEPT !.over = TRUE] ELSE req[q]]
    /\ UNCHANGED <<rows, told, started, history>>

(* LeadService.List, ContactService.List on a miss; the entry's lifetime.   *)
ListRead(r, q) ==
    /\ cache[Key(q)] = None
    /\ req[r] = Idle /\ started < MaxRequests /\ started' = started + 1
    /\ req' = [req EXCEPT ![r] = [Idle EXCEPT !.op = "list", !.step = "fill", !.arg = q,
                                              !.ids = Answer(q)]]
    /\ UNCHANGED <<rows, told, cache, failures, history>>
ListFill(r) ==
    LET q == req[r]
    IN  /\ q.op = "list"
        /\ cache' = [cache EXCEPT ![Key(q.arg)] = [asked |-> q.arg, ids |-> q.ids, stale |-> q.over]]
        /\ Finish(r)
        /\ UNCHANGED <<rows, told, started, failures, history>>
Expire(k) ==
    /\ cache[k] # None /\ cache' = [cache EXCEPT ![k] = None]
    /\ UNCHANGED <<rows, told, req, started, failures, history>>

(* PipelineHandler: List seeds a first pipeline, Create and UpdateStages    *)
(* write without a look at the leads (HasLeadsInStage has no caller).       *)
PipelineList(r) ==
    /\ pipelines = <<>> /\ Start(r, "seed", "write", None, None)
    /\ reseeded' = (reseeded \/ InStep("seed", "write") # {})
    /\ UNCHANGED <<rows, told, cache, failures, late, muddled, adrift>>
SeedDefault(r) ==
    /\ r \in InStep("seed", "write")
    /\ pipelines' = Append(pipelines, Stage) /\ Finish(r)
    /\ UNCHANGED <<contact, lead, told, cache, started, failures, history>>
UpdateStages(p, left) ==
    /\ started < MaxRequests /\ started' = started + 1
    /\ p \in DOMAIN pipelines /\ left # {}
    /\ pipelines' = [pipelines EXCEPT ![p] = left]
    /\ adrift' = adrift \cup {l \in Leads : lead[l].pipeline = p /\ lead[l].stage \notin left}
    /\ UNCHANGED <<contact, lead, told, cache, req, failures, late, muddled, reseeded>>

Next ==
    \/ \E r \in Request :
         \/ ContactWrite(r) \/ SoftDelete(r) \/ ListFill(r)
         \/ PipelineList(r) \/ SeedDefault(r)
         \/ \E fails \in BOOLEAN :
              PhoneCheck(r, fails) \/ DeleteCheck(r, fails) \/ Note(r, fails) \/ Drop(r, fails)
         \/ \E q \in Query : ListRead(r, q)
         \/ \E c \in Contact : DeleteAsk(r, c) \/ \E phone \in Phone : ContactAsk(r, c, phone)
         \/ \E l \in Lead : LeadUpdate(r, l)
         \/ \E l \in Lead, status \in {"WON", "LOST"} : Close(r, l, status)
         \/ \E l \in Lead, stage \in Stage : MoveStage(r, l, stage)
         \/ \E l \in Lead, c \in Contact, p \in DOMAIN pipelines, stage \in Stage :
              LeadCreate(r, l, c, p, stage)
    \/ \E k \in Keys : Expire(k)
    \/ \E p \in DOMAIN pipelines, left \in SUBSET Stage : UpdateStages(p, left)

Spec == Init /\ [][Next]_vars

-----------------------------------------------------------------------------
TypeOK ==
    /\ \A c \in Contacts : contact[c].phone \in Phone /\ contact[c].active \in BOOLEAN
    /\ \A l \in Leads : /\ lead[l].contact \in Contacts /\ lead[l].pipeline \in DOMAIN pipelines
                        /\ lead[l].stage \in Stage /\ lead[l].status \in {"OPEN", "WON", "LOST"}
    /\ \A k \in Keys : cache[k] # None => Key(cache[k].asked) = k
    /\ \A r \in Request : req[r].step \in {"done", "check", "write", "note", "drop", "fill"}

\* A contact that was deleted has no open lead, unless the lead was created
\* while the delete had its check behind it, or after it (Create does not ask
\* whether the contact is active), or the error of the check was thrown away.
OpenLeadHasContact == \A l \in Open : lead[l].contact \in Active \/ l \in late

\* A list in Redis is what its query gives now, unless a change of the table
\* has still to drop it, or it was read before a drop and stored after it, or
\* Redis failed the drop.
CachedListIsTrue ==
    \A k \in Keys :
       cache[k] # None =>
         \/ cache[k].stale \/ cache[k].ids = Answer(cache[k].asked)
         \/ \E r \in Request : req[r].step \in {"note", "drop"} /\ Table(r) = k[1]

\* The newest activity of a lead tells its status, unless two changes of the
\* status overlapped or an activity was lost; and an open lead stands on the
\* board of its pipeline, unless its stage was taken away or never there.
LeadIsWhereItSays ==
    /\ \A l \in Leads \ muddled : told[l] = lead[l].status \/ Changing(l)
    /\ \A l \in Open \ adrift : l \in Board(lead[l].pipeline)[lead[l].stage]

\* A tenant has one default pipeline, unless two first looks overlapped.
OneDefaultPipeline == Len(pipelines) > 1 => reseeded
=============================================================================
