------------------------------ MODULE Assistant ------------------------------
(***************************************************************************)
(* The AI service of one tenant: the vector index of its records, the      *)
(* caches of what it told about the books, and the conversations; and the  *)
(* worker's ai:index:entity jobs that are meant to keep index and caches   *)
(* up to date.                                                             *)
(*                                                                         *)
(* A record is what the id of an indexed text names: an invoice's number, a *)
(* customer's name, the position of an expense or a lead. It has a version *)
(* or is None. The language model and Qdrant are external. A question      *)
(* stands for message and period; of a cached answer only its key is kept. *)
(***************************************************************************)
EXTENDS Integers, Sequences

CONSTANTS
    Record, Question, Conversation, Client, Task, None,
    Table,          \* by record: the table its row is in
    Kept,           \* turns a conversation keeps, 5
    MaxChanges, MaxAsked, MaxTasks,     \* bounds
    MaxFailures     \* bound: calls of Redis, Qdrant or the leads query that fail

VARIABLES
    books,          \* version by record, or None
    indexed,        \* Qdrant: version by record, or None
    jobs, debounced,    \* ai:index:entity jobs waiting; records with a 30 s key
    task,           \* background indexing: [step, read], by task
    cache,          \* the keys whose answer is cached
    talk,           \* by conversation: the stored turns
    client,         \* by client: what its request does
    changes, asked, tasks, failures,
    lastRead,       \* history: what the newest finished task read
    overlapped,     \* history: two tasks ran at once, or one failed half way
    littered,       \* history: a task went on though its clearing had failed
    turns,          \* history: by conversation, the turns answered since it was empty
    tangled         \* history: conversations two requests used at once, or Redis failed in

bookVars == <<books, changes>>
indexVars == <<indexed, jobs, debounced, task, tasks, lastRead, overlapped, littered>>
talkVars == <<cache, talk, client, asked, turns, tangled>>
vars == <<bookVars, indexVars, talkVars, failures>>

Summaries == {"insights", "dashboard", "report"}
Keys == Summaries \cup Question
\* What a task does after it has read a table.
Follows == [invoices |-> "expenses", expenses |-> "customers", customers |-> "leads", leads |-> "upsert"]
Tables == DOMAIN Follows
Idle == [step |-> "idle", kind |-> None, key |-> None, conv |-> None, history |-> <<>>]
Nothing == [r \in Record |-> None]
NoTask == [step |-> "none", read |-> Nothing]

\* None is no conversation, every record is in a table; what is kept and the
\* bound are numbers.
AssistantAssumption ==
    None \notin Conversation /\ Table \in [Record -> Tables] /\ Kept \in Nat /\ MaxChanges \in Nat

Fine == failures' = failures
Fails == failures < MaxFailures /\ failures' = failures + 1

Init ==
    /\ books = Nothing /\ indexed = Nothing
    /\ jobs = {} /\ debounced = {} /\ task = [t \in Task |-> NoTask]
    /\ cache = {} /\ talk = [c \in Conversation |-> <<>>]
    /\ client = [c \in Client |-> Idle]
    /\ changes = 0 /\ asked = 0 /\ tasks = 0 /\ failures = 0
    /\ lastRead = Nothing /\ overlapped = FALSE /\ littered = FALSE
    /\ turns = [c \in Conversation |-> <<>>] /\ tangled = {}

-----------------------------------------------------------------------------
(* The core: create and payment of an invoice and create, update and remove *)
(* of an expense queue an index job; the other changes of invoices, and     *)
(* those of customers and leads, do not.                                    *)
Write(r, gone) ==
    /\ changes < MaxChanges /\ changes' = changes + 1
    /\ books' = [books EXCEPT ![r] = IF gone THEN None ELSE changes + 1]
Change(r, gone, told) ==
    /\ gone => books[r] # None
    /\ told => Table[r] \in {"invoices", "expenses"}
    /\ Table[r] = "expenses" => told
    /\ Write(r, gone) /\ jobs' = IF told THEN jobs \cup {r} ELSE jobs
    /\ UNCHANGED <<indexed, debounced, task, tasks, lastRead, overlapped, littered, talkVars, failures>>

(* JWTAuthMiddleware: every path but health and webhook needs a bearer      *)
(* token; the index endpoints ask for the internal key besides.             *)
Admits(headers) == "token" \in headers
AdmitsIndexing(headers) == Admits(headers) /\ "key" \in headers
WorkerHeaders == {"key"}

StartTask(t) ==
    /\ task[t] = NoTask /\ tasks < MaxTasks /\ tasks' = tasks + 1
    /\ task' = [task EXCEPT ![t].step = "clear"]
    /\ overlapped' = (overlapped \/ \E u \in Task : task[u] # NoTask)

(* index_single_entity: answers, indexes in the background, drops two       *)
(* caches. An error of Redis is only logged and leaves its cache.           *)
Invalidated == {"insights", "dashboard"}
IndexEntity(headers, t, dropped) ==
    /\ AdmitsIndexing(headers) /\ dropped \subseteq Invalidated
    /\ StartTask(t) /\ cache' = cache \ dropped
    /\ IF dropped = Invalidated THEN Fine ELSE Fails
(* processAiJob: skipped inside the window; a refusal or an outage is       *)
(* logged and the job succeeds.                                             *)
AiJobSkipped(r) ==
    /\ r \in jobs /\ r \in debounced /\ jobs' = jobs \ {r}
    /\ UNCHANGED <<bookVars, indexed, debounced, task, tasks, lastRead, overlapped, littered, talkVars, failures>>
AiJob(r, t, dropped) ==
    /\ r \in jobs \ debounced
    /\ jobs' = jobs \ {r} /\ debounced' = debounced \cup {r}
    /\ IF AdmitsIndexing(WorkerHeaders) THEN IndexEntity(WorkerHeaders, t, dropped)
       ELSE UNCHANGED <<task, tasks, overlapped, cache, failures>>
    /\ UNCHANGED <<bookVars, indexed, lastRead, littered, talk, client, asked, turns, tangled>>
WindowEnds(r) ==
    /\ r \in debounced /\ debounced' = debounced \ {r}
    /\ UNCHANGED <<bookVars, indexed, jobs, task, tasks, lastRead, overlapped, littered, talkVars, failures>>

\* Somebody with a token and the key: trigger_reindexing, index_single_entity.
Reindex(t) == AdmitsIndexing({"token", "key"}) /\ StartTask(t) /\ cache' = cache /\ Fine
Requested(t) ==
    /\ \/ Reindex(t)
       \/ \E dropped \in SUBSET Invalidated : IndexEntity({"token", "key"}, t, dropped)
    /\ UNCHANGED <<bookVars, indexed, jobs, debounced, lastRead, littered, talk, client, asked, turns, tangled>>

(* index_tenant_data: delete the tenant's points, read the tables one after *)
(* the other, embed, upsert. delete_tenant_data turns an error into a       *)
(* result nobody looks at: the points stay and the task goes on.            *)
Clear(t, cleared) ==
    /\ task[t].step = "clear" /\ IF cleared THEN Fine ELSE Fails
    /\ indexed' = IF cleared THEN Nothing ELSE indexed
    /\ littered' = (littered \/ ~cleared)
    /\ task' = [task EXCEPT ![t].step = "invoices"]
    /\ UNCHANGED <<bookVars, jobs, debounced, tasks, lastRead, overlapped, talkVars>>
\* One query; that of the leads may fail and is left out then.
ReadTable(t, read) ==
    LET table == task[t].step
        rows == [r \in Record |-> IF Table[r] = table THEN books[r] ELSE task[t].read[r]]
    IN  /\ table \in Tables /\ IF read THEN Fine ELSE table = "leads" /\ Fails
        /\ task' = [task EXCEPT ![t] = [step |-> Follows[table], read |-> IF read THEN rows ELSE @.read]]
        /\ UNCHANGED <<bookVars, indexed, jobs, debounced, tasks, lastRead, overlapped, littered, talkVars>>
Upsert(t) ==
    /\ task[t].step = "upsert" /\ Fine
    /\ indexed' = [r \in Record |-> IF task[t].read[r] = None THEN indexed[r] ELSE task[t].read[r]]
    /\ lastRead' = task[t].read
    /\ task' = [task EXCEPT ![t] = NoTask]
    /\ UNCHANGED <<bookVars, jobs, debounced, tasks, overlapped, littered, talkVars>>
\* Any other exception is logged and ends the task where it is.
IndexingFails(t) ==
    /\ task[t] # NoTask /\ Fine
    /\ task' = [task EXCEPT ![t] = NoTask] /\ overlapped' = TRUE
    /\ UNCHANGED <<bookVars, indexed, jobs, debounced, tasks, lastRead, littered, talkVars>>

-----------------------------------------------------------------------------
(* get_insights, get_dashboard_summary, generate_report, query: the cache,  *)
(* else the history of the conversation, the books, the model, the store.   *)
(* A cached answer leaves the conversation as it is. redis_client turns     *)
(* every error into "no value" or "not stored", which nobody looks at.      *)
Using(conv) == {c \in Client : client[c].conv = conv /\ client[c] # Idle}
Enter(c, kind, key, conv, first) ==
    /\ client' = [client EXCEPT ![c] = [Idle EXCEPT !.step = first, !.kind = kind, !.key = key, !.conv = conv]]
    /\ tangled' = IF conv # None /\ Using(conv) # {} THEN tangled \cup {conv} ELSE tangled
Starts(c) == client[c] = Idle /\ asked < MaxAsked /\ asked' = asked + 1
Ask(c, key, conv, read) ==
    /\ Starts(c) /\ IF read THEN Fine ELSE Fails
    /\ IF read /\ key \in cache THEN UNCHANGED <<client, tangled>>
       ELSE IF key \in Summaries THEN Enter(c, "summary", key, None, "context")
       ELSE Enter(c, "query", key, conv, "history")
    /\ UNCHANGED <<bookVars, indexVars, cache, talk, turns>>
\* stream_question: without the cache, and the books before the history.
Stream(c, question, conv) ==
    /\ Starts(c) /\ Fine
    /\ Enter(c, "stream", question, conv, "context")
    /\ UNCHANGED <<bookVars, indexVars, cache, talk, turns>>

\* get_conversation_history: an error is an empty history.
ReadHistory(c, read) ==
    LET conv == client[c].conv
        step == IF client[c].kind = "stream" THEN "talk" ELSE "context"
    IN  /\ client[c].step = "history" /\ IF read THEN Fine ELSE conv # None /\ Fails
        /\ client' = [client EXCEPT ![c].step = step,
                         ![c].history = IF read /\ conv # None THEN talk[conv] ELSE <<>>]
        /\ tangled' = IF read THEN tangled ELSE tangled \cup {conv}
        /\ UNCHANGED <<bookVars, indexVars, cache, talk, asked, turns>>
\* build_full_context, get_financial_context and the model.
BuildContext(c) ==
    LET step == CASE client[c].kind = "summary" -> "store"
                  [] client[c].kind = "query" -> "talk"
                  [] client[c].kind = "stream" -> "history"
    IN  /\ client[c].step = "context" /\ Fine
        /\ client' = [client EXCEPT ![c].step = step]
        /\ UNCHANGED <<bookVars, indexVars, cache, talk, asked, turns, tangled>>
\* An exception, or no figures for a summary: nothing is saved or stored.
RequestFails(c) ==
    /\ client[c] # Idle /\ Fine /\ client' = [client EXCEPT ![c] = Idle]
    /\ UNCHANGED <<bookVars, indexVars, cache, talk, asked, turns, tangled>>

Newest(all) == SubSeq(all, IF Len(all) > Kept THEN Len(all) - Kept + 1 ELSE 1, Len(all))
\* A streamed answer ends here, any other is stored.
Answered(c) ==
    client' = [client EXCEPT ![c] = IF @.kind = "stream" THEN Idle ELSE [@ EXCEPT !.step = "store"]]
\* Mutant: the turn alone is saved, without the history that was read.
SaveTurnAlone(c, saved) ==
    LET conv == client[c].conv  turn == <<c, client[c].key>>
    IN  /\ client[c].step = "talk" /\ conv # None /\ IF saved THEN Fine ELSE Fails
        /\ talk' = IF saved THEN [talk EXCEPT ![conv] = Newest(<<turn>>)] ELSE talk
        /\ tangled' = IF saved THEN tangled ELSE tangled \cup {conv}
        /\ turns' = [turns EXCEPT ![conv] = Append(@, turn)]
        /\ Answered(c)
        /\ UNCHANGED <<bookVars, indexVars, cache, asked>>
\* save_conversation_history: the history as it was read, the turn, capped.
SaveTurn(c, saved) ==
    LET conv == client[c].conv  turn == <<c, client[c].key>>
        all == Append(client[c].history, turn)
    IN  /\ client[c].step = "talk" /\ conv # None /\ IF saved THEN Fine ELSE Fails
        /\ talk' = IF saved THEN [talk EXCEPT ![conv] = Newest(all)] ELSE talk
        /\ tangled' = IF saved THEN tangled ELSE tangled \cup {conv}
        /\ turns' = [turns EXCEPT ![conv] = Append(@, turn)]
        /\ Answered(c)
        /\ UNCHANGED <<bookVars, indexVars, cache, asked>>
\* A question without a conversation gets a new one nobody else knows.
NewConversation(c) ==
    /\ client[c].step = "talk" /\ client[c].conv = None /\ Fine
    /\ Answered(c)
    /\ UNCHANGED <<bookVars, indexVars, cache, talk, asked, turns, tangled>>

StoreAnswer(c, stored) ==
    /\ client[c].step = "store" /\ IF stored THEN Fine ELSE Fails
    /\ cache' = IF stored THEN cache \cup {client[c].key} ELSE cache
    /\ client' = [client EXCEPT ![c] = Idle]
    /\ UNCHANGED <<bookVars, indexVars, talk, asked, turns, tangled>>

\* An hour, half an hour, five minutes.
Expire(k) ==
    /\ k \in cache /\ cache' = cache \ {k} /\ Fine
    /\ UNCHANGED <<bookVars, indexVars, talk, client, asked, turns, tangled>>
\* 24 hours, or clear_conversation, which tells of a success even when the
\* deletion failed: the user takes the conversation for empty then.
Forget(conv, deleted) ==
    /\ talk[conv] # <<>> /\ IF deleted THEN Fine ELSE Fails
    /\ talk' = IF deleted THEN [talk EXCEPT ![conv] = <<>>] ELSE talk
    /\ turns' = [turns EXCEPT ![conv] = <<>>]
    /\ tangled' = IF deleted /\ Using(conv) = {} THEN tangled ELSE tangled \cup {conv}
    /\ UNCHANGED <<bookVars, indexVars, cache, client, asked>>

Next ==
    \/ \E r \in Record : \/ \E gone, told \in BOOLEAN : Change(r, gone, told)
                         \/ AiJobSkipped(r) \/ WindowEnds(r)
                         \/ \E t \in Task, dropped \in SUBSET Invalidated : AiJob(r, t, dropped)
    \/ \E t \in Task : \/ Requested(t) \/ Upsert(t) \/ IndexingFails(t)
                       \/ \E ok \in BOOLEAN : Clear(t, ok) \/ ReadTable(t, ok)
    \/ \E c \in Client, ok \in BOOLEAN :
          \/ ReadHistory(c, ok) \/ SaveTurn(c, ok) \/ StoreAnswer(c, ok)
          \/ \E key \in Summaries : Ask(c, key, None, ok)
          \/ \E q \in Question, conv \in Conversation \cup {None} : Ask(c, q, conv, ok)
    \/ \E c \in Client : \/ BuildContext(c) \/ NewConversation(c) \/ RequestFails(c)
                         \/ \E q \in Question, conv \in Conversation \cup {None} : Stream(c, q, conv)
    \/ \E k \in Keys : Expire(k)
    \/ \E conv \in Conversation, deleted \in BOOLEAN : Forget(conv, deleted)

Spec == Init /\ [][Next]_vars

-----------------------------------------------------------------------------
Versions == 1 .. MaxChanges
TypeOK ==
    /\ \A r \in Record : books[r] = None \/ books[r] \in Versions
    /\ cache \subseteq Keys
    /\ jobs \subseteq Record /\ debounced \subseteq Record
    /\ \A conv \in Conversation : Len(talk[conv]) <= Kept

\* Once no task runs, the index is what the newest task read of the tables, with
\* nothing left of rows deleted before; unless two tasks ran at once (the slower
\* one brings back what it read) or one failed after it had cleared. A task that
\* could not clear leaves texts of rows that are gone, and of nothing else.
IndexIsOneReading ==
    (\A t \in Task : task[t] = NoTask) =>
       \/ overlapped
       \/ \A r \in Record : indexed[r] = lastRead[r] \/ (littered /\ lastRead[r] = None)

\* A conversation remembers its last turns in their order, unless two requests
\* were answered in it at once (the one that ends later overwrites the other) or
\* Redis failed to read, store or delete it.
ConversationKeepsTurns ==
    \A conv \in Conversation :
       \/ conv \in tangled
       \/ talk[conv] = Newest(turns[conv])

=============================================================================
