------------------------------ MODULE Receipts ------------------------------
(***************************************************************************)
(* Uploaded files and the expenses that use them: UploadService, the       *)
(* receipts of ExpenseService, StorageService, and the nightly sweep       *)
(* (cleanup:files:temporary in the worker, cleanupTemporaryFiles in core). *)
(*                                                                         *)
(* A file is two things that no transaction joins: an object in storage    *)
(* and a FileUpload row, written in this order and deleted in this order.  *)
(* The row is temporary until an expense claims it.                        *)
(***************************************************************************)
EXTENDS Integers, FiniteSets

CONSTANTS
    Key, Expense, Request, None,
    MaxRequests,    \* bound: requests and sweeps started
    MaxFailures     \* bound: calls that throw, processes that stop

\* None and "none" are none of the things they stand beside.
ReceiptsAssumption ==
    /\ "none" \notin Key
    /\ None \notin Key \cup {"none"} \cup Expense \cup [temporary : BOOLEAN, expired : BOOLEAN]

VARIABLES
    stored,         \* keys of the objects in storage
    upload,         \* FileUpload by key: [temporary, expired], or None
    receipt,        \* by expense: its receiptKey, "none" for no receipt, None for no row
    indexed,        \* by expense: whether the last job for the AI index was an upsert
    req, started, failures,
    fresh,          \* keys no upload has used (they are UUIDs)
    severed,        \* history: keys an expense may lose, see ReceiptIsKept
    littered        \* history: keys where a request died between object and row

files == <<stored, upload, fresh>>
vars == <<files, receipt, indexed, req, started, failures, severed, littered>>

Idle == [op |-> "idle", step |-> "done", expense |-> None, key |-> "none", old |-> "none", list |-> {}]
Expenses == {x \in Expense : receipt[x] # None}
Users(k) == {x \in Expenses : receipt[x] = k}
Uploaded == {k \in Key : upload[k] # None}
Claiming(k) == {r \in Request : req[r].step = "claim" /\ req[r].key = k}
\* Some request is bound to delete the file: an update that has read it as the
\* receipt it is to replace is one of them.
Bound(q, k) == \/ q.step \in {"object", "row"} /\ q.key = k
               \/ q.step \in {"write", "claim"} /\ q.old = k /\ q.key \notin {"none", k}
               \/ k \in q.list
Doomed(k) == \E r \in Request : Bound(req[r], k)

Init ==
    /\ stored = {} /\ upload = [k \in Key |-> None]
    /\ receipt = [x \in Expense |-> None] /\ indexed = [x \in Expense |-> FALSE]
    /\ req = [r \in Request |-> Idle] /\ started = 0 /\ failures = 0
    /\ fresh = Key /\ severed = {} /\ littered = {}

Begin(r) == req[r] = Idle /\ started < MaxRequests /\ started' = started + 1
Become(r, record) == req' = [req EXCEPT ![r] = record]
Finish(r) == Become(r, Idle)
In(r, op, step) == req[r].op = op /\ req[r].step = step

-----------------------------------------------------------------------------
(* uploadFile, uploadImageOptimized: a fresh key, the object, then the row. *)
Put(r, k) ==
    /\ Begin(r) /\ k \in fresh /\ fresh' = fresh \ {k}
    /\ stored' = stored \cup {k}
    /\ Become(r, [Idle EXCEPT !.op = "upload", !.step = "insert", !.key = k])
    /\ UNCHANGED <<upload, receipt, indexed, failures, severed, littered>>
PutRow(r) ==
    /\ In(r, "upload", "insert")
    /\ upload' = [upload EXCEPT ![req[r].key] = [temporary |-> TRUE, expired |-> FALSE]]
    /\ Finish(r)
    /\ UNCHANGED <<stored, fresh, receipt, indexed, started, failures, severed, littered>>
\* 24 hours later.
Expires(k) ==
    /\ k \in Uploaded /\ upload[k].temporary /\ ~upload[k].expired
    /\ upload' = [upload EXCEPT ![k].expired = TRUE]
    /\ UNCHANGED <<stored, fresh, receipt, indexed, req, started, failures, severed, littered>>

(* ExpenseService.create: the row, the claim, the index job. The key is the *)
(* client's; that it names an upload of its own is not asked.               *)
Create(r, x, k) ==
    /\ Begin(r) /\ x \notin Expenses /\ k \in Uploaded \cup {"none"}
    /\ \A q \in Request : req[q].expense # x
    /\ receipt' = [receipt EXCEPT ![x] = k]
    /\ severed' = IF Users(k) # {} \/ Doomed(k) \/ k \notin stored THEN severed \cup {k} ELSE severed
    /\ Become(r, [Idle EXCEPT !.op = "create", !.step = IF k = "none" THEN "index" ELSE "claim",
                              !.expense = x, !.key = k])
    /\ UNCHANGED <<files, indexed, failures, littered>>

ClaimKeepsExpiry(r) ==
    LET k == req[r].key
    IN  /\ req[r].step = "claim"
        /\ Become(r, [req[r] EXCEPT !.step = IF req[r].old = "none" THEN "index" ELSE "object",
                                    !.key = req[r].old])
        /\ UNCHANGED <<files, receipt, indexed, started, failures, severed, littered>>
\* updateMany: no row, nothing to claim.
Claim(r) ==
    LET k == req[r].key
    IN  /\ req[r].step = "claim"
        /\ upload' = IF k \in Uploaded
                     THEN [upload EXCEPT ![k] = [temporary |-> FALSE, expired |-> FALSE]] ELSE upload
        /\ Become(r, [req[r] EXCEPT !.step = IF req[r].old = "none" THEN "index" ELSE "object",
                                    !.key = req[r].old])
        /\ UNCHANGED <<stored, fresh, receipt, indexed, started, failures, severed, littered>>

(* update: the old receipt is read first; when another takes its place the  *)
(* new one is claimed and the old one deleted. remove deletes it as well.   *)
UpdateRead(r, x, k) ==
    /\ Begin(r) /\ x \in Expenses /\ k \in Uploaded \cup {"none"}
    /\ Become(r, [Idle EXCEPT !.op = "update", !.step = "write", !.expense = x, !.key = k,
                              !.old = receipt[x]])
    /\ UNCHANGED <<files, receipt, indexed, failures, severed, littered>>
\* A request without receiptKey ("none") leaves the receipt alone.
UpdateWrite(r) ==
    LET q == req[r]  changes == q.key \notin {"none", q.old}
    IN  /\ In(r, "update", "write")
        /\ IF q.expense \notin Expenses
           THEN Finish(r) /\ UNCHANGED <<receipt, severed>>
           ELSE /\ receipt' = IF q.key = "none" THEN receipt ELSE [receipt EXCEPT ![q.expense] = q.key]
                /\ severed' = IF Users(q.key) \ {q.expense} # {} \/ Doomed(q.key) \/ q.key \notin stored
                              THEN severed \cup {q.key} ELSE severed
                /\ Become(r, [q EXCEPT !.step = IF changes THEN "claim" ELSE "index"])
        /\ UNCHANGED <<files, indexed, started, failures, littered>>
RemoveRead(r, x) ==
    /\ Begin(r) /\ x \in Expenses
    /\ Become(r, [Idle EXCEPT !.op = "remove", !.expense = x, !.key = receipt[x],
                              !.step = IF receipt[x] = "none" THEN "delete" ELSE "object"])
    /\ UNCHANGED <<files, receipt, indexed, failures, severed, littered>>
RemoveDelete(r) ==
    /\ In(r, "remove", "delete")
    /\ IF req[r].expense \in Expenses
       THEN Become(r, [req[r] EXCEPT !.step = "index"]) /\ receipt' = [receipt EXCEPT ![req[r].expense] = None]
       ELSE Finish(r) /\ UNCHANGED receipt
    /\ UNCHANGED <<files, indexed, started, failures, severed, littered>>
\* queue.indexEntity: the last call of all three.
Index(r) ==
    /\ req[r].step = "index"
    /\ indexed' = [indexed EXCEPT ![req[r].expense] = (req[r].op # "remove")]
    /\ Finish(r)
    /\ UNCHANGED <<files, receipt, started, failures, severed, littered>>

(* deleteFile does not ask whether an expense uses the file.                *)
DeleteRead(r, k) ==
    /\ Begin(r) /\ k \in Uploaded
    /\ Become(r, [Idle EXCEPT !.op = "delete", !.step = "object", !.key = k])
    /\ severed' = IF Users(k) # {} THEN severed \cup {k} ELSE severed
    /\ UNCHANGED <<files, receipt, indexed, failures, littered>>
(* The sweep selects the expired temporary rows and deletes one by one; a   *)
(* row claimed since is deleted all the same.                               *)
SweepSelect(r) ==
    LET list == {k \in Uploaded : upload[k].temporary /\ upload[k].expired}
    IN  /\ Begin(r) /\ list # {}
        /\ Become(r, [Idle EXCEPT !.op = "sweep", !.step = "next", !.list = list])
        /\ severed' = severed \cup {k \in list : Claiming(k) # {}}
        /\ UNCHANGED <<files, receipt, indexed, failures, littered>>
SweepNext(r) ==
    /\ In(r, "sweep", "next")
    /\ IF req[r].list = {} THEN Finish(r)
       ELSE \E k \in req[r].list :
              Become(r, [req[r] EXCEPT !.step = "object", !.key = k, !.list = @ \ {k}])
    /\ UNCHANGED <<files, receipt, indexed, started, failures, severed, littered>>

\* What comes after a file is gone, or after deleting it has failed.
After(q) == IF q.op = "sweep" THEN [q EXCEPT !.step = "next"]
            ELSE IF q.op = "remove" THEN [q EXCEPT !.step = "delete"]
            ELSE IF q.op = "update" THEN [q EXCEPT !.step = "index"]
            ELSE Idle
DeleteObject(r) ==
    /\ req[r].step = "object"
    /\ stored' = stored \ {req[r].key}
    /\ Become(r, [req[r] EXCEPT !.step = "row"])
    /\ UNCHANGED <<upload, fresh, receipt, indexed, started, failures, severed, littered>>
DeleteRow(r) ==
    /\ req[r].step = "row"
    /\ upload' = [upload EXCEPT ![req[r].key] = None]
    /\ Become(r, After(req[r]))
    /\ UNCHANGED <<stored, fresh, receipt, indexed, started, failures, severed, littered>>

\* A call throws: a deletion goes on with what comes after it (the catch of
\* update, remove and the sweep), everything else ends; or the process stops.
Fail(r, stops) ==
    LET q == req[r]
    IN  /\ q # Idle /\ failures < MaxFailures
        /\ failures' = failures + 1
        /\ Become(r, IF q.step \in {"object", "row"} /\ ~stops THEN After(q) ELSE Idle)
        /\ littered' = IF q.step \in {"insert", "object", "row"} THEN littered \cup {q.key} ELSE littered
        /\ severed' = IF q.step = "claim" \/ q.op = "remove" THEN severed \cup {q.key} ELSE severed
        /\ UNCHANGED <<files, receipt, indexed, started>>

Next ==
    \/ \E r \in Request :
         \/ PutRow(r) \/ Claim(r) \/ UpdateWrite(r) \/ RemoveDelete(r) \/ Index(r)
         \/ SweepSelect(r) \/ SweepNext(r) \/ DeleteObject(r) \/ DeleteRow(r)
         \/ \E k \in Key : Put(r, k) \/ DeleteRead(r, k)
         \/ \E x \in Expense : RemoveRead(r, x)
         \/ \E x \in Expense, k \in Key \cup {"none"} : Create(r, x, k) \/ UpdateRead(r, x, k)
         \/ \E stops \in BOOLEAN : Fail(r, stops)
    \/ \E k \in Key : Expires(k)

Spec == Init /\ [][Next]_vars

-----------------------------------------------------------------------------
TypeOK ==
    /\ stored \subseteq Key
    /\ \A k \in Uploaded : upload[k].temporary \in BOOLEAN /\ upload[k].expired \in BOOLEAN
    /\ receipt \in [Expense -> Key \cup {"none", None}] /\ indexed \in [Expense -> BOOLEAN]

\* The receipt of an expense is in storage until the expense is removed. It
\* can only be missing if, when the expense named it, it was gone, another
\* named it too or a request was bound to delete it; if somebody deleted it as
\* a file; if it expired before it was claimed; or if the claim or a removal
\* broke off.
ReceiptIsKept ==
    \A x \in Expenses :
       \/ receipt[x] \in stored \cup severed \cup {"none"}
       \/ \E r \in Request : req[r].op = "remove" /\ req[r].expense = x

\* Storage and rows agree but for a request between the two, or one that
\* stopped there: nothing is left behind in storage, no row leads nowhere.
FilesHaveRows ==
    \A k \in Key \ littered :
       (k \in stored) = (k \in Uploaded)
         \/ \E r \in Request : req[r].key = k /\ req[r].step \in {"insert", "row"}
=============================================================================
