------------------------------ MODULE Documents ------------------------------
(***************************************************************************)
(* The PDF of one invoice. Three parts of the system draw it under one     *)
(* storage key: the worker's pdf:invoice:generate job (queued by create),  *)
(* InvoiceService.generatePdf (a download) and WhatsappService.sendInvoice;*)
(* and an edit of the draft makes what was drawn out of date.              *)
(*                                                                         *)
(* A version stands for everything an edit writes. The row has the version *)
(* of its totals; the items have that of the edit that created them.       *)
(***************************************************************************)
EXTENDS Integers

CONSTANTS
    Request, Worker,
    None,
    MaxRequests,    \* bound: requests started
    MaxFailures     \* bound: jobs that fail half way

\* None, for no row, is neither a status nor a document.
DocumentsAssumption == None \notin {"DRAFT", "SENT"} \cup [total : Nat, items : SUBSET Nat]

VARIABLES
    status, version, items,     \* the Invoice row and its items (a set of versions)
    pdfUrl,         \* "none", "bare" (signature cut off), "signed", "dead" or "public"
    doc,            \* [total, items] drawn in the stored object, or None
    cached,         \* the download link is in Redis
    pdfJobs, job,   \* jobs that wait, and by worker the one it runs
    chained,        \* whatsapp:invoice:send jobs the PDF job has queued
    req, started, failures,
    crossed         \* history: an edit was written during a draw or after the send

rowVars == <<status, version, items, pdfUrl>>
vars == <<rowVars, doc, cached, pdfJobs, job, chained, req, started, failures, crossed>>

Idle == [op |-> "idle", step |-> "done", status |-> None, drawn |-> None]
Now == [total |-> version, items |-> items]
Current == Now.items = {version} /\ doc = Now

\* InvoiceService.create has written version 1 and queued the job.
Init ==
    /\ status = "DRAFT" /\ version = 1 /\ items = {1} /\ pdfUrl = "none"
    /\ doc = None /\ cached = FALSE
    /\ pdfJobs = 1 /\ job = [w \in Worker |-> Idle]
    /\ chained = 0
    /\ req = [r \in Request |-> Idle] /\ started = 0 /\ failures = 0 /\ crossed = FALSE

Drawing == \/ \E r \in Request : req[r].drawn # None
           \/ \E w \in Worker : job[w].status # None

Start(r, record) ==
    /\ req[r] = Idle /\ started < MaxRequests
    /\ started' = started + 1 /\ req' = [req EXCEPT ![r] = record]
In(r, op, step) == req[r].op = op /\ req[r].step = step
Go(r, step) == req' = [req EXCEPT ![r].step = step]
Finish(r) == req' = [req EXCEPT ![r] = Idle]
jobVars == <<pdfJobs, job, chained, failures>>

-----------------------------------------------------------------------------
(* update: DRAFT is asked for at the read; the items are deleted, then the  *)
(* totals and the new items are written together. send: read, then write.   *)
EditRead(r) ==
    /\ status = "DRAFT" /\ Start(r, [Idle EXCEPT !.op = "edit", !.step = "delete"])
    /\ UNCHANGED <<rowVars, doc, cached, jobVars, crossed>>
EditDelete(r) ==
    /\ In(r, "edit", "delete") /\ Go(r, "write")
    /\ items' = {}
    /\ crossed' = (crossed \/ Drawing \/ status # "DRAFT")
    /\ UNCHANGED <<status, version, pdfUrl, doc, cached, jobVars, started>>
EditWrite(r) ==
    /\ In(r, "edit", "write") /\ Finish(r)
    /\ version' = version + 1 /\ items' = items \cup {version + 1}
    /\ crossed' = (crossed \/ Drawing \/ status # "DRAFT" \/ items # {})
    /\ UNCHANGED <<status, pdfUrl, doc, cached, jobVars, started>>
SendRead(r) ==
    /\ status = "DRAFT" /\ Start(r, [Idle EXCEPT !.op = "send", !.step = "write"])
    /\ UNCHANGED <<rowVars, doc, cached, jobVars, crossed>>
SendWrite(r) ==
    /\ In(r, "send", "write") /\ Finish(r)
    /\ status' = "SENT"
    /\ UNCHANGED <<version, items, pdfUrl, doc, cached, jobVars, started, crossed>>

(* generatePdf: an issued invoice is answered from Redis; else it is drawn, *)
(* stored, its link cached unless the read saw a draft, and the row gets    *)
(* the link without its signature.                                          *)
Download(r) ==
    /\ IF cached /\ status # "DRAFT" THEN Start(r, Idle)
       ELSE Start(r, [op |-> "download", step |-> "store", status |-> status, drawn |-> Now])
    /\ crossed' = (crossed \/ items # {version})
    /\ UNCHANGED <<rowVars, doc, cached, jobVars>>
\* generateInvoicePdf: draws what the caller has read, one key per invoice.
Store(r) ==
    /\ req[r].step = "store"
    /\ doc' = req[r].drawn
    /\ Go(r, IF req[r].op = "download" THEN "cache" ELSE "row")
    /\ UNCHANGED <<rowVars, cached, jobVars, started, crossed>>
CacheLinkAlways(r) ==
    /\ In(r, "download", "cache") /\ Go(r, "row")
    /\ cached' = TRUE
    /\ UNCHANGED <<rowVars, doc, jobVars, started, crossed>>
CacheLink(r) ==
    /\ In(r, "download", "cache") /\ Go(r, "row")
    /\ cached' = (cached \/ req[r].status # "DRAFT")
    /\ UNCHANGED <<rowVars, doc, jobVars, started, crossed>>
WriteUrl(r) ==
    /\ req[r].step = "row"
    /\ IF req[r].op = "download" THEN pdfUrl' = "bare" /\ Finish(r)
       ELSE pdfUrl' = "signed" /\ req' = [req EXCEPT ![r].step = "send", ![r].drawn = None]
    /\ UNCHANGED <<status, version, items, doc, cached, jobVars, started, crossed>>

(* WhatsappService.sendInvoice draws only when the row has no link (or a    *)
(* file:// one); otherwise it sends the link as it is.                      *)
WhatsApp(r) ==
    /\ Start(r, IF pdfUrl = "none"
                THEN [op |-> "whatsapp", step |-> "store", status |-> status, drawn |-> Now]
                ELSE [Idle EXCEPT !.op = "whatsapp", !.step = "send"])
    /\ crossed' = (crossed \/ items # {version})
    /\ UNCHANGED <<rowVars, doc, cached, jobVars>>
SendTemplate(r) ==
    /\ In(r, "whatsapp", "send") /\ Finish(r)
    /\ UNCHANGED <<rowVars, doc, cached, jobVars, started, crossed>>

\* A signature runs out; the cached link goes with it.
LinkExpires ==
    /\ cached \/ pdfUrl = "signed"
    /\ cached' = FALSE
    /\ pdfUrl' = IF pdfUrl = "signed" THEN "dead" ELSE pdfUrl
    /\ UNCHANGED <<status, version, items, doc, jobVars, req, started, crossed>>

-----------------------------------------------------------------------------
(* pdf:invoice:generate: the row, later the items; draw and upload; the     *)
(* link; then, if the row read was SENT already, a WhatsApp job. A row that *)
(* has a link is skipped: nobody passes regenerate.                         *)
JobRead(w) ==
    /\ pdfJobs > 0 /\ job[w] = Idle /\ pdfJobs' = pdfJobs - 1
    /\ job' = IF pdfUrl # "none" THEN job
              ELSE [job EXCEPT ![w] = [op |-> "pdf", step |-> "items", status |-> status,
                                        drawn |-> [total |-> version, items |-> {}]]]
    /\ UNCHANGED <<rowVars, doc, cached, chained, req, started, failures, crossed>>
JobItems(w) ==
    /\ job[w].step = "items"
    /\ job' = [job EXCEPT ![w].drawn.items = items, ![w].step = "upload"]
    /\ crossed' = (crossed \/ items # {job[w].drawn.total})
    /\ UNCHANGED <<rowVars, doc, cached, pdfJobs, chained, req, started, failures>>
JobUpload(w) ==
    /\ job[w].step = "upload"
    /\ doc' = job[w].drawn
    /\ job' = [job EXCEPT ![w].step = "row"]
    /\ UNCHANGED <<rowVars, cached, pdfJobs, chained, req, started, failures, crossed>>
JobRow(w) ==
    /\ job[w].step = "row"
    /\ pdfUrl' = "public"
    /\ job' = [job EXCEPT ![w].step = "chain"]
    /\ UNCHANGED <<status, version, items, doc, cached, pdfJobs, chained, req, started,
                   failures, crossed>>
JobChain(w) ==
    /\ job[w].step = "chain"
    /\ chained' = IF job[w].status = "SENT" THEN chained + 1 ELSE chained
    /\ job' = [job EXCEPT ![w].step = "notify"]
    /\ UNCHANGED <<rowVars, doc, cached, pdfJobs, req, started, failures, crossed>>
JobDone(w) ==
    /\ job[w].step = "notify"
    /\ job' = [job EXCEPT ![w] = Idle]
    /\ UNCHANGED <<rowVars, doc, cached, pdfJobs, chained, req, started, failures, crossed>>
\* A step throws or the worker stops; the queue runs the job again.
JobFails(w) ==
    /\ job[w] # Idle /\ failures < MaxFailures
    /\ failures' = failures + 1 /\ pdfJobs' = pdfJobs + 1
    /\ job' = [job EXCEPT ![w] = Idle]
    /\ UNCHANGED <<rowVars, doc, cached, chained, req, started, crossed>>

Next ==
    \/ \E r \in Request :
         \/ EditRead(r) \/ EditDelete(r) \/ EditWrite(r) \/ SendRead(r) \/ SendWrite(r)
         \/ Download(r) \/ Store(r) \/ CacheLink(r) \/ WriteUrl(r)
         \/ WhatsApp(r) \/ SendTemplate(r)
    \/ \E w \in Worker :
         \/ JobRead(w) \/ JobItems(w) \/ JobUpload(w) \/ JobRow(w) \/ JobChain(w)
         \/ JobDone(w) \/ JobFails(w)
    \/ LinkExpires

Spec == Init /\ [][Next]_vars

-----------------------------------------------------------------------------
TypeOK ==
    /\ status \in {"DRAFT", "SENT"} /\ version \in Nat \ {0} /\ items \subseteq 1 .. version
    /\ pdfUrl \in {"none", "bare", "signed", "dead", "public"} /\ cached \in BOOLEAN
    /\ doc = None \/ (doc.total \in 1 .. version /\ doc.items \subseteq 1 .. version)
    /\ pdfJobs \in Nat

\* A link kept in Redis leads to the invoice as it stands, unless an edit was
\* written during a draw or after the send: a draft's link is never kept, so
\* that what was drawn before an edit is drawn again.
CachedLinkIsCurrent == cached => Current \/ crossed

\* However often the PDF job runs, it announces the invoice once.
ChainedOnce == chained <= 1

=============================================================================
