-------------------------- MODULE MessagingProofs --------------------------
(***************************************************************************)
(* What Messaging promises, for every step of its four parts. Each part    *)
(* has an inductive invariant of its own (DocIInv, SendIInv, BotInv,       *)
(* AssistantInv): the steps of the others leave its variables alone.       *)
(***************************************************************************)
EXTENDS Messaging, SequenceTheorems, FiniteSetTheorems, TLAPS

(***************************************************************************)
(* Documents: the links of an invoice's document                           *)
(***************************************************************************)

LEMMA DocumentsFit == None \notin {"DRAFT", "SENT"} \cup [total : Nat, items : SUBSET Nat]
BY MessagingAssumption DEF D!DocumentsAssumption

-----------------------------------------------------------------------------
(* The invariant *)

Drawings == [total : 1 .. version, items : SUBSET (1 .. version)]
Read == {None, "DRAFT", "SENT"}
ReqType == [op : {"idle", "edit", "send", "download", "whatsapp"},
            step : {"done", "delete", "write", "store", "cache", "row", "send"},
            status : Read, drawn : {None} \cup Drawings]
JobType == [op : {"idle", "pdf"}, step : {"done", "items", "upload", "row", "chain", "notify"},
            status : Read, drawn : {None} \cup Drawings]
DocTypes ==
    /\ status \in {"DRAFT", "SENT"} /\ version \in Nat \ {0} /\ items \in SUBSET (1 .. version)
    /\ pdfUrl \in {"none", "bare", "signed", "dead", "public"} /\ cached \in BOOLEAN
    /\ doc \in {None} \cup Drawings /\ pdfJobs \in Nat /\ chained \in Nat
    /\ pdfReq \in [Request -> ReqType] /\ job \in [Worker -> JobType]

\* Who draws has read the row and knows what to draw; what was read as SENT
\* stays SENT.
DocShape ==
    /\ \A r \in Request :
         /\ pdfReq[r].step \in {"store", "cache", "row"} => pdfReq[r].drawn # None /\ pdfReq[r].status # None
         /\ pdfReq[r].step \in {"delete", "write"} => pdfReq[r].drawn = None
         /\ pdfReq[r].status = "SENT" => status = "SENT"
    /\ \A w \in Worker : job[w] = D!Idle \/ (job[w].status # None /\ job[w].drawn # None)

\* While no edit crossed a draw, whatever is being drawn is the invoice as it
\* stands, and the link in Redis is that of an issued invoice.
DrawnNow ==
    /\ \A r \in Request : pdfReq[r].drawn # None =>
         /\ items = {version} /\ pdfReq[r].drawn = D!Now
         /\ pdfReq[r].step \in {"cache", "row"} => doc = D!Now
    /\ \A w \in Worker : job[w].status # None =>
         /\ job[w].drawn.total = version
         /\ job[w].step # "items" => items = {version} /\ job[w].drawn = D!Now
    /\ cached => status = "SENT" /\ items = {version} /\ doc = D!Now

\* The one PDF job waits or is run by one worker; once it announced the invoice
\* the row has a link.
OneJob ==
    /\ \A w \in Worker : job[w] # D!Idle => pdfJobs = 0
    /\ \A v, w \in Worker : job[v] # D!Idle /\ job[w] # D!Idle => v = w
    /\ pdfJobs <= 1 /\ chained <= 1
    /\ \A w \in Worker : job[w].step \in {"chain", "notify"} => pdfUrl # "none"
    /\ chained = 1 => pdfUrl # "none" /\ \A w \in Worker : job[w].step \in {"done", "notify"}

DocIInv == DocTypes /\ DocShape /\ OneJob /\ (crossed \/ DrawnNow)

-----------------------------------------------------------------------------
(* Records *)

LEMMA IdleFields ==
    /\ D!Idle.op = "idle" /\ D!Idle.step = "done" /\ D!Idle.status = None /\ D!Idle.drawn = None
BY DEF D!Idle

\* A record of a request, and what a handler may make of it.
LEMMA ReqRecords ==
    ASSUME DocTypes, NEW r \in Request
    PROVE  /\ pdfReq[r] \in ReqType /\ D!Idle \in ReqType
           /\ D!Now \in Drawings /\ D!Now # None
           /\ \A s \in {"write", "cache", "row"} :
                /\ [pdfReq[r] EXCEPT !.step = s] \in ReqType
                /\ [pdfReq[r] EXCEPT !.step = s].step = s
                /\ [pdfReq[r] EXCEPT !.step = s].status = pdfReq[r].status
                /\ [pdfReq[r] EXCEPT !.step = s].drawn = pdfReq[r].drawn
           /\ [pdfReq[r] EXCEPT !.step = "send", !.drawn = None] \in ReqType
           /\ [pdfReq[r] EXCEPT !.step = "send", !.drawn = None].step = "send"
           /\ [pdfReq[r] EXCEPT !.step = "send", !.drawn = None].status = pdfReq[r].status
           /\ [pdfReq[r] EXCEPT !.step = "send", !.drawn = None].drawn = None
<1>1. pdfReq[r] \in ReqType
  BY DEF DocTypes
<1>2. D!Idle \in ReqType
  BY DEF D!Idle, ReqType, Read
<1>3. D!Now \in Drawings
  BY DEF D!Now, Drawings, DocTypes
<1>4. D!Now # None
  <2>1. D!Now \in [total : Nat, items : SUBSET Nat]
    BY DEF D!Now, DocTypes
  <2>2. QED
    BY <2>1, DocumentsFit
<1>5. ASSUME NEW s \in {"write", "cache", "row"}
      PROVE  /\ [pdfReq[r] EXCEPT !.step = s] \in ReqType
             /\ [pdfReq[r] EXCEPT !.step = s].step = s
             /\ [pdfReq[r] EXCEPT !.step = s].status = pdfReq[r].status
             /\ [pdfReq[r] EXCEPT !.step = s].drawn = pdfReq[r].drawn
  BY <1>1 DEF ReqType
<1>6. /\ [pdfReq[r] EXCEPT !.step = "send", !.drawn = None] \in ReqType
      /\ [pdfReq[r] EXCEPT !.step = "send", !.drawn = None].step = "send"
      /\ [pdfReq[r] EXCEPT !.step = "send", !.drawn = None].status = pdfReq[r].status
      /\ [pdfReq[r] EXCEPT !.step = "send", !.drawn = None].drawn = None
  BY <1>1 DEF ReqType
<1>7. QED
  BY <1>1, <1>2, <1>3, <1>4, <1>5, <1>6

\* The records requests start with.
DocReading(op, step) == [D!Idle EXCEPT !.op = op, !.step = step]
LEMMA StartRecords ==
    ASSUME DocTypes
    PROVE  /\ \A op \in {"edit", "send", "whatsapp"}, s \in {"delete", "write", "send"} :
                /\ DocReading(op, s) \in ReqType /\ DocReading(op, s).step = s
                /\ DocReading(op, s).status = None /\ DocReading(op, s).drawn = None
           /\ \A op \in {"download", "whatsapp"} :
                [op |-> op, step |-> "store", status |-> status, drawn |-> D!Now] \in ReqType
<1>1. D!Now \in Drawings /\ status \in Read
  BY DEF D!Now, Drawings, DocTypes, Read
<1>2. ASSUME NEW op \in {"edit", "send", "whatsapp"}, NEW s \in {"delete", "write", "send"}
      PROVE  /\ DocReading(op, s) \in ReqType /\ DocReading(op, s).step = s
             /\ DocReading(op, s).status = None /\ DocReading(op, s).drawn = None
  <2>1. D!Idle \in ReqType /\ D!Idle.status = None /\ D!Idle.drawn = None
    BY IdleFields DEF D!Idle, ReqType, Read
  <2>2. QED
    BY <2>1 DEF DocReading, ReqType
<1>3. ASSUME NEW op \in {"download", "whatsapp"}
      PROVE  [op |-> op, step |-> "store", status |-> status, drawn |-> D!Now] \in ReqType
  BY <1>1 DEF ReqType
<1>4. QED
  BY <1>2, <1>3

LEMMA JobRecords ==
    ASSUME DocTypes, NEW w \in Worker
    PROVE  /\ job[w] \in JobType /\ D!Idle \in JobType
           /\ \A s \in {"row", "chain", "notify"} :
                /\ [job[w] EXCEPT !.step = s] \in JobType
                /\ [job[w] EXCEPT !.step = s].step = s
                /\ [job[w] EXCEPT !.step = s].status = job[w].status
                /\ [job[w] EXCEPT !.step = s].drawn = job[w].drawn
<1>1. job[w] \in JobType
  BY DEF DocTypes
<1>2. D!Idle \in JobType
  BY DEF D!Idle, JobType, Read
<1>3. ASSUME NEW s \in {"row", "chain", "notify"}
      PROVE  /\ [job[w] EXCEPT !.step = s] \in JobType
             /\ [job[w] EXCEPT !.step = s].step = s
             /\ [job[w] EXCEPT !.step = s].status = job[w].status
             /\ [job[w] EXCEPT !.step = s].drawn = job[w].drawn
  BY <1>1 DEF JobType
<1>4. QED
  BY <1>1, <1>2, <1>3

-----------------------------------------------------------------------------
(* What the actions do to the record of their request or worker *)

\* The job's read, and its second read: the items of now for the total of then.
FirstRead == [op |-> "pdf", step |-> "items", status |-> status,
              drawn |-> [total |-> version, items |-> {}]]
WithItems(j) == [j EXCEPT !.drawn.items = items, !.step = "upload"]

LEMMA FirstReadFields ==
    ASSUME DocTypes
    PROVE  /\ FirstRead \in JobType /\ FirstRead # D!Idle
           /\ FirstRead.step = "items" /\ FirstRead.status = status /\ status # None
           /\ FirstRead.drawn # None /\ FirstRead.drawn.total = version
<1>1. [total |-> version, items |-> {}] \in Drawings \cap [total : Nat, items : SUBSET Nat]
  BY DEF Drawings, DocTypes
<1>2. status \in Read /\ status # None
  BY DocumentsFit DEF DocTypes, Read
<1>3. [total |-> version, items |-> {}] # None
  BY <1>1, DocumentsFit
<1>4. FirstRead \in JobType
  BY <1>1, <1>2 DEF FirstRead, JobType
<1>5. QED
  BY <1>2, <1>3, <1>4, IdleFields DEF FirstRead

LEMMA WithItemsFields ==
    ASSUME DocTypes, NEW w \in Worker, job[w].drawn # None
    PROVE  /\ WithItems(job[w]) \in JobType
           /\ WithItems(job[w]).step = "upload" /\ WithItems(job[w]).status = job[w].status
           /\ WithItems(job[w]).drawn = [total |-> job[w].drawn.total, items |-> items]
           /\ WithItems(job[w]).drawn # None
<1>1. job[w] \in JobType /\ job[w].drawn \in Drawings /\ items \in SUBSET (1 .. version)
  BY DEF DocTypes, JobType
<1>2. [job[w].drawn EXCEPT !.items = items] = [total |-> job[w].drawn.total, items |-> items]
  BY <1>1 DEF Drawings
<1>3. [total |-> job[w].drawn.total, items |-> items] \in Drawings \cap [total : Nat, items : SUBSET Nat]
  BY <1>1 DEF Drawings, DocTypes
<1>4. WithItems(job[w]) = [[job[w] EXCEPT !.drawn = [total |-> job[w].drawn.total, items |-> items]]
                              EXCEPT !.step = "upload"]
  BY <1>1, <1>2 DEF WithItems, JobType
<1>5. QED
  BY <1>1, <1>3, <1>4, DocumentsFit DEF JobType

\* A request's record after each action; nobody else's changes.
ReqBecomes(r, new) == pdfReq' = [pdfReq EXCEPT ![r] = new]
JobBecomes(w, new) == job' = [job EXCEPT ![w] = new]

LEMMA Becomes ==
    ASSUME DocTypes
    PROVE  /\ \A r \in Request : \A new : ReqBecomes(r, new) =>
                pdfReq'[r] = new /\ \A x \in Request : x # r => pdfReq'[x] = pdfReq[x]
           /\ \A w \in Worker : \A new : JobBecomes(w, new) =>
                job'[w] = new /\ \A x \in Worker : x # w => job'[x] = job[x]
BY DEF DocTypes, ReqBecomes, JobBecomes

LEMMA BecomesType ==
    ASSUME DocTypes
    PROVE  /\ \A r \in Request : \A new \in ReqType : ReqBecomes(r, new) => pdfReq' \in [Request -> ReqType]
           /\ \A w \in Worker : \A new \in JobType : JobBecomes(w, new) => job' \in [Worker -> JobType]
BY DEF DocTypes, ReqBecomes, JobBecomes

LEMMA ReqMovesOn ==
    ASSUME DocTypes, NEW r \in Request, NEW s \in {"write", "cache", "row"},
           ReqBecomes(r, [pdfReq[r] EXCEPT !.step = s])
    PROVE  /\ pdfReq'[r].step = s /\ pdfReq'[r].status = pdfReq[r].status /\ pdfReq'[r].drawn = pdfReq[r].drawn
           /\ \A x \in Request : x # r => pdfReq'[x] = pdfReq[x]
<1>1. pdfReq'[r] = [pdfReq[r] EXCEPT !.step = s] /\ \A x \in Request : x # r => pdfReq'[x] = pdfReq[x]
  BY Becomes
<1>2. LET new == [pdfReq[r] EXCEPT !.step = s]
      IN  new.step = s /\ new.status = pdfReq[r].status /\ new.drawn = pdfReq[r].drawn
  BY ReqRecords
<1>3. QED
  BY <1>1, <1>2

LEMMA JobMovesOn ==
    ASSUME DocTypes, NEW w \in Worker, NEW s \in {"row", "chain", "notify"},
           JobBecomes(w, [job[w] EXCEPT !.step = s])
    PROVE  /\ job'[w].step = s /\ job'[w].status = job[w].status /\ job'[w].drawn = job[w].drawn
           /\ \A x \in Worker : x # w => job'[x] = job[x]
<1>1. job'[w] = [job[w] EXCEPT !.step = s] /\ \A x \in Worker : x # w => job'[x] = job[x]
  BY Becomes
<1>2. QED
  BY <1>1, JobRecords

LEMMA RequestSteps ==
    ASSUME NEW r \in Request
    PROVE  /\ D!EditRead(r) => ReqBecomes(r, DocReading("edit", "delete"))
           /\ D!EditDelete(r) => ReqBecomes(r, [pdfReq[r] EXCEPT !.step = "write"])
           /\ D!EditWrite(r) => ReqBecomes(r, D!Idle)
           /\ D!SendRead(r) => ReqBecomes(r, DocReading("send", "write"))
           /\ D!SendWrite(r) => ReqBecomes(r, D!Idle)
           /\ D!Download(r) =>
                \/ ReqBecomes(r, D!Idle)
                \/ ReqBecomes(r, [op |-> "download", step |-> "store", status |-> status, drawn |-> D!Now])
           /\ D!Store(r) => \/ ReqBecomes(r, [pdfReq[r] EXCEPT !.step = "cache"])
                            \/ ReqBecomes(r, [pdfReq[r] EXCEPT !.step = "row"])
           /\ D!CacheLink(r) => ReqBecomes(r, [pdfReq[r] EXCEPT !.step = "row"])
           /\ D!WriteUrl(r) => \/ ReqBecomes(r, D!Idle)
                               \/ ReqBecomes(r, [pdfReq[r] EXCEPT !.step = "send", !.drawn = None])
           /\ D!WhatsApp(r) =>
                \/ ReqBecomes(r, DocReading("whatsapp", "send"))
                \/ ReqBecomes(r, [op |-> "whatsapp", step |-> "store", status |-> status, drawn |-> D!Now])
           /\ D!SendTemplate(r) => ReqBecomes(r, D!Idle)
<1>1. D!EditRead(r) => ReqBecomes(r, DocReading("edit", "delete"))
  BY DEF D!EditRead, D!Start, ReqBecomes, DocReading
<1>2. /\ D!EditDelete(r) => ReqBecomes(r, [pdfReq[r] EXCEPT !.step = "write"])
      /\ D!CacheLink(r) => ReqBecomes(r, [pdfReq[r] EXCEPT !.step = "row"])
  BY DEF D!EditDelete, D!CacheLink, D!Go, ReqBecomes
<1>3. /\ D!EditWrite(r) => ReqBecomes(r, D!Idle)
      /\ D!SendWrite(r) => ReqBecomes(r, D!Idle)
      /\ D!SendTemplate(r) => ReqBecomes(r, D!Idle)
  BY DEF D!EditWrite, D!SendWrite, D!SendTemplate, D!Finish, ReqBecomes
<1>4. D!SendRead(r) => ReqBecomes(r, DocReading("send", "write"))
  BY DEF D!SendRead, D!Start, ReqBecomes, DocReading
<1>5. D!Download(r) =>
        \/ ReqBecomes(r, D!Idle)
        \/ ReqBecomes(r, [op |-> "download", step |-> "store", status |-> status, drawn |-> D!Now])
  BY DEF D!Download, D!Start, ReqBecomes
<1>6. D!Store(r) => \/ ReqBecomes(r, [pdfReq[r] EXCEPT !.step = "cache"])
                    \/ ReqBecomes(r, [pdfReq[r] EXCEPT !.step = "row"])
  BY DEF D!Store, D!Go, ReqBecomes
<1>7. D!WriteUrl(r) => \/ ReqBecomes(r, D!Idle)
                       \/ ReqBecomes(r, [pdfReq[r] EXCEPT !.step = "send", !.drawn = None])
  BY DEF D!WriteUrl, D!Finish, ReqBecomes
<1>8. D!WhatsApp(r) =>
        \/ ReqBecomes(r, DocReading("whatsapp", "send"))
        \/ ReqBecomes(r, [op |-> "whatsapp", step |-> "store", status |-> status, drawn |-> D!Now])
  BY DEF D!WhatsApp, D!Start, ReqBecomes, DocReading
<1>9. QED
  BY <1>1, <1>2, <1>3, <1>4, <1>5, <1>6, <1>7, <1>8

LEMMA JobSteps ==
    ASSUME NEW w \in Worker
    PROVE  /\ D!JobRead(w) => job' = job \/ JobBecomes(w, FirstRead)
           /\ D!JobItems(w) => JobBecomes(w, WithItems(job[w]))
           /\ D!JobUpload(w) => JobBecomes(w, [job[w] EXCEPT !.step = "row"])
           /\ D!JobRow(w) => JobBecomes(w, [job[w] EXCEPT !.step = "chain"])
           /\ D!JobChain(w) => JobBecomes(w, [job[w] EXCEPT !.step = "notify"])
           /\ D!JobDone(w) => JobBecomes(w, D!Idle)
           /\ D!JobFails(w) => JobBecomes(w, D!Idle)
<1>1. D!JobRead(w) => job' = job \/ JobBecomes(w, FirstRead)
  BY DEF D!JobRead, JobBecomes, FirstRead
<1>2. D!JobItems(w) => JobBecomes(w, WithItems(job[w]))
  BY DEF D!JobItems, JobBecomes, WithItems
<1>3. /\ D!JobUpload(w) => JobBecomes(w, [job[w] EXCEPT !.step = "row"])
      /\ D!JobRow(w) => JobBecomes(w, [job[w] EXCEPT !.step = "chain"])
      /\ D!JobChain(w) => JobBecomes(w, [job[w] EXCEPT !.step = "notify"])
  BY DEF D!JobUpload, D!JobRow, D!JobChain, JobBecomes
<1>4. (D!JobDone(w) => JobBecomes(w, D!Idle)) /\ (D!JobFails(w) => JobBecomes(w, D!Idle))
  BY DEF D!JobDone, D!JobFails, JobBecomes
<1>5. QED
  BY <1>1, <1>2, <1>3, <1>4

-----------------------------------------------------------------------------
(* Types *)

\* The actions of a request but EditWrite, and those of a worker.
Ask(r) == \/ D!EditRead(r) \/ D!EditDelete(r) \/ D!SendRead(r) \/ D!SendWrite(r)
          \/ D!Download(r) \/ D!Store(r) \/ D!CacheLink(r) \/ D!WriteUrl(r) \/ D!WhatsApp(r) \/ D!SendTemplate(r)
Work(w) == \/ D!JobRead(w) \/ D!JobItems(w) \/ D!JobUpload(w) \/ D!JobRow(w) \/ D!JobChain(w)
           \/ D!JobDone(w) \/ D!JobFails(w)
LEMMA DocNextCases ==
    ASSUME D!Next
    PROVE  \/ \E r \in Request : Ask(r) \/ D!EditWrite(r)
           \/ \E w \in Worker : Work(w)
           \/ D!LinkExpires
BY DEF D!Next, Ask, Work

LEMMA SameVersion ==
    ASSUME version' = version
    PROVE  Drawings' = Drawings /\ ReqType' = ReqType /\ JobType' = JobType
BY DEF Drawings, ReqType, JobType, Read

LEMMA AskTypes ==
    ASSUME DocTypes, DocShape, NEW r \in Request, Ask(r)
    PROVE  DocTypes'
<1>1. pdfReq' \in [Request -> ReqType]
  <2>1. \E new \in ReqType : ReqBecomes(r, new)
    BY RequestSteps, ReqRecords, StartRecords DEF Ask
  <2>2. QED
    BY <2>1, BecomesType
<1>2. version' = version /\ UNCHANGED D!jobVars
  BY DEF Ask, D!EditRead, D!EditDelete, D!SendRead, D!SendWrite, D!Download, D!Store, D!CacheLink, D!WriteUrl,
         D!WhatsApp, D!SendTemplate, D!rowVars
<1>3. status' \in {"DRAFT", "SENT"} /\ items' \in SUBSET (1 .. version)
  BY DEF Ask, D!EditRead, D!EditDelete, D!SendRead, D!SendWrite, D!Download, D!Store, D!CacheLink, D!WriteUrl,
         D!WhatsApp, D!SendTemplate, D!rowVars, DocTypes
<1>4. pdfUrl' \in {"none", "bare", "signed", "dead", "public"} /\ cached' \in BOOLEAN
  BY DEF Ask, D!EditRead, D!EditDelete, D!SendRead, D!SendWrite, D!Download, D!Store, D!CacheLink, D!WriteUrl,
         D!WhatsApp, D!SendTemplate, D!rowVars, DocTypes
<1>5. doc' \in {None} \cup Drawings
  <2>1. pdfReq[r].drawn \in {None} \cup Drawings
    BY DEF DocTypes, ReqType
  <2>2. QED
    BY <2>1 DEF Ask, D!EditRead, D!EditDelete, D!SendRead, D!SendWrite, D!Download, D!Store, D!CacheLink, D!WriteUrl,
         D!WhatsApp, D!SendTemplate, D!rowVars, DocTypes
<1>6. QED
  BY <1>1, <1>2, <1>3, <1>4, <1>5, SameVersion DEF DocTypes, D!jobVars

LEMMA EditWriteTypes ==
    ASSUME DocTypes, NEW r \in Request, D!EditWrite(r)
    PROVE  DocTypes'
<1>1. /\ version' = version + 1 /\ items' = items \cup {version + 1}
      /\ UNCHANGED <<status, pdfUrl, doc, cached, D!jobVars, pdfStarted>>
  BY DEF D!EditWrite
<1>2. version' \in Nat \ {0} /\ 1 .. version \subseteq 1 .. version' /\ version + 1 \in 1 .. version'
  BY <1>1 DEF DocTypes
<1>3. Drawings \subseteq Drawings'
  BY <1>2 DEF Drawings
<1>4. ReqType \subseteq ReqType' /\ JobType \subseteq JobType'
  BY <1>3 DEF ReqType, JobType, Read
<1>5. pdfReq' \in [Request -> ReqType']
  BY <1>4, RequestSteps, BecomesType, ReqRecords
<1>6. job' \in [Worker -> JobType']
  BY <1>1, <1>4 DEF D!jobVars, DocTypes
<1>7. items' \in SUBSET (1 .. version')
  BY <1>1, <1>2 DEF DocTypes
<1>8. QED
  BY <1>1, <1>2, <1>3, <1>5, <1>6, <1>7 DEF DocTypes, D!jobVars

LEMMA WorkTypes ==
    ASSUME DocTypes, DocShape, OneJob, NEW w \in Worker, Work(w)
    PROVE  DocTypes'
<1>1. job' \in [Worker -> JobType]
  <2>1. job' = job \/ \E new \in JobType : JobBecomes(w, new)
    <3>1. D!JobItems(w) => job[w].drawn # None
      BY IdleFields DEF D!JobItems, DocShape
    <3>2. QED
      BY <3>1, JobSteps, JobRecords, FirstReadFields, WithItemsFields DEF Work
  <2>2. QED
    BY <2>1, BecomesType DEF DocTypes
<1>2. UNCHANGED <<status, version, items, cached, pdfReq>>
  BY DEF Work, D!JobRead, D!JobItems, D!JobUpload, D!JobRow, D!JobChain, D!JobDone, D!JobFails, D!rowVars
<1>3. doc' \in {None} \cup Drawings
  <2>1. job[w].drawn \in {None} \cup Drawings
    BY DEF DocTypes, JobType
  <2>2. QED
    BY <2>1 DEF Work, D!JobRead, D!JobItems, D!JobUpload, D!JobRow, D!JobChain, D!JobDone, D!JobFails, DocTypes
<1>4. pdfUrl' \in {"none", "bare", "signed", "dead", "public"}
  BY DEF Work, D!JobRead, D!JobItems, D!JobUpload, D!JobRow, D!JobChain, D!JobDone, D!JobFails, D!rowVars, DocTypes
<1>5. pdfJobs' \in Nat /\ chained' \in Nat
  BY DEF Work, D!JobRead, D!JobItems, D!JobUpload, D!JobRow, D!JobChain, D!JobDone, D!JobFails, DocTypes
<1>6. QED
  BY <1>1, <1>2, <1>3, <1>4, <1>5, SameVersion DEF DocTypes

LEMMA DocTypesStep == ASSUME DocTypes, DocShape, OneJob, [D!Next]_(D!vars) PROVE DocTypes'
<1>1. CASE D!LinkExpires
  BY <1>1, SameVersion DEF D!LinkExpires, DocTypes, D!jobVars
<1>2. CASE UNCHANGED D!vars
  BY <1>2, SameVersion DEF D!vars, D!rowVars, DocTypes
<1>3. QED
  BY <1>1, <1>2, AskTypes, EditWriteTypes, WorkTypes, DocNextCases

-----------------------------------------------------------------------------
(* Shape *)

LEMMA DocShapeStep == ASSUME DocTypes, DocShape, [D!Next]_(D!vars) PROVE DocShape'
<1> DEFINE ReqShape(r) ==
             /\ pdfReq[r].step \in {"store", "cache", "row"} => pdfReq[r].drawn # None /\ pdfReq[r].status # None
             /\ pdfReq[r].step \in {"delete", "write"} => pdfReq[r].drawn = None
             /\ pdfReq[r].status = "SENT" => status = "SENT"
           JobShape(w) == job[w] = D!Idle \/ (job[w].status # None /\ job[w].drawn # None)
<1>0. status = "SENT" => status' = "SENT"
  BY DEF D!Next, D!EditRead, D!EditDelete, D!EditWrite, D!SendRead, D!SendWrite, D!Download, D!Store, D!CacheLink, D!WriteUrl,
         D!WhatsApp, D!SendTemplate, D!JobRead, D!JobItems, D!JobUpload, D!JobRow, D!JobChain, D!JobDone, D!JobFails,
         D!LinkExpires, D!rowVars, D!vars
<1>1. ASSUME NEW r \in Request, Ask(r) \/ D!EditWrite(r) PROVE DocShape'
  <2>1. job' = job
    BY <1>1 DEF Ask, D!EditRead, D!EditDelete, D!EditWrite, D!SendRead, D!SendWrite, D!Download, D!Store, D!CacheLink, D!WriteUrl,
         D!WhatsApp, D!SendTemplate, D!jobVars
  <2>2. /\ status # None /\ D!Idle.status # "SENT" /\ None # "SENT"
        /\ D!Idle.step = "done" /\ D!Idle.drawn = None
    BY IdleFields, DocumentsFit DEF DocTypes
  <2>3. PICK new \in ReqType :
          /\ ReqBecomes(r, new)
          /\ new.step \in {"store", "cache", "row"} => new.drawn # None /\ new.status # None
          /\ new.step \in {"delete", "write"} => new.drawn = None
          /\ new.status = "SENT" => status = "SENT"
    <3>1. ASSUME D!EditRead(r) \/ D!SendRead(r)
          PROVE  \E new \in {DocReading("edit", "delete"), DocReading("send", "write")} : ReqBecomes(r, new)
      BY <3>1, RequestSteps
    <3>2. ASSUME D!EditDelete(r)
          PROVE  pdfReq[r].drawn = None /\ ReqBecomes(r, [pdfReq[r] EXCEPT !.step = "write"])
      BY <3>2, RequestSteps DEF D!EditDelete, D!In, DocShape
    <3>3. ASSUME D!Store(r) \/ D!CacheLink(r)
          PROVE  /\ pdfReq[r].step \in {"store", "cache"}
                 /\ \E s \in {"cache", "row"} : ReqBecomes(r, [pdfReq[r] EXCEPT !.step = s])
      BY <3>3, RequestSteps DEF D!Store, D!CacheLink, D!In
    <3>4. CASE D!EditRead(r) \/ D!SendRead(r)
      BY <2>2, <3>1, <3>4, StartRecords
    <3>5. CASE D!EditDelete(r)
      BY <3>2, <3>5, ReqRecords DEF DocShape
    <3>6. CASE D!Store(r) \/ D!CacheLink(r)
      <4>1. /\ pdfReq[r].drawn # None /\ pdfReq[r].status # None
            /\ pdfReq[r].status = "SENT" => status = "SENT"
        BY <3>3, <3>6 DEF DocShape
      <4>2. PICK s \in {"cache", "row"} : ReqBecomes(r, [pdfReq[r] EXCEPT !.step = s])
        BY <3>3, <3>6
      <4>3. /\ [pdfReq[r] EXCEPT !.step = s] \in ReqType /\ [pdfReq[r] EXCEPT !.step = s].step = s
            /\ [pdfReq[r] EXCEPT !.step = s].status = pdfReq[r].status
            /\ [pdfReq[r] EXCEPT !.step = s].drawn = pdfReq[r].drawn
        BY ReqRecords
      <4>4. QED
        BY <4>1, <4>2, <4>3
    <3>7. CASE D!EditWrite(r) \/ D!SendWrite(r) \/ D!SendTemplate(r)
      BY <2>2, <3>7, RequestSteps, ReqRecords
    <3>8. CASE D!Download(r) \/ D!WhatsApp(r)
      <4> DEFINE drawing(op) == [op |-> op, step |-> "store", status |-> status, drawn |-> D!Now]
      <4>1. \/ ReqBecomes(r, D!Idle) \/ ReqBecomes(r, DocReading("whatsapp", "send"))
            \/ \E op \in {"download", "whatsapp"} : ReqBecomes(r, drawing(op))
        BY <3>8, RequestSteps
      <4>2. \A op \in {"download", "whatsapp"} :
              /\ drawing(op) \in ReqType /\ drawing(op).step = "store"
              /\ drawing(op).status = status /\ drawing(op).drawn = D!Now /\ D!Now # None
        BY StartRecords, ReqRecords
      <4> HIDE DEF drawing
      <4>3. QED
        <5>1. CASE ReqBecomes(r, D!Idle)
          BY <2>2, <5>1, ReqRecords
        <5>2. CASE ReqBecomes(r, DocReading("whatsapp", "send"))
          BY <2>2, <5>2, StartRecords
        <5>3. CASE \E op \in {"download", "whatsapp"} : ReqBecomes(r, drawing(op))
          BY <2>2, <4>2, <5>3
        <5>4. QED
          BY <4>1, <5>1, <5>2, <5>3
    <3>9. CASE D!WriteUrl(r)
      BY <2>2, <3>9, RequestSteps, ReqRecords DEF DocShape
    <3>10. QED
      BY <1>1, <3>4, <3>5, <3>6, <3>7, <3>8, <3>9 DEF Ask
  <2>4. pdfReq'[r] = new /\ \A x \in Request : x # r => pdfReq'[x] = pdfReq[x]
    BY <2>3, Becomes
  <2>5. \A x \in Request : ReqShape(x)'
    BY <1>0, <2>3, <2>4 DEF DocShape
  <2>6. QED
    BY <2>1, <2>5 DEF DocShape
<1>2. ASSUME NEW w \in Worker, Work(w) PROVE DocShape'
  <2>1. pdfReq' = pdfReq /\ status' = status
    BY <1>2 DEF Work, D!JobRead, D!JobItems, D!JobUpload, D!JobRow, D!JobChain, D!JobDone, D!JobFails, D!rowVars
  <2>2. \/ job' = job
        \/ \E new : /\ JobBecomes(w, new)
                    /\ new = D!Idle \/ (new.status # None /\ new.drawn # None)
    <3>1. D!JobItems(w) \/ D!JobUpload(w) \/ D!JobRow(w) \/ D!JobChain(w) =>
              job[w].status # None /\ job[w].drawn # None
      BY IdleFields DEF D!JobItems, D!JobUpload, D!JobRow, D!JobChain, DocShape
    <3>2. CASE D!JobRead(w)
      BY <3>2, JobSteps, FirstReadFields
    <3>3. CASE D!JobItems(w)
      BY <3>1, <3>3, JobSteps, WithItemsFields
    <3>4. CASE D!JobUpload(w) \/ D!JobRow(w) \/ D!JobChain(w)
      <4>1. \E s \in {"row", "chain", "notify"} : JobBecomes(w, [job[w] EXCEPT !.step = s])
        BY <3>4, JobSteps
      <4>2. QED
        BY <3>1, <3>4, <4>1, JobRecords
    <3>5. CASE D!JobDone(w) \/ D!JobFails(w)
      BY <3>5, JobSteps
    <3>6. QED
      BY <1>2, <3>2, <3>3, <3>4, <3>5 DEF Work
  <2>3. \A x \in Worker : JobShape(x)'
    BY <2>2, Becomes DEF DocShape, D!Idle
  <2>4. QED
    BY <2>1, <2>3 DEF DocShape, D!Idle
<1>3. CASE D!LinkExpires \/ UNCHANGED D!vars
  BY <1>3 DEF D!LinkExpires, DocShape, D!vars, D!rowVars, D!jobVars, D!Idle
<1>4. QED
  BY <1>1, <1>2, <1>3, DocNextCases

-----------------------------------------------------------------------------
(* One announcement *)

LEMMA OneJobStep == ASSUME DocTypes, DocShape, OneJob, [D!Next]_(D!vars) PROVE OneJob'
<1>1. ASSUME NEW r \in Request, Ask(r) \/ D!EditWrite(r) PROVE OneJob'
  <2>1. UNCHANGED D!jobVars
    BY <1>1 DEF Ask, D!EditRead, D!EditDelete, D!EditWrite, D!SendRead, D!SendWrite, D!Download, D!Store, D!CacheLink,
         D!WriteUrl, D!WhatsApp, D!SendTemplate
  <2>2. pdfUrl # "none" => pdfUrl' # "none"
    BY <1>1 DEF Ask, D!EditRead, D!EditDelete, D!EditWrite, D!SendRead, D!SendWrite, D!Download, D!Store, D!CacheLink,
         D!WriteUrl, D!WhatsApp, D!SendTemplate, D!rowVars
  <2>3. QED
    BY <2>1, <2>2 DEF OneJob, D!jobVars, D!Idle
<1>2. CASE D!LinkExpires \/ UNCHANGED D!vars
  BY <1>2 DEF D!LinkExpires, OneJob, D!jobVars, D!Idle, D!vars, D!rowVars
<1>3. ASSUME NEW w \in Worker, Work(w) PROVE OneJob'
  <2>0. D!Idle' = D!Idle /\ D!Idle.step = "done" /\ (pdfUrl # "none" => pdfUrl' # "none")
    BY <1>3, IdleFields DEF D!Idle, Work, D!JobRead, D!JobItems, D!JobUpload, D!JobRow, D!JobChain, D!JobDone, D!JobFails,
         D!rowVars
  <2>1. CASE D!JobRead(w)
    <3>1. /\ pdfJobs > 0 /\ pdfJobs' = pdfJobs - 1 /\ chained' = chained /\ pdfUrl' = pdfUrl
          /\ \A x \in Worker : job[x] = D!Idle
      BY <2>1 DEF D!JobRead, OneJob, DocTypes, D!rowVars
    <3>2. \A x \in Worker : x # w => job'[x] = D!Idle
      BY <2>1, <3>1, JobSteps, Becomes
    <3>3. pdfJobs' = 0
      BY <3>1 DEF OneJob, DocTypes
    <3>4. CASE pdfUrl # "none"
      <4>1. job' = job
        BY <2>1, <3>4 DEF D!JobRead
      <4>2. QED
        BY <2>0, <3>1, <3>3, <4>1 DEF OneJob
    <3>5. CASE pdfUrl = "none"
      <4>1. chained = 0 \/ chained # 1
        BY <3>5 DEF OneJob
      <4>2. job'[w] = D!Idle \/ job'[w] = FirstRead
        BY <2>1, <3>1, JobSteps, Becomes
      <4>3. job'[w].step \in {"done", "items"}
        BY <2>0, <4>2, FirstReadFields
      <4>4. chained' # 1 /\ chained' <= 1
        BY <3>1, <3>5 DEF OneJob
      <4>5. \A x \in Worker : job'[x].step \notin {"chain", "notify"}
        BY <2>0, <3>2, <4>3
      <4>6. QED
        BY <2>0, <3>2, <3>3, <4>4, <4>5 DEF OneJob
    <3>6. QED
      BY <3>4, <3>5
  <2>2. ASSUME NEW new, JobBecomes(w, new), job[w] # D!Idle, pdfJobs' = pdfJobs,
               chained' = chained, new.step \in {"upload", "row", "chain", "done"},
               job[w].step \in {"items", "upload", "row"} \/ new.step = "done",
               new.step = "chain" => pdfUrl' # "none"
        PROVE  OneJob'
    <3>1. job'[w] = new /\ \A x \in Worker : x # w => job'[x] = job[x] /\ job[x] = D!Idle
      BY <2>2, Becomes DEF OneJob
    <3>2. pdfJobs = 0
      BY <2>2 DEF OneJob
    <3>3. chained = 1 => new.step = "done"
      BY <2>2 DEF OneJob
    <3>4. \A x \in Worker : job'[x].step \in {"chain", "notify"} => x = w /\ new.step = "chain"
      BY <2>0, <2>2, <3>1
    <3>5. chained' = 1 => pdfUrl' # "none" /\ \A x \in Worker : job'[x].step \in {"done", "notify"}
      BY <2>0, <2>2, <3>1, <3>3 DEF OneJob
    <3>6. QED
      BY <2>0, <2>2, <3>1, <3>2, <3>4, <3>5 DEF OneJob
  <2>3. CASE D!JobItems(w) \/ D!JobUpload(w) \/ D!JobRow(w) \/ D!JobDone(w)
    <3>1. /\ job[w] # D!Idle /\ pdfJobs' = pdfJobs /\ chained' = chained
          /\ D!JobRow(w) => pdfUrl' # "none"
          /\ D!JobDone(w) \/ job[w].step \in {"items", "upload", "row"}
      BY <2>3, IdleFields DEF D!JobItems, D!JobUpload, D!JobRow, D!JobDone
    <3>2. CASE D!JobItems(w)
      <4>1. job[w].drawn # None
        BY <3>1 DEF DocShape
      <4>2. JobBecomes(w, WithItems(job[w])) /\ WithItems(job[w]).step = "upload"
        BY <3>2, <4>1, JobSteps, WithItemsFields
      <4>3. job[w].step = "items"
        BY <3>2 DEF D!JobItems
      <4>4. QED
        BY <2>2, <3>1, <4>2, <4>3
    <3>3. CASE D!JobUpload(w)
      <4>1. JobBecomes(w, [job[w] EXCEPT !.step = "row"]) /\ [job[w] EXCEPT !.step = "row"].step = "row"
            /\ job[w].step = "upload"
        BY <3>3, JobSteps, JobRecords DEF D!JobUpload
      <4>2. QED
        BY <2>2, <3>1, <4>1
    <3>4. CASE D!JobRow(w)
      <4>1. JobBecomes(w, [job[w] EXCEPT !.step = "chain"]) /\ [job[w] EXCEPT !.step = "chain"].step = "chain"
            /\ job[w].step = "row"
        BY <3>4, JobSteps, JobRecords DEF D!JobRow
      <4>2. QED
        BY <2>2, <3>1, <3>4, <4>1
    <3>5. CASE D!JobDone(w)
      BY <2>0, <2>2, <3>1, <3>5, JobSteps
    <3>6. QED
      BY <2>3, <3>2, <3>3, <3>4, <3>5
  <2>4. CASE D!JobChain(w)
    <3>1. /\ job[w].step = "chain" /\ job[w] # D!Idle /\ pdfJobs' = pdfJobs /\ pdfUrl' = pdfUrl
          /\ chained' = IF job[w].status = "SENT" THEN chained + 1 ELSE chained
      BY <2>4, IdleFields DEF D!JobChain, D!rowVars
    <3>2. chained # 1 /\ pdfUrl # "none" /\ pdfJobs = 0
      BY <3>1 DEF OneJob
    <3>3. /\ job'[w].step = "notify"
          /\ \A x \in Worker : x # w => job'[x] = job[x] /\ job[x] = D!Idle
      <4>1. JobBecomes(w, [job[w] EXCEPT !.step = "notify"])
        BY <2>4, JobSteps
      <4>2. \A x \in Worker : x # w => job[x] = D!Idle
        BY <3>1 DEF OneJob
      <4>3. QED
        BY <4>1, <4>2, JobMovesOn
    <3>4. chained' <= 1
      BY <3>1, <3>2 DEF OneJob, DocTypes
    <3>5. \A x \in Worker : job'[x].step \in {"done", "notify"}
      BY <2>0, <3>3
    <3>6. QED
      BY <2>0, <3>1, <3>2, <3>3, <3>4, <3>5 DEF OneJob
  <2>5. CASE D!JobFails(w)
    <3>1. /\ job[w] # D!Idle /\ pdfJobs' = pdfJobs + 1 /\ pdfUrl' = pdfUrl /\ chained' = chained
      BY <2>5 DEF D!JobFails, D!rowVars
    <3>2. pdfJobs = 0 /\ \A x \in Worker : job'[x] = D!Idle
      <4>1. job'[w] = D!Idle /\ \A x \in Worker : x # w => job'[x] = job[x]
        BY <2>5, JobSteps, Becomes
      <4>2. pdfJobs = 0 /\ \A x \in Worker : x # w => job[x] = D!Idle
        BY <3>1 DEF OneJob
      <4>3. QED
        BY <4>1, <4>2
    <3>3. QED
      BY <2>0, <3>1, <3>2 DEF OneJob
  <2>6. QED
    BY <1>3, <2>1, <2>3, <2>4, <2>5 DEF Work
<1>4. QED
  BY <1>1, <1>2, <1>3, DocNextCases

-----------------------------------------------------------------------------
(* The link *)

LEMMA Drawn ==
    ASSUME DocTypes, ~D!Drawing
    PROVE  /\ \A r \in Request : pdfReq[r].drawn = None
           /\ \A w \in Worker : job[w].status = None
BY DEF D!Drawing

LEMMA DrawnNowStep ==
    ASSUME DocTypes, DocShape, DrawnNow, [D!Next]_(D!vars), ~crossed'
    PROVE  DrawnNow'
<1> DEFINE ReqNow(r) == pdfReq[r].drawn # None =>
             /\ items = {version} /\ pdfReq[r].drawn = D!Now
             /\ pdfReq[r].step \in {"cache", "row"} => doc = D!Now
           JobNow(w) == job[w].status # None =>
             /\ job[w].drawn.total = version
             /\ job[w].step # "items" => items = {version} /\ job[w].drawn = D!Now
           LinkNow == cached => status = "SENT" /\ items = {version} /\ doc = D!Now
<1>1. ASSUME NEW r \in Request, D!EditRead(r) \/ D!SendRead(r) \/ D!SendTemplate(r) PROVE DrawnNow'
  <2>1. UNCHANGED <<status, version, items, doc, cached, job>>
    BY <1>1 DEF D!EditRead, D!SendRead, D!SendTemplate, D!rowVars, D!jobVars
  <2>2. pdfReq'[r].drawn = None /\ \A x \in Request : x # r => pdfReq'[x] = pdfReq[x]
    BY <1>1, RequestSteps, Becomes, StartRecords, IdleFields
  <2>3. QED
    BY <2>1, <2>2 DEF DrawnNow, D!Now
<1>2. ASSUME NEW r \in Request, D!EditDelete(r) \/ D!EditWrite(r) PROVE DrawnNow'
  <2>1. ~D!Drawing /\ status # "SENT" /\ UNCHANGED <<status, doc, cached, job>>
    BY <1>2 DEF D!EditDelete, D!EditWrite, D!jobVars, DocTypes
  <2>2. ~cached'
    BY <2>1 DEF DrawnNow, DocTypes
  <2>3. pdfReq'[r].drawn = None /\ \A x \in Request : x # r => pdfReq'[x] = pdfReq[x]
    <3>1. CASE D!EditWrite(r)
      BY <3>1, RequestSteps, Becomes, IdleFields
    <3>2. CASE D!EditDelete(r)
      <4>1. ReqBecomes(r, [pdfReq[r] EXCEPT !.step = "write"])
        BY <3>2, RequestSteps
      <4>2. QED
        BY <2>1, <4>1, Drawn, ReqMovesOn
    <3>3. QED
      BY <1>2, <3>1, <3>2
  <2>4. QED
    BY <2>1, <2>2, <2>3, Drawn DEF DrawnNow
<1>3. ASSUME NEW r \in Request, D!SendWrite(r) PROVE DrawnNow'
  <2>1. UNCHANGED <<version, items, doc, cached, job>> /\ status' = "SENT"
    BY <1>3 DEF D!SendWrite, D!jobVars
  <2>2. pdfReq'[r].drawn = None /\ \A x \in Request : x # r => pdfReq'[x] = pdfReq[x]
    BY <1>3, RequestSteps, Becomes, IdleFields
  <2>3. QED
    BY <2>1, <2>2 DEF DrawnNow, D!Now
<1>4. ASSUME NEW r \in Request, D!Download(r) \/ D!WhatsApp(r) PROVE DrawnNow'
  <2>1. UNCHANGED <<status, version, items, doc, cached, job>> /\ items = {version}
    BY <1>4 DEF D!Download, D!WhatsApp, D!rowVars, D!jobVars
  <2>2. /\ pdfReq'[r].drawn = None \/ (pdfReq'[r].drawn = D!Now /\ pdfReq'[r].step = "store")
        /\ \A x \in Request : x # r => pdfReq'[x] = pdfReq[x]
    <3>1. \/ ReqBecomes(r, D!Idle) \/ ReqBecomes(r, DocReading("whatsapp", "send"))
          \/ \E op \in {"download", "whatsapp"} :
               ReqBecomes(r, [op |-> op, step |-> "store", status |-> status, drawn |-> D!Now])
      BY <1>4, RequestSteps
    <3>2. QED
      BY <3>1, Becomes, StartRecords, IdleFields
  <2>3. QED
    BY <2>1, <2>2 DEF DrawnNow, D!Now
<1>5. ASSUME NEW r \in Request, D!Store(r) PROVE DrawnNow'
  <2>1. /\ UNCHANGED <<status, version, items, cached, job>> /\ doc' = pdfReq[r].drawn
        /\ pdfReq[r].drawn # None
    BY <1>5 DEF D!Store, D!rowVars, D!jobVars, DocShape
  <2>2. items = {version} /\ doc' = D!Now
    BY <2>1 DEF DrawnNow
  <2>3. pdfReq'[r].drawn = pdfReq[r].drawn /\ \A x \in Request : x # r => pdfReq'[x] = pdfReq[x]
    <3>1. \/ ReqBecomes(r, [pdfReq[r] EXCEPT !.step = "cache"])
          \/ ReqBecomes(r, [pdfReq[r] EXCEPT !.step = "row"])
      BY <1>5, RequestSteps
    <3>2. QED
      BY <3>1, ReqMovesOn
  <2>4. QED
    BY <2>1, <2>2, <2>3 DEF DrawnNow, D!Now
<1>6. ASSUME NEW r \in Request, D!CacheLink(r) PROVE DrawnNow'
  <2>1. /\ UNCHANGED <<status, version, items, doc, job>> /\ pdfReq[r].step = "cache"
        /\ cached' = (cached \/ pdfReq[r].status # "DRAFT")
    BY <1>6 DEF D!CacheLink, D!In, D!rowVars, D!jobVars
  <2>2. pdfReq[r].drawn # None /\ pdfReq[r].status # None
    BY <2>1 DEF DocShape
  <2>3. items = {version} /\ doc = D!Now /\ pdfReq[r].drawn = D!Now
    BY <2>1, <2>2 DEF DrawnNow
  <2>4. pdfReq[r].status # "DRAFT" => status = "SENT"
    BY <2>2 DEF DocShape, DocTypes, ReqType, Read
  <2>5. pdfReq'[r].drawn = pdfReq[r].drawn /\ \A x \in Request : x # r => pdfReq'[x] = pdfReq[x]
    <3>1. ReqBecomes(r, [pdfReq[r] EXCEPT !.step = "row"])
      BY <1>6, RequestSteps
    <3>2. QED
      BY <3>1, ReqMovesOn
  <2>6. QED
    BY <2>1, <2>3, <2>4, <2>5 DEF DrawnNow, D!Now
<1>7. ASSUME NEW r \in Request, D!WriteUrl(r) PROVE DrawnNow'
  <2>1. UNCHANGED <<status, version, items, doc, cached, job>>
    BY <1>7 DEF D!WriteUrl, D!jobVars
  <2>2. pdfReq'[r].drawn = None /\ \A x \in Request : x # r => pdfReq'[x] = pdfReq[x]
    <3>1. \/ ReqBecomes(r, D!Idle)
          \/ ReqBecomes(r, [pdfReq[r] EXCEPT !.step = "send", !.drawn = None])
      BY <1>7, RequestSteps
    <3>2. CASE ReqBecomes(r, D!Idle)
      BY <3>2, Becomes, IdleFields
    <3>3. CASE ReqBecomes(r, [pdfReq[r] EXCEPT !.step = "send", !.drawn = None])
      <4>1. /\ pdfReq'[r] = [pdfReq[r] EXCEPT !.step = "send", !.drawn = None]
            /\ \A x \in Request : x # r => pdfReq'[x] = pdfReq[x]
        BY <3>3, Becomes
      <4>2. QED
        BY <4>1, ReqRecords
    <3>4. QED
      BY <3>1, <3>2, <3>3
  <2>3. QED
    BY <2>1, <2>2 DEF DrawnNow, D!Now
<1>8. ASSUME NEW w \in Worker, D!JobRead(w) PROVE DrawnNow'
  <2>1. UNCHANGED <<status, version, items, doc, cached, pdfReq>>
    BY <1>8 DEF D!JobRead, D!rowVars
  <2>2. CASE job' = job
    BY <2>1, <2>2 DEF DrawnNow, D!Now
  <2>3. CASE JobBecomes(w, FirstRead)
    BY <2>1, <2>3, Becomes, FirstReadFields DEF DrawnNow, D!Now
  <2>4. QED
    BY <1>8, <2>2, <2>3, JobSteps
<1>9. ASSUME NEW w \in Worker, D!JobItems(w) PROVE DrawnNow'
  <2>1. UNCHANGED <<status, version, items, doc, cached, pdfReq>> /\ items = {job[w].drawn.total}
    BY <1>9 DEF D!JobItems, D!rowVars
  <2>2. job[w].status # None /\ job[w].drawn # None
    BY <1>9, IdleFields DEF D!JobItems, DocShape
  <2>3. job[w].drawn.total = version
    BY <2>2 DEF DrawnNow
  <2>4. /\ job'[w] = WithItems(job[w]) /\ job'[w].drawn = D!Now
        /\ \A x \in Worker : x # w => job'[x] = job[x]
    BY <1>9, <2>2, <2>3, JobSteps, Becomes, WithItemsFields DEF D!Now
  <2>5. job'[w].drawn.total = version
    BY <2>4 DEF D!Now
  <2>6. QED
    BY <2>1, <2>3, <2>4, <2>5 DEF DrawnNow, D!Now
<1>10. ASSUME NEW w \in Worker, D!JobUpload(w) PROVE DrawnNow'
  <2>1. UNCHANGED <<status, version, items, cached, pdfReq>> /\ doc' = job[w].drawn
        /\ job[w].step = "upload"
    BY <1>10 DEF D!JobUpload, D!rowVars
  <2>2. job[w].status # None
    BY <2>1, IdleFields DEF DocShape
  <2>3. items = {version} /\ doc' = D!Now
    BY <2>1, <2>2 DEF DrawnNow
  <2>4. /\ job'[w].drawn = job[w].drawn /\ job'[w].status = job[w].status
        /\ \A x \in Worker : x # w => job'[x] = job[x]
    <3>1. JobBecomes(w, [job[w] EXCEPT !.step = "row"])
      BY <1>10, JobSteps
    <3>2. QED
      BY <3>1, JobMovesOn
  <2>5. job[w].step # "items"
    BY <2>1
  <2>6. QED
    BY <2>1, <2>3, <2>4, <2>5 DEF DrawnNow, D!Now
<1>11. ASSUME NEW w \in Worker, D!JobRow(w) \/ D!JobChain(w) PROVE DrawnNow'
  <2>1. UNCHANGED <<status, version, items, doc, cached, pdfReq>> /\ job[w].step # "items"
    BY <1>11 DEF D!JobRow, D!JobChain, D!rowVars
  <2>2. /\ job'[w].drawn = job[w].drawn /\ job'[w].status = job[w].status
        /\ \A x \in Worker : x # w => job'[x] = job[x]
    <3>1. \E s \in {"row", "chain", "notify"} : JobBecomes(w, [job[w] EXCEPT !.step = s])
      BY <1>11, JobSteps
    <3>2. QED
      BY <3>1, JobMovesOn
  <2>3. QED
    BY <2>1, <2>2 DEF DrawnNow, D!Now
<1>12. ASSUME NEW w \in Worker, D!JobDone(w) \/ D!JobFails(w) PROVE DrawnNow'
  <2>1. UNCHANGED <<status, version, items, doc, cached, pdfReq>>
    BY <1>12 DEF D!JobDone, D!JobFails, D!rowVars
  <2>2. job'[w].status = None /\ \A x \in Worker : x # w => job'[x] = job[x]
    BY <1>12, JobSteps, Becomes, IdleFields
  <2>3. QED
    BY <2>1, <2>2 DEF DrawnNow, D!Now
<1>13. CASE D!LinkExpires \/ UNCHANGED D!vars
  BY <1>13 DEF D!LinkExpires, DrawnNow, D!Now, D!vars, D!rowVars, D!jobVars
<1>14. QED
  BY <1>1, <1>2, <1>3, <1>4, <1>5, <1>6, <1>7, <1>8, <1>9, <1>10, <1>11, <1>12, <1>13 DEF D!Next

-----------------------------------------------------------------------------
(* The theorems *)

LEMMA DocInitIInv == D!Init => DocIInv
<1> SUFFICES ASSUME D!Init PROVE DocIInv
  OBVIOUS
<1>1. D!Idle \in ReqType /\ D!Idle \in JobType
  BY DEF D!Idle, ReqType, JobType, Read
<1>2. DocTypes
  <2>1. pdfReq \in [Request -> ReqType] /\ job \in [Worker -> JobType]
    BY <1>1 DEF D!Init
  <2>2. version = 1 /\ items = {1} /\ 1 \in 1 .. 1
    BY DEF D!Init
  <2>3. items \in SUBSET (1 .. version) /\ version \in Nat \ {0}
    BY <2>2
  <2>4. QED
    BY <2>1, <2>3 DEF D!Init, DocTypes
<1>3. \A r \in Request : pdfReq[r] = D!Idle
  BY DEF D!Init
<1>4. \A w \in Worker : job[w] = D!Idle
  BY DEF D!Init
<1>5. DocShape
  BY <1>3, <1>4, IdleFields, DocumentsFit DEF DocShape
<1>6. OneJob
  BY <1>4, IdleFields DEF OneJob, D!Init
<1>7. DrawnNow
  BY <1>3, <1>4, IdleFields DEF DrawnNow, D!Init
<1>8. QED
  BY <1>2, <1>5, <1>6, <1>7 DEF DocIInv

LEMMA DocNextIInv == DocIInv /\ [D!Next]_(D!vars) => DocIInv'
<1> SUFFICES ASSUME DocIInv, [D!Next]_(D!vars) PROVE DocIInv'
  OBVIOUS
<1>1. crossed => crossed'
  BY DEF D!Next, D!EditRead, D!EditDelete, D!EditWrite, D!SendRead, D!SendWrite, D!Download, D!Store, D!CacheLink, D!WriteUrl,
         D!WhatsApp, D!SendTemplate, D!JobRead, D!JobItems, D!JobUpload, D!JobRow, D!JobChain, D!JobDone, D!JobFails,
         D!LinkExpires, D!vars
<1>2. DocTypes' /\ DocShape' /\ OneJob'
  BY DocTypesStep, DocShapeStep, OneJobStep DEF DocIInv
<1>3. crossed' \/ DrawnNow'
  BY <1>1, DrawnNowStep DEF DocIInv
<1>4. QED
  BY <1>2, <1>3 DEF DocIInv

LEMMA DocTypesFollow == DocIInv => D!TypeOK
BY DEF DocIInv, DocTypes, D!TypeOK, Drawings
LEMMA LinkFollows == DocIInv => D!CachedLinkIsCurrent
BY DEF DocIInv, DrawnNow, D!CachedLinkIsCurrent, D!Current, D!Now
LEMMA ChainFollows == DocIInv => D!ChainedOnce
BY DEF DocIInv, OneJob, D!ChainedOnce

(***************************************************************************)
(* WhatsApp: the limits, the log and its figures                           *)
(***************************************************************************)

LEMMA SameFinite == \A S : W!IsFiniteSet(S) <=> IsFiniteSet(S)
BY DEF W!IsFiniteSet, IsFiniteSet

LEMMA SameCardinality == \A S : W!Cardinality(S) = Cardinality(S)
BY DEF W!Cardinality, Cardinality

-----------------------------------------------------------------------------
(* The invariant *)

Kind == {"none", "notice", "reminder"} \cup DOMAIN Attempts
Step == {"idle", "send", "log", "count", "incr", "expire", "limit", "call", "save"}
SenderType == [kind : Kind, step : Step, msg : Msg \cup {None}, count : Nat,
               try : 1 .. Tries, runs : Nat \ {0}]
SendTypes ==
    /\ daily \in [W!Key -> [n : Nat, ends : BOOLEAN]] /\ total \in Nat /\ failed \in Nat
    /\ sender \in [W!Senders -> SenderType]
    /\ meta \in [Msg -> W!Statuses \cup {None}] /\ row \in [Msg -> W!Statuses \cup {None}]
    /\ receipts \subseteq Msg \X W!Statuses
    /\ reminded \subseteq Msg /\ sent \in Nat

\* A sender has the message Meta took from it until it is done; the core and
\* the worker have steps of their own.
Holds(s) == sender[s].step \in {"log", "count", "save"}
SendShape ==
    /\ \A s \in Core : sender[s].step \in {"idle", "send", "log", "count"}
    /\ \A s \in Worker : sender[s].step \notin {"send", "log", "count"}
    /\ \A s \in W!Senders :
         /\ IF Holds(s) THEN sender[s].msg \in W!Accepted ELSE sender[s].msg = None
         /\ sender[s].step = "idle" => sender[s] = W!Idle
    /\ reminded \subseteq W!Accepted

\* A key without an end is about to get it.
EndComes ==
    \A k \in W!Key : daily[k].n > 0 =>
        \/ daily[k].ends \/ "endless" \in slipped
        \/ \E s \in Worker : sender[s].step = "expire" /\ W!KeyOf(s) = k

\* Of the requests that passed their check, those Meta answered.
Answered == {s \in Core : sender[s].step \in {"log", "count"}}
Counted ==
    /\ total + Cardinality(W!Passed) <= TenantLimit + Cardinality(Core) - 1
    /\ sent <= total + Cardinality(Answered)
    /\ "together" \in slipped \/ (Cardinality(W!Passed) <= 1 /\ total + Cardinality(W!Passed) <= TenantLimit)

\* One reminder at a time: before it is sent there was none, and afterwards the
\* key is there.
OneReminder ==
    /\ \A r, s \in W!Reminding : r = s
    /\ \A s \in W!Reminding : IF sender[s].step = "send" THEN reminded = {}
                              ELSE reminded \subseteq {sender[s].msg}
    /\ \A s \in Core, m \in reminded : sender[s].msg = m => sender[s].kind = "reminder"
    /\ \A m, n \in reminded : m = n
    /\ reminded # {} => W!Reminding # {} \/ daily["tenant"].n > 0

\* The log: rows are of messages Meta took, and receipts and rows are never
\* ahead of it.
Reached(m, reached) ==
    /\ meta[m] # None
    /\ reached = "DELIVERED" => meta[m] \in {"DELIVERED", "READ"}
    /\ reached = "READ" => meta[m] = "READ"
    /\ reached = "FAILED" => meta[m] = "FAILED"
NotAhead ==
    \A m \in Msg, reached \in W!Statuses :
        <<m, reached>> \in receipts \/ row[m] = reached => Reached(m, reached)
Logged ==
    /\ \A m \in W!Accepted : row[m] # None \/ m \in lost \/ \E s \in W!Senders : sender[s].msg = m
    /\ \A s \in W!Senders : sender[s].step = "count" => row[sender[s].msg] # None
\* Receipts in their order: a row shows the last that was handled.
InOrder(m) ==
    LET Comes(reached) == <<m, reached>> \in receipts IN
    /\ row[m] = None => Comes("SENT")
    /\ Comes("SENT") => /\ row[m] \in {None, "SENT"}
                        /\ meta[m] \in {"DELIVERED", "READ"} => Comes("DELIVERED")
                        /\ meta[m] = "FAILED" => Comes("FAILED")
    /\ Comes("DELIVERED") => /\ Comes("SENT") \/ row[m] = "SENT"
                             /\ meta[m] = "READ" => Comes("READ")
    /\ Comes("READ") => Comes("SENT") \/ Comes("DELIVERED") \/ row[m] = "DELIVERED"
    /\ Comes("FAILED") => Comes("SENT") \/ row[m] = "SENT"
    /\ Comes("SENT") \/ Comes("DELIVERED") \/ Comes("READ") \/ Comes("FAILED") \/ row[m] = meta[m]

SendIInv ==
    /\ SendTypes /\ SendShape /\ EndComes /\ NotAhead /\ Logged
    /\ "uncounted" \in slipped \/ Counted
    /\ slipped \cap {"overlap", "uncounted"} # {} \/ OneReminder
    /\ \A m \in W!Accepted : m \in mixed \/ InOrder(m)

-----------------------------------------------------------------------------
(* What an action leaves its sender with *)

After(s, kind, step, message) ==
    /\ sender' \in [W!Senders -> SenderType]
    /\ sender'[s].kind = kind /\ sender'[s].step = step /\ sender'[s].msg = message
    /\ step = "idle" => sender'[s] = W!Idle
    /\ \A x \in W!Senders : x # s => sender'[x] = sender[x]
Done(s) == After(s, "none", "idle", None)

LEMMA SenderRecords ==
    ASSUME W!WhatsAppAssumption, SendTypes, NEW s \in W!Senders
    PROVE  /\ sender[s] \in SenderType /\ W!Idle \in SenderType
           /\ W!Idle.kind = "none" /\ W!Idle.step = "idle" /\ W!Idle.msg = None
<1>1. 1 \in 1 .. Tries
  BY DEF W!WhatsAppAssumption
<1>2. W!Idle \in SenderType
  BY <1>1 DEF W!Idle, SenderType, Kind, Step
<1>3. QED
  BY <1>2 DEF SendTypes, W!Idle

LEMMA BecomeAfter ==
    ASSUME SendTypes, NEW s \in W!Senders, NEW new \in SenderType, W!Become(s, new),
           new.step = "idle" => new = W!Idle
    PROVE  After(s, new.kind, new.step, new.msg)
<1>1. /\ sender' = [sender EXCEPT ![s] = new] /\ sender \in [W!Senders -> SenderType]
  BY DEF W!Become, SendTypes
<1>2. sender' \in [W!Senders -> SenderType] /\ sender'[s] = new
      /\ \A x \in W!Senders : x # s => sender'[x] = sender[x]
  BY <1>1
<1>3. QED
  BY <1>2 DEF After

LEMMA FinishAfter ==
    ASSUME W!WhatsAppAssumption, SendTypes, NEW s \in W!Senders, W!Finish(s)
    PROVE  Done(s)
BY BecomeAfter, SenderRecords DEF W!Finish, Done

LEMMA GoAfter ==
    ASSUME W!WhatsAppAssumption, SendTypes, NEW s \in W!Senders, NEW step \in Step \ {"idle"}, W!Go(s, step)
    PROVE  After(s, sender[s].kind, step, sender[s].msg)
<1> DEFINE new == [sender[s] EXCEPT !.step = step]
<1>1. sender[s] \in SenderType
  BY SenderRecords
<1>2. new \in SenderType /\ new.step = step /\ new.kind = sender[s].kind /\ new.msg = sender[s].msg
  BY <1>1 DEF SenderType
<1>3. W!Become(s, new)
  BY DEF W!Go
<1> HIDE DEF new
<1>4. QED
  BY <1>2, <1>3, BecomeAfter

LEMMA TakesAfter ==
    ASSUME W!WhatsAppAssumption, SendTypes, NEW s \in W!Senders, NEW step \in Step \ {"idle"}, NEW m \in Msg,
           W!Become(s, [sender[s] EXCEPT !.step = step, !.msg = m])
    PROVE  After(s, sender[s].kind, step, m)
<1> DEFINE new == [sender[s] EXCEPT !.step = step, !.msg = m]
<1>1. sender[s] \in SenderType
  BY SenderRecords
<1>2. new \in SenderType /\ new.step = step /\ new.kind = sender[s].kind /\ new.msg = m
  BY <1>1 DEF SenderType
<1> HIDE DEF new
<1>3. QED
  BY <1>2, BecomeAfter DEF new

LEMMA StartAfter ==
    ASSUME W!WhatsAppAssumption, SendTypes, NEW s \in W!Senders, NEW step \in Step \ {"idle"}, NEW kind \in Kind,
           NEW runs \in Nat \ {0}, W!Become(s, [W!Idle EXCEPT !.kind = kind, !.step = step, !.runs = runs])
    PROVE  After(s, kind, step, None)
<1> DEFINE new == [W!Idle EXCEPT !.kind = kind, !.step = step, !.runs = runs]
<1>1. W!Idle \in SenderType /\ W!Idle.msg = None
  BY SenderRecords
<1>2. new \in SenderType /\ new.step = step /\ new.kind = kind /\ new.msg = None
  BY <1>1 DEF SenderType
<1> HIDE DEF new
<1>3. QED
  BY <1>2, BecomeAfter DEF new

\* A failed run leaves the job to its next run, or is its last.
Retried(s) == Done(s) \/ After(s, sender[s].kind, "incr", None)
LEMMA JobFailsAfter ==
    ASSUME W!WhatsAppAssumption, SendTypes, NEW s \in W!Senders, W!JobFails(s)
    PROVE  Retried(s)
<1>1. CASE sender[s].runs > 1
  <2>1. sender[s].runs - 1 \in Nat \ {0} /\ sender[s].kind \in Kind
    BY <1>1, SenderRecords DEF SenderType
  <2>2. "incr" \in Step \ {"idle"}
    BY DEF Step
  <2>3. W!Become(s, [W!Idle EXCEPT !.kind = sender[s].kind, !.step = "incr", !.runs = sender[s].runs - 1])
    BY <1>1 DEF W!JobFails
  <2>4. QED
    BY <2>1, <2>2, <2>3, StartAfter DEF Retried
<1>2. CASE ~(sender[s].runs > 1)
  BY <1>2, FinishAfter DEF W!JobFails, Retried
<1>3. QED
  BY <1>1, <1>2

LEMMA CallFailsAfter ==
    ASSUME W!WhatsAppAssumption, SendTypes, NEW s \in W!Senders, W!CallFails(s), sender[s].step = "call"
    PROVE  Retried(s) \/ After(s, sender[s].kind, "call", sender[s].msg)
<1>1. CASE sender[s].try < Tries
  <2> DEFINE new == [sender[s] EXCEPT !.try = sender[s].try + 1]
  <2>1. sender[s] \in SenderType
    BY SenderRecords
  <2>2. sender[s].try + 1 \in 1 .. Tries
    BY <1>1, <2>1 DEF SenderType, W!WhatsAppAssumption
  <2>3. /\ new \in SenderType /\ new.step = "call" /\ new.kind = sender[s].kind
        /\ new.msg = sender[s].msg
    BY <2>1, <2>2 DEF SenderType
  <2>4. W!Become(s, new)
    BY <1>1 DEF W!CallFails
  <2> HIDE DEF new
  <2>5. QED
    BY <2>3, <2>4, BecomeAfter
<1>2. CASE ~(sender[s].try < Tries)
  BY <1>2, JobFailsAfter DEF W!CallFails
<1>3. QED
  BY <1>1, <1>2

LEMMA IncrAfter ==
    ASSUME W!WhatsAppAssumption, SendTypes, NEW s \in W!Senders, W!Incr(s)
    PROVE  /\ \/ After(s, sender[s].kind, "expire", sender[s].msg)
              \/ After(s, sender[s].kind, "limit", sender[s].msg) /\ daily[W!KeyOf(s)].n > 0
           /\ W!KeyOf(s) \in W!Key
           /\ daily' = [daily EXCEPT ![W!KeyOf(s)] = [daily[W!KeyOf(s)] EXCEPT !.n = daily[W!KeyOf(s)].n + 1]]
<1> DEFINE k == W!KeyOf(s)
           n == daily[k].n + 1
           step == IF n = 1 THEN "expire" ELSE "limit"
           new == [sender[s] EXCEPT !.count = n, !.step = step]
<1>1. k \in W!Key
  BY DEF W!KeyOf, W!Key
<1>2. n \in Nat /\ n # 0 /\ (n # 1 => daily[k].n > 0)
  BY <1>1 DEF SendTypes
<1>3. W!Become(s, new) /\ daily' = [daily EXCEPT ![k] = [daily[k] EXCEPT !.n = n]]
  BY DEF W!Incr
<1>4. sender[s] \in SenderType
  BY SenderRecords
<1>5. step \in Step \ {"idle"}
  BY DEF Step
<1>6. new \in SenderType /\ new.step = step /\ new.kind = sender[s].kind /\ new.msg = sender[s].msg
  BY <1>2, <1>4, <1>5 DEF SenderType
<1>7. After(s, sender[s].kind, step, sender[s].msg)
  <2> HIDE DEF new, step
  <2>1. QED
    BY <1>3, <1>5, <1>6, BecomeAfter
<1>8. QED
  BY <1>1, <1>2, <1>3, <1>7

-----------------------------------------------------------------------------
(* The actions, and the sender after each *)

Check(s) == \E kind \in {"notice", "reminder"} : W!CheckRateLimits(s, kind)
Taken(s) == \E kind \in DOMAIN Attempts : \E runs \in Attempts[kind] : W!Take(s, kind, runs)
LEMMA SendNextCases ==
    ASSUME W!Next
    PROVE  \/ \E s \in Core : \/ Check(s) \/ W!CoreRefused(s) \/ W!CoreLog(s) \/ W!IncrementRateLimits(s)
                              \/ \E m \in Msg, answered \in BOOLEAN : W!CoreCall(s, m, answered)
           \/ \E s \in Worker : \/ Taken(s) \/ W!Incr(s) \/ W!SetEnd(s) \/ W!Limit(s) \/ W!SaveMessage(s)
                                \/ \E m \in Msg, answered \in BOOLEAN : W!WorkerCall(s, m, answered)
                                \/ \E final \in BOOLEAN : W!WorkerRefused(s, final)
           \/ \E s \in W!Senders : W!Break(s)
           \/ \E k \in W!Key : W!DayPasses(k)
           \/ \E m \in Msg : \/ W!MetaDelivers(m) \/ W!MetaFails(m)
                             \/ \E reached \in W!Statuses, applied \in BOOLEAN :
                                  W!HandleStatusUpdate(m, reached, applied)
BY DEF W!Next, Check, Taken, W!SendInvoice, W!SendSalarySlip, W!SendDirectText, W!SendReminder, W!SendBulkReminders,
       W!OtpCall, W!InvoiceCall, W!ReminderCall, W!Statuses

LEMMA CoreAfter ==
    ASSUME W!WhatsAppAssumption, SendTypes, NEW s \in Core
    PROVE  /\ \A kind \in {"notice", "reminder"} : W!CheckRateLimits(s, kind) =>
                sender[s] = W!Idle /\ After(s, kind, "send", None)
           /\ \A m \in Msg : W!CoreCall(s, m, TRUE) => After(s, sender[s].kind, "log", m)
           /\ \A m \in Msg : W!CoreCall(s, m, FALSE) => Done(s)
           /\ W!CoreRefused(s) => Done(s)
           /\ W!CoreLog(s) => After(s, sender[s].kind, "count", sender[s].msg)
           /\ W!IncrementRateLimits(s) => Done(s)
<1>1. s \in W!Senders
  BY DEF W!Senders
<1>2. ASSUME NEW kind \in {"notice", "reminder"}, W!CheckRateLimits(s, kind)
      PROVE  sender[s] = W!Idle /\ After(s, kind, "send", None)
  <2>1. sender[s] = W!Idle /\ W!Become(s, [W!Idle EXCEPT !.kind = kind, !.step = "send", !.runs = 1])
    BY <1>2 DEF W!CheckRateLimits, W!Start
  <2>2. kind \in Kind /\ "send" \in Step \ {"idle"} /\ 1 \in Nat \ {0}
    BY DEF Kind, Step
  <2>3. QED
    BY <1>1, <2>1, <2>2, StartAfter
<1>3. ASSUME NEW m \in Msg, W!CoreCall(s, m, TRUE) PROVE After(s, sender[s].kind, "log", m)
  <2>1. W!Become(s, [sender[s] EXCEPT !.step = "log", !.msg = m]) /\ "log" \in Step \ {"idle"}
    BY <1>3 DEF W!CoreCall, Step
  <2>2. QED
    BY <1>1, <2>1, TakesAfter
<1>4. ASSUME NEW m \in Msg, W!CoreCall(s, m, FALSE) PROVE Done(s)
  BY <1>1, <1>4, FinishAfter DEF W!CoreCall
<1>5. (W!CoreRefused(s) \/ W!IncrementRateLimits(s)) => Done(s)
  BY <1>1, FinishAfter DEF W!CoreRefused, W!IncrementRateLimits
<1>6. W!CoreLog(s) => After(s, sender[s].kind, "count", sender[s].msg)
  <2>1. W!CoreLog(s) => W!Go(s, "count")
    BY DEF W!CoreLog
  <2>2. "count" \in Step \ {"idle"}
    BY DEF Step
  <2>3. QED
    BY <1>1, <2>1, <2>2, GoAfter
<1>7. QED
  BY <1>2, <1>3, <1>4, <1>5, <1>6

LEMMA WorkerAfter ==
    ASSUME W!WhatsAppAssumption, SendTypes, NEW s \in Worker
    PROVE  /\ Taken(s) => sender[s] = W!Idle /\ \E kind \in DOMAIN Attempts : After(s, kind, "incr", None)
           /\ W!SetEnd(s) => After(s, sender[s].kind, "limit", sender[s].msg)
           /\ W!Limit(s) => Retried(s) \/ After(s, sender[s].kind, "call", sender[s].msg)
           /\ \A m \in Msg : W!WorkerCall(s, m, TRUE) => After(s, sender[s].kind, "save", m)
           /\ \A m \in Msg : W!WorkerCall(s, m, FALSE) =>
                Retried(s) \/ After(s, sender[s].kind, "call", sender[s].msg)
           /\ \A final \in BOOLEAN : W!WorkerRefused(s, final) =>
                Retried(s) \/ After(s, sender[s].kind, "call", sender[s].msg)
           /\ W!SaveMessage(s) => Done(s)
<1>1. s \in W!Senders
  BY DEF W!Senders
<1>2. ASSUME Taken(s)
      PROVE  sender[s] = W!Idle /\ \E kind \in DOMAIN Attempts : After(s, kind, "incr", None)
  <2>1. PICK kind \in DOMAIN Attempts : \E runs \in Attempts[kind] : W!Take(s, kind, runs)
    BY <1>2 DEF Taken
  <2>2. PICK runs \in Attempts[kind] : W!Take(s, kind, runs)
    BY <2>1
  <2>3. sender[s] = W!Idle /\ W!Become(s, [W!Idle EXCEPT !.kind = kind, !.step = "incr", !.runs = runs])
    BY <2>2 DEF W!Take, W!Start
  <2>4. kind \in Kind /\ "incr" \in Step \ {"idle"} /\ runs \in Nat \ {0}
    BY DEF Kind, Step, W!WhatsAppAssumption
  <2>5. After(s, kind, "incr", None)
    BY <1>1, <2>3, <2>4, StartAfter
  <2>6. QED
    BY <2>3, <2>5
<1>3. /\ W!SetEnd(s) => After(s, sender[s].kind, "limit", sender[s].msg)
      /\ W!Limit(s) => Retried(s) \/ After(s, sender[s].kind, "call", sender[s].msg)
  <2>1. "limit" \in Step \ {"idle"} /\ "call" \in Step \ {"idle"}
    BY DEF Step
  <2>2. W!SetEnd(s) => W!Go(s, "limit")
    BY DEF W!SetEnd
  <2>3. W!Limit(s) => W!JobFails(s) \/ W!Go(s, "call")
    BY DEF W!Limit
  <2>4. QED
    BY <1>1, <2>1, <2>2, <2>3, GoAfter, JobFailsAfter
<1>4. ASSUME NEW m \in Msg, W!WorkerCall(s, m, TRUE) PROVE After(s, sender[s].kind, "save", m)
  <2>1. W!Become(s, [sender[s] EXCEPT !.step = "save", !.msg = m]) /\ "save" \in Step \ {"idle"}
    BY <1>4 DEF W!WorkerCall, Step
  <2>2. QED
    BY <1>1, <2>1, TakesAfter
<1>5. ASSUME NEW m \in Msg, W!WorkerCall(s, m, FALSE)
      PROVE  Retried(s) \/ After(s, sender[s].kind, "call", sender[s].msg)
  BY <1>1, <1>5, CallFailsAfter DEF W!WorkerCall
<1>6. ASSUME NEW final \in BOOLEAN, W!WorkerRefused(s, final)
      PROVE  Retried(s) \/ After(s, sender[s].kind, "call", sender[s].msg)
  BY <1>1, <1>6, CallFailsAfter, FinishAfter DEF W!WorkerRefused, Retried
<1>7. W!SaveMessage(s) => Done(s)
  BY <1>1, FinishAfter DEF W!SaveMessage
<1>8. QED
  BY <1>2, <1>3, <1>4, <1>5, <1>6, <1>7

LEMMA BreakAfter ==
    ASSUME W!WhatsAppAssumption, SendTypes, SendShape, NEW s \in W!Senders, W!Break(s)
    PROVE  /\ s \in Core => Done(s) /\ sender[s].step \in {"log", "count"}
           /\ Retried(s)
<1>1. IF sender[s].step = "expire" THEN W!JobFails(s) ELSE W!Finish(s)
  BY DEF W!Break
<1>2. s \in Core => sender[s].step \in {"log", "count"}
  BY DEF W!Break, SendShape
<1>3. QED
  BY <1>1, <1>2, FinishAfter, JobFailsAfter DEF Retried

\* Any step of a worker: the core's requests stay, and it is left by a step of
\* the worker, with the message Meta took or none.
WorkerStep(s) == \/ Taken(s) \/ W!Incr(s) \/ W!SetEnd(s) \/ W!Limit(s) \/ W!SaveMessage(s)
                 \/ \E m \in Msg, answered \in BOOLEAN : W!WorkerCall(s, m, answered)
                 \/ \E final \in BOOLEAN : W!WorkerRefused(s, final)
                 \/ W!Break(s)
WorkerMoved(s) ==
    \E kind, step, message :
        /\ After(s, kind, step, message)
        /\ step \in {"idle", "incr", "expire", "limit", "call", "save"}
        /\ \/ message = None /\ step # "save"
           \/ step = "save" /\ \E m \in Msg : message = m /\ W!WorkerCall(s, m, TRUE)

LEMMA EmptyHanded ==
    ASSUME NEW s, NEW kind, NEW step \in {"idle", "incr", "expire", "limit", "call"},
           After(s, kind, step, None)
    PROVE  WorkerMoved(s)
<1>1. step # "save" /\ step \in {"idle", "incr", "expire", "limit", "call", "save"}
  OBVIOUS
<1>2. QED
  BY <1>1 DEF WorkerMoved

LEMMA WorkerMoves ==
    ASSUME W!WhatsAppAssumption, SendTypes, SendShape, NEW s \in Worker, WorkerStep(s)
    PROVE  WorkerMoved(s)
<1>1. s \in W!Senders
  BY DEF W!Senders
<1>2. CASE Done(s)
  BY <1>2, EmptyHanded DEF Done
<1>3. CASE Retried(s)
  BY <1>2, <1>3, EmptyHanded DEF Retried
<1>4. ASSUME NEW step \in {"expire", "limit", "call"}, After(s, sender[s].kind, step, sender[s].msg),
             ~Holds(s)
      PROVE  WorkerMoved(s)
  <2>1. sender[s].msg = None
    BY <1>1, <1>4 DEF SendShape
  <2>2. QED
    BY <1>4, <2>1, EmptyHanded
<1>5. CASE Taken(s)
  <2>1. PICK kind \in DOMAIN Attempts : After(s, kind, "incr", None)
    BY <1>5, WorkerAfter
  <2>2. QED
    BY <2>1, EmptyHanded
<1>6. CASE W!Incr(s)
  <2>1. ~Holds(s)
    BY <1>6 DEF W!Incr, Holds
  <2>2. QED
    BY <1>1, <1>4, <1>6, <2>1, IncrAfter
<1>7. CASE W!SetEnd(s)
  <2>1. ~Holds(s)
    BY <1>7 DEF W!SetEnd, Holds
  <2>2. QED
    BY <1>4, <1>7, <2>1, WorkerAfter
<1>8. CASE W!Limit(s)
  <2>1. ~Holds(s)
    BY <1>8 DEF W!Limit, Holds
  <2>2. QED
    BY <1>3, <1>4, <1>8, <2>1, WorkerAfter
<1>9. CASE W!SaveMessage(s)
  BY <1>2, <1>9, WorkerAfter
<1>10. ASSUME NEW m \in Msg, W!WorkerCall(s, m, TRUE) PROVE WorkerMoved(s)
  BY <1>10, WorkerAfter DEF WorkerMoved
<1>11. ASSUME NEW m \in Msg, W!WorkerCall(s, m, FALSE) PROVE WorkerMoved(s)
  <2>1. ~Holds(s)
    BY <1>11 DEF W!WorkerCall, Holds
  <2>2. QED
    BY <1>3, <1>4, <1>11, <2>1, WorkerAfter
<1>12. ASSUME NEW final \in BOOLEAN, W!WorkerRefused(s, final) PROVE WorkerMoved(s)
  <2>1. ~Holds(s)
    BY <1>12 DEF W!WorkerRefused, Holds
  <2>2. QED
    BY <1>3, <1>4, <1>12, <2>1, WorkerAfter
<1>13. CASE W!Break(s)
  BY <1>1, <1>3, <1>13, BreakAfter
<1>14. QED
  BY <1>5, <1>6, <1>7, <1>8, <1>9, <1>10, <1>11, <1>12, <1>13 DEF WorkerStep

-----------------------------------------------------------------------------
(* Types *)

\* The next-state relation, by what the step belongs to.
CoreStep(s) == \/ Check(s) \/ W!CoreRefused(s) \/ W!CoreLog(s) \/ W!IncrementRateLimits(s)
               \/ \E m \in Msg, answered \in BOOLEAN : W!CoreCall(s, m, answered)
               \/ W!Break(s)
MetaStep == \E m \in Msg : \/ W!MetaDelivers(m) \/ W!MetaFails(m)
                           \/ \E reached \in W!Statuses, applied \in BOOLEAN :
                                W!HandleStatusUpdate(m, reached, applied)

\* How far Meta gets with a message in one step.
MetaGoes(m) == W!MetaDelivers(m) \/ W!MetaFails(m)
Onwards(reached) == IF reached = "SENT" THEN {"DELIVERED", "FAILED"} ELSE {"READ"}
LEMMA MetaGoesOn ==
    ASSUME W!WhatsAppAssumption, SendTypes, NEW m \in Msg, MetaGoes(m)
    PROVE  /\ meta[m] \in {"SENT", "DELIVERED"} /\ row' = row
           /\ \E new \in Onwards(meta[m]) : /\ meta' = [meta EXCEPT ![m] = new] /\ new \in W!Statuses
                                         /\ receipts' = receipts \cup {<<m, new>>}
BY DEF MetaGoes, Onwards, W!MetaDelivers, W!MetaFails, W!MetaGets, W!Later, W!log, W!Statuses
LEMMA StepCases ==
    ASSUME [W!Next]_(W!vars)
    PROVE  \/ \E s \in Core : CoreStep(s)
           \/ \E s \in Worker : WorkerStep(s)
           \/ \E k \in W!Key : W!DayPasses(k)
           \/ MetaStep
           \/ UNCHANGED W!vars
BY SendNextCases DEF CoreStep, WorkerStep, MetaStep, W!Senders

LEMMA SenderType2 ==
    ASSUME W!WhatsAppAssumption, SendTypes, SendShape, [W!Next]_(W!vars)
    PROVE  sender' \in [W!Senders -> SenderType]
<1>1. ASSUME NEW s \in Core, CoreStep(s) PROVE sender' \in [W!Senders -> SenderType]
  <2>1. s \in W!Senders
    BY DEF W!Senders
  <2>2. CASE W!Break(s)
    BY <2>1, <2>2, BreakAfter DEF Done, After
  <2>3. CASE Check(s)
    BY <2>3, CoreAfter DEF Check, After
  <2>4. CASE \E m \in Msg, answered \in BOOLEAN : W!CoreCall(s, m, answered)
    BY <2>4, CoreAfter DEF Done, After
  <2>5. CASE W!CoreRefused(s) \/ W!CoreLog(s) \/ W!IncrementRateLimits(s)
    BY <2>5, CoreAfter DEF Done, After
  <2>6. QED
    BY <1>1, <2>2, <2>3, <2>4, <2>5 DEF CoreStep
<1>2. ASSUME NEW s \in Worker, WorkerStep(s) PROVE sender' \in [W!Senders -> SenderType]
  BY <1>2, WorkerMoves DEF WorkerMoved, After
<1>3. CASE (\E k \in W!Key : W!DayPasses(k)) \/ MetaStep \/ UNCHANGED W!vars
  BY <1>3 DEF W!DayPasses, MetaStep, W!MetaDelivers, W!MetaFails, W!MetaGets, W!HandleStatusUpdate, W!vars, SendTypes
<1>4. QED
  BY <1>1, <1>2, <1>3, StepCases

Counter == [n : Nat, ends : BOOLEAN]
LEMMA CounterStep ==
    ASSUME W!WhatsAppAssumption, SendTypes, [W!Next]_(W!vars)
    PROVE  daily' \in [W!Key -> Counter]
<1>1. \A k \in W!Key : daily[k] \in Counter
  BY DEF SendTypes, Counter
<1>2. ASSUME NEW s \in Worker, W!Incr(s) PROVE daily' \in [W!Key -> Counter]
  <2>1. s \in W!Senders
    BY DEF W!Senders
  <2>2. /\ W!KeyOf(s) \in W!Key
        /\ daily' = [daily EXCEPT ![W!KeyOf(s)] = [daily[W!KeyOf(s)] EXCEPT !.n = daily[W!KeyOf(s)].n + 1]]
    BY <1>2, <2>1, IncrAfter
  <2>3. [daily[W!KeyOf(s)] EXCEPT !.n = daily[W!KeyOf(s)].n + 1] \in Counter
    BY <1>1, <2>2 DEF Counter
  <2>4. QED
    BY <2>2, <2>3 DEF SendTypes, Counter
<1>3. ASSUME NEW s \in Worker, W!SetEnd(s) PROVE daily' \in [W!Key -> Counter]
  <2>1. W!KeyOf(s) \in W!Key
    BY DEF W!KeyOf, W!Key
  <2>2. daily' = [daily EXCEPT ![W!KeyOf(s)] = [daily[W!KeyOf(s)] EXCEPT !.ends = (daily[W!KeyOf(s)].n > 0)]]
    BY <1>3 DEF W!SetEnd
  <2>3. [daily[W!KeyOf(s)] EXCEPT !.ends = (daily[W!KeyOf(s)].n > 0)] \in Counter
    <3>1. \A end \in BOOLEAN : [daily[W!KeyOf(s)] EXCEPT !.ends = end] \in Counter
      BY <1>1, <2>1 DEF Counter
    <3>2. (daily[W!KeyOf(s)].n > 0) \in BOOLEAN
      OBVIOUS
    <3>3. QED
      BY <3>1, <3>2
  <2>4. QED
    BY <2>2, <2>3 DEF SendTypes, Counter
<1>4. ASSUME NEW s \in Core, W!IncrementRateLimits(s) PROVE daily' \in [W!Key -> Counter]
  <2>1. [n |-> 1, ends |-> TRUE] \in Counter
    BY DEF Counter
  <2>2. daily' = daily \/ daily' = [daily EXCEPT !["tenant"] = [n |-> 1, ends |-> TRUE]]
    BY <1>4 DEF W!IncrementRateLimits
  <2>3. QED
    BY <2>1, <2>2 DEF SendTypes, Counter
<1>5. ASSUME NEW k \in W!Key, W!DayPasses(k) PROVE daily' \in [W!Key -> Counter]
  <2>1. [n |-> 0, ends |-> FALSE] \in Counter
    BY DEF Counter
  <2>2. QED
    BY <1>5, <2>1 DEF W!DayPasses, SendTypes, Counter
<1>6. CASE daily' = daily
  BY <1>6 DEF SendTypes, Counter
<1>7. ASSUME NEW s \in Core, CoreStep(s) PROVE W!IncrementRateLimits(s) \/ daily' = daily
  BY <1>7 DEF CoreStep, Check, W!CheckRateLimits, W!CoreRefused, W!CoreLog, W!CoreCall, W!Break, W!counts
<1>8. ASSUME NEW s \in Worker, WorkerStep(s) PROVE W!Incr(s) \/ W!SetEnd(s) \/ daily' = daily
  BY <1>8 DEF WorkerStep, Taken, W!Take, W!Limit, W!SaveMessage, W!WorkerCall, W!WorkerRefused, W!Break, W!counts
<1>9. MetaStep \/ UNCHANGED W!vars => daily' = daily
  BY DEF MetaStep, W!MetaDelivers, W!MetaFails, W!MetaGets, W!HandleStatusUpdate, W!counts, W!vars
<1>10. QED
  BY <1>2, <1>3, <1>4, <1>5, <1>6, <1>7, <1>8, <1>9, StepCases

LEMMA LogTypes ==
    ASSUME W!WhatsAppAssumption, SendTypes, SendShape, [W!Next]_(W!vars)
    PROVE  /\ meta' \in [Msg -> W!Statuses \cup {None}] /\ row' \in [Msg -> W!Statuses \cup {None}]
           /\ receipts' \subseteq Msg \X W!Statuses
<1> DEFINE G == /\ meta' \in [Msg -> W!Statuses \cup {None}] /\ row' \in [Msg -> W!Statuses \cup {None}]
                /\ receipts' \subseteq Msg \X W!Statuses
<1>0. {"SENT", "DELIVERED", "READ", "FAILED"} = W!Statuses
  BY DEF W!Statuses
<1>1. ASSUME NEW m \in Msg, W!Accept(m), row' = row PROVE G
  BY <1>0, <1>1 DEF W!Accept, SendTypes
<1>2. ASSUME NEW s \in W!Senders, Holds(s), W!Insert(sender[s].msg), UNCHANGED <<meta, receipts>> PROVE G
  <2>1. sender[s].msg \in Msg
    BY <1>2 DEF SendShape, W!Accepted
  <2>2. QED
    BY <1>0, <1>2, <2>1 DEF W!Insert, SendTypes
<1>3. ASSUME NEW m \in Msg, MetaGoes(m) PROVE G
  <2>1. PICK new \in W!Statuses : /\ meta' = [meta EXCEPT ![m] = new] /\ row' = row
                                  /\ receipts' = receipts \cup {<<m, new>>}
    BY <1>3, MetaGoesOn
  <2>2. QED
    BY <2>1 DEF SendTypes
<1>4. ASSUME NEW m \in Msg, NEW reached \in W!Statuses, NEW applied \in BOOLEAN,
             W!HandleStatusUpdate(m, reached, applied)
      PROVE  G
  BY <1>4 DEF W!HandleStatusUpdate, SendTypes
<1>5. CASE UNCHANGED <<meta, receipts, row>>
  BY <1>5 DEF SendTypes
<1>6. ASSUME NEW s \in Core, CoreStep(s) PROVE G
  <2>1. s \in W!Senders
    BY DEF W!Senders
  <2>2. CASE W!CoreLog(s)
    BY <1>2, <2>1, <2>2 DEF W!CoreLog, Holds
  <2>3. CASE \E m \in Msg, answered \in BOOLEAN : W!CoreCall(s, m, answered)
    BY <1>1, <2>3 DEF W!CoreCall, W!log
  <2>4. CASE Check(s) \/ W!CoreRefused(s) \/ W!IncrementRateLimits(s) \/ W!Break(s)
    BY <1>5, <2>4 DEF Check, W!CheckRateLimits, W!CoreRefused, W!IncrementRateLimits, W!Break, W!log
  <2>5. QED
    BY <1>6, <2>2, <2>3, <2>4 DEF CoreStep
<1>7. ASSUME NEW s \in Worker, WorkerStep(s) PROVE G
  <2>1. s \in W!Senders
    BY DEF W!Senders
  <2>2. CASE W!SaveMessage(s)
    BY <1>2, <2>1, <2>2 DEF W!SaveMessage, Holds
  <2>3. CASE \E m \in Msg, answered \in BOOLEAN : W!WorkerCall(s, m, answered)
    BY <1>1, <2>3 DEF W!WorkerCall, W!log
  <2>4. CASE \/ Taken(s) \/ W!Incr(s) \/ W!SetEnd(s) \/ W!Limit(s) \/ W!Break(s)
             \/ \E final \in BOOLEAN : W!WorkerRefused(s, final)
    BY <1>5, <2>4 DEF Taken, W!Take, W!Incr, W!SetEnd, W!Limit, W!Break, W!WorkerRefused, W!log
  <2>5. QED
    BY <1>7, <2>2, <2>3, <2>4 DEF WorkerStep
<1>8. CASE \E k \in W!Key : W!DayPasses(k)
  BY <1>5, <1>8 DEF W!DayPasses, W!log
<1>9. CASE MetaStep
  BY <1>3, <1>4, <1>9 DEF MetaStep, MetaGoes
<1>10. CASE UNCHANGED W!vars
  BY <1>5, <1>10 DEF W!vars, W!log
<1>11. QED
  BY <1>6, <1>7, <1>8, <1>9, <1>10, StepCases

LEMMA SendTypesStep ==
    ASSUME W!WhatsAppAssumption, SendTypes, SendShape, [W!Next]_(W!vars)
    PROVE  SendTypes'
<1>1. ASSUME NEW s \in Core, CoreStep(s)
      PROVE  total' \in Nat /\ failed' \in Nat /\ reminded' \subseteq Msg /\ sent' \in Nat
  <2>1. CASE Check(s) \/ W!CoreRefused(s) \/ W!CoreLog(s) \/ W!Break(s)
    BY <2>1 DEF Check, W!CheckRateLimits, W!CoreRefused, W!CoreLog, W!Break, W!counts, W!history, W!log, SendTypes
  <2>2. CASE W!IncrementRateLimits(s)
    BY <2>2 DEF W!IncrementRateLimits, W!history, W!log, SendTypes
  <2>3. CASE \E m \in Msg, answered \in BOOLEAN : W!CoreCall(s, m, answered)
    BY <2>3 DEF W!CoreCall, W!counts, W!log, SendTypes
  <2>4. QED
    BY <1>1, <2>1, <2>2, <2>3 DEF CoreStep
<1>2. ASSUME NEW s \in Worker, WorkerStep(s)
      PROVE  total' = total /\ failed' \in Nat /\ UNCHANGED <<reminded, sent>>
  <2>1. CASE Taken(s) \/ W!Incr(s) \/ W!SetEnd(s) \/ W!SaveMessage(s) \/ W!Break(s)
    BY <2>1 DEF Taken, W!Take, W!Incr, W!SetEnd, W!SaveMessage, W!Break, W!counts, W!history, W!log, SendTypes
  <2>2. CASE W!Limit(s)
    BY <2>2 DEF W!Limit, W!counts, W!history, SendTypes
  <2>3. CASE \E m \in Msg, answered \in BOOLEAN : W!WorkerCall(s, m, answered)
    BY <2>3 DEF W!WorkerCall, W!counts, W!history, W!log, SendTypes
  <2>4. CASE \E final \in BOOLEAN : W!WorkerRefused(s, final)
    BY <2>4 DEF W!WorkerRefused, W!counts, W!history, SendTypes
  <2>5. QED
    BY <1>2, <2>1, <2>2, <2>3, <2>4 DEF WorkerStep
<1>3. CASE (\E k \in W!Key : W!DayPasses(k)) \/ MetaStep \/ UNCHANGED W!vars
  <2>1. UNCHANGED <<total, failed, sent>> /\ reminded' \subseteq reminded
    BY <1>3 DEF MetaStep, W!DayPasses, W!MetaDelivers, W!MetaFails, W!MetaGets, W!HandleStatusUpdate, W!vars, W!counts, W!history, W!log
  <2>2. QED
    BY <2>1, SenderType2, CounterStep, LogTypes DEF SendTypes, Counter
<1>4. QED
  BY <1>1, <1>2, <1>3, StepCases, SenderType2, CounterStep, LogTypes DEF SendTypes, Counter

-----------------------------------------------------------------------------
(* Shape *)

LEMMA AcceptedGrows ==
    ASSUME W!WhatsAppAssumption, SendTypes, SendShape, [W!Next]_(W!vars)
    PROVE  W!Accepted \subseteq W!Accepted'
<1>1. None \notin W!Statuses
  BY DEF W!WhatsAppAssumption, W!Statuses
<1>2. ASSUME NEW m \in Msg, W!Accept(m) PROVE W!Accepted \subseteq W!Accepted'
  BY <1>1, <1>2 DEF W!Accept, W!Accepted, W!Statuses, SendTypes
<1>3. ASSUME NEW m \in Msg, MetaGoes(m) PROVE W!Accepted \subseteq W!Accepted'
  <2>1. \E new : meta' = [meta EXCEPT ![m] = new] /\ new # None
    BY <1>1, <1>3, MetaGoesOn
  <2>2. QED
    BY <2>1 DEF W!Accepted, SendTypes
<1>4. ASSUME NEW s \in Core, CoreStep(s)
      PROVE  meta' = meta \/ \E m \in Msg : W!Accept(m)
  BY <1>4 DEF CoreStep, Check, W!CheckRateLimits, W!CoreRefused, W!CoreLog, W!CoreCall, W!IncrementRateLimits, W!Break
<1>5. ASSUME NEW s \in Worker, WorkerStep(s)
      PROVE  meta' = meta \/ \E m \in Msg : W!Accept(m)
  BY <1>5 DEF WorkerStep, Taken, W!Take, W!Incr, W!SetEnd, W!Limit, W!SaveMessage, W!WorkerCall, W!WorkerRefused, W!Break
<1>6. CASE meta' = meta
  BY <1>6 DEF W!Accepted
<1>7. CASE MetaStep
  BY <1>3, <1>6, <1>7 DEF MetaStep, MetaGoes, W!HandleStatusUpdate
<1>8. CASE (\E k \in W!Key : W!DayPasses(k)) \/ UNCHANGED W!vars
  BY <1>6, <1>8 DEF W!DayPasses, W!vars
<1>9. QED
  BY <1>2, <1>4, <1>5, <1>6, <1>7, <1>8, StepCases

\* What Meta takes is taken from then on.
LEMMA AcceptAccepts ==
    ASSUME W!WhatsAppAssumption, SendTypes, NEW m \in Msg, W!Accept(m)
    PROVE  m \notin W!Accepted /\ m \in W!Accepted' /\ W!Accepted' = W!Accepted \cup {m}
BY DEF W!WhatsAppAssumption, W!Accept, W!Accepted, SendTypes

\* One sender's shape after its action keeps all in shape.
LEMMA SenderShape ==
    ASSUME W!WhatsAppAssumption, SendTypes, SendShape, NEW s \in W!Senders, NEW kind, NEW step, NEW message,
           After(s, kind, step, message), W!Accepted \subseteq W!Accepted',
           s \in Core => step \in {"idle", "send", "log", "count"},
           s \in Worker => step \notin {"send", "log", "count"},
           IF step \in {"log", "count", "save"} THEN message \in W!Accepted' ELSE message = None,
           reminded' \subseteq W!Accepted'
    PROVE  SendShape'
<1>1. sender'[s].step = step /\ sender'[s].msg = message /\ (step = "idle" => sender'[s] = W!Idle)
      /\ \A x \in W!Senders : x # s => sender'[x] = sender[x]
  BY DEF After
<1>2. Core \subseteq W!Senders /\ Worker \subseteq W!Senders
  BY DEF W!Senders
<1>3. \A x \in Core : sender'[x].step \in {"idle", "send", "log", "count"}
  BY <1>1, <1>2 DEF SendShape
<1>4. \A x \in Worker : sender'[x].step \notin {"send", "log", "count"}
  BY <1>1, <1>2 DEF SendShape
<1>5. ASSUME NEW x \in W!Senders
      PROVE  /\ IF sender'[x].step \in {"log", "count", "save"} THEN sender'[x].msg \in W!Accepted'
                ELSE sender'[x].msg = None
             /\ sender'[x].step = "idle" => sender'[x] = W!Idle
  <2>1. CASE x = s
    BY <1>1, <2>1
  <2>2. CASE x # s
    BY <1>1, <2>2 DEF SendShape, Holds
  <2>3. QED
    BY <2>1, <2>2
<1>6. QED
  BY <1>3, <1>4, <1>5 DEF SendShape, Holds, W!Idle

LEMMA SendShapeStep ==
    ASSUME W!WhatsAppAssumption, SendTypes, SendShape, [W!Next]_(W!vars)
    PROVE  SendShape'
<1>0. W!Accepted \subseteq W!Accepted'
  BY AcceptedGrows
<1>1. ASSUME NEW s \in Core, CoreStep(s) PROVE SendShape'
  <2>1. s \in W!Senders /\ s \notin Worker
    BY DEF W!Senders, W!WhatsAppAssumption
  <2>2. ASSUME NEW m \in Msg, W!CoreCall(s, m, TRUE) \/ W!CoreCall(s, m, FALSE) PROVE SendShape'
    <3>1. W!Accept(m) /\ reminded' \subseteq reminded \cup {m}
      BY <2>2 DEF W!CoreCall
    <3>2. m \in W!Accepted' /\ reminded' \subseteq W!Accepted'
      BY <1>0, <3>1, AcceptAccepts DEF SendShape
    <3>3. After(s, sender[s].kind, "log", m) \/ Done(s)
      BY <2>2, CoreAfter
    <3>4. QED
      BY <1>0, <2>1, <3>2, <3>3, SenderShape DEF Done
  <2>3. ASSUME reminded' = reminded PROVE reminded' \subseteq W!Accepted'
    BY <1>0, <2>3 DEF SendShape
  <2>4. CASE Check(s)
    <3>1. PICK kind \in {"notice", "reminder"} : W!CheckRateLimits(s, kind)
      BY <2>4 DEF Check
    <3>2. After(s, kind, "send", None) /\ reminded' = reminded
      BY <3>1, CoreAfter DEF W!CheckRateLimits
    <3>3. QED
      BY <1>0, <2>1, <2>3, <3>2, SenderShape
  <2>5. CASE W!CoreRefused(s) \/ W!IncrementRateLimits(s) \/ W!Break(s)
    <3>1. Done(s) /\ reminded' = reminded
      BY <2>1, <2>5, CoreAfter, BreakAfter DEF W!CoreRefused, W!IncrementRateLimits, W!Break, W!history
    <3>2. QED
      BY <1>0, <2>1, <2>3, <3>1, SenderShape DEF Done
  <2>6. CASE W!CoreLog(s)
    <3>1. After(s, sender[s].kind, "count", sender[s].msg) /\ reminded' = reminded
      BY <2>6, CoreAfter DEF W!CoreLog, W!history
    <3>2. sender[s].msg \in W!Accepted
      BY <2>1, <2>6 DEF W!CoreLog, SendShape, Holds
    <3>3. QED
      BY <1>0, <2>1, <2>3, <3>1, <3>2, SenderShape
  <2>7. QED
    BY <1>1, <2>2, <2>4, <2>5, <2>6 DEF CoreStep
<1>2. ASSUME NEW s \in Worker, WorkerStep(s) PROVE SendShape'
  <2>1. s \in W!Senders /\ s \notin Core
    BY DEF W!Senders, W!WhatsAppAssumption
  <2>2. reminded' = reminded
    BY <1>2 DEF WorkerStep, Taken, W!Take, W!Incr, W!SetEnd, W!Limit, W!SaveMessage, W!WorkerCall, W!WorkerRefused,
       W!Break, W!history
  <2>3. reminded' \subseteq W!Accepted'
    BY <1>0, <2>2 DEF SendShape
  <2>4. PICK kind, step, message :
          /\ After(s, kind, step, message)
          /\ step \in {"idle", "incr", "expire", "limit", "call", "save"}
          /\ \/ message = None /\ step # "save"
             \/ step = "save" /\ \E m \in Msg : message = m /\ W!WorkerCall(s, m, TRUE)
    BY <1>2, WorkerMoves DEF WorkerMoved
  <2>5. ASSUME NEW m \in Msg, W!WorkerCall(s, m, TRUE) PROVE m \in W!Accepted'
    BY <2>5, AcceptAccepts DEF W!WorkerCall
  <2>6. IF step \in {"log", "count", "save"} THEN message \in W!Accepted' ELSE message = None
    BY <2>4, <2>5
  <2>7. step \notin {"send", "log", "count"}
    BY <2>4
  <2>8. QED
    BY <1>0, <2>1, <2>3, <2>4, <2>6, <2>7, SenderShape
<1>3. CASE (\E k \in W!Key : W!DayPasses(k)) \/ MetaStep \/ UNCHANGED W!vars
  <2>1. sender' = sender /\ reminded' \subseteq reminded
    BY <1>3 DEF W!DayPasses, MetaStep, W!MetaDelivers, W!MetaFails, W!MetaGets, W!HandleStatusUpdate, W!vars, W!history
  <2>2. QED
    BY <1>0, <2>1 DEF SendShape, Holds, W!Idle
<1>4. QED
  BY <1>1, <1>2, <1>3, StepCases

-----------------------------------------------------------------------------
(* The end of a key *)

Ending(k) == \E s \in Worker : sender[s].step = "expire" /\ W!KeyOf(s) = k

\* Whoever is not about to set an end, or is elsewhere, keeps what ends.
LEMMA EndingStays ==
    ASSUME NEW s, sender[s].step # "expire", NEW k,
           \A x \in W!Senders : x # s => sender'[x] = sender[x]
    PROVE  Ending(k) => Ending(k)'
BY DEF Ending, W!KeyOf, W!Senders

LEMMA EndComesStep ==
    ASSUME W!WhatsAppAssumption, SendTypes, SendShape, EndComes, [W!Next]_(W!vars)
    PROVE  EndComes'
<1> SUFFICES ASSUME NEW k \in W!Key, daily'[k].n > 0
             PROVE  daily'[k].ends \/ "endless" \in slipped' \/ Ending(k)'
  BY DEF EndComes, Ending, W!KeyOf
<1>0. daily[k].n > 0 => daily[k].ends \/ "endless" \in slipped \/ Ending(k)
  BY DEF EndComes, Ending
<1>1. ASSUME NEW s \in Core, CoreStep(s) PROVE daily'[k].ends \/ "endless" \in slipped' \/ Ending(k)'
  <2>1. s \in W!Senders /\ sender[s].step # "expire"
    BY DEF W!Senders, SendShape
  <2>2. \A x \in W!Senders : x # s => sender'[x] = sender[x]
    <3>1. Check(s) => \E kind : After(s, kind, "send", None)
      BY CoreAfter DEF Check
    <3>2. \A m \in Msg, answered \in BOOLEAN : W!CoreCall(s, m, answered) =>
              Done(s) \/ After(s, sender[s].kind, "log", m)
      BY CoreAfter
    <3>3. W!CoreRefused(s) \/ W!CoreLog(s) \/ W!IncrementRateLimits(s) \/ W!Break(s) =>
              Done(s) \/ After(s, sender[s].kind, "count", sender[s].msg)
      BY <2>1, CoreAfter, BreakAfter
    <3>4. QED
      BY <1>1, <3>1, <3>2, <3>3 DEF CoreStep, Done, After
  <2>3. Ending(k) => Ending(k)'
    BY <2>1, <2>2, EndingStays
  <2>4. slipped \subseteq slipped'
    BY <1>1 DEF CoreStep, Check, W!CheckRateLimits, W!CoreRefused, W!CoreLog, W!CoreCall, W!IncrementRateLimits, W!Break,
       W!history
  <2>5. daily' = daily \/ daily' = [daily EXCEPT !["tenant"] = [n |-> 1, ends |-> TRUE]]
    BY <1>1 DEF CoreStep, Check, W!CheckRateLimits, W!CoreRefused, W!CoreLog, W!CoreCall, W!IncrementRateLimits, W!Break,
       W!counts
  <2>6. daily'[k] = daily[k] \/ daily'[k].ends
    BY <2>5 DEF SendTypes, W!Key
  <2>7. QED
    BY <1>0, <2>3, <2>4, <2>6
<1>2. ASSUME NEW s \in Worker, WorkerStep(s)
      PROVE  daily'[k].ends \/ "endless" \in slipped' \/ Ending(k)'
  <2>1. s \in W!Senders
    BY DEF W!Senders
  <2>2. \A x \in W!Senders : x # s => sender'[x] = sender[x]
    BY <1>2, WorkerMoves DEF WorkerMoved, After
  <2>3. CASE W!Incr(s)
    <3>1. sender[s].step # "expire" /\ slipped' = slipped /\ W!KeyOf(s) \in W!Key
      BY <2>3 DEF W!Incr, W!history, W!KeyOf, W!Key
    <3>2. /\ daily' = [daily EXCEPT ![W!KeyOf(s)] = [daily[W!KeyOf(s)] EXCEPT !.n = daily[W!KeyOf(s)].n + 1]]
          /\ \/ After(s, sender[s].kind, "expire", sender[s].msg)
             \/ After(s, sender[s].kind, "limit", sender[s].msg) /\ daily[W!KeyOf(s)].n > 0
      BY <2>1, <2>3, IncrAfter
    <3>3. Ending(k) => Ending(k)'
      BY <2>2, <3>1, EndingStays
    <3>4. daily[k] \in Counter
      BY DEF SendTypes, Counter
    <3>5. daily'[k].ends = daily[k].ends /\ (k # W!KeyOf(s) => daily'[k] = daily[k])
      BY <3>1, <3>2, <3>4 DEF SendTypes, Counter
    <3>6. CASE k # W!KeyOf(s) \/ daily[k].n > 0
      BY <1>0, <3>1, <3>3, <3>5, <3>6
    <3>7. CASE k = W!KeyOf(s) /\ After(s, sender[s].kind, "expire", sender[s].msg)
      BY <3>7 DEF After, Ending, W!KeyOf
    <3>8. QED
      BY <3>2, <3>6, <3>7
  <2>4. CASE W!SetEnd(s)
    <3>1. /\ daily' = [daily EXCEPT ![W!KeyOf(s)] = [daily[W!KeyOf(s)] EXCEPT !.ends = (daily[W!KeyOf(s)].n > 0)]]
          /\ slipped' = slipped /\ W!KeyOf(s) \in W!Key
      BY <2>4 DEF W!SetEnd, W!history, W!KeyOf, W!Key
    <3>2. daily[k] \in Counter
      BY DEF SendTypes, Counter
    <3>3. CASE k = W!KeyOf(s)
      <4>1. daily'[k] = [daily[k] EXCEPT !.ends = (daily[k].n > 0)]
        BY <3>1, <3>3 DEF SendTypes
      <4>2. daily'[k].n = daily[k].n /\ daily'[k].ends = (daily[k].n > 0)
        BY <3>2, <4>1 DEF Counter
      <4>3. QED
        BY <4>2
    <3>4. CASE k # W!KeyOf(s)
      <4>1. daily'[k] = daily[k]
        BY <3>1, <3>4 DEF SendTypes
      <4>2. Ending(k) => Ending(k)'
        BY <2>2, <3>4 DEF Ending, W!KeyOf, W!Senders
      <4>3. QED
        BY <1>0, <3>1, <4>1, <4>2
    <3>5. QED
      BY <3>3, <3>4
  <2>5. CASE W!Break(s)
    <3>1. /\ daily' = daily /\ slipped \subseteq slipped'
          /\ sender[s].step = "expire" => "endless" \in slipped'
      BY <2>5 DEF W!Break, W!counts
    <3>2. sender[s].step # "expire" => (Ending(k) => Ending(k)')
      BY <2>2, EndingStays
    <3>3. QED
      BY <1>0, <3>1, <3>2
  <2>6. CASE \/ Taken(s) \/ W!Limit(s) \/ W!SaveMessage(s)
             \/ \E m \in Msg, answered \in BOOLEAN : W!WorkerCall(s, m, answered)
             \/ \E final \in BOOLEAN : W!WorkerRefused(s, final)
    <3>1. daily' = daily /\ slipped' = slipped
      BY <2>6 DEF Taken, W!Take, W!Limit, W!SaveMessage, W!WorkerCall, W!WorkerRefused, W!counts, W!history
    <3>2. sender[s].step # "expire"
      <4>1. Taken(s) => sender[s].step = "idle"
        BY <2>1, WorkerAfter, SenderRecords
      <4>2. QED
        BY <2>6, <4>1 DEF W!Limit, W!SaveMessage, W!WorkerCall, W!WorkerRefused
    <3>3. QED
      BY <1>0, <2>2, <3>1, <3>2, EndingStays
  <2>7. QED
    BY <1>2, <2>3, <2>4, <2>5, <2>6 DEF WorkerStep
<1>3. ASSUME NEW j \in W!Key, W!DayPasses(j)
      PROVE  daily'[k].ends \/ "endless" \in slipped' \/ Ending(k)'
  <2>1. daily' = [daily EXCEPT ![j] = [n |-> 0, ends |-> FALSE]] /\ UNCHANGED <<sender, slipped>>
    BY <1>3 DEF W!DayPasses
  <2>2. j # k
    BY <2>1 DEF SendTypes
  <2>3. daily'[k] = daily[k] /\ (Ending(k) => Ending(k)')
    BY <2>1, <2>2 DEF SendTypes, Ending, W!KeyOf
  <2>4. QED
    BY <1>0, <2>1, <2>3
<1>4. CASE MetaStep \/ UNCHANGED W!vars
  <2>1. UNCHANGED <<daily, slipped, sender>>
    BY <1>4 DEF MetaStep, W!MetaDelivers, W!MetaFails, W!MetaGets, W!HandleStatusUpdate, W!vars, W!counts, W!history
  <2>2. QED
    BY <1>0, <2>1 DEF Ending, W!KeyOf
<1>5. QED
  BY <1>1, <1>2, <1>3, <1>4, StepCases

-----------------------------------------------------------------------------
(* The log *)

\* What a step does to meta, receipts and rows.
Posting(m) ==
    W!Accept(m) /\ row' = row /\ mixed' = mixed
Logging(s) ==
    Holds(s) /\ W!Insert(sender[s].msg) /\ meta' = meta /\ receipts' = receipts
LEMMA LogCases ==
    ASSUME [W!Next]_(W!vars)
    PROVE  \/ \E m \in Msg : Posting(m)
           \/ \E s \in W!Senders : Logging(s)
           \/ MetaStep
           \/ UNCHANGED <<meta, receipts, row, mixed>>
<1>1. ASSUME NEW s \in Core, CoreStep(s)
      PROVE  \/ \E m \in Msg : Posting(m)
             \/ Logging(s)
             \/ UNCHANGED <<meta, receipts, row, mixed>>
  <2>1. CASE W!CoreLog(s)
    BY <2>1 DEF W!CoreLog, Logging, Holds
  <2>2. CASE \E m \in Msg, answered \in BOOLEAN : W!CoreCall(s, m, answered)
    BY <2>2 DEF W!CoreCall, Posting, W!log
  <2>3. CASE Check(s) \/ W!CoreRefused(s) \/ W!IncrementRateLimits(s) \/ W!Break(s)
    BY <2>3 DEF Check, W!CheckRateLimits, W!CoreRefused, W!IncrementRateLimits, W!Break, W!log
  <2>4. QED
    BY <1>1, <2>1, <2>2, <2>3 DEF CoreStep
<1>2. ASSUME NEW s \in Worker, WorkerStep(s)
      PROVE  \/ \E m \in Msg : Posting(m)
             \/ Logging(s)
             \/ UNCHANGED <<meta, receipts, row, mixed>>
  <2>1. CASE W!SaveMessage(s)
    BY <2>1 DEF W!SaveMessage, Logging, Holds
  <2>2. CASE \E m \in Msg, answered \in BOOLEAN : W!WorkerCall(s, m, answered)
    BY <2>2 DEF W!WorkerCall, Posting, W!log
  <2>3. CASE \/ Taken(s) \/ W!Incr(s) \/ W!SetEnd(s) \/ W!Limit(s) \/ W!Break(s)
             \/ \E final \in BOOLEAN : W!WorkerRefused(s, final)
    BY <2>3 DEF Taken, W!Take, W!Incr, W!SetEnd, W!Limit, W!Break, W!WorkerRefused, W!log
  <2>4. QED
    BY <1>2, <2>1, <2>2, <2>3 DEF WorkerStep
<1>3. (\E k \in W!Key : W!DayPasses(k)) \/ UNCHANGED W!vars => UNCHANGED <<meta, receipts, row, mixed>>
  BY DEF W!DayPasses, W!vars, W!log
<1>4. QED
  BY <1>1, <1>2, <1>3, StepCases DEF W!Senders

LEMMA NotAheadStep ==
    ASSUME W!WhatsAppAssumption, SendTypes, SendShape, NotAhead, [W!Next]_(W!vars)
    PROVE  NotAhead'
<1> SUFFICES ASSUME NEW m \in Msg, NEW reached \in W!Statuses,
                    <<m, reached>> \in receipts' \/ row'[m] = reached
             PROVE  Reached(m, reached)'
  BY DEF NotAhead
<1>0. /\ {"SENT", "DELIVERED", "READ", "FAILED"} = W!Statuses /\ None \notin W!Statuses
      /\ <<m, reached>> \in receipts \/ row[m] = reached => Reached(m, reached)
  BY DEF W!Statuses, W!WhatsAppAssumption, NotAhead
<1>1. ASSUME NEW n \in Msg, Posting(n) PROVE Reached(m, reached)'
  <2>1. /\ meta[n] = None /\ meta' = [meta EXCEPT ![n] = "SENT"] /\ row' = row
        /\ receipts' = receipts \cup {<<n, "SENT">>}
    BY <1>1 DEF Posting, W!Accept
  <2>2. CASE m # n
    <3>1. <<m, reached>> \in receipts \/ row[m] = reached
      BY <2>1, <2>2
    <3>2. meta'[m] = meta[m]
      BY <2>1, <2>2 DEF SendTypes
    <3>3. QED
      BY <1>0, <3>1, <3>2 DEF Reached
  <2>3. CASE m = n
    <3>1. ~Reached(m, reached)
      BY <2>1, <2>3 DEF Reached
    <3>2. reached = "SENT" /\ meta'[m] = "SENT"
      BY <1>0, <2>1, <2>3, <3>1 DEF SendTypes
    <3>3. QED
      BY <1>0, <3>2 DEF Reached
  <2>4. QED
    BY <2>2, <2>3
<1>2. ASSUME NEW s \in W!Senders, Logging(s) PROVE Reached(m, reached)'
  <2>1. /\ meta' = meta /\ receipts' = receipts /\ row' = [row EXCEPT ![sender[s].msg] = "SENT"]
        /\ sender[s].msg \in W!Accepted
    BY <1>2 DEF Logging, W!Insert, SendShape
  <2>2. CASE <<m, reached>> \in receipts \/ row[m] = reached
    BY <1>0, <2>1, <2>2 DEF Reached
  <2>3. CASE ~(<<m, reached>> \in receipts \/ row[m] = reached)
    <3>1. m = sender[s].msg /\ reached = "SENT"
      BY <2>1, <2>3 DEF SendTypes
    <3>2. QED
      BY <2>1, <3>1 DEF W!Accepted, Reached
  <2>4. QED
    BY <2>2, <2>3
<1>3. ASSUME NEW n \in Msg, MetaGoes(n) PROVE Reached(m, reached)'
  <2>1. meta[n] \in {"SENT", "DELIVERED"} /\ row' = row
    BY <1>3, MetaGoesOn
  <2>2. PICK new \in Onwards(meta[n]) : /\ meta' = [meta EXCEPT ![n] = new]
                                      /\ receipts' = receipts \cup {<<n, new>>}
    BY <1>3, MetaGoesOn
  <2>3. CASE m # n
    <3>1. <<m, reached>> \in receipts \/ row[m] = reached
      BY <2>1, <2>2, <2>3
    <3>2. meta'[m] = meta[m]
      BY <2>2, <2>3 DEF SendTypes
    <3>3. QED
      BY <1>0, <3>1, <3>2 DEF Reached
  <2>4. CASE m = n
    <3>1. meta'[m] = new
      BY <2>2, <2>4 DEF SendTypes
    <3>2. Reached(m, reached) \/ reached = new
      BY <1>0, <2>1, <2>2, <2>4
    <3>3. new \in W!Statuses
      BY <1>0, <2>2 DEF Onwards
    <3>4. QED
      BY <1>0, <2>1, <2>2, <2>4, <3>1, <3>2, <3>3 DEF Reached, Onwards
  <2>5. QED
    BY <2>3, <2>4
<1>4. ASSUME NEW n \in Msg, NEW new \in W!Statuses, NEW applied \in BOOLEAN,
             W!HandleStatusUpdate(n, new, applied)
      PROVE  Reached(m, reached)'
  <2>1. /\ <<n, new>> \in receipts /\ receipts' \subseteq receipts /\ meta' = meta
        /\ row' = row \/ row' = [row EXCEPT ![n] = new]
    BY <1>4 DEF W!HandleStatusUpdate
  <2>2. <<m, reached>> \in receipts \/ row[m] = reached
    BY <2>1 DEF SendTypes
  <2>3. QED
    BY <1>0, <2>1, <2>2 DEF Reached
<1>5. CASE UNCHANGED <<meta, receipts, row, mixed>>
  BY <1>0, <1>5 DEF Reached
<1>6. QED
  BY <1>1, <1>2, <1>3, <1>4, <1>5, LogCases DEF MetaStep, MetaGoes

LEMMA RowsStay ==
    ASSUME W!WhatsAppAssumption, SendTypes, [W!Next]_(W!vars)
    PROVE  \A m \in Msg : row[m] # None => row'[m] # None
<1>1. None \notin W!Statuses /\ "SENT" \in W!Statuses
  BY DEF W!WhatsAppAssumption, W!Statuses
<1>2. ASSUME NEW s \in W!Senders, Logging(s) PROVE \A m \in Msg : row[m] # None => row'[m] # None
  BY <1>1, <1>2 DEF Logging, W!Insert, SendTypes
<1>3. ASSUME MetaStep PROVE \A m \in Msg : row[m] # None => row'[m] # None
  <2>1. \/ row' = row
        \/ \E n \in Msg, new \in W!Statuses : row' = [row EXCEPT ![n] = new]
    BY <1>3 DEF MetaStep, W!MetaDelivers, W!MetaFails, W!MetaGets, W!HandleStatusUpdate, W!log
  <2>2. QED
    BY <1>1, <2>1 DEF SendTypes
<1>4. QED
  BY <1>2, <1>3, LogCases DEF Posting

LEMMA LostStays == ASSUME [W!Next]_(W!vars) PROVE lost \subseteq lost'
<1>1. ASSUME NEW s \in Core, CoreStep(s) PROVE lost \subseteq lost'
  BY <1>1 DEF CoreStep, Check, W!CheckRateLimits, W!CoreRefused, W!CoreLog, W!CoreCall, W!IncrementRateLimits, W!Break
<1>2. ASSUME NEW s \in Worker, WorkerStep(s) PROVE lost \subseteq lost'
  BY <1>2 DEF WorkerStep, Taken, W!Take, W!Incr, W!SetEnd, W!Limit, W!SaveMessage, W!WorkerCall, W!WorkerRefused, W!Break
<1>3. (\E k \in W!Key : W!DayPasses(k)) \/ MetaStep \/ UNCHANGED W!vars => lost \subseteq lost'
  BY DEF W!DayPasses, MetaStep, W!MetaDelivers, W!MetaFails, W!MetaGets, W!HandleStatusUpdate, W!vars
<1>4. QED
  BY <1>1, <1>2, <1>3, StepCases

\* The message a sender has it keeps, logs or loses.
LEMMA HolderSteps ==
    ASSUME W!WhatsAppAssumption, SendTypes, SendShape, Logged, NEW s \in W!Senders, Holds(s),
           (s \in Core /\ CoreStep(s)) \/ (s \in Worker /\ WorkerStep(s))
    PROVE  LET m == sender[s].msg IN
           /\ row'[m] # None \/ m \in lost' \/ sender'[s].msg = m
           /\ sender'[s].step = "count" => row'[m] # None /\ sender'[s].msg = m
<1> DEFINE m == sender[s].msg
<1>0. None \notin Msg /\ None # "SENT" /\ m \in Msg /\ W!Idle.msg = None /\ W!Idle.step = "idle"
  BY SenderRecords DEF W!WhatsAppAssumption, SendShape, W!Accepted
<1>1. CASE s \in Core /\ W!CoreLog(s)
  <2>1. row' = [row EXCEPT ![m] = "SENT"] /\ sender'[s].msg = m
    BY <1>1, CoreAfter DEF W!CoreLog, W!Insert, After
  <2>2. QED
    BY <1>0, <2>1 DEF SendTypes
<1>2. CASE s \in Core /\ W!IncrementRateLimits(s)
  <2>1. row' = row /\ sender[s].step = "count" /\ sender'[s] = W!Idle
    BY <1>2, CoreAfter DEF W!IncrementRateLimits, Done, After, W!log
  <2>2. QED
    BY <1>0, <2>1 DEF Logged
<1>3. CASE s \in Worker /\ W!SaveMessage(s)
  <2>1. row' = [row EXCEPT ![m] = "SENT"] /\ sender'[s] = W!Idle
    BY <1>3, WorkerAfter DEF W!SaveMessage, W!Insert, Done, After
  <2>2. QED
    BY <1>0, <2>1 DEF SendTypes
<1>4. CASE W!Break(s)
  <2>1. /\ row' = row
        /\ sender[s].step \in {"log", "save"} => m \in lost'
        /\ sender[s].step = "count" => row[m] # None
    BY <1>4 DEF W!Break, W!log, Logged
  <2>2. sender'[s].step # "count"
    BY <1>0, <1>4, BreakAfter DEF Retried, Done, After
  <2>3. QED
    BY <2>1, <2>2 DEF Holds
<1>5. CASE s \in Core /\ ~W!CoreLog(s) /\ ~W!IncrementRateLimits(s) /\ ~W!Break(s)
  <2>1. sender[s].step \in {"idle", "send"}
    <3>1. Check(s) => sender[s] = W!Idle
      BY <1>5, CoreAfter DEF Check
    <3>2. W!CoreRefused(s) \/ (\E n \in Msg, answered \in BOOLEAN : W!CoreCall(s, n, answered)) =>
              sender[s].step = "send"
      BY DEF W!CoreRefused, W!CoreCall
    <3>3. s \notin Worker
      BY <1>5 DEF W!WhatsAppAssumption
    <3>4. QED
      BY <1>0, <1>5, <3>1, <3>2, <3>3 DEF CoreStep
  <2>2. QED
    BY <2>1 DEF Holds
<1>6. CASE s \in Worker /\ ~W!SaveMessage(s) /\ ~W!Break(s)
  <2>1. sender[s].step \in {"idle", "incr", "expire", "limit", "call"}
    <3>1. Taken(s) => sender[s] = W!Idle
      BY <1>6, WorkerAfter
    <3>2. /\ W!Incr(s) => sender[s].step = "incr"
          /\ W!SetEnd(s) => sender[s].step = "expire"
          /\ W!Limit(s) => sender[s].step = "limit"
          /\ (\E n \in Msg, answered \in BOOLEAN : W!WorkerCall(s, n, answered)) => sender[s].step = "call"
          /\ (\E final \in BOOLEAN : W!WorkerRefused(s, final)) => sender[s].step = "call"
      BY DEF W!Incr, W!SetEnd, W!Limit, W!WorkerCall, W!WorkerRefused
    <3>3. s \notin Core
      BY <1>6 DEF W!WhatsAppAssumption
    <3>4. QED
      BY <1>0, <1>6, <3>1, <3>2, <3>3 DEF WorkerStep
  <2>2. QED
    BY <2>1 DEF Holds
<1>7. QED
  BY <1>1, <1>2, <1>3, <1>4, <1>5, <1>6

\* Who had no message has none to count.
LEMMA OtherSteps ==
    ASSUME W!WhatsAppAssumption, SendTypes, SendShape, NEW s \in W!Senders, ~Holds(s),
           (s \in Core /\ CoreStep(s)) \/ (s \in Worker /\ WorkerStep(s))
    PROVE  sender'[s].step # "count"
<1>1. CASE s \in Worker /\ WorkerStep(s)
  BY <1>1, WorkerMoves DEF WorkerMoved, After
<1>2. CASE s \in Core /\ CoreStep(s)
  <2>1. ~W!CoreLog(s)
    BY DEF W!CoreLog, Holds
  <2>2. Check(s) => sender'[s].step = "send"
    BY <1>2, CoreAfter DEF Check, After
  <2>3. \A m \in Msg, answered \in BOOLEAN : W!CoreCall(s, m, answered) => sender'[s].step \in {"log", "idle"}
    BY <1>2, CoreAfter DEF Done, After
  <2>4. W!CoreRefused(s) \/ W!IncrementRateLimits(s) \/ W!Break(s) => sender'[s].step = "idle"
    BY <1>2, CoreAfter, BreakAfter DEF Done, After
  <2>5. QED
    BY <1>2, <2>1, <2>2, <2>3, <2>4 DEF CoreStep
<1>3. QED
  BY <1>1, <1>2

LEMMA OneActs ==
    ASSUME W!WhatsAppAssumption, SendTypes, SendShape, [W!Next]_(W!vars)
    PROVE  \/ \E s \in W!Senders : /\ (s \in Core /\ CoreStep(s)) \/ (s \in Worker /\ WorkerStep(s))
                                   /\ \A x \in W!Senders : x # s => sender'[x] = sender[x]
           \/ sender' = sender /\ ((\E k \in W!Key : W!DayPasses(k)) \/ MetaStep \/ UNCHANGED W!vars)
<1>1. ASSUME NEW s \in Core, CoreStep(s) PROVE \A x \in W!Senders : x # s => sender'[x] = sender[x]
  <2>1. s \in W!Senders
    BY DEF W!Senders
  <2>2. Check(s) => \E kind : After(s, kind, "send", None)
    BY CoreAfter DEF Check
  <2>3. \A m \in Msg, answered \in BOOLEAN : W!CoreCall(s, m, answered) =>
            Done(s) \/ After(s, sender[s].kind, "log", m)
    BY CoreAfter
  <2>4. W!CoreRefused(s) \/ W!CoreLog(s) \/ W!IncrementRateLimits(s) \/ W!Break(s) =>
            Done(s) \/ After(s, sender[s].kind, "count", sender[s].msg)
    BY <2>1, CoreAfter, BreakAfter
  <2>5. QED
    BY <1>1, <2>2, <2>3, <2>4 DEF CoreStep, Done, After
<1>2. ASSUME NEW s \in Worker, WorkerStep(s) PROVE \A x \in W!Senders : x # s => sender'[x] = sender[x]
  BY <1>2, WorkerMoves DEF WorkerMoved, After
<1>3. (\E k \in W!Key : W!DayPasses(k)) \/ MetaStep \/ UNCHANGED W!vars => sender' = sender
  BY DEF W!DayPasses, MetaStep, W!MetaDelivers, W!MetaFails, W!MetaGets, W!HandleStatusUpdate, W!vars
<1>4. QED
  BY <1>1, <1>2, <1>3, StepCases DEF W!Senders

LEMMA LoggedStep ==
    ASSUME W!WhatsAppAssumption, SendTypes, SendShape, Logged, [W!Next]_(W!vars)
    PROVE  Logged'
<1>0. None \notin Msg
  BY DEF W!WhatsAppAssumption
<1>1. ASSUME NEW s \in W!Senders, (s \in Core /\ CoreStep(s)) \/ (s \in Worker /\ WorkerStep(s)),
             \A x \in W!Senders : x # s => sender'[x] = sender[x]
      PROVE  Logged'
  <2>1. ASSUME NEW m \in W!Accepted PROVE row'[m] # None \/ m \in lost' \/ \E x \in W!Senders : sender'[x].msg = m
    <3>1. m \in Msg
      BY DEF W!Accepted
    <3>2. CASE row[m] # None \/ m \in lost
      BY <3>1, <3>2, RowsStay, LostStays
    <3>3. ASSUME NEW x \in W!Senders, sender[x].msg = m, x # s
          PROVE  \E y \in W!Senders : sender'[y].msg = m
      BY <1>1, <3>3
    <3>4. CASE sender[s].msg = m
      <4>1. Holds(s)
        BY <1>0, <3>1, <3>4 DEF SendShape
      <4>2. QED
        BY <1>1, <3>4, <4>1, HolderSteps
    <3>5. QED
      BY <3>2, <3>3, <3>4 DEF Logged
  <2>2. ASSUME NEW m \in W!Accepted', m \notin W!Accepted PROVE m \in lost' \/ sender'[s].msg = m
    <3>1. m \in Msg /\ meta'[m] # meta[m]
      BY <2>2 DEF W!Accepted
    <3>2. CASE s \in Core /\ CoreStep(s)
      <4>1. PICK n \in Msg, answered \in BOOLEAN : W!CoreCall(s, n, answered)
        BY <3>1, <3>2 DEF CoreStep, Check, W!CheckRateLimits, W!CoreRefused, W!CoreLog, W!IncrementRateLimits, W!Break
      <4>2. m = n
        BY <3>1, <4>1 DEF W!CoreCall, W!Accept, SendTypes
      <4>3. CASE answered = TRUE
        BY <3>2, <4>1, <4>2, <4>3, CoreAfter DEF After
      <4>4. CASE answered = FALSE
        BY <4>1, <4>2, <4>4 DEF W!CoreCall
      <4>5. QED
        BY <4>3, <4>4
    <3>3. CASE s \in Worker /\ WorkerStep(s)
      <4>1. PICK n \in Msg, answered \in BOOLEAN : W!WorkerCall(s, n, answered)
        BY <3>1, <3>3 DEF WorkerStep, Taken, W!Take, W!Incr, W!SetEnd, W!Limit, W!SaveMessage, W!WorkerRefused, W!Break
      <4>2. m = n
        BY <3>1, <4>1 DEF W!WorkerCall, W!Accept, SendTypes
      <4>3. CASE answered = TRUE
        BY <3>3, <4>1, <4>2, <4>3, WorkerAfter DEF After
      <4>4. CASE answered = FALSE
        BY <4>1, <4>2, <4>4 DEF W!WorkerCall
      <4>5. QED
        BY <4>3, <4>4
    <3>4. QED
      BY <1>1, <3>2, <3>3
  <2>3. ASSUME NEW x \in W!Senders, sender'[x].step = "count" PROVE row'[sender'[x].msg] # None
    <3>1. CASE x = s
      <4>1. Holds(s)
        BY <1>1, <2>3, <3>1, OtherSteps
      <4>2. QED
        BY <1>1, <2>3, <3>1, <4>1, HolderSteps
    <3>2. CASE x # s
      <4>1. sender'[x] = sender[x] /\ row[sender[x].msg] # None /\ sender[x].msg \in Msg
        BY <1>1, <2>3, <3>2 DEF Logged, SendShape, Holds, W!Accepted
      <4>2. QED
        BY <4>1, RowsStay
    <3>3. QED
      BY <3>1, <3>2
  <2>4. QED
    BY <2>1, <2>2, <2>3 DEF Logged
<1>2. CASE sender' = sender /\ ((\E k \in W!Key : W!DayPasses(k)) \/ MetaStep \/ UNCHANGED W!vars)
  <2>1. W!Accepted' = W!Accepted
    <3>1. ASSUME NEW m \in Msg, MetaGoes(m) PROVE W!Accepted' = W!Accepted
      <4>1. PICK new \in W!Statuses : meta' = [meta EXCEPT ![m] = new]
        BY <3>1, MetaGoesOn
      <4>2. meta[m] # None /\ new # None
        BY <3>1, MetaGoesOn DEF W!Statuses, W!WhatsAppAssumption
      <4>3. QED
        BY <4>1, <4>2 DEF W!Accepted, SendTypes
    <3>2. CASE meta' = meta
      BY <3>2 DEF W!Accepted
    <3>3. QED
      BY <1>2, <3>1, <3>2 DEF MetaStep, MetaGoes, W!HandleStatusUpdate, W!DayPasses, W!vars
  <2>2. W!Accepted \subseteq Msg
    BY DEF W!Accepted
  <2>3. \A s \in W!Senders : sender[s].step = "count" => sender[s].msg \in Msg
    BY <2>2 DEF SendShape, Holds
  <2>4. QED
    BY <1>2, <2>1, <2>2, <2>3, RowsStay, LostStays DEF Logged
<1>3. QED
  BY <1>1, <1>2, OneActs

\* An excuse stays.
LEMMA ExcusesStay == ASSUME [W!Next]_(W!vars) PROVE slipped \subseteq slipped' /\ mixed \subseteq mixed'
<1>1. ASSUME NEW s \in Core, CoreStep(s) PROVE slipped \subseteq slipped' /\ mixed \subseteq mixed'
  <2>1. CASE Check(s)
    BY <2>1 DEF Check, W!CheckRateLimits
  <2>2. CASE W!CoreRefused(s) \/ W!CoreLog(s) \/ W!IncrementRateLimits(s) \/ W!Break(s)
    BY <2>2 DEF W!CoreRefused, W!CoreLog, W!Insert, W!IncrementRateLimits, W!Break, W!history
  <2>3. CASE \E m \in Msg, answered \in BOOLEAN : W!CoreCall(s, m, answered)
    BY <2>3 DEF W!CoreCall
  <2>4. QED
    BY <1>1, <2>1, <2>2, <2>3 DEF CoreStep
<1>2. ASSUME NEW s \in Worker, WorkerStep(s) PROVE slipped \subseteq slipped' /\ mixed \subseteq mixed'
  BY <1>2 DEF WorkerStep, Taken, W!Take, W!Incr, W!SetEnd, W!Limit, W!SaveMessage, W!Insert, W!WorkerCall, W!WorkerRefused,
     W!Break, W!history
<1>3. (\E k \in W!Key : W!DayPasses(k)) \/ MetaStep \/ UNCHANGED W!vars => slipped \subseteq slipped' /\ mixed \subseteq mixed'
  BY DEF W!DayPasses, MetaStep, W!MetaDelivers, W!MetaFails, W!MetaGets, W!HandleStatusUpdate, W!vars, W!history
<1>4. QED
  BY <1>1, <1>2, <1>3, StepCases

\* What is not in the step's message stays as it was.
LEMMA SameInOrder ==
    ASSUME NEW m, InOrder(m), row'[m] = row[m], meta'[m] = meta[m],
           \A reached \in W!Statuses : <<m, reached>> \in receipts' <=> <<m, reached>> \in receipts
    PROVE  InOrder(m)'
<1>1. {"SENT", "DELIVERED", "READ", "FAILED"} = W!Statuses
  BY DEF W!Statuses
<1>2. QED
  BY <1>1 DEF InOrder

LEMMA InOrderStep ==
    ASSUME W!WhatsAppAssumption, SendTypes, SendShape, NotAhead, [W!Next]_(W!vars),
           \A m \in W!Accepted : m \in mixed \/ InOrder(m)
    PROVE  \A m \in W!Accepted' : m \in mixed' \/ InOrder(m)'
<1> SUFFICES ASSUME NEW m \in W!Accepted', m \notin mixed'
             PROVE  InOrder(m)'
  OBVIOUS
<1>0. /\ {"SENT", "DELIVERED", "READ", "FAILED"} = W!Statuses /\ None \notin W!Statuses /\ None \notin Msg
      /\ m \in Msg /\ m \notin mixed
  BY ExcusesStay DEF W!Statuses, W!WhatsAppAssumption, W!Accepted
<1>1. /\ m \in W!Accepted => InOrder(m)
      /\ row[m] \in W!Statuses \cup {None} /\ meta[m] \in W!Statuses \cup {None}
      /\ \A reached \in W!Statuses : <<m, reached>> \in receipts \/ row[m] = reached => Reached(m, reached)
  BY <1>0 DEF NotAhead, SendTypes
<1>2. ASSUME NEW n \in Msg, Posting(n) PROVE InOrder(m)'
  <2>1. /\ meta[n] = None /\ meta' = [meta EXCEPT ![n] = "SENT"] /\ row' = row
        /\ receipts' = receipts \cup {<<n, "SENT">>}
    BY <1>2 DEF Posting, W!Accept
  <2>2. CASE m # n
    <3>1. meta'[m] = meta[m] /\ m \in W!Accepted
      BY <1>0, <2>1, <2>2 DEF SendTypes, W!Accepted
    <3>2. \A reached \in W!Statuses : <<m, reached>> \in receipts' <=> <<m, reached>> \in receipts
      BY <2>1, <2>2
    <3>3. QED
      BY <1>1, <2>1, <3>1, <3>2, SameInOrder
  <2>3. CASE m = n
    <3>1. row[m] = None /\ \A reached \in W!Statuses : <<m, reached>> \notin receipts
      BY <1>1, <2>1, <2>3 DEF Reached
    <3>2. /\ meta'[m] = "SENT" /\ row'[m] = None /\ <<m, "SENT">> \in receipts'
          /\ <<m, "DELIVERED">> \notin receipts' /\ <<m, "READ">> \notin receipts'
          /\ <<m, "FAILED">> \notin receipts'
      BY <1>0, <2>1, <2>3, <3>1 DEF SendTypes
    <3>3. QED
      BY <3>2 DEF InOrder
  <2>4. QED
    BY <2>2, <2>3
<1>3. ASSUME NEW s \in W!Senders, Logging(s) PROVE InOrder(m)'
  <2> DEFINE n == sender[s].msg
  <2>1. /\ meta' = meta /\ receipts' = receipts /\ row' = [row EXCEPT ![n] = "SENT"]
        /\ <<n, "SENT">> \notin receipts => n \in mixed'
        /\ m \in W!Accepted
    BY <1>3 DEF Logging, W!Insert, W!Accepted
  <2>2. CASE m # n
    <3>1. row'[m] = row[m]
      BY <2>1, <2>2 DEF SendTypes
    <3>2. QED
      BY <1>1, <2>1, <3>1, SameInOrder
  <2>3. CASE m = n
    <3>1. row'[m] = "SENT" /\ meta'[m] = meta[m] /\ <<m, "SENT">> \in receipts
      BY <1>0, <2>1, <2>3 DEF SendTypes
    <3>2. QED
      BY <1>1, <2>1, <3>1 DEF InOrder
  <2>4. QED
    BY <2>2, <2>3
<1>4. ASSUME NEW n \in Msg, MetaGoes(n) PROVE InOrder(m)'
  <2>1. meta[n] \in {"SENT", "DELIVERED"} /\ row' = row
    BY <1>4, MetaGoesOn
  <2>2. PICK new \in Onwards(meta[n]) : /\ meta' = [meta EXCEPT ![n] = new]
                                      /\ receipts' = receipts \cup {<<n, new>>}
    BY <1>4, MetaGoesOn
  <2>3. CASE m # n
    <3>1. meta'[m] = meta[m] /\ m \in W!Accepted
      BY <1>0, <2>2, <2>3 DEF SendTypes, W!Accepted
    <3>2. \A reached \in W!Statuses : <<m, reached>> \in receipts' <=> <<m, reached>> \in receipts
      BY <2>2, <2>3
    <3>3. QED
      BY <1>1, <2>1, <3>1, <3>2, SameInOrder
  <2>4. CASE m = n
    <3>1. meta'[m] = new /\ meta[m] # None /\ receipts' = receipts \cup {<<m, new>>}
      BY <1>0, <2>1, <2>2, <2>4 DEF SendTypes
    <3>2. InOrder(m)
      BY <1>0, <1>1, <3>1 DEF W!Accepted
    <3>3. CASE meta[m] = "SENT"
      <4>1. /\ row[m] \in {None, "SENT"} /\ new \in {"DELIVERED", "FAILED"}
            /\ \A reached \in W!Statuses \ {"SENT"} : <<m, reached>> \notin receipts
        BY <1>0, <1>1, <2>2, <2>4, <3>3 DEF Onwards, Reached
      <4>2. \A reached \in W!Statuses : <<m, reached>> \in receipts' <=>
                                         <<m, reached>> \in receipts \/ reached = new
        BY <3>1
      <4>3. \A reached \in {"DELIVERED", "READ", "FAILED"} : <<m, reached>> \in receipts' <=> reached = new
        BY <1>0, <4>1, <4>2
      <4>4. <<m, "SENT">> \in receipts' <=> <<m, "SENT">> \in receipts
        BY <1>0, <4>1, <4>2
      <4>5. QED
        BY <2>1, <3>1, <3>2, <3>3, <4>1, <4>3, <4>4 DEF InOrder
    <3>4. CASE meta[m] = "DELIVERED"
      <4>1. /\ new = "READ" /\ row[m] \in {None, "SENT", "DELIVERED"}
            /\ <<m, "READ">> \in receipts' /\ <<m, "READ">> \notin receipts
            /\ <<m, "SENT">> \in receipts' <=> <<m, "SENT">> \in receipts
            /\ <<m, "DELIVERED">> \in receipts' <=> <<m, "DELIVERED">> \in receipts
            /\ <<m, "FAILED">> \notin receipts' /\ <<m, "FAILED">> \notin receipts
        BY <1>0, <1>1, <2>2, <2>4, <3>1, <3>4 DEF Onwards, Reached
      <4>2. QED
        BY <2>1, <3>1, <3>2, <3>4, <4>1 DEF InOrder
    <3>5. QED
      BY <2>1, <2>4, <3>3, <3>4
  <2>5. QED
    BY <2>3, <2>4
<1>5. ASSUME NEW n \in Msg, NEW new \in W!Statuses, NEW applied \in BOOLEAN,
             W!HandleStatusUpdate(n, new, applied)
      PROVE  InOrder(m)'
  <2>1. /\ <<n, new>> \in receipts /\ receipts' = receipts \ {<<n, new>>} /\ meta' = meta
        /\ row' = IF applied /\ row[n] # None THEN [row EXCEPT ![n] = new] ELSE row
        /\ ~applied \/ row[n] = None \/ W!Overtakes(n, new) => n \in mixed'
        /\ m \in W!Accepted
    BY <1>5 DEF W!HandleStatusUpdate, W!Accepted
  <2>2. CASE m # n
    <3>1. row'[m] = row[m] /\ meta'[m] = meta[m]
      BY <2>1, <2>2 DEF SendTypes
    <3>2. \A reached \in W!Statuses : <<m, reached>> \in receipts' <=> <<m, reached>> \in receipts
      BY <2>1, <2>2
    <3>3. QED
      BY <1>1, <2>1, <3>1, <3>2, SameInOrder
  <2>3. CASE m = n
    <3>1. /\ row[m] # None /\ row'[m] = new /\ meta'[m] = meta[m] /\ ~W!Overtakes(m, new)
          /\ Reached(m, new)
      BY <1>0, <1>1, <2>1, <2>3 DEF SendTypes
    <3>2. \A reached \in W!Statuses : <<m, reached>> \in receipts' <=> <<m, reached>> \in receipts /\ reached # new
      BY <2>1, <2>3
    <3>3. CASE new = "SENT"
      <4>1. row[m] = "SENT" /\ (meta[m] \in {"DELIVERED", "READ"} => <<m, "DELIVERED">> \in receipts)
        BY <1>1, <2>1, <2>3, <3>1, <3>3 DEF InOrder
      <4>2. /\ <<m, "SENT">> \notin receipts'
            /\ <<m, "DELIVERED">> \in receipts' <=> <<m, "DELIVERED">> \in receipts
            /\ <<m, "READ">> \in receipts' <=> <<m, "READ">> \in receipts
            /\ <<m, "FAILED">> \in receipts' <=> <<m, "FAILED">> \in receipts
        BY <1>0, <3>2, <3>3
      <4>3. <<m, "READ">> \in receipts => <<m, "DELIVERED">> \in receipts
        BY <1>0, <1>1, <4>1 DEF Reached
      <4>4. <<m, "DELIVERED">> \in receipts => (meta[m] = "READ" => <<m, "READ">> \in receipts)
        BY <1>1, <2>1 DEF InOrder
      <4>5. None # "SENT" /\ (meta[m] = "SENT" \/ <<m, "DELIVERED">> \in receipts \/ <<m, "FAILED">> \in receipts)
        BY <1>0, <1>1, <2>1, <2>3, <3>1, <3>3, <4>1 DEF Reached, InOrder
      <4>6. QED
        BY <3>1, <3>3, <4>2, <4>3, <4>4, <4>5 DEF InOrder
    <3>4. CASE new = "DELIVERED"
      <4>1. <<m, "SENT">> \notin receipts
        BY <3>1, <3>4 DEF W!Overtakes
      <4>2. /\ <<m, "DELIVERED">> \notin receipts' /\ <<m, "SENT">> \notin receipts'
            /\ <<m, "READ">> \in receipts' <=> <<m, "READ">> \in receipts
            /\ <<m, "FAILED">> \notin receipts'
        BY <1>0, <1>1, <3>1, <3>2, <3>4, <4>1 DEF Reached
      <4>3. meta[m] = "READ" => <<m, "READ">> \in receipts
        BY <1>1, <2>1, <2>3, <3>4 DEF InOrder
      <4>4. QED
        BY <1>0, <3>1, <3>4, <4>2, <4>3 DEF InOrder, Reached
    <3>5. CASE new = "READ"
      <4>1. <<m, "SENT">> \notin receipts /\ <<m, "DELIVERED">> \notin receipts
        BY <3>1, <3>5 DEF W!Overtakes
      <4>2. \A reached \in W!Statuses : <<m, reached>> \notin receipts'
        BY <1>0, <1>1, <3>1, <3>2, <3>5, <4>1 DEF Reached
      <4>3. QED
        BY <1>0, <3>1, <3>5, <4>2 DEF InOrder, Reached
    <3>6. CASE new = "FAILED"
      <4>1. <<m, "SENT">> \notin receipts
        BY <3>1, <3>6 DEF W!Overtakes
      <4>2. \A reached \in W!Statuses : <<m, reached>> \notin receipts'
        BY <1>0, <1>1, <3>1, <3>2, <3>6, <4>1 DEF Reached
      <4>3. QED
        BY <1>0, <3>1, <3>6, <4>2 DEF InOrder, Reached
    <3>7. QED
      BY <1>0, <3>3, <3>4, <3>5, <3>6
  <2>4. QED
    BY <2>2, <2>3
<1>6. CASE UNCHANGED <<meta, receipts, row, mixed>>
  <2>1. m \in W!Accepted
    BY <1>6 DEF W!Accepted
  <2>2. QED
    BY <1>1, <1>6, <2>1, SameInOrder
<1>7. QED
  BY <1>2, <1>3, <1>4, <1>5, <1>6, LogCases DEF MetaStep, MetaGoes

-----------------------------------------------------------------------------
(* What the core counts, and its reminders *)

\* A step leaves the requests of the core alone, or is one request's.
LEMMA CoreAlone ==
    ASSUME W!WhatsAppAssumption, SendTypes, SendShape, [W!Next]_(W!vars), ~\E s \in Core : CoreStep(s)
    PROVE  /\ \A s \in Core : sender'[s] = sender[s]
           /\ UNCHANGED <<total, sent>>
<1>1. ASSUME NEW s \in Worker, WorkerStep(s)
      PROVE  (\A x \in Core : sender'[x] = sender[x]) /\ UNCHANGED <<total, sent>>
  <2>1. \A x \in Core : x # s /\ x \in W!Senders
    BY DEF W!WhatsAppAssumption, W!Senders
  <2>2. \A x \in Core : sender'[x] = sender[x]
    BY <1>1, <2>1, WorkerMoves DEF WorkerMoved, After
  <2>3. UNCHANGED <<total, sent>>
    BY <1>1 DEF WorkerStep, Taken, W!Take, W!Incr, W!SetEnd, W!Limit, W!SaveMessage, W!WorkerCall, W!WorkerRefused,
       W!Break, W!history, W!counts
  <2>4. QED
    BY <2>2, <2>3
<1>2. (\E k \in W!Key : W!DayPasses(k)) \/ MetaStep \/ UNCHANGED W!vars => UNCHANGED <<sender, total, sent>>
  BY DEF W!DayPasses, MetaStep, W!MetaDelivers, W!MetaFails, W!MetaGets, W!HandleStatusUpdate, W!vars, W!counts, W!history
<1>3. QED
  BY <1>1, <1>2, StepCases

\* The requests at work, after the step of one.
LEMMA PassedAfter ==
    ASSUME W!WhatsAppAssumption, NEW s \in Core, NEW kind, NEW step, NEW message, After(s, kind, step, message)
    PROVE  /\ W!Passed' = IF step = "idle" THEN W!Passed \ {s} ELSE W!Passed \cup {s}
           /\ Answered' = IF step \in {"log", "count"} THEN Answered \cup {s} ELSE Answered \ {s}
<1>1. /\ sender'[s].step = step /\ \A x \in Core : x # s => sender'[x] = sender[x]
  BY DEF After, W!Senders
<1>2. QED
  BY <1>1 DEF W!Passed, Answered

LEMMA CoreFinite ==
    ASSUME W!WhatsAppAssumption, SendTypes
    PROVE  /\ IsFiniteSet(Core) /\ IsFiniteSet(W!Passed) /\ IsFiniteSet(Answered) /\ IsFiniteSet(reminded)
           /\ Cardinality(Core) \in Nat /\ Cardinality(W!Passed) \in Nat /\ Cardinality(Answered) \in Nat
<1>1. W!Passed \subseteq Core /\ Answered \subseteq Core /\ reminded \subseteq Msg
  BY DEF W!Passed, Answered, SendTypes
<1>2. IsFiniteSet(Core) /\ IsFiniteSet(Msg)
  BY SameFinite DEF W!WhatsAppAssumption
<1>3. IsFiniteSet(W!Passed) /\ IsFiniteSet(Answered) /\ IsFiniteSet(reminded)
  BY <1>1, <1>2, FS_Subset
<1>4. QED
  BY <1>2, <1>3, FS_CardinalityType

LEMMA CountedStep ==
    ASSUME W!WhatsAppAssumption, SendTypes, SendShape, Counted, [W!Next]_(W!vars), "uncounted" \notin slipped'
    PROVE  Counted'
<1>0. /\ IsFiniteSet(Core) /\ IsFiniteSet(W!Passed) /\ IsFiniteSet(Answered)
      /\ Cardinality(Core) \in Nat /\ Cardinality(W!Passed) \in Nat /\ Cardinality(Answered) \in Nat
      /\ sent \in Nat /\ total \in Nat /\ TenantLimit \in Nat /\ slipped \subseteq slipped'
  BY CoreFinite, ExcusesStay DEF SendTypes, W!WhatsAppAssumption
<1>1. ASSUME NEW s \in Core, Check(s) PROVE Counted'
  <2>1. PICK kind \in {"notice", "reminder"} : W!CheckRateLimits(s, kind)
    BY <1>1 DEF Check
  <2>2. total < TenantLimit /\ total' = total /\ sent' = sent /\ sender[s].step = "idle"
        /\ After(s, kind, "send", None)
    <3>1. total < TenantLimit /\ total' = total /\ sent' = sent
      BY <2>1 DEF W!CheckRateLimits, W!counts
    <3>2. sender[s] = W!Idle /\ After(s, kind, "send", None)
      BY <2>1, CoreAfter
    <3>3. QED
      BY <3>1, <3>2 DEF W!Idle
  <2>3. W!Passed' = W!Passed \cup {s} /\ Answered' = Answered /\ s \notin W!Passed
    BY <2>2, PassedAfter DEF Answered, W!Passed
  <2>4. Cardinality(W!Passed') = Cardinality(W!Passed) + 1
    BY <1>0, <2>3, FS_AddElement
  <2>5. Cardinality(W!Passed') <= Cardinality(Core)
    <3>1. W!Passed' \subseteq Core
      BY DEF W!Passed
    <3>2. QED
      BY <1>0, <3>1, FS_Subset
  <2>6. "together" \in slipped' \/ Cardinality(W!Passed) = 0
    <3>1. W!Passed # {} => "together" \in slipped'
      BY <2>1 DEF W!CheckRateLimits, W!Overlaps
    <3>2. QED
      BY <3>1, FS_EmptySet
  <2>7. QED
    BY <1>0, <2>2, <2>3, <2>4, <2>5, <2>6 DEF Counted
<1>2. ASSUME NEW s \in Core, W!CoreRefused(s) PROVE Counted'
  <2>1. total' = total /\ sent' = sent /\ sender[s].step = "send" /\ After(s, "none", "idle", None)
    BY <1>2, CoreAfter DEF W!CoreRefused, W!counts, W!history, Done
  <2>2. W!Passed' = W!Passed \ {s} /\ Answered' = Answered /\ s \in W!Passed
    BY <2>1, PassedAfter DEF Answered, W!Passed
  <2>3. Cardinality(W!Passed') = Cardinality(W!Passed) - 1
    BY <1>0, <2>2, FS_RemoveElement
  <2>4. QED
    BY <1>0, <2>1, <2>2, <2>3 DEF Counted
<1>3. ASSUME NEW s \in Core, NEW m \in Msg, W!CoreCall(s, m, TRUE) PROVE Counted'
  <2>1. total' = total /\ sent' = sent + 1 /\ sender[s].step = "send"
        /\ After(s, sender[s].kind, "log", m)
    BY <1>3, CoreAfter DEF W!CoreCall, W!counts
  <2>2. W!Passed' = W!Passed /\ Answered' = Answered \cup {s} /\ s \notin Answered
    BY <2>1, PassedAfter DEF Answered, W!Passed
  <2>3. Cardinality(Answered') = Cardinality(Answered) + 1
    BY <1>0, <2>2, FS_AddElement
  <2>4. QED
    BY <1>0, <2>1, <2>2, <2>3 DEF Counted
<1>4. ASSUME NEW s \in Core, W!CoreLog(s) PROVE Counted'
  <2>1. total' = total /\ sent' = sent /\ sender[s].step = "log"
        /\ After(s, sender[s].kind, "count", sender[s].msg)
    BY <1>4, CoreAfter DEF W!CoreLog, W!counts, W!history
  <2>2. W!Passed' = W!Passed /\ Answered' = Answered
    BY <2>1, PassedAfter DEF Answered, W!Passed
  <2>3. QED
    BY <1>0, <2>1, <2>2 DEF Counted
<1>5. ASSUME NEW s \in Core, W!IncrementRateLimits(s) PROVE Counted'
  <2>1. total' = total + 1 /\ sent' = sent /\ sender[s].step = "count" /\ After(s, "none", "idle", None)
    BY <1>5, CoreAfter DEF W!IncrementRateLimits, W!history, Done
  <2>2. W!Passed' = W!Passed \ {s} /\ Answered' = Answered \ {s} /\ s \in W!Passed /\ s \in Answered
    BY <2>1, PassedAfter DEF Answered, W!Passed
  <2>3. Cardinality(W!Passed') = Cardinality(W!Passed) - 1 /\ Cardinality(Answered') = Cardinality(Answered) - 1
    BY <1>0, <2>2, FS_RemoveElement
  <2>4. QED
    BY <1>0, <2>1, <2>2, <2>3 DEF Counted
<1>6. ASSUME NEW s \in Core, W!Break(s) \/ \E m \in Msg : W!CoreCall(s, m, FALSE) PROVE FALSE
  <2>1. s \in W!Senders /\ (W!Break(s) => sender[s].step # "expire")
    BY DEF W!Senders, SendShape
  <2>2. QED
    BY <1>6, <2>1 DEF W!Break, W!CoreCall
<1>7. ASSUME NEW s \in Core, CoreStep(s) PROVE Counted'
  <2>1. \A m \in Msg, answered \in BOOLEAN : W!CoreCall(s, m, answered) => Counted'
    BY <1>3, <1>6
  <2>2. QED
    BY <1>1, <1>2, <1>4, <1>5, <1>6, <1>7, <2>1 DEF CoreStep
<1>8. CASE ~\E s \in Core : CoreStep(s)
  <2>1. (\A s \in Core : sender'[s] = sender[s]) /\ UNCHANGED <<total, sent>>
    BY <1>8, CoreAlone
  <2>2. W!Passed' = W!Passed /\ Answered' = Answered
    BY <2>1 DEF W!Passed, Answered
  <2>3. QED
    BY <1>0, <2>1, <2>2 DEF Counted
<1>9. QED
  BY <1>7, <1>8

LEMMA RemindingAfter ==
    ASSUME W!WhatsAppAssumption, NEW s \in Core, NEW kind, NEW step, NEW message, After(s, kind, step, message)
    PROVE  /\ W!Reminding' = IF kind = "reminder" /\ step # "idle" THEN W!Reminding \cup {s} ELSE W!Reminding \ {s}
           /\ sender'[s].step = step /\ sender'[s].msg = message /\ sender'[s].kind = kind
           /\ \A x \in Core : x # s => sender'[x] = sender[x]
<1>1. /\ sender'[s].kind = kind /\ sender'[s].step = step /\ sender'[s].msg = message
      /\ \A x \in Core : x # s => sender'[x] = sender[x]
  BY DEF After, W!Senders
<1>2. QED
  BY <1>1 DEF W!Reminding, W!Passed

\* A worker's step never takes the reminders' key away.
LEMMA KeyStays ==
    ASSUME W!WhatsAppAssumption, SendTypes, NEW s \in Worker, WorkerStep(s)
    PROVE  daily["tenant"].n > 0 => daily'["tenant"].n > 0
<1>0. s \in W!Senders /\ "tenant" \in W!Key /\ W!KeyOf(s) \in W!Key
  BY DEF W!Senders, W!Key, W!KeyOf
<1>1. daily["tenant"] \in Counter
  BY <1>0 DEF SendTypes, Counter
<1>2. CASE W!Incr(s)
  <2>1. daily' = [daily EXCEPT ![W!KeyOf(s)] = [daily[W!KeyOf(s)] EXCEPT !.n = daily[W!KeyOf(s)].n + 1]]
    BY <1>0, <1>2, IncrAfter
  <2>2. CASE W!KeyOf(s) = "tenant"
    <3>1. daily'["tenant"] = [daily["tenant"] EXCEPT !.n = daily["tenant"].n + 1]
      BY <1>0, <2>1, <2>2 DEF SendTypes
    <3>2. daily'["tenant"].n = daily["tenant"].n + 1 /\ daily["tenant"].n \in Nat
      BY <1>1, <3>1 DEF Counter
    <3>3. QED
      BY <3>2
  <2>3. CASE W!KeyOf(s) # "tenant"
    BY <1>0, <2>1, <2>3 DEF SendTypes
  <2>4. QED
    BY <2>2, <2>3
<1>3. CASE W!SetEnd(s)
  <2>1. daily' = [daily EXCEPT ![W!KeyOf(s)] = [daily[W!KeyOf(s)] EXCEPT !.ends = (daily[W!KeyOf(s)].n > 0)]]
    BY <1>3 DEF W!SetEnd
  <2>2. CASE W!KeyOf(s) = "tenant"
    <3>1. daily'["tenant"] = [daily["tenant"] EXCEPT !.ends = (daily["tenant"].n > 0)]
      BY <1>0, <2>1, <2>2 DEF SendTypes
    <3>2. daily'["tenant"].n = daily["tenant"].n
      BY <1>1, <3>1 DEF Counter
    <3>3. QED
      BY <3>2
  <2>3. CASE W!KeyOf(s) # "tenant"
    BY <1>0, <2>1, <2>3 DEF SendTypes
  <2>4. QED
    BY <2>2, <2>3
<1>4. CASE ~W!Incr(s) /\ ~W!SetEnd(s)
  <2>1. daily' = daily
    BY <1>4 DEF WorkerStep, Taken, W!Take, W!Limit, W!SaveMessage, W!WorkerCall, W!WorkerRefused, W!Break, W!counts
  <2>2. QED
    BY <2>1
<1>5. QED
  BY <1>2, <1>3, <1>4

LEMMA OneReminderStep ==
    ASSUME W!WhatsAppAssumption, SendTypes, SendShape, OneReminder, [W!Next]_(W!vars),
           slipped' \cap {"overlap", "uncounted"} = {}
    PROVE  OneReminder'
<1>0. /\ reminded \subseteq W!Accepted /\ W!Accepted \subseteq Msg /\ None \notin Msg /\ Core \subseteq W!Senders
      /\ daily["tenant"].n \in Nat /\ W!Reminding \subseteq Core
  BY DEF SendShape, W!Accepted, W!WhatsAppAssumption, W!Senders, SendTypes, W!Key, W!Reminding, W!Passed
<1>1. ASSUME NEW s \in Core, W!CheckRateLimits(s, "notice") PROVE OneReminder'
  <2>1. /\ After(s, "notice", "send", None) /\ sender[s] = W!Idle
        /\ UNCHANGED <<reminded, daily>>
    BY <1>1, CoreAfter DEF W!CheckRateLimits, W!counts
  <2>2. s \notin W!Reminding
    BY <2>1 DEF W!Reminding, W!Passed, W!Idle
  <2>3. /\ W!Reminding' = W!Reminding /\ sender'[s].msg = None
        /\ \A x \in Core : x # s => sender'[x] = sender[x]
    BY <2>1, <2>2, RemindingAfter
  <2>4. QED
    BY <1>0, <2>1, <2>2, <2>3 DEF OneReminder
<1>2. ASSUME NEW s \in Core, W!CheckRateLimits(s, "reminder") PROVE OneReminder'
  <2>1. /\ After(s, "reminder", "send", None)
        /\ reminded' = reminded /\ W!Reminding = {} /\ daily["tenant"].n < 1
    BY <1>2, CoreAfter DEF W!CheckRateLimits, W!Overlaps
  <2>2. reminded = {}
    BY <1>0, <2>1 DEF OneReminder
  <2>3. W!Reminding' = {s} /\ sender'[s].step = "send"
    BY <2>1, RemindingAfter
  <2>4. QED
    BY <2>1, <2>2, <2>3 DEF OneReminder
<1>3. ASSUME NEW s \in Core, W!CoreRefused(s) PROVE OneReminder'
  <2>1. /\ After(s, "none", "idle", None) /\ sender[s].step = "send"
        /\ UNCHANGED <<reminded, daily>>
    BY <1>3, CoreAfter DEF W!CoreRefused, W!counts, W!history, Done
  <2>2. /\ W!Reminding' = W!Reminding \ {s} /\ sender'[s].msg = None
        /\ \A x \in Core : x # s => sender'[x] = sender[x]
    BY <2>1, RemindingAfter
  <2>3. s \in W!Reminding => reminded = {}
    BY <2>1 DEF OneReminder
  <2>4. QED
    BY <1>0, <2>1, <2>2, <2>3 DEF OneReminder
<1>4. ASSUME NEW s \in Core, NEW m \in Msg, W!CoreCall(s, m, TRUE) PROVE OneReminder'
  <2>1. /\ After(s, sender[s].kind, "log", m) /\ sender[s].step = "send" /\ m \notin W!Accepted
        /\ daily' = daily
        /\ reminded' = IF sender[s].kind = "reminder" THEN reminded \cup {m} ELSE reminded
    BY <1>4, CoreAfter, AcceptAccepts DEF W!CoreCall, W!counts
  <2>2. /\ W!Reminding' = W!Reminding /\ sender'[s].step = "log" /\ sender'[s].msg = m
        /\ sender'[s].kind = sender[s].kind
        /\ \A x \in Core : x # s => sender'[x] = sender[x]
    BY <2>1, RemindingAfter DEF W!Reminding, W!Passed
  <2>3. \A x \in Core : sender[x].msg # m
    BY <1>0, <2>1 DEF SendShape
  <2>4. CASE sender[s].kind = "reminder"
    <3>1. s \in W!Reminding
      BY <2>1, <2>4 DEF W!Reminding, W!Passed
    <3>2. W!Reminding = {s} /\ reminded' = {m}
      BY <2>1, <2>4, <3>1 DEF OneReminder
    <3>3. QED
      BY <2>1, <2>2, <2>3, <2>4, <3>2 DEF OneReminder
  <2>5. CASE sender[s].kind # "reminder"
    <3>1. reminded' = reminded /\ s \notin W!Reminding /\ m \notin reminded
      BY <1>0, <2>1, <2>5 DEF W!Reminding, W!Passed
    <3>2. \A x \in W!Reminding : x # s /\ x \in Core /\ sender'[x] = sender[x]
      BY <1>0, <2>2, <3>1
    <3>3. QED
      BY <2>1, <2>2, <3>1, <3>2 DEF OneReminder
  <2>6. QED
    BY <2>4, <2>5
<1>5. ASSUME NEW s \in Core, W!CoreLog(s) PROVE OneReminder'
  <2>1. /\ After(s, sender[s].kind, "count", sender[s].msg) /\ sender[s].step = "log"
        /\ UNCHANGED <<daily, reminded>>
    BY <1>5, CoreAfter DEF W!CoreLog, W!counts, W!history
  <2>2. /\ W!Reminding' = W!Reminding /\ sender'[s].step = "count" /\ sender'[s].msg = sender[s].msg
        /\ sender'[s].kind = sender[s].kind
        /\ \A x \in Core : x # s => sender'[x] = sender[x]
    BY <2>1, RemindingAfter DEF W!Reminding, W!Passed
  <2>3. QED
    BY <1>0, <2>1, <2>2 DEF OneReminder
<1>6. ASSUME NEW s \in Core, W!IncrementRateLimits(s) PROVE OneReminder'
  <2>1. /\ After(s, "none", "idle", None) /\ reminded' = reminded
        /\ IF sender[s].kind = "reminder"
           THEN daily' = [daily EXCEPT !["tenant"] = [n |-> 1, ends |-> TRUE]] ELSE daily' = daily
        /\ sender[s].step = "count"
    BY <1>6, CoreAfter DEF W!IncrementRateLimits, W!history, Done
  <2>2. /\ W!Reminding' = W!Reminding \ {s} /\ sender'[s].msg = None
        /\ \A x \in Core : x # s => sender'[x] = sender[x]
    BY <2>1, RemindingAfter
  <2>3. /\ \A x, y \in W!Reminding' : x = y
        /\ \A x \in W!Reminding' : IF sender'[x].step = "send" THEN reminded' = {}
                                   ELSE reminded' \subseteq {sender'[x].msg}
        /\ \A x \in Core, m \in reminded' : sender'[x].msg = m => sender'[x].kind = "reminder"
        /\ \A m, n \in reminded' : m = n
    BY <1>0, <2>1, <2>2 DEF OneReminder
  <2>4. CASE sender[s].kind = "reminder"
    <3>1. daily'["tenant"].n > 0
      BY <2>1, <2>4 DEF SendTypes, W!Key
    <3>2. QED
      BY <2>3, <3>1 DEF OneReminder
  <2>5. CASE sender[s].kind # "reminder"
    <3>1. s \notin W!Reminding /\ daily' = daily
      BY <2>1, <2>5 DEF W!Reminding, W!Passed
    <3>2. QED
      BY <2>1, <2>2, <2>3, <3>1 DEF OneReminder
  <2>6. QED
    BY <2>4, <2>5
<1>7. ASSUME NEW s \in Core, W!Break(s) \/ \E m \in Msg : W!CoreCall(s, m, FALSE) PROVE FALSE
  <2>1. s \in W!Senders /\ sender[s].step # "expire"
    BY DEF W!Senders, SendShape
  <2>2. QED
    BY <1>7, <2>1 DEF W!Break, W!CoreCall
<1>8. ASSUME NEW s \in Core, CoreStep(s) PROVE OneReminder'
  <2>1. \A m \in Msg, answered \in BOOLEAN : W!CoreCall(s, m, answered) => OneReminder'
    BY <1>4, <1>7
  <2>2. Check(s) => OneReminder'
    BY <1>1, <1>2 DEF Check
  <2>3. QED
    BY <1>3, <1>5, <1>6, <1>7, <1>8, <2>1, <2>2 DEF CoreStep
<1>9. ASSUME NEW s \in Worker, WorkerStep(s) PROVE OneReminder'
  <2>1. reminded' = reminded
    BY <1>9 DEF WorkerStep, Taken, W!Take, W!Incr, W!SetEnd, W!Limit, W!SaveMessage, W!WorkerCall, W!WorkerRefused,
       W!Break, W!history
  <2>2. \A x \in Core : sender'[x] = sender[x]
    <3>1. \A x \in Core : x # s /\ x \in W!Senders
      BY DEF W!WhatsAppAssumption, W!Senders
    <3>2. QED
      BY <1>9, <3>1, WorkerMoves DEF WorkerMoved, After
  <2>3. W!Reminding' = W!Reminding
    BY <2>2 DEF W!Reminding, W!Passed
  <2>4. daily["tenant"].n > 0 => daily'["tenant"].n > 0
    BY <1>9, KeyStays
  <2>5. QED
    BY <1>0, <2>1, <2>2, <2>3, <2>4 DEF OneReminder
<1>10. ASSUME NEW k \in W!Key, W!DayPasses(k) PROVE OneReminder'
  <2>1. /\ daily' = [daily EXCEPT ![k] = [n |-> 0, ends |-> FALSE]] /\ sender' = sender
        /\ reminded' = IF k = "global" THEN reminded
                       ELSE {m \in reminded : \E s \in Core : sender[s].msg = m}
    BY <1>10 DEF W!DayPasses
  <2>2. W!Reminding' = W!Reminding /\ reminded' \subseteq reminded
    BY <2>1 DEF W!Reminding, W!Passed
  <2>3. reminded' # {} => W!Reminding # {} \/ daily'["tenant"].n > 0
    <3>1. CASE k = "global"
      <4>1. daily'["tenant"] = daily["tenant"] /\ reminded' = reminded
        BY <2>1, <3>1 DEF SendTypes, W!Key
      <4>2. QED
        BY <4>1 DEF OneReminder
    <3>2. CASE k # "global"
      <4>1. ASSUME NEW m \in reminded, NEW s \in Core, sender[s].msg = m PROVE s \in W!Reminding
        <5>1. sender[s].kind = "reminder" /\ m # None
          BY <1>0, <4>1 DEF OneReminder
        <5>2. sender[s].step # "idle"
          BY <1>0, <4>1, <5>1 DEF SendShape, Holds
        <5>3. QED
          BY <5>1, <5>2 DEF W!Reminding, W!Passed
      <4>2. QED
        BY <2>1, <3>2, <4>1
    <3>3. QED
      BY <3>1, <3>2
  <2>4. QED
    BY <2>1, <2>2, <2>3 DEF OneReminder
<1>11. CASE MetaStep \/ UNCHANGED W!vars
  <2>1. UNCHANGED <<sender, reminded, daily>>
    BY <1>11 DEF MetaStep, W!MetaDelivers, W!MetaFails, W!MetaGets, W!HandleStatusUpdate, W!vars, W!counts, W!history
  <2>2. W!Reminding' = W!Reminding
    BY <2>1 DEF W!Reminding, W!Passed
  <2>3. QED
    BY <2>1, <2>2 DEF OneReminder
<1>12. QED
  BY <1>8, <1>9, <1>10, <1>11, StepCases

-----------------------------------------------------------------------------
(* The invariant holds, and what it says of the limits and of the log *)

LEMMA SendInitIInv == ASSUME W!WhatsAppAssumption, W!Init PROVE SendIInv
<1>1. 1 \in 1 .. Tries /\ None \notin W!Statuses /\ Before \subseteq 0 .. TenantLimit - 1 /\ TenantLimit \in Nat
  BY DEF W!WhatsAppAssumption, W!Statuses
<1>2. /\ daily = [k \in W!Key |-> [n |-> 0, ends |-> FALSE]] /\ total \in Before
      /\ sender = [s \in W!Senders |-> W!Idle] /\ meta = [m \in Msg |-> None] /\ receipts = {}
      /\ row = [m \in Msg |-> None] /\ failed = 0 /\ reminded = {} /\ sent = total
  BY DEF W!Init
<1>3. W!Idle \in SenderType /\ W!Idle.step = "idle" /\ W!Idle.kind = "none" /\ W!Idle.msg = None
  BY <1>1 DEF W!Idle, SenderType, Kind, Step
<1>4. SendTypes
  <2>1. [n |-> 0, ends |-> FALSE] \in [n : Nat, ends : BOOLEAN]
    OBVIOUS
  <2>2. QED
    BY <1>1, <1>2, <1>3, <2>1 DEF SendTypes
<1>5. W!Accepted = {}
  BY <1>2 DEF W!Accepted
<1>6. \A s \in W!Senders : sender[s] = W!Idle
  BY <1>2
<1>7. SendShape
  BY <1>2, <1>3, <1>6 DEF SendShape, Holds, W!Senders
<1>8. EndComes
  BY <1>2 DEF EndComes
<1>9. NotAhead /\ Logged
  BY <1>1, <1>2, <1>3, <1>5, <1>6 DEF NotAhead, Logged
<1>10. W!Passed = {} /\ Answered = {} /\ W!Reminding = {}
  BY <1>3, <1>6 DEF Answered, W!Reminding, W!Passed, W!Senders
<1>11. Counted
  <2>1. Cardinality({}) = 0
    BY FS_EmptySet
  <2>2. Cardinality(Core) \in Nat
    BY <1>4, CoreFinite
  <2>3. QED
    BY <1>1, <1>2, <1>10, <2>1, <2>2 DEF Counted
<1>12. OneReminder
  BY <1>2, <1>10 DEF OneReminder
<1>13. QED
  BY <1>4, <1>5, <1>7, <1>8, <1>9, <1>11, <1>12 DEF SendIInv

LEMMA SendNextIInv == ASSUME W!WhatsAppAssumption, SendIInv, [W!Next]_(W!vars) PROVE SendIInv'
<1>1. SendTypes' /\ SendShape' /\ EndComes' /\ NotAhead' /\ Logged'
  BY SendTypesStep, SendShapeStep, EndComesStep, NotAheadStep, LoggedStep DEF SendIInv
<1>2. "uncounted" \in slipped' \/ Counted'
  BY ExcusesStay, CountedStep DEF SendIInv
<1>3. slipped' \cap {"overlap", "uncounted"} # {} \/ OneReminder'
  BY ExcusesStay, OneReminderStep DEF SendIInv
<1>4. \A m \in W!Accepted' : m \in mixed' \/ InOrder(m)'
  BY InOrderStep DEF SendIInv
<1>5. QED
  BY <1>1, <1>2, <1>3, <1>4 DEF SendIInv

LEMMA SendTypesFollow == ASSUME W!WhatsAppAssumption, SendIInv PROVE W!TypeOK
<1>1. SendTypes
  BY DEF SendIInv
<1>2. \A s \in W!Senders : /\ sender[s].msg \in Msg \cup {None} /\ sender[s].count \in Nat
                           /\ sender[s].try \in 1 .. Tries /\ sender[s].runs \in Nat \ {0}
  BY <1>1, SenderRecords DEF SenderType
<1>3. QED
  BY <1>1, <1>2 DEF W!TypeOK, SendTypes

\* A number of elements that are all the same.
LEMMA AtMostOne ==
    ASSUME NEW S, IsFiniteSet(S), \A x, y \in S : x = y
    PROVE  Cardinality(S) <= 1
<1>1. CASE S = {}
  BY <1>1, FS_EmptySet
<1>2. CASE S # {}
  <2>1. \E x : S = {x}
    BY <1>2
  <2>2. QED
    BY <2>1, FS_Singleton
<1>3. QED
  BY <1>1, <1>2

LEMMA LimitsFollow == ASSUME W!WhatsAppAssumption, SendIInv PROVE W!LimitsHold
<1>1. SendTypes /\ EndComes
  BY DEF SendIInv
<1>2. Cardinality(reminded) <= 1 \/ slipped \cap {"overlap", "uncounted"} # {}
  <2>1. OneReminder => \A m, n \in reminded : m = n
    BY DEF OneReminder
  <2>2. QED
    BY <1>1, <2>1, CoreFinite, AtMostOne DEF SendIInv
<1>3. \/ sent <= TenantLimit
      \/ "together" \in slipped /\ sent <= TenantLimit + Cardinality(Core) - 1
      \/ "uncounted" \in slipped
  <2>1. /\ Cardinality(Core) \in Nat /\ Cardinality(W!Passed) \in Nat /\ Cardinality(Answered) \in Nat
        /\ sent \in Nat /\ total \in Nat /\ TenantLimit \in Nat
    BY <1>1, CoreFinite DEF SendTypes, W!WhatsAppAssumption
  <2>2. Cardinality(Answered) <= Cardinality(W!Passed)
    <3>1. Answered \subseteq W!Passed /\ IsFiniteSet(W!Passed)
      BY <1>1, CoreFinite DEF Answered, W!Passed
    <3>2. QED
      BY <3>1, FS_Subset
  <2>3. Counted => \/ sent <= TenantLimit
                   \/ "together" \in slipped /\ sent <= TenantLimit + Cardinality(Core) - 1
    BY <2>1, <2>2 DEF Counted
  <2>4. QED
    BY <2>3 DEF SendIInv
<1>4. QED
  BY <1>1, <1>2, <1>3, SameCardinality DEF W!LimitsHold, EndComes

LEMMA LogFollows == ASSUME W!WhatsAppAssumption, SendIInv PROVE W!LogTellsTruth
<1> SUFFICES ASSUME NEW m \in W!Accepted
             PROVE  /\ row[m] # None \/ m \in lost \/ \E s \in W!Senders : sender[s].msg = m
                    /\ row[m] \in {None, meta[m]} \/ m \in mixed \/ \E p \in receipts : p[1] = m
  BY DEF W!LogTellsTruth
<1>1. row[m] # None \/ m \in lost \/ \E s \in W!Senders : sender[s].msg = m
  BY DEF SendIInv, Logged
<1>2. ASSUME m \notin mixed PROVE row[m] = meta[m] \/ \E p \in receipts : p[1] = m
  <2>1. InOrder(m)
    BY <1>2 DEF SendIInv
  <2>2. row[m] = meta[m] \/ \E reached : <<m, reached>> \in receipts
    BY <2>1 DEF InOrder
  <2>3. ASSUME NEW reached, <<m, reached>> \in receipts PROVE \E p \in receipts : p[1] = m
    BY <2>3
  <2>4. QED
    BY <2>2, <2>3
<1>3. QED
  BY <1>1, <1>2

LEMMA StatsFollow == ASSUME W!WhatsAppAssumption, SendIInv PROVE W!StatsTellTruth
<1> DEFINE Logs(statuses) == {m \in Msg : row[m] \in statuses}
           Metas(statuses) == {m \in Msg : meta[m] \in statuses}
<1>0. /\ IsFiniteSet(Msg) /\ None \notin W!Statuses /\ W!Statuses = {"SENT", "DELIVERED", "READ", "FAILED"}
      /\ SendTypes /\ NotAhead /\ SendShape /\ Logged /\ W!Went = {"SENT", "DELIVERED", "READ"}
  BY SameFinite DEF W!WhatsAppAssumption, W!Statuses, W!Went, SendIInv
<1>1. \A statuses : IsFiniteSet(Metas(statuses)) /\ IsFiniteSet(Logs(statuses))
  <2>1. \A statuses : Metas(statuses) \in SUBSET Msg /\ Logs(statuses) \in SUBSET Msg
    OBVIOUS
  <2>2. QED
    BY <1>0, <2>1, FS_Subset
<1>2. W!Accepted = Metas(W!Statuses)
  BY <1>0 DEF W!Accepted, SendTypes
<1>3. /\ W!MessageStats.sent = Cardinality(Logs(W!Went))
      /\ W!MessageStats.delivered = Cardinality(Logs({"DELIVERED", "READ"}))
      /\ W!MessageStats.read = Cardinality(Logs({"READ"}))
      /\ W!MessageStats.failed = Cardinality(Logs({"FAILED"})) + failed
  BY SameCardinality DEF W!MessageStats, W!Rows
<1>4. /\ {m \in Msg : meta[m] \in {"DELIVERED", "READ"}} = Metas({"DELIVERED", "READ"})
      /\ {m \in Msg : meta[m] \in W!Went} = Metas(W!Went)
      /\ {m \in Msg : meta[m] = "READ"} = Metas({"READ"})
      /\ {m \in Msg : meta[m] = "FAILED"} = Metas({"FAILED"})
  OBVIOUS
<1>5. ASSUME NEW m \in Msg
      PROVE  /\ row[m] \in W!Statuses => meta[m] \in W!Statuses
             /\ row[m] \in {"DELIVERED", "READ"} => meta[m] \in {"DELIVERED", "READ"}
             /\ row[m] \in {"READ"} => meta[m] \in {"READ"}
             /\ row[m] \in {"FAILED"} => meta[m] \in {"FAILED"}
  <2>1. row[m] \in W!Statuses => Reached(m, row[m])
    BY <1>0 DEF NotAhead
  <2>2. meta[m] \in W!Statuses \cup {None}
    BY <1>0 DEF SendTypes
  <2>3. QED
    BY <1>0, <2>1, <2>2 DEF Reached
<1>6. /\ Logs(W!Went) \subseteq Metas(W!Statuses)
      /\ Logs({"DELIVERED", "READ"}) \subseteq Metas({"DELIVERED", "READ"})
      /\ Logs({"READ"}) \subseteq Metas({"READ"})
  BY <1>0, <1>5
<1>7. /\ Cardinality(Logs(W!Went)) <= Cardinality(Metas(W!Statuses))
      /\ Cardinality(Logs({"DELIVERED", "READ"})) <= Cardinality(Metas({"DELIVERED", "READ"}))
      /\ Cardinality(Logs({"READ"})) <= Cardinality(Metas({"READ"}))
  BY <1>1, <1>6, FS_Subset
<1>8. ASSUME receipts = {}, lost \cup mixed = {}, \A s \in W!Senders : sender[s] = W!Idle
      PROVE  /\ Logs(W!Went) = Metas(W!Went) /\ Logs({"READ"}) = Metas({"READ"})
             /\ Logs({"FAILED"}) = Metas({"FAILED"})
  <2>1. ASSUME NEW m \in W!Accepted PROVE row[m] = meta[m]
    <3>1. InOrder(m)
      BY <1>8, <2>1 DEF SendIInv
    <3>2. QED
      BY <1>8, <3>1 DEF InOrder
  <2>2. \A m \in Msg : meta[m] \in W!Statuses => row[m] = meta[m]
    BY <1>2, <2>1
  <2>3. \A m \in Msg : row[m] \in W!Statuses => meta[m] \in W!Statuses
    BY <1>5
  <2>4. QED
    BY <1>0, <2>2, <2>3
<1>9. QED
  <2> HIDE DEF Logs, Metas
  <2>1. QED
    BY <1>2, <1>3, <1>4, <1>7, <1>8, SameCardinality DEF W!StatsTellTruth

(***************************************************************************)
(* Bot: the books and the taps                                             *)
(***************************************************************************)

-----------------------------------------------------------------------------
(* The invariant *)

Says == [tap : Phone \cup {"rep", None}, text : Text \cup {{}}]
StepName == {"done", "session", "resolve", "create", "route", "save"}
MsgType == [phone : Phone \cup {None}, says : Says \cup {None}, step : StepName, copy : B!Copy \cup {None}]
BotTypes ==
    /\ who \in [Phone -> B!Roles] /\ been \in [Phone -> SUBSET B!Roles]
    /\ session \in [Phone -> B!Copy \cup {None}]
    /\ shown \in [Phone -> SUBSET (Phone \cup {"rep"})]
    /\ open \in [Phone -> {None, "invoice", "report"}]
    /\ got = [p \in Phone |-> got[p]]
    /\ msg \in [Slot -> MsgType] /\ missed \subseteq Phone

\* A message at work: whose it is, a tap on something shown, and its copy of the
\* session once it has one.
AtWork(m) ==
    /\ msg[m].phone \in Phone /\ msg[m].step # "done"
    /\ msg[m].says \in Says /\ msg[m].says.tap \in shown[msg[m].phone] \cup {None}
    /\ IF msg[m].step \in {"session", "resolve"} THEN msg[m].copy = None ELSE msg[m].copy \in B!Copy
MessagesFit == \A m \in Slot : msg[m] = B!Idle \/ AtWork(m)

\* A role in a session or a copy is one the phone has had, or a stranger's.
RolesWereHad ==
    /\ \A p \in Phone : who[p] \in been[p] /\ (session[p] # None => session[p].role \in been[p] \cup {"unknown"})
    /\ \A m \in Slot : msg[m].copy # None => msg[m].copy.role \in been[msg[m].phone] \cup {"unknown"}

\* Who never was a user was shown its own invoice only, and told nothing else.
Own(p) ==
    /\ shown[p] \cap Phone \subseteq {p}
    /\ <<"books">> \notin got[p] /\ \A q \in Phone \ {p} : <<"pdf", q>> \notin got[p]
OwnOnly == \A p \in Phone : "user" \notin been[p] => Own(p)

\* What a session must be for the newest question to be answered by a tap.
Fits(copy, question) ==
    /\ copy # None /\ copy.role # "unknown"
    /\ question = "invoice" => copy.state = "waiting_invoice_selection"
    /\ question = "report" => copy.state = "waiting_report_period" /\ copy.role = "user"
Of(m, p, step) == msg[m].phone = p /\ msg[m].step = step
\* One message at a time: its copy fits the question, as the session does unless
\* the copy is about to be saved.
Attentive(p) ==
    /\ \A m, n \in Slot : msg[m].phone = p /\ msg[n].phone = p => m = n
    /\ \A m \in Slot : /\ Of(m, p, "route") /\ open[p] # None => Fits(msg[m].copy, open[p])
                       /\ Of(m, p, "resolve") \/ Of(m, p, "create") => session[p] = None
                       /\ Of(m, p, "save") /\ open[p] # None => Fits(msg[m].copy, open[p])
    /\ (\A m \in Slot : ~Of(m, p, "save")) /\ open[p] # None => Fits(session[p], open[p])
Careful(p) == p \in tangled \/ (Attentive(p) /\ p \notin missed)
BotInv ==
    /\ BotTypes /\ MessagesFit /\ RolesWereHad /\ OwnOnly
    /\ \A p \in Phone : Careful(p)

-----------------------------------------------------------------------------
(* What an action leaves its message with *)

Turns(m, step, copy) ==
    /\ msg' \in [Slot -> MsgType]
    /\ msg'[m].phone = msg[m].phone /\ msg'[m].says = msg[m].says
    /\ msg'[m].step = step /\ msg'[m].copy = copy
    /\ \A n \in Slot : n # m => msg'[n] = msg[n]
Ends(m) ==
    /\ msg' \in [Slot -> MsgType] /\ msg'[m] = B!Idle
    /\ \A n \in Slot : n # m => msg'[n] = msg[n]

LEMMA IdleMessage ==
    ASSUME B!BotAssumption
    PROVE  /\ B!Idle \in MsgType /\ B!Idle.phone = None /\ B!Idle.step = "done" /\ B!Idle.copy = None
           /\ None \notin Phone /\ None \notin B!Copy /\ None # "rep" /\ None # "invoice" /\ None # "report"
           /\ "rep" \notin Phone
BY DEF B!BotAssumption, B!Idle, MsgType, StepName

LEMMA MessageFields ==
    ASSUME BotTypes, NEW m \in Slot
    PROVE  /\ msg[m] \in MsgType /\ msg[m].phone \in Phone \cup {None} /\ msg[m].step \in StepName
           /\ msg[m].copy \in B!Copy \cup {None}
BY DEF BotTypes, MsgType

LEMMA FinishEnds ==
    ASSUME B!BotAssumption, BotTypes, NEW m \in Slot, B!Finish(m)
    PROVE  Ends(m)
BY IdleMessage DEF B!Finish, Ends, BotTypes

LEMMA TurnsBoth ==
    ASSUME BotTypes, NEW m \in Slot, NEW step \in StepName, NEW copy \in B!Copy \cup {None},
           msg' = [msg EXCEPT ![m].step = step, ![m].copy = copy]
    PROVE  Turns(m, step, copy)
<1> DEFINE new == [msg[m] EXCEPT !.step = step, !.copy = copy]
<1>1. msg[m] \in MsgType
  BY DEF BotTypes
<1>2. new \in MsgType /\ new.phone = msg[m].phone /\ new.says = msg[m].says /\ new.step = step /\ new.copy = copy
  BY <1>1 DEF MsgType
<1>3. msg' = [msg EXCEPT ![m] = new]
  BY DEF BotTypes
<1> HIDE DEF new
<1>4. msg \in [Slot -> MsgType]
  BY DEF BotTypes
<1>5. msg'[m] = new /\ \A n \in Slot : n # m => msg'[n] = msg[n]
  BY <1>3, <1>4
<1>6. msg' \in [Slot -> MsgType]
  BY <1>2, <1>3, <1>4
<1>7. QED
  BY <1>2, <1>5, <1>6 DEF Turns

LEMMA TurnsStep ==
    ASSUME BotTypes, NEW m \in Slot, NEW step \in StepName, msg' = [msg EXCEPT ![m].step = step]
    PROVE  Turns(m, step, msg[m].copy)
<1> DEFINE new == [msg[m] EXCEPT !.step = step]
<1>1. msg[m] \in MsgType
  BY DEF BotTypes
<1>2. new \in MsgType /\ new.phone = msg[m].phone /\ new.says = msg[m].says /\ new.step = step
      /\ new.copy = msg[m].copy
  BY <1>1 DEF MsgType
<1>3. msg' = [msg EXCEPT ![m] = new]
  BY DEF BotTypes
<1> HIDE DEF new
<1>4. msg \in [Slot -> MsgType]
  BY DEF BotTypes
<1>5. msg'[m] = new /\ \A n \in Slot : n # m => msg'[n] = msg[n]
  BY <1>3, <1>4
<1>6. msg' \in [Slot -> MsgType]
  BY <1>2, <1>3, <1>4
<1>7. QED
  BY <1>2, <1>5, <1>6 DEF Turns

\* The state of a copy is changed, its role stays.
LEMMA TurnsState ==
    ASSUME BotTypes, NEW m \in Slot, msg[m].copy \in B!Copy, NEW state \in B!States,
           msg' = [msg EXCEPT ![m].step = "save", ![m].copy.state = state]
    PROVE  \E copy \in B!Copy : copy.role = msg[m].copy.role /\ copy.state = state /\ Turns(m, "save", copy)
<1> DEFINE copy == [msg[m].copy EXCEPT !.state = state]
<1>1. copy \in B!Copy /\ copy.role = msg[m].copy.role /\ copy.state = state
  BY DEF B!Copy
<1>2. msg[m] \in MsgType
  BY DEF BotTypes
<1>3. msg' = [msg EXCEPT ![m].step = "save", ![m].copy = copy]
  BY <1>2 DEF BotTypes, MsgType
<1> HIDE DEF copy
<1>4. Turns(m, "save", copy)
  BY <1>1, <1>3, TurnsBoth DEF StepName
<1>5. QED
  BY <1>1, <1>4

-----------------------------------------------------------------------------
(* Replies *)

\* What a message at its route does, whatever the intent was.
RouteSays(m) ==
    \/ \E what : /\ B!Say(m, what)
                 /\ what # <<"books">> \/ msg[m].copy.role = "user"
                 /\ \A q \in Phone : what # <<"pdf", q>>
    \/ /\ msg[m].says.tap \in Phone /\ msg[m].copy.state = "waiting_invoice_selection"
       /\ B!Answer(m, <<"pdf", msg[m].says.tap>>)
    \/ /\ msg[m].says.tap = "rep" /\ msg[m].copy.state = "waiting_report_period"
       /\ msg[m].copy.role = "user" /\ B!Answer(m, <<"books">>)
    \/ /\ msg[m].copy.role # "unknown"
       /\ B!Ask(m, B!Entitled(msg[m].copy, msg[m].phone), "invoice", "waiting_invoice_selection")
    \/ msg[m].copy.role = "user" /\ B!Ask(m, {"rep"}, "report", "waiting_report_period")

LEMMA RouteKinds ==
    ASSUME NEW m \in Slot, msg[m].copy \in B!Copy, B!Route(m)
    PROVE  RouteSays(m)
<1> USE DEF B!Copy, B!Roles
<1>1. msg[m].copy.role \in B!Roles
  OBVIOUS
<1>2. CASE msg[m].copy.role = "unknown" /\ B!Say(m, <<"unregistered">>)
  BY <1>2 DEF RouteSays
<1>3. CASE msg[m].copy.role # "unknown" /\ B!InvoiceCommand(m)
  BY <1>3 DEF RouteSays, B!InvoiceCommand
<1>4. CASE msg[m].copy.role # "unknown" /\ B!ReportCommand(m)
  BY <1>4, <1>1 DEF RouteSays, B!ReportCommand
<1>5. CASE msg[m].copy.role # "unknown" /\ B!BalanceCommand(m)
  BY <1>5, <1>1 DEF RouteSays, B!BalanceCommand
<1>6. CASE msg[m].copy.role # "unknown" /\ B!Summary(m)
  BY <1>6, <1>1 DEF RouteSays, B!Summary
<1>7. CASE msg[m].copy.role # "unknown" /\ B!Say(m, <<"help">>)
  BY <1>7 DEF RouteSays
<1>8. QED
  BY <1>2, <1>3, <1>4, <1>5, <1>6, <1>7 DEF B!Route

-----------------------------------------------------------------------------
(* What the parts of the invariant need of a step *)

\* Somebody may be shown more, nobody less.
MoreShown == \A p \in Phone : shown[p] \subseteq shown'[p]
RightCopy(step, copy) == IF step \in {"session", "resolve"} THEN copy = None ELSE copy \in B!Copy

LEMMA FitTurns ==
    ASSUME B!BotAssumption, MessagesFit, NEW m \in Slot, msg[m] # B!Idle, MoreShown,
           NEW step \in StepName \ {"done"}, NEW copy, RightCopy(step, copy), Turns(m, step, copy)
    PROVE  MessagesFit'
<1>1. ASSUME NEW n \in Slot PROVE msg'[n] = B!Idle \/ AtWork(n)'
  <2>1. CASE n = m
    <3>1. AtWork(m)
      BY DEF MessagesFit
    <3>2. AtWork(m)'
      BY <3>1 DEF AtWork, Turns, MoreShown, RightCopy
    <3>3. QED
      BY <2>1, <3>2
  <2>2. CASE n # m
    <3>1. msg'[n] = msg[n] /\ (msg[n] = B!Idle \/ AtWork(n))
      BY <2>2 DEF Turns, MessagesFit
    <3>2. QED
      BY <3>1 DEF AtWork, MoreShown
  <2>3. QED
    BY <2>1, <2>2
<1>2. QED
  BY <1>1, IdleMessage DEF MessagesFit, B!Idle

LEMMA FitEnds ==
    ASSUME MessagesFit, NEW m \in Slot, MoreShown, Ends(m)
    PROVE  MessagesFit'
<1>1. ASSUME NEW n \in Slot PROVE msg'[n] = B!Idle \/ AtWork(n)'
  <2>1. CASE n = m
    BY <2>1 DEF Ends
  <2>2. CASE n # m
    <3>1. msg'[n] = msg[n] /\ (msg[n] = B!Idle \/ AtWork(n))
      BY <2>2 DEF Ends, MessagesFit
    <3>2. QED
      BY <3>1 DEF AtWork, MoreShown
  <2>3. QED
    BY <2>1, <2>2
<1>2. QED
  BY <1>1 DEF MessagesFit, B!Idle

\* The phones but p are as they were, and so are their messages.
Apart(p) ==
    \A q \in Phone : q # p =>
       /\ session'[q] = session[q] /\ open'[q] = open[q]
       /\ \A m \in Slot : msg'[m].phone = q => msg'[m] = msg[m]
       /\ \A m \in Slot : msg[m].phone = q => msg'[m] = msg[m]

LEMMA ApartStays ==
    ASSUME NEW p, Apart(p), NEW q \in Phone, q # p, Attentive(q)
    PROVE  Attentive(q)'
<1>1. /\ session'[q] = session[q] /\ open'[q] = open[q]
      /\ \A m \in Slot : msg'[m].phone = q => msg'[m] = msg[m]
      /\ \A m \in Slot : msg[m].phone = q => msg'[m] = msg[m]
  BY DEF Apart
<1>2. \A m, n \in Slot : msg'[m].phone = q /\ msg'[n].phone = q => m = n
  BY <1>1 DEF Attentive
<1>3. \A m \in Slot : /\ Of(m, q, "route")' /\ open'[q] # None => Fits(msg'[m].copy, open'[q])
                      /\ Of(m, q, "resolve")' \/ Of(m, q, "create")' => session'[q] = None
                      /\ Of(m, q, "save")' /\ open'[q] # None => Fits(msg'[m].copy, open'[q])
  BY <1>1 DEF Attentive, Of
<1>4. (\A m \in Slot : ~Of(m, q, "save")') /\ open'[q] # None => Fits(session'[q], open'[q])
  BY <1>1 DEF Attentive, Of
<1>5. QED
  BY <1>2, <1>3, <1>4 DEF Attentive, Fits

\* A message that moves is the only one of its phone, so that what it moves to
\* is all that matters.
LEMMA AttentiveTurns ==
    ASSUME NEW m \in Slot, NEW step, NEW copy, Turns(m, step, copy), Attentive(msg[m].phone),
           step = "route" /\ open'[msg[m].phone] # None => Fits(copy, open'[msg[m].phone]),
           step \in {"resolve", "create"} => session'[msg[m].phone] = None,
           open'[msg[m].phone] # None =>
              IF step = "save" THEN Fits(copy, open'[msg[m].phone])
              ELSE Fits(session'[msg[m].phone], open'[msg[m].phone])
    PROVE  \A p : p = msg[m].phone => Attentive(p)'
<1> SUFFICES ASSUME NEW p, p = msg[m].phone PROVE Attentive(p)'
  OBVIOUS
<1>1. \A n \in Slot : msg'[n].phone = p => n = m
  BY DEF Turns, Attentive
<1>2. Of(m, p, "save")' <=> step = "save"
  BY DEF Turns, Of
<1>3. QED
  BY <1>1, <1>2 DEF Attentive, Of, Turns, Fits

LEMMA AttentiveEnds ==
    ASSUME B!BotAssumption, NEW m \in Slot, msg[m].phone \in Phone, Ends(m), Attentive(msg[m].phone),
           open'[msg[m].phone] # None => Fits(session'[msg[m].phone], open'[msg[m].phone])
    PROVE  \A p : p = msg[m].phone => Attentive(p)'
<1> SUFFICES ASSUME NEW p, p = msg[m].phone PROVE Attentive(p)'
  OBVIOUS
<1>1. \A n \in Slot : msg'[n].phone # p
  BY IdleMessage DEF Ends, Attentive
<1>2. QED
  BY <1>1 DEF Attentive, Of, Fits

\* The one message of an attentive phone; unless it is saving its copy, the
\* session is what fits the question.
LEMMA BeforeSaving ==
    ASSUME NEW m \in Slot, Attentive(msg[m].phone), msg[m].step # "save", open[msg[m].phone] # None
    PROVE  Fits(session[msg[m].phone], open[msg[m].phone])
BY DEF Attentive, Of

\* A slot that is not idle is at work for a phone.
LEMMA Working ==
    ASSUME B!BotAssumption, BotTypes, MessagesFit, NEW m \in Slot, msg[m].step # "done"
    PROVE  msg[m] # B!Idle /\ AtWork(m) /\ msg[m].phone \in Phone
BY IdleMessage DEF MessagesFit, AtWork

LEMMA OthersCareful ==
    ASSUME NEW p, Apart(p), \A q \in Phone : Careful(q),
           tangled \subseteq tangled', missed' \subseteq missed \cup {p},
           p \in Phone => Careful(p)'
    PROVE  \A q \in Phone : Careful(q)'
<1> SUFFICES ASSUME NEW q \in Phone, q # p PROVE Careful(q)'
  OBVIOUS
<1>1. CASE q \in tangled
  BY <1>1 DEF Careful
<1>2. CASE Attentive(q) /\ q \notin missed
  BY <1>2, ApartStays DEF Careful
<1>3. QED
  BY <1>1, <1>2 DEF Careful

LEMMA ApartTurns ==
    ASSUME NEW m \in Slot, NEW step, NEW copy, Turns(m, step, copy),
           \A q \in Phone : q # msg[m].phone => session'[q] = session[q] /\ open'[q] = open[q]
    PROVE  Apart(msg[m].phone)
BY DEF Turns, Apart

LEMMA ApartEnds ==
    ASSUME B!BotAssumption, NEW m \in Slot, Ends(m),
           \A q \in Phone : q # msg[m].phone => session'[q] = session[q] /\ open'[q] = open[q]
    PROVE  Apart(msg[m].phone)
BY IdleMessage DEF Ends, Apart

CopiesWereHad == \A m \in Slot : msg[m].copy # None => msg[m].copy.role \in been[msg[m].phone] \cup {"unknown"}
SessionsWereHad ==
    \A p \in Phone : who[p] \in been[p] /\ (session[p] # None => session[p].role \in been[p] \cup {"unknown"})

LEMMA RolesTurns ==
    ASSUME CopiesWereHad, NEW m \in Slot, NEW step, NEW copy, Turns(m, step, copy), been' = been,
           copy # None => copy.role \in been[msg[m].phone] \cup {"unknown"}
    PROVE  CopiesWereHad'
BY DEF CopiesWereHad, Turns

LEMMA RolesEnds ==
    ASSUME B!BotAssumption, CopiesWereHad, NEW m \in Slot, Ends(m), been' = been
    PROVE  CopiesWereHad'
BY IdleMessage DEF CopiesWereHad, Ends

-----------------------------------------------------------------------------
(* The session of a message: reading it, resolving the role, creating it *)

LEMMA GetSessionKeeps ==
    ASSUME B!BotAssumption, BotInv, NEW m \in Slot, NEW read \in BOOLEAN, B!GetSession(m, read)
    PROVE  BotInv'
<1> DEFINE found == IF read THEN session[msg[m].phone] ELSE None
           step == IF found = None THEN "resolve" ELSE "route"
<1>1. BotTypes /\ MessagesFit /\ RolesWereHad /\ OwnOnly /\ \A q \in Phone : Careful(q)
  BY DEF BotInv
<1>2. msg[m].step = "session" /\ UNCHANGED <<who, session, shown, open, got, been, missed>>
  BY DEF B!GetSession, B!In
<1>3. PICK p \in Phone : p = msg[m].phone /\ msg[m] # B!Idle /\ AtWork(m)
  BY <1>1, <1>2, Working
<1>4. step \in StepName \ {"done"} /\ found \in B!Copy \cup {None}
  BY <1>1, <1>3 DEF StepName, BotTypes
<1>5. msg' = [msg EXCEPT ![m].step = step, ![m].copy = found]
  BY <1>3 DEF B!GetSession
<1>6. Turns(m, step, found)
  BY <1>3, <1>1, <1>4, <1>5, TurnsBoth
<1>0. tangled' = IF read THEN tangled ELSE tangled \cup {p}
  BY <1>3 DEF B!GetSession
<1>7. BotTypes'
  BY <1>1, <1>2, <1>6 DEF BotTypes, Turns
<1>8. MessagesFit'
  <2>1. RightCopy(step, found) /\ MoreShown
    BY <1>2, <1>3, <1>4 DEF RightCopy, MoreShown
  <2>2. QED
    BY <1>1, <1>3, <1>4, <1>6, <2>1, FitTurns
<1>9. RolesWereHad'
  <2>1. SessionsWereHad /\ CopiesWereHad
    BY <1>1 DEF RolesWereHad, SessionsWereHad, CopiesWereHad
  <2>2. CopiesWereHad'
    BY <1>2, <1>3, <1>6, <2>1, RolesTurns DEF SessionsWereHad
  <2>3. QED
    BY <1>2, <2>1, <2>2 DEF RolesWereHad, SessionsWereHad, CopiesWereHad
<1>10. OwnOnly'
  BY <1>1, <1>2 DEF OwnOnly, Own
<1>11. Careful(p)'
  <2>1. CASE p \in tangled \/ ~read
    BY <1>0, <2>1 DEF Careful
  <2>2. CASE Attentive(p) /\ p \notin missed /\ read
    <3>1. open[p] # None => Fits(session[p], open[p])
      BY <1>3, <1>2, <2>2, BeforeSaving
    <3>2. Attentive(p)'
      BY <1>3, <1>2, <1>6, <2>2, <3>1, AttentiveTurns
    <3>3. QED
      BY <1>2, <2>2, <3>2 DEF Careful
  <2>3. QED
    BY <1>1, <1>3, <2>1, <2>2 DEF Careful
<1>12. \A q \in Phone : Careful(q)'
  <2>1. Apart(p)
    BY <1>3, <1>2, <1>6, ApartTurns
  <2>2. QED
    BY <1>0, <1>1, <1>2, <1>11, <2>1, OthersCareful
<1>13. QED
  BY <1>7, <1>8, <1>9, <1>10, <1>12 DEF BotInv

LEMMA ResolveKeeps ==
    ASSUME B!BotAssumption, BotInv, NEW m \in Slot, NEW role \in B!Roles, B!ResolveTenantAndRole(m, role)
    PROVE  BotInv'
<1> DEFINE copy == [role |-> role, state |-> "idle"]
<1>1. BotTypes /\ MessagesFit /\ RolesWereHad /\ OwnOnly /\ \A q \in Phone : Careful(q)
  BY DEF BotInv
<1>2. msg[m].step = "resolve" /\ UNCHANGED <<who, session, shown, open, got, been, tangled, missed>>
  BY DEF B!ResolveTenantAndRole, B!In, B!history
<1>3. PICK p \in Phone : p = msg[m].phone /\ msg[m] # B!Idle /\ AtWork(m)
  BY <1>1, <1>2, Working
<1>4. copy \in B!Copy /\ copy.role \in {who[p], "unknown"} /\ "create" \in StepName
  BY <1>1, <1>3 DEF StepName, BotTypes, B!Copy, B!States, B!ResolveTenantAndRole
<1>5. msg' = [msg EXCEPT ![m].step = "create", ![m].copy = copy]
  BY <1>3 DEF B!ResolveTenantAndRole
<1> HIDE DEF copy
<1>6. Turns(m, "create", copy)
  BY <1>3, <1>1, <1>4, <1>5, TurnsBoth
<1>7. BotTypes'
  BY <1>1, <1>2, <1>6 DEF BotTypes, Turns
<1>8. MessagesFit'
  <2>1. RightCopy("create", copy) /\ MoreShown /\ "create" \in StepName \ {"done"}
    BY <1>2, <1>4 DEF RightCopy, MoreShown
  <2>2. QED
    BY <1>1, <1>3, <1>6, <2>1, FitTurns
<1>9. RolesWereHad'
  <2>1. SessionsWereHad /\ CopiesWereHad
    BY <1>1 DEF RolesWereHad, SessionsWereHad, CopiesWereHad
  <2>2. CopiesWereHad'
    BY <1>2, <1>3, <1>4, <1>6, <2>1, RolesTurns DEF SessionsWereHad
  <2>3. QED
    BY <1>2, <2>1, <2>2 DEF RolesWereHad, SessionsWereHad, CopiesWereHad
<1>10. OwnOnly'
  BY <1>1, <1>2 DEF OwnOnly, Own
<1>11. Careful(p)'
  <2>1. CASE p \in tangled
    BY <1>2, <2>1 DEF Careful
  <2>2. CASE Attentive(p) /\ p \notin missed
    <3>1. session[p] = None
      BY <1>3, <1>2, <2>2 DEF Attentive, Of
    <3>2. open[p] # None => Fits(session[p], open[p])
      BY <1>3, <1>2, <2>2, BeforeSaving
    <3>3. Attentive(p)'
      BY <1>3, <1>2, <1>6, <2>2, <3>1, <3>2, AttentiveTurns
    <3>4. QED
      BY <1>2, <2>2, <3>3 DEF Careful
  <2>3. QED
    BY <1>1, <1>3, <2>1, <2>2 DEF Careful
<1>12. \A q \in Phone : Careful(q)'
  <2>1. Apart(p)
    BY <1>3, <1>2, <1>6, ApartTurns
  <2>2. QED
    BY <1>1, <1>2, <1>11, <2>1, OthersCareful
<1>13. QED
  BY <1>7, <1>8, <1>9, <1>10, <1>12 DEF BotInv

LEMMA CreateKeeps ==
    ASSUME B!BotAssumption, BotInv, NEW m \in Slot, NEW stored \in BOOLEAN, B!CreateSession(m, stored)
    PROVE  BotInv'
<1> DEFINE copy == msg[m].copy
<1>1. BotTypes /\ MessagesFit /\ RolesWereHad /\ OwnOnly /\ \A q \in Phone : Careful(q)
  BY DEF BotInv
<1>2. msg[m].step = "create" /\ UNCHANGED <<who, shown, open, got, been, tangled, missed>>
  BY DEF B!CreateSession, B!In, B!history
<1>3. PICK p \in Phone : p = msg[m].phone /\ msg[m] # B!Idle /\ AtWork(m)
  BY <1>1, <1>2, Working
<1>4. copy \in B!Copy /\ copy # None /\ "route" \in StepName
  BY <1>2, <1>3, IdleMessage DEF StepName, AtWork
<1>5. /\ session' = IF stored THEN [session EXCEPT ![p] = copy] ELSE session
      /\ msg' = [msg EXCEPT ![m].step = "route"]
  BY <1>3 DEF B!CreateSession, B!Store
<1>6. Turns(m, "route", copy)
  BY <1>3, <1>1, <1>4, <1>5, TurnsStep
<1>7. session'[p] \in {copy, session[p]} /\ \A q \in Phone : q # p => session'[q] = session[q]
  BY <1>1, <1>3, <1>5 DEF BotTypes
<1>8. BotTypes'
  <2>1. session' \in [Phone -> B!Copy \cup {None}]
    BY <1>1, <1>4, <1>5 DEF BotTypes
  <2>2. QED
    BY <1>1, <1>2, <1>6, <2>1 DEF BotTypes, Turns
<1>9. MessagesFit'
  <2>1. RightCopy("route", copy) /\ MoreShown /\ "route" \in StepName \ {"done"}
    BY <1>2, <1>4 DEF RightCopy, MoreShown
  <2>2. QED
    BY <1>1, <1>3, <1>6, <2>1, FitTurns
<1>10. RolesWereHad'
  <2>1. SessionsWereHad /\ CopiesWereHad
    BY <1>1 DEF RolesWereHad, SessionsWereHad, CopiesWereHad
  <2>2. copy.role \in been[p] \cup {"unknown"}
    BY <1>3, <1>4, <2>1 DEF CopiesWereHad
  <2>3. CopiesWereHad'
    BY <1>3, <1>2, <1>6, <2>1, <2>2, RolesTurns
  <2>4. SessionsWereHad'
    BY <1>2, <1>7, <2>1, <2>2 DEF SessionsWereHad
  <2>5. QED
    BY <2>3, <2>4 DEF RolesWereHad, SessionsWereHad, CopiesWereHad
<1>11. OwnOnly'
  BY <1>1, <1>2 DEF OwnOnly, Own
<1>12. Careful(p)'
  <2>1. CASE p \in tangled
    BY <1>2, <2>1 DEF Careful
  <2>2. CASE Attentive(p) /\ p \notin missed
    <3>1. session[p] = None
      BY <1>3, <1>2, <2>2 DEF Attentive, Of
    <3>2. open[p] = None
      BY <1>3, <1>2, <2>2, <3>1, BeforeSaving DEF Fits
    <3>3. Attentive(p)'
      BY <1>3, <1>2, <1>6, <1>7, <2>2, <3>2, AttentiveTurns
    <3>4. QED
      BY <1>2, <2>2, <3>3 DEF Careful
  <2>3. QED
    BY <1>1, <1>3, <2>1, <2>2 DEF Careful
<1>13. \A q \in Phone : Careful(q)'
  <2>1. Apart(p)
    BY <1>3, <1>2, <1>6, <1>7, ApartTurns
  <2>2. QED
    BY <1>1, <1>2, <1>12, <2>1, OthersCareful
<1>14. QED
  BY <1>8, <1>9, <1>10, <1>11, <1>13 DEF BotInv

-----------------------------------------------------------------------------
(* The end of a message: the copy is saved, a query throws, or it is lost *)

LEMMA SetSessionKeeps ==
    ASSUME B!BotAssumption, BotInv, NEW m \in Slot, NEW stored \in BOOLEAN, B!SetSession(m, stored)
    PROVE  BotInv'
<1> DEFINE copy == msg[m].copy
<1>1. BotTypes /\ MessagesFit /\ RolesWereHad /\ OwnOnly /\ \A q \in Phone : Careful(q)
  BY DEF BotInv
<1>2. msg[m].step = "save" /\ UNCHANGED <<who, shown, open, got, been, missed>>
  BY DEF B!SetSession, B!In
<1>3. PICK p \in Phone : p = msg[m].phone /\ AtWork(m)
  BY <1>1, <1>2, Working
<1>4. copy \in B!Copy /\ copy # None
  BY <1>2, <1>3, IdleMessage DEF AtWork
<1>5. /\ session' = IF stored THEN [session EXCEPT ![p] = copy] ELSE session
      /\ Ends(m) /\ tangled' = IF stored THEN tangled ELSE tangled \cup {p}
  BY <1>1, <1>3, FinishEnds DEF B!SetSession, B!Store
<1>6. /\ session'[p] = IF stored THEN copy ELSE session[p]
      /\ \A q \in Phone : q # p => session'[q] = session[q]
  BY <1>1, <1>3, <1>5 DEF BotTypes
<1>7. BotTypes'
  <2>1. session' \in [Phone -> B!Copy \cup {None}]
    BY <1>1, <1>4, <1>5 DEF BotTypes
  <2>2. QED
    BY <1>1, <1>2, <1>5, <2>1 DEF BotTypes, Ends
<1>8. MessagesFit'
  BY <1>1, <1>2, <1>5, FitEnds DEF MoreShown
<1>9. RolesWereHad'
  <2>1. SessionsWereHad /\ CopiesWereHad
    BY <1>1 DEF RolesWereHad, SessionsWereHad, CopiesWereHad
  <2>2. copy.role \in been[p] \cup {"unknown"}
    BY <1>3, <1>4, <2>1 DEF CopiesWereHad
  <2>3. CopiesWereHad'
    BY <1>2, <1>5, <2>1, RolesEnds
  <2>4. SessionsWereHad'
    BY <1>2, <1>6, <2>1, <2>2 DEF SessionsWereHad
  <2>5. QED
    BY <2>3, <2>4 DEF RolesWereHad, SessionsWereHad, CopiesWereHad
<1>10. OwnOnly'
  BY <1>1, <1>2 DEF OwnOnly, Own
<1>11. Careful(p)'
  <2>1. CASE p \in tangled \/ ~stored
    BY <1>5, <2>1 DEF Careful
  <2>2. CASE Attentive(p) /\ p \notin missed /\ stored
    <3>1. open[p] # None => Fits(copy, open[p])
      BY <1>2, <1>3, <2>2 DEF Attentive, Of
    <3>2. Attentive(p)'
      BY <1>2, <1>3, <1>5, <1>6, <2>2, <3>1, AttentiveEnds
    <3>3. QED
      BY <1>2, <2>2, <3>2 DEF Careful
  <2>3. QED
    BY <1>1, <2>1, <2>2 DEF Careful
<1>12. \A q \in Phone : Careful(q)'
  <2>1. Apart(p)
    BY <1>2, <1>3, <1>5, <1>6, ApartEnds
  <2>2. QED
    BY <1>1, <1>2, <1>5, <1>11, <2>1, OthersCareful
<1>13. QED
  BY <1>7, <1>8, <1>9, <1>10, <1>12 DEF BotInv

LEMMA BotFailKeeps ==
    ASSUME B!BotAssumption, BotInv, NEW m \in Slot, B!Fail(m)
    PROVE  BotInv'
<1>1. BotTypes /\ MessagesFit /\ RolesWereHad /\ OwnOnly /\ \A q \in Phone : Careful(q)
  BY DEF BotInv
<1>2. msg[m].step = "route" /\ UNCHANGED <<who, session, shown, open, got, been, tangled, missed>>
  BY DEF B!Fail, B!In, B!history
<1>3. PICK p \in Phone : p = msg[m].phone /\ AtWork(m)
  BY <1>1, <1>2, Working
<1>4. Ends(m)
  BY <1>1, FinishEnds DEF B!Fail
<1>5. BotTypes'
  BY <1>1, <1>2, <1>4 DEF BotTypes, Ends
<1>6. MessagesFit'
  BY <1>1, <1>2, <1>4, FitEnds DEF MoreShown
<1>7. RolesWereHad'
  <2>1. SessionsWereHad /\ CopiesWereHad
    BY <1>1 DEF RolesWereHad, SessionsWereHad, CopiesWereHad
  <2>2. CopiesWereHad'
    BY <1>2, <1>4, <2>1, RolesEnds
  <2>3. QED
    BY <1>2, <2>1, <2>2 DEF RolesWereHad, SessionsWereHad, CopiesWereHad
<1>8. OwnOnly'
  BY <1>1, <1>2 DEF OwnOnly, Own
<1>9. Careful(p)'
  <2>1. CASE p \in tangled
    BY <1>2, <2>1 DEF Careful
  <2>2. CASE Attentive(p) /\ p \notin missed
    <3>1. open[p] # None => Fits(session[p], open[p])
      BY <1>2, <1>3, <2>2, BeforeSaving
    <3>2. Attentive(p)'
      BY <1>2, <1>3, <1>4, <2>2, <3>1, AttentiveEnds
    <3>3. QED
      BY <1>2, <2>2, <3>2 DEF Careful
  <2>3. QED
    BY <1>1, <2>1, <2>2 DEF Careful
<1>10. \A q \in Phone : Careful(q)'
  <2>1. Apart(p)
    BY <1>2, <1>3, <1>4, ApartEnds
  <2>2. QED
    BY <1>1, <1>2, <1>9, <2>1, OthersCareful
<1>11. QED
  BY <1>5, <1>6, <1>7, <1>8, <1>10 DEF BotInv

LEMMA LoseKeeps ==
    ASSUME B!BotAssumption, BotInv, NEW m \in Slot, B!Lose(m)
    PROVE  BotInv'
<1>1. BotTypes /\ MessagesFit /\ RolesWereHad /\ OwnOnly /\ \A q \in Phone : Careful(q)
  BY DEF BotInv
<1>2. msg[m] # B!Idle /\ UNCHANGED <<who, session, shown, open, got, been>>
  BY DEF B!Lose
<1>3. PICK p \in Phone : p = msg[m].phone /\ AtWork(m)
  BY <1>1, <1>2 DEF MessagesFit, AtWork
<1>4. Ends(m) /\ tangled' = tangled \cup {p} /\ missed' \subseteq missed \cup {p}
  BY <1>1, <1>3, FinishEnds DEF B!Lose
<1>5. BotTypes'
  BY <1>1, <1>2, <1>4 DEF BotTypes, Ends
<1>6. MessagesFit'
  BY <1>1, <1>2, <1>4, FitEnds DEF MoreShown
<1>7. RolesWereHad'
  <2>1. SessionsWereHad /\ CopiesWereHad
    BY <1>1 DEF RolesWereHad, SessionsWereHad, CopiesWereHad
  <2>2. CopiesWereHad'
    BY <1>2, <1>4, <2>1, RolesEnds
  <2>3. QED
    BY <1>2, <2>1, <2>2 DEF RolesWereHad, SessionsWereHad, CopiesWereHad
<1>8. OwnOnly'
  BY <1>1, <1>2 DEF OwnOnly, Own
<1>9. Careful(p)'
  BY <1>4 DEF Careful
<1>10. \A q \in Phone : Careful(q)'
  <2>1. Apart(p)
    BY <1>2, <1>3, <1>4, ApartEnds
  <2>2. QED
    BY <1>1, <1>4, <1>9, <2>1, OthersCareful
<1>11. QED
  BY <1>5, <1>6, <1>7, <1>8, <1>10 DEF BotInv

-----------------------------------------------------------------------------
(* A message arrives, a session expires, a role changes *)

LEMMA ReceiveKeeps ==
    ASSUME B!BotAssumption, BotInv, NEW m \in Slot, NEW p \in Phone, NEW says \in Says, B!Receive(m, p, says)
    PROVE  BotInv'
<1> DEFINE new == [phone |-> p, says |-> says, step |-> "session", copy |-> None]
<1>1. BotTypes /\ MessagesFit /\ RolesWereHad /\ OwnOnly /\ \A q \in Phone : Careful(q)
  BY DEF BotInv
<1>2. msg[m] = B!Idle /\ says.tap \in shown[p] \cup {None}
      /\ UNCHANGED <<who, session, shown, open, got, been, missed>>
  BY DEF B!Receive
<1>3. new \in MsgType /\ new.phone = p /\ new.step = "session" /\ new.copy = None /\ new.says = says
  BY DEF MsgType, StepName
<1>4. msg' = [msg EXCEPT ![m] = new]
  BY DEF B!Receive
<1> HIDE DEF new
<1>5. msg' \in [Slot -> MsgType] /\ msg'[m] = new /\ \A n \in Slot : n # m => msg'[n] = msg[n]
  BY <1>1, <1>3, <1>4 DEF BotTypes
<1>6. BotTypes'
  BY <1>1, <1>2, <1>5 DEF BotTypes
<1>7. MessagesFit'
  <2>1. ASSUME NEW n \in Slot PROVE msg'[n] = B!Idle \/ AtWork(n)'
    <3>1. CASE n = m
      BY <1>2, <1>3, <1>5, <3>1 DEF AtWork
    <3>2. CASE n # m
      <4>1. msg'[n] = msg[n] /\ (msg[n] = B!Idle \/ AtWork(n))
        BY <1>1, <1>5, <3>2 DEF MessagesFit
      <4>2. QED
        BY <1>2, <4>1 DEF AtWork
    <3>3. QED
      BY <3>1, <3>2
  <2>2. QED
    BY <2>1 DEF MessagesFit, B!Idle
<1>8. RolesWereHad'
  BY <1>1, <1>2, <1>3, <1>5 DEF RolesWereHad
<1>9. OwnOnly'
  BY <1>1, <1>2 DEF OwnOnly, Own
<1>10. tangled \subseteq tangled' /\ (B!Busy(p) => p \in tangled')
  BY DEF B!Receive
<1>11. Careful(p)'
  <2>1. CASE p \in tangled \/ B!Busy(p)
    BY <1>10, <2>1 DEF Careful
  <2>2. CASE Attentive(p) /\ p \notin missed /\ ~B!Busy(p)
    <3>1. \A n \in Slot : msg[n].phone # p /\ (msg'[n].phone = p => n = m)
      BY <1>5, <2>2 DEF B!Busy
    <3>2. open[p] # None => Fits(session[p], open[p])
      BY <2>2, <3>1 DEF Attentive, Of
    <3>3. Attentive(p)'
      <4>1. \A n \in Slot : ~Of(n, p, "route")' /\ ~Of(n, p, "resolve")' /\ ~Of(n, p, "create")' /\ ~Of(n, p, "save")'
        BY <1>3, <1>5, <3>1 DEF Of
      <4>2. QED
        BY <1>2, <3>1, <3>2, <4>1 DEF Attentive, Fits
    <3>4. QED
      BY <1>2, <2>2, <3>3 DEF Careful
  <2>3. QED
    BY <1>1, <2>1, <2>2 DEF Careful
<1>12. \A q \in Phone : Careful(q)'
  <2>1. Apart(p)
    BY <1>2, <1>3, <1>5, IdleMessage DEF Apart
  <2>2. QED
    BY <1>1, <1>2, <1>10, <1>11, <2>1, OthersCareful
<1>13. QED
  BY <1>6, <1>7, <1>8, <1>9, <1>12 DEF BotInv

LEMMA ExpireKeeps ==
    ASSUME B!BotAssumption, BotInv, NEW p \in Phone, B!Expire(p)
    PROVE  BotInv'
<1>1. BotTypes /\ MessagesFit /\ RolesWereHad /\ OwnOnly /\ \A q \in Phone : Careful(q)
  BY DEF BotInv
<1>2. UNCHANGED <<who, msg, shown, open, got, been, missed>> /\ tangled' = tangled \cup {p}
      /\ session' = [session EXCEPT ![p] = None]
  BY DEF B!Expire
<1>3. session' \in [Phone -> B!Copy \cup {None}] /\ session'[p] = None
      /\ \A q \in Phone : q # p => session'[q] = session[q]
  BY <1>1, <1>2 DEF BotTypes
<1>4. BotTypes'
  BY <1>1, <1>2, <1>3 DEF BotTypes
<1>5. MessagesFit'
  BY <1>1, <1>2 DEF MessagesFit, AtWork, B!Idle
<1>6. RolesWereHad'
  BY <1>1, <1>2, <1>3 DEF RolesWereHad
<1>7. OwnOnly'
  BY <1>1, <1>2 DEF OwnOnly, Own
<1>8. \A q \in Phone : Careful(q)'
  <2>1. Apart(p)
    BY <1>2, <1>3 DEF Apart
  <2>2. Careful(p)'
    BY <1>2 DEF Careful
  <2>3. QED
    BY <1>1, <1>2, <2>1, <2>2, OthersCareful
<1>9. QED
  BY <1>4, <1>5, <1>6, <1>7, <1>8 DEF BotInv

LEMMA RoleChangesKeeps ==
    ASSUME B!BotAssumption, BotInv, NEW p \in Phone, NEW role \in B!Roles, B!RoleChanges(p, role)
    PROVE  BotInv'
<1>1. BotTypes /\ MessagesFit /\ RolesWereHad /\ OwnOnly /\ \A q \in Phone : Careful(q)
  BY DEF BotInv
<1>2. UNCHANGED <<session, msg, shown, open, got, tangled, missed>>
      /\ who' = [who EXCEPT ![p] = role] /\ been' = [been EXCEPT ![p] = @ \cup {role}]
  BY DEF B!RoleChanges
<1>3. /\ who' \in [Phone -> B!Roles] /\ been' \in [Phone -> SUBSET B!Roles]
      /\ \A q \in Phone : been[q] \subseteq been'[q] /\ who'[q] \in been'[q]
  BY <1>1, <1>2 DEF BotTypes, RolesWereHad
<1>4. BotTypes'
  BY <1>1, <1>2, <1>3 DEF BotTypes
<1>5. MessagesFit'
  BY <1>1, <1>2 DEF MessagesFit, AtWork, B!Idle
<1>6. RolesWereHad'
  <2>1. ASSUME NEW m \in Slot, msg[m].copy # None PROVE msg[m].copy.role \in been'[msg[m].phone] \cup {"unknown"}
    <3>1. msg[m].phone \in Phone
      BY <1>1, <2>1, IdleMessage DEF MessagesFit, AtWork
    <3>2. QED
      BY <1>1, <1>3, <2>1, <3>1 DEF RolesWereHad
  <2>2. QED
    BY <1>1, <1>2, <1>3, <2>1 DEF RolesWereHad
<1>7. OwnOnly'
  BY <1>1, <1>2, <1>3 DEF OwnOnly, Own
<1>8. \A q \in Phone : Careful(q)'
  BY <1>1, <1>2 DEF Careful, Attentive, Of, Fits
<1>9. QED
  BY <1>4, <1>5, <1>6, <1>7, <1>8 DEF BotInv

-----------------------------------------------------------------------------
(* The command of a message *)

\* What a message at its route leaves behind, by what it did.
LEMMA SayLeaves ==
    ASSUME B!BotAssumption, BotTypes, NEW m \in Slot, NEW p \in Phone, p = msg[m].phone, NEW what,
           B!Say(m, what)
    PROVE  /\ Ends(m) /\ UNCHANGED <<shown, open>> /\ got' = [q \in Phone |-> got'[q]]
           /\ got'[p] = got[p] \cup {what} /\ \A q \in Phone : q # p => got'[q] = got[q]
<1>1. got' = [got EXCEPT ![p] = @ \cup {what}] /\ got = [q \in Phone |-> got[q]]
  BY DEF B!Say, B!Tell, BotTypes
<1>2. QED
  BY <1>1, FinishEnds DEF B!Say

LEMMA AnswerLeaves ==
    ASSUME BotTypes, NEW m \in Slot, NEW p \in Phone, p = msg[m].phone, NEW what, msg[m].copy \in B!Copy,
           B!Answer(m, what)
    PROVE  /\ \E copy \in B!Copy : copy.role = msg[m].copy.role /\ Turns(m, "save", copy)
           /\ shown' = shown /\ open' \in [Phone -> {None, "invoice", "report"}]
           /\ open'[p] = None /\ \A q \in Phone : q # p => open'[q] = open[q]
           /\ got' = [q \in Phone |-> got'[q]]
           /\ got'[p] = got[p] \cup {what} /\ \A q \in Phone : q # p => got'[q] = got[q]
<1>1. got' = [got EXCEPT ![p] = @ \cup {what}] /\ got = [q \in Phone |-> got[q]]
  BY DEF B!Answer, B!Tell, BotTypes
<1>2. open' = [open EXCEPT ![p] = None] /\ open \in [Phone -> {None, "invoice", "report"}]
  BY DEF B!Answer, BotTypes
<1>3. \E copy \in B!Copy : copy.role = msg[m].copy.role /\ Turns(m, "save", copy)
  BY TurnsState DEF B!Answer, B!States
<1>4. QED
  BY <1>1, <1>2, <1>3 DEF B!Answer

LEMMA AskTurns ==
    ASSUME BotTypes, NEW m \in Slot, msg[m].copy \in B!Copy, NEW entries, NEW question, NEW state \in B!States,
           B!Ask(m, entries, question, state)
    PROVE  \E copy \in B!Copy : copy.role = msg[m].copy.role /\ copy.state = state /\ Turns(m, "save", copy)
BY TurnsState DEF B!Ask

LEMMA AskLeaves ==
    ASSUME BotTypes, NEW m \in Slot, NEW p \in Phone, p = msg[m].phone,
           NEW entries \in SUBSET (Phone \cup {"rep"}), NEW question \in {"invoice", "report"},
           NEW state, B!Ask(m, entries, question, state)
    PROVE  /\ shown' \in [Phone -> SUBSET (Phone \cup {"rep"})]
           /\ shown'[p] = shown[p] \cup entries /\ \A q \in Phone : q # p => shown'[q] = shown[q]
           /\ open' \in [Phone -> {None, "invoice", "report"}]
           /\ open'[p] = question /\ \A q \in Phone : q # p => open'[q] = open[q]
           /\ got' = got
<1>1. open' = [open EXCEPT ![p] = question] /\ open \in [Phone -> {None, "invoice", "report"}]
  BY DEF B!Ask, BotTypes
<1>2. shown' = [shown EXCEPT ![p] = @ \cup entries] /\ shown \in [Phone -> SUBSET (Phone \cup {"rep"})]
  BY DEF B!Ask, BotTypes
<1>3. shown[p] \cup entries \in SUBSET (Phone \cup {"rep"})
  BY <1>2
<1>4. shown' \in [Phone -> SUBSET (Phone \cup {"rep"})]
  BY <1>2, <1>3
<1>5. QED
  BY <1>1, <1>2, <1>4 DEF B!Ask

\* A tap on the question the session waits for is answered.
LEMMA TapGetsAnswer ==
    ASSUME B!BotAssumption, NEW m \in Slot, B!Route(m), msg[m].copy \in B!Copy, NEW p, p = msg[m].phone, BotTypes, p \in Phone,
           Fits(msg[m].copy, open[p]),
           B!OnNewest(m)
    PROVE  open'[p] = None
<1>0. \/ msg[m].says.tap \in Phone /\ open[p] = "invoice"
      \/ msg[m].says.tap = "rep" /\ open[p] = "report"
  BY DEF B!OnNewest
<1>1. B!ParseIntent(msg[m].says, msg[m].copy) = "INTERACTIVE_REPLY"
  BY <1>0, IdleMessage DEF B!ParseIntent
<1>2. msg[m].copy.role # "unknown"
  BY DEF Fits
<1>3. CASE msg[m].says.tap \in Phone /\ open[p] = "invoice"
  <2>1. msg[m].copy.state = "waiting_invoice_selection"
    BY <1>3 DEF Fits
  <2>2. B!Command(msg[m].says, msg[m].copy) = "INVOICE_LIST"
    BY <1>1, <2>1 DEF B!Command
  <2>3. B!InvoiceCommand(m)
    BY <1>2, <2>2 DEF B!Route
  <2>4. B!Answer(m, <<"pdf", msg[m].says.tap>>)
    BY <1>3, <2>1, <2>3 DEF B!InvoiceCommand
  <2>5. QED
    BY <2>4, AnswerLeaves
<1>4. CASE msg[m].says.tap = "rep" /\ open[p] = "report"
  <2>1. msg[m].copy.state = "waiting_report_period" /\ msg[m].copy.role = "user"
    BY <1>4 DEF Fits
  <2>2. B!Command(msg[m].says, msg[m].copy) = "REPORT"
    BY <1>1, <2>1 DEF B!Command
  <2>3. B!ReportCommand(m)
    BY <1>2, <2>2 DEF B!Route
  <2>4. B!Answer(m, <<"books">>)
    BY <1>4, <2>1, <2>3 DEF B!ReportCommand
  <2>5. QED
    BY <2>4, AnswerLeaves
<1>5. QED
  BY <1>0, <1>3, <1>4

\* What the reply of a message leaves behind, all the parts of the invariant need of it.
Replies(m, p) ==
    /\ \/ Ends(m) /\ UNCHANGED open
       \/ \E copy \in B!Copy : /\ copy.role = msg[m].copy.role /\ Turns(m, "save", copy)
                               /\ open'[p] # None => Fits(copy, open'[p])
    /\ open' \in [Phone -> {None, "invoice", "report"}] /\ \A q \in Phone : q # p => open'[q] = open[q]
    /\ shown' \in [Phone -> SUBSET (Phone \cup {"rep"})]
    /\ got' = [q \in Phone |-> got'[q]]
    /\ \A q \in Phone : shown[q] \subseteq shown'[q]
    /\ \A q \in Phone : q # p => got'[q] = got[q] /\ shown'[q] = shown[q]
    /\ "user" \notin been[p] => Own(p)'

LEMMA RouteReplies ==
    ASSUME B!BotAssumption, BotInv, NEW m \in Slot, B!Route(m), NEW p \in Phone, p = msg[m].phone,
           msg[m].copy \in B!Copy, AtWork(m)
    PROVE  Replies(m, p)
<1>1. BotTypes /\ RolesWereHad /\ OwnOnly
  BY DEF BotInv
<1>2. msg[m].copy.role \in been[p] \cup {"unknown"}
  BY <1>1, IdleMessage DEF RolesWereHad
<1>3. "user" \notin been[p] => Own(p) /\ msg[m].copy.role # "user"
  BY <1>1, <1>2 DEF OwnOnly
<1>4. /\ open \in [Phone -> {None, "invoice", "report"}] /\ shown \in [Phone -> SUBSET (Phone \cup {"rep"})]
      /\ UNCHANGED session
  BY <1>1 DEF BotTypes, B!Route
<1>5. ASSUME NEW what, B!Say(m, what), what # <<"books">> \/ msg[m].copy.role = "user",
             \A q \in Phone : what # <<"pdf", q>>
      PROVE  Replies(m, p)
  <2>1. /\ Ends(m) /\ UNCHANGED <<shown, open>> /\ got' = [q \in Phone |-> got'[q]]
        /\ got'[p] = got[p] \cup {what} /\ \A q \in Phone : q # p => got'[q] = got[q]
    BY <1>1, <1>5, SayLeaves
  <2>2. "user" \notin been[p] => Own(p)'
    BY <1>3, <1>5, <2>1 DEF Own
  <2>3. QED
    BY <1>4, <2>1, <2>2 DEF Replies
<1>6. CASE msg[m].says.tap \in Phone /\ B!Answer(m, <<"pdf", msg[m].says.tap>>)
  <2> DEFINE tap == msg[m].says.tap
  <2>1. /\ \E copy \in B!Copy : copy.role = msg[m].copy.role /\ Turns(m, "save", copy)
        /\ shown' = shown /\ open' \in [Phone -> {None, "invoice", "report"}]
        /\ open'[p] = None /\ \A q \in Phone : q # p => open'[q] = open[q]
        /\ got' = [q \in Phone |-> got'[q]]
        /\ got'[p] = got[p] \cup {<<"pdf", tap>>} /\ \A q \in Phone : q # p => got'[q] = got[q]
    BY <1>1, <1>6, AnswerLeaves
  <2>2. "user" \notin been[p] => tap = p
    BY <1>3, <1>6, IdleMessage DEF Own, AtWork
  <2>3. "user" \notin been[p] => Own(p)'
    BY <1>3, <2>1, <2>2 DEF Own
  <2>4. QED
    BY <1>4, <2>1, <2>3 DEF Replies
<1>7. CASE msg[m].copy.role = "user" /\ B!Answer(m, <<"books">>)
  <2>1. /\ \E copy \in B!Copy : copy.role = msg[m].copy.role /\ Turns(m, "save", copy)
        /\ shown' = shown /\ open' \in [Phone -> {None, "invoice", "report"}]
        /\ open'[p] = None /\ \A q \in Phone : q # p => open'[q] = open[q]
        /\ got' = [q \in Phone |-> got'[q]]
        /\ \A q \in Phone : q # p => got'[q] = got[q]
    BY <1>1, <1>7, AnswerLeaves
  <2>2. QED
    BY <1>3, <1>4, <1>7, <2>1 DEF Replies
<1>8. CASE msg[m].copy.role # "unknown" /\ B!Ask(m, B!Entitled(msg[m].copy, msg[m].phone), "invoice", "waiting_invoice_selection")
  <2> DEFINE entries == B!Entitled(msg[m].copy, msg[m].phone)
  <2>1. entries \in SUBSET (Phone \cup {"rep"}) /\ (msg[m].copy.role = "customer" => entries = {p})
    BY DEF B!Entitled
  <2> HIDE DEF entries
  <2>2. PICK copy \in B!Copy : copy.role = msg[m].copy.role /\ copy.state = "waiting_invoice_selection"
                               /\ Turns(m, "save", copy)
    BY <1>1, <1>8, AskTurns DEF B!States
  <2>3. /\ shown' \in [Phone -> SUBSET (Phone \cup {"rep"})]
        /\ shown'[p] = shown[p] \cup entries /\ \A q \in Phone : q # p => shown'[q] = shown[q]
        /\ open' \in [Phone -> {None, "invoice", "report"}]
        /\ open'[p] = "invoice" /\ \A q \in Phone : q # p => open'[q] = open[q]
        /\ got' = got
    BY <1>1, <1>8, <2>1, AskLeaves DEF entries
  <2>4. Fits(copy, "invoice")
    BY <1>8, <2>2, IdleMessage DEF Fits
  <2>5. "user" \notin been[p] => entries = {p}
    BY <1>3, <1>8, <2>1 DEF B!Copy, B!Roles
  <2>6. "user" \notin been[p] => Own(p)'
    BY <1>3, <2>3, <2>5 DEF Own
  <2>7. got' = [q \in Phone |-> got'[q]]
    BY <1>1, <2>3 DEF BotTypes
  <2>8. QED
    BY <2>2, <2>3, <2>4, <2>6, <2>7 DEF Replies
<1>9. CASE msg[m].copy.role = "user" /\ B!Ask(m, {"rep"}, "report", "waiting_report_period")
  <2>1. PICK copy \in B!Copy : copy.role = "user" /\ copy.role = msg[m].copy.role
                               /\ copy.state = "waiting_report_period" /\ Turns(m, "save", copy)
    BY <1>1, <1>9, AskTurns DEF B!States
  <2>2. /\ shown' \in [Phone -> SUBSET (Phone \cup {"rep"})]
        /\ shown'[p] = shown[p] \cup {"rep"} /\ \A q \in Phone : q # p => shown'[q] = shown[q]
        /\ open' \in [Phone -> {None, "invoice", "report"}]
        /\ open'[p] = "report" /\ \A q \in Phone : q # p => open'[q] = open[q]
        /\ got' = got
    <3>1. {"rep"} \in SUBSET (Phone \cup {"rep"})
      OBVIOUS
    <3>2. B!Ask(m, {"rep"}, "report", "waiting_report_period")
      BY <1>9
    <3>3. QED
      BY <1>1, <3>1, <3>2, AskLeaves
  <2>3. Fits(copy, "report")
    BY <2>1, IdleMessage DEF Fits
  <2>4. got' = [q \in Phone |-> got'[q]]
    BY <1>1, <2>2 DEF BotTypes
  <2>5. QED
    BY <1>3, <1>9, <2>1, <2>2, <2>3, <2>4 DEF Replies
<1>10. CASE \E what : /\ B!Say(m, what)
                      /\ what # <<"books">> \/ msg[m].copy.role = "user"
                      /\ \A q \in Phone : what # <<"pdf", q>>
  BY <1>5, <1>10
<1>11. RouteSays(m)
  BY RouteKinds
<1>12. QED
  BY <1>6, <1>7, <1>8, <1>9, <1>10, <1>11 DEF RouteSays

LEMMA RouteKeeps ==
    ASSUME B!BotAssumption, BotInv, NEW m \in Slot, B!Route(m)
    PROVE  BotInv'
<1>1. BotTypes /\ MessagesFit /\ RolesWereHad /\ OwnOnly /\ \A q \in Phone : Careful(q)
  BY DEF BotInv
<1>2. msg[m].step = "route" /\ UNCHANGED <<who, session, been, tangled>>
  BY DEF B!Route, B!In, B!history
<1>3. PICK p \in Phone : p = msg[m].phone /\ AtWork(m) /\ msg[m] # B!Idle
  BY <1>1, <1>2, Working
<1>4. msg[m].copy \in B!Copy
  BY <1>2, <1>3 DEF AtWork
<1>5. Replies(m, p)
  BY <1>3, <1>4, RouteReplies
<1>6. BotTypes'
  <2>1. missed' \subseteq Phone
    BY <1>1, <1>3 DEF B!Route, BotTypes
  <2>2. QED
    BY <1>1, <1>2, <1>5, <2>1 DEF BotTypes, Replies, Ends, Turns
<1>7. MessagesFit'
  <2>1. MoreShown
    BY <1>5 DEF MoreShown, Replies
  <2>2. CASE Ends(m)
    BY <1>1, <2>1, <2>2, FitEnds
  <2>3. ASSUME NEW copy \in B!Copy, Turns(m, "save", copy) PROVE MessagesFit'
    BY <1>1, <1>3, <2>1, <2>3, FitTurns DEF RightCopy, StepName
  <2>4. QED
    BY <1>5, <2>2, <2>3 DEF Replies
<1>8. RolesWereHad'
  <2>1. SessionsWereHad /\ CopiesWereHad
    BY <1>1 DEF RolesWereHad, SessionsWereHad, CopiesWereHad
  <2>2. CASE Ends(m)
    <3>1. CopiesWereHad'
      BY <1>2, <2>1, <2>2, RolesEnds
    <3>2. QED
      BY <1>2, <2>1, <3>1 DEF RolesWereHad, SessionsWereHad, CopiesWereHad
  <2>3. ASSUME NEW copy \in B!Copy, copy.role = msg[m].copy.role, Turns(m, "save", copy) PROVE RolesWereHad'
    <3>1. copy.role \in been[msg[m].phone] \cup {"unknown"}
      BY <1>4, <2>1, <2>3, IdleMessage DEF CopiesWereHad
    <3>2. CopiesWereHad'
      BY <1>2, <2>1, <2>3, <3>1, RolesTurns
    <3>3. QED
      BY <1>2, <2>1, <3>2 DEF RolesWereHad, SessionsWereHad, CopiesWereHad
  <2>4. QED
    BY <1>5, <2>2, <2>3 DEF Replies
<1>9. OwnOnly'
  <2>1. ASSUME NEW q \in Phone, "user" \notin been[q] PROVE Own(q)'
    <3>1. CASE q = p
      BY <1>5, <2>1, <3>1 DEF Replies
    <3>2. CASE q # p
      BY <1>1, <1>5, <2>1, <3>2 DEF Replies, OwnOnly, Own
    <3>3. QED
      BY <3>1, <3>2
  <2>2. QED
    BY <1>2, <2>1 DEF OwnOnly, Own
<1>10. missed' = IF B!OnNewest(m) /\ open'[p] # None THEN missed \cup {p} ELSE missed
  BY <1>3 DEF B!Route
<1>11. Careful(p)'
  <2>1. CASE p \in tangled
    BY <1>2, <2>1 DEF Careful
  <2>2. CASE Attentive(p) /\ p \notin missed
    <3>1. open[p] # None => Fits(session[p], open[p])
      BY <1>2, <1>3, <2>2, BeforeSaving
    <3>2. open[p] # None => Fits(msg[m].copy, open[p])
      BY <1>2, <1>3, <2>2 DEF Attentive, Of
    <3>3. ASSUME Ends(m), UNCHANGED open PROVE Attentive(p)'
      BY <1>2, <1>3, <2>2, <3>1, <3>3, AttentiveEnds
    <3>4. ASSUME NEW copy \in B!Copy, Turns(m, "save", copy), open'[p] # None => Fits(copy, open'[p])
          PROVE  Attentive(p)'
      BY <1>2, <1>3, <2>2, <3>4, AttentiveTurns
    <3>5. Attentive(p)'
      BY <1>5, <3>3, <3>4 DEF Replies
    <3>6. p \notin missed'
      <4>1. B!OnNewest(m) => open[p] # None
        BY <1>3, IdleMessage DEF B!OnNewest
      <4>2. QED
        BY <1>1, <1>3, <1>4, <1>10, <2>2, <3>2, <4>1, TapGetsAnswer
    <3>7. QED
      BY <3>5, <3>6 DEF Careful
  <2>3. QED
    BY <1>1, <2>1, <2>2 DEF Careful
<1>12. \A q \in Phone : Careful(q)'
  <2>1. Apart(p)
    BY <1>2, <1>3, <1>5, ApartTurns, ApartEnds DEF Replies
  <2>2. missed' \subseteq missed \cup {p}
    BY <1>10
  <2>3. QED
    BY <1>1, <1>2, <1>11, <2>1, <2>2, OthersCareful
<1>13. QED
  BY <1>6, <1>7, <1>8, <1>9, <1>12 DEF BotInv

-----------------------------------------------------------------------------
(* The theorems *)

LEMMA BotStarts ==
    ASSUME B!BotAssumption, B!Init
    PROVE  BotInv
<1>1. /\ who \in [Phone -> B!Roles] /\ session = [p \in Phone |-> None]
      /\ msg = [m \in Slot |-> B!Idle]
      /\ shown = [p \in Phone |-> {}] /\ open = [p \in Phone |-> None]
      /\ got = [p \in Phone |-> {}]
      /\ been = [p \in Phone |-> {who[p]}] /\ missed = {}
  BY DEF B!Init
<1>2. BotTypes
  BY <1>1, IdleMessage DEF BotTypes, B!Init
<1>3. MessagesFit /\ RolesWereHad /\ OwnOnly
  BY <1>1, IdleMessage DEF MessagesFit, RolesWereHad, OwnOnly, Own
<1>4. ASSUME NEW p \in Phone PROVE Careful(p)
  BY <1>1, IdleMessage DEF Careful, Attentive, Of
<1>5. QED
  BY <1>2, <1>3, <1>4 DEF BotInv

LEMMA BotSteps ==
    ASSUME B!BotAssumption, BotInv, [B!Next]_(B!vars)
    PROVE  BotInv'
<1>1. ASSUME NEW m \in Slot, NEW p \in Phone, NEW tap \in Phone \cup {"rep"},
             B!Receive(m, p, [tap |-> tap, text |-> {}])
      PROVE  BotInv'
  BY <1>1, ReceiveKeeps DEF Says
<1>2. ASSUME NEW m \in Slot, NEW p \in Phone, NEW text \in Text, B!Receive(m, p, [tap |-> None, text |-> text])
      PROVE  BotInv'
  BY <1>2, ReceiveKeeps DEF Says
<1>3. CASE UNCHANGED B!vars
  BY <1>3 DEF B!vars, BotInv, BotTypes, MessagesFit, AtWork, B!Idle, RolesWereHad, OwnOnly, Own, Careful,
              Attentive, Of, Fits
<1>4. CASE B!Next
  BY <1>1, <1>2, <1>4, GetSessionKeeps, ResolveKeeps, CreateKeeps, RouteKeeps, SetSessionKeeps,
     BotFailKeeps, LoseKeeps, ExpireKeeps, RoleChangesKeeps DEF B!Next
<1>5. QED
  BY <1>3, <1>4

(***************************************************************************)
(* Assistant: the index and the conversations                              *)
(***************************************************************************)

-----------------------------------------------------------------------------
(* The newest turns of a conversation *)

LEMMA NewestElements ==
    ASSUME Kept \in Nat, NEW S, NEW t \in Seq(S)
    PROVE  /\ A!Newest(t) \in Seq(S)
           /\ Len(A!Newest(t)) = IF Len(t) > Kept THEN Kept ELSE Len(t)
           /\ \A i \in 1 .. Len(A!Newest(t)) : A!Newest(t)[i] = t[Len(t) - Len(A!Newest(t)) + i]
<1> DEFINE from == IF Len(t) > Kept THEN Len(t) - Kept + 1 ELSE 1
<1>1. Len(t) \in Nat /\ from \in 1 .. Len(t) + 1
  BY LenProperties
<1>2. A!Newest(t) = SubSeq(t, from, Len(t))
  BY DEF A!Newest
<1> HIDE DEF from
<1>3. SubSeq(t, from, Len(t)) \in Seq(S)
  BY <1>1, SubSeqProperties
<1>4. Len(SubSeq(t, from, Len(t))) = IF from <= Len(t) THEN Len(t) - from + 1 ELSE 0
  BY <1>1, SubSeqProperties
<1>5. \A i \in 1 .. Len(t) - from + 1 : SubSeq(t, from, Len(t))[i] = t[from + i - 1]
  BY <1>1, SubSeqProperties
<1>6. Len(A!Newest(t)) = Len(t) - from + 1
  BY <1>1, <1>2, <1>4
<1>7. Len(t) - from + 1 = IF Len(t) > Kept THEN Kept ELSE Len(t)
  BY <1>1 DEF from
<1>8. ASSUME NEW i \in 1 .. Len(A!Newest(t)) PROVE A!Newest(t)[i] = t[Len(t) - Len(A!Newest(t)) + i]
  <2>1. i \in 1 .. Len(t) - from + 1 /\ from + i - 1 = Len(t) - Len(A!Newest(t)) + i
    BY <1>1, <1>6
  <2>2. QED
    BY <1>2, <1>5, <2>1
<1>9. QED
  BY <1>2, <1>3, <1>6, <1>7, <1>8

\* Capping before a turn is added loses nothing that the cap after it keeps.
LEMMA NewestOfAppend ==
    ASSUME Kept \in Nat, NEW S, NEW t \in Seq(S), NEW x \in S
    PROVE  A!Newest(Append(A!Newest(t), x)) = A!Newest(Append(t, x))
<1> DEFINE u == A!Newest(t)
           a == Append(u, x)
           b == Append(t, x)
<1>1. /\ u \in Seq(S) /\ Len(u) = IF Len(t) > Kept THEN Kept ELSE Len(t)
      /\ \A i \in 1 .. Len(u) : u[i] = t[Len(t) - Len(u) + i]
  BY NewestElements
<1> HIDE DEF u
<1>2. Len(t) \in Nat /\ Len(u) \in Nat
  BY <1>1, LenProperties
<1>3. /\ a \in Seq(S) /\ Len(a) = Len(u) + 1 /\ a[Len(u) + 1] = x
      /\ \A i \in 1 .. Len(u) : a[i] = u[i]
  BY <1>1, AppendProperties
<1>4. /\ b \in Seq(S) /\ Len(b) = Len(t) + 1 /\ b[Len(t) + 1] = x
      /\ \A i \in 1 .. Len(t) : b[i] = t[i]
  BY AppendProperties
<1> HIDE DEF a, b
<1>5. /\ A!Newest(a) \in Seq(S) /\ Len(A!Newest(a)) = IF Len(a) > Kept THEN Kept ELSE Len(a)
      /\ \A i \in 1 .. Len(A!Newest(a)) : A!Newest(a)[i] = a[Len(a) - Len(A!Newest(a)) + i]
  BY <1>3, NewestElements
<1>6. /\ A!Newest(b) \in Seq(S) /\ Len(A!Newest(b)) = IF Len(b) > Kept THEN Kept ELSE Len(b)
      /\ \A i \in 1 .. Len(A!Newest(b)) : A!Newest(b)[i] = b[Len(b) - Len(A!Newest(b)) + i]
  BY <1>4, NewestElements
<1>7. Len(A!Newest(a)) = Len(A!Newest(b)) /\ Len(A!Newest(a)) \in Nat /\ Len(A!Newest(a)) <= Len(u) + 1
  BY <1>1, <1>2, <1>3, <1>4, <1>5, <1>6
<1>8. ASSUME NEW i \in 1 .. Len(A!Newest(a)) PROVE A!Newest(a)[i] = A!Newest(b)[i]
  <2> DEFINE k == Len(A!Newest(a))
             j == Len(u) + 1 - k + i
             n == Len(t) + 1 - k + i
  <2>1. k \in Nat /\ k <= Len(u) + 1 /\ i \in 1 .. k /\ Len(u) <= Len(t)
    BY <1>1, <1>2, <1>7
  <2>2. A!Newest(a)[i] = a[j]
    <3>1. Len(a) - Len(A!Newest(a)) + i = j
      BY <1>2, <1>3, <2>1
    <3>2. A!Newest(a)[i] = a[Len(a) - Len(A!Newest(a)) + i]
      BY <1>5
    <3>3. QED
      BY <3>1, <3>2
  <2>3. A!Newest(b)[i] = b[n]
    <3>1. Len(b) - Len(A!Newest(b)) + i = n
      BY <1>4, <1>7, <2>1
    <3>2. A!Newest(b)[i] = b[Len(b) - Len(A!Newest(b)) + i]
      BY <1>6, <1>7
    <3>3. QED
      BY <3>1, <3>2
  <2> HIDE DEF k
  <2>4. j \in 1 .. Len(u) + 1 /\ n = Len(t) - Len(u) + j
    BY <1>2, <2>1
  <2> HIDE DEF j, n
  <2>5. CASE j = Len(u) + 1
    <3>1. n = Len(t) + 1
      BY <1>2, <2>4, <2>5
    <3>2. QED
      BY <1>3, <1>4, <2>2, <2>3, <2>5, <3>1
  <2>6. CASE j \in 1 .. Len(u)
    <3>1. n \in 1 .. Len(t)
      BY <1>2, <2>1, <2>4, <2>6
    <3>2. a[j] = u[j] /\ b[n] = t[n] /\ u[j] = t[n]
      BY <1>1, <1>3, <1>4, <2>4, <2>6, <3>1
    <3>3. QED
      BY <2>2, <2>3, <3>2
  <2>7. QED
    BY <1>2, <2>4, <2>5, <2>6
<1>9. A!Newest(a) = A!Newest(b)
  BY <1>5, <1>6, <1>7, <1>8, SeqEqual
<1>10. QED
  BY <1>9 DEF a, b, u

LEMMA NewestOfNone ==
    ASSUME Kept \in Nat
    PROVE  A!Newest(<<>>) = <<>>
<1>1. <<>> \in Seq({}) /\ Len(<<>>) = 0
  BY EmptySeq
<1> DEFINE none == <<>>
<1>2. none \in Seq({}) /\ Len(none) = 0
  BY <1>1
<1> HIDE DEF none
<1>3. A!Newest(none) \in Seq({}) /\ Len(A!Newest(none)) = IF Len(none) > Kept THEN Kept ELSE Len(none)
  BY <1>2, NewestElements
<1>4. A!Newest(none) \in Seq({}) /\ Len(A!Newest(none)) = 0
  BY <1>2, <1>3
<1>5. A!Newest(none) = <<>>
  BY <1>4, EmptySeq
<1>6. QED
  BY <1>5 DEF none

-----------------------------------------------------------------------------
(* The invariant *)

TalkReading == [Record -> A!Versions \cup {None}]
Turn == Client \X A!Keys
TaskStep == {"none", "clear", "upsert"} \cup A!Tables
TaskType == [step : TaskStep, read : TalkReading]
ClientType ==
    [step : {"idle", "context", "history", "talk", "store"},
     kind : {"summary", "query", "stream", None}, key : A!Keys \cup {None},
     conv : Conversation \cup {None}, history : Seq(Turn)]

BookTypes == changes \in 0 .. MaxChanges /\ books \in TalkReading
IndexTypes ==
    /\ jobs \subseteq Record /\ debounced \subseteq Record
    /\ indexed \in TalkReading /\ lastRead \in TalkReading
    /\ overlapped \in BOOLEAN /\ littered \in BOOLEAN
    /\ task \in [Task -> TaskType]
\* A request at work knows what it was asked and which way it goes.
Prepared(c) ==
    client[c].step # "idle" => client[c].key \in A!Keys /\ client[c].kind \in {"summary", "query", "stream"}
CacheTypes == answers \subseteq A!Keys
TalkTypes ==
    /\ client \in [Client -> ClientType] /\ \A c \in Client : Prepared(c)
    /\ talk \in [Conversation -> Seq(Turn)] /\ turns \in [Conversation -> Seq(Turn)]
    /\ \A conv \in Conversation : Len(talk[conv]) <= Kept

\* One task at a time: between its clear and its upsert the index is empty, or
\* littered, and when no task runs it holds what the newest task read.
Agree(index, read) == \A r \in Record : index[r] = read[r] \/ (littered = TRUE /\ read[r] = None)
OneTask ==
    /\ \A t, u \in Task : task[t] # A!NoTask /\ task[u] # A!NoTask => t = u
    /\ \A t \in Task : task[t].step \in A!Tables \cup {"upsert"} => indexed = A!Nothing \/ littered = TRUE
    /\ (\A t \in Task : task[t] = A!NoTask) => Agree(indexed, lastRead)
IndexKept == overlapped = TRUE \/ OneTask

\* One request at a time in a conversation: the history it has read is the
\* stored one until it saves, and the stored one is the newest turns.
HasRead(c) == client[c].step = "talk" \/ (client[c].step = "context" /\ client[c].kind = "query")
OneRequest(conv) ==
    /\ talk[conv] = A!Newest(turns[conv])
    /\ \A c, d \in Client : client[c].conv = conv /\ client[d].conv = conv => c = d
    /\ \A c \in Client : client[c].conv = conv /\ HasRead(c) => client[c].history = talk[conv]
TalkKept == \A conv \in Conversation : conv \in misplaced \/ OneRequest(conv)

AssistantInv == BookTypes /\ IndexTypes /\ CacheTypes /\ TalkTypes /\ IndexKept /\ TalkKept

-----------------------------------------------------------------------------
(* The index *)

LEMMA NothingIsRead == A!Nothing \in TalkReading /\ \A r \in Record : A!Nothing[r] = None
BY DEF A!Nothing, TalkReading

LEMMA NoTaskIsTask ==
    A!NoTask \in TaskType /\ A!NoTask.step = "none" /\ A!NoTask.read = A!Nothing
BY NothingIsRead DEF A!NoTask, TaskType, TaskStep

LEMMA TableSteps ==
    /\ A!Tables = {"invoices", "expenses", "customers", "leads"}
    /\ \A table \in A!Tables : A!Follows[table] \in TaskStep /\ A!Follows[table] # "none"
BY DEF A!Tables, A!Follows, TaskStep

\* Steps that leave the tasks and the index alone.
LEMMA IndexStays ==
    ASSUME IndexTypes, IndexKept, UNCHANGED <<indexed, task, lastRead, overlapped, littered>>,
           jobs' \subseteq Record, debounced' \subseteq Record
    PROVE  IndexTypes' /\ IndexKept'
<1>1. IndexTypes'
  BY DEF IndexTypes
<1>2. IndexKept'
  BY DEF IndexKept, OneTask, Agree, A!Nothing, A!NoTask
<1>3. QED
  BY <1>1, <1>2

LEMMA StartTaskKeeps ==
    ASSUME IndexTypes, IndexKept, NEW t \in Task, A!StartTask(t), UNCHANGED <<indexed, lastRead, littered>>,
           jobs' \subseteq Record, debounced' \subseteq Record
    PROVE  IndexTypes' /\ IndexKept'
<1> DEFINE new == [task[t] EXCEPT !.step = "clear"]
<1>1. task[t] = A!NoTask /\ task \in [Task -> TaskType]
  BY DEF A!StartTask, IndexTypes
<1>2. new \in TaskType /\ new.step = "clear"
  BY <1>1 DEF TaskType, TaskStep
<1>3. task' = [task EXCEPT ![t] = new]
  BY <1>1 DEF A!StartTask
<1> HIDE DEF new
<1>4. task' \in [Task -> TaskType] /\ task'[t] = new /\ \A u \in Task : u # t => task'[u] = task[u]
  BY <1>1, <1>2, <1>3
<1>5. overlapped' = (overlapped \/ \E u \in Task : task[u] # A!NoTask)
  BY DEF A!StartTask
<1>6. IndexTypes'
  <2>1. overlapped' \in BOOLEAN
    BY <1>5
  <2>2. QED
    BY <1>4, <2>1 DEF IndexTypes
<1>7. IndexKept'
  <2>1. CASE overlapped' = TRUE
    BY <2>1 DEF IndexKept
  <2>2. CASE overlapped' = FALSE
    <3>1. \A u \in Task : task[u] = A!NoTask
      BY <1>5, <2>2
    <3>2. task'[t] # A!NoTask
      BY <1>2, <1>4, NoTaskIsTask
    <3>3. \A u \in Task : u # t => task'[u] = A!NoTask
      BY <1>4, <3>1
    <3>4. OneTask'
      BY <1>2, <1>4, <3>2, <3>3, NoTaskIsTask, TableSteps DEF OneTask, A!NoTask, A!Nothing
    <3>5. QED
      BY <3>4 DEF IndexKept
  <2>3. QED
    BY <1>6, <2>1, <2>2 DEF IndexTypes
<1>8. QED
  BY <1>6, <1>7

\* A task that moves is the only one unless tasks overlapped.
LEMMA TaskMoves ==
    ASSUME IndexTypes, IndexKept, NEW t \in Task, NEW new \in TaskType, task[t] # A!NoTask, new # A!NoTask,
           task' = [task EXCEPT ![t] = new], littered' \in BOOLEAN,
           indexed' = A!Nothing \/ littered' = TRUE \/ overlapped = TRUE,
           indexed' \in TalkReading, UNCHANGED <<jobs, debounced, lastRead, overlapped>>
    PROVE  IndexTypes' /\ IndexKept'
<1>1. task' \in [Task -> TaskType] /\ task'[t] = new /\ \A u \in Task : u # t => task'[u] = task[u]
  BY DEF IndexTypes
<1>2. IndexTypes'
  BY <1>1 DEF IndexTypes
<1>3. IndexKept'
  <2>1. CASE overlapped = TRUE
    BY <2>1 DEF IndexKept
  <2>2. CASE OneTask /\ overlapped # TRUE
    <3>1. \A u \in Task : u # t => task'[u] = A!NoTask
      BY <1>1, <2>2 DEF OneTask
    <3>2. OneTask'
      BY <1>1, <2>2, <3>1, NoTaskIsTask DEF OneTask, A!NoTask, A!Nothing
    <3>3. QED
      BY <3>2 DEF IndexKept
  <2>3. QED
    BY <2>1, <2>2 DEF IndexKept
<1>4. QED
  BY <1>2, <1>3

LEMMA ClearKeeps ==
    ASSUME IndexTypes, IndexKept, NEW t \in Task, NEW cleared \in BOOLEAN, A!Clear(t, cleared)
    PROVE  IndexTypes' /\ IndexKept'
<1> DEFINE new == [task[t] EXCEPT !.step = "invoices"]
<1>1. task[t] \in TaskType /\ task[t].step = "clear"
  BY DEF IndexTypes, A!Clear
<1>2. new \in TaskType /\ new.step = "invoices"
  BY <1>1, TableSteps DEF TaskType, TaskStep
<1>3. task' = [task EXCEPT ![t] = new]
  BY DEF A!Clear, IndexTypes
<1> HIDE DEF new
<1>4. task[t] # A!NoTask /\ new # A!NoTask
  BY <1>1, <1>2, NoTaskIsTask
<1>5. indexed' = (IF cleared THEN A!Nothing ELSE indexed) /\ littered' = (littered \/ ~cleared)
      /\ UNCHANGED <<jobs, debounced, lastRead, overlapped>>
  BY DEF A!Clear
<1>6. indexed' \in TalkReading /\ littered' \in BOOLEAN /\ (indexed' = A!Nothing \/ littered' = TRUE)
  BY <1>5, NothingIsRead DEF IndexTypes
<1>7. QED
  BY <1>2, <1>3, <1>4, <1>5, <1>6, TaskMoves

LEMMA ReadTableKeeps ==
    ASSUME BookTypes, IndexTypes, IndexKept, NEW t \in Task, NEW read \in BOOLEAN, A!ReadTable(t, read)
    PROVE  IndexTypes' /\ IndexKept'
<1> DEFINE table == task[t].step
           rows == [r \in Record |-> IF Table[r] = table THEN books[r] ELSE task[t].read[r]]
           known == IF read THEN rows ELSE task[t].read
           new == [step |-> A!Follows[table], read |-> known]
<1>1. task[t] \in TaskType /\ table \in A!Tables /\ books \in TalkReading
  BY DEF A!ReadTable, IndexTypes, BookTypes
<1>2. rows \in TalkReading
  BY <1>1 DEF TalkReading, TaskType
<1>3. known \in TalkReading
  BY <1>1, <1>2 DEF TaskType
<1>4. task' = [task EXCEPT ![t] = new]
      /\ UNCHANGED <<indexed, jobs, debounced, lastRead, overlapped, littered>>
  BY DEF A!ReadTable, IndexTypes
<1> HIDE DEF rows, known
<1>5. new \in TaskType /\ new.step # "none"
  BY <1>1, <1>3, TableSteps DEF TaskType
<1> HIDE DEF new
<1>6. task[t] # A!NoTask /\ new # A!NoTask
  BY <1>1, <1>5, NoTaskIsTask, TableSteps
<1>7. indexed = A!Nothing \/ littered = TRUE \/ overlapped = TRUE
  BY <1>1 DEF IndexKept, OneTask
<1>8. indexed \in TalkReading /\ littered \in BOOLEAN
  BY DEF IndexTypes
<1>9. QED
  BY <1>4, <1>5, <1>6, <1>7, <1>8, TaskMoves

LEMMA UpsertKeeps ==
    ASSUME IndexTypes, IndexKept, NEW t \in Task, A!Upsert(t)
    PROVE  IndexTypes' /\ IndexKept'
<1>1. task[t].step = "upsert" /\ task[t].read \in TalkReading /\ indexed \in TalkReading
  BY DEF A!Upsert, IndexTypes, TaskType
<1>2. /\ indexed' = [r \in Record |-> IF task[t].read[r] = None THEN indexed[r] ELSE task[t].read[r]]
      /\ lastRead' = task[t].read /\ task' = [task EXCEPT ![t] = A!NoTask]
      /\ UNCHANGED <<jobs, debounced, overlapped, littered>>
  BY DEF A!Upsert
<1>3. task' \in [Task -> TaskType] /\ task'[t] = A!NoTask /\ \A u \in Task : u # t => task'[u] = task[u]
  BY <1>2, NoTaskIsTask DEF IndexTypes
<1>4. indexed' \in TalkReading
  BY <1>1, <1>2 DEF TalkReading
<1>5. IndexTypes'
  BY <1>1, <1>2, <1>3, <1>4 DEF IndexTypes
<1>6. IndexKept'
  <2>1. CASE overlapped = TRUE
    BY <1>2, <2>1 DEF IndexKept
  <2>2. CASE OneTask
    <3>1. \A u \in Task : task'[u] = A!NoTask
      <4>1. task[t] # A!NoTask
        BY <1>1, NoTaskIsTask
      <4>2. QED
        BY <1>3, <2>2, <4>1 DEF OneTask
    <3>2. indexed = A!Nothing \/ littered = TRUE
      BY <1>1, <2>2 DEF OneTask
    <3>3. \A r \in Record : indexed'[r] = lastRead'[r] \/ (littered' = TRUE /\ lastRead'[r] = None)
      BY <1>2, <3>2, NothingIsRead
    <3>4. OneTask'
      BY <3>1, <3>3, NoTaskIsTask, TableSteps DEF OneTask, Agree, A!NoTask, A!Nothing
    <3>5. QED
      BY <3>4 DEF IndexKept
  <2>3. QED
    BY <2>1, <2>2 DEF IndexKept
<1>7. QED
  BY <1>5, <1>6

LEMMA IndexingFailsKeeps ==
    ASSUME IndexTypes, IndexKept, NEW t \in Task, A!IndexingFails(t)
    PROVE  IndexTypes' /\ IndexKept'
<1>1. /\ task' = [task EXCEPT ![t] = A!NoTask] /\ overlapped' = TRUE
      /\ UNCHANGED <<indexed, jobs, debounced, lastRead, littered>>
  BY DEF A!IndexingFails
<1>2. task' \in [Task -> TaskType] /\ \A u \in Task : task'[u] = A!NoTask \/ task'[u] = task[u]
  BY <1>1, NoTaskIsTask DEF IndexTypes
<1>3. IndexTypes'
  BY <1>1, <1>2 DEF IndexTypes
<1>4. QED
  BY <1>1, <1>3 DEF IndexKept

-----------------------------------------------------------------------------
(* The conversations *)

LEMMA IdleClient ==
    /\ A!Idle \in ClientType /\ A!Idle.step = "idle" /\ A!Idle.conv = None
    /\ A!Idle.history = <<>>
BY EmptySeq DEF A!Idle, ClientType

\* A request that moves: its slot changes and nobody else's.
Moves(c, new) ==
    /\ client' \in [Client -> ClientType] /\ client'[c] = new
    /\ \A d \in Client : d # c => client'[d] = client[d]

LEMMA MovesTo ==
    ASSUME TalkTypes, NEW c \in Client, NEW new \in ClientType, client' = [client EXCEPT ![c] = new]
    PROVE  Moves(c, new)
BY DEF TalkTypes, Moves

\* A step that goes on in its conversation, or leaves it, with the talk as it is:
\* the history it has read is the stored one, or the conversation is marked.
Reads(new) == new.step = "talk" \/ (new.step = "context" /\ new.kind = "query")
LEMMA StepKeepsTalk ==
    ASSUME A!AssistantAssumption, TalkTypes, TalkKept, NEW c \in Client, NEW new, Moves(c, new),
           UNCHANGED <<talk, turns>>, misplaced \subseteq misplaced',
           new.conv \in {client[c].conv, None},
           Reads(new) =>
              \/ new.conv \in misplaced' \/ new.conv = None
              \/ HasRead(c) /\ new.history = client[c].history
              \/ new.history = talk[new.conv]
    PROVE  TalkKept'
<1>1. ASSUME NEW conv \in Conversation, OneRequest(conv), conv \notin misplaced' PROVE OneRequest(conv)'
  <2>1. /\ talk[conv] = A!Newest(turns[conv])
        /\ \A d, e \in Client : client[d].conv = conv /\ client[e].conv = conv => d = e
        /\ \A d \in Client : client[d].conv = conv /\ HasRead(d) => client[d].history = talk[conv]
    BY <1>1 DEF OneRequest
  <2>2. conv # None
    BY DEF A!AssistantAssumption
  <2>3. \A d \in Client : client'[d].conv = conv => client[d].conv = conv
    BY <2>2 DEF Moves
  <2>4. ASSUME NEW d \in Client, client'[d].conv = conv, HasRead(d)' PROVE client'[d].history = talk[conv]
    <3>1. CASE d = c
      <4>1. client'[c] = new /\ new.conv = conv /\ Reads(new) /\ client[c].conv = conv
        BY <2>3, <2>4, <3>1 DEF Moves, HasRead, Reads
      <4>2. QED
        BY <1>1, <2>1, <2>2, <3>1, <4>1
    <3>2. CASE d # c
      BY <2>1, <2>4, <3>2 DEF Moves, HasRead
    <3>3. QED
      BY <3>1, <3>2
  <2>5. talk'[conv] = talk[conv] /\ turns'[conv] = turns[conv]
    OBVIOUS
  <2>6. A!Newest(turns[conv])' = A!Newest(turns'[conv])
    BY DEF A!Newest
  <2>7. QED
    BY <2>1, <2>3, <2>4, <2>5, <2>6 DEF OneRequest, A!Newest
<1>2. QED
  BY <1>1 DEF TalkKept

LEMMA StepKeepsTypes ==
    ASSUME TalkTypes, NEW c \in Client, NEW new, Moves(c, new), UNCHANGED <<talk, turns>>,
           new.step # "idle" => new.key \in A!Keys /\ new.kind \in {"summary", "query", "stream"}
    PROVE  TalkTypes'
BY DEF TalkTypes, Moves, Prepared

\* A request enters a conversation: it is alone there, or the two are marked.
LEMMA EnterKeepsTalk ==
    ASSUME A!AssistantAssumption, TalkTypes, TalkKept, NEW c \in Client, NEW new, Moves(c, new),
           UNCHANGED <<talk, turns>>, new.conv \in Conversation => ~Reads(new),
           misplaced' = IF new.conv # None /\ A!Using(new.conv) # {} THEN misplaced \cup {new.conv} ELSE misplaced
    PROVE  TalkKept'
<1>1. ASSUME NEW conv \in Conversation PROVE conv \in misplaced' \/ OneRequest(conv)'
  <2>1. conv # None
    BY DEF A!AssistantAssumption
  <2>2. CASE conv \in misplaced
    BY <2>2
  <2>3. CASE OneRequest(conv) /\ conv = new.conv /\ A!Using(conv) = {}
    <3>1. \A d \in Client : client[d].conv # conv
      BY <2>1, <2>3, IdleClient DEF A!Using
    <3>2. \A d \in Client : client'[d].conv = conv => d = c
      BY <3>1 DEF Moves
    <3>3. ~HasRead(c)'
      BY <2>3 DEF Moves, HasRead, Reads
    <3>4. QED
      BY <2>3, <3>2, <3>3 DEF OneRequest, A!Newest
  <2>4. CASE conv = new.conv /\ A!Using(conv) # {}
    BY <2>1, <2>4
  <2>5. CASE OneRequest(conv) /\ conv # new.conv
    <3>1. \A d \in Client : client'[d].conv = conv => client'[d] = client[d]
      BY <2>5 DEF Moves
    <3>2. QED
      BY <2>5, <3>1 DEF OneRequest, HasRead, A!Newest
  <2>6. QED
    BY <2>2, <2>3, <2>4, <2>5 DEF TalkKept
<1>2. QED
  BY <1>1 DEF TalkKept

TalkInv == CacheTypes /\ TalkTypes /\ TalkKept

LEMMA EnterKeeps ==
    ASSUME A!AssistantAssumption, TalkInv, NEW c \in Client, NEW kind \in {"summary", "query", "stream"},
           NEW key \in A!Keys, NEW conv \in Conversation \cup {None}, NEW first \in {"context", "history"},
           first = "context" => kind = "stream" \/ conv = None,
           A!Enter(c, kind, key, conv, first), UNCHANGED <<answers, talk, turns>>
    PROVE  TalkInv'
<1> DEFINE new == [A!Idle EXCEPT !.step = first, !.kind = kind, !.key = key, !.conv = conv]
<1>1. TalkTypes /\ TalkKept /\ CacheTypes
  BY DEF TalkInv
<1>2. CacheTypes'
  BY <1>1 DEF CacheTypes
<1>3. client' = [client EXCEPT ![c] = new]
  BY DEF A!Enter
<1>4. new \in ClientType /\ new.step = first /\ new.kind = kind /\ new.key = key /\ new.conv = conv
  BY IdleClient DEF A!Idle, ClientType
<1> HIDE DEF new
<1>5. Moves(c, new)
  BY <1>1, <1>3, <1>4, MovesTo
<1>6. TalkTypes'
  BY <1>1, <1>4, <1>5, StepKeepsTypes
<1>7. misplaced' = IF new.conv # None /\ A!Using(new.conv) # {} THEN misplaced \cup {new.conv} ELSE misplaced
  BY <1>4 DEF A!Enter
<1>8. new.conv \in Conversation => ~Reads(new)
  BY <1>4 DEF Reads, A!AssistantAssumption
<1>9. TalkKept'
  BY <1>1, <1>5, <1>7, <1>8, EnterKeepsTalk
<1>10. QED
  BY <1>2, <1>6, <1>9 DEF TalkInv

LEMMA AskKeeps ==
    ASSUME A!AssistantAssumption, TalkInv, NEW c \in Client, NEW key \in A!Keys,
           NEW conv \in Conversation \cup {None}, NEW read \in BOOLEAN, A!Ask(c, key, conv, read)
    PROVE  TalkInv'
<1>1. UNCHANGED <<answers, talk, turns>>
  BY DEF A!Ask
<1>2. CASE UNCHANGED <<client, misplaced>>
  BY <1>1, <1>2 DEF TalkInv, CacheTypes, TalkTypes, Prepared, TalkKept, OneRequest, HasRead, A!Newest
<1>3. CASE A!Enter(c, "summary", key, None, "context")
  BY <1>1, <1>3, EnterKeeps
<1>4. CASE A!Enter(c, "query", key, conv, "history")
  BY <1>1, <1>4, EnterKeeps
<1>5. QED
  BY <1>2, <1>3, <1>4 DEF A!Ask

LEMMA StreamKeeps ==
    ASSUME A!AssistantAssumption, TalkInv, NEW c \in Client, NEW question \in Question,
           NEW conv \in Conversation \cup {None}, A!Stream(c, question, conv)
    PROVE  TalkInv'
<1>1. A!Enter(c, "stream", question, conv, "context") /\ UNCHANGED <<answers, talk, turns>>
  BY DEF A!Stream
<1>2. question \in A!Keys
  BY DEF A!Keys
<1>3. QED
  BY <1>1, <1>2, EnterKeeps

LEMMA ReadHistoryKeeps ==
    ASSUME A!AssistantAssumption, TalkInv, NEW c \in Client, NEW read \in BOOLEAN, A!ReadHistory(c, read)
    PROVE  TalkInv'
<1> DEFINE conv == client[c].conv
           step == IF client[c].kind = "stream" THEN "talk" ELSE "context"
           history == IF read /\ conv # None THEN talk[conv] ELSE <<>>
           new == [client[c] EXCEPT !.step = step, !.history = history]
<1>1. TalkTypes /\ TalkKept /\ CacheTypes /\ UNCHANGED <<answers, talk, turns>>
  BY DEF A!ReadHistory, TalkInv
<1>2. CacheTypes'
  BY <1>1 DEF CacheTypes
<1>3. /\ client[c] \in ClientType /\ client[c].step = "history" /\ client[c].key \in A!Keys
      /\ client[c].kind \in {"summary", "query", "stream"} /\ conv \in Conversation \cup {None}
  BY <1>1 DEF A!ReadHistory, TalkTypes, Prepared, ClientType
<1>4. history \in Seq(Turn)
  <2>1. <<>> \in Seq(Turn)
    BY EmptySeq
  <2>2. QED
    BY <1>1, <1>3, <2>1 DEF TalkTypes
<1>5. step \in {"talk", "context"}
  OBVIOUS
<1>6. client' = [client EXCEPT ![c] = new]
  BY <1>1 DEF A!ReadHistory, TalkTypes
<1>7. read /\ conv # None => history = talk[conv]
  OBVIOUS
<1>8. misplaced' = IF read THEN misplaced ELSE misplaced \cup {conv}
  BY DEF A!ReadHistory
<1> HIDE DEF step, history
<1>9. /\ new \in ClientType /\ new.step = step /\ new.key = client[c].key /\ new.conv = conv
      /\ new.kind = client[c].kind /\ new.history = history
  BY <1>3, <1>4, <1>5 DEF ClientType
<1> HIDE DEF new
<1>10. Moves(c, new)
  BY <1>1, <1>6, <1>9, MovesTo
<1>11. TalkTypes'
  BY <1>1, <1>3, <1>9, <1>10, StepKeepsTypes
<1>12. new.conv \in misplaced' \/ new.conv = None \/ new.history = talk[new.conv]
  BY <1>7, <1>8, <1>9
<1>13. misplaced \subseteq misplaced'
  BY <1>8
<1>14. TalkKept'
  BY <1>1, <1>9, <1>10, <1>12, <1>13, StepKeepsTalk
<1>15. QED
  BY <1>2, <1>11, <1>14 DEF TalkInv

LEMMA BuildContextKeeps ==
    ASSUME A!AssistantAssumption, TalkInv, NEW c \in Client, A!BuildContext(c)
    PROVE  TalkInv'
<1>1. TalkTypes /\ TalkKept /\ CacheTypes /\ UNCHANGED <<answers, talk, turns, misplaced>>
  BY DEF A!BuildContext, TalkInv
<1>2. CacheTypes'
  BY <1>1 DEF CacheTypes
<1>3. /\ client[c] \in ClientType /\ client[c].step = "context" /\ client[c].key \in A!Keys
      /\ client[c].kind \in {"summary", "query", "stream"}
  BY <1>1 DEF A!BuildContext, TalkTypes, Prepared
<1>4. PICK step \in {"store", "talk", "history"} :
         /\ client' = [client EXCEPT ![c].step = step]
         /\ step = "talk" => client[c].kind = "query"
  BY <1>3 DEF A!BuildContext
<1> DEFINE new == [client[c] EXCEPT !.step = step]
<1>5. client' = [client EXCEPT ![c] = new]
  BY <1>1, <1>4 DEF TalkTypes
<1>6. /\ new \in ClientType /\ new.step = step /\ new.key = client[c].key /\ new.conv = client[c].conv
      /\ new.kind = client[c].kind /\ new.history = client[c].history
  BY <1>3 DEF ClientType
<1> HIDE DEF new
<1>7. Moves(c, new)
  BY <1>1, <1>5, <1>6, MovesTo
<1>8. TalkTypes'
  BY <1>1, <1>3, <1>6, <1>7, StepKeepsTypes
<1>9. Reads(new) => HasRead(c)
  BY <1>3, <1>4, <1>6 DEF Reads, HasRead
<1>10. TalkKept'
  BY <1>1, <1>6, <1>7, <1>9, StepKeepsTalk
<1>11. QED
  BY <1>2, <1>8, <1>10 DEF TalkInv

\* A request that ends, whatever became of its answer.
LEMMA EndKeeps ==
    ASSUME A!AssistantAssumption, TalkInv, NEW c \in Client, client' = [client EXCEPT ![c] = A!Idle],
           CacheTypes', UNCHANGED <<talk, turns, misplaced>>
    PROVE  TalkInv'
<1>1. TalkTypes /\ TalkKept
  BY DEF TalkInv
<1>2. Moves(c, A!Idle)
  BY <1>1, IdleClient, MovesTo
<1>3. TalkTypes'
  BY <1>1, <1>2, IdleClient, StepKeepsTypes
<1>4. ~Reads(A!Idle)
  BY IdleClient DEF Reads
<1>5. TalkKept'
  BY <1>1, <1>2, <1>4, IdleClient, StepKeepsTalk
<1>6. QED
  BY <1>3, <1>5 DEF TalkInv

LEMMA RequestFailsKeeps ==
    ASSUME A!AssistantAssumption, TalkInv, NEW c \in Client, A!RequestFails(c)
    PROVE  TalkInv'
<1>1. CacheTypes'
  BY DEF A!RequestFails, TalkInv, CacheTypes
<1>2. QED
  BY <1>1, EndKeeps DEF A!RequestFails

LEMMA StoreAnswerKeeps ==
    ASSUME A!AssistantAssumption, TalkInv, NEW c \in Client, NEW stored \in BOOLEAN, A!StoreAnswer(c, stored)
    PROVE  TalkInv'
<1>1. client[c].key \in A!Keys
  BY DEF A!StoreAnswer, TalkInv, TalkTypes, Prepared
<1>2. CacheTypes'
  BY <1>1 DEF A!StoreAnswer, TalkInv, CacheTypes
<1>3. QED
  BY <1>2, EndKeeps DEF A!StoreAnswer

\* An answered request: what it goes on with.
LEMMA AnsweredMoves ==
    ASSUME TalkTypes, NEW c \in Client, client[c].step = "talk", A!Answered(c)
    PROVE  \E new \in ClientType :
              /\ Moves(c, new) /\ new.step \in {"idle", "store"} /\ new.conv \in {client[c].conv, None}
              /\ new.step # "idle" => new.key \in A!Keys /\ new.kind \in {"summary", "query", "stream"}
<1> DEFINE new == IF client[c].kind = "stream" THEN A!Idle ELSE [client[c] EXCEPT !.step = "store"]
<1>1. client[c] \in ClientType /\ client[c].key \in A!Keys /\ client[c].kind \in {"summary", "query", "stream"}
  BY DEF TalkTypes, Prepared
<1>2. client' = [client EXCEPT ![c] = new]
  BY DEF A!Answered, TalkTypes
<1>3. /\ new \in ClientType /\ new.step \in {"idle", "store"} /\ new.conv \in {client[c].conv, None}
      /\ new.step # "idle" => new.key \in A!Keys /\ new.kind \in {"summary", "query", "stream"}
  BY <1>1, IdleClient DEF ClientType
<1> HIDE DEF new
<1>4. Moves(c, new)
  BY <1>2, <1>3, MovesTo
<1>5. QED
  BY <1>3, <1>4

LEMMA NewConversationKeeps ==
    ASSUME A!AssistantAssumption, TalkInv, NEW c \in Client, A!NewConversation(c)
    PROVE  TalkInv'
<1>1. TalkTypes /\ TalkKept /\ CacheTypes /\ UNCHANGED <<answers, talk, turns, misplaced>>
  BY DEF A!NewConversation, TalkInv
<1>2. CacheTypes'
  BY <1>1 DEF CacheTypes
<1>3. PICK new \in ClientType :
         /\ Moves(c, new) /\ new.step \in {"idle", "store"} /\ new.conv \in {client[c].conv, None}
         /\ new.step # "idle" => new.key \in A!Keys /\ new.kind \in {"summary", "query", "stream"}
  BY <1>1, AnsweredMoves DEF A!NewConversation
<1>4. TalkTypes'
  BY <1>1, <1>3, StepKeepsTypes
<1>5. ~Reads(new)
  BY <1>3 DEF Reads
<1>6. TalkKept'
  BY <1>1, <1>3, <1>5, StepKeepsTalk
<1>7. QED
  BY <1>2, <1>4, <1>6 DEF TalkInv

LEMMA SaveTurnKeeps ==
    ASSUME A!AssistantAssumption, TalkInv, NEW c \in Client, NEW saved \in BOOLEAN, A!SaveTurn(c, saved)
    PROVE  TalkInv'
<1> DEFINE conv == client[c].conv
           turn == <<c, client[c].key>>
           all == Append(client[c].history, turn)
<1>1. TalkTypes /\ TalkKept /\ CacheTypes /\ UNCHANGED answers
  BY DEF A!SaveTurn, TalkInv
<1>2. CacheTypes'
  BY <1>1 DEF CacheTypes
<1>3. /\ client[c] \in ClientType /\ client[c].step = "talk" /\ client[c].key \in A!Keys
      /\ conv # None /\ Kept \in Nat
  BY <1>1 DEF A!SaveTurn, TalkTypes, Prepared, A!AssistantAssumption
<1>4. conv \in Conversation /\ client[c].history \in Seq(Turn) /\ turn \in Turn
  BY <1>3 DEF ClientType, Turn
<1>5. all \in Seq(Turn)
  BY <1>4, AppendProperties
<1>6. /\ talk' = IF saved THEN [talk EXCEPT ![conv] = A!Newest(all)] ELSE talk
      /\ turns' = [turns EXCEPT ![conv] = Append(@, turn)]
      /\ misplaced' = IF saved THEN misplaced ELSE misplaced \cup {conv}
  BY DEF A!SaveTurn
<1>7. PICK new \in ClientType :
         /\ Moves(c, new) /\ new.step \in {"idle", "store"} /\ new.conv \in {client[c].conv, None}
         /\ new.step # "idle" => new.key \in A!Keys /\ new.kind \in {"summary", "query", "stream"}
  BY <1>1, AnsweredMoves DEF A!SaveTurn
<1> HIDE DEF all
<1>8. A!Newest(all) \in Seq(Turn) /\ Len(A!Newest(all)) <= Kept
  <2>1. A!Newest(all) \in Seq(Turn) /\ Len(A!Newest(all)) = IF Len(all) > Kept THEN Kept ELSE Len(all)
    BY <1>3, <1>5, NewestElements
  <2>2. Len(all) \in Nat
    BY <1>5, LenProperties
  <2>3. QED
    BY <1>3, <2>1, <2>2
<1>9. turns[conv] \in Seq(Turn) /\ Append(turns[conv], turn) \in Seq(Turn)
  BY <1>1, <1>4, AppendProperties DEF TalkTypes
<1> HIDE DEF turn
<1>10. /\ talk' \in [Conversation -> Seq(Turn)] /\ (saved => talk'[conv] = A!Newest(all))
       /\ talk'[conv] \in {talk[conv], A!Newest(all)}
       /\ \A other \in Conversation : other # conv => talk'[other] = talk[other]
  BY <1>1, <1>4, <1>6, <1>8 DEF TalkTypes
<1>11. /\ turns' \in [Conversation -> Seq(Turn)] /\ turns'[conv] = Append(turns[conv], turn)
       /\ \A other \in Conversation : other # conv => turns'[other] = turns[other]
  BY <1>1, <1>4, <1>6, <1>9 DEF TalkTypes
<1>12. TalkTypes'
  <2>1. \A other \in Conversation : Len(talk'[other]) <= Kept
    BY <1>1, <1>4, <1>8, <1>10 DEF TalkTypes
  <2>2. \A d \in Client : Prepared(d)'
    BY <1>1, <1>7 DEF TalkTypes, Moves, Prepared
  <2>3. QED
    BY <1>7, <1>10, <1>11, <2>1, <2>2 DEF TalkTypes, Moves
<1>13. ASSUME NEW other \in Conversation, OneRequest(other), other \notin misplaced' PROVE OneRequest(other)'
  <2>1. other # None
    BY DEF A!AssistantAssumption
  <2>2. \A d \in Client : client'[d].conv = other => client[d].conv = other
    BY <1>7, <2>1 DEF Moves
  <2>3. CASE other # conv
    <3>1. \A d \in Client : client'[d].conv = other => client'[d] = client[d]
      BY <1>7, <2>1, <2>3 DEF Moves
    <3>2. QED
      BY <1>10, <1>11, <1>13, <2>3, <3>1 DEF OneRequest, HasRead, A!Newest
  <2>4. CASE other = conv
    <3>1. client[c].history = A!Newest(turns[conv]) /\ saved
      BY <1>3, <1>6, <1>13, <2>4 DEF OneRequest, HasRead
    <3>2. A!Newest(all) = A!Newest(Append(turns[conv], turn))
      BY <1>3, <1>4, <1>9, <3>1, NewestOfAppend DEF all, turn
    <3>3. talk'[other] = A!Newest(turns'[other])
      BY <1>10, <1>11, <2>4, <3>1, <3>2
    <3>4. \A d, e \in Client : client'[d].conv = other /\ client'[e].conv = other => d = e
      BY <1>13, <2>2 DEF OneRequest
    <3>5. \A d \in Client : client'[d].conv = other => ~HasRead(d)'
      BY <1>7, <1>13, <2>2, <2>4 DEF OneRequest, HasRead, Moves
    <3>6. QED
      BY <3>3, <3>4, <3>5 DEF OneRequest, A!Newest
  <2>5. QED
    BY <2>3, <2>4
<1>14. TalkKept'
  BY <1>1, <1>6, <1>13 DEF TalkKept
<1>15. QED
  BY <1>2, <1>12, <1>14 DEF TalkInv

LEMMA ForgetKeeps ==
    ASSUME A!AssistantAssumption, TalkInv, NEW conv \in Conversation, NEW deleted \in BOOLEAN,
           A!Forget(conv, deleted)
    PROVE  TalkInv'
<1>1. TalkTypes /\ TalkKept /\ CacheTypes /\ UNCHANGED <<answers, client>> /\ Kept \in Nat
  BY DEF A!Forget, TalkInv, A!AssistantAssumption
<1>2. CacheTypes'
  BY <1>1 DEF CacheTypes
<1>3. <<>> \in Seq(Turn) /\ Len(<<>>) = 0
  BY EmptySeq
<1>4. /\ talk' = IF deleted THEN [talk EXCEPT ![conv] = <<>>] ELSE talk
      /\ turns' = [turns EXCEPT ![conv] = <<>>]
      /\ misplaced' = IF deleted /\ A!Using(conv) = {} THEN misplaced ELSE misplaced \cup {conv}
  BY DEF A!Forget
<1>5. /\ talk' \in [Conversation -> Seq(Turn)] /\ (deleted => talk'[conv] = <<>>)
      /\ talk'[conv] \in {talk[conv], <<>>}
      /\ \A other \in Conversation : other # conv => talk'[other] = talk[other]
  BY <1>1, <1>3, <1>4 DEF TalkTypes
<1>6. /\ turns' \in [Conversation -> Seq(Turn)] /\ turns'[conv] = <<>>
      /\ \A other \in Conversation : other # conv => turns'[other] = turns[other]
  BY <1>1, <1>3, <1>4 DEF TalkTypes
<1>7. TalkTypes'
  <2>1. \A other \in Conversation : Len(talk'[other]) <= Kept
    <3>1. SUFFICES ASSUME NEW other \in Conversation PROVE Len(talk'[other]) <= Kept
      OBVIOUS
    <3>2. CASE talk'[other] = <<>>
      <4>1. Len(talk'[other]) = 0
        BY <1>3, <3>2
      <4>2. QED
        BY <1>1, <4>1
    <3>3. CASE talk'[other] = talk[other]
      BY <1>1, <3>3 DEF TalkTypes
    <3>4. QED
      BY <1>5, <3>2, <3>3
  <2>2. QED
    BY <1>1, <1>5, <1>6, <2>1 DEF TalkTypes, Prepared
<1>8. ASSUME NEW other \in Conversation PROVE other \in misplaced' \/ OneRequest(other)'
  <2>1. CASE other \in misplaced \/ (other = conv /\ ~(deleted /\ A!Using(conv) = {}))
    BY <1>4, <2>1
  <2>2. CASE OneRequest(other) /\ other # conv
    BY <1>1, <1>5, <1>6, <2>2 DEF OneRequest, HasRead, A!Newest
  <2>3. CASE OneRequest(other) /\ other = conv /\ deleted /\ A!Using(conv) = {}
    <3>1. \A d \in Client : client[d].conv # conv
      BY <2>3, IdleClient DEF A!Using, A!AssistantAssumption
    <3>2. talk'[other] = A!Newest(turns'[other])
      BY <1>1, <1>5, <1>6, <2>3, NewestOfNone
    <3>3. QED
      BY <1>1, <2>3, <3>1, <3>2 DEF OneRequest, A!Newest
  <2>4. QED
    BY <1>1, <2>1, <2>2, <2>3 DEF TalkKept
<1>9. QED
  BY <1>2, <1>7, <1>8 DEF TalkInv, TalkKept

-----------------------------------------------------------------------------
(* The theorems *)

LEMMA TalkStays ==
    ASSUME TalkTypes, TalkKept, UNCHANGED <<talk, client, turns, misplaced>>
    PROVE  TalkTypes' /\ TalkKept'
BY DEF TalkTypes, Prepared, TalkKept, OneRequest, HasRead, A!Newest

LEMMA AssistantStarts ==
    ASSUME A!AssistantAssumption, A!Init
    PROVE  AssistantInv
<1>1. /\ books = A!Nothing /\ indexed = A!Nothing
      /\ jobs = {} /\ debounced = {} /\ task = [t \in Task |-> A!NoTask]
      /\ answers = {} /\ talk = [c \in Conversation |-> <<>>]
      /\ client = [c \in Client |-> A!Idle]
      /\ changes = 0 /\ lastRead = A!Nothing /\ overlapped = FALSE /\ littered = FALSE
      /\ turns = [c \in Conversation |-> <<>>] /\ misplaced = {}
  BY DEF A!Init
<1>2. BookTypes /\ CacheTypes
  BY <1>1, NothingIsRead DEF BookTypes, CacheTypes, A!AssistantAssumption
<1>3. IndexTypes /\ IndexKept
  BY <1>1, NothingIsRead, NoTaskIsTask, TableSteps DEF IndexTypes, IndexKept, OneTask, Agree
<1>4. <<>> \in Seq(Turn) /\ Len(<<>>) = 0 /\ A!Newest(<<>>) = <<>>
  BY EmptySeq, NewestOfNone DEF A!AssistantAssumption
<1>5. TalkTypes
  <2>1. \A conv \in Conversation : Len(talk[conv]) = 0
    BY <1>1, <1>4
  <2>2. \A conv \in Conversation : Len(talk[conv]) <= Kept
    BY <2>1 DEF A!AssistantAssumption
  <2>3. QED
    BY <1>1, <1>4, <2>2, IdleClient DEF TalkTypes, Prepared
<1>6. TalkKept
  BY <1>1, <1>4, IdleClient DEF TalkKept, OneRequest, HasRead, A!AssistantAssumption
<1>7. QED
  BY <1>2, <1>3, <1>5, <1>6 DEF AssistantInv

\* The steps of the books and the index leave the conversations alone.
IndexStep ==
    \/ \E r \in Record : \/ \E gone, told \in BOOLEAN : A!Change(r, gone, told)
                         \/ A!AiJobSkipped(r) \/ A!WindowEnds(r)
                         \/ \E t \in Task, dropped \in SUBSET A!Invalidated : A!AiJob(r, t, dropped)
    \/ \E t \in Task : \/ A!Requested(t) \/ A!Upsert(t) \/ A!IndexingFails(t)
                       \/ \E ok \in BOOLEAN : A!Clear(t, ok) \/ A!ReadTable(t, ok)

LEMMA IndexSteps ==
    ASSUME A!AssistantAssumption, AssistantInv, IndexStep
    PROVE  AssistantInv'
<1>1. BookTypes /\ IndexTypes /\ CacheTypes /\ TalkTypes /\ IndexKept /\ TalkKept
  BY DEF AssistantInv
<1>2. ASSUME NEW r \in Record, NEW gone \in BOOLEAN, NEW told \in BOOLEAN, A!Change(r, gone, told)
      PROVE  AssistantInv'
  <2>1. changes < MaxChanges /\ changes' = changes + 1
        /\ books' = [books EXCEPT ![r] = IF gone THEN None ELSE changes + 1]
        /\ jobs' = (IF told THEN jobs \cup {r} ELSE jobs)
        /\ UNCHANGED <<indexed, debounced, task, lastRead, overlapped, littered, answers, talk, client, turns, misplaced>>
    BY <1>2 DEF A!Change, A!Write, A!talkVars
  <2>2. changes + 1 \in A!Versions /\ changes' \in 0 .. MaxChanges
    BY <1>1, <2>1 DEF BookTypes, A!Versions, A!AssistantAssumption
  <2>3. books' \in TalkReading
    BY <1>1, <2>1, <2>2 DEF BookTypes, TalkReading
  <2>4. IndexTypes' /\ IndexKept'
    <3>1. jobs' \subseteq Record /\ debounced' \subseteq Record
      BY <1>1, <2>1 DEF IndexTypes
    <3>2. QED
      BY <1>1, <2>1, <3>1, IndexStays
  <2>5. QED
    BY <1>1, <2>1, <2>2, <2>3, <2>4, TalkStays DEF AssistantInv, BookTypes, CacheTypes
<1>3. ASSUME IndexTypes', IndexKept', UNCHANGED <<books, changes, talk, client, turns, misplaced>>,
             answers' \subseteq answers
      PROVE  AssistantInv'
  BY <1>1, <1>3, TalkStays DEF AssistantInv, BookTypes, CacheTypes
<1>4. ASSUME NEW r \in Record, A!AiJobSkipped(r) \/ A!WindowEnds(r) PROVE AssistantInv'
  <2>1. /\ jobs' \subseteq Record /\ debounced' \subseteq Record
        /\ UNCHANGED <<books, changes, indexed, task, lastRead, overlapped, littered, answers, talk, client, turns, misplaced>>
    BY <1>1, <1>4 DEF A!AiJobSkipped, A!WindowEnds, IndexTypes, A!bookVars, A!talkVars
  <2>2. IndexTypes' /\ IndexKept'
    BY <1>1, <2>1, IndexStays
  <2>3. QED
    BY <1>3, <2>1, <2>2
<1>5. ASSUME NEW r \in Record, NEW t \in Task, NEW dropped \in SUBSET A!Invalidated, A!AiJob(r, t, dropped)
      PROVE  AssistantInv'
  <2>1. /\ jobs' \subseteq Record /\ debounced' \subseteq Record
        /\ UNCHANGED <<books, changes, indexed, lastRead, littered, talk, client, turns, misplaced>>
    BY <1>1, <1>5 DEF A!AiJob, IndexTypes, A!bookVars
  <2>2. CASE A!StartTask(t) /\ answers' \subseteq answers
    BY <1>1, <1>3, <2>1, <2>2, StartTaskKeeps
  <2>3. CASE UNCHANGED <<task, overlapped, answers>>
    BY <1>1, <1>3, <2>1, <2>3, IndexStays
  <2>4. QED
    BY <1>5, <2>2, <2>3 DEF A!AiJob, A!IndexEntity
<1>6. ASSUME NEW t \in Task, A!Requested(t) PROVE AssistantInv'
  <2>1. UNCHANGED <<books, changes, indexed, jobs, debounced, lastRead, littered, talk, client, turns, misplaced>>
    BY <1>6 DEF A!Requested, A!bookVars
  <2>2. jobs' \subseteq Record /\ debounced' \subseteq Record
    BY <1>1, <2>1 DEF IndexTypes
  <2>3. A!StartTask(t) /\ answers' \subseteq answers
    BY <1>6 DEF A!Requested, A!Reindex, A!IndexEntity
  <2>4. QED
    BY <1>1, <1>3, <2>1, <2>2, <2>3, StartTaskKeeps
<1>7. ASSUME NEW t \in Task, NEW ok \in BOOLEAN, A!Clear(t, ok) PROVE AssistantInv'
  BY <1>1, <1>3, <1>7, ClearKeeps DEF A!Clear, A!bookVars, A!talkVars
<1>8. ASSUME NEW t \in Task, NEW ok \in BOOLEAN, A!ReadTable(t, ok) PROVE AssistantInv'
  BY <1>1, <1>3, <1>8, ReadTableKeeps DEF A!ReadTable, A!bookVars, A!talkVars
<1>9. ASSUME NEW t \in Task, A!Upsert(t) PROVE AssistantInv'
  BY <1>1, <1>3, <1>9, UpsertKeeps DEF A!Upsert, A!bookVars, A!talkVars
<1>10. ASSUME NEW t \in Task, A!IndexingFails(t) PROVE AssistantInv'
  BY <1>1, <1>3, <1>10, IndexingFailsKeeps DEF A!IndexingFails, A!bookVars, A!talkVars
<1>11. QED
  BY <1>2, <1>4, <1>5, <1>6, <1>7, <1>8, <1>9, <1>10 DEF IndexStep

\* The steps of the requests and the conversations leave books and index alone.
TalkStep ==
    \/ \E c \in Client, ok \in BOOLEAN :
          \/ A!ReadHistory(c, ok) \/ A!SaveTurn(c, ok) \/ A!StoreAnswer(c, ok)
          \/ \E key \in A!Summaries : A!Ask(c, key, None, ok)
          \/ \E q \in Question, conv \in Conversation \cup {None} : A!Ask(c, q, conv, ok)
    \/ \E c \in Client : \/ A!BuildContext(c) \/ A!NewConversation(c) \/ A!RequestFails(c)
                         \/ \E q \in Question, conv \in Conversation \cup {None} : A!Stream(c, q, conv)
    \/ \E k \in A!Keys : A!Expire(k)
    \/ \E conv \in Conversation, deleted \in BOOLEAN : A!Forget(conv, deleted)

LEMMA TalkSteps ==
    ASSUME A!AssistantAssumption, TalkInv, TalkStep
    PROVE  TalkInv' /\ UNCHANGED <<A!bookVars, A!indexVars>>
<1>1. ASSUME NEW c \in Client, NEW key \in A!Keys, NEW conv \in Conversation \cup {None},
             NEW ok \in BOOLEAN, A!Ask(c, key, conv, ok)
      PROVE  TalkInv' /\ UNCHANGED <<A!bookVars, A!indexVars>>
  BY <1>1, AskKeeps DEF A!Ask
<1>2. ASSUME NEW c \in Client, NEW q \in Question, NEW conv \in Conversation \cup {None}, A!Stream(c, q, conv)
      PROVE  TalkInv' /\ UNCHANGED <<A!bookVars, A!indexVars>>
  BY <1>2, StreamKeeps DEF A!Stream
<1>3. ASSUME NEW c \in Client, A!BuildContext(c) PROVE TalkInv' /\ UNCHANGED <<A!bookVars, A!indexVars>>
  BY <1>3, BuildContextKeeps DEF A!BuildContext
<1>4. ASSUME NEW c \in Client, NEW ok \in BOOLEAN, A!SaveTurn(c, ok)
      PROVE  TalkInv' /\ UNCHANGED <<A!bookVars, A!indexVars>>
  BY <1>4, SaveTurnKeeps DEF A!SaveTurn
<1>5. ASSUME NEW c \in Client, A!NewConversation(c) PROVE TalkInv' /\ UNCHANGED <<A!bookVars, A!indexVars>>
  BY <1>5, NewConversationKeeps DEF A!NewConversation
<1>6. ASSUME NEW c \in Client, NEW ok \in BOOLEAN, A!StoreAnswer(c, ok)
      PROVE  TalkInv' /\ UNCHANGED <<A!bookVars, A!indexVars>>
  BY <1>6, StoreAnswerKeeps DEF A!StoreAnswer
<1>7. ASSUME NEW c \in Client, NEW ok \in BOOLEAN, A!ReadHistory(c, ok)
      PROVE  TalkInv' /\ UNCHANGED <<A!bookVars, A!indexVars>>
  BY <1>7, ReadHistoryKeeps DEF A!ReadHistory
<1>8. ASSUME NEW c \in Client, A!RequestFails(c) PROVE TalkInv' /\ UNCHANGED <<A!bookVars, A!indexVars>>
  BY <1>8, RequestFailsKeeps DEF A!RequestFails
<1>9. ASSUME NEW conv \in Conversation, NEW deleted \in BOOLEAN, A!Forget(conv, deleted)
      PROVE  TalkInv' /\ UNCHANGED <<A!bookVars, A!indexVars>>
  BY <1>9, ForgetKeeps DEF A!Forget
<1>10. ASSUME NEW k \in A!Keys, A!Expire(k) PROVE TalkInv' /\ UNCHANGED <<A!bookVars, A!indexVars>>
  <2>1. CacheTypes' /\ UNCHANGED <<talk, client, turns, misplaced>>
    BY <1>10 DEF A!Expire, TalkInv, CacheTypes
  <2>2. QED
    BY <1>10, <2>1, TalkStays DEF TalkInv, A!Expire
<1>11. QED
  BY <1>1, <1>2, <1>3, <1>4, <1>5, <1>6, <1>7, <1>8, <1>9, <1>10 DEF TalkStep, A!Keys

LEMMA AssistantSteps ==
    ASSUME A!AssistantAssumption, AssistantInv, [A!Next]_(A!vars)
    PROVE  AssistantInv'
<1>1. BookTypes /\ IndexTypes /\ IndexKept /\ TalkInv
  BY DEF AssistantInv, TalkInv
<1>2. ASSUME TalkInv', UNCHANGED <<A!bookVars, A!indexVars>> PROVE AssistantInv'
  <2>1. UNCHANGED <<books, changes, indexed, jobs, debounced, task, lastRead, overlapped, littered>>
    BY <1>2 DEF A!bookVars, A!indexVars
  <2>2. jobs' \subseteq Record /\ debounced' \subseteq Record
    BY <1>1, <2>1 DEF IndexTypes
  <2>3. IndexTypes' /\ IndexKept'
    BY <1>1, <2>1, <2>2, IndexStays
  <2>4. QED
    BY <1>1, <1>2, <2>1, <2>3 DEF AssistantInv, TalkInv, BookTypes
<1>3. CASE UNCHANGED A!vars
  <2>1. TalkInv'
    BY <1>1, <1>3, TalkStays DEF TalkInv, CacheTypes, A!vars, A!talkVars
  <2>2. QED
    BY <1>2, <1>3, <2>1 DEF A!vars
<1>4. CASE IndexStep
  BY <1>4, IndexSteps
<1>5. CASE TalkStep
  BY <1>1, <1>2, <1>5, TalkSteps
<1>6. A!Next => IndexStep \/ TalkStep
  BY DEF A!Next, IndexStep, TalkStep
<1>7. QED
  BY <1>3, <1>4, <1>5, <1>6

-----------------------------------------------------------------------------
(* The theorems *)

\* A step is a step of a part, or leaves the part alone.
LEMMA Parts ==
    ASSUME [Next]_vars
    PROVE  [D!Next]_(D!vars) /\ [W!Next]_(W!vars) /\ [B!Next]_(B!vars) /\ [A!Next]_(A!vars)
<1>1. [D!Next]_docVars /\ [W!Next]_sendVars /\ [B!Next]_botVars /\ [A!Next]_assistantVars
  BY DEF Next, DocumentStep, SendStep, BotStep, AssistantStep, vars
<1>2. UNCHANGED docVars => UNCHANGED D!vars
  BY DEF docVars, D!vars, D!rowVars
<1>3. UNCHANGED sendVars => UNCHANGED W!vars
  BY DEF sendVars, W!vars, W!counts, W!history, W!log
<1>4. UNCHANGED botVars => UNCHANGED B!vars
  BY DEF botVars, B!vars
<1>5. UNCHANGED assistantVars => UNCHANGED A!vars
  BY DEF assistantVars, A!vars, A!bookVars, A!indexVars, A!talkVars
<1>6. QED
  BY <1>1, <1>2, <1>3, <1>4, <1>5

\* The download link kept in Redis leads to the document of the invoice as it
\* stands, unless an edit was written during a draw, and the PDF job announces
\* the invoice once: for every number of requests and workers.
THEOREM LinksStayCurrent == Spec => []LinksAreCurrent
<1>1. Init => DocIInv
  BY DocInitIInv DEF Init
<1>2. DocIInv /\ [Next]_vars => DocIInv'
  BY DocNextIInv, Parts
<1>3. DocIInv => LinksAreCurrent
  BY DocTypesFollow, LinkFollows, ChainFollows DEF LinksAreCurrent
<1>4. QED
  BY <1>1, <1>2, <1>3, PTL DEF Spec

\* The limits of reminders and of the tenant's messages, the message log and
\* the figures drawn from it: for every number of senders, messages and runs.
THEOREM MessagesStayCounted == Spec => []MessagesAreCounted
<1>1. W!WhatsAppAssumption
  BY MessagingAssumption
<1>2. Init => SendIInv
  BY <1>1, SendInitIInv DEF Init
<1>3. SendIInv /\ [Next]_vars => SendIInv'
  BY <1>1, SendNextIInv, Parts
<1>4. SendIInv => MessagesAreCounted
  BY <1>1, SendTypesFollow, LimitsFollow, LogFollows, StatsFollow DEF MessagesAreCounted
<1>5. QED
  BY <1>2, <1>3, <1>4, PTL DEF Spec

\* The bot tells the books and other people's invoices only to a phone that is
\* or was a user's, and answers a tap on its newest question unless messages of
\* the phone overlapped or its session expired: for every number of both.
THEOREM BotStaysDiscreet == Spec => []BotIsDiscreet
<1>1. B!BotAssumption
  BY MessagingAssumption
<1>2. Init => BotInv
  BY <1>1, BotStarts DEF Init
<1>3. BotInv /\ [Next]_vars => BotInv'
  BY <1>1, BotSteps, Parts
<1>4. BotInv => B!TypeOK
  BY DEF BotInv, BotTypes, B!TypeOK, MsgType, B!Copy
<1>5. BotInv => B!BooksForOwnersOnly
  BY DEF BotInv, OwnOnly, Own, B!BooksForOwnersOnly
<1>6. BotInv => B!TapIsAnswered
  BY DEF BotInv, BotTypes, Careful, B!TapIsAnswered
<1>7. BotInv => BotIsDiscreet
  BY <1>4, <1>5, <1>6 DEF BotIsDiscreet
<1>8. QED
  BY <1>2, <1>3, <1>7, PTL DEF Spec

\* The index is what its newest task read of the tables, unless two tasks
\* overlapped or one failed, with nothing but texts of deleted rows besides when
\* clearing failed; a conversation is its newest turns, unless two requests used
\* it at once or Redis failed: for every number of records, tasks, clients, kept
\* turns and failures.
THEOREM AssistantKeepsMemory == Spec => []AssistantRemembers
<1>1. A!AssistantAssumption
  BY MessagingAssumption
<1>2. Init => AssistantInv
  BY <1>1, AssistantStarts DEF Init
<1>3. AssistantInv /\ [Next]_vars => AssistantInv'
  BY <1>1, AssistantSteps, Parts
<1>4. AssistantInv => A!TypeOK
  BY DEF AssistantInv, BookTypes, IndexTypes, CacheTypes, TalkTypes, A!TypeOK, TalkReading
<1>5. AssistantInv => A!IndexIsOneReading
  BY DEF AssistantInv, IndexKept, OneTask, Agree, A!IndexIsOneReading
<1>6. AssistantInv => A!ConversationKeepsTurns
  BY DEF AssistantInv, TalkKept, OneRequest, A!ConversationKeepsTurns
<1>7. AssistantInv => AssistantRemembers
  BY <1>4, <1>5, <1>6 DEF AssistantRemembers
<1>8. QED
  BY <1>2, <1>3, <1>7, PTL DEF Spec
=============================================================================
