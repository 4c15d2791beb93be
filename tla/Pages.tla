------------------------------- MODULE Pages -------------------------------
(***************************************************************************)
(* The invoice pages of the frontend over the query cache of react-query:  *)
(* app/(dashboard)/invoices/new, [id] and [id]/edit with their components. *)
(* One browser tab opens pages, clicks the buttons its data offers, and    *)
(* lives with answers that come back in any order while other users change *)
(* the same invoices.  A version stands for the contents of an invoice; of *)
(* the lists and the dashboard, which keep caches of their own, only the   *)
(* navigation is kept.                                                     *)
(***************************************************************************)
EXTENDS Naturals

CONSTANTS
  Invoice,      \* invoice ids
  Click,        \* requests of the tab that may be under way together
  None,         \* no data, no form, no request, no fetch under way
  Asked,        \* a fetch under way whose row is not read yet
  Amount,       \* what an invoice is for
  MaxVersion    \* bound: changes to one invoice

VARIABLES
  server,       \* the invoice row: [version, status, paid]
  query,        \* cache entry ['invoice', id]: [data, valid, failed, call]
  page,         \* the mounted page: [on, of, dialog]
  form,         \* the data the edit form was filled from, None while not mounted
  request,      \* by Click: [kind, of, seen, amount, at, answer] or None; at tells if the
                \* form or button it came from is there still, or its page at least
  opened,       \* history: the version stored when the edit page was opened
  wrote,        \* history: newest own write whose answer the tab has seen
  missed,       \* history: entries invalidated while an older fetch went on
  puzzled       \* history: refusals of what the newest data offered, deletions aside

vars == <<server, query, page, form, request, opened, wrote, missed, puzzled>>

Status == {"ABSENT", "DRAFT", "SENT", "PARTIAL", "PAID", "CANCELLED"}
Row == [version: 0..MaxVersion, status: Status, paid: 0..Amount]
Refused == MaxVersion + 1   \* the answer to a request that is not granted
Entry == [data: Row \union {None}, valid: BOOLEAN, failed: BOOLEAN, call: Row \union {None, Asked}]
Mutation == [kind: {"create", "edit", "send", "pay", "delete"}, of: Invoice, amount: 0..Amount,
             at: {"form", "page", "away"}, seen: 0..MaxVersion, answer: 0..Refused]

PagesAssumption ==
  /\ Amount \in Nat /\ MaxVersion \in Nat
  /\ None \notin Row \union Invoice
  /\ Asked \notin Row \union {None}

Home == [on |-> "home", of |-> None, dialog |-> FALSE]
Empty == [data |-> None, valid |-> FALSE, failed |-> FALSE, call |-> None]

Init ==
  /\ server \in [Invoice -> {[version |-> 0, status |-> s, paid |-> 0] : s \in {"ABSENT", "DRAFT"}}]
  /\ query = [i \in Invoice |-> Empty]
  /\ page = Home
  /\ form = None
  /\ request = [c \in Click |-> None]
  /\ opened = 0
  /\ wrote = [i \in Invoice |-> 0]
  /\ missed = {}
  /\ puzzled = {}

------------------------------------------------------------------------------
(* The query cache.  An entry's call is None, Asked, or the row the API has read for it. *)

Active(i) == page.of = i

\* What the page of i can show and offer: its data, unless the last fetch failed.
Shown(i) == IF Active(i) /\ ~query[i].failed THEN query[i].data ELSE None

\* A fetch under way is joined, unless it refreshes data and the caller cancels it.
Fetching(q, cancel) ==
  IF q.call = None \/ (cancel /\ q.data # None) THEN [q EXCEPT !.call = Asked] ELSE q

\* invalidateQueries: the entry is stale, and an active one is fetched again.
Invalidated(i) ==
  LET q == [query[i] EXCEPT !.valid = FALSE]
  IN  IF Active(i) THEN Fetching(q, TRUE) ELSE q

\* mutant: the entry of the invoice is not among the keys invalidated
SkipInvalidate(i) == UNCHANGED <<query, missed>>

Update(i, q) ==
  /\ query' = [query EXCEPT ![i] = q]
  /\ missed' = IF query[i].call \notin {None, Asked} /\ q.call = query[i].call
               THEN missed \union {i} ELSE missed

Invalidate(i) == Update(i, Invalidated(i))

\* getInvoice reads the row.
ApiReads(i) ==
  /\ query[i].call = Asked
  /\ query' = [query EXCEPT ![i].call = server[i]]
  /\ UNCHANGED <<server, page, form, request, opened, wrote, missed, puzzled>>

\* The edit page mounts the form over the first DRAFT it has, and the form keeps its values.
FormOver(row) == IF row = None \/ row.status # "DRAFT" THEN None
                 ELSE IF form = None THEN row ELSE form

\* The answer replaces the data; an edit page whose invoice is no draft goes to the detail page.
Loaded(i) ==
  /\ query[i].call \notin {None, Asked}
  /\ LET row == query[i].call
         editing == page.on = "edit" /\ page.of = i
     IN  /\ query' = [query EXCEPT ![i] = [data |-> row, valid |-> TRUE, failed |-> FALSE, call |-> None]]
         /\ form' = IF editing THEN FormOver(row) ELSE form
         /\ page' = IF editing /\ row.status # "DRAFT" THEN [page EXCEPT !.on = "detail"] ELSE page
         /\ request' = [c \in Click |-> IF request[c] # None /\ page' # page
                                        THEN [request[c] EXCEPT !.at = "away"] ELSE request[c]]
  /\ opened' = IF page' = page THEN opened ELSE 0
  /\ missed' = missed \ IF query[i].call.version >= wrote[i] THEN {i} ELSE {}
  /\ UNCHANGED <<server, wrote, puzzled>>

\* What a click came from is gone, and may come again without knowing of it.
Unmounted(kinds) ==
  request' = [c \in Click |->
    IF request[c] # None /\ request[c].kind \in kinds /\ request[c].at = "form"
    THEN [request[c] EXCEPT !.at = "page"] ELSE request[c]]

\* The fetch fails twice (retry: 1): the data stays, behind an error screen in
\* place of forms and buttons; that the dialog is open is known to the page.
LoadFails(i) ==
  /\ query[i].call # None
  /\ query' = [query EXCEPT ![i].call = None, ![i].failed = TRUE]
  /\ form' = IF Active(i) THEN None ELSE form
  /\ Unmounted(IF Active(i) THEN {"edit", "send", "pay", "delete"} ELSE {})
  /\ UNCHANGED <<server, page, opened, wrote, missed, puzzled>>

\* Five minutes: fresh data turns stale, data no page shows is collected.
GrowsOld(i) ==
  /\ query[i].valid
  /\ query' = [query EXCEPT ![i].valid = FALSE]
  /\ UNCHANGED <<server, page, form, request, opened, wrote, missed, puzzled>>

Collected(i) ==
  /\ ~Active(i) /\ query[i].call = None
  /\ query' = [query EXCEPT ![i] = Empty]
  /\ missed' = missed \ {i}
  /\ UNCHANGED <<server, page, form, request, opened, wrote, puzzled>>

------------------------------------------------------------------------------
(* Navigation *)

Leave == request' = [c \in Click |-> IF request[c] = None THEN None ELSE [request[c] EXCEPT !.at = "away"]]

Mount(on, i) ==
  /\ page' = [on |-> on, of |-> i, dialog |-> FALSE]
  /\ Leave

GoHome ==
  /\ page # Home
  /\ page' = Home
  /\ form' = None
  /\ opened' = 0
  /\ Leave
  /\ UNCHANGED <<server, query, wrote, missed, puzzled>>

\* useQuery fetches on mount when it has no data or stale data.
OpenDetail(i) ==
  /\ server[i].status # "ABSENT"
  /\ page.on = "home"
  /\ Mount("detail", i)
  /\ query' = [query EXCEPT ![i] = IF @.data = None \/ ~@.valid THEN Fetching(@, FALSE) ELSE @]
  /\ UNCHANGED <<server, form, opened, wrote, missed, puzzled>>

\* staleTime: 0 always fetches on mount, but the data cached before is shown meanwhile.
OpenEdit(i) ==
  /\ page.on = "detail" /\ page.of = i
  /\ Shown(i) # None /\ Shown(i).status = "DRAFT"
  /\ Mount("edit", i)
  /\ query' = [query EXCEPT ![i] = Fetching(@, FALSE)]
  /\ form' = FormOver(Shown(i))
  /\ opened' = server[i].version
  /\ UNCHANGED <<server, wrote, missed, puzzled>>

Refetch ==
  /\ page # Home
  /\ query' = [query EXCEPT ![page.of] = Fetching(@, TRUE)]
  /\ UNCHANGED <<server, page, form, request, opened, wrote, missed, puzzled>>

\* An event of the socket about the invoice the detail page shows, late or repeated.
LiveEvent ==
  /\ page.on = "detail"
  /\ Invalidate(page.of)
  /\ UNCHANGED <<server, page, form, request, opened, wrote, puzzled>>

------------------------------------------------------------------------------
(* What the pages ask of the API *)

Pending(kind) == \E c \in Click : request[c] # None /\ request[c].kind = kind /\ request[c].at = "form"

\* A button is disabled while a mutation of its own is under way.
Ask(c, kind, i, n) ==
  /\ request[c] = None /\ ~Pending(kind)
  /\ request' = [request EXCEPT ![c] =
       [kind |-> kind, of |-> i, amount |-> n, at |-> "form", answer |-> 0,
        seen |-> IF Shown(i) = None THEN 0 ELSE Shown(i).version]]
  /\ UNCHANGED <<server, query, page, form, opened, wrote, missed, puzzled>>

\* The new page of the invoice that will get this id.
Create(c, i) == server[i].status = "ABSENT" /\ page = Home /\ Ask(c, "create", i, 0)

Submit(c, i) == page.on = "edit" /\ page.of = i /\ form # None /\ Ask(c, "edit", i, 0)

\* The buttons of InvoiceActions, by the status the page shows.
Offers(row, kind) ==
  CASE kind = "send"   -> row.status = "DRAFT"
    [] kind = "pay"    -> row.status \in {"SENT", "PARTIAL"}
    [] kind = "delete" -> row.status \notin {"PAID", "CANCELLED"}

Press(c, i, kind) ==
  /\ page.on = "detail" /\ Shown(i) # None
  /\ Offers(Shown(i), kind)
  /\ Ask(c, kind, i, 0)

OpenDialog(i) ==
  /\ page.on = "detail" /\ ~page.dialog /\ Shown(i) # None
  /\ Offers(Shown(i), "pay")
  /\ page' = [page EXCEPT !.dialog = TRUE]
  /\ UNCHANGED <<server, query, form, request, opened, wrote, missed, puzzled>>

CloseDialog ==
  /\ page.dialog /\ Shown(page.of) # None
  /\ page' = [page EXCEPT !.dialog = FALSE]
  /\ Unmounted({"pay"})
  /\ UNCHANGED <<server, query, form, opened, wrote, missed, puzzled>>

\* The dialog follows the data of the page: at most the balance it shows now.
RecordPayment(c, i) ==
  /\ page.dialog /\ Shown(i) # None
  /\ \E n \in 1..(Amount - Shown(i).paid) : Ask(c, "pay", i, n)

------------------------------------------------------------------------------
(* What the API does: its guards, and the row it writes *)

Allowed(r, row) ==
  CASE r.kind = "create" -> row.status = "ABSENT"
    [] r.kind = "pay"    -> row.status # "PAID" /\ row.paid + r.amount <= Amount
    [] OTHER             -> row.status = "DRAFT"

Written(r, row) ==
  LET paid == row.paid + r.amount
  IN  [version |-> row.version + 1, paid |-> paid,
       status |-> CASE r.kind = "send"   -> "SENT"
                    [] r.kind = "delete" -> "CANCELLED"
                    [] r.kind = "pay"    -> IF paid = Amount THEN "PAID" ELSE "PARTIAL"
                    [] OTHER             -> "DRAFT"]

\* The row is written; what the tab will be told is the version it wrote.  A deletion is
\* offered for any open invoice and granted to drafts only, so its refusal puzzles nobody.
ApiWrites(c) ==
  /\ request[c] # None /\ request[c].answer = 0
  /\ LET r == request[c]
         i == r.of
     IN  IF Allowed(r, server[i])
         THEN /\ server[i].version < MaxVersion
              /\ server' = [server EXCEPT ![i] = Written(r, @)]
              /\ request' = [request EXCEPT ![c].answer = server[i].version + 1, ![c].seen = 0, ![c].amount = 0]
              /\ UNCHANGED puzzled
         ELSE /\ request' = [request EXCEPT ![c].answer = Refused, ![c].seen = 0, ![c].amount = 0]
              /\ puzzled' = IF r.seen = server[i].version /\ r.kind # "delete"
                           THEN puzzled \union {r.kind} ELSE puzzled
              /\ UNCHANGED server
  /\ UNCHANGED <<query, page, form, opened, wrote, missed>>

\* Another user of the business edits, sends or takes a payment.
OthersWrite(i) ==
  /\ server[i].status # "ABSENT" /\ server[i].version < MaxVersion
  /\ \E kind \in {"edit", "send", "pay"}, n \in 0..Amount :
       LET r == [kind |-> kind, amount |-> n]
       IN  /\ (kind = "pay") <=> (n > 0)
           /\ kind = "pay" => server[i].status # "CANCELLED"
           /\ Allowed(r, server[i])
           /\ server' = [server EXCEPT ![i] = Written(r, @)]
  /\ UNCHANGED <<query, page, form, request, opened, wrote, missed, puzzled>>

------------------------------------------------------------------------------
(* onSuccess and onError, which run even when the user has left the page *)

Answered(c, kind) == request[c] # None /\ request[c].kind = kind /\ request[c].answer \in 1..MaxVersion

Forgotten(c) == [request EXCEPT ![c] = None]

\* Both push the detail page, wherever the user is by now.
Saved(c, kind) ==
  /\ Answered(c, kind)
  /\ LET i == request[c].of
         q == IF kind = "edit" THEN Invalidated(i) ELSE query[i]
     IN  /\ page' = [on |-> "detail", of |-> i, dialog |-> page.dialog /\ page.of = i]
         /\ query' = [query EXCEPT ![i] = IF q.data = None \/ ~q.valid THEN Fetching(q, FALSE) ELSE q]
         /\ missed' = IF kind = "edit" /\ query[i].call \notin {None, Asked} /\ query'[i].call = query[i].call
                      THEN missed \union {i} ELSE missed
         /\ wrote' = [wrote EXCEPT ![i] = IF @ < request[c].answer THEN request[c].answer ELSE @]
         /\ request' = [d \in Click |-> IF d = c \/ request[d] = None THEN None
                          ELSE IF page'.on = page.on /\ page'.of = page.of THEN request[d]
                          ELSE [request[d] EXCEPT !.at = "away"]]
  /\ form' = None
  /\ opened' = 0
  /\ UNCHANGED <<server, puzzled>>

Sent(c) ==
  /\ Answered(c, "send")
  /\ LET i == request[c].of
     IN  /\ Invalidate(i)
         /\ wrote' = [wrote EXCEPT ![i] = IF @ < request[c].answer THEN request[c].answer ELSE @]
  /\ request' = Forgotten(c)
  /\ UNCHANGED <<server, page, form, opened, puzzled>>

\* The dialog of the page closes, opened anew or not, and the page fetches once
\* more, even when it was left.
Paid(c) ==
  /\ Answered(c, "pay")
  /\ LET i == request[c].of
     IN  /\ Update(i, Fetching(Invalidated(i), TRUE))
         /\ wrote' = [wrote EXCEPT ![i] = IF @ < request[c].answer THEN request[c].answer ELSE @]
  /\ page' = IF request[c].at # "away" THEN [page EXCEPT !.dialog = FALSE] ELSE page
  /\ request' = [d \in Click |->
       IF d = c \/ request[d] = None THEN None
       ELSE IF request[c].at # "away" /\ request[d].kind = "pay" /\ request[d].at = "form"
       THEN [request[d] EXCEPT !.at = "page"] ELSE request[d]]
  /\ UNCHANGED <<server, form, opened, puzzled>>

\* Deleting invalidates the lists, not the entry of the invoice.
Deleted(c) ==
  /\ Answered(c, "delete")
  /\ page' = Home
  /\ form' = None
  /\ request' = [d \in Click |-> IF d = c \/ request[d] = None THEN None
                                 ELSE [request[d] EXCEPT !.at = "away"]]
  /\ opened' = 0
  /\ UNCHANGED <<server, query, wrote, missed, puzzled>>

\* The API refused, or the answer was lost: a message, and nothing else.
MutationFails(c) ==
  /\ request[c] # None
  /\ request' = Forgotten(c)
  /\ UNCHANGED <<server, query, page, form, opened, wrote, missed, puzzled>>

------------------------------------------------------------------------------
Next ==
  \/ \E i \in Invoice : \/ ApiReads(i) \/ Loaded(i) \/ LoadFails(i) \/ GrowsOld(i) \/ Collected(i)
                        \/ OpenDetail(i) \/ OpenEdit(i) \/ OpenDialog(i) \/ OthersWrite(i)
  \/ GoHome \/ Refetch \/ LiveEvent \/ CloseDialog
  \/ \E c \in Click : \/ \E i \in Invoice :
                           \/ Create(c, i) \/ Submit(c, i) \/ RecordPayment(c, i)
                           \/ \E kind \in {"send", "delete"} : Press(c, i, kind)
                      \/ ApiWrites(c) \/ Sent(c) \/ Paid(c) \/ Deleted(c) \/ MutationFails(c)
                      \/ \E kind \in {"create", "edit"} : Saved(c, kind)

Spec == Init /\ [][Next]_vars

------------------------------------------------------------------------------
\* The state has its types: a cached row is one the API could have answered.
TypeOK ==
  /\ server \in [Invoice -> Row]
  /\ query \in [Invoice -> Entry]
  /\ page \in [on: {"home", "detail", "edit"}, of: Invoice \union {None}, dialog: BOOLEAN]
  /\ form \in Row \union {None}
  /\ request \in [Click -> Mutation \union {None}]
  /\ opened \in 0..MaxVersion
  /\ wrote \in [Invoice -> 0..MaxVersion]
  /\ missed \subseteq Invoice

\* Once the tab was told that its edit, its sending or its payment is stored, a detail page that
\* is not loading never shows the invoice as it was before: the mutations invalidate the entry,
\* which cancels an older fetch.  The exception is an older fetch that no page waits for any
\* longer, or that is the first for its entry: react-query lets it finish and calls it fresh.
OwnWriteShows ==
  \A i \in Invoice :
    Shown(i) # None /\ query[i].call = None /\ i \notin missed
      => Shown(i).version >= wrote[i]

\* What the pages offer for the newest data the API grants: an edit, a sending or a payment is
\* refused only because the invoice has changed since the page's data was read.
RefusedOnlyWhenStale == puzzled = {}

\* "Enforce fresh fetch when editing" ([id]/edit/page.tsx:23): the form an edit starts from
\* holds the invoice as stored when the page was opened, or newer.
EditStartsFresh == form # None => form.version >= opened
==============================================================================
