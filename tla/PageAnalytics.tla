---------------------------- MODULE PageAnalytics ----------------------------
(***************************************************************************)
(* The analytics of a business's pages in PostgreSQL, statement by         *)
(* statement: the transaction that ingests an event, alone or as a part of *)
(* an accepted form submission (unified-analytics.service.ts: ingest;      *)
(* forms.service.ts: submit), and those that delete a form's data or clear *)
(* a page's analytics (forms.service.ts: deleteSubmissions;                *)
(* unified-analytics.service.ts: clear).                                   *)
(*                                                                         *)
(* What PostgreSQL does under READ COMMITTED is taken as given: a statement *)
(* sees what was committed when it began, and its own transaction's        *)
(* changes; it waits for a row another transaction has written and then    *)
(* goes on with the row as it is; a foreign key deletes whatever refers to *)
(* the deleted row at that moment; of transactions that wait for one       *)
(* another one is aborted.                                                 *)
(***************************************************************************)
EXTENDS Integers, FiniteSets

CONSTANTS
  Events,       \* event ids; a submission's request id is its event id
  Submissions,  \* the events that are submissions of a form
  Pages,
  Forms,        \* the pages that are forms
  Visitors,     \* each with one session
  PageOf,       \* the page of an event
  VisitorOf,    \* the visitor of an event
  Requests,     \* requests of visitors being served
  Owners,       \* requests of the business being served
  Clearable,    \* sets of pages the business clears without a form's lock
  None,
  MaxClears     \* bound on deletions and clearings

Txns == Requests \cup Owners

FormKey(f) == <<"form", f>>
VisitorKey(v) == <<"visitor", v>>
SessionKey(v) == <<"session", v>>
EventKey(e) == <<"event", e>>
TotalKey(g) == <<"total", g>>

Keys == {FormKey(f) : f \in Forms} \cup {VisitorKey(v) : v \in Visitors}
        \cup {SessionKey(v) : v \in Visitors} \cup {EventKey(e) : e \in Events}
        \cup {TotalKey(g) : g \in Pages}

ASSUME AnalyticsAssumption ==
  /\ IsFiniteSet(Events) /\ IsFiniteSet(Requests) /\ IsFiniteSet(Owners)
  /\ Requests \cap Owners = {} /\ None \notin Txns
  /\ Forms \subseteq Pages
  /\ PageOf \in [Events -> Pages] /\ VisitorOf \in [Events -> Visitors]
  /\ Submissions \subseteq {e \in Events : PageOf[e] \in Forms}
  /\ Clearable \subseteq SUBSET Pages
  /\ MaxClears \in Nat

VARIABLES
  \* committed rows
  events,     \* analytics_events
  total,      \* analytics_page_daily of each page; 0: no row
  known,      \* analytics_visitors
  sessions,   \* analytics_sessions
  responses,  \* form_submissions
  count,      \* submission_count of each form
  \* transactions
  lock,       \* which transaction has written or locked each row
  pc,         \* the statement each transaction is at
  on,         \* the event a visitor's request brings
  fresh,      \* requests whose INSERT INTO analytics_events made a row
  pages,      \* the pages an owner's request clears
  gone,       \* the events it has deleted
  erased,     \* the responses it has deleted
  dropped,    \* the other rows it has deleted
  targets,    \* rows its statement has found and not deleted yet
  \* history
  clears,     \* deletions and clearings so far
  cleared     \* pages whose events were deleted without their form's lock

tables == <<events, total, known, sessions, responses, count>>
visits == <<on, fresh>>
deletions == <<pages, gone, erased, dropped, targets>>
vars == <<tables, lock, pc, visits, deletions, clears, cleared>>

Stages == {"totals", "sessions", "visitors"}

TypeOK ==
  /\ events \subseteq Events /\ \A e \in events : VisitorOf[e] \in sessions
  /\ total \in [Pages -> Nat]
  /\ known \subseteq Visitors /\ sessions \subseteq known
  /\ responses \subseteq Submissions
  /\ count \in [Forms -> Nat]
  /\ lock \in [Keys -> Txns \cup {None}]
  /\ pc \in [Txns -> {"idle", "form", "visitor", "session", "event", "total",
                      "events", "commit"} \cup Stages]
  /\ on \in [Requests -> Events \cup {None}]
  /\ fresh \subseteq Requests
  /\ pages \in [Owners -> SUBSET Pages]
  /\ gone \in [Owners -> SUBSET Events]
  /\ erased \in [Owners -> SUBSET Submissions]
  /\ dropped \in [Owners -> SUBSET Keys]
  /\ targets \in [Owners -> SUBSET Keys]
  /\ clears \in 0 .. MaxClears
  /\ cleared \subseteq Pages

Init ==
  /\ events = {} /\ total = [g \in Pages |-> 0]
  /\ known = {} /\ sessions = {}
  /\ responses = {} /\ count = [f \in Forms |-> 0]
  /\ lock = [k \in Keys |-> None]
  /\ pc = [t \in Txns |-> "idle"]
  /\ on = [q \in Requests |-> None] /\ fresh = {}
  /\ pages = [o \in Owners |-> {}]
  /\ gone = [o \in Owners |-> {}] /\ erased = [o \in Owners |-> {}]
  /\ dropped = [o \in Owners |-> {}] /\ targets = [o \in Owners |-> {}]
  /\ clears = 0 /\ cleared = {}

-----------------------------------------------------------------------------
(* Transactions *)

Free(t, k) == lock[k] \in {None, t}

\* The transaction writes or locks the row, once nobody else has it.
Take(t, k) == Free(t, k) /\ lock' = [lock EXCEPT ![k] = t]

At(t, here, there) == pc[t] = here /\ pc' = [pc EXCEPT ![t] = there]

\* COMMIT or ROLLBACK: the locks go, and the client takes up something else.
Finish(t) ==
  /\ pc' = [pc EXCEPT ![t] = "idle"]
  /\ lock' = [k \in Keys |-> IF lock[k] = t THEN None ELSE lock[k]]

FinishRequest(q) ==
  /\ Finish(q)
  /\ on' = [on EXCEPT ![q] = None] /\ fresh' = fresh \ {q}
  /\ UNCHANGED deletions

FinishOwner(o) ==
  /\ Finish(o)
  /\ pages' = [pages EXCEPT ![o] = {}]
  /\ gone' = [gone EXCEPT ![o] = {}] /\ erased' = [erased EXCEPT ![o] = {}]
  /\ dropped' = [dropped EXCEPT ![o] = {}]
  /\ targets' = [targets EXCEPT ![o] = {}]
  /\ UNCHANGED visits

-----------------------------------------------------------------------------
(* An event: ingest and submit *)

LocksFormToSubmit(e) == e \in Submissions

\* Does the transaction lock the form first?  Ingest does for every event of a
\* form's page, and a submission anyway.
LocksForm(e) == PageOf[e] \in Forms

Arrive(q, e) ==
  /\ At(q, "idle", IF LocksForm(e) THEN "form" ELSE "visitor")
  /\ on' = [on EXCEPT ![q] = e]
  /\ UNCHANGED <<tables, lock, fresh, deletions, clears, cleared>>

\* A submission that was already accepted gets the receipt of the first time.
Receipt(q) == on[q] \in responses

LockForm(q) ==
  LET k == FormKey(PageOf[on[q]]) IN
  /\ pc[q] = "form" /\ Free(q, k)
  /\ IF Receipt(q) THEN FinishRequest(q)
     ELSE At(q, "form", "visitor") /\ Take(q, k) /\ UNCHANGED <<visits, deletions>>
  /\ UNCHANGED <<tables, clears, cleared>>

UpsertVisitor(q) ==
  /\ At(q, "visitor", "session")
  /\ Take(q, VisitorKey(VisitorOf[on[q]]))
  /\ UNCHANGED <<tables, visits, deletions, clears, cleared>>

UpsertSession(q) ==
  /\ At(q, "session", "event")
  /\ Take(q, SessionKey(VisitorOf[on[q]]))
  /\ UNCHANGED <<tables, visits, deletions, clears, cleared>>

\* Who is inserting or deleting the event, and has not committed?
Writers(e) == {lock[EventKey(e)]} \cup {o \in Owners : e \in gone[o]}

\* ON CONFLICT (event_id) DO NOTHING: an event that is there is not counted.
InsertEvent(q) ==
  LET e == on[q] IN
  /\ pc[q] = "event" /\ Writers(e) = {None}
  /\ IF e \in events
       THEN At(q, "event", "commit") /\ UNCHANGED <<lock, fresh>>
       ELSE /\ At(q, "event", "total") /\ Take(q, EventKey(e))
            /\ fresh' = fresh \cup {q}
  /\ UNCHANGED <<tables, on, deletions, clears, cleared>>

\* The totals of the page; those of the action and the outbox rows follow in
\* the same transaction and meet nobody else.
AddToTotals(q) ==
  /\ At(q, "total", "commit")
  /\ Take(q, TotalKey(PageOf[on[q]]))
  /\ UNCHANGED <<tables, visits, deletions, clears, cleared>>

CommitEvent(q) ==
  LET e == on[q]
      g == PageOf[e]
      v == VisitorOf[e]
  IN  /\ pc[q] = "commit" /\ FinishRequest(q)
      /\ IF q \in fresh
           THEN events' = events \cup {e} /\ total' = [total EXCEPT ![g] = @ + 1]
           ELSE UNCHANGED <<events, total>>
      /\ known' = known \cup {v} /\ sessions' = sessions \cup {v}
      /\ IF e \in Submissions
           THEN /\ responses' = responses \cup {e}
                /\ count' = [count EXCEPT ![g] = @ + 1]
           ELSE UNCHANGED <<responses, count>>
      /\ UNCHANGED <<clears, cleared>>

-----------------------------------------------------------------------------
(* Deleting a form's data, and clearing *)

\* deleteSubmissions locks the form; the analytics endpoints lock nothing.
\* Either may delete events of other pages with a visitor's session (Cascade).
DeleteFormData(o, f) ==
  /\ clears < MaxClears /\ clears' = clears + 1
  /\ At(o, "idle", "form")
  /\ pages' = [pages EXCEPT ![o] = {f}]
  /\ cleared' = cleared \cup (Pages \ {f})
  /\ UNCHANGED <<tables, lock, visits, gone, erased, dropped, targets>>

ClearPages(o, some) ==
  /\ clears < MaxClears /\ clears' = clears + 1
  /\ At(o, "idle", "events")
  /\ pages' = [pages EXCEPT ![o] = some]
  /\ cleared' = Pages
  /\ UNCHANGED <<tables, lock, visits, gone, erased, dropped, targets>>

OfPages(o, some) == {e \in some : PageOf[e] \in pages[o]}

Erases(o) == OfPages(o, responses)

SkipsLock(o) ==
  /\ At(o, "form", "events")
  /\ erased' = [erased EXCEPT ![o] = Erases(o)]
  /\ UNCHANGED <<tables, lock, visits, pages, gone, dropped, targets, clears, cleared>>

LockOwnForm(o) ==
  /\ At(o, "form", "events")
  /\ \E f \in pages[o] : Take(o, FormKey(f))
  /\ erased' = [erased EXCEPT ![o] = Erases(o)]
  /\ UNCHANGED <<tables, visits, pages, gone, dropped, targets, clears, cleared>>

DeleteEvents(o) ==
  LET found == OfPages(o, events) IN
  /\ At(o, "events", "totals")
  /\ \A e \in found : Writers(e) = {None}
  /\ gone' = [gone EXCEPT ![o] = found]
  /\ UNCHANGED <<tables, lock, visits, pages, erased, dropped, targets, clears, cleared>>

\* Visitors none of whose events the statement sees.
Unreferenced(o) ==
  {v \in Visitors : \A e \in events \ gone[o] : VisitorOf[e] # v}

\* The rows the statement finds when it begins.
Rows(o) ==
  CASE pc[o] = "totals" -> {TotalKey(g) : g \in {h \in pages[o] : total[h] > 0}}
    [] pc[o] = "sessions" -> {SessionKey(v) : v \in sessions \cap Unreferenced(o)}
    [] pc[o] = "visitors" -> {VisitorKey(v) : v \in known \cap Unreferenced(o)}

After == [totals |-> "sessions", sessions |-> "visitors", visitors |-> "commit"]

Scan(o) ==
  /\ pc[o] \in Stages /\ targets[o] = {}
  /\ targets' = [targets EXCEPT ![o] = Rows(o)]
  /\ pc' = [pc EXCEPT ![o] = IF Rows(o) = {} THEN After[@] ELSE @]
  /\ UNCHANGED <<tables, lock, visits, pages, gone, erased, dropped, clears, cleared>>

\* What goes with a row: a visitor's sessions, and the events of either, those
\* included that were committed since the statement began.
Cascade(k) ==
  {e \in events : k \in {SessionKey(VisitorOf[e]), VisitorKey(VisitorOf[e])}}
KeysWith(k) == {k} \cup {SessionKey(v) : v \in {w \in Visitors : k = VisitorKey(w)}}

DeleteRow(o, k) ==
  /\ k \in targets[o] /\ Take(o, k)
  /\ targets' = [targets EXCEPT ![o] = @ \ {k}]
  /\ dropped' = [dropped EXCEPT ![o] = @ \cup KeysWith(k)]
  /\ gone' = [gone EXCEPT ![o] = @ \cup Cascade(k)]
  /\ pc' = [pc EXCEPT ![o] = IF targets[o] = {k} THEN After[@] ELSE @]
  /\ UNCHANGED <<tables, visits, pages, erased, clears, cleared>>

CommitDeletion(o) ==
  /\ pc[o] = "commit" /\ FinishOwner(o)
  /\ events' = events \ gone[o]
  /\ total' = [g \in Pages |-> IF TotalKey(g) \in dropped[o] THEN 0 ELSE total[g]]
  /\ known' = {v \in known : VisitorKey(v) \notin dropped[o]}
  /\ sessions' = {v \in sessions : SessionKey(v) \notin dropped[o]}
  /\ responses' = responses \ erased[o]
  /\ count' = [f \in Forms |-> IF lock[FormKey(f)] = o THEN 0 ELSE count[f]]
  /\ UNCHANGED <<clears, cleared>>

-----------------------------------------------------------------------------
(* Failures *)

AbortNotRolledBack(t) ==
  /\ pc[t] # "idle" /\ pc' = [pc EXCEPT ![t] = "idle"]
  /\ UNCHANGED <<tables, lock, visits, deletions, clears, cleared>>

Abort(t) ==
  /\ pc[t] # "idle"
  /\ IF t \in Requests THEN FinishRequest(t) ELSE FinishOwner(t)
  /\ UNCHANGED <<tables, clears, cleared>>

\* A statement fails: the connection, a time-out, an error of the server.
Fail(t) == Abort(t)

Wanted(q) ==
  LET e == on[q] IN
  CASE pc[q] = "form" -> {lock[FormKey(PageOf[e])]}
    [] pc[q] = "visitor" -> {lock[VisitorKey(VisitorOf[e])]}
    [] pc[q] = "session" -> {lock[SessionKey(VisitorOf[e])]}
    [] pc[q] = "event" -> Writers(e)
    [] pc[q] = "total" -> {lock[TotalKey(PageOf[e])]}
    [] OTHER -> {}

WantedByOwner(o) ==
  CASE pc[o] = "form" -> {lock[FormKey(f)] : f \in pages[o]}
    [] pc[o] = "events" -> UNION {Writers(e) : e \in OfPages(o, events)}
    [] OTHER -> IF \E k \in targets[o] : Free(o, k) THEN {}
                ELSE {lock[k] : k \in targets[o]}

WaitsFor(t) ==
  (IF t \in Requests THEN Wanted(t) ELSE WantedByOwner(t)) \ {None, t}

\* The transactions of a circle, each waiting for another of them.
Circle(some) ==
  /\ \A t \in some : WaitsFor(t) \cap some # {}
  /\ \A t \in some : \E u \in some : t \in WaitsFor(u)

DetectDeadlock(t) ==
  /\ \E some \in SUBSET Txns : t \in some /\ Circle(some)
  /\ Abort(t)

-----------------------------------------------------------------------------
Ingest(q) ==
  \/ LockForm(q) \/ UpsertVisitor(q) \/ UpsertSession(q) \/ InsertEvent(q)
  \/ AddToTotals(q) \/ CommitEvent(q)

Clear(o) ==
  \/ LockOwnForm(o) \/ DeleteEvents(o) \/ Scan(o)
  \/ \E k \in Keys : DeleteRow(o, k)
  \/ CommitDeletion(o)

Next ==
  \/ \E q \in Requests, e \in Events : Arrive(q, e)
  \/ \E q \in Requests : Ingest(q)
  \/ \E o \in Owners, f \in Forms : DeleteFormData(o, f)
  \/ \E o \in Owners, some \in Clearable : ClearPages(o, some)
  \/ \E o \in Owners : Clear(o)
  \/ \E t \in Txns : Fail(t) \/ DetectDeadlock(t)

Spec == Init /\ [][Next]_vars

\* Statements are carried out, whoever waits for a row gets it in turn, and
\* deadlocks are found.
Fairness ==
  /\ \A q \in Requests : SF_vars(Ingest(q))
  /\ \A o \in Owners : SF_vars(Clear(o))
  /\ WF_vars(\E t \in Txns : DetectDeadlock(t))

FairSpec == Spec /\ Fairness

-----------------------------------------------------------------------------
(* Properties *)

\* The totals of a form's page count exactly the events that are there,
\* whatever is ingested, submitted or sent twice while the form's data is
\* deleted, as long as nobody clears analytics or deletes another form's data:
\* they "cannot be partially written while a form's analytics are being
\* cleared" (ingest).
FormTotalsMatch ==
  \A f \in Forms \ cleared :
    total[f] = Cardinality({e \in events : PageOf[e] = f})

\* submission_count is the number of stored responses, through deletions,
\* retries and failures, whatever else is cleared (deleteSubmissions).
ResponsesCounted ==
  \A f \in Forms : count[f] = Cardinality({e \in responses : PageOf[e] = f})

\* An accepted response keeps the analytics event that gives its source, until
\* somebody deletes events without the form's lock (submit).
ResponseHasItsEvent ==
  \A e \in responses : PageOf[e] \in cleared \/ e \in events

\* Every request comes to its end: no wait for a row is for ever.
EveryRequestEnds == \A t \in Txns : pc[t] # "idle" ~> pc[t] = "idle"
=============================================================================
