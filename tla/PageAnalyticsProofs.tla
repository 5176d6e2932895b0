------------------------- MODULE PageAnalyticsProofs -------------------------
(***************************************************************************)
(* Theorems about the analytics of pages: totals, counts and responses     *)
(* agree with the rows they summarise, for any pages, visitors and         *)
(* transactions.  The second part is about the queue in the browser that   *)
(* the events come from.                                                   *)
(***************************************************************************)
EXTENDS PageAnalytics, AnalyticsQueue, FiniteSetTheorems, SequenceTheorems, TLAPS

Responses(f) == {e \in responses : PageOf[e] = f}
EventsOf(f) == {e \in events : PageOf[e] = f}

\* A visitor's request holds the rows it has written, and its event is new as
\* long as it says so.
RequestInv(q) ==
  LET e == on[q] IN
  /\ pc[q] \in {"idle", "form", "visitor", "session", "event", "total", "commit"}
  /\ pc[q] # "idle" => e \in Events
  /\ pc[q] = "form" => PageOf[e] \in Forms
  /\ pc[q] \notin {"idle", "form"} /\ PageOf[e] \in Forms =>
       lock[FormKey(PageOf[e])] = q /\ e \notin responses
  /\ pc[q] \in {"session", "event", "total", "commit"} =>
       lock[VisitorKey(VisitorOf[e])] = q
  /\ pc[q] \in {"event", "total", "commit"} => lock[SessionKey(VisitorOf[e])] = q
  /\ pc[q] = "total" => q \in fresh
  /\ q \in fresh =>
       /\ pc[q] \in {"total", "commit"}
       /\ lock[EventKey(e)] = q /\ e \notin events
  /\ pc[q] = "commit" /\ q \notin fresh /\ PageOf[e] \in Forms \ cleared =>
       e \in events

\* An owner's request that holds a form erases exactly its responses; with a
\* visitor or a session go their events, the latest included.
OwnerInv(o) ==
  /\ pc[o] \in {"idle", "form", "events", "commit"} \cup Stages
  /\ pc[o] = "form" => \E f \in Forms : pages[o] = {f}
  /\ pc[o] \in {"idle", "form"} =>
       gone[o] = {} /\ erased[o] = {} /\ \A f \in Forms : lock[FormKey(f)] # o
  /\ pc[o] \in {"idle", "form", "events"} => dropped[o] = {}
  /\ pc[o] \in {"idle", "form", "events", "commit"} => targets[o] = {}
  /\ \A f \in Forms : FormKey(f) \notin targets[o]
  /\ \A e \in erased[o] : lock[FormKey(PageOf[e])] = o
  /\ \A e \in responses : lock[FormKey(PageOf[e])] = o => e \in erased[o]
  /\ \A v \in Visitors :
       /\ VisitorKey(v) \in dropped[o] => SessionKey(v) \in dropped[o]
       /\ SessionKey(v) \in dropped[o] =>
            /\ o \in {lock[SessionKey(v)], lock[VisitorKey(v)]}
            /\ \A e \in events : VisitorOf[e] = v => e \in gone[o]

\* A form whose events only its own deletion touches: the owner's request holds
\* it, and has found all its events and its totals.
OwnFormInv(o, f) ==
  /\ pc[o] # "idle" => pages[o] = {f}
  /\ pc[o] \notin {"idle", "form"} => lock[FormKey(f)] = o
  /\ pc[o] \in Stages \cup {"commit"} => EventsOf(f) \subseteq gone[o]
  /\ pc[o] = "totals" => targets[o] \subseteq {TotalKey(f)}
  /\ pc[o] \in {"sessions", "visitors", "commit"} =>
       total[f] = 0 \/ TotalKey(f) \in dropped[o]

LockInv ==
  /\ \A q \in Requests : RequestInv(q)
  /\ \A o \in Owners : OwnerInv(o)
  /\ \A o \in Owners : \A f \in Forms \ cleared : OwnFormInv(o, f)

CountInv == FormTotalsMatch /\ ResponsesCounted /\ ResponseHasItsEvent

AnalyticsInv == TypeOK /\ LockInv /\ CountInv

-----------------------------------------------------------------------------
(* Rows and transactions *)

LEMMA KeysOfRows ==
  /\ \A f \in Forms : FormKey(f) \in Keys
  /\ \A v \in Visitors : VisitorKey(v) \in Keys /\ SessionKey(v) \in Keys
  /\ \A e \in Events : EventKey(e) \in Keys
  /\ \A g \in Pages : TotalKey(g) \in Keys
BY DEF Keys

LEMMA KeysDiffer ==
  /\ \A f, g \in Forms : FormKey(f) = FormKey(g) => f = g
  /\ \A v, w \in Visitors : SessionKey(v) = SessionKey(w) => v = w
  /\ \A v, w \in Visitors : VisitorKey(v) = VisitorKey(w) => v = w
  /\ \A v, w \in Visitors : VisitorKey(v) # SessionKey(w)
  /\ \A f \in Forms, g \in Pages : FormKey(f) # TotalKey(g)
  /\ \A f \in Forms, v \in Visitors : FormKey(f) # VisitorKey(v) /\ FormKey(f) # SessionKey(v)
BY DEF FormKey, VisitorKey, SessionKey, TotalKey

\* What a step of one transaction leaves to the others.
Untouched(t) ==
  /\ \A u \in Txns \ {t} :
       pc'[u] = pc[u] /\ \A k \in Keys : lock'[k] = u <=> lock[k] = u
  /\ \A q \in Requests \ {t} : on'[q] = on[q] /\ (q \in fresh' <=> q \in fresh)
  /\ \A o \in Owners \ {t} :
       /\ pages'[o] = pages[o] /\ gone'[o] = gone[o] /\ erased'[o] = erased[o]
       /\ dropped'[o] = dropped[o] /\ targets'[o] = targets[o]

LEMMA TakeType ==
  ASSUME TypeOK, NEW t \in Txns, NEW k \in Keys, Take(t, k)
  PROVE  /\ lock' \in [Keys -> Txns \cup {None}]
         /\ lock'[k] = t
         /\ \A j \in Keys : j # k => lock'[j] = lock[j]
         /\ \A j \in Keys : lock[j] = t => lock'[j] = t
         /\ \A u \in Txns \ {t} : \A j \in Keys : lock'[j] = u <=> lock[j] = u
BY AnalyticsAssumption DEF TypeOK, Take, Free, AnalyticsAssumption

LEMMA FinishType ==
  ASSUME TypeOK, NEW t \in Txns, Finish(t)
  PROVE  /\ lock' \in [Keys -> Txns \cup {None}]
         /\ pc'[t] = "idle" /\ \A u \in Txns \ {t} : pc'[u] = pc[u]
         /\ pc' \in [Txns -> {"idle", "form", "visitor", "session", "event",
                              "total", "events", "commit"} \cup Stages]
         /\ \A k \in Keys : lock'[k] # t
         /\ \A u \in Txns \ {t} : \A k \in Keys : lock'[k] = u <=> lock[k] = u
BY AnalyticsAssumption DEF TypeOK, Finish, AnalyticsAssumption

LEMMA FinishRequestUntouched ==
  ASSUME TypeOK, NEW q \in Requests, FinishRequest(q)
  PROVE  /\ Untouched(q) /\ RequestInv(q)'
         /\ UNCHANGED deletions
         /\ lock' \in [Keys -> Txns \cup {None}]
         /\ pc' \in [Txns -> {"idle", "form", "visitor", "session", "event",
                              "total", "events", "commit"} \cup Stages]
         /\ on' \in [Requests -> Events \cup {None}] /\ fresh' \subseteq Requests
<1>1. q \in Txns /\ Requests \subseteq Txns /\ Owners \subseteq Txns
  BY DEF Txns
<1>2. /\ pc'[q] = "idle" /\ q \notin fresh'
      /\ \A u \in Requests \ {q} : on'[u] = on[u] /\ (u \in fresh' <=> u \in fresh)
      /\ on' \in [Requests -> Events \cup {None}] /\ fresh' \subseteq Requests
      /\ UNCHANGED deletions
  BY <1>1, FinishType DEF FinishRequest, TypeOK
<1>3. Untouched(q)
  BY <1>1, <1>2, FinishType DEF FinishRequest, Untouched, deletions
<1>4. RequestInv(q)'
  BY <1>2 DEF RequestInv
<1>5. QED
  BY <1>1, <1>2, <1>3, <1>4, FinishType DEF FinishRequest

LEMMA FinishOwnerUntouched ==
  ASSUME TypeOK, NEW o \in Owners, FinishOwner(o), responses' \subseteq Submissions
  PROVE  /\ Untouched(o) /\ OwnerInv(o)' /\ \A f \in Forms : OwnFormInv(o, f)'
         /\ UNCHANGED visits
         /\ lock' \in [Keys -> Txns \cup {None}]
         /\ pc' \in [Txns -> {"idle", "form", "visitor", "session", "event",
                              "total", "events", "commit"} \cup Stages]
         /\ pages' \in [Owners -> SUBSET Pages]
         /\ gone' \in [Owners -> SUBSET Events]
         /\ erased' \in [Owners -> SUBSET Submissions]
         /\ dropped' \in [Owners -> SUBSET Keys]
         /\ targets' \in [Owners -> SUBSET Keys]
<1>1. o \in Txns /\ Requests \subseteq Txns /\ Owners \subseteq Txns
  BY DEF Txns
<1>2. /\ pc'[o] = "idle" /\ \A k \in Keys : lock'[k] # o
      /\ gone'[o] = {} /\ erased'[o] = {} /\ dropped'[o] = {} /\ targets'[o] = {}
  BY <1>1, FinishType DEF FinishOwner, TypeOK
<1>3. Untouched(o)
  BY <1>1, FinishType, AnalyticsAssumption
  DEF FinishOwner, TypeOK, Untouched, visits, AnalyticsAssumption
<1>4. OwnerInv(o)'
  <2>1. \A f \in Forms : lock'[FormKey(f)] # o
    BY <1>2, KeysOfRows
  <2>2. \A e \in responses' : lock'[FormKey(PageOf[e])] # o
    BY <2>1, AnalyticsAssumption DEF AnalyticsAssumption
  <2>3. QED
    BY <1>2, <2>1, <2>2 DEF OwnerInv
<1>5. \A f \in Forms : OwnFormInv(o, f)'
  BY <1>2 DEF OwnFormInv, Stages
<1>6. QED
  BY <1>1, <1>3, <1>4, <1>5, FinishType DEF FinishOwner, TypeOK

\* The other transactions keep their invariants while no table changes.
LEMMA UntouchedRequests ==
  ASSUME TypeOK, LockInv, NEW t \in Txns, Untouched(t), UNCHANGED tables,
         cleared \subseteq cleared', NEW q \in Requests, q # t
  PROVE  RequestInv(q)'
<1>1. /\ pc'[q] = pc[q] /\ on'[q] = on[q] /\ (q \in fresh' <=> q \in fresh)
      /\ \A k \in Keys : lock'[k] = q <=> lock[k] = q
  BY DEF Untouched, Txns
<1>2. pc[q] # "idle" => on[q] \in Events /\ VisitorOf[on[q]] \in Visitors
  BY AnalyticsAssumption DEF LockInv, RequestInv, AnalyticsAssumption
<1>3. RequestInv(q)
  BY DEF LockInv
<1>4. QED
  BY <1>1, <1>2, <1>3, KeysOfRows DEF RequestInv, tables

LEMMA UntouchedOwners ==
  ASSUME TypeOK, LockInv, NEW t \in Txns, Untouched(t), UNCHANGED tables,
         cleared \subseteq cleared', NEW o \in Owners, o # t
  PROVE  OwnerInv(o)' /\ \A f \in Forms \ cleared' : OwnFormInv(o, f)'
<1>1. /\ pc'[o] = pc[o] /\ pages'[o] = pages[o] /\ gone'[o] = gone[o]
      /\ erased'[o] = erased[o] /\ dropped'[o] = dropped[o] /\ targets'[o] = targets[o]
      /\ \A k \in Keys : lock'[k] = o <=> lock[k] = o
  BY DEF Untouched, Txns
<1>2. OwnerInv(o)'
  <2>1. \A f \in Forms : lock'[FormKey(f)] = o <=> lock[FormKey(f)] = o
    BY <1>1, KeysOfRows
  <2>2. \A e \in responses \cup erased[o] :
          lock'[FormKey(PageOf[e])] = o <=> lock[FormKey(PageOf[e])] = o
    BY <2>1, AnalyticsAssumption DEF TypeOK, AnalyticsAssumption
  <2>3. \A v \in Visitors :
          /\ lock'[SessionKey(v)] = o <=> lock[SessionKey(v)] = o
          /\ lock'[VisitorKey(v)] = o <=> lock[VisitorKey(v)] = o
    BY <1>1, KeysOfRows
  <2>4. OwnerInv(o)
    BY DEF LockInv
  <2>5. QED
    BY <1>1, <2>1, <2>2, <2>3, <2>4 DEF OwnerInv, tables
<1>3. ASSUME NEW f \in Forms \ cleared'
      PROVE  OwnFormInv(o, f)'
  <2>1. OwnFormInv(o, f) /\ (lock'[FormKey(f)] = o <=> lock[FormKey(f)] = o)
    BY <1>1, KeysOfRows DEF LockInv
  <2>2. QED
    BY <1>1, <2>1 DEF OwnFormInv, EventsOf, tables
<1>4. QED
  BY <1>2, <1>3

\* A step of a request, or of an owner, that changes no table.
LEMMA RequestStep ==
  ASSUME TypeOK, LockInv, NEW q \in Requests, Untouched(q), RequestInv(q)',
         UNCHANGED tables, UNCHANGED cleared
  PROVE  LockInv'
<1>1. q \in Txns /\ \A o \in Owners : o # q
  BY AnalyticsAssumption DEF Txns, AnalyticsAssumption
<1>2. \A u \in Requests : RequestInv(u)'
  BY <1>1, UntouchedRequests
<1>3. QED
  BY <1>1, <1>2, UntouchedOwners DEF LockInv

LEMMA OwnerStep ==
  ASSUME TypeOK, LockInv, NEW o \in Owners, Untouched(o), OwnerInv(o)',
         \A f \in Forms \ cleared' : OwnFormInv(o, f)',
         UNCHANGED tables, cleared \subseteq cleared'
  PROVE  LockInv'
<1>1. o \in Txns /\ \A q \in Requests : o # q
  BY AnalyticsAssumption DEF Txns, AnalyticsAssumption
<1>2. \A q \in Requests : RequestInv(q)'
  BY <1>1, UntouchedRequests
<1>3. \A u \in Owners : u # o => OwnerInv(u)' /\ \A f \in Forms \ cleared' : OwnFormInv(u, f)'
  BY <1>1, UntouchedOwners
<1>4. QED
  BY <1>2, <1>3 DEF LockInv

LEMMA CountKept ==
  ASSUME CountInv, UNCHANGED tables, cleared \subseteq cleared'
  PROVE  CountInv'
BY DEF CountInv, FormTotalsMatch, ResponsesCounted, ResponseHasItsEvent, tables

-----------------------------------------------------------------------------
(* Requests of visitors *)

LEMMA RequestMoves ==
  ASSUME AnalyticsInv, NEW q \in Requests,
         \/ \E e \in Events : Arrive(q, e)
         \/ LockForm(q) \/ UpsertVisitor(q) \/ UpsertSession(q)
         \/ InsertEvent(q) \/ AddToTotals(q)
  PROVE  AnalyticsInv'
<1> USE DEF AnalyticsInv
<1>1. q \in Txns /\ \A o \in Owners : o # q
  BY AnalyticsAssumption DEF Txns, AnalyticsAssumption
<1>2. RequestInv(q)
  BY DEF LockInv
<1>3. UNCHANGED tables /\ UNCHANGED <<clears, cleared>>
  BY DEF Arrive, LockForm, UpsertVisitor, UpsertSession, InsertEvent, AddToTotals
<1>4. pc[q] # "idle" =>
        /\ on[q] \in Events /\ PageOf[on[q]] \in Pages /\ VisitorOf[on[q]] \in Visitors
        /\ (on[q] \in Submissions => PageOf[on[q]] \in Forms)
  BY <1>2, AnalyticsAssumption DEF RequestInv, AnalyticsAssumption
<1>5. SUFFICES TypeOK' /\ Untouched(q) /\ RequestInv(q)'
  BY <1>3, RequestStep, CountKept
<1>6. ASSUME NEW e \in Events, Arrive(q, e)
      PROVE  TypeOK' /\ Untouched(q) /\ RequestInv(q)'
  <2>1. TypeOK'
    BY <1>1, <1>6 DEF TypeOK, Arrive, At, tables, deletions
  <2>2. Untouched(q)
    BY <1>1, <1>6 DEF TypeOK, Arrive, At, Untouched, deletions
  <2>3. RequestInv(q)'
    BY <1>1, <1>2, <1>6 DEF TypeOK, RequestInv, Arrive, At, LocksForm, tables
  <2>4. QED
    BY <2>1, <2>2, <2>3
<1>7. CASE LockForm(q)
  <2>1. CASE FinishRequest(q)
    BY <1>7, <2>1, FinishRequestUntouched DEF TypeOK, LockForm, tables, deletions
  <2>2. CASE Take(q, FormKey(PageOf[on[q]])) /\ ~Receipt(q)
             /\ pc' = [pc EXCEPT ![q] = "visitor"] /\ UNCHANGED <<visits, deletions>>
    <3>1. pc[q] = "form"
      BY <1>7 DEF LockForm
    <3>2. CASE PageOf[on[q]] \in Forms
      <4>1. FormKey(PageOf[on[q]]) \in Keys
        BY <3>2, KeysOfRows
      <4>2. TypeOK'
        BY <1>1, <1>7, <2>2, <4>1, TakeType DEF TypeOK, LockForm, tables, visits, deletions
      <4>3. Untouched(q)
        BY <1>1, <2>2, <4>1, TakeType DEF TypeOK, Untouched, visits, deletions
      <4>4. /\ lock'[FormKey(PageOf[on[q]])] = q /\ pc'[q] = "visitor"
            /\ on[q] \notin responses /\ on[q] \in Events /\ q \notin fresh
            /\ UNCHANGED <<on, fresh, responses>>
        BY <1>1, <1>2, <1>3, <2>2, <3>1, <4>1, TakeType
        DEF TypeOK, RequestInv, Receipt, visits, tables
      <4>5. RequestInv(q)'
        BY <4>4 DEF RequestInv
      <4>6. QED
        BY <4>2, <4>3, <4>5
    <3>3. CASE PageOf[on[q]] \notin Forms
      BY <1>2, <3>1, <3>3 DEF RequestInv
    <3>4. QED
      BY <3>2, <3>3
  <2>3. QED
    BY <1>7, <2>1, <2>2 DEF LockForm, At
<1>8. CASE UpsertVisitor(q)
  <2>1. VisitorKey(VisitorOf[on[q]]) \in Keys /\ pc[q] = "visitor"
    BY <1>4, <1>8, KeysOfRows DEF UpsertVisitor, At
  <2>2. TypeOK'
    BY <1>1, <1>8, <2>1, TakeType DEF TypeOK, UpsertVisitor, At, tables, visits, deletions
  <2>3. Untouched(q)
    BY <1>1, <1>8, <2>1, TakeType DEF TypeOK, UpsertVisitor, At, Untouched, visits, deletions
  <2>4. RequestInv(q)'
    BY <1>1, <1>2, <1>4, <1>8, <2>1, TakeType, KeysOfRows
    DEF TypeOK, RequestInv, UpsertVisitor, At, visits, tables
  <2>5. QED
    BY <2>2, <2>3, <2>4
<1>9. CASE UpsertSession(q)
  <2>1. SessionKey(VisitorOf[on[q]]) \in Keys /\ pc[q] = "session"
    BY <1>4, <1>9, KeysOfRows DEF UpsertSession, At
  <2>2. TypeOK'
    BY <1>1, <1>9, <2>1, TakeType DEF TypeOK, UpsertSession, At, tables, visits, deletions
  <2>3. Untouched(q)
    BY <1>1, <1>9, <2>1, TakeType DEF TypeOK, UpsertSession, At, Untouched, visits, deletions
  <2>4. RequestInv(q)'
    BY <1>1, <1>2, <1>4, <1>9, <2>1, TakeType, KeysOfRows
    DEF TypeOK, RequestInv, UpsertSession, At, visits, tables
  <2>5. QED
    BY <2>2, <2>3, <2>4
<1>10. CASE InsertEvent(q)
  <2>1. CASE on[q] \in events
    <3>1. /\ pc[q] = "event" /\ pc' = [pc EXCEPT ![q] = "commit"]
          /\ UNCHANGED <<lock, fresh, on, deletions>>
      BY <1>10, <2>1 DEF InsertEvent, At
    <3>2. TypeOK' /\ Untouched(q)
      BY <1>1, <1>3, <3>1 DEF TypeOK, Untouched, tables, deletions
    <3>3. RequestInv(q)'
      BY <1>1, <1>2, <1>3, <2>1, <3>1 DEF TypeOK, RequestInv, tables
    <3>4. QED
      BY <3>2, <3>3
  <2>2. CASE on[q] \notin events
    <3>1. /\ pc[q] = "event" /\ pc' = [pc EXCEPT ![q] = "total"]
          /\ Take(q, EventKey(on[q])) /\ fresh' = fresh \cup {q}
          /\ UNCHANGED <<on, deletions>> /\ EventKey(on[q]) \in Keys
      BY <1>4, <1>10, <2>2, KeysOfRows DEF InsertEvent, At
    <3>2. TypeOK'
      BY <1>1, <1>3, <3>1, TakeType DEF TypeOK, tables, deletions
    <3>3. Untouched(q)
      BY <1>1, <3>1, TakeType DEF TypeOK, Untouched, deletions
    <3>4. RequestInv(q)'
      BY <1>1, <1>2, <1>3, <1>4, <2>2, <3>1, TakeType, KeysOfRows DEF TypeOK, RequestInv, tables
    <3>5. QED
      BY <3>2, <3>3, <3>4
  <2>3. QED
    BY <2>1, <2>2
<1>11. CASE AddToTotals(q)
  <2>1. TotalKey(PageOf[on[q]]) \in Keys /\ pc[q] = "total"
    BY <1>4, <1>11, KeysOfRows DEF AddToTotals, At
  <2>2. TypeOK'
    BY <1>1, <1>11, <2>1, TakeType DEF TypeOK, AddToTotals, At, tables, visits, deletions
  <2>3. Untouched(q)
    BY <1>1, <1>11, <2>1, TakeType DEF TypeOK, AddToTotals, At, Untouched, visits, deletions
  <2>4. RequestInv(q)'
    BY <1>1, <1>2, <1>4, <1>11, <2>1, TakeType, KeysOfRows
    DEF TypeOK, RequestInv, AddToTotals, At, visits, tables
  <2>5. QED
    BY <2>2, <2>3, <2>4
<1>12. QED
  BY <1>6, <1>7, <1>8, <1>9, <1>10, <1>11

-----------------------------------------------------------------------------
(* Finite sets *)

LEMMA PartSize ==
  ASSUME NEW S \in SUBSET Events
  PROVE  IsFiniteSet(S) /\ Cardinality(S) \in Nat
BY AnalyticsAssumption, FS_Subset, FS_CardinalityType DEF AnalyticsAssumption

LEMMA OneMoreEvent ==
  ASSUME NEW S \in SUBSET Events, NEW e \in Events, e \notin S
  PROVE  Cardinality(S \cup {e}) = Cardinality(S) + 1
BY PartSize, FS_AddElement

LEMMA NoneLeft == Cardinality({}) = 0
BY FS_EmptySet

-----------------------------------------------------------------------------
(* The commit of a visitor's request *)

LEMMA CommitEventLocks ==
  ASSUME AnalyticsInv, NEW q \in Requests, CommitEvent(q)
  PROVE  TypeOK' /\ LockInv'
<1> USE DEF AnalyticsInv
<1>1. q \in Txns /\ \A o \in Owners : o # q
  BY AnalyticsAssumption DEF Txns, AnalyticsAssumption
<1>2. RequestInv(q) /\ pc[q] = "commit" /\ FinishRequest(q)
  BY DEF LockInv, CommitEvent
<1> PICK e \in Events : e = on[q]
  BY <1>2 DEF RequestInv
<1>3. /\ PageOf[e] \in Pages /\ VisitorOf[e] \in Visitors
      /\ (e \in Submissions => PageOf[e] \in Forms)
  BY AnalyticsAssumption DEF AnalyticsAssumption
<1>4. /\ events' = IF q \in fresh THEN events \cup {e} ELSE events
      /\ responses' = IF e \in Submissions THEN responses \cup {e} ELSE responses
      /\ known' = known \cup {VisitorOf[e]} /\ sessions' = sessions \cup {VisitorOf[e]}
      /\ \A f \in Forms : f # PageOf[e] => total'[f] = total[f]
      /\ UNCHANGED <<clears, cleared>>
  BY <1>3, AnalyticsAssumption DEF CommitEvent, TypeOK, AnalyticsAssumption
<1>5. /\ total' \in [Pages -> Nat] /\ count' \in [Forms -> Nat]
  BY <1>3 DEF CommitEvent, TypeOK
<1>6. /\ PageOf[e] \in Forms => lock[FormKey(PageOf[e])] = q
      /\ lock[VisitorKey(VisitorOf[e])] = q /\ lock[SessionKey(VisitorOf[e])] = q
      /\ q \in fresh => lock[EventKey(e)] = q
  BY <1>2 DEF RequestInv
<1>7. TypeOK'
  BY <1>2, <1>3, <1>4, <1>5, FinishRequestUntouched DEF TypeOK, deletions
<1>8. Untouched(q) /\ RequestInv(q)'
  BY <1>2, FinishRequestUntouched
<1>9. ASSUME NEW u \in Requests, u # q
      PROVE  RequestInv(u)'
  <2>1. /\ pc'[u] = pc[u] /\ on'[u] = on[u] /\ (u \in fresh' <=> u \in fresh)
        /\ \A k \in Keys : lock'[k] = u <=> lock[k] = u
    BY <1>8, <1>9 DEF Untouched, Txns
  <2>2. pc[u] # "idle" => on[u] \in Events /\ VisitorOf[on[u]] \in Visitors
    BY AnalyticsAssumption DEF LockInv, RequestInv, AnalyticsAssumption
  <2>3. RequestInv(u)
    BY DEF LockInv
  <2>4. u \in fresh => on[u] \notin events'
    BY <1>4, <1>6, <1>9, <2>3 DEF RequestInv
  <2>5. pc[u] \notin {"idle", "form"} /\ PageOf[on[u]] \in Forms => on[u] \notin responses'
    BY <1>4, <1>6, <1>9, <2>3 DEF RequestInv
  <2>6. events \subseteq events'
    BY <1>4
  <2>7. QED
    BY <1>4, <2>1, <2>2, <2>3, <2>4, <2>5, <2>6, KeysOfRows DEF RequestInv
<1>10. ASSUME NEW o \in Owners
       PROVE  OwnerInv(o)' /\ \A f \in Forms \ cleared' : OwnFormInv(o, f)'
  <2>1. /\ pc'[o] = pc[o] /\ pages'[o] = pages[o] /\ gone'[o] = gone[o]
        /\ erased'[o] = erased[o] /\ dropped'[o] = dropped[o] /\ targets'[o] = targets[o]
        /\ \A k \in Keys : lock'[k] = o <=> lock[k] = o
        /\ o # q
    BY <1>1, <1>8 DEF Untouched, Txns
  <2>2. OwnerInv(o)
    BY DEF LockInv
  <2>3. /\ \A f \in Forms : lock'[FormKey(f)] = o <=> lock[FormKey(f)] = o
        /\ \A r \in responses' \cup erased[o] :
             lock'[FormKey(PageOf[r])] = o <=> lock[FormKey(PageOf[r])] = o
        /\ \A v \in Visitors :
             /\ lock'[SessionKey(v)] = o <=> lock[SessionKey(v)] = o
             /\ lock'[VisitorKey(v)] = o <=> lock[VisitorKey(v)] = o
    BY <1>7, <2>1, KeysOfRows, AnalyticsAssumption DEF TypeOK, AnalyticsAssumption
  <2>4. \A r \in responses' : lock[FormKey(PageOf[r])] = o => r \in erased[o]
    BY <1>3, <1>4, <1>6, <2>1, <2>2 DEF OwnerInv
  <2>5. ASSUME NEW v \in Visitors, SessionKey(v) \in dropped[o]
        PROVE  \A r \in events' : VisitorOf[r] = v => r \in gone[o]
    <3>1. v # VisitorOf[e]
      BY <1>6, <2>1, <2>2, <2>5 DEF OwnerInv
    <3>2. QED
      BY <1>4, <2>2, <2>5, <3>1 DEF OwnerInv
  <2>6. OwnerInv(o)'
    BY <2>1, <2>2, <2>3, <2>4, <2>5 DEF OwnerInv
  <2>7. ASSUME NEW f \in Forms \ cleared'
        PROVE  OwnFormInv(o, f)'
    <3>1. OwnFormInv(o, f)
      BY <1>4 DEF LockInv
    <3>2. pc[o] \notin {"idle", "form"} => PageOf[e] # f
      BY <1>6, <2>1, <3>1 DEF OwnFormInv
    <3>3. PageOf[e] # f => EventsOf(f)' = EventsOf(f) /\ total'[f] = total[f]
      BY <1>4 DEF EventsOf
    <3>4. QED
      BY <2>1, <2>3, <3>1, <3>2, <3>3 DEF OwnFormInv, Stages
  <2>8. QED
    BY <2>6, <2>7
<1>11. QED
  BY <1>7, <1>8, <1>9, <1>10 DEF LockInv

LEMMA CommitEventCounts ==
  ASSUME AnalyticsInv, NEW q \in Requests, CommitEvent(q)
  PROVE  CountInv'
<1> USE DEF AnalyticsInv
<1>1. RequestInv(q) /\ pc[q] = "commit"
  BY DEF LockInv, CommitEvent
<1> PICK e \in Events : e = on[q]
  BY <1>1 DEF RequestInv
<1>2. PageOf[e] \in Pages /\ (e \in Submissions => PageOf[e] \in Forms)
  BY AnalyticsAssumption DEF AnalyticsAssumption
<1>3. /\ events' = IF q \in fresh THEN events \cup {e} ELSE events
      /\ total' = IF q \in fresh THEN [total EXCEPT ![PageOf[e]] = @ + 1] ELSE total
      /\ responses' = IF e \in Submissions THEN responses \cup {e} ELSE responses
      /\ count' = IF e \in Submissions THEN [count EXCEPT ![PageOf[e]] = @ + 1] ELSE count
      /\ UNCHANGED cleared
  BY DEF CommitEvent
<1>4. events \subseteq Events /\ responses \subseteq Events
  BY AnalyticsAssumption DEF TypeOK, AnalyticsAssumption
<1>5. FormTotalsMatch'
  <2> SUFFICES ASSUME NEW f \in Forms \ cleared
               PROVE  total'[f] = Cardinality(EventsOf(f)')
    BY <1>3 DEF FormTotalsMatch, EventsOf
  <2>1. total[f] = Cardinality(EventsOf(f)) /\ f \in Pages
    BY AnalyticsAssumption DEF CountInv, FormTotalsMatch, EventsOf, AnalyticsAssumption
  <2>2. CASE q \in fresh /\ PageOf[e] = f
    <3>1. EventsOf(f)' = EventsOf(f) \cup {e} /\ e \notin EventsOf(f)
      BY <1>1, <1>3, <2>2 DEF EventsOf, RequestInv
    <3>2. Cardinality(EventsOf(f) \cup {e}) = Cardinality(EventsOf(f)) + 1
      BY <1>4, <3>1, OneMoreEvent DEF EventsOf
    <3>3. total'[f] = total[f] + 1
      BY <1>3, <2>1, <2>2 DEF TypeOK
    <3>4. QED
      BY <2>1, <3>1, <3>2, <3>3
  <2>3. CASE ~(q \in fresh /\ PageOf[e] = f)
    <3>1. EventsOf(f)' = EventsOf(f)
      BY <1>3, <2>3 DEF EventsOf
    <3>2. total'[f] = total[f]
      BY <1>2, <1>3, <2>3 DEF TypeOK
    <3>3. QED
      BY <2>1, <3>1, <3>2
  <2>4. QED
    BY <2>2, <2>3
<1>6. ResponsesCounted'
  <2> SUFFICES ASSUME NEW f \in Forms
               PROVE  count'[f] = Cardinality(Responses(f)')
    BY DEF ResponsesCounted, Responses
  <2>1. count[f] = Cardinality(Responses(f))
    BY DEF CountInv, ResponsesCounted, Responses
  <2>2. CASE e \in Submissions /\ PageOf[e] = f
    <3>1. Responses(f)' = Responses(f) \cup {e} /\ e \notin Responses(f)
      BY <1>1, <1>3, <2>2 DEF Responses, RequestInv
    <3>2. Cardinality(Responses(f) \cup {e}) = Cardinality(Responses(f)) + 1
      BY <1>4, <3>1, OneMoreEvent DEF Responses
    <3>3. count'[f] = count[f] + 1
      BY <1>3, <2>2 DEF TypeOK
    <3>4. QED
      BY <2>1, <3>1, <3>2, <3>3
  <2>3. CASE ~(e \in Submissions /\ PageOf[e] = f)
    <3>1. Responses(f)' = Responses(f)
      BY <1>3, <2>3 DEF Responses
    <3>2. count'[f] = count[f]
      BY <1>2, <1>3, <2>3 DEF TypeOK
    <3>3. QED
      BY <2>1, <3>1, <3>2
  <2>4. QED
    BY <2>2, <2>3
<1>7. ResponseHasItsEvent'
  BY <1>1, <1>2, <1>3 DEF CountInv, ResponseHasItsEvent, RequestInv
<1>8. QED
  BY <1>5, <1>6, <1>7 DEF CountInv

-----------------------------------------------------------------------------
(* Requests of owners *)

LEMMA StagesFollow ==
  /\ After["totals"] = "sessions" /\ After["sessions"] = "visitors"
  /\ After["visitors"] = "commit"
BY DEF After

\* The rows a statement finds are rows of its table.
LEMMA RowsFound ==
  ASSUME TypeOK, NEW o \in Owners, pc[o] \in Stages
  PROVE  /\ Rows(o) \subseteq Keys
         /\ \A f \in Forms : FormKey(f) \notin Rows(o)
         /\ \A f \in Forms : pages[o] = {f} /\ pc[o] = "totals" =>
              /\ Rows(o) \subseteq {TotalKey(f)}
              /\ Rows(o) = {} => total[f] = 0
<1>1. CASE pc[o] = "totals"
  <2>1. Rows(o) = {TotalKey(g) : g \in {h \in pages[o] : total[h] > 0}}
    BY <1>1 DEF Rows
  <2>2. pages[o] \subseteq Pages
    BY DEF TypeOK
  <2>3. \A f \in Forms : f \in Pages
    BY AnalyticsAssumption DEF AnalyticsAssumption
  <2>4. ASSUME NEW f \in Forms, pages[o] = {f}, Rows(o) = {}
        PROVE  total[f] = 0
    <3>1. ~(total[f] > 0)
      BY <2>1, <2>4
    <3>2. QED
      BY <2>3, <3>1 DEF TypeOK
  <2>5. QED
    BY <1>1, <2>1, <2>2, <2>4, KeysOfRows, KeysDiffer
<1>2. CASE pc[o] = "sessions"
  <2>1. Rows(o) = {SessionKey(v) : v \in sessions \cap Unreferenced(o)}
    BY <1>2 DEF Rows
  <2>2. QED
    BY <1>2, <2>1, KeysOfRows, KeysDiffer DEF Unreferenced
<1>3. CASE pc[o] = "visitors"
  <2>1. Rows(o) = {VisitorKey(v) : v \in known \cap Unreferenced(o)}
    BY <1>3 DEF Rows
  <2>2. QED
    BY <1>3, <2>1, KeysOfRows, KeysDiffer DEF Unreferenced
<1>4. QED
  BY <1>1, <1>2, <1>3 DEF Stages

\* A deletion of a form's data, or a clearing, begins.
LEMMA OwnerBegins ==
  ASSUME AnalyticsInv, NEW o \in Owners,
         \/ \E f \in Forms : DeleteFormData(o, f)
         \/ \E some \in Clearable : ClearPages(o, some)
  PROVE  AnalyticsInv'
<1> USE DEF AnalyticsInv
<1>1. o \in Txns /\ \A q \in Requests : o # q
  BY AnalyticsAssumption DEF Txns, AnalyticsAssumption
<1>2. OwnerInv(o) /\ pc[o] = "idle"
  BY DEF LockInv, DeleteFormData, ClearPages, At
<1>3. /\ UNCHANGED <<tables, lock, visits, gone, erased, dropped, targets>>
      /\ cleared \subseteq cleared' /\ cleared' \subseteq Pages
      /\ \E some \in SUBSET Pages : pages' = [pages EXCEPT ![o] = some]
      /\ pc'[o] \in {"form", "events"}
      /\ \E p \in {"form", "events"} : pc' = [pc EXCEPT ![o] = p]
      /\ clears' \in 0 .. MaxClears
  <2>1. ASSUME NEW f \in Forms, DeleteFormData(o, f)
        PROVE  /\ {f} \subseteq Pages /\ cleared' = cleared \cup (Pages \ {f})
               /\ clears < MaxClears /\ clears' = clears + 1
    BY <2>1, AnalyticsAssumption DEF DeleteFormData, AnalyticsAssumption
  <2>2. ASSUME NEW some \in Clearable, ClearPages(o, some)
        PROVE  /\ some \subseteq Pages /\ cleared' = Pages
               /\ clears < MaxClears /\ clears' = clears + 1
    BY <2>2, AnalyticsAssumption DEF ClearPages, AnalyticsAssumption
  <2>3. clears' \in 0 .. MaxClears
    BY <2>1, <2>2, AnalyticsAssumption DEF TypeOK, AnalyticsAssumption
  <2>4. CASE \E f \in Forms : DeleteFormData(o, f)
    BY <1>1, <2>1, <2>3, <2>4 DEF DeleteFormData, At, TypeOK
  <2>5. CASE \E some \in Clearable : ClearPages(o, some)
    BY <1>1, <2>2, <2>3, <2>5 DEF ClearPages, At, TypeOK
  <2>6. QED
    BY <2>4, <2>5
<1>4. TypeOK'
  BY <1>1, <1>3 DEF TypeOK, tables, visits
<1>5. Untouched(o)
  BY <1>1, <1>3 DEF TypeOK, Untouched, visits
<1>6. ASSUME NEW f \in Forms \ cleared'
      PROVE  pages'[o] = {f} /\ pc'[o] = "form"
  <2>1. ASSUME NEW some \in Clearable, ClearPages(o, some)
        PROVE  FALSE
    BY <1>6, <2>1, AnalyticsAssumption DEF ClearPages, AnalyticsAssumption
  <2>2. ASSUME NEW g \in Forms, DeleteFormData(o, g)
        PROVE  pages'[o] = {f} /\ pc'[o] = "form"
    <3>1. f = g
      BY <1>6, <2>2, AnalyticsAssumption DEF DeleteFormData, AnalyticsAssumption
    <3>2. QED
      BY <1>1, <2>2, <3>1 DEF DeleteFormData, At, TypeOK
  <2>3. QED
    BY <2>1, <2>2
<1>7. OwnerInv(o)'
  <2>1. pc'[o] = "form" => \E f \in Forms : pages'[o] = {f}
    BY <1>1 DEF DeleteFormData, ClearPages, At, TypeOK
  <2>2. QED
    BY <1>2, <1>3, <2>1 DEF OwnerInv, tables
<1>8. \A f \in Forms \ cleared' : OwnFormInv(o, f)'
  BY <1>6 DEF OwnFormInv, Stages
<1>9. QED
  BY <1>3, <1>4, <1>5, <1>7, <1>8, OwnerStep, CountKept DEF tables

\* Up to its commit an owner's request only finds and locks rows.
LEMMA OwnerMoves ==
  ASSUME AnalyticsInv, NEW o \in Owners,
         \/ LockOwnForm(o) \/ DeleteEvents(o) \/ Scan(o)
         \/ \E k \in Keys : DeleteRow(o, k)
  PROVE  AnalyticsInv'
<1> USE DEF AnalyticsInv
<1>1. o \in Txns /\ \A q \in Requests : o # q
  BY AnalyticsAssumption DEF Txns, AnalyticsAssumption
<1>2. OwnerInv(o) /\ \A f \in Forms \ cleared : OwnFormInv(o, f)
  BY DEF LockInv
<1>3. UNCHANGED tables /\ UNCHANGED visits /\ UNCHANGED <<clears, cleared>>
  BY DEF LockOwnForm, DeleteEvents, Scan, DeleteRow
<1>4. SUFFICES /\ TypeOK' /\ Untouched(o) /\ OwnerInv(o)'
               /\ \A f \in Forms \ cleared : OwnFormInv(o, f)'
  BY <1>3, OwnerStep, CountKept
<1>5. UNCHANGED <<events, total, responses, cleared>>
  BY <1>3 DEF tables
<1>6. CASE LockOwnForm(o)
  <2>1. pc[o] = "form" /\ pc'[o] = "events" /\ pc' = [pc EXCEPT ![o] = "events"]
    BY <1>1, <1>6 DEF LockOwnForm, At, TypeOK
  <2>2. PICK f \in Forms : pages[o] = {f}
    BY <1>2, <2>1 DEF OwnerInv
  <2>3. /\ Take(o, FormKey(f)) /\ FormKey(f) \in Keys
        /\ erased' = [erased EXCEPT ![o] = {e \in responses : PageOf[e] = f}]
        /\ UNCHANGED <<pages, gone, dropped, targets>>
    BY <1>6, <2>2, KeysOfRows DEF LockOwnForm, Erases, OfPages
  <2>4. TypeOK'
    BY <1>1, <1>3, <2>1, <2>3, TakeType DEF TypeOK, tables, visits
  <2>5. Untouched(o)
    BY <1>1, <1>3, <2>1, <2>3, TakeType DEF TypeOK, Untouched, visits
  <2>6. \A g \in Forms : lock'[FormKey(g)] = o <=> g = f
    <3>1. \A g \in Forms : lock[FormKey(g)] # o
      BY <1>2, <2>1 DEF OwnerInv
    <3>2. QED
      BY <1>1, <2>3, <3>1, TakeType, KeysOfRows, KeysDiffer
  <2>7. \A e \in responses : lock'[FormKey(PageOf[e])] = o <=> PageOf[e] = f
    BY <2>6, AnalyticsAssumption DEF TypeOK, AnalyticsAssumption
  <2>8. erased'[o] = {e \in responses : PageOf[e] = f}
    BY <2>3 DEF TypeOK
  <2>9. dropped'[o] = {} /\ targets'[o] = {}
    BY <1>2, <2>1, <2>3 DEF OwnerInv
  <2>10. OwnerInv(o)'
    BY <1>5, <2>1, <2>7, <2>8, <2>9 DEF OwnerInv, Stages
  <2>11. ASSUME NEW g \in Forms \ cleared
         PROVE  OwnFormInv(o, g)'
    <3>1. pages[o] = {g}
      BY <1>2, <2>1 DEF OwnFormInv
    <3>2. g = f
      BY <2>2, <3>1
    <3>3. QED
      BY <2>1, <2>3, <2>6, <3>1, <3>2 DEF OwnFormInv, Stages
  <2>12. QED
    BY <2>4, <2>5, <2>10, <2>11
<1>7. CASE DeleteEvents(o)
  <2>1. /\ pc[o] = "events" /\ pc'[o] = "totals" /\ pc' = [pc EXCEPT ![o] = "totals"]
        /\ gone' = [gone EXCEPT ![o] = OfPages(o, events)]
        /\ UNCHANGED <<lock, pages, erased, dropped, targets>>
    BY <1>1, <1>7 DEF DeleteEvents, At, TypeOK
  <2>2. gone'[o] = {e \in events : PageOf[e] \in pages[o]} /\ OfPages(o, events) \subseteq Events
    <3>1. events \subseteq Events /\ gone \in [Owners -> SUBSET Events]
      BY DEF TypeOK
    <3>2. QED
      BY <2>1, <3>1 DEF OfPages
  <2>3. TypeOK'
    <3>1. gone' \in [Owners -> SUBSET Events]
      BY <2>1, <2>2 DEF TypeOK
    <3>2. QED
      BY <1>1, <1>3, <2>1, <3>1 DEF TypeOK, Stages, tables, visits
  <2>4. Untouched(o)
    BY <1>1, <1>3, <2>1 DEF TypeOK, Untouched, visits
  <2>5. dropped'[o] = {} /\ targets'[o] = {}
    BY <1>2, <2>1 DEF OwnerInv
  <2>6. OwnerInv(o)'
    BY <1>2, <1>5, <2>1, <2>5 DEF OwnerInv, Stages
  <2>7. ASSUME NEW g \in Forms \ cleared
        PROVE  OwnFormInv(o, g)'
    <3>1. pages[o] = {g} /\ lock[FormKey(g)] = o
      BY <1>2, <2>1 DEF OwnFormInv
    <3>2. EventsOf(g)' \subseteq gone'[o]
      BY <1>5, <2>2, <3>1 DEF EventsOf
    <3>3. QED
      BY <2>1, <2>5, <3>1, <3>2 DEF OwnFormInv, Stages
  <2>8. QED
    BY <2>3, <2>4, <2>6, <2>7
<1>8. CASE Scan(o)
  <2>1. /\ pc[o] \in Stages /\ targets[o] = {}
        /\ targets' = [targets EXCEPT ![o] = Rows(o)] /\ targets'[o] = Rows(o)
        /\ UNCHANGED <<lock, pages, gone, erased, dropped>>
    BY <1>1, <1>8 DEF Scan, TypeOK
  <2>2. /\ pc'[o] = IF Rows(o) = {} THEN After[pc[o]] ELSE pc[o]
        /\ pc' = [pc EXCEPT ![o] = pc'[o]]
        /\ pc'[o] \in Stages \cup {"commit"}
        /\ pc'[o] = "totals" => pc[o] = "totals"
        /\ pc'[o] # "totals" /\ pc[o] = "totals" => Rows(o) = {}
        /\ pc'[o] = "commit" => Rows(o) = {}
    BY <1>1, <1>8, <2>1, StagesFollow DEF Scan, TypeOK, Stages
  <2>3. TypeOK'
    BY <1>1, <1>3, <2>1, <2>2, RowsFound DEF TypeOK, tables, visits
  <2>4. Untouched(o)
    BY <1>1, <1>3, <2>1, <2>2 DEF TypeOK, Untouched, visits
  <2>5. OwnerInv(o)'
    BY <1>2, <1>5, <2>1, <2>2, RowsFound DEF OwnerInv, Stages
  <2>6. ASSUME NEW g \in Forms \ cleared
        PROVE  OwnFormInv(o, g)'
    <3>1. OwnFormInv(o, g) /\ pages[o] = {g}
      BY <1>2, <2>1 DEF OwnFormInv, Stages
    <3>2. EventsOf(g)' = EventsOf(g)
      BY <1>5 DEF EventsOf
    <3>3. pc[o] = "totals" =>
            Rows(o) \subseteq {TotalKey(g)} /\ (Rows(o) = {} => total[g] = 0)
      BY <2>1, <3>1, RowsFound
    <3>4. pc'[o] # "idle" /\ pc'[o] \notin {"idle", "form"} /\ pc[o] \notin {"idle", "form"}
      BY <2>1, <2>2 DEF Stages
    <3>5. pc'[o] \in {"sessions", "visitors", "commit"} =>
            total[g] = 0 \/ TotalKey(g) \in dropped[o]
      BY <2>1, <2>2, <3>1, <3>3 DEF OwnFormInv, Stages
    <3>6. QED
      BY <1>5, <2>1, <2>2, <3>1, <3>2, <3>3, <3>4, <3>5 DEF OwnFormInv
  <2>7. QED
    BY <2>3, <2>4, <2>5, <2>6
<1>9. ASSUME NEW k \in Keys, DeleteRow(o, k)
      PROVE  /\ TypeOK' /\ Untouched(o) /\ OwnerInv(o)'
             /\ \A f \in Forms \ cleared : OwnFormInv(o, f)'
  <2>1. /\ k \in targets[o] /\ Take(o, k)
        /\ targets'[o] = targets[o] \ {k} /\ dropped'[o] = dropped[o] \cup KeysWith(k)
        /\ gone'[o] = gone[o] \cup Cascade(k)
        /\ pc'[o] = IF targets[o] = {k} THEN After[pc[o]] ELSE pc[o]
        /\ UNCHANGED <<pages, erased>>
    <3>1. /\ gone \in [Owners -> SUBSET Events]
          /\ dropped \in [Owners -> SUBSET Keys] /\ targets \in [Owners -> SUBSET Keys]
          /\ o \in DOMAIN pc
      BY <1>1 DEF TypeOK
    <3>2. QED
      BY <1>9, <3>1 DEF DeleteRow
  <2>2. pc[o] \in Stages
    BY <1>2, <2>1 DEF OwnerInv
  <2>3. /\ pc'[o] \in Stages \cup {"commit"}
        /\ pc'[o] = "totals" => pc[o] = "totals"
        /\ pc'[o] # "totals" /\ pc[o] = "totals" => targets[o] = {k}
        /\ pc'[o] = "commit" => targets[o] = {k}
    BY <2>1, <2>2, StagesFollow DEF Stages
  <2>4. KeysWith(k) \subseteq Keys /\ Cascade(k) \subseteq Events
    BY KeysOfRows DEF KeysWith, Cascade, TypeOK
  <2>5. /\ targets' \in [Owners -> SUBSET Keys]
        /\ dropped' \in [Owners -> SUBSET Keys] /\ gone' \in [Owners -> SUBSET Events]
        /\ pc' \in [Txns -> {"idle", "form", "visitor", "session", "event",
                             "total", "events", "commit"} \cup Stages]
        /\ \A u \in Txns \ {o} : pc'[u] = pc[u]
        /\ \A u \in Owners \ {o} :
             gone'[u] = gone[u] /\ dropped'[u] = dropped[u] /\ targets'[u] = targets[u]
    <3>1. targets[o] \ {k} \subseteq Keys /\ dropped[o] \cup KeysWith(k) \subseteq Keys
          /\ gone[o] \cup Cascade(k) \subseteq Events
      BY <2>4 DEF TypeOK
    <3>2. pc' = [pc EXCEPT ![o] = pc'[o]]
      BY <1>1, <1>9, <2>1 DEF DeleteRow, TypeOK
    <3>3. QED
      BY <1>1, <1>9, <2>3, <3>1, <3>2 DEF DeleteRow, TypeOK
  <2>6. TypeOK'
    BY <1>1, <1>3, <2>1, <2>5, TakeType DEF TypeOK, tables, visits
  <2>7. Untouched(o)
    BY <1>1, <1>3, <2>1, <2>5, TakeType DEF TypeOK, Untouched, visits
  <2>8. \A f \in Forms : k # FormKey(f) /\ (lock'[FormKey(f)] = o <=> lock[FormKey(f)] = o)
    BY <1>1, <1>2, <2>1, TakeType, KeysOfRows DEF OwnerInv
  <2>9. \A e \in responses \cup erased[o] :
          lock'[FormKey(PageOf[e])] = o <=> lock[FormKey(PageOf[e])] = o
    BY <2>8, AnalyticsAssumption DEF TypeOK, AnalyticsAssumption
  <2>10. ASSUME NEW v \in Visitors
         PROVE  /\ VisitorKey(v) \in dropped'[o] => SessionKey(v) \in dropped'[o]
                /\ SessionKey(v) \in dropped'[o] =>
                     /\ o \in {lock'[SessionKey(v)], lock'[VisitorKey(v)]}
                     /\ \A e \in events' : VisitorOf[e] = v => e \in gone'[o]
    <3>1. /\ lock'[k] = o
          /\ lock[SessionKey(v)] = o => lock'[SessionKey(v)] = o
          /\ lock[VisitorKey(v)] = o => lock'[VisitorKey(v)] = o
      BY <1>1, <2>1, TakeType, KeysOfRows
    <3>2. CASE k \in {SessionKey(v), VisitorKey(v)}
      <4>1. SessionKey(v) \in KeysWith(k)
        BY <3>2 DEF KeysWith
      <4>2. \A e \in events : VisitorOf[e] = v => e \in Cascade(k)
        BY <3>2 DEF Cascade
      <4>3. QED
        BY <1>5, <2>1, <3>1, <3>2, <4>1, <4>2
    <3>3. CASE k \notin {SessionKey(v), VisitorKey(v)}
      <4>1. SessionKey(v) \notin KeysWith(k) /\ VisitorKey(v) \notin KeysWith(k)
        BY <3>3, KeysDiffer DEF KeysWith
      <4>2. QED
        BY <1>2, <1>5, <2>1, <3>1, <4>1 DEF OwnerInv
    <3>4. QED
      BY <3>2, <3>3
  <2>11. OwnerInv(o)'
    BY <1>2, <1>5, <2>1, <2>2, <2>3, <2>9, <2>10 DEF OwnerInv, Stages
  <2>12. ASSUME NEW g \in Forms \ cleared
         PROVE  OwnFormInv(o, g)'
    <3>1. OwnFormInv(o, g)
      BY <1>2
    <3>2. EventsOf(g)' = EventsOf(g)
      BY <1>5 DEF EventsOf
    <3>3. pc'[o] # "totals" /\ pc[o] = "totals" => TotalKey(g) \in dropped'[o]
      BY <2>1, <2>3, <3>1 DEF OwnFormInv, KeysWith
    <3>4. pc'[o] \notin {"idle", "form"} /\ pc[o] \notin {"idle", "form"}
      BY <2>2, <2>3 DEF Stages
    <3>5. pc'[o] \in {"sessions", "visitors", "commit"} =>
            total[g] = 0 \/ TotalKey(g) \in dropped'[o]
      BY <2>1, <2>2, <3>1, <3>3 DEF OwnFormInv, Stages
    <3>6. QED
      BY <1>5, <2>1, <2>2, <2>3, <2>8, <3>1, <3>2, <3>4, <3>5 DEF OwnFormInv
  <2>13. QED
    BY <2>6, <2>7, <2>11, <2>12
<1>10. QED
  BY <1>6, <1>7, <1>8, <1>9

\* The commit of a deletion that holds a form finds no request of a visitor on
\* the form's page on its way, and no other deletion of its data.
LEMMA CommitDeletionLocks ==
  ASSUME AnalyticsInv, NEW o \in Owners, CommitDeletion(o)
  PROVE  TypeOK' /\ LockInv'
<1> USE DEF AnalyticsInv
<1>1. o \in Txns /\ \A q \in Requests : o # q
  BY AnalyticsAssumption DEF Txns, AnalyticsAssumption
<1>2. /\ OwnerInv(o) /\ \A f \in Forms \ cleared : OwnFormInv(o, f)
      /\ pc[o] = "commit" /\ FinishOwner(o)
  BY DEF LockInv, CommitDeletion
<1>3. /\ events' = events \ gone[o] /\ responses' = responses \ erased[o]
      /\ known' = {v \in known : VisitorKey(v) \notin dropped[o]}
      /\ sessions' = {v \in sessions : SessionKey(v) \notin dropped[o]}
      /\ UNCHANGED <<clears, cleared>>
  BY DEF CommitDeletion
<1>4. responses' \subseteq Submissions
  BY <1>3 DEF TypeOK
<1>5. TypeOK'
  <2>1. events' \subseteq Events /\ known' \subseteq Visitors
    BY <1>3 DEF TypeOK
  <2>2. \A e \in events' : VisitorOf[e] \in sessions'
    <3> SUFFICES ASSUME NEW e \in events'
                 PROVE  VisitorOf[e] \in sessions'
      OBVIOUS
    <3>1. e \in events /\ e \notin gone[o] /\ VisitorOf[e] \in sessions
      BY <1>3 DEF TypeOK
    <3>2. VisitorOf[e] \in Visitors
      BY <3>1 DEF TypeOK
    <3>3. SessionKey(VisitorOf[e]) \notin dropped[o]
      BY <1>2, <3>1, <3>2 DEF OwnerInv
    <3>4. QED
      BY <1>3, <3>1, <3>3
  <2>3. sessions' \subseteq known'
    BY <1>2, <1>3 DEF TypeOK, OwnerInv
  <2>4. total' \in [Pages -> Nat] /\ count' \in [Forms -> Nat]
    BY DEF CommitDeletion, TypeOK
  <2>5. on' \in [Requests -> Events \cup {None}] /\ fresh' \subseteq Requests
    BY <1>2, <1>4, FinishOwnerUntouched DEF TypeOK, visits
  <2>6. QED
    BY <1>2, <1>3, <1>4, <2>1, <2>2, <2>3, <2>4, <2>5, FinishOwnerUntouched DEF TypeOK
<1>6. Untouched(o) /\ OwnerInv(o)' /\ \A f \in Forms : OwnFormInv(o, f)'
  BY <1>2, <1>4, FinishOwnerUntouched
<1>7. \A f \in Forms \ cleared : lock[FormKey(f)] = o
  BY <1>2 DEF OwnFormInv
<1>8. ASSUME NEW u \in Requests
      PROVE  RequestInv(u)'
  <2>1. /\ pc'[u] = pc[u] /\ on'[u] = on[u] /\ (u \in fresh' <=> u \in fresh)
        /\ \A k \in Keys : lock'[k] = u <=> lock[k] = u
        /\ u # o
    BY <1>1, <1>6 DEF Untouched, Txns
  <2>2. pc[u] # "idle" => on[u] \in Events /\ VisitorOf[on[u]] \in Visitors
    BY AnalyticsAssumption DEF LockInv, RequestInv, AnalyticsAssumption
  <2>3. RequestInv(u)
    BY DEF LockInv
  <2>4. ~(pc[u] = "commit" /\ PageOf[on[u]] \in Forms \ cleared)
    BY <1>7, <2>1, <2>3 DEF RequestInv
  <2>5. events' \subseteq events /\ responses' \subseteq responses
    BY <1>3
  <2>6. QED
    BY <1>3, <2>1, <2>2, <2>3, <2>4, <2>5, KeysOfRows DEF RequestInv
<1>9. ASSUME NEW u \in Owners, u # o
      PROVE  OwnerInv(u)' /\ \A f \in Forms \ cleared' : OwnFormInv(u, f)'
  <2>1. /\ pc'[u] = pc[u] /\ pages'[u] = pages[u] /\ gone'[u] = gone[u]
        /\ erased'[u] = erased[u] /\ dropped'[u] = dropped[u] /\ targets'[u] = targets[u]
        /\ \A k \in Keys : lock'[k] = u <=> lock[k] = u
    BY <1>6, <1>9 DEF Untouched, Txns
  <2>2. OwnerInv(u)
    BY DEF LockInv
  <2>3. /\ \A f \in Forms : lock'[FormKey(f)] = u <=> lock[FormKey(f)] = u
        /\ \A r \in responses \cup erased[u] :
             lock'[FormKey(PageOf[r])] = u <=> lock[FormKey(PageOf[r])] = u
        /\ \A v \in Visitors :
             /\ lock'[SessionKey(v)] = u <=> lock[SessionKey(v)] = u
             /\ lock'[VisitorKey(v)] = u <=> lock[VisitorKey(v)] = u
    BY <2>1, KeysOfRows, AnalyticsAssumption DEF TypeOK, AnalyticsAssumption
  <2>4. events' \subseteq events /\ responses' \subseteq responses
    BY <1>3
  <2>5. OwnerInv(u)'
    BY <2>1, <2>2, <2>3, <2>4 DEF OwnerInv
  <2>6. ASSUME NEW f \in Forms \ cleared'
        PROVE  OwnFormInv(u, f)'
    <3>1. OwnFormInv(u, f) /\ lock[FormKey(f)] = o
      BY <1>3, <1>7 DEF LockInv
    <3>2. pc[u] \in {"idle", "form"}
      BY <1>9, <3>1 DEF OwnFormInv
    <3>3. QED
      BY <2>1, <3>1, <3>2 DEF OwnFormInv, Stages
  <2>7. QED
    BY <2>5, <2>6
<1>10. QED
  BY <1>3, <1>5, <1>6, <1>8, <1>9 DEF LockInv

LEMMA CommitDeletionCounts ==
  ASSUME AnalyticsInv, NEW o \in Owners, CommitDeletion(o)
  PROVE  CountInv'
<1> USE DEF AnalyticsInv
<1>1. OwnerInv(o) /\ (\A f \in Forms \ cleared : OwnFormInv(o, f)) /\ pc[o] = "commit"
  BY DEF LockInv, CommitDeletion
<1>2. /\ events' = events \ gone[o] /\ responses' = responses \ erased[o]
      /\ total' = [g \in Pages |-> IF TotalKey(g) \in dropped[o] THEN 0 ELSE total[g]]
      /\ count' = [f \in Forms |-> IF lock[FormKey(f)] = o THEN 0 ELSE count[f]]
      /\ UNCHANGED cleared
  BY DEF CommitDeletion
<1>3. FormTotalsMatch'
  <2> SUFFICES ASSUME NEW f \in Forms \ cleared
               PROVE  total'[f] = Cardinality(EventsOf(f)')
    BY <1>2 DEF FormTotalsMatch, EventsOf
  <2>1. EventsOf(f) \subseteq gone[o] /\ (total[f] = 0 \/ TotalKey(f) \in dropped[o])
    BY <1>1 DEF OwnFormInv, Stages
  <2>2. f \in Pages
    BY AnalyticsAssumption DEF AnalyticsAssumption
  <2>3. EventsOf(f)' = {}
    BY <1>2, <2>1 DEF EventsOf
  <2>4. total'[f] = 0
    BY <1>2, <2>1, <2>2
  <2>5. QED
    BY <2>3, <2>4, NoneLeft
<1>4. ResponsesCounted'
  <2> SUFFICES ASSUME NEW f \in Forms
               PROVE  count'[f] = Cardinality(Responses(f)')
    BY DEF ResponsesCounted, Responses
  <2>1. count[f] = Cardinality(Responses(f))
    BY DEF CountInv, ResponsesCounted, Responses
  <2>2. CASE lock[FormKey(f)] = o
    <3>1. Responses(f)' = {}
      BY <1>1, <1>2, <2>2 DEF Responses, OwnerInv
    <3>2. count'[f] = 0
      BY <1>2, <2>2
    <3>3. QED
      BY <3>1, <3>2, NoneLeft
  <2>3. CASE lock[FormKey(f)] # o
    <3>1. Responses(f)' = Responses(f)
      BY <1>1, <1>2, <2>3 DEF Responses, OwnerInv
    <3>2. count'[f] = count[f]
      BY <1>2, <2>3
    <3>3. QED
      BY <2>1, <3>1, <3>2
  <2>4. QED
    BY <2>2, <2>3
<1>5. ResponseHasItsEvent'
  <2> SUFFICES ASSUME NEW e \in responses', PageOf[e] \notin cleared
               PROVE  FALSE
    BY <1>2 DEF ResponseHasItsEvent
  <2>1. e \in responses /\ e \notin erased[o] /\ PageOf[e] \in Forms \ cleared
    BY <1>2, AnalyticsAssumption DEF TypeOK, AnalyticsAssumption
  <2>2. lock[FormKey(PageOf[e])] = o
    BY <1>1, <2>1 DEF OwnFormInv
  <2>3. QED
    BY <1>1, <2>1, <2>2 DEF OwnerInv
<1>6. QED
  BY <1>3, <1>4, <1>5 DEF CountInv

-----------------------------------------------------------------------------
(* The invariant *)

\* A transaction that fails leaves nothing behind.
LEMMA AbortedLeaveNothing ==
  ASSUME AnalyticsInv, NEW t \in Txns, Abort(t)
  PROVE  AnalyticsInv'
<1> USE DEF AnalyticsInv
<1>1. UNCHANGED tables /\ UNCHANGED <<clears, cleared>>
  BY DEF Abort
<1>2. CASE t \in Requests
  <2>1. FinishRequest(t)
    BY <1>2 DEF Abort
  <2>2. Untouched(t) /\ RequestInv(t)'
    BY <1>2, <2>1, FinishRequestUntouched
  <2>3. TypeOK'
    BY <1>1, <1>2, <2>1, FinishRequestUntouched DEF TypeOK, tables, deletions
  <2>4. QED
    BY <1>1, <1>2, <2>2, <2>3, RequestStep, CountKept
<1>3. CASE t \notin Requests
  <2>1. t \in Owners /\ FinishOwner(t) /\ responses' \subseteq Submissions
    BY <1>1, <1>3 DEF Abort, Txns, TypeOK, tables
  <2>2. Untouched(t) /\ OwnerInv(t)' /\ \A f \in Forms : OwnFormInv(t, f)'
    BY <2>1, FinishOwnerUntouched
  <2>3. TypeOK'
    BY <1>1, <2>1, FinishOwnerUntouched DEF TypeOK, tables, visits
  <2>4. QED
    BY <1>1, <2>1, <2>2, <2>3, OwnerStep, CountKept
<1>4. QED
  BY <1>2, <1>3

LEMMA InitAnalytics == Init => AnalyticsInv
<1> SUFFICES ASSUME Init PROVE AnalyticsInv
  OBVIOUS
<1> USE DEF Init
<1>1. TypeOK
  BY AnalyticsAssumption DEF TypeOK, AnalyticsAssumption
<1>2. \A f \in Forms : FormKey(f) \in Keys /\ f \in Pages /\ lock[FormKey(f)] = None
  BY KeysOfRows, AnalyticsAssumption DEF AnalyticsAssumption
<1>3. \A t \in Txns : pc[t] = "idle" /\ t # None
  BY AnalyticsAssumption DEF AnalyticsAssumption
<1>4. ASSUME NEW q \in Requests
      PROVE  RequestInv(q)
  BY <1>3 DEF RequestInv, Txns
<1>5. ASSUME NEW o \in Owners
      PROVE  OwnerInv(o) /\ \A f \in Forms : OwnFormInv(o, f)
  <2>1. pc[o] = "idle" /\ o # None
    BY <1>3 DEF Txns
  <2>2. OwnerInv(o)
    BY <1>2, <2>1 DEF OwnerInv
  <2>3. \A f \in Forms : OwnFormInv(o, f)
    BY <2>1 DEF OwnFormInv, Stages
  <2>4. QED
    BY <2>2, <2>3
<1>6. LockInv
  BY <1>4, <1>5 DEF LockInv
<1>7. CountInv
  <2>1. \A f \in Forms : EventsOf(f) = {} /\ Responses(f) = {}
    BY DEF EventsOf, Responses
  <2>2. \A f \in Forms : total[f] = 0 /\ count[f] = 0
    BY <1>2
  <2>3. FormTotalsMatch /\ ResponsesCounted
    BY <2>1, <2>2, NoneLeft DEF FormTotalsMatch, ResponsesCounted, EventsOf, Responses
  <2>4. QED
    BY <2>3 DEF CountInv, ResponseHasItsEvent
<1>8. QED
  BY <1>1, <1>6, <1>7 DEF AnalyticsInv

LEMMA NextAnalytics == AnalyticsInv /\ [Next]_vars => AnalyticsInv'
<1> SUFFICES ASSUME AnalyticsInv, [Next]_vars
             PROVE  AnalyticsInv'
  OBVIOUS
<1>1. ASSUME NEW q \in Requests, CommitEvent(q)
      PROVE  AnalyticsInv'
  BY <1>1, CommitEventLocks, CommitEventCounts DEF AnalyticsInv
<1>2. ASSUME NEW q \in Requests, Ingest(q)
      PROVE  AnalyticsInv'
  BY <1>1, <1>2, RequestMoves DEF Ingest
<1>3. ASSUME NEW o \in Owners, CommitDeletion(o)
      PROVE  AnalyticsInv'
  BY <1>3, CommitDeletionLocks, CommitDeletionCounts DEF AnalyticsInv
<1>4. ASSUME NEW o \in Owners, Clear(o)
      PROVE  AnalyticsInv'
  BY <1>3, <1>4, OwnerMoves DEF Clear
<1>5. ASSUME NEW t \in Txns, Fail(t) \/ DetectDeadlock(t)
      PROVE  AnalyticsInv'
  BY <1>5, AbortedLeaveNothing DEF Fail, DetectDeadlock
<1>6. CASE UNCHANGED vars
  BY <1>6 DEF vars, tables, visits, deletions, AnalyticsInv, TypeOK, LockInv,
     RequestInv, OwnerInv, OwnFormInv, EventsOf, CountInv, FormTotalsMatch,
     ResponsesCounted, ResponseHasItsEvent
<1>7. CASE Next
  BY <1>2, <1>4, <1>5, <1>7, RequestMoves, OwnerBegins DEF Next
<1>8. QED
  BY <1>6, <1>7

-----------------------------------------------------------------------------
(* What follows *)

\* Whatever visitors, the business and failures do, requests hold the rows they
\* rely on, and totals and counts agree with the rows they summarise.
THEOREM AnalyticsInvariant == Spec => []AnalyticsInv
BY InitAnalytics, NextAnalytics, PTL DEF Spec

\* Every variable has its type; events have their sessions, and sessions their
\* visitors, however rows go.
THEOREM TypeCorrect == Spec => []TypeOK
<1>1. AnalyticsInv => TypeOK
  BY DEF AnalyticsInv
<1>2. QED
  BY <1>1, AnalyticsInvariant, PTL

\* A form's totals count its events, as long as only its own deletions touch
\* them (ingest's lock on the form).
THEOREM TotalsMatch == Spec => []FormTotalsMatch
<1>1. AnalyticsInv => FormTotalsMatch
  BY DEF AnalyticsInv, CountInv
<1>2. QED
  BY <1>1, AnalyticsInvariant, PTL

\* submission_count is the number of stored responses, whatever is cleared.
THEOREM ResponsesAreCounted == Spec => []ResponsesCounted
<1>1. AnalyticsInv => ResponsesCounted
  BY DEF AnalyticsInv, CountInv
<1>2. QED
  BY <1>1, AnalyticsInvariant, PTL

\* An accepted response keeps its event, until events are deleted without the
\* form's lock.
THEOREM ResponsesHaveTheirEvents == Spec => []ResponseHasItsEvent
<1>1. AnalyticsInv => ResponseHasItsEvent
  BY DEF AnalyticsInv, CountInv
<1>2. QED
  BY <1>1, AnalyticsInvariant, PTL

-----------------------------------------------------------------------------
(* The queue in the browser the events come from: for any events, tabs,    *)
(* limits and bounds (AnalyticsQueue.tla).                                 *)

(* Filtering a queue *)

Left(q, some) == {i \in DOMAIN q : q[i] \notin some}
UpTo(q, some, i) == Left(q, some) \cap 1 .. i
Rank(q, some, i) == Cardinality(UpTo(q, some, i))

LEMMA LeftFinite ==
  ASSUME NEW q \in Seq(ClientEvents), NEW some
  PROVE  /\ Left(q, some) \subseteq 1 .. Len(q)
         /\ IsFiniteSet(Left(q, some))
         /\ Cardinality(Left(q, some)) \in Nat
         /\ Cardinality(Left(q, some)) <= Len(q)
<1>1. Len(q) \in Nat /\ DOMAIN q = 1 .. Len(q)
  BY LenProperties
<1>2. IsFiniteSet(1 .. Len(q)) /\ Cardinality(1 .. Len(q)) = Len(q)
  BY <1>1, FS_Interval
<1>3. Left(q, some) \subseteq 1 .. Len(q)
  BY <1>1 DEF Left
<1> QED BY <1>2, <1>3, FS_Subset, FS_CardinalityType

LEMMA RankIn ==
  ASSUME NEW q \in Seq(ClientEvents), NEW some, NEW i \in Left(q, some)
  PROVE  Rank(q, some, i) \in 1 .. Cardinality(Left(q, some))
<1>1. UpTo(q, some, i) \subseteq Left(q, some)
  BY DEF UpTo
<1>2. /\ IsFiniteSet(UpTo(q, some, i))
      /\ Rank(q, some, i) <= Cardinality(Left(q, some))
      /\ Rank(q, some, i) \in Nat
  BY <1>1, LeftFinite, FS_Subset, FS_CardinalityType DEF Rank
<1>3. i \in UpTo(q, some, i)
  BY LeftFinite DEF UpTo
<1>4. Rank(q, some, i) # 0
  BY <1>2, <1>3, FS_EmptySet DEF Rank
<1> QED BY <1>2, <1>4, LeftFinite

LEMMA RankGrows ==
  ASSUME NEW q \in Seq(ClientEvents), NEW some, NEW i \in Left(q, some),
         NEW k \in Left(q, some), i < k
  PROVE  Rank(q, some, i) < Rank(q, some, k)
<1>1. i \in Nat \ {0} /\ k \in Nat \ {0} /\ Left(q, some) \subseteq Int
  BY LeftFinite
<1>2. UpTo(q, some, i) \subseteq UpTo(q, some, k)
  BY <1>1 DEF UpTo
<1>3. k \in UpTo(q, some, k) /\ k \notin UpTo(q, some, i)
  BY <1>1 DEF UpTo
<1>4. UpTo(q, some, k) \subseteq Left(q, some)
  BY DEF UpTo
<1>5. IsFiniteSet(UpTo(q, some, k))
  BY <1>4, LeftFinite, FS_Subset
<1>6. /\ Rank(q, some, i) <= Rank(q, some, k)
      /\ Rank(q, some, i) # Rank(q, some, k)
  BY <1>2, <1>3, <1>5, FS_Subset DEF Rank
<1> QED BY <1>6, RankIn, LeftFinite

LEMMA RankOnto ==
  ASSUME NEW q \in Seq(ClientEvents), NEW some,
         NEW n \in 1 .. Cardinality(Left(q, some))
  PROVE  \E i \in Left(q, some) : Rank(q, some, i) = n
<1> DEFINE L == Left(q, some)
           c == Cardinality(L)
           f == [i \in L |-> Rank(q, some, i)]
<1>1. c \in Nat /\ IsFiniteSet(1 .. c) /\ Cardinality(1 .. c) = c
  BY LeftFinite, FS_Interval
<1>2. \A i, k \in L : f[i] = f[k] => i = k
  <2>1. ASSUME NEW i \in L, NEW k \in L, f[i] = f[k]
        PROVE  i = k
    <3>1. /\ i \in Int /\ k \in Int
          /\ Rank(q, some, i) \in Int /\ Rank(q, some, k) \in Int
      BY <1>1, LeftFinite, RankIn
    <3>2. ~(i < k) /\ ~(k < i)
      BY <2>1, <3>1, RankGrows
    <3> QED BY <3>1, <3>2
  <2> QED BY <2>1
<1>3. f \in [L -> 1 .. c]
  BY RankIn
<1>4. f \in Injection(L, 1 .. c)
  BY <1>2, <1>3 DEF Injection, IsInjective
<1> HIDE DEF f
<1>5. f \in Surjection(L, 1 .. c)
  BY <1>1, <1>4, LeftFinite, FS_Injection
<1>6. \E i \in L : f[i] = n
  BY <1>5 DEF Surjection
<1> QED BY <1>6 DEF f

\* The entry of rank n is the n-th of those that are left.
LEMMA WithoutAt ==
  ASSUME NEW q \in Seq(ClientEvents), NEW some
  PROVE  /\ DOMAIN Without(q, some) = 1 .. Cardinality(Left(q, some))
         /\ \A i \in Left(q, some) : Without(q, some)[Rank(q, some, i)] = q[i]
<1> DEFINE L == Left(q, some)
           nth(n) == CHOOSE i \in L : Rank(q, some, i) = n
<1>1. Without(q, some) = [n \in 1 .. Cardinality(L) |-> q[nth(n)]]
  BY DEF Without, Left, Rank, UpTo
<1>2. ASSUME NEW i \in L
      PROVE  nth(Rank(q, some, i)) = i
  <2>1. /\ nth(Rank(q, some, i)) \in L
        /\ Rank(q, some, nth(Rank(q, some, i))) = Rank(q, some, i)
    BY <1>2
  <2>2. PICK k \in L : /\ k = nth(Rank(q, some, i))
                       /\ Rank(q, some, k) = Rank(q, some, i)
    BY <2>1
  <2>3. /\ i \in Int /\ k \in Int
        /\ Rank(q, some, i) \in Int /\ Rank(q, some, k) \in Int
    BY LeftFinite, RankIn
  <2>4. ~(i < k) /\ ~(k < i)
    BY <2>2, <2>3, RankGrows
  <2> QED BY <2>2, <2>3, <2>4
<1>3. \A i \in L : Rank(q, some, i) \in 1 .. Cardinality(L)
  BY RankIn
<1> HIDE DEF nth
<1> QED BY <1>1, <1>2, <1>3

LEMMA WithoutProperties ==
  ASSUME NEW q \in Seq(ClientEvents), NEW some
  PROVE  /\ Without(q, some) \in Seq(ClientEvents)
         /\ Len(Without(q, some)) <= Len(q)
         /\ ToSet(Without(q, some)) = ToSet(q) \ some
         /\ IsInjective(q) => IsInjective(Without(q, some))
<1> DEFINE L == Left(q, some)
           W == Without(q, some)
<1>1. /\ DOMAIN W = 1 .. Cardinality(L)
      /\ \A i \in L : W[Rank(q, some, i)] = q[i]
  BY WithoutAt
<1>2. \A n \in DOMAIN W : \E i \in L : Rank(q, some, i) = n /\ W[n] = q[i]
  BY <1>1, RankOnto
<1>3. \A i \in L : i \in DOMAIN q /\ q[i] \in ClientEvents /\ q[i] \notin some
  BY LenProperties DEF Left
<1>4. Cardinality(L) \in Nat /\ Cardinality(L) <= Len(q)
  BY LeftFinite
<1>5. W = [n \in 1 .. Cardinality(L) |-> W[n]]
  BY <1>1 DEF Without
<1>6. W \in [1 .. Cardinality(L) -> ClientEvents]
  <2>1. \A n \in 1 .. Cardinality(L) : W[n] \in ClientEvents
    BY <1>1, <1>2, <1>3
  <2> HIDE DEF W
  <2> QED BY <1>5, <2>1
<1>7. W \in Seq(ClientEvents) /\ Len(W) = Cardinality(L)
  <2> HIDE DEF W
  <2> QED BY <1>4, <1>6
<1>8. ToSet(W) = ToSet(q) \ some
  <2>1. ASSUME NEW e \in ToSet(W)
        PROVE  e \in ToSet(q) \ some
    BY <1>2, <1>3, <2>1 DEF ToSet
  <2>2. ASSUME NEW e \in ToSet(q), e \notin some
        PROVE  e \in ToSet(W)
    <3>1. PICK i \in DOMAIN q : q[i] = e
      BY DEF ToSet
    <3>2. i \in L
      BY <2>2, <3>1 DEF Left
    <3> QED BY <1>1, <3>1, <3>2, RankIn DEF ToSet
  <2> QED BY <2>1, <2>2
<1>9. ASSUME IsInjective(q)
      PROVE  IsInjective(W)
  <2>1. ASSUME NEW m \in DOMAIN W, NEW n \in DOMAIN W, W[m] = W[n]
        PROVE  m = n
    <3>1. PICK i \in L : Rank(q, some, i) = m /\ W[m] = q[i]
      BY <1>2
    <3>2. PICK k \in L : Rank(q, some, k) = n /\ W[n] = q[k]
      BY <1>2
    <3>3. i = k
      BY <1>3, <1>9, <2>1, <3>1, <3>2 DEF IsInjective
    <3> QED BY <3>1, <3>2, <3>3
  <2> QED BY <2>1 DEF IsInjective
<1> QED BY <1>4, <1>7, <1>8, <1>9

-----------------------------------------------------------------------------
(* Reading, appending, cutting and batching *)

LEMMA ListsAre ==
  ASSUME NEW max \in Nat, NEW q
  PROVE  q \in Lists(max) <=> q \in Seq(ClientEvents) /\ Len(q) <= max
<1>1. ASSUME q \in Lists(max)
      PROVE  q \in Seq(ClientEvents) /\ Len(q) <= max
  <2>1. PICK n \in 0 .. max : q \in [1 .. n -> ClientEvents]
    BY <1>1 DEF Lists
  <2> QED BY <2>1
<1>2. ASSUME q \in Seq(ClientEvents), Len(q) <= max
      PROVE  q \in Lists(max)
  <2>1. Len(q) \in 0 .. max /\ q \in [1 .. Len(q) -> ClientEvents]
    BY <1>2, LenProperties
  <2> QED BY <2>1 DEF Lists
<1> QED BY <1>1, <1>2

LEMMA EntriesAre ==
  ASSUME NEW q \in Seq(ClientEvents)
  PROVE  /\ ToSet(q) \subseteq ClientEvents
         /\ \A i \in 1 .. Len(q) : q[i] \in ToSet(q)
         /\ \A e \in ToSet(q) : \E i \in 1 .. Len(q) : q[i] = e
BY LenProperties DEF ToSet

LEMMA AppendEntries ==
  ASSUME NEW q \in Seq(ClientEvents), NEW e \in ClientEvents, IsInjective(q), e \notin ToSet(q)
  PROVE  /\ Append(q, e) \in Seq(ClientEvents)
         /\ ToSet(Append(q, e)) = ToSet(q) \cup {e}
         /\ IsInjective(Append(q, e))
<1> DEFINE a == Append(q, e)
<1>1. /\ a \in Seq(ClientEvents) /\ Len(a) = Len(q) + 1 /\ Len(q) \in Nat
      /\ \A i \in 1 .. Len(q) : a[i] = q[i]
      /\ a[Len(q) + 1] = e
  BY AppendProperties, LenProperties
<1> HIDE DEF a
<1>2. DOMAIN a = 1 .. Len(q) + 1 /\ DOMAIN q = 1 .. Len(q)
  BY <1>1, LenProperties
<1>3. ToSet(a) = ToSet(q) \cup {e}
  <2>1. ASSUME NEW x \in ToSet(a)
        PROVE  x \in ToSet(q) \cup {e}
    <3>1. PICK i \in 1 .. Len(q) + 1 : a[i] = x
      BY <1>2 DEF ToSet
    <3>2. i \in 1 .. Len(q) \/ i = Len(q) + 1
      BY <1>1
    <3> QED BY <1>1, <1>2, <3>1, <3>2 DEF ToSet
  <2>2. ASSUME NEW x \in ToSet(q)
        PROVE  x \in ToSet(a)
    <3>1. PICK i \in 1 .. Len(q) : q[i] = x
      BY <1>2 DEF ToSet
    <3>2. i \in 1 .. Len(q) + 1 /\ a[i] = x
      BY <1>1, <3>1
    <3> QED BY <1>2, <3>2 DEF ToSet
  <2>3. e \in ToSet(a)
    <3>1. Len(q) + 1 \in DOMAIN a
      BY <1>1, <1>2
    <3> QED BY <1>1, <3>1 DEF ToSet
  <2> QED BY <2>1, <2>2, <2>3
<1>4. IsInjective(a)
  <2>1. ASSUME NEW i \in 1 .. Len(q) + 1, NEW k \in 1 .. Len(q) + 1, a[i] = a[k]
        PROVE  i = k
    <3>1. CASE i \in 1 .. Len(q) /\ k \in 1 .. Len(q)
      BY <1>1, <1>2, <2>1, <3>1 DEF IsInjective
    <3>2. CASE i = Len(q) + 1 /\ k \in 1 .. Len(q)
      BY <1>1, <2>1, <3>2, EntriesAre
    <3>3. CASE k = Len(q) + 1 /\ i \in 1 .. Len(q)
      BY <1>1, <2>1, <3>3, EntriesAre
    <3>4. CASE i = Len(q) + 1 /\ k = Len(q) + 1
      BY <3>4
    <3> QED BY <1>1, <3>1, <3>2, <3>3, <3>4
  <2> QED BY <1>2, <2>1 DEF IsInjective
<1> QED BY <1>1, <1>3, <1>4 DEF a

LEMMA ConcatEntries ==
  ASSUME NEW q \in Seq(ClientEvents), NEW r \in Seq(ClientEvents),
         IsInjective(q), IsInjective(r), ToSet(q) \cap ToSet(r) = {}
  PROVE  /\ q \o r \in Seq(ClientEvents)
         /\ ToSet(q \o r) = ToSet(q) \cup ToSet(r)
         /\ IsInjective(q \o r)
<1> DEFINE a == q \o r
<1>1. /\ a \in Seq(ClientEvents) /\ Len(a) = Len(q) + Len(r)
      /\ Len(q) \in Nat /\ Len(r) \in Nat
      /\ \A i \in 1 .. Len(q) + Len(r) :
           a[i] = IF i <= Len(q) THEN q[i] ELSE r[i - Len(q)]
  BY ConcatProperties, LenProperties
<1> HIDE DEF a
<1>2. /\ DOMAIN a = 1 .. Len(q) + Len(r)
      /\ DOMAIN q = 1 .. Len(q) /\ DOMAIN r = 1 .. Len(r)
  BY <1>1, LenProperties
<1>3. \A i \in DOMAIN a : \/ i \in DOMAIN q /\ a[i] = q[i]
                          \/ i - Len(q) \in DOMAIN r /\ a[i] = r[i - Len(q)]
  BY <1>1, <1>2
<1>4. /\ \A i \in DOMAIN q : i \in DOMAIN a /\ a[i] = q[i]
      /\ \A i \in DOMAIN r : Len(q) + i \in DOMAIN a /\ a[Len(q) + i] = r[i]
  BY <1>1, <1>2
<1>5. ToSet(a) = ToSet(q) \cup ToSet(r)
  <2>1. ToSet(a) \subseteq ToSet(q) \cup ToSet(r)
    BY <1>3 DEF ToSet
  <2>2. ToSet(q) \subseteq ToSet(a) /\ ToSet(r) \subseteq ToSet(a)
    BY <1>4 DEF ToSet
  <2> QED BY <2>1, <2>2
<1>6. IsInjective(a)
  <2>1. ASSUME NEW i \in DOMAIN a, NEW k \in DOMAIN a, a[i] = a[k]
        PROVE  i = k
    <3>1. CASE i \in DOMAIN q /\ a[i] = q[i] /\ k \in DOMAIN q /\ a[k] = q[k]
      BY <2>1, <3>1 DEF IsInjective
    <3>2. CASE /\ i - Len(q) \in DOMAIN r /\ a[i] = r[i - Len(q)]
               /\ k - Len(q) \in DOMAIN r /\ a[k] = r[k - Len(q)]
      <4>1. i - Len(q) = k - Len(q)
        BY <2>1, <3>2 DEF IsInjective
      <4> QED BY <1>1, <1>2, <4>1
    <3>3. ~(\E m \in DOMAIN q, n \in DOMAIN r : q[m] = r[n])
      BY DEF ToSet
    <3> QED BY <1>3, <2>1, <3>1, <3>2, <3>3
  <2> QED BY <2>1 DEF IsInjective
<1> QED BY <1>1, <1>5, <1>6 DEF a

\* A part of a queue.
LEMMA PartEntries ==
  ASSUME NEW q \in Seq(ClientEvents), NEW m \in Int, NEW n \in Int, 1 <= m, n <= Len(q)
  PROVE  /\ SubSeq(q, m, n) \in Seq(ClientEvents)
         /\ Len(SubSeq(q, m, n)) = IF m <= n THEN n - m + 1 ELSE 0
         /\ ToSet(SubSeq(q, m, n)) \subseteq ToSet(q)
         /\ IsInjective(q) => IsInjective(SubSeq(q, m, n))
<1> DEFINE s == SubSeq(q, m, n)
<1>1. Len(q) \in Nat /\ DOMAIN q = 1 .. Len(q) /\ \A i \in 1 .. Len(q) : q[i] \in ClientEvents
  BY LenProperties
<1>2. \A i \in m .. n : q[i] \in ClientEvents
  BY <1>1
<1>3. /\ s \in Seq(ClientEvents) /\ Len(s) = IF m <= n THEN n - m + 1 ELSE 0
      /\ \A i \in 1 .. n - m + 1 : s[i] = q[m + i - 1]
  BY <1>2, SubSeqProperties
<1> HIDE DEF s
<1>4. DOMAIN s = 1 .. n - m + 1
  <2>1. DOMAIN s = 1 .. Len(s)
    BY <1>3, LenProperties
  <2> QED BY <1>3, <2>1
<1>5. \A i \in DOMAIN s : m + i - 1 \in DOMAIN q /\ s[i] = q[m + i - 1]
  BY <1>1, <1>3, <1>4
<1>6. ToSet(s) \subseteq ToSet(q)
  BY <1>5 DEF ToSet
<1>7. ASSUME IsInjective(q), NEW i \in DOMAIN s, NEW k \in DOMAIN s, s[i] = s[k]
      PROVE  i = k
  <2>1. m + i - 1 = m + k - 1
    BY <1>5, <1>7 DEF IsInjective
  <2> QED BY <1>4, <2>1
<1> QED BY <1>3, <1>6, <1>7 DEF s, IsInjective

LEMMA LimitedEntries ==
  ASSUME QueueAssumption, NEW q \in Seq(ClientEvents)
  PROVE  /\ Limited(q) \in Seq(ClientEvents)
         /\ Len(Limited(q)) <= MaxQueue
         /\ ToSet(Limited(q)) \subseteq ToSet(q)
         /\ IsInjective(q) => IsInjective(Limited(q))
<1>1. Len(q) \in Nat /\ MaxQueue \in Nat \ {0}
  BY LenProperties DEF QueueAssumption
<1>2. CASE Len(q) > MaxQueue
  <2>1. /\ Len(q) - MaxQueue + 1 \in Int /\ 1 <= Len(q) - MaxQueue + 1
        /\ Len(q) - MaxQueue + 1 <= Len(q)
        /\ Len(q) - (Len(q) - MaxQueue + 1) + 1 = MaxQueue
    BY <1>1, <1>2
  <2>2. Limited(q) = SubSeq(q, Len(q) - MaxQueue + 1, Len(q))
    BY <1>2 DEF Limited, Newest
  <2> QED BY <1>1, <2>1, <2>2, PartEntries
<1>3. CASE ~(Len(q) > MaxQueue)
  BY <1>1, <1>3 DEF Limited
<1> QED BY <1>2, <1>3

LEMMA BatchEntries ==
  ASSUME QueueAssumption, NEW q \in Seq(ClientEvents)
  PROVE  /\ Batch(q) \in Seq(ClientEvents)
         /\ Len(Batch(q)) <= BatchSize
         /\ ToSet(Batch(q)) \subseteq ToSet(q)
         /\ q # <<>> => Batch(q) # <<>>
<1> DEFINE n == IF Len(q) < BatchSize THEN Len(q) ELSE BatchSize
<1>1. Len(q) \in Nat /\ BatchSize \in Nat \ {0} /\ (q # <<>> => Len(q) # 0)
  BY LenProperties, EmptySeq DEF QueueAssumption
<1>2. n \in Nat /\ n <= Len(q) /\ n <= BatchSize /\ (q # <<>> => 1 <= n)
  BY <1>1
<1>3. Batch(q) = SubSeq(q, 1, n)
  BY DEF Batch
<1> HIDE DEF n
<1>4. /\ Batch(q) \in Seq(ClientEvents) /\ ToSet(Batch(q)) \subseteq ToSet(q)
      /\ Len(Batch(q)) = IF 1 <= n THEN n - 1 + 1 ELSE 0
  BY <1>1, <1>2, <1>3, PartEntries
<1>5. q # <<>> => Len(Batch(q)) # 0
  BY <1>2, <1>4
<1> QED BY <1>1, <1>2, <1>4, <1>5, EmptySeq

LEMMA BeaconEntries ==
  ASSUME QueueAssumption, NEW q \in Seq(ClientEvents), NEW some \in Beacons(q)
  PROVE  some \subseteq ToSet(q)
<1>1. Len(q) \in Nat /\ BatchSize \in Nat
  BY LenProperties DEF QueueAssumption
<1>2. PICK n \in {k \in {i * BatchSize : i \in 0 .. 4} : k <= Len(q)}
                 \cup (IF Len(q) <= 4 * BatchSize THEN {Len(q)} ELSE {}) :
             some = ToSet(SubSeq(q, 1, n))
  BY DEF Beacons
<1>3. n <= Len(q)
  BY <1>1, <1>2
<1>4. n \in Int
  <2>1. ASSUME NEW i \in 0 .. 4
        PROVE  i * BatchSize \in Int
    BY <1>1, <2>1
  <2> QED BY <1>1, <1>2, <2>1
<1> QED BY <1>2, <1>3, <1>4, PartEntries

-----------------------------------------------------------------------------
(* Types *)

QueuesTyped ==
  /\ usable \in BOOLEAN
  /\ stored \in Lists(MaxQueue) /\ IsInjective(stored)
  /\ memory \in [Tabs -> Lists(MaxQueue)] /\ \A t \in Tabs : IsInjective(memory[t])

FlightTyped ==
  /\ sent \in [Tabs -> Lists(BatchSize)]
  /\ reply \in [Tabs -> {"none", "waiting", "answered", "failed"}]
  /\ \A t \in Tabs : reply[t] = "none" <=> sent[t] = <<>>

RestTyped ==
  /\ open \subseteq Tabs
  /\ carried \subseteq created /\ created \subseteq ClientEvents
  /\ aged \subseteq created /\ kept \subseteq created \ Hopeless
  /\ faults \in 0 .. MaxFaults /\ hidings \in 0 .. MaxHidings
  /\ excused \subseteq created

LEMMA TypeParts == QueueTypeOK <=> QueuesTyped /\ FlightTyped /\ RestTyped
BY DEF QueueTypeOK, QueuesTyped, FlightTyped, RestTyped

LEMMA EmptyList ==
  ASSUME NEW max \in Nat
  PROVE  <<>> \in Lists(max) /\ IsInjective(<<>>) /\ ToSet(<<>>) = {}
<1>1. <<>> \in Seq(ClientEvents) /\ Len(<<>>) = 0 /\ DOMAIN <<>> = {}
  BY EmptySeq
<1>2. <<>> \in Lists(max)
  <2>1. 0 \in 0 .. max
    OBVIOUS
  <2>2. <<>> \in [1 .. 0 -> ClientEvents]
    OBVIOUS
  <2> QED BY <2>1, <2>2 DEF Lists
<1>3. \A q : DOMAIN q = {} => IsInjective(q) /\ ToSet(q) = {}
  BY DEF IsInjective, ToSet
<1> QED BY <1>1, <1>2, <1>3

\* What a tab reads: each event once, from localStorage or from its memory.
LEMMA QueueEntries ==
  ASSUME QueueAssumption, QueueTypeOK, NEW t \in Tabs
  PROVE  /\ Queue(t) \in Seq(ClientEvents)
         /\ IsInjective(Queue(t))
         /\ ToSet(Queue(t)) =
              (IF usable THEN ToSet(stored) \cup ToSet(memory[t])
               ELSE ToSet(memory[t])) \ aged
<1> DEFINE shared == Without(stored, aged)
           own == Without(memory[t], aged \cup ToSet(stored))
<1>1. /\ stored \in Seq(ClientEvents) /\ memory[t] \in Seq(ClientEvents)
      /\ IsInjective(stored) /\ IsInjective(memory[t])
  BY ListsAre DEF QueueTypeOK, QueueAssumption
<1>2. /\ shared \in Seq(ClientEvents) /\ IsInjective(shared)
      /\ ToSet(shared) = ToSet(stored) \ aged
  BY <1>1, WithoutProperties
<1>3. /\ own \in Seq(ClientEvents) /\ IsInjective(own)
      /\ ToSet(own) = ToSet(memory[t]) \ (aged \cup ToSet(stored))
  BY <1>1, WithoutProperties
<1>4. CASE usable
  <2>1. Queue(t) = shared \o own
    BY <1>4 DEF Queue
  <2> HIDE DEF shared, own
  <2>2. ToSet(shared) \cap ToSet(own) = {}
    BY <1>2, <1>3
  <2> QED BY <1>2, <1>3, <1>4, <2>1, <2>2, ConcatEntries
<1>5. CASE ~usable
  <2>1. Queue(t) = Without(memory[t], aged)
    BY <1>5 DEF Queue
  <2> QED BY <1>1, <1>5, <2>1, WithoutProperties
<1> QED BY <1>4, <1>5

LEMMA QueueCreated ==
  ASSUME QueueAssumption, QueueTypeOK, OnlyCreated, NEW t \in Tabs
  PROVE  ToSet(Queue(t)) \subseteq created
BY QueueEntries DEF OnlyCreated, Queued

LEMMA LimitedTyped ==
  ASSUME QueueAssumption, NEW q \in Seq(ClientEvents), IsInjective(q)
  PROVE  Limited(q) \in Lists(MaxQueue) /\ IsInjective(Limited(q))
BY LimitedEntries, ListsAre DEF QueueAssumption

LEMMA WriteTyped ==
  ASSUME QueueAssumption, QueueTypeOK, NEW t \in Tabs, NEW q \in Seq(ClientEvents),
         IsInjective(q), WriteQueue(t, q)
  PROVE  QueuesTyped'
<1>1. /\ memory' = [memory EXCEPT ![t] = Limited(q)]
      /\ stored' = Limited(q) \/ stored' = stored
      /\ usable' = usable
  BY DEF WriteQueue
<1> QED BY <1>1, LimitedTyped DEF QueueTypeOK, QueuesTyped

LEMMA ReadTyped ==
  ASSUME QueueAssumption, QueueTypeOK, NEW t \in Tabs, ReadQueue(t)
  PROVE  QueuesTyped'
<1>1. /\ memory' = [memory EXCEPT ![t] = Limited(Queue(t))]
      /\ stored' = Limited(Queue(t)) \/ stored' = stored
      /\ usable' = usable
  BY DEF ReadQueue
<1>2. Limited(Queue(t)) \in Lists(MaxQueue) /\ IsInjective(Limited(Queue(t)))
  BY QueueEntries, LimitedTyped
<1> QED BY <1>1, <1>2 DEF QueueTypeOK, QueuesTyped

\* A batch is made of what is queued.
LEMMA DeliverTyped ==
  ASSUME QueueAssumption, QueueTypeOK, NEW t \in Tabs, NEW q \in Seq(ClientEvents), Deliver(t, q)
  PROVE  /\ FlightTyped'
         /\ \A x \in Tabs : ToSet(sent'[x]) \subseteq ToSet(sent[x]) \cup ToSet(q)
<1>1. CASE UNCHANGED flight
  BY <1>1 DEF flight, QueueTypeOK, FlightTyped
<1>2. CASE ~UNCHANGED flight
  <2>1. /\ q # <<>>
        /\ sent' = [sent EXCEPT ![t] = Batch(q)]
        /\ reply' = [reply EXCEPT ![t] = "waiting"]
    BY <1>2 DEF Deliver
  <2>2. /\ Batch(q) \in Lists(BatchSize) /\ Batch(q) # <<>>
        /\ ToSet(Batch(q)) \subseteq ToSet(q)
    BY <2>1, BatchEntries, ListsAre DEF QueueAssumption
  <2> QED BY <2>1, <2>2 DEF QueueTypeOK, FlightTyped
<1> QED BY <1>1, <1>2

LEMMA LandedTyped ==
  ASSUME QueueAssumption, QueueTypeOK, NEW t \in Tabs, Landed(t)
  PROVE  /\ FlightTyped'
         /\ \A x \in Tabs : ToSet(sent'[x]) \subseteq ToSet(sent[x])
<1>1. <<>> \in Lists(BatchSize) /\ ToSet(<<>>) = {}
  BY EmptyList DEF QueueAssumption
<1> QED BY <1>1 DEF Landed, QueueTypeOK, FlightTyped

-----------------------------------------------------------------------------
(* What rewriting the queue leaves of it *)

\* A tab writes what it read, without what is excused.
LEMMA WriteKeeps ==
  ASSUME QueueAssumption, QueueTypeOK, QueueInv, NEW t \in Tabs, NEW q \in Seq(ClientEvents),
         WriteQueue(t, q), NEW answered,
         ToSet(Queue(t)) \subseteq ToSet(q) \cup answered, ToSet(q) \subseteq created',
         created \subseteq created', created' \subseteq created \cup ToSet(q),
         aged \subseteq aged', excused \cup answered \cup CutOff(q) \subseteq excused'
  PROVE  Queued' \subseteq created' /\ SharedInv' /\ KeptUntilAnswered'
<1> DEFINE L == ToSet(Limited(q))
<1>1. L \subseteq ToSet(q) /\ ToSet(q) \subseteq L \cup excused'
  BY LimitedEntries DEF CutOff
<1>2. /\ ToSet(memory'[t]) = L
      /\ \A x \in Tabs \ {t} : memory'[x] = memory[x]
      /\ usable => ToSet(stored') = L
      /\ ~usable => stored' = stored
      /\ usable' = usable
  BY DEF WriteQueue, QueueTypeOK
<1>3. /\ usable => ToSet(stored) \subseteq L \cup aged' \cup excused'
      /\ ToSet(memory[t]) \subseteq L \cup aged' \cup excused'
  BY <1>1, QueueEntries
<1> HIDE DEF L
<1>4. SharedInv'
  BY <1>2, <1>3 DEF SharedInv, QueueInv
<1>5. Queued' \subseteq created'
  <2>1. ToSet(stored') \subseteq created'
    BY <1>1, <1>2 DEF QueueInv, OnlyCreated, Queued, QueueTypeOK
  <2>2. \A x \in Tabs : ToSet(memory'[x]) \subseteq created'
    BY <1>1, <1>2 DEF QueueInv, OnlyCreated, Queued
  <2> QED BY <2>1, <2>2 DEF Queued
<1>6. KeptUntilAnswered'
  <2>1. ASSUME NEW e \in created'
        PROVE  e \in Queued' \cup aged' \cup excused'
    <3>1. L \subseteq Queued'
      BY <1>2 DEF Queued
    <3>2. CASE e \in ToSet(q)
      BY <1>1, <3>1, <3>2
    <3>3. CASE e \in created
      <4>1. \/ e \in ToSet(stored) \/ e \in aged \/ e \in excused
            \/ \E x \in Tabs : e \in ToSet(memory[x])
        BY <3>3 DEF QueueInv, KeptUntilAnswered, Queued
      <4>2. CASE e \in ToSet(stored)
        BY <1>2, <1>3, <3>1, <4>2 DEF Queued, QueueTypeOK
      <4>3. CASE \E x \in Tabs : e \in ToSet(memory[x])
        BY <1>2, <1>3, <3>1, <4>3 DEF Queued
      <4> QED BY <4>1, <4>2, <4>3
    <3> QED BY <3>2, <3>3
  <2> QED BY <2>1 DEF KeptUntilAnswered
<1> QED BY <1>4, <1>5, <1>6

\* A tab reads, and leaves what it read in localStorage unless the lengths
\* are the same: then what only the tab had is excused or too old.
LEMMA ReadKeeps ==
  ASSUME QueueAssumption, QueueTypeOK, QueueInv, NEW t \in Tabs, ReadQueue(t),
         created' = created, aged' = aged,
         excused \cup CutOff(Queue(t)) \subseteq excused'
  PROVE  Queued' \subseteq created' /\ SharedInv' /\ KeptUntilAnswered'
<1> DEFINE q == Queue(t)
           L == ToSet(Limited(q))
<1>1. /\ q \in Seq(ClientEvents)
      /\ ToSet(q) = (IF usable THEN ToSet(stored) \cup ToSet(memory[t])
                     ELSE ToSet(memory[t])) \ aged
  BY QueueEntries
<1>2. CASE ~(usable /\ Len(q) = Len(stored))
  <2>1. WriteQueue(t, q)
    BY <1>2 DEF ReadQueue, WriteQueue
  <2>2. ToSet(q) \subseteq created
    BY QueueCreated DEF QueueInv
  <2> HIDE DEF q
  <2>3. ToSet(q) \subseteq ToSet(q) \cup {}
    OBVIOUS
  <2> QED BY <1>1, <2>1, <2>2, <2>3, WriteKeeps DEF q
<1>3. CASE usable /\ Len(q) = Len(stored)
  <2>1. /\ L \subseteq ToSet(q)
        /\ usable' = usable /\ stored' = stored
        /\ ToSet(memory'[t]) = L
        /\ \A x \in Tabs \ {t} : memory'[x] = memory[x]
    BY <1>1, <1>3, LimitedEntries DEF ReadQueue, QueueTypeOK
  <2>2. ToSet(q) \subseteq ToSet(stored) \cup aged \cup excused
    BY <1>1, <1>3 DEF QueueInv, SharedInv
  <2>3. ToSet(q) \subseteq created
    BY QueueCreated DEF QueueInv
  <2> HIDE DEF q, L
  <2>4. SharedInv'
    BY <1>3, <2>1, <2>2 DEF QueueInv, SharedInv
  <2>5. Queued' \subseteq created'
    <3>1. ToSet(stored') \subseteq created'
      BY <2>1 DEF QueueInv, OnlyCreated, Queued
    <3>2. \A x \in Tabs : ToSet(memory'[x]) \subseteq created'
      BY <2>1, <2>3 DEF QueueInv, OnlyCreated, Queued
    <3> QED BY <3>1, <3>2 DEF Queued
  <2>6. KeptUntilAnswered'
    BY <1>3, <2>1 DEF QueueInv, SharedInv, KeptUntilAnswered, Queued
  <2> QED BY <2>4, <2>5, <2>6
<1> QED BY <1>2, <1>3

\* A tab that closes takes only what it alone had.
LEMMA CloseKeeps ==
  ASSUME QueueAssumption, QueueTypeOK, QueueInv, NEW t \in Tabs, Close(t)
  PROVE  Queued' \subseteq created' /\ SharedInv' /\ KeptUntilAnswered'
<1> DEFINE q == Queue(t)
           L == ToSet(Limited(q))
<1>1. /\ q \in Seq(ClientEvents) /\ ToSet(q) \subseteq created
      /\ ToSet(q) = (IF usable THEN ToSet(stored) \cup ToSet(memory[t])
                     ELSE ToSet(memory[t])) \ aged
  BY QueueEntries, QueueCreated DEF QueueInv
<1>2. L \subseteq ToSet(q) /\ ToSet(q) \subseteq L \cup CutOff(q)
  BY <1>1, LimitedEntries DEF CutOff
<1>3. /\ usable' = usable /\ created' = created /\ aged' = aged
      /\ excused' = excused \cup CutOff(q) \cup (IF usable THEN {} ELSE ToSet(q))
      /\ stored' = stored \/ (usable /\ ToSet(stored') = L)
      /\ ToSet(memory'[t]) = {}
      /\ \A x \in Tabs \ {t} : memory'[x] = memory[x]
  BY EmptyList DEF Close, QueueTypeOK, QueueAssumption
<1> HIDE DEF q, L
<1>4. /\ usable => ToSet(stored) \subseteq ToSet(stored') \cup aged \cup excused'
      /\ usable => ToSet(memory[t]) \subseteq ToSet(stored') \cup aged \cup excused'
      /\ ~usable => ToSet(memory[t]) \subseteq aged \cup excused'
      /\ ~usable => stored' = stored
  BY <1>1, <1>2, <1>3 DEF QueueInv, SharedInv
<1>5. SharedInv'
  BY <1>3, <1>4 DEF QueueInv, SharedInv
<1>6. Queued' \subseteq created'
  <2>1. ToSet(stored') \subseteq created'
    BY <1>1, <1>2, <1>3 DEF QueueInv, OnlyCreated, Queued
  <2>2. \A x \in Tabs : ToSet(memory'[x]) \subseteq created'
    BY <1>3 DEF QueueInv, OnlyCreated, Queued
  <2> QED BY <2>1, <2>2 DEF Queued
<1>7. KeptUntilAnswered'
  <2>1. ASSUME NEW e \in created'
        PROVE  e \in Queued' \cup aged' \cup excused'
    <3>1. \/ e \in ToSet(stored) \/ e \in aged \/ e \in excused
          \/ \E x \in Tabs : e \in ToSet(memory[x])
      BY <1>3, <2>1 DEF QueueInv, KeptUntilAnswered, Queued
    <3>2. CASE e \in ToSet(stored)
      BY <1>3, <1>4, <3>2 DEF Queued
    <3>3. CASE \E x \in Tabs : e \in ToSet(memory[x])
      BY <1>3, <1>4, <3>3 DEF Queued
    <3> QED BY <1>3, <3>1, <3>2, <3>3
  <2> QED BY <2>1 DEF KeptUntilAnswered
<1> QED BY <1>5, <1>6, <1>7

-----------------------------------------------------------------------------
(* Steps *)

\* An event that is added, with whatever is sent at once.
LEMMA EnqueueKeeps ==
  ASSUME QueueAssumption, QueueTypeOK, QueueInv, NEW t \in Tabs, NEW e \in ClientEvents,
         e \notin created, created' = created \cup {e}, aged' = aged,
         WriteQueue(t, Append(Queue(t), e)),
         excused' = excused \cup CutOff(Append(Queue(t), e)),
         Deliver(t, Limited(Append(Queue(t), e))) \/ UNCHANGED flight
  PROVE  QueuesTyped' /\ FlightTyped' /\ QueueInv' /\ excused' \subseteq created'
<1> DEFINE q == Append(Queue(t), e)
<1>1. /\ Queue(t) \in Seq(ClientEvents) /\ IsInjective(Queue(t))
      /\ ToSet(Queue(t)) \subseteq created
  BY QueueEntries, QueueCreated DEF QueueInv
<1>2. /\ q \in Seq(ClientEvents) /\ IsInjective(q)
      /\ ToSet(q) = ToSet(Queue(t)) \cup {e}
  BY <1>1, AppendEntries
<1>3. /\ Limited(q) \in Seq(ClientEvents) /\ ToSet(Limited(q)) \subseteq created'
  BY <1>1, <1>2, LimitedEntries
<1>4. QueuesTyped'
  BY <1>2, WriteTyped
<1> HIDE DEF q
<1>5. /\ FlightTyped'
      /\ \A x \in Tabs : ToSet(sent'[x]) \subseteq ToSet(sent[x]) \cup ToSet(Limited(q))
  <2>1. CASE Deliver(t, Limited(q))
    BY <1>3, <2>1, DeliverTyped
  <2>2. CASE UNCHANGED flight
    BY <2>2, TypeParts DEF flight, FlightTyped
  <2> QED BY <2>1, <2>2 DEF q
<1>6. Queued' \subseteq created' /\ SharedInv' /\ KeptUntilAnswered'
  <2>1. /\ WriteQueue(t, q) /\ ToSet(Queue(t)) \subseteq ToSet(q) \cup {}
        /\ ToSet(q) \subseteq created' /\ created \subseteq created'
        /\ created' \subseteq created \cup ToSet(q) /\ aged \subseteq aged'
        /\ excused \cup {} \cup CutOff(q) \subseteq excused'
    BY <1>1, <1>2 DEF q
  <2> QED BY <1>2, <2>1, WriteKeeps
<1>7. OnlyCreated'
  BY <1>3, <1>5, <1>6 DEF OnlyCreated, QueueInv
<1>8. excused' \subseteq created'
  BY <1>1, <1>2 DEF q, CutOff, QueueTypeOK
<1> QED BY <1>4, <1>5, <1>6, <1>7, <1>8 DEF QueueInv

\* A step that leaves the queues alone.
LEMMA QuietKeeps ==
  ASSUME QueueTypeOK, QueueInv, UNCHANGED <<queues, created, excused>>, aged \subseteq aged',
         \A x \in Tabs : ToSet(sent'[x]) \subseteq ToSet(sent[x])
  PROVE  QueuesTyped' /\ QueueInv'
BY TypeParts DEF queues, QueuesTyped, QueueInv, OnlyCreated, SharedInv,
                 KeptUntilAnswered, Queued

LEMMA AddNext ==
  ASSUME QueueAssumption, QueueTypeOK, QueueInv, NEW t \in Tabs, NEW e \in ClientEvents,
         Add(t, e) \/ Click(t, e)
  PROVE  QueueTypeOK' /\ QueueInv'
<1>1. /\ e \notin created /\ created' = created \cup {e} /\ UNCHANGED aged
      /\ WriteQueue(t, Append(Queue(t), e))
      /\ excused' = excused \cup CutOff(Append(Queue(t), e))
      /\ Deliver(t, Limited(Append(Queue(t), e))) \/ UNCHANGED flight
      /\ carried' \in {carried, carried \cup {e}}
      /\ UNCHANGED <<open, kept, faults, hidings>>
  BY DEF Add, Click, HandedOver
<1>2. QueuesTyped' /\ FlightTyped' /\ QueueInv' /\ excused' \subseteq created'
  BY <1>1, EnqueueKeeps
<1>3. RestTyped'
  BY <1>1, <1>2 DEF QueueTypeOK, RestTyped
<1> QED BY <1>2, <1>3, TypeParts DEF QueueTypeOK, QueuesTyped, FlightTyped, RestTyped

LEMMA FlushNext ==
  ASSUME QueueAssumption, QueueTypeOK, QueueInv, NEW t \in Tabs, Flush(t) \/ Hide(t)
  PROVE  QueueTypeOK' /\ QueueInv'
<1>1. /\ ReadQueue(t) /\ UNCHANGED <<created, aged, open, kept>>
      /\ excused' = excused \cup CutOff(Queue(t))
      /\ Deliver(t, Queue(t)) \/ UNCHANGED flight
  BY DEF Flush, Hide
<1>2. /\ Queue(t) \in Seq(ClientEvents) /\ ToSet(Queue(t)) \subseteq created
  BY QueueEntries, QueueCreated DEF QueueInv
<1>3. QueuesTyped'
  BY <1>1, ReadTyped
<1>4. /\ FlightTyped'
      /\ \A x \in Tabs : ToSet(sent'[x]) \subseteq ToSet(sent[x]) \cup ToSet(Queue(t))
  <2>1. CASE Deliver(t, Queue(t))
    BY <1>2, <2>1, DeliverTyped
  <2>2. CASE UNCHANGED flight
    BY <2>2, TypeParts DEF flight, FlightTyped
  <2> QED BY <1>1, <2>1, <2>2
<1>5. Queued' \subseteq created' /\ SharedInv' /\ KeptUntilAnswered'
  BY <1>1, ReadKeeps
<1>6. OnlyCreated'
  BY <1>1, <1>2, <1>4, <1>5 DEF OnlyCreated, QueueInv
<1>7. carried' \subseteq created
  <2>1. CASE Flush(t)
    BY <2>1 DEF Flush, QueueTypeOK
  <2>2. CASE Hide(t)
    BY <1>2, <2>2, BeaconEntries DEF Hide, QueueTypeOK
  <2> QED BY <2>1, <2>2
<1>8. faults' = faults /\ hidings' \in 0 .. MaxHidings
  BY DEF Flush, Hide, QueueTypeOK, QueueAssumption
<1>9. RestTyped'
  BY <1>1, <1>2, <1>7, <1>8 DEF QueueTypeOK, RestTyped, CutOff
<1> QED BY <1>3, <1>4, <1>5, <1>6, <1>9, TypeParts
        DEF QueueInv, QueueTypeOK, QueuesTyped, FlightTyped, RestTyped

LEMMA CloseNext ==
  ASSUME QueueAssumption, QueueTypeOK, QueueInv, NEW t \in Tabs, Close(t)
  PROVE  QueueTypeOK' /\ QueueInv'
<1> DEFINE q == Queue(t)
<1>1. /\ q \in Seq(ClientEvents) /\ IsInjective(q) /\ ToSet(q) \subseteq created
  BY QueueEntries, QueueCreated DEF QueueInv
<1>2. QueuesTyped'
  <2>1. /\ Limited(q) \in Lists(MaxQueue) /\ IsInjective(Limited(q))
        /\ <<>> \in Lists(MaxQueue) /\ IsInjective(<<>>)
    BY <1>1, LimitedTyped, EmptyList DEF QueueAssumption
  <2>2. /\ usable' = usable /\ memory' = [memory EXCEPT ![t] = <<>>]
        /\ stored' = Limited(q) \/ stored' = stored
    BY DEF Close
  <2> HIDE DEF q
  <2> QED BY <2>1, <2>2 DEF QueueTypeOK, QueuesTyped
<1>3. /\ FlightTyped'
      /\ \A x \in Tabs : ToSet(sent'[x]) \subseteq ToSet(sent[x])
  BY LandedTyped DEF Close
<1>4. Queued' \subseteq created' /\ SharedInv' /\ KeptUntilAnswered'
  BY CloseKeeps
<1>5. OnlyCreated'
  BY <1>3, <1>4 DEF Close, OnlyCreated, QueueInv
<1>6. carried' \subseteq created
  <2>1. PICK some \in Beacons(q) :
          carried' = carried \cup some
                     \cup (IF reply[t] = "waiting" THEN ToSet(sent[t]) ELSE {})
    BY DEF Close
  <2>2. some \subseteq created /\ ToSet(sent[t]) \subseteq created
    BY <1>1, <2>1, BeaconEntries DEF QueueInv, OnlyCreated
  <2> HIDE DEF q
  <2> QED BY <2>1, <2>2 DEF QueueTypeOK
<1>7. RestTyped'
  <2>1. /\ UNCHANGED <<created, aged, kept, faults>> /\ open' = open \ {t}
        /\ hidings' \in 0 .. MaxHidings
        /\ excused' = excused \cup CutOff(q) \cup (IF usable THEN {} ELSE ToSet(q))
    BY DEF Close, QueueTypeOK, QueueAssumption
  <2> HIDE DEF q
  <2> QED BY <1>1, <1>6, <2>1 DEF QueueTypeOK, RestTyped, CutOff
<1> QED BY <1>2, <1>3, <1>4, <1>5, <1>7, TypeParts
        DEF QueueInv, QueueTypeOK, QueuesTyped, FlightTyped, RestTyped

LEMMA AcknowledgeNext ==
  ASSUME QueueAssumption, QueueTypeOK, QueueInv, NEW t \in Tabs, Acknowledge(t)
  PROVE  QueueTypeOK' /\ QueueInv'
<1> DEFINE q == Without(Queue(t), ToSet(sent[t]))
<1>1. /\ Queue(t) \in Seq(ClientEvents) /\ IsInjective(Queue(t))
      /\ ToSet(Queue(t)) \subseteq created /\ ToSet(sent[t]) \subseteq created
  BY QueueEntries, QueueCreated DEF QueueInv, OnlyCreated
<1>2. /\ q \in Seq(ClientEvents) /\ IsInjective(q)
      /\ ToSet(q) = ToSet(Queue(t)) \ ToSet(sent[t])
  BY <1>1, WithoutProperties
<1>3. /\ WriteQueue(t, q) /\ Landed(t)
      /\ excused' = excused \cup ToSet(sent[t]) \cup CutOff(q)
      /\ UNCHANGED <<open, carried, created, aged, kept, faults, hidings>>
  BY DEF Acknowledge
<1> HIDE DEF q
<1>4. QueuesTyped'
  BY <1>2, <1>3, WriteTyped
<1>5. /\ FlightTyped'
      /\ \A x \in Tabs : ToSet(sent'[x]) \subseteq ToSet(sent[x])
  BY <1>3, LandedTyped
<1>6. Queued' \subseteq created' /\ SharedInv' /\ KeptUntilAnswered'
  <2>1. /\ ToSet(Queue(t)) \subseteq ToSet(q) \cup ToSet(sent[t])
        /\ ToSet(q) \subseteq created' /\ created \subseteq created'
        /\ created' \subseteq created \cup ToSet(q) /\ aged \subseteq aged'
        /\ excused \cup ToSet(sent[t]) \cup CutOff(q) \subseteq excused'
    BY <1>1, <1>2, <1>3
  <2> QED BY <1>2, <1>3, <2>1, WriteKeeps
<1>7. OnlyCreated'
  BY <1>3, <1>5, <1>6 DEF OnlyCreated, QueueInv
<1>8. RestTyped'
  BY <1>1, <1>2, <1>3 DEF QueueTypeOK, RestTyped, CutOff
<1> QED BY <1>4, <1>5, <1>6, <1>7, <1>8, TypeParts
        DEF QueueInv, QueueTypeOK, QueuesTyped, FlightTyped, RestTyped

LEMMA AcceptableSent ==
  ASSUME OnlyCreated, NEW some, some \subseteq created
  PROVE  Acceptable(some) \subseteq created \ Hopeless
BY DEF Acceptable

LEMMA ServeNext ==
  ASSUME QueueAssumption, QueueTypeOK, QueueInv, NEW t \in Tabs, Serve(t)
  PROVE  QueueTypeOK' /\ QueueInv'
<1>1. ToSet(sent[t]) \subseteq created
  BY DEF QueueInv, OnlyCreated
<1>2. QueuesTyped' /\ QueueInv'
  BY QuietKeeps DEF Serve
<1>3. FlightTyped'
  BY DEF Serve, QueueTypeOK, FlightTyped
<1>4. PICK failed \in SUBSET Acceptable(ToSet(sent[t])) :
        /\ faults' = faults + Cardinality(failed) /\ faults' <= MaxFaults
        /\ kept' = kept \cup (Acceptable(ToSet(sent[t])) \ failed)
  BY DEF Serve
<1>5. kept' \subseteq created \ Hopeless
  BY <1>1, <1>4 DEF Acceptable, QueueTypeOK
<1>6. faults' \in 0 .. MaxFaults
  <2>1. IsFiniteSet(ClientEvents)
    BY DEF QueueAssumption
  <2>2. failed \subseteq ClientEvents
    BY <1>1, <1>4 DEF Acceptable, QueueTypeOK
  <2>3. Cardinality(failed) \in Nat
    BY <2>1, <2>2, FS_Subset, FS_CardinalityType
  <2> QED BY <1>4, <2>3 DEF QueueTypeOK, QueueAssumption
<1>7. RestTyped'
  BY <1>5, <1>6 DEF Serve, QueueTypeOK, RestTyped
<1> QED BY <1>2, <1>3, <1>7, TypeParts DEF QueueTypeOK, QueuesTyped, FlightTyped, RestTyped

LEMMA BreakNext ==
  ASSUME QueueAssumption, QueueTypeOK, QueueInv, NEW t \in Tabs, Break(t)
  PROVE  QueueTypeOK' /\ QueueInv'
<1>1. ToSet(sent[t]) \subseteq created /\ sent[t] \in Seq(ClientEvents)
  BY ListsAre DEF QueueInv, OnlyCreated, QueueTypeOK, QueueAssumption
<1>2. QueuesTyped' /\ QueueInv'
  BY QuietKeeps DEF Break
<1>3. FlightTyped'
  BY DEF Break, QueueTypeOK, FlightTyped
<1>4. kept' \subseteq created \ Hopeless
  <2>1. CASE UNCHANGED kept
    BY <2>1 DEF QueueTypeOK
  <2>2. ASSUME NEW n \in 0 .. Len(sent[t]),
               kept' = kept \cup Acceptable(ToSet(SubSeq(sent[t], 1, n)))
        PROVE  kept' \subseteq created \ Hopeless
    <3>1. n \in Int /\ n <= Len(sent[t])
      BY <1>1, LenProperties
    <3>2. ToSet(SubSeq(sent[t], 1, n)) \subseteq created
      BY <1>1, <3>1, PartEntries
    <3> QED BY <2>2, <3>2 DEF Acceptable, QueueTypeOK
  <2> QED BY <2>1, <2>2 DEF Break
<1>5. faults' \in 0 .. MaxFaults
  BY DEF Break, QueueTypeOK, QueueAssumption
<1>6. RestTyped'
  BY <1>4, <1>5 DEF Break, QueueTypeOK, RestTyped
<1> QED BY <1>2, <1>3, <1>6, TypeParts DEF QueueTypeOK, QueuesTyped, FlightTyped, RestTyped

LEMMA OutsideNext ==
  ASSUME QueueAssumption, QueueTypeOK, QueueInv,
         \/ \E t \in Tabs : Retain(t) \/ Open(t)
         \/ \E e \in ClientEvents : ArriveUnheard(e) \/ Age(e)
  PROVE  QueueTypeOK' /\ QueueInv'
<1>1. ASSUME NEW t \in Tabs, Retain(t)
      PROVE  QueueTypeOK' /\ QueueInv'
  <2>1. /\ FlightTyped'
        /\ \A x \in Tabs : ToSet(sent'[x]) \subseteq ToSet(sent[x])
    BY <1>1, LandedTyped DEF Retain
  <2>2. QueuesTyped' /\ QueueInv'
    BY <1>1, <2>1, QuietKeeps DEF Retain
  <2>3. RestTyped'
    BY <1>1 DEF Retain, QueueTypeOK, RestTyped
  <2> QED BY <2>1, <2>2, <2>3 DEF QueueTypeOK, QueuesTyped, FlightTyped, RestTyped
<1>2. ASSUME UNCHANGED <<queues, flight, created, excused>>, aged \subseteq aged'
      PROVE  QueuesTyped' /\ FlightTyped' /\ QueueInv'
  <2>1. FlightTyped' /\ sent' = sent
    BY <1>2, TypeParts DEF flight, FlightTyped
  <2> QED BY <1>2, <2>1, QuietKeeps
<1>3. ASSUME NEW t \in Tabs, Open(t)
      PROVE  QueueTypeOK' /\ QueueInv'
  <2>1. QueuesTyped' /\ FlightTyped' /\ QueueInv'
    BY <1>2, <1>3 DEF Open
  <2>2. RestTyped'
    BY <1>3 DEF Open, QueueTypeOK, RestTyped
  <2> QED BY <2>1, <2>2 DEF QueueTypeOK, QueuesTyped, FlightTyped, RestTyped
<1>4. ASSUME NEW e \in ClientEvents, ArriveUnheard(e) \/ Age(e)
      PROVE  QueueTypeOK' /\ QueueInv'
  <2>1. QueuesTyped' /\ FlightTyped' /\ QueueInv'
    BY <1>2, <1>4 DEF ArriveUnheard, Age
  <2>2. RestTyped'
    BY <1>4 DEF ArriveUnheard, Age, Acceptable, QueueTypeOK, RestTyped
  <2> QED BY <2>1, <2>2 DEF QueueTypeOK, QueuesTyped, FlightTyped, RestTyped
<1> QED BY <1>1, <1>3, <1>4

-----------------------------------------------------------------------------
(* The theorems about the queue *)

LEMMA QueueInductive ==
  ASSUME QueueAssumption, QueueTypeOK, QueueInv, [QueueNext]_queueVars
  PROVE  QueueTypeOK' /\ QueueInv'
<1>1. CASE QueueNext
  BY <1>1, AddNext, FlushNext, CloseNext, AcknowledgeNext, ServeNext, BreakNext,
     OutsideNext DEF QueueNext
<1>2. CASE UNCHANGED queueVars
  BY <1>2 DEF queueVars, queues, flight, QueueTypeOK, QueueInv, OnlyCreated, SharedInv,
              KeptUntilAnswered, Queued
<1> QED BY <1>1, <1>2

LEMMA QueueStarts ==
  ASSUME QueueAssumption, QueueInit
  PROVE  QueueTypeOK /\ QueueInv
<1>1. /\ <<>> \in Lists(MaxQueue) /\ <<>> \in Lists(BatchSize)
      /\ IsInjective(<<>>) /\ ToSet(<<>>) = {}
  BY EmptyList DEF QueueAssumption
<1>2. QueueTypeOK
  BY <1>1 DEF QueueInit, QueueTypeOK, QueueAssumption
<1>3. QueueInv
  BY <1>1 DEF QueueInit, QueueInv, OnlyCreated, SharedInv, KeptUntilAnswered, Queued
<1> QED BY <1>2, <1>3

LEMMA QueueInvariant == QueueSpec => [](QueueTypeOK /\ QueueInv)
<1>1. QueueInit => QueueTypeOK /\ QueueInv
  BY QueueAssumption, QueueStarts
<1>2. QueueTypeOK /\ QueueInv /\ [QueueNext]_queueVars => (QueueTypeOK /\ QueueInv)'
  BY QueueAssumption, QueueInductive
<1> QED BY <1>1, <1>2, PTL DEF QueueSpec

\* No queue outgrows its limit or holds an event twice, whatever tabs bring
\* back, and only events that happened are stored, in flight or queued
\* (readQueue, writeQueue).
THEOREM QueuesAreInOrder == QueueSpec => []QueueTypeOK
BY QueueInvariant, PTL

\* An event stays queued until it is answered, too old or cut off: what a tab
\* has for itself alone is never the last of an event, unless the browser has
\* no localStorage (writeQueue, readQueue, deliverNextBatch).
THEOREM EventsAreKeptUntilAnswered == QueueSpec => []KeptUntilAnswered
<1>1. QueueInv => KeptUntilAnswered
  BY DEF QueueInv
<1> QED BY <1>1, QueueInvariant, PTL

\* With localStorage, what a tab has in memory alone is too old, answered or
\* cut off, so closing it loses nothing (readQueue, writeQueue).
THEOREM ClosingLosesNothing == QueueSpec => []SharedInv
<1>1. QueueInv => SharedInv
  BY DEF QueueInv
<1> QED BY <1>1, QueueInvariant, PTL
===============================================================================
