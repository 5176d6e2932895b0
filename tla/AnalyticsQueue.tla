---------------------------- MODULE AnalyticsQueue ---------------------------
(***************************************************************************)
(* The event queue of the public pages in the browser                      *)
(* (frontend/src/lib/utils/client-queue.ts) and the batch endpoint that    *)
(* answers it (unified-analytics.controller.ts: events).                   *)
(*                                                                         *)
(* The tabs of one browser share the queue in localStorage and each keeps  *)
(* its own copy in memory.  A task of a tab runs undisturbed; between its  *)
(* tasks the other tabs, the network and the server go on.  What ingestion *)
(* does with an event is in PageAnalytics; here it stores the event once,  *)
(* rejects it for good, or fails for a passing reason.                     *)
(***************************************************************************)
EXTENDS Integers, FiniteSets, Sequences, SequencesExt

CONSTANTS
  ClientEvents,\* the events of one browser
  Hopeless,    \* the events ingestion will never accept
  Tabs,
  MaxQueue,    \* MAX_QUEUE_SIZE
  BatchSize,   \* events of one request
  FlushAt,     \* a queue of that length is sent without waiting for the timer
  MaxFaults,   \* bound on failures of the network and the server
  MaxHidings   \* bound on tabs hidden or closed

ASSUME QueueAssumption ==
  /\ IsFiniteSet(ClientEvents) /\ Hopeless \subseteq ClientEvents
  /\ MaxQueue \in Nat \ {0} /\ BatchSize \in Nat \ {0} /\ FlushAt \in Nat \ {0}
  /\ MaxFaults \in Nat /\ MaxHidings \in Nat

VARIABLES
  usable,    \* does localStorage work in this browser?
  stored,    \* the queue in localStorage
  memory,    \* memoryQueue of each tab
  open,      \* tabs that are open
  sent,      \* the batch each tab is sending; empty: flushPromise is null
  reply,     \* what has become of that request
  carried,   \* events on their way without anybody to hear the answer
  created,   \* events that have happened
  aged,      \* events older than seven days
  kept,      \* rows of analytics_events
  faults, hidings,
  excused    \* events that were answered, cut off by the limit, or were in no
             \* other place than a tab that closed

queues == <<usable, stored, memory>>
flight == <<sent, reply>>
queueVars == <<queues, open, flight, carried, created, aged, kept, faults,
          hidings, excused>>

Lists(max) == UNION {[1 .. n -> ClientEvents] : n \in 0 .. max}

QueueTypeOK ==
  /\ usable \in BOOLEAN
  /\ stored \in Lists(MaxQueue) /\ IsInjective(stored)
  /\ memory \in [Tabs -> Lists(MaxQueue)] /\ \A t \in Tabs : IsInjective(memory[t])
  /\ open \subseteq Tabs
  /\ sent \in [Tabs -> Lists(BatchSize)]
  /\ reply \in [Tabs -> {"none", "waiting", "answered", "failed"}]
  /\ \A t \in Tabs : reply[t] = "none" <=> sent[t] = <<>>
  /\ carried \subseteq created /\ created \subseteq ClientEvents
  /\ aged \subseteq created /\ kept \subseteq created \ Hopeless
  /\ faults \in 0 .. MaxFaults /\ hidings \in 0 .. MaxHidings
  /\ excused \subseteq created

QueueInit ==
  /\ usable \in BOOLEAN
  /\ stored = <<>> /\ memory = [t \in Tabs |-> <<>>]
  /\ open = Tabs
  /\ sent = [t \in Tabs |-> <<>>] /\ reply = [t \in Tabs |-> "none"]
  /\ carried = {} /\ created = {} /\ aged = {} /\ kept = {}
  /\ faults = 0 /\ hidings = 0
  /\ excused = {}

-----------------------------------------------------------------------------
(* Reading and writing the queue *)

Newest(q) == SubSeq(q, Len(q) - MaxQueue + 1, Len(q))
Unlimited(q) == q
Limited(q) == IF Len(q) > MaxQueue THEN Newest(q) ELSE q

\* The entries of q that are not in some, in their order: SelectSeq, said
\* without recursion.
Without(q, some) ==
  LET left == {i \in DOMAIN q : q[i] \notin some}
      nth(n) == CHOOSE i \in left : Cardinality(left \cap 1 .. i) = n
  IN  [n \in 1 .. Cardinality(left) |-> q[nth(n)]]

\* What readQueue returns: localStorage and what only this tab still has, but
\* nothing too old.
Queue(t) ==
  IF usable
    THEN Without(stored, aged) \o Without(memory[t], aged \cup ToSet(stored))
    ELSE Without(memory[t], aged)

WriteQueue(t, q) ==
  /\ memory' = [memory EXCEPT ![t] = Limited(q)]
  /\ stored' = IF usable THEN Limited(q) ELSE stored
  /\ UNCHANGED usable

\* What readQueue leaves behind.
ReadQueue(t) ==
  LET q == Queue(t) IN
  /\ memory' = [memory EXCEPT ![t] = Limited(q)]
  /\ stored' = IF usable /\ Len(q) # Len(stored) THEN Limited(q) ELSE stored
  /\ UNCHANGED usable

CutOff(q) == ToSet(q) \ ToSet(Limited(q))

Batch(q) == SubSeq(q, 1, IF Len(q) < BatchSize THEN Len(q) ELSE BatchSize)
Sending(t) == sent[t] # <<>>

\* deliverNextBatch, up to its first await; a tab sends one batch at a time.
Deliver(t, q) ==
  IF q = <<>> \/ Sending(t) THEN UNCHANGED flight
  ELSE /\ sent' = [sent EXCEPT ![t] = Batch(q)]
       /\ reply' = [reply EXCEPT ![t] = "waiting"]

Landed(t) ==
  /\ sent' = [sent EXCEPT ![t] = <<>>]
  /\ reply' = [reply EXCEPT ![t] = "none"]

-----------------------------------------------------------------------------
(* The tabs *)

Add(t, e) ==
  LET q == Append(Queue(t), e) IN
  /\ t \in open /\ e \notin created
  /\ created' = created \cup {e}
  /\ WriteQueue(t, q)
  /\ excused' = excused \cup CutOff(q)
  /\ IF Len(q) >= FlushAt THEN Deliver(t, Limited(q)) ELSE UNCHANGED flight
  /\ UNCHANGED <<open, carried, aged, kept, faults, hidings>>

HandedOverAndDropped(q, e) == Without(q, {e})

\* What the queue holds once the browser has taken an event over.
HandedOver(q, e) == q

\* A click that leads away is queued, handed to the browser as a beacon or with
\* the navigation itself, and sent at once.
Click(t, e) ==
  LET q == HandedOver(Append(Queue(t), e), e) IN
  /\ t \in open /\ e \notin created
  /\ created' = created \cup {e}
  /\ carried' \in {carried, carried \cup {e}}
  /\ WriteQueue(t, q)
  /\ excused' = excused \cup CutOff(q)
  /\ Deliver(t, Limited(q))
  /\ UNCHANGED <<open, aged, kept, faults, hidings>>

\* The timer, every fifteen seconds.
Flush(t) ==
  /\ t \in open /\ ~Sending(t)
  /\ ReadQueue(t)
  /\ excused' = excused \cup CutOff(Queue(t))
  /\ Deliver(t, Queue(t))
  /\ UNCHANGED <<open, carried, created, aged, kept, faults, hidings>>

\* Up to four batches of beacons, as many as the browser takes.
Beacons(q) ==
  {ToSet(SubSeq(q, 1, n)) :
     n \in {k \in {i * BatchSize : i \in 0 .. 4} : k <= Len(q)}
          \cup (IF Len(q) <= 4 * BatchSize THEN {Len(q)} ELSE {})}

\* The page is hidden.
Hide(t) ==
  /\ t \in open
  /\ hidings < MaxHidings /\ hidings' = hidings + 1
  /\ \E some \in Beacons(Queue(t)) : carried' = carried \cup some
  /\ ReadQueue(t)
  /\ excused' = excused \cup CutOff(Queue(t))
  /\ UNCHANGED <<open, flight, created, aged, kept, faults>>

\* The page goes: the request under way (keepalive) goes on, with nobody
\* listening, and what only this tab knew is lost.
Close(t) ==
  LET q == Queue(t) IN
  /\ t \in open /\ open' = open \ {t}
  /\ hidings < MaxHidings /\ hidings' = hidings + 1
  /\ \E some \in Beacons(q) :
       carried' = carried \cup some
                  \cup (IF reply[t] = "waiting" THEN ToSet(sent[t]) ELSE {})
  /\ stored' = IF usable /\ Len(q) # Len(stored) THEN Limited(q) ELSE stored
  /\ memory' = [memory EXCEPT ![t] = <<>>]
  /\ excused' = excused \cup CutOff(q) \cup (IF usable THEN {} ELSE ToSet(q))
  /\ Landed(t)
  /\ UNCHANGED <<usable, created, aged, kept, faults>>

Open(t) ==
  /\ t \notin open
  /\ open' = open \cup {t}
  /\ UNCHANGED <<queues, flight, carried, created, aged, kept, faults,
                 hidings, excused>>

-----------------------------------------------------------------------------
(* The server *)

Acceptable(some) == some \ (Hopeless \cup aged)

AnsweredIfNoneFails(batch) == IF batch \cap Hopeless = {} THEN batch ELSE {}

\* Events of a batch whose ingestion is answered; the others are not tried.
Answered(batch) == batch

\* Each event has its own answer; one that fails takes none of the others down.
Serve(t) ==
  /\ reply[t] = "waiting"
  /\ \E failed \in SUBSET Acceptable(ToSet(sent[t])) :
       /\ faults' = faults + Cardinality(failed) /\ faults' <= MaxFaults
       /\ kept' = kept \cup (Acceptable(ToSet(sent[t])) \ failed)
  /\ reply' = [reply EXCEPT ![t] =
                 IF Answered(ToSet(sent[t])) = ToSet(sent[t]) THEN "answered"
                 ELSE "failed"]
  /\ UNCHANGED <<queues, open, sent, carried, created, aged, hidings, excused>>

\* The request fails as a whole: it, or its answer, is lost with any part of
\* the batch done, or it is refused (any 4xx but 429), which is an answer too.
Break(t) ==
  /\ reply[t] = "waiting"
  /\ faults < MaxFaults /\ faults' = faults + 1
  /\ \/ /\ reply' = [reply EXCEPT ![t] = "failed"]
        /\ \E n \in 0 .. Len(sent[t]) :
             kept' = kept \cup Acceptable(ToSet(SubSeq(sent[t], 1, n)))
     \/ /\ reply' = [reply EXCEPT ![t] = "answered"]
        /\ UNCHANGED kept
  /\ UNCHANGED <<queues, open, sent, carried, created, aged, hidings, excused>>

\* The answer reaches the tab.  An incomplete one is not an acknowledgement.
Acknowledge(t) ==
  /\ reply[t] = "answered"
  /\ WriteQueue(t, Without(Queue(t), ToSet(sent[t])))
  /\ excused' = excused \cup ToSet(sent[t])
                \cup CutOff(Without(Queue(t), ToSet(sent[t])))
  /\ Landed(t)
  /\ UNCHANGED <<open, carried, created, aged, kept, faults, hidings>>

Retain(t) ==
  /\ reply[t] = "failed"
  /\ Landed(t)
  /\ UNCHANGED <<queues, open, carried, created, aged, kept, faults, hidings, excused>>

\* What was carried arrives, or is lost.
ArriveUnheard(e) ==
  /\ e \in carried /\ carried' = carried \ {e}
  /\ kept' \in {kept, kept \cup Acceptable({e})}
  /\ UNCHANGED <<queues, open, flight, created, aged, faults, hidings, excused>>

Age(e) ==
  /\ e \in created \ aged /\ aged' = aged \cup {e}
  /\ UNCHANGED <<queues, open, flight, carried, created, kept, faults, hidings, excused>>

-----------------------------------------------------------------------------
QueueNext ==
  \/ \E t \in Tabs, e \in ClientEvents : Add(t, e) \/ Click(t, e)
  \/ \E t \in Tabs : Flush(t) \/ Acknowledge(t) \/ Retain(t)
  \/ \E t \in Tabs : Hide(t) \/ Close(t) \/ Open(t)
  \/ \E t \in Tabs : Serve(t) \/ Break(t)
  \/ \E e \in ClientEvents : ArriveUnheard(e) \/ Age(e)

QueueSpec == QueueInit /\ [][QueueNext]_queueVars

\* The timer of an open tab fires, requests are answered, and some tab of the
\* site is opened again.
QueueFairness ==
  \A t \in Tabs : /\ WF_queueVars(Flush(t)) /\ WF_queueVars(Serve(t)) /\ WF_queueVars(Open(t))
                  /\ WF_queueVars(Acknowledge(t)) /\ WF_queueVars(Retain(t))

QueueFairSpec == QueueSpec /\ QueueFairness

-----------------------------------------------------------------------------
(* Properties *)

Queued == UNION ({ToSet(stored)} \cup {ToSet(memory[t]) : t \in Tabs})

\* An event stays in the queue until the server has answered it, it grows too
\* old or the limit cuts it off: neither another tab's writing, nor a beacon,
\* nor a tab that closes takes it out ("retains the event and retries it
\* later": handoffAnalyticsEvent).
KeptUntilAnswered == created \subseteq Queued \cup aged \cup excused

\* Every queued event leaves the queues of all tabs in the end, also behind
\* events that ingestion rejects, and although a tab brings back what another
\* one has already delivered (events: a rejected event "blocked every later
\* event behind it").
EveryEventSettles == \A e \in ClientEvents : e \in Queued ~> e \notin Queued

-----------------------------------------------------------------------------
(* Why no event gets lost *)

OnlyCreated ==
  /\ Queued \subseteq created
  /\ \A t \in Tabs : ToSet(sent[t]) \subseteq created

\* A tab may close and take its copy along: what is not in localStorage too is
\* too old, answered or cut off.
SharedInv ==
  usable => \A t \in Tabs : ToSet(memory[t]) \subseteq ToSet(stored) \cup aged \cup excused

QueueInv == OnlyCreated /\ SharedInv /\ KeptUntilAnswered
=============================================================================
