---------------------------- MODULE TikTokOutbox ----------------------------
(***************************************************************************)
(* The marketing outbox: rows of marketing_event_outbox, and the worker    *)
(* that every backend process runs over them every two seconds             *)
(* (backend/src/analytics/tiktok/tiktok-outbox.processor.ts).              *)
(*                                                                         *)
(* PostgreSQL is the only state the processes share, so one transaction is *)
(* one step.  What a process keeps between two transactions (the jobs it   *)
(* claimed, the request in flight, its answer) is per-worker state, lost   *)
(* when the process dies.                                                  *)
(*                                                                         *)
(* One unit of time is the delivery timeout (10 s).  Clocks are relative:  *)
(* the age of a lock and what is left of a retry delay.                    *)
(***************************************************************************)
EXTENDS Integers, FiniteSets

CONSTANTS
  Rows,          \* rows of marketing_event_outbox
  Destinations,  \* rows of business_tiktok_pixels
  DestOf,        \* the destination_id of each row
  Workers,       \* backend processes
  Malformed,     \* rows whose payload TikTok rejects as a parameter error
  Refused,       \* destinations whose token TikTok refuses
  BatchSize,     \* BATCH_SIZE
  MaxAttempts,   \* MAX_ATTEMPTS
  StaleCutoff,   \* STALE_LOCK_CUTOFF, in delivery timeouts
  Delays,        \* Retry-After or backoff, in delivery timeouts
  Stalls,        \* may time pass while a process is between two requests?
  MaxFaults,     \* bound on crashes, failed transactions and lost alerts
  MaxReopens     \* bound on the manual retries of one row

ASSUME OutboxAssumption ==
  /\ IsFiniteSet(Rows)
  /\ DestOf \in [Rows -> Destinations]
  /\ Malformed \subseteq Rows
  /\ Refused \subseteq Destinations
  /\ BatchSize \in Nat \ {0}
  /\ MaxAttempts \in Nat \ {0}
  /\ StaleCutoff \in Nat
  /\ Delays \subseteq Nat /\ Delays # {}
  /\ Stalls \in BOOLEAN
  /\ MaxFaults \in Nat
  /\ MaxReopens \in Nat

VARIABLES
  destination,  \* status of each destination
  status,       \* status column; "absent" before the insert, "deleted" after
  attempts,     \* attempt_count column
  lockAge,      \* age of locked_at, counted to just past the cutoff
  delay,        \* what is left until next_attempt_at
  ledger,       \* marketing_delivery_attempts
  pc,           \* where each worker is in process()
  todo,         \* claimed rows whose group has not been sent
  solo,         \* rows of a rejected group, still to be sent one by one
  batch,        \* rows of the request being sent or recorded
  jobNo,        \* attempt_count of each row as the worker's claim returned it
  answer,       \* what send() returned
  waited,       \* has the request in flight used up its timeout?
  alerted,      \* rows whose permanent failure platform admins were told of
  reopened,     \* how often each row was retried by hand
  late,         \* history: rows that a worker has held past the cutoff
  faults        \* faults so far

rowVars == <<status, attempts, lockAge, delay, ledger>>
workerVars == <<pc, todo, solo, batch, jobNo, answer, waited>>
vars == <<destination, rowVars, workerVars, alerted, reopened, late, faults>>

Unlocked == -1
Waiting == {"pending", "retry_scheduled"}
Live == Waiting \cup {"processing"}
Settled == {"delivered", "failed_permanently", "cancelled"}
Outcomes == {"success", "retry", "failure"}

TypeOK ==
  /\ destination \in [Destinations -> {"active", "inactive", "removed"}]
  /\ status \in [Rows -> {"absent", "deleted"} \cup Live \cup Settled]
  /\ attempts \in [Rows -> Nat]
  /\ lockAge \in [Rows -> Unlocked .. StaleCutoff + 1]
  /\ delay \in [Rows -> Nat]
  /\ ledger \subseteq [row : Rows, number : Nat, outcome : Outcomes]
  /\ pc \in [Workers -> {"idle", "next", "sending", "recording", "alerting"}]
  /\ todo \in [Workers -> SUBSET Rows]
  /\ solo \in [Workers -> SUBSET Rows]
  /\ batch \in [Workers -> SUBSET Rows]
  /\ jobNo \in [Workers -> [Rows -> Nat]]
  /\ answer \in [Workers -> {"none", "success", "retry", "permanent"}]
  /\ waited \in [Workers -> {0, 1}]
  /\ alerted \subseteq Rows
  /\ reopened \in [Rows -> Nat]
  /\ late \subseteq Rows
  /\ faults \in Nat

Init ==
  /\ destination = [d \in Destinations |-> "active"]
  /\ status = [r \in Rows |-> "absent"]
  /\ attempts = [r \in Rows |-> 0]
  /\ lockAge = [r \in Rows |-> Unlocked]
  /\ delay = [r \in Rows |-> 0]
  /\ ledger = {}
  /\ pc = [w \in Workers |-> "idle"]
  /\ todo = [w \in Workers |-> {}]
  /\ solo = [w \in Workers |-> {}]
  /\ batch = [w \in Workers |-> {}]
  /\ jobNo = [w \in Workers |-> [r \in Rows |-> 0]]
  /\ answer = [w \in Workers |-> "none"]
  /\ waited = [w \in Workers |-> 0]
  /\ alerted = {}
  /\ reopened = [r \in Rows |-> 0]
  /\ late = {}
  /\ faults = 0

-----------------------------------------------------------------------------
(* Claiming *)

\* Rows a worker has claimed and not yet recorded.
Held(w) ==
  todo[w] \cup solo[w] \cup (IF pc[w] = "alerting" THEN {} ELSE batch[w])

\* A row is no longer late once nobody holds it.
LetGo == late' = {r \in late : \E w \in Workers : r \in Held(w)'}

StaleAtCutoff(r) == status[r] = "processing" /\ lockAge[r] >= StaleCutoff
Stale(r) == status[r] = "processing" /\ lockAge[r] > StaleCutoff
Deliverable(r) == destination[DestOf[r]] = "active"

AbandonableInFlight(r) == status[r] \in Live /\ ~Deliverable(r)

\* Rows whose destination is gone: cancelled whether due or not.
Abandonable(r) == (status[r] \in Waiting \/ Stale(r)) /\ ~Deliverable(r)

ReadyWithoutReclaim(r) == Deliverable(r) /\ status[r] \in Waiting /\ delay[r] = 0

Ready(r) ==
  /\ Deliverable(r)
  /\ \/ status[r] \in Waiting /\ delay[r] = 0
     \/ Stale(r)

ReclaimKeepsNumber(r) ==
  IF status[r] = "processing" THEN attempts[r] ELSE attempts[r] + 1

NextAttempt(r) == attempts[r] + 1

\* locked_at = NULL
Unlock(rows) ==
  lockAge' = [r \in Rows |-> IF r \in rows THEN Unlocked ELSE lockAge[r]]

\* The batches one claim may take: as many ready rows as fit (the order by
\* next_attempt_at is left open).
Batches ==
  LET ready == {r \in Rows : Ready(r)}
      fits == {S \in SUBSET ready : Cardinality(S) <= BatchSize}
  IN  {S \in fits : Cardinality(S) = BatchSize \/ S = ready}

\* One transaction: cancel what can no longer be delivered, then lease a
\* batch.  The guard `running` of process() is pc[w] = "idle".
Claim(w) ==
  /\ pc[w] = "idle"
  /\ \E picked \in Batches :
       LET dropped == {r \in Rows : Abandonable(r)}
       IN  /\ picked \cup dropped # {}
           /\ status' = [r \in Rows |->
                IF r \in picked THEN "processing"
                ELSE IF r \in dropped THEN "cancelled" ELSE status[r]]
           /\ lockAge' = [r \in Rows |->
                IF r \in picked THEN 0
                ELSE IF r \in dropped THEN Unlocked ELSE lockAge[r]]
           /\ attempts' = [r \in Rows |->
                IF r \in picked THEN NextAttempt(r) ELSE attempts[r]]
           /\ jobNo' = [jobNo EXCEPT ![w] = [r \in Rows |->
                IF r \in picked THEN NextAttempt(r) ELSE 0]]
           /\ todo' = [todo EXCEPT ![w] = picked]
           /\ pc' = [pc EXCEPT ![w] = IF picked = {} THEN "idle" ELSE "next"]
  /\ UNCHANGED <<destination, delay, ledger, solo, batch, answer, waited,
                 alerted, reopened, late, faults>>

-----------------------------------------------------------------------------
(* Sending *)

Send(w, rows) ==
  /\ batch' = [batch EXCEPT ![w] = rows]
  /\ pc' = [pc EXCEPT ![w] = "sending"]
  /\ waited' = [waited EXCEPT ![w] = 0]
  /\ UNCHANGED <<destination, rowVars, jobNo, answer, alerted, reopened, late,
                 faults>>

\* The next destination's rows go out in one request.
SendGroup(w) ==
  /\ pc[w] = "next" /\ solo[w] = {}
  /\ \E d \in Destinations :
       LET group == {r \in todo[w] : DestOf[r] = d}
       IN  /\ group # {}
           /\ Send(w, group)
           /\ todo' = [todo EXCEPT ![w] = @ \ group]
  /\ UNCHANGED solo

\* A rejected group goes out again, one event at a time.
SendSolo(w) ==
  /\ pc[w] = "next"
  /\ \E r \in solo[w] :
       /\ Send(w, {r})
       /\ solo' = [solo EXCEPT ![w] = @ \ {r}]
  /\ UNCHANGED todo

\* What the Events API may answer for a request, as send() classifies it.  A
\* timeout or a transport error is "retry".
Answers(rows) ==
  IF \E r \in rows : r \in Malformed \/ DestOf[r] \in Refused
    THEN {"retry", "permanent"}
    ELSE {"retry", "success"}

NeverSplits(w, a) == FALSE

\* Is a rejection shared by several events, none of which need be at fault?
Splits(w, a) == a = "permanent" /\ Cardinality(batch[w]) > 1

Respond(w) ==
  /\ pc[w] = "sending"
  /\ \E a \in Answers(batch[w]) :
       IF Splits(w, a)
         THEN /\ solo' = [solo EXCEPT ![w] = batch[w]]
              /\ batch' = [batch EXCEPT ![w] = {}]
              /\ pc' = [pc EXCEPT ![w] = "next"]
              /\ UNCHANGED answer
         ELSE /\ answer' = [answer EXCEPT ![w] = a]
              /\ pc' = [pc EXCEPT ![w] = "recording"]
              /\ UNCHANGED <<solo, batch>>
  /\ waited' = [waited EXCEPT ![w] = 0]
  /\ UNCHANGED <<destination, rowVars, todo, jobNo, alerted, reopened, late,
                 faults>>

-----------------------------------------------------------------------------
(* Recording *)

CanRetry(w, r) == answer[w] = "retry" /\ jobNo[w][r] < MaxAttempts

Verdict(w, r) ==
  IF answer[w] = "success" THEN "delivered"
  ELSE IF CanRetry(w, r) THEN "retry_scheduled" ELSE "failed_permanently"

OutcomeOf(verdict) ==
  IF verdict = "delivered" THEN "success"
  ELSE IF verdict = "retry_scheduled" THEN "retry" ELSE "failure"

OneAttemptPerRow(w) ==
  {[row |-> r, number |-> jobNo[w][r], outcome |-> OutcomeOf(Verdict(w, r))] :
     r \in {q \in batch[w] : \A e \in ledger : e.row # q}}

\* The attempt rows this transaction inserts: ON CONFLICT (outbox_id,
\* attempt_number) DO NOTHING.
NewAttempts(w) ==
  {[row |-> r, number |-> jobNo[w][r], outcome |-> OutcomeOf(Verdict(w, r))] :
     r \in {q \in batch[w] : \A e \in ledger :
              ~(e.row = q /\ e.number = jobNo[w][q])}}

\* Does the failure end the retries of everything in the request?
Terminal(w) ==
  \/ answer[w] = "permanent"
  \/ answer[w] = "retry" /\ \A r \in batch[w] : jobNo[w][r] >= MaxAttempts

\* Where the worker goes once the request at hand is dealt with.
Onward(w) == IF todo[w] = {} /\ solo[w] = {} THEN "idle" ELSE "next"

\* The UPDATE names the row by id alone: it neither looks at the status nor at
\* who holds the lock.  An attempt row cannot be inserted for a deleted row.
Record(w) ==
  /\ pc[w] = "recording"
  /\ \A r \in batch[w] : status[r] # "deleted"
  /\ ledger' = ledger \cup NewAttempts(w)
  /\ status' = [r \in Rows |->
       IF r \in batch[w] THEN Verdict(w, r) ELSE status[r]]
  /\ Unlock(batch[w])
  /\ \E wait \in [batch[w] -> Delays] :
       delay' = [r \in Rows |->
         IF r \in batch[w] /\ CanRetry(w, r) THEN wait[r] ELSE delay[r]]
  /\ pc' = [pc EXCEPT ![w] = IF Terminal(w) THEN "alerting" ELSE Onward(w)]
  /\ batch' = [batch EXCEPT ![w] = IF Terminal(w) THEN @ ELSE {}]
  /\ jobNo' = [jobNo EXCEPT ![w] = [r \in Rows |->
       IF r \in batch[w] THEN 0 ELSE jobNo[w][r]]]
  /\ answer' = [answer EXCEPT ![w] = "none"]
  /\ UNCHANGED <<destination, attempts, todo, solo, waited, alerted, reopened,
                 faults>>
  /\ LetGo

\* The notification, after the commit; its errors are swallowed.
Alert(w) ==
  /\ pc[w] = "alerting"
  /\ \/ alerted' = alerted \cup batch[w] /\ UNCHANGED faults
     \/ faults < MaxFaults /\ faults' = faults + 1 /\ UNCHANGED alerted
  /\ pc' = [pc EXCEPT ![w] = Onward(w)]
  /\ batch' = [batch EXCEPT ![w] = {}]
  /\ UNCHANGED <<destination, rowVars, todo, solo, jobNo, answer, waited,
                 reopened, late>>

\* The rest of the pass is given up: its rows stay "processing".
GiveUp(w) ==
  /\ pc' = [pc EXCEPT ![w] = "idle"]
  /\ todo' = [todo EXCEPT ![w] = {}]
  /\ solo' = [solo EXCEPT ![w] = {}]
  /\ batch' = [batch EXCEPT ![w] = {}]
  /\ jobNo' = [jobNo EXCEPT ![w] = [r \in Rows |-> 0]]
  /\ answer' = [answer EXCEPT ![w] = "none"]
  /\ waited' = [waited EXCEPT ![w] = 0]
  /\ UNCHANGED <<destination, rowVars, alerted, reopened>>
  /\ LetGo

\* A transaction that fails: the foreign key of the attempt row (a row of the
\* request was deleted meanwhile), or the database.
RecordFails(w) ==
  /\ pc[w] = "recording"
  /\ \/ (\E r \in batch[w] : status[r] = "deleted") /\ UNCHANGED faults
     \/ faults < MaxFaults /\ faults' = faults + 1
  /\ GiveUp(w)

\* The process dies and is started again by its supervisor.
Crash(w) ==
  /\ pc[w] # "idle"
  /\ faults < MaxFaults /\ faults' = faults + 1
  /\ GiveUp(w)

-----------------------------------------------------------------------------
(* The rest of the system, as the outbox sees it *)

\* Ingestion writes one row per active destination with a token.
Enqueue(r) ==
  /\ status[r] = "absent" /\ Deliverable(r)
  /\ status' = [status EXCEPT ![r] = "pending"]
  /\ UNCHANGED <<destination, attempts, lockAge, delay, ledger, workerVars,
                 alerted, reopened, late, faults>>

\* Deleting a row takes its columns and its attempt rows with it.
Delete(rows) ==
  /\ status' = [r \in Rows |-> IF r \in rows THEN "deleted" ELSE status[r]]
  /\ Unlock(rows)
  /\ attempts' = [r \in Rows |-> IF r \in rows THEN 0 ELSE attempts[r]]
  /\ delay' = [r \in Rows |-> IF r \in rows THEN 0 ELSE delay[r]]
  /\ ledger' = {e \in ledger : e.row \notin rows}
  /\ alerted' = alerted \ rows
  /\ UNCHANGED <<workerVars, reopened, late, faults>>

\* Clearing analytics deletes events, and with them their outbox rows.
Clear(rows) ==
  /\ rows # {} /\ \A r \in rows : status[r] \notin {"absent", "deleted"}
  /\ Delete(rows)
  /\ UNCHANGED destination

\* A pixel is removed, paused (or loses its token), or activated again.
RemoveDestination(d) ==
  /\ destination[d] # "removed"
  /\ destination' = [destination EXCEPT ![d] = "removed"]
  /\ Delete({r \in Rows : DestOf[r] = d /\ status[r] # "absent"})

ToggleDestination(d) ==
  /\ destination[d] # "removed"
  /\ destination' = [destination EXCEPT ![d] =
       IF @ = "active" THEN "inactive" ELSE "active"]
  /\ UNCHANGED <<rowVars, workerVars, alerted, reopened, late, faults>>

\* retryFailedTikTokEvents, for a whole business or for one page.
RetryFailed(rows) ==
  /\ rows # {}
  /\ \A r \in rows : status[r] = "failed_permanently" /\ reopened[r] < MaxReopens
  /\ status' = [r \in Rows |->
       IF r \in rows THEN "retry_scheduled" ELSE status[r]]
  /\ attempts' = [r \in Rows |-> IF r \in rows THEN 0 ELSE attempts[r]]
  /\ delay' = [r \in Rows |-> IF r \in rows THEN 0 ELSE delay[r]]
  /\ Unlock(rows)
  /\ reopened' = [r \in Rows |->
       IF r \in rows THEN reopened[r] + 1 ELSE reopened[r]]
  /\ UNCHANGED <<destination, ledger, workerVars, alerted, late, faults>>

\* A request is answered or aborted within its timeout.  Whether time passes
\* while a process works between two requests is the constant Stalls.
Tick ==
  /\ \A w \in Workers :
       \/ pc[w] = "idle"
       \/ pc[w] = "sending" /\ waited[w] = 0
       \/ pc[w] # "sending" /\ Stalls
  /\ lockAge' = [r \in Rows |->
       IF lockAge[r] \in 0 .. StaleCutoff THEN lockAge[r] + 1 ELSE lockAge[r]]
  /\ delay' = [r \in Rows |-> IF delay[r] > 0 THEN delay[r] - 1 ELSE 0]
  /\ waited' = [w \in Workers |-> IF pc[w] = "sending" THEN 1 ELSE 0]
  /\ late' = late \cup {r \in Rows :
       lockAge'[r] > StaleCutoff /\ \E w \in Workers : r \in Held(w)}
  /\ UNCHANGED <<destination, status, attempts, ledger, pc, todo, solo, batch,
                 jobNo, answer, alerted, reopened, faults>>

-----------------------------------------------------------------------------
Deliver(w) == SendGroup(w) \/ SendSolo(w) \/ Respond(w) \/ Record(w) \/ Alert(w)

Next ==
  \/ \E w \in Workers : Claim(w) \/ Deliver(w) \/ RecordFails(w) \/ Crash(w)
  \/ \E r \in Rows : Enqueue(r)
  \/ \E rows \in SUBSET Rows : Clear(rows) \/ RetryFailed(rows)
  \/ \E d \in Destinations : RemoveDestination(d) \/ ToggleDestination(d)
  \/ Tick

Spec == Init /\ [][Next]_vars

\* The two-second timer of every process keeps firing, a started pass runs to
\* its end, and time passes.
Fairness ==
  /\ \A w \in Workers :
       WF_vars(Claim(w)) /\ WF_vars(Deliver(w) \/ RecordFails(w))
  /\ WF_vars(Tick)

FairSpec == Spec /\ Fairness

-----------------------------------------------------------------------------
(* Properties *)

\* A row is locked exactly while it is "processing": a locked row in any other
\* status would be invisible to the reclaim, and a "processing" row without
\* locked_at would never be recovered (tiktok-outbox.processor.ts, claim).
LockedWhileProcessing ==
  \A r \in Rows : status[r] = "processing" <=> lockAge[r] # Unlocked

\* However late a worker is, until a row is retried by hand no two workers
\* hold the same attempt of it, and none holds an attempt that was never
\* counted: the attempt number identifies the claim.
AttemptIdentifiesClaim ==
  \A r \in Rows : reopened[r] = 0 /\ status[r] # "deleted" =>
    \A w \in Workers : r \in Held(w) =>
      /\ jobNo[w][r] \in 1 .. attempts[r]
      /\ \A v \in Workers \ {w} : r \in Held(v) => jobNo[v][r] # jobNo[w][r]

\* The status a worker leaves behind is backed by an attempt row with the same
\* outcome, until the row is retried by hand (deliver: the attempt rows line
\* up with the requests that happened).
OnRecord(r) ==
  status[r] \in {"delivered", "retry_scheduled", "failed_permanently"} =>
    \E e \in ledger : e.row = r /\ e.outcome = OutcomeOf(status[r])
SettledOnRecord == \A r \in Rows : reopened[r] = 0 => OnRecord(r)

\* An event that is not at fault, at a destination that works, is failed only
\* after all its attempts: a malformed sibling of the same batch never takes
\* it down (deliver splits a rejected batch).
HealthyRow(r) == r \notin Malformed /\ DestOf[r] \notin Refused
HealthyFailsOnlyExhausted ==
  \A r \in Rows :
    HealthyRow(r) /\ status[r] = "failed_permanently" /\ reopened[r] = 0 =>
      attempts[r] >= MaxAttempts

\* While nobody has held a row past the cutoff, its lease is exclusive: one
\* worker holds it, and it is locked for that worker's attempt.  A row is taken
\* from a worker only after ten minutes (STALE_LOCK_CUTOFF), whatever crashes,
\* deletions and retries happen meanwhile; and once all who held a late row
\* are done with it, it can be leased again like any other.
LeaseExclusive ==
  \A r \in Rows \ late, w \in Workers : r \in Held(w) =>
    /\ \A v \in Workers \ {w} : r \notin Held(v)
    /\ \/ status[r] = "deleted"
       \/ /\ status[r] = "processing"
          /\ attempts[r] = jobNo[w][r]
          /\ lockAge[r] <= StaleCutoff

\* A request under way is not stolen: what the comment on STALE_LOCK_CUTOFF
\* says ("a slow but live request is never stolen from the worker that owns
\* it").  A pass may take longer than the cutoff, so it can be.
LiveRequestNotStolen ==
  \A w \in Workers : pc[w] = "sending" =>
    \A r \in batch[w], v \in Workers \ {w} : r \notin Held(v)

\* What was delivered or cancelled stays so until it is deleted, unless a
\* worker that has held the row past the cutoff has yet to record it: only
\* such a worker, whose UPDATE names the row by its id alone, revives it.
SettledIsFinal ==
  [][\A r \in Rows \ late : status[r] \in {"delivered", "cancelled"} =>
       status'[r] \in {status[r], "deleted"}]_vars

\* Every queued event is eventually settled or deleted, whatever crashes and
\* overlapping workers did to it, and no row is left "processing" for good.
EveryRowSettles ==
  \A r \in Rows :
    status[r] \in Live ~> status[r] \in Settled \cup {"deleted"}

-----------------------------------------------------------------------------
(* Why leases are exclusive *)

\* What a worker holds at each point of its pass.
Stage(w) ==
  /\ todo[w] \cap solo[w] = {}
  /\ batch[w] \cap (todo[w] \cup solo[w]) = {}
  /\ pc[w] = "idle" => todo[w] = {} /\ solo[w] = {}
  /\ pc[w] \in {"idle", "next"} => batch[w] = {}
  /\ pc[w] = "sending" /\ solo[w] # {} => Cardinality(batch[w]) = 1

\* A row that a worker holds is held by nobody else, and locked for the attempt.
Leased(r, w) ==
  /\ \A v \in Workers \ {w} : r \notin Held(v)
  /\ \/ status[r] = "deleted"
     \/ /\ status[r] = "processing"
        /\ attempts[r] = jobNo[w][r]
        /\ lockAge[r] <= StaleCutoff

\* The inductive invariant: a worker's stage is consistent, and what it holds
\* and is not late is leased to it.
LeaseInv ==
  /\ \A w \in Workers : Stage(w)
  /\ \A w \in Workers : \A r \in Held(w) \ late : Leased(r, w)

-----------------------------------------------------------------------------
(* Why a row's record is right however late a worker is *)

\* Until a row is retried by hand or deleted, the attempts in its ledger and
\* those that workers hold are different ones, and all were counted.
NumbersInv(r) ==
  /\ \A e \in ledger : e.row = r => e.number \in 1 .. attempts[r]
  /\ \A w \in Workers : r \in Held(w) =>
       /\ jobNo[w][r] \in 1 .. attempts[r]
       /\ \A v \in Workers \ {w} : r \in Held(v) => jobNo[v][r] # jobNo[w][r]
       /\ \A e \in ledger : e.row = r => e.number # jobNo[w][r]

\* An answer is recorded, and a rejection only of one row, itself at fault.
RejectedAlone(w) ==
  pc[w] = "recording" =>
    /\ answer[w] # "none"
    /\ answer[w] = "permanent" => \A r \in batch[w] : ~HealthyRow(r)

\* The inductive invariant: leases may go stale, attempt numbers do not.
ClaimInv ==
  /\ \A w \in Workers : Stage(w) /\ RejectedAlone(w)
  /\ \A r \in Rows : reopened[r] = 0 /\ status[r] # "deleted" => NumbersInv(r)

-----------------------------------------------------------------------------
(* The promise the outbox keeps *)

PhaseOf(r) ==
  IF status[r] \in Live THEN "queued"
  ELSE IF status[r] = "failed_permanently" THEN "failed" ELSE status[r]

Promise == INSTANCE EventDelivery WITH phase <- [r \in Rows |-> PhaseOf(r)]

\* Every step of the workers, of ingestion and of the dashboard is a step of
\* EventDelivery or changes nothing there.  (That no event stays queued is
\* EveryRowSettles.)
KeepsPromise == Promise!Spec
=============================================================================
