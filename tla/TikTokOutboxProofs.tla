------------------------- MODULE TikTokOutboxProofs -------------------------
(***************************************************************************)
(* Proofs about the outbox, for every number of rows, destinations and     *)
(* workers.                                                                *)
(***************************************************************************)
EXTENDS TikTokOutbox, FiniteSetTheorems, TLAPS

-----------------------------------------------------------------------------
(* Types *)

\* What a claim picks is a set of rows.
LEMMA BatchesAreRows ==
  ASSUME NEW picked \in Batches
  PROVE  picked \in SUBSET Rows /\ \A r \in picked : Ready(r)
BY DEF Batches

LEMMA ClaimType ==
  ASSUME TypeOK, NEW w \in Workers, Claim(w)
  PROVE  TypeOK'
<1>1. PICK picked \in Batches :
        /\ status' = [r \in Rows |->
             IF r \in picked THEN "processing"
             ELSE IF r \in {q \in Rows : Abandonable(q)} THEN "cancelled"
             ELSE status[r]]
        /\ lockAge' = [r \in Rows |->
             IF r \in picked THEN 0
             ELSE IF r \in {q \in Rows : Abandonable(q)} THEN Unlocked
             ELSE lockAge[r]]
        /\ attempts' = [r \in Rows |->
             IF r \in picked THEN NextAttempt(r) ELSE attempts[r]]
        /\ jobNo' = [jobNo EXCEPT ![w] = [r \in Rows |->
             IF r \in picked THEN NextAttempt(r) ELSE 0]]
        /\ todo' = [todo EXCEPT ![w] = picked]
        /\ pc' = [pc EXCEPT ![w] = IF picked = {} THEN "idle" ELSE "next"]
  BY DEF Claim
<1>2. picked \in SUBSET Rows
  BY BatchesAreRows
<1>3. \A r \in Rows : NextAttempt(r) \in Nat
  BY DEF TypeOK, NextAttempt
<1>4. status' \in [Rows -> {"absent", "deleted"} \cup Live \cup Settled]
  BY <1>1 DEF TypeOK, Live, Settled
<1>5. lockAge' \in [Rows -> Unlocked .. StaleCutoff + 1]
  BY <1>1, OutboxAssumption DEF TypeOK, Unlocked
<1>6. attempts' \in [Rows -> Nat] /\ jobNo' \in [Workers -> [Rows -> Nat]]
  BY <1>1, <1>3 DEF TypeOK
<1>7. /\ todo' \in [Workers -> SUBSET Rows]
      /\ pc' \in [Workers -> {"idle", "next", "sending", "recording", "alerting"}]
  BY <1>1, <1>2 DEF TypeOK
<1>8. QED
  BY <1>4, <1>5, <1>6, <1>7 DEF TypeOK, Claim

LEMMA SendType ==
  ASSUME TypeOK, NEW w \in Workers, SendGroup(w) \/ SendSolo(w)
  PROVE  TypeOK'
<1>1. CASE SendGroup(w)
  BY <1>1 DEF TypeOK, SendGroup, Send, rowVars
<1>2. CASE SendSolo(w)
  BY <1>2 DEF TypeOK, SendSolo, Send, rowVars
<1>3. QED
  BY <1>1, <1>2

LEMMA RespondType ==
  ASSUME TypeOK, NEW w \in Workers, Respond(w)
  PROVE  TypeOK'
<1>1. PICK a \in Answers(batch[w]) :
        IF Splits(w, a)
          THEN /\ solo' = [solo EXCEPT ![w] = batch[w]]
               /\ batch' = [batch EXCEPT ![w] = {}]
               /\ pc' = [pc EXCEPT ![w] = "next"]
               /\ UNCHANGED answer
          ELSE /\ answer' = [answer EXCEPT ![w] = a]
               /\ pc' = [pc EXCEPT ![w] = "recording"]
               /\ UNCHANGED <<solo, batch>>
  BY DEF Respond
<1>2. a \in {"success", "retry", "permanent"}
  BY DEF Answers
<1>3. /\ solo' \in [Workers -> SUBSET Rows]
      /\ batch' \in [Workers -> SUBSET Rows]
      /\ pc' \in [Workers -> {"idle", "next", "sending", "recording", "alerting"}]
      /\ answer' \in [Workers -> {"none", "success", "retry", "permanent"}]
  <2>1. CASE Splits(w, a)
    BY <1>1, <2>1 DEF TypeOK
  <2>2. CASE ~Splits(w, a)
    BY <1>1, <1>2, <2>2 DEF TypeOK
  <2>3. QED
    BY <2>1, <2>2
<1>4. QED
  BY <1>3 DEF TypeOK, Respond, rowVars

LEMMA VerdictType ==
  ASSUME NEW w \in Workers, NEW r \in Rows
  PROVE  /\ Verdict(w, r) \in {"delivered", "retry_scheduled", "failed_permanently"}
         /\ OutcomeOf(Verdict(w, r)) \in Outcomes
BY DEF Verdict, OutcomeOf, Outcomes

LEMMA RecordType ==
  ASSUME TypeOK, NEW w \in Workers, Record(w)
  PROVE  TypeOK'
<1>1. batch[w] \in SUBSET Rows /\ jobNo[w] \in [Rows -> Nat]
  BY DEF TypeOK
<1>2. NewAttempts(w) \subseteq [row : Rows, number : Nat, outcome : Outcomes]
  BY <1>1, VerdictType DEF NewAttempts
<1>3. ledger' \subseteq [row : Rows, number : Nat, outcome : Outcomes]
  BY <1>2 DEF TypeOK, Record
<1>4. status' \in [Rows -> {"absent", "deleted"} \cup Live \cup Settled]
  BY VerdictType DEF TypeOK, Record, Live, Settled, Waiting
<1>5. lockAge' \in [Rows -> Unlocked .. StaleCutoff + 1]
  BY OutboxAssumption DEF TypeOK, Record, Unlock, Unlocked
<1>6. delay' \in [Rows -> Nat]
  <2>1. PICK wait \in [batch[w] -> Delays] :
          delay' = [r \in Rows |->
            IF r \in batch[w] /\ CanRetry(w, r) THEN wait[r] ELSE delay[r]]
    BY DEF Record
  <2>2. QED
    BY <2>1, OutboxAssumption DEF TypeOK
<1>7. jobNo' \in [Workers -> [Rows -> Nat]]
  BY <1>1 DEF TypeOK, Record
<1>8. pc' \in [Workers -> {"idle", "next", "sending", "recording", "alerting"}]
  BY DEF TypeOK, Record, Onward
<1>9. /\ batch' \in [Workers -> SUBSET Rows]
      /\ answer' \in [Workers -> {"none", "success", "retry", "permanent"}]
  BY <1>1 DEF TypeOK, Record
<1>10. QED
  BY <1>3, <1>4, <1>5, <1>6, <1>7, <1>8, <1>9 DEF TypeOK, Record, LetGo

LEMMA AlertType ==
  ASSUME TypeOK, NEW w \in Workers, Alert(w)
  PROVE  TypeOK'
BY DEF TypeOK, Alert, Onward, rowVars

LEMMA GiveUpType ==
  ASSUME TypeOK, NEW w \in Workers, RecordFails(w) \/ Crash(w)
  PROVE  TypeOK'
<1>1. faults' \in Nat /\ GiveUp(w)
  BY DEF TypeOK, RecordFails, Crash
<1>2. QED
  BY <1>1 DEF TypeOK, GiveUp, rowVars, LetGo

LEMMA EnqueueType ==
  ASSUME TypeOK, NEW r \in Rows, Enqueue(r)
  PROVE  TypeOK'
BY DEF TypeOK, Enqueue, workerVars, Live, Waiting

\* Deleting rows preserves the types of everything it names.
LEMMA DeleteType ==
  ASSUME TypeOK, NEW rows \in SUBSET Rows, Delete(rows),
         destination' \in [Destinations -> {"active", "inactive", "removed"}]
  PROVE  TypeOK'
<1>1. lockAge' \in [Rows -> Unlocked .. StaleCutoff + 1]
  BY OutboxAssumption DEF TypeOK, Delete, Unlock, Unlocked
<1>2. QED
  BY <1>1 DEF TypeOK, Delete, workerVars

LEMMA DestinationType ==
  ASSUME TypeOK, NEW d \in Destinations,
         RemoveDestination(d) \/ ToggleDestination(d)
  PROVE  TypeOK'
<1>1. CASE RemoveDestination(d)
  BY <1>1, DeleteType DEF RemoveDestination, TypeOK
<1>2. CASE ToggleDestination(d)
  BY <1>2 DEF TypeOK, ToggleDestination, rowVars, workerVars
<1>3. QED
  BY <1>1, <1>2

LEMMA RetryFailedType ==
  ASSUME TypeOK, NEW rows \in SUBSET Rows, RetryFailed(rows)
  PROVE  TypeOK'
<1>1. lockAge' \in [Rows -> Unlocked .. StaleCutoff + 1]
  BY OutboxAssumption DEF TypeOK, RetryFailed, Unlock, Unlocked
<1>2. status' \in [Rows -> {"absent", "deleted"} \cup Live \cup Settled]
  BY DEF TypeOK, RetryFailed, Live, Waiting
<1>3. QED
  BY <1>1, <1>2 DEF TypeOK, RetryFailed, workerVars

LEMMA TickType ==
  ASSUME TypeOK, Tick
  PROVE  TypeOK'
<1>1. lockAge' \in [Rows -> Unlocked .. StaleCutoff + 1]
  BY OutboxAssumption DEF TypeOK, Tick, Unlocked
<1>2. delay' \in [Rows -> Nat]
  BY DEF TypeOK, Tick
<1>3. QED
  BY <1>1, <1>2 DEF TypeOK, Tick

LEMMA TypeNext ==
  ASSUME TypeOK, [Next]_vars
  PROVE  TypeOK'
<1>1. ASSUME NEW w \in Workers,
             Claim(w) \/ Deliver(w) \/ RecordFails(w) \/ Crash(w)
      PROVE  TypeOK'
  BY <1>1, ClaimType, SendType, RespondType, RecordType, AlertType, GiveUpType
     DEF Deliver
<1>2. ASSUME NEW r \in Rows, Enqueue(r)
      PROVE  TypeOK'
  BY <1>2, EnqueueType
<1>3. ASSUME NEW rows \in SUBSET Rows, Clear(rows) \/ RetryFailed(rows)
      PROVE  TypeOK'
  <2>1. CASE Clear(rows)
    BY <2>1, DeleteType DEF Clear, TypeOK
  <2>2. QED
    BY <1>3, <2>1, RetryFailedType
<1>4. ASSUME NEW d \in Destinations, RemoveDestination(d) \/ ToggleDestination(d)
      PROVE  TypeOK'
  BY <1>4, DestinationType
<1>5. CASE UNCHANGED vars
  BY <1>5 DEF TypeOK, vars, rowVars, workerVars
<1>6. QED
  BY <1>1, <1>2, <1>3, <1>4, <1>5, TickType DEF Next

\* Every variable keeps its type: in particular a lock's age never runs past
\* the point where the row can be reclaimed, and attempts only counts.
THEOREM TypeCorrect == Spec => []TypeOK
<1>1. Init => TypeOK
  BY OutboxAssumption DEF Init, TypeOK, Unlocked
<1>2. TypeOK /\ [Next]_vars => TypeOK'
  BY TypeNext
<1>3. QED
  BY <1>1, <1>2, PTL DEF Spec

-----------------------------------------------------------------------------
(* What workers hold *)

LEMMA RowSets ==
  ASSUME NEW S \in SUBSET Rows
  PROVE  IsFiniteSet(S) /\ Cardinality(S) \in Nat
BY OutboxAssumption, FS_Subset, FS_CardinalityType

\* What a worker holds at each point of its pass, however long the pass takes.
LEMMA StageNext ==
  ASSUME TypeOK, \A w \in Workers : Stage(w), [Next]_vars, NEW v \in Workers
  PROVE  Stage(v)'
<1>0. Stage(v)
  OBVIOUS
<1>1. CASE /\ todo'[v] = todo[v] /\ solo'[v] = solo[v] /\ batch'[v] = batch[v]
           /\ pc'[v] = pc[v]
  BY <1>0, <1>1 DEF Stage
<1>2. CASE Claim(v)
  <2>1. PICK picked \in SUBSET Rows :
          /\ todo' = [todo EXCEPT ![v] = picked]
          /\ pc' = [pc EXCEPT ![v] = IF picked = {} THEN "idle" ELSE "next"]
          /\ solo' = solo /\ batch' = batch /\ pc[v] = "idle"
    BY <1>2, BatchesAreRows DEF Claim
  <2>2. /\ todo'[v] = picked /\ solo'[v] = {} /\ batch'[v] = {}
        /\ pc'[v] = IF picked = {} THEN "idle" ELSE "next"
    BY <1>0, <2>1 DEF Stage, TypeOK
  <2>3. QED
    BY <2>2 DEF Stage
<1>3. CASE SendGroup(v)
  <2> DEFINE group(d) == {r \in todo[v] : DestOf[r] = d}
  <2>1. PICK d \in Destinations :
          /\ batch' = [batch EXCEPT ![v] = group(d)]
          /\ pc' = [pc EXCEPT ![v] = "sending"]
          /\ todo' = [todo EXCEPT ![v] = @ \ group(d)]
          /\ solo' = solo /\ solo[v] = {}
    BY <1>3 DEF SendGroup, Send
  <2>2. /\ batch'[v] = group(d) /\ pc'[v] = "sending" /\ solo'[v] = {}
        /\ todo'[v] = todo[v] \ group(d)
    BY <2>1 DEF TypeOK
  <2>3. QED
    BY <2>2 DEF Stage
<1>4. CASE SendSolo(v)
  <2>1. PICK r \in solo[v] :
          /\ batch'[v] = {r} /\ pc'[v] = "sending" /\ todo' = todo
          /\ solo'[v] = solo[v] \ {r}
    BY <1>4 DEF SendSolo, Send, TypeOK
  <2>2. Cardinality(batch'[v]) = 1
    BY <2>1, FS_Singleton
  <2>3. QED
    BY <1>0, <2>1, <2>2 DEF Stage
<1>5. CASE Respond(v)
  <2>1. pc[v] = "sending" /\ todo' = todo
    BY <1>5 DEF Respond
  <2>2. \/ solo'[v] = batch[v] /\ batch'[v] = {} /\ pc'[v] = "next"
        \/ solo' = solo /\ batch' = batch /\ pc'[v] = "recording"
    BY <1>5 DEF Respond, TypeOK
  <2>3. QED
    BY <1>0, <2>1, <2>2 DEF Stage
<1>6. CASE Record(v) \/ Alert(v)
  <2>1. /\ todo' = todo /\ solo' = solo /\ batch'[v] \in {batch[v], {}}
        /\ pc'[v] \in {"alerting", "next", "idle"}
        /\ pc'[v] # "alerting" => batch'[v] = {}
        /\ pc'[v] = "idle" => todo[v] = {} /\ solo[v] = {}
    BY <1>6 DEF Record, Alert, Onward, TypeOK
  <2>2. QED
    BY <1>0, <2>1 DEF Stage
<1>7. CASE RecordFails(v) \/ Crash(v)
  <2>1. todo'[v] = {} /\ solo'[v] = {} /\ batch'[v] = {} /\ pc'[v] = "idle"
    BY <1>7 DEF RecordFails, Crash, GiveUp, TypeOK
  <2>2. QED
    BY <2>1 DEF Stage
<1>8. ASSUME NEW w \in Workers \ {v},
             Claim(w) \/ Deliver(w) \/ RecordFails(w) \/ Crash(w)
      PROVE  Stage(v)'
  BY <1>1, <1>8 DEF TypeOK, Claim, Deliver, SendGroup, SendSolo, Send, Respond,
     Record, Alert, RecordFails, Crash, GiveUp
<1>9. CASE UNCHANGED <<pc, todo, solo, batch>>
  BY <1>1, <1>9
<1>10. QED
  BY <1>2, <1>3, <1>4, <1>5, <1>6, <1>7, <1>8, <1>9 DEF Next, Deliver, Enqueue,
     Clear, Delete, RetryFailed, RemoveDestination, ToggleDestination, Tick,
     vars, workerVars

\* Only a claim gives a worker rows, and numbers to go with them.
LEMMA HeldLater ==
  ASSUME TypeOK, [Next]_vars, NEW v \in Workers, ~Claim(v), NEW r \in Rows,
         Stage(v), r \in Held(v)'
  PROVE  r \in Held(v) /\ jobNo'[v][r] = jobNo[v][r]
<1>1. CASE UNCHANGED workerVars
  BY <1>1 DEF workerVars, Held
<1>2. ASSUME NEW w \in Workers \ {v},
             Claim(w) \/ Deliver(w) \/ RecordFails(w) \/ Crash(w)
      PROVE  /\ todo'[v] = todo[v] /\ solo'[v] = solo[v] /\ batch'[v] = batch[v]
             /\ pc'[v] = pc[v] /\ jobNo'[v] = jobNo[v]
  BY <1>2 DEF TypeOK, Claim, Deliver, SendGroup, SendSolo, Send, Respond,
     Record, Alert, RecordFails, Crash, GiveUp
<1>3. CASE SendGroup(v)
  BY <1>3 DEF TypeOK, SendGroup, Send, Held
<1>4. CASE SendSolo(v)
  BY <1>4 DEF TypeOK, SendSolo, Send, Held
<1>5. CASE Respond(v)
  BY <1>5 DEF TypeOK, Respond, Held
<1>6. CASE Record(v)
  <2>1. /\ todo' = todo /\ solo' = solo
        /\ pc'[v] # "alerting" => batch'[v] = {}
    BY <1>6 DEF TypeOK, Record, Onward
  <2>2. r \in todo[v] \cup solo[v]
    BY <2>1 DEF Held
  <2>3. r \notin batch[v]
    BY <2>2 DEF Stage
  <2>4. jobNo'[v][r] = jobNo[v][r]
    BY <1>6, <2>3 DEF TypeOK, Record
  <2>5. QED
    BY <2>2, <2>4 DEF Held
<1>7. CASE Alert(v)
  BY <1>7 DEF TypeOK, Alert, Onward, Held
<1>8. CASE RecordFails(v) \/ Crash(v)
  BY <1>8 DEF TypeOK, RecordFails, Crash, GiveUp, Held
<1>9. CASE Tick
  BY <1>9 DEF Tick, Held
<1>10. CASE \E w \in Workers \ {v} :
              Claim(w) \/ Deliver(w) \/ RecordFails(w) \/ Crash(w)
  BY <1>2, <1>10 DEF Held
<1>11. QED
  BY <1>1, <1>3, <1>4, <1>5, <1>6, <1>7, <1>8, <1>9, <1>10 DEF Next, Deliver,
     Enqueue, Clear, Delete, RetryFailed, RemoveDestination, ToggleDestination,
     vars

\* A claim hands out rows that were ready, as new attempts with a fresh lock.
LEMMA ClaimedRows ==
  ASSUME TypeOK, NEW w \in Workers, Stage(w), Claim(w)
  PROVE  \E picked \in SUBSET Rows :
           /\ Held(w)' = picked
           /\ \A r \in picked :
                /\ Ready(r) /\ status'[r] = "processing" /\ lockAge'[r] = 0
                /\ attempts'[r] = NextAttempt(r) /\ jobNo'[w][r] = NextAttempt(r)
           /\ \A r \in Rows \ picked : ~Abandonable(r) =>
                /\ status'[r] = status[r]
                /\ attempts'[r] = attempts[r]
                /\ lockAge'[r] = lockAge[r]
           /\ \A v \in Workers \ {w} : Held(v)' = Held(v) /\ jobNo'[v] = jobNo[v]
           /\ late' = late
<1>1. PICK picked \in Batches :
        /\ status' = [r \in Rows |->
             IF r \in picked THEN "processing"
             ELSE IF r \in {q \in Rows : Abandonable(q)} THEN "cancelled"
             ELSE status[r]]
        /\ lockAge' = [r \in Rows |->
             IF r \in picked THEN 0
             ELSE IF r \in {q \in Rows : Abandonable(q)} THEN Unlocked
             ELSE lockAge[r]]
        /\ attempts' = [r \in Rows |->
             IF r \in picked THEN NextAttempt(r) ELSE attempts[r]]
        /\ jobNo' = [jobNo EXCEPT ![w] = [r \in Rows |->
             IF r \in picked THEN NextAttempt(r) ELSE 0]]
        /\ todo' = [todo EXCEPT ![w] = picked]
        /\ pc' = [pc EXCEPT ![w] = IF picked = {} THEN "idle" ELSE "next"]
        /\ solo' = solo /\ batch' = batch /\ late' = late /\ pc[w] = "idle"
  BY DEF Claim
<1>2. picked \in SUBSET Rows /\ \A r \in picked : Ready(r)
  BY BatchesAreRows
<1>3. Held(w)' = picked
  BY <1>1 DEF Stage, Held, TypeOK
<1>4. \A v \in Workers \ {w} : Held(v)' = Held(v) /\ jobNo'[v] = jobNo[v]
  BY <1>1 DEF Held, TypeOK
<1>5. \A r \in picked :
        /\ status'[r] = "processing" /\ lockAge'[r] = 0
        /\ attempts'[r] = NextAttempt(r) /\ jobNo'[w][r] = NextAttempt(r)
  BY <1>1, <1>2 DEF TypeOK
<1>6. \A r \in Rows \ picked : ~Abandonable(r) =>
        /\ status'[r] = status[r]
        /\ attempts'[r] = attempts[r]
        /\ lockAge'[r] = lockAge[r]
  BY <1>1
<1>7. QED
  BY <1>1, <1>2, <1>3, <1>4, <1>5, <1>6

-----------------------------------------------------------------------------
(* Exclusive leases *)

\* Rows that are held and not late can neither be claimed nor cancelled.
LEMMA HeldRowsAreSafe ==
  ASSUME TypeOK, LeaseInv, NEW w \in Workers, NEW r \in Held(w) \ late
  PROVE  /\ r \in Rows
         /\ ~Ready(r) /\ ~Abandonable(r)
         /\ status[r] \in {"processing", "deleted"}
<1>1. r \in Rows
  BY DEF TypeOK, Held
<1>2. Leased(r, w) /\ lockAge[r] \in Int /\ StaleCutoff \in Nat
  BY <1>1, OutboxAssumption DEF LeaseInv, TypeOK, Unlocked
<1>3. status[r] \in {"processing", "deleted"} /\ ~Stale(r)
  BY <1>2 DEF Leased, Stale
<1>4. QED
  BY <1>1, <1>3 DEF Ready, Abandonable, Waiting

\* Only a row nobody holds stops being late.
LEMMA LateWhileHeld ==
  ASSUME TypeOK, [Next]_vars, NEW w \in Workers, NEW r \in Held(w)',
         r \notin late'
  PROVE  r \notin late
<1>1. CASE late' = late
  BY <1>1
<1>2. CASE LetGo
  BY <1>2 DEF LetGo
<1>3. CASE Tick
  BY <1>3 DEF Tick
<1>4. QED
  BY <1>1, <1>2, <1>3 DEF Next, Deliver, Claim, SendGroup, SendSolo, Send,
     Respond, Record, Alert, RecordFails, Crash, GiveUp, Enqueue, Clear, Delete,
     RetryFailed, RemoveDestination, ToggleDestination, vars

\* A claim leases what it takes, and takes nothing that is leased.
LEMMA ClaimLease ==
  ASSUME TypeOK, LeaseInv, NEW u \in Workers, Claim(u),
         NEW w \in Workers, NEW r \in Held(w)' \ late'
  PROVE  Leased(r, w)'
<1>1. PICK picked \in SUBSET Rows :
        /\ Held(u)' = picked
        /\ \A q \in picked :
             /\ Ready(q) /\ status'[q] = "processing" /\ lockAge'[q] = 0
             /\ attempts'[q] = NextAttempt(q) /\ jobNo'[u][q] = NextAttempt(q)
        /\ \A q \in Rows \ picked : ~Abandonable(q) =>
             /\ status'[q] = status[q]
             /\ attempts'[q] = attempts[q]
             /\ lockAge'[q] = lockAge[q]
        /\ \A v \in Workers \ {u} : Held(v)' = Held(v) /\ jobNo'[v] = jobNo[v]
        /\ late' = late
  BY ClaimedRows DEF LeaseInv
<1>2. ASSUME NEW v \in Workers \ {u}, r \in Held(v)
      PROVE  r \in Rows /\ r \notin picked /\ ~Abandonable(r)
  <2>1. r \in Held(v) \ late
    BY <1>1, <1>2
  <2>2. QED
    BY <1>1, <2>1, HeldRowsAreSafe
<1>3. CASE w = u
  <2>1. r \in picked
    BY <1>1, <1>3
  <2>2. \A v \in Workers \ {w} : r \notin Held(v)'
    BY <1>1, <1>2, <1>3, <2>1
  <2>3. QED
    BY <1>1, <1>3, <2>1, <2>2, OutboxAssumption DEF Leased
<1>4. CASE w # u
  <2>1. r \in Held(w) /\ Leased(r, w)
    BY <1>1, <1>4 DEF LeaseInv
  <2>2. r \in Rows /\ r \notin picked /\ ~Abandonable(r)
    BY <1>2, <1>4, <2>1
  <2>3. \A v \in Workers \ {w} : r \notin Held(v)'
    BY <1>1, <2>1, <2>2 DEF Leased
  <2>4. QED
    BY <1>1, <1>4, <2>1, <2>2, <2>3 DEF Leased
<1>5. QED
  BY <1>3, <1>4

\* No other step touches the columns of a leased row that stays held, but for
\* deleting it and for the lock growing older.
LEMMA LeasedColumns ==
  ASSUME TypeOK, LeaseInv, [Next]_vars, \A u \in Workers : ~Claim(u),
         NEW w \in Workers, NEW r \in Held(w) \ late,
         r \in Held(w)', r \notin late'
  PROVE  \/ status'[r] = "deleted"
         \/ /\ status'[r] = status[r]
            /\ attempts'[r] = attempts[r]
            /\ lockAge'[r] <= StaleCutoff
<1>1. /\ r \in Rows /\ Leased(r, w)
      /\ status[r] \in {"processing", "deleted"}
  BY HeldRowsAreSafe DEF LeaseInv
<1>2. CASE status[r] = "processing" /\ lockAge[r] <= StaleCutoff
  <2>1. CASE UNCHANGED <<status, attempts, lockAge>>
    BY <1>2, <2>1
  <2>2. ASSUME NEW u \in Workers, Record(u)
        PROVE  r \notin batch[u]
    <3>1. CASE u = w
      <4>1. /\ Stage(u) /\ todo' = todo /\ solo' = solo
            /\ pc'[u] # "alerting" => batch'[u] = {}
        BY <2>2 DEF LeaseInv, TypeOK, Record, Onward
      <4>2. QED
        BY <3>1, <4>1 DEF Stage, Held
    <3>2. CASE u # w
      BY <1>1, <2>2, <3>2 DEF Leased, Held, Record
    <3>3. QED
      BY <3>1, <3>2
  <2>3. CASE \E u \in Workers : Record(u)
    BY <1>1, <1>2, <2>2, <2>3 DEF Record, Unlock
  <2>4. CASE \E q \in Rows : Enqueue(q)
    BY <1>1, <1>2, <2>4 DEF Enqueue, TypeOK
  <2>5. CASE \E rows \in SUBSET Rows : Delete(rows)
    BY <1>1, <1>2, <2>5 DEF Delete, Unlock
  <2>6. CASE \E rows \in SUBSET Rows : RetryFailed(rows)
    BY <1>1, <1>2, <2>6 DEF RetryFailed, Unlock
  <2>7. CASE Tick
    <3>1. ~(lockAge'[r] > StaleCutoff)
      BY <1>1, <2>7 DEF Tick
    <3>2. lockAge'[r] \in Int /\ StaleCutoff \in Int
      BY <1>1, <2>7, OutboxAssumption DEF Tick, TypeOK, Unlocked
    <3>3. QED
      BY <1>1, <1>2, <2>7, <3>1, <3>2 DEF Tick
  <2>8. CASE \E d \in Destinations : RemoveDestination(d)
    <3>1. \E rows \in SUBSET Rows : Delete(rows)
      BY <2>8 DEF RemoveDestination
    <3>2. QED
      BY <2>5, <3>1
  <2>9. QED
    BY <2>1, <2>3, <2>4, <2>5, <2>6, <2>7, <2>8 DEF Next, Deliver, SendGroup,
       SendSolo, Send, Respond, Alert, RecordFails, Crash, GiveUp, Clear,
       ToggleDestination, vars, rowVars
<1>3. CASE status[r] = "deleted"
  <2>1. CASE status' = status
    BY <1>1, <1>3, <2>1
  <2>2. CASE \E u \in Workers : Record(u)
    BY <1>1, <1>3, <2>2 DEF Record
  <2>3. CASE \E q \in Rows : Enqueue(q)
    BY <1>1, <1>3, <2>3 DEF Enqueue, TypeOK
  <2>4. CASE \E rows \in SUBSET Rows : Delete(rows) \/ RetryFailed(rows)
    BY <1>1, <1>3, <2>4 DEF Delete, RetryFailed
  <2>5. QED
    BY <2>1, <2>2, <2>3, <2>4 DEF Next, Deliver, SendGroup, SendSolo, Send,
       Respond, Alert, RecordFails, Crash, GiveUp, Clear, RemoveDestination,
       ToggleDestination, Tick, vars, rowVars
<1>4. QED
  BY <1>1, <1>2, <1>3 DEF Leased

LEMMA LeaseInductive ==
  ASSUME TypeOK, LeaseInv, [Next]_vars
  PROVE  LeaseInv'
<1>1. \A w \in Workers : Stage(w)'
  BY StageNext DEF LeaseInv
<1>2. ASSUME NEW w \in Workers, NEW r \in Held(w)' \ late'
      PROVE  Leased(r, w)'
  <2>1. CASE \E u \in Workers : Claim(u)
    BY <2>1, ClaimLease
  <2>2. CASE \A u \in Workers : ~Claim(u)
    <3>1. r \notin late
      BY LateWhileHeld
    <3>2. r \in Rows
      BY TypeNext DEF TypeOK, Held
    <3>3. \A v \in Workers : r \in Held(v)' =>
            r \in Held(v) /\ jobNo'[v][r] = jobNo[v][r]
      BY <2>2, <3>2, HeldLater DEF LeaseInv
    <3>4. r \in Held(w) /\ Leased(r, w) /\ jobNo'[w][r] = jobNo[w][r]
      BY <3>1, <3>3 DEF LeaseInv
    <3>5. \A v \in Workers \ {w} : r \notin Held(v)'
      BY <3>3, <3>4 DEF Leased
    <3>6. \/ status'[r] = "deleted"
          \/ /\ status'[r] = status[r]
             /\ attempts'[r] = attempts[r]
             /\ lockAge'[r] <= StaleCutoff
      BY <2>2, <3>1, <3>4, LeasedColumns
    <3>7. QED
      BY <3>4, <3>5, <3>6 DEF Leased
  <2>3. QED
    BY <2>1, <2>2
<1>3. QED
  BY <1>1, <1>2 DEF LeaseInv

LEMMA LeaseInvariant == Spec => []LeaseInv
<1>1. Init => LeaseInv
  BY DEF Init, LeaseInv, Stage, Held
<1>2. TypeOK /\ LeaseInv /\ [Next]_vars => LeaseInv'
  BY LeaseInductive
<1>3. QED
  BY <1>1, <1>2, TypeCorrect, PTL DEF Spec

\* What the stale-lock cutoff is for: no row is held by two workers unless one
\* of them has held it past the cutoff, and until then its lock and its attempt
\* are those of its holder, however many workers, crashes and retries there are.
THEOREM LeasesAreExclusive == Spec => []LeaseExclusive
<1>1. LeaseInv => LeaseExclusive
  BY DEF LeaseInv, Leased, LeaseExclusive
<1>2. QED
  BY <1>1, LeaseInvariant, PTL

-----------------------------------------------------------------------------
(* The rows' bookkeeping *)

\* No step moves a delivered or a cancelled row that is not late anywhere but
\* out of the table.
LEMMA SettledStep ==
  ASSUME TypeOK, LeaseInv, Next,
         NEW r \in Rows \ late, status[r] \in {"delivered", "cancelled"}
  PROVE  status'[r] \in {status[r], "deleted"}
<1>1. ~Ready(r) /\ ~Abandonable(r)
  BY DEF Ready, Abandonable, Stale, Waiting
<1>2. ASSUME NEW w \in Workers, Claim(w)
      PROVE  status'[r] = status[r]
  <2>1. PICK picked \in Batches :
          status' = [q \in Rows |->
            IF q \in picked THEN "processing"
            ELSE IF q \in {p \in Rows : Abandonable(p)} THEN "cancelled"
            ELSE status[q]]
    BY <1>2 DEF Claim
  <2>2. r \notin picked
    BY <1>1, BatchesAreRows
  <2>3. QED
    BY <1>1, <2>1, <2>2
<1>3. ASSUME NEW w \in Workers, Record(w)
      PROVE  status'[r] = status[r]
  <2>1. r \notin batch[w]
    BY <1>3, HeldRowsAreSafe DEF Record, Held
  <2>2. QED
    BY <1>3, <2>1 DEF Record
<1>4. ASSUME NEW w \in Workers,
             \/ SendGroup(w) \/ SendSolo(w) \/ Respond(w) \/ Alert(w)
             \/ RecordFails(w) \/ Crash(w)
      PROVE  status'[r] = status[r]
  BY <1>4 DEF SendGroup, SendSolo, Send, Respond, Alert, RecordFails, Crash,
              GiveUp, rowVars
<1>5. ASSUME NEW q \in Rows, Enqueue(q)
      PROVE  status'[r] = status[r]
  BY <1>5 DEF Enqueue, TypeOK
<1>6. ASSUME NEW rows \in SUBSET Rows, Clear(rows) \/ RetryFailed(rows)
      PROVE  status'[r] \in {status[r], "deleted"}
  BY <1>6 DEF Clear, Delete, RetryFailed
<1>7. ASSUME NEW d \in Destinations, RemoveDestination(d) \/ ToggleDestination(d)
      PROVE  status'[r] \in {status[r], "deleted"}
  BY <1>7 DEF RemoveDestination, Delete, ToggleDestination, rowVars
<1>8. CASE Tick
  BY <1>8 DEF Tick
<1>9. QED
  BY <1>2, <1>3, <1>4, <1>5, <1>6, <1>7, <1>8 DEF Next, Deliver

\* A delivery is taken back, and a cancelled event revived, only by a worker
\* that has held the row past the cutoff.
THEOREM DeliveredStaysDelivered == Spec => SettledIsFinal
<1>1. TypeOK /\ LeaseInv /\ [Next]_vars =>
        [\A r \in Rows \ late : status[r] \in {"delivered", "cancelled"} =>
           status'[r] \in {status[r], "deleted"}]_vars
  BY SettledStep
<1>2. QED
  BY <1>1, LeaseInvariant, TypeCorrect, PTL DEF Spec, SettledIsFinal

\* A row is locked exactly while it is "processing", however late the workers.
THEOREM LocksMatchStatus == Spec => []LockedWhileProcessing
<1>1. Init => LockedWhileProcessing
  BY DEF Init, LockedWhileProcessing
<1>2. TypeOK /\ LockedWhileProcessing /\ [Next]_vars => LockedWhileProcessing'
  <2> SUFFICES ASSUME TypeOK, LockedWhileProcessing, [Next]_vars, NEW r \in Rows
               PROVE  status'[r] = "processing" <=> lockAge'[r] # Unlocked
    BY DEF LockedWhileProcessing
  <2>1. status[r] = "processing" <=> lockAge[r] # Unlocked
    BY DEF LockedWhileProcessing
  <2>2. ASSUME NEW w \in Workers, Claim(w)
        PROVE  status'[r] = "processing" <=> lockAge'[r] # Unlocked
    BY <2>1, <2>2 DEF Claim, Unlocked
  <2>3. ASSUME NEW w \in Workers, Record(w)
        PROVE  status'[r] = "processing" <=> lockAge'[r] # Unlocked
    <3>1. Verdict(w, r) # "processing"
      BY DEF Verdict
    <3>2. QED
      BY <2>1, <2>3, <3>1 DEF Record, Unlock
  <2>4. ASSUME NEW w \in Workers,
               \/ SendGroup(w) \/ SendSolo(w) \/ Respond(w) \/ Alert(w)
               \/ RecordFails(w) \/ Crash(w)
        PROVE  status'[r] = "processing" <=> lockAge'[r] # Unlocked
    BY <2>1, <2>4 DEF SendGroup, SendSolo, Send, Respond, Alert, RecordFails,
                      Crash, GiveUp, rowVars
  <2>5. ASSUME NEW q \in Rows, Enqueue(q)
        PROVE  status'[r] = "processing" <=> lockAge'[r] # Unlocked
    BY <2>1, <2>5 DEF Enqueue, TypeOK
  <2>6. ASSUME NEW rows \in SUBSET Rows, Clear(rows) \/ RetryFailed(rows)
        PROVE  status'[r] = "processing" <=> lockAge'[r] # Unlocked
    BY <2>1, <2>6 DEF Clear, Delete, RetryFailed, Unlock
  <2>7. ASSUME NEW d \in Destinations, RemoveDestination(d) \/ ToggleDestination(d)
        PROVE  status'[r] = "processing" <=> lockAge'[r] # Unlocked
    BY <2>1, <2>7 DEF RemoveDestination, Delete, Unlock, ToggleDestination, rowVars
  <2>8. CASE Tick
    BY <2>1, <2>8, OutboxAssumption DEF Tick, Unlocked, TypeOK
  <2>9. CASE UNCHANGED vars
    BY <2>1, <2>9 DEF vars, rowVars
  <2>10. QED
    BY <2>2, <2>3, <2>4, <2>5, <2>6, <2>7, <2>8, <2>9 DEF Next, Deliver
<1>3. QED
  BY <1>1, <1>2, TypeCorrect, PTL DEF Spec

-----------------------------------------------------------------------------
(* The outbox implements EventDelivery *)

PhaseMap == [r \in Rows |-> PhaseOf(r)]

\* Moving a set of rows to another phase is a step of EventDelivery.
LEMMA MoveStep ==
  ASSUME NEW rows \in SUBSET Rows, NEW from, NEW to, late' = late,
         \A r \in rows : PhaseOf(r) \in from /\ PhaseOf(r)' = to,
         \A r \in Rows \ rows : PhaseOf(r)' = PhaseOf(r)
  PROVE  Promise!Move(rows, from, to)
<1>1. \A r \in rows : [q \in Rows |-> PhaseOf(q)][r] \in from
  OBVIOUS
<1>2. [q \in Rows |-> PhaseOf(q)]' =
        [r \in Rows |-> IF r \in rows THEN to ELSE [q \in Rows |-> PhaseOf(q)][r]]
  OBVIOUS
<1>3. QED
  BY <1>1, <1>2 DEF Promise!Move

\* So is recording what became of rows that were queued or late.
LEMMA SettleStep ==
  ASSUME NEW rows \in SUBSET Rows, late' \in SUBSET late,
         \A r \in rows : /\ \/ PhaseOf(r) = "queued"
                            \/ r \in late /\ PhaseOf(r) # "deleted"
                         /\ PhaseOf(r)' \in {"delivered", "failed", "queued"},
         \A r \in Rows \ rows : PhaseOf(r)' = PhaseOf(r)
  PROVE  Promise!Next
<1> DEFINE result == [r \in rows |-> PhaseOf(r)']
<1>1. result \in [rows -> {"delivered", "failed", "queued"}]
  OBVIOUS
<1>2. [q \in Rows |-> PhaseOf(q)]' =
        [r \in Rows |-> IF r \in rows THEN result[r] ELSE [q \in Rows |-> PhaseOf(q)][r]]
  OBVIOUS
<1>3. \A r \in rows : \/ [q \in Rows |-> PhaseOf(q)][r] = "queued"
                      \/ r \in late /\ [q \in Rows |-> PhaseOf(q)][r] # "deleted"
  OBVIOUS
<1>4. Promise!Settle(rows)
  BY <1>1, <1>2, <1>3 DEF Promise!Settle
<1>5. QED
  BY <1>4 DEF Promise!Next

LEMMA ClaimKeepsPromise ==
  ASSUME TypeOK, NEW w \in Workers, Claim(w)
  PROVE  Promise!Next
<1>1. PICK picked \in Batches :
        /\ status' = [q \in Rows |->
             IF q \in picked THEN "processing"
             ELSE IF q \in {p \in Rows : Abandonable(p)} THEN "cancelled"
             ELSE status[q]]
        /\ late' = late
  BY DEF Claim
<1> DEFINE dropped == {r \in Rows : Abandonable(r)}
<1>2. \A r \in dropped : r \notin picked
  BY BatchesAreRows DEF Ready, Abandonable
<1>3. \A r \in dropped : PhaseOf(r) \in {"queued"} /\ PhaseOf(r)' = "cancelled"
  BY <1>1, <1>2 DEF PhaseOf, Abandonable, Stale, Live, Waiting
<1>4. \A r \in Rows \ dropped : PhaseOf(r)' = PhaseOf(r)
  <2>1. \A r \in picked : status[r] \in Live
    BY BatchesAreRows DEF Ready, Stale, Live
  <2>2. QED
    BY <1>1, <2>1 DEF PhaseOf, Live
<1>5. dropped \in SUBSET Rows
  OBVIOUS
<1>6. Promise!Move(dropped, {"queued"}, "cancelled")
  BY <1>1, <1>3, <1>4, <1>5, MoveStep
<1>7. QED
  BY <1>5, <1>6 DEF Promise!Next, Promise!Cancel

\* What is recorded was queued, or is late.
LEMMA RecordKeepsPromise ==
  ASSUME TypeOK, LeaseInv, NEW w \in Workers, Record(w)
  PROVE  Promise!Next
<1>1. /\ batch[w] \in SUBSET Rows /\ late' \in SUBSET late
      /\ \A r \in Rows :
           status'[r] = IF r \in batch[w] THEN Verdict(w, r) ELSE status[r]
      /\ \A r \in batch[w] : status[r] # "deleted"
  BY DEF Record, LetGo, TypeOK
<1>2. \A r \in batch[w] : r \in late \/ status[r] = "processing"
  <2>1. batch[w] \subseteq Held(w)
    BY DEF Record, Held
  <2>2. QED
    BY <1>1, <2>1, HeldRowsAreSafe
<1>3. ASSUME NEW r \in batch[w]
      PROVE  /\ PhaseOf(r) = "queued" \/ (r \in late /\ PhaseOf(r) # "deleted")
             /\ PhaseOf(r)' \in {"delivered", "failed", "queued"}
  <2>1. PhaseOf(r) = "queued" \/ (r \in late /\ PhaseOf(r) # "deleted")
    BY <1>1, <1>2 DEF PhaseOf, Live
  <2>2. QED
    BY <1>1, <2>1, VerdictType DEF PhaseOf, Live, Waiting
<1>4. \A r \in Rows \ batch[w] : PhaseOf(r)' = PhaseOf(r)
  BY <1>1 DEF PhaseOf
<1>5. QED
  BY <1>1, <1>3, <1>4, SettleStep

LEMMA DeleteKeepsPromise ==
  ASSUME TypeOK, NEW rows \in SUBSET Rows, Delete(rows),
         \A r \in rows : status[r] # "absent"
  PROVE  Promise!Next
<1> DEFINE gone == {r \in rows : status[r] # "deleted"}
<1>1. \A r \in Rows : PhaseOf(r) \in Promise!Phases
  BY DEF TypeOK, PhaseOf, Promise!Phases, Live, Waiting, Settled
<1>2. \A r \in gone : /\ PhaseOf(r) \in Promise!Phases \ {"absent", "deleted"}
                      /\ PhaseOf(r)' = "deleted"
  BY <1>1 DEF Delete, PhaseOf, Live, Waiting
<1>3. \A r \in Rows \ gone : PhaseOf(r)' = PhaseOf(r)
  BY DEF Delete, PhaseOf
<1>4. gone \in SUBSET Rows /\ late' = late
  BY DEF Delete
<1>5. Promise!Move(gone, Promise!Phases \ {"absent", "deleted"}, "deleted")
  BY <1>2, <1>3, <1>4, MoveStep
<1>6. QED
  BY <1>4, <1>5 DEF Promise!Next, Promise!Delete

LEMMA EnqueueKeepsPromise ==
  ASSUME TypeOK, NEW q \in Rows, Enqueue(q)
  PROVE  Promise!Next
<1>1. \A r \in {q} : PhaseOf(r) \in {"absent"} /\ PhaseOf(r)' = "queued"
  BY DEF Enqueue, PhaseOf, Live, Waiting, TypeOK
<1>2. \A r \in Rows \ {q} : PhaseOf(r)' = PhaseOf(r)
  BY DEF Enqueue, PhaseOf, TypeOK
<1>3. {q} \in SUBSET Rows /\ late' = late
  BY DEF Enqueue
<1>4. Promise!Move({q}, {"absent"}, "queued")
  BY <1>1, <1>2, <1>3, MoveStep
<1>5. QED
  BY <1>3, <1>4 DEF Promise!Next, Promise!Queue

LEMMA RetryKeepsPromise ==
  ASSUME TypeOK, NEW rows \in SUBSET Rows, RetryFailed(rows)
  PROVE  Promise!Next
<1>1. \A r \in rows : PhaseOf(r) \in {"failed"} /\ PhaseOf(r)' = "queued"
  BY DEF RetryFailed, PhaseOf, Live, Waiting
<1>2. \A r \in Rows \ rows : PhaseOf(r)' = PhaseOf(r)
  BY DEF RetryFailed, PhaseOf
<1>3. late' = late
  BY DEF RetryFailed
<1>4. Promise!Move(rows, {"failed"}, "queued")
  BY <1>1, <1>2, <1>3, MoveStep
<1>5. QED
  BY <1>4 DEF Promise!Next, Promise!Reopen

\* Only what is being processed can become late.
LEMMA TickKeepsPromise ==
  ASSUME TypeOK, LockedWhileProcessing, Tick
  PROVE  Promise!Next
<1> DEFINE rows == {r \in Rows :
             lockAge'[r] > StaleCutoff /\ \E w \in Workers : r \in Held(w)}
<1>1. ASSUME NEW r \in rows
      PROVE  [q \in Rows |-> PhaseOf(q)][r] = "queued"
  <2>1. lockAge[r] # Unlocked
    BY OutboxAssumption DEF Tick, TypeOK, Unlocked
  <2>2. status[r] = "processing"
    BY <2>1 DEF LockedWhileProcessing
  <2>3. QED
    BY <2>2 DEF PhaseOf, Live
<1>2. late' = late \cup rows /\ UNCHANGED [r \in Rows |-> PhaseOf(r)]
  BY DEF Tick, PhaseOf
<1>3. Promise!Overrun(rows)
  BY <1>1, <1>2 DEF Promise!Overrun
<1>4. QED
  BY <1>3 DEF Promise!Next

\* A step that leaves the status column alone changes no event's phase; rows
\* may be late no longer after it.
LEMMA SameStatus ==
  ASSUME status' = status, late' = late \/ LetGo
  PROVE  Promise!Next
<1>1. \A r \in Rows : PhaseOf(r)' = PhaseOf(r)
  BY DEF PhaseOf
<1>2. late' \in SUBSET late /\ {} \in SUBSET Rows
  BY DEF LetGo
<1>3. QED
  BY <1>1, <1>2, SettleStep

LEMMA StepKeepsPromise ==
  ASSUME TypeOK, LeaseInv, LockedWhileProcessing, Next
  PROVE  Promise!Next
<1>1. ASSUME NEW w \in Workers,
             Claim(w) \/ Deliver(w) \/ RecordFails(w) \/ Crash(w)
      PROVE  Promise!Next
  <2>1. CASE \/ SendGroup(w) \/ SendSolo(w) \/ Respond(w) \/ Alert(w)
             \/ RecordFails(w) \/ Crash(w)
    BY <2>1, SameStatus DEF SendGroup, SendSolo, Send, Respond, Alert,
                            RecordFails, Crash, GiveUp, rowVars
  <2>2. QED
    BY <1>1, <2>1, ClaimKeepsPromise, RecordKeepsPromise DEF Deliver
<1>2. ASSUME NEW d \in Destinations, RemoveDestination(d) \/ ToggleDestination(d)
      PROVE  Promise!Next
  <2>1. CASE RemoveDestination(d)
    <3>1. PICK rows \in SUBSET Rows :
            Delete(rows) /\ \A r \in rows : status[r] # "absent"
      BY <2>1 DEF RemoveDestination
    <3>2. QED
      BY <3>1, DeleteKeepsPromise
  <2>2. CASE ToggleDestination(d)
    BY <2>2, SameStatus DEF ToggleDestination, rowVars
  <2>3. QED
    BY <1>2, <2>1, <2>2
<1>3. ASSUME NEW rows \in SUBSET Rows, Clear(rows) \/ RetryFailed(rows)
      PROVE  Promise!Next
  BY <1>3, DeleteKeepsPromise, RetryKeepsPromise DEF Clear
<1>4. QED
  BY <1>1, <1>2, <1>3, TickKeepsPromise, EnqueueKeepsPromise DEF Next

\* The worker implements what EventDelivery promises of every event, with no
\* assumption on how long a pass takes.
THEOREM ImplementsEventDelivery == Spec => KeepsPromise
<1>1. Init => Promise!Init
  BY DEF Init, Promise!Init, PhaseOf, Live, Waiting
<1>2. TypeOK /\ LeaseInv /\ LockedWhileProcessing /\ [Next]_vars =>
        [Promise!Next]_<<[r \in Rows |-> PhaseOf(r)], late>>
  <2>1. UNCHANGED vars => UNCHANGED <<[r \in Rows |-> PhaseOf(r)], late>>
    BY DEF vars, rowVars, PhaseOf
  <2>2. QED
    BY <2>1, StepKeepsPromise
<1>3. QED
  BY <1>1, <1>2, TypeCorrect, LeaseInvariant, LocksMatchStatus, PTL
     DEF Spec, KeepsPromise, Promise!Spec

-----------------------------------------------------------------------------
(* Attempt numbers *)

\* A rejection is recorded only for a row that is itself at fault.
LEMMA RejectedNext ==
  ASSUME TypeOK, \A w \in Workers : RejectedAlone(w), [Next]_vars,
         NEW v \in Workers
  PROVE  RejectedAlone(v)'
<1>0. RejectedAlone(v)
  OBVIOUS
<1>1. CASE answer'[v] = answer[v] /\ batch'[v] = batch[v] /\ pc'[v] = pc[v]
  BY <1>0, <1>1 DEF RejectedAlone, HealthyRow
<1>2. CASE pc'[v] # "recording"
  BY <1>2 DEF RejectedAlone
<1>3. CASE Respond(v) /\ pc'[v] = "recording"
  <2>1. PICK a \in Answers(batch[v]) :
          ~Splits(v, a) /\ answer'[v] = a /\ batch'[v] = batch[v]
    BY <1>3 DEF Respond, TypeOK
  <2>0. a # "none"
    BY <2>1 DEF Answers
  <2>2. ASSUME a = "permanent"
        PROVE  \A r \in batch[v] : ~HealthyRow(r)
    <3>1. PICK q \in batch[v] : q \in Malformed \/ DestOf[q] \in Refused
      BY <2>1, <2>2 DEF Answers
    <3>2. /\ batch[v] \in SUBSET Rows
          /\ IsFiniteSet(batch[v]) /\ Cardinality(batch[v]) \in Nat
      BY RowSets DEF TypeOK
    <3>3. Cardinality(batch[v]) <= 1
      BY <2>1, <2>2, <3>2 DEF Splits
    <3>4. Cardinality(batch[v] \ {q}) = 0 /\ IsFiniteSet(batch[v] \ {q})
      <4>1. Cardinality(batch[v] \ {q}) = Cardinality(batch[v]) - 1
        BY <3>1, <3>2, FS_RemoveElement
      <4>2. IsFiniteSet(batch[v] \ {q}) /\ Cardinality(batch[v] \ {q}) \in Nat
        BY <3>2, FS_RemoveElement, FS_CardinalityType
      <4>3. QED
        BY <3>2, <3>3, <4>1, <4>2
    <3>5. batch[v] = {q}
      BY <3>1, <3>4, FS_EmptySet
    <3>6. QED
      BY <3>1, <3>5 DEF HealthyRow
  <2>3. QED
    BY <2>0, <2>1, <2>2 DEF RejectedAlone, HealthyRow
<1>4. ASSUME NEW w \in Workers \ {v},
             Claim(w) \/ Deliver(w) \/ RecordFails(w) \/ Crash(w)
      PROVE  RejectedAlone(v)'
  BY <1>1, <1>4 DEF TypeOK, Claim, Deliver, SendGroup, SendSolo, Send, Respond,
     Record, Alert, RecordFails, Crash, GiveUp
<1>5. CASE UNCHANGED <<pc, batch, answer>>
  BY <1>1, <1>5
<1>6. CASE Claim(v) \/ SendGroup(v) \/ SendSolo(v) \/ Record(v) \/ Alert(v)
           \/ RecordFails(v) \/ Crash(v)
  <2>1. pc'[v] # "recording"
    BY <1>6 DEF TypeOK, Claim, SendGroup, SendSolo, Send, Record, Alert,
       RecordFails, Crash, GiveUp, Onward
  <2>2. QED
    BY <1>2, <2>1
<1>7. QED
  BY <1>2, <1>3, <1>4, <1>5, <1>6 DEF Next, Deliver, Enqueue,
     Clear, Delete, RetryFailed, RemoveDestination, ToggleDestination, Tick,
     vars, workerVars

\* A row that is still on record was so before the step.
LEMMA OnceTracked ==
  ASSUME TypeOK, [Next]_vars, NEW r \in Rows,
         reopened'[r] = 0, status'[r] # "deleted"
  PROVE  reopened[r] = 0 /\ status[r] # "deleted"
<1>1. CASE UNCHANGED <<status, reopened>>
  BY <1>1
<1>2. ASSUME NEW w \in Workers, Claim(w)
      PROVE  status'[r] = status[r] \/ status[r] \in Live
  BY <1>2 DEF TypeOK, Claim, Batches, Ready, Abandonable, Live, Stale
<1>3. ASSUME NEW w \in Workers, Record(w)
      PROVE  status'[r] = status[r] \/ status[r] # "deleted"
  BY <1>3 DEF TypeOK, Record
<1>4. ASSUME NEW q \in Rows, Enqueue(q)
      PROVE  status'[r] = status[r] \/ status[r] = "absent"
  BY <1>4 DEF TypeOK, Enqueue
<1>5. ASSUME NEW rows, Delete(rows)
      PROVE  status'[r] = status[r] /\ reopened' = reopened
  BY <1>5 DEF TypeOK, Delete
<1>6. ASSUME NEW rows, RetryFailed(rows)
      PROVE  status'[r] = status[r] /\ reopened'[r] = reopened[r]
  BY <1>6 DEF TypeOK, RetryFailed
<1>7. CASE \E w \in Workers : Claim(w)
  BY <1>2, <1>7 DEF Claim, Live, Waiting
<1>8. CASE \E w \in Workers : Record(w)
  BY <1>3, <1>8 DEF Record
<1>9. CASE \E q \in Rows : Enqueue(q)
  BY <1>4, <1>9 DEF Enqueue
<1>10. CASE \E rows \in SUBSET Rows : Clear(rows) \/ RetryFailed(rows)
  BY <1>5, <1>6, <1>10 DEF Clear
<1>11. CASE \E d \in Destinations : RemoveDestination(d)
  BY <1>5, <1>11 DEF RemoveDestination
<1>12. QED
  BY <1>1, <1>7, <1>8, <1>9, <1>10, <1>11 DEF Next, Deliver, SendGroup, SendSolo,
     Send, Respond, Alert, RecordFails, Crash, GiveUp, ToggleDestination, Tick,
     vars, rowVars

\* Where neither the count nor the ledger of a row changes, nor anybody claims
\* it, its numbers stay right.
LEMMA NumbersKept ==
  ASSUME NEW r \in Rows, NumbersInv(r), attempts'[r] = attempts[r],
         \A e \in ledger' : e.row = r => e \in ledger,
         \A w \in Workers : r \in Held(w)' =>
           r \in Held(w) /\ jobNo'[w][r] = jobNo[w][r]
  PROVE  NumbersInv(r)'
BY DEF NumbersInv

\* A claim counts the attempt before anybody holds it.
LEMMA ClaimNumbers ==
  ASSUME TypeOK, ClaimInv, [Next]_vars, NEW w \in Workers, Claim(w),
         NEW r \in Rows, NumbersInv(r)
  PROVE  NumbersInv(r)'
<1>1. PICK picked \in Batches :
        /\ attempts' = [q \in Rows |->
             IF q \in picked THEN NextAttempt(q) ELSE attempts[q]]
        /\ jobNo' = [jobNo EXCEPT ![w] = [q \in Rows |->
             IF q \in picked THEN NextAttempt(q) ELSE 0]]
        /\ todo' = [todo EXCEPT ![w] = picked]
        /\ pc' = [pc EXCEPT ![w] = IF picked = {} THEN "idle" ELSE "next"]
        /\ solo' = solo /\ batch' = batch /\ ledger' = ledger /\ pc[w] = "idle"
  BY DEF Claim
<1>2. picked \in SUBSET Rows
  BY BatchesAreRows
<1>3. Stage(w)
  BY DEF ClaimInv
<1>4. Held(w)' = picked
  BY <1>1, <1>3 DEF Stage, Held, TypeOK
<1>5. \A v \in Workers \ {w} : Held(v)' = Held(v) /\ jobNo'[v] = jobNo[v]
  BY <1>1 DEF Held, TypeOK
<1>6. attempts[r] \in Nat
  BY DEF TypeOK
<1>7. CASE r \notin picked
  <2>1. attempts'[r] = attempts[r]
    BY <1>1, <1>7
  <2>2. QED
    BY <1>1, <1>4, <1>5, <1>7, <2>1, NumbersKept
<1>8. CASE r \in picked
  <2>1. attempts'[r] = attempts[r] + 1 /\ jobNo'[w][r] = attempts[r] + 1
    BY <1>1, <1>8 DEF NextAttempt, TypeOK
  <2>2. \A e \in ledger : e.row = r =>
          e.number \in 1 .. attempts'[r] /\ e.number # attempts[r] + 1
    BY <1>6, <2>1 DEF NumbersInv
  <2>3. ASSUME NEW v \in Workers \ {w}, r \in Held(v)
        PROVE  /\ jobNo[v][r] \in 1 .. attempts'[r]
               /\ jobNo[v][r] # attempts[r] + 1
               /\ \A u \in Workers \ {v, w} : r \in Held(u) =>
                    jobNo[u][r] # jobNo[v][r]
               /\ \A e \in ledger : e.row = r => e.number # jobNo[v][r]
    BY <1>6, <2>1, <2>3 DEF NumbersInv
  <2>4. /\ \A e \in ledger' : e.row = r => e.number \in 1 .. attempts'[r]
        /\ jobNo'[w][r] \in 1 .. attempts'[r]
    BY <1>1, <1>6, <2>1, <2>2
  <2>5. ASSUME NEW v \in Workers, r \in Held(v)'
        PROVE  /\ jobNo'[v][r] \in 1 .. attempts'[r]
               /\ \A u \in Workers \ {v} : r \in Held(u)' =>
                    jobNo'[u][r] # jobNo'[v][r]
               /\ \A e \in ledger' : e.row = r => e.number # jobNo'[v][r]
    <3>1. CASE v = w
      BY <1>1, <1>5, <2>1, <2>2, <2>3, <2>4, <3>1
    <3>2. CASE v # w
      BY <1>1, <1>5, <2>1, <2>3, <2>5, <3>2
    <3>3. QED
      BY <3>1, <3>2
  <2>6. QED
    BY <2>4, <2>5 DEF NumbersInv
<1>9. QED
  BY <1>7, <1>8

\* Recording puts the number the worker held into the ledger, and lets go of it.
LEMMA RecordNumbers ==
  ASSUME TypeOK, ClaimInv, [Next]_vars, NEW w \in Workers, Record(w),
         NEW r \in Rows, NumbersInv(r)
  PROVE  NumbersInv(r)'
<1>1. /\ pc[w] = "recording" /\ attempts' = attempts /\ todo' = todo
      /\ solo' = solo /\ ledger' = ledger \cup NewAttempts(w)
      /\ pc'[w] # "alerting" => batch'[w] = {}
  BY DEF Record, Onward, TypeOK
<1>2. Stage(w) /\ ~Claim(w)
  BY <1>1 DEF ClaimInv, Claim
<1>3. \A v \in Workers : r \in Held(v)' =>
        r \in Held(v) /\ jobNo'[v][r] = jobNo[v][r]
  <2>1. \A v \in Workers : Stage(v)
    BY DEF ClaimInv
  <2>2. \A v \in Workers \ {w} : Held(v)' = Held(v) /\ jobNo'[v] = jobNo[v]
    BY DEF Record, Held, TypeOK
  <2>3. QED
    BY <1>2, <2>1, <2>2, HeldLater
<1>4. CASE r \notin batch[w]
  <2>1. \A e \in ledger' : e.row = r => e \in ledger
    BY <1>1, <1>4 DEF NewAttempts
  <2>2. QED
    BY <1>1, <1>3, <2>1, NumbersKept
<1>5. CASE r \in batch[w]
  <2>1. r \in Held(w)
    BY <1>1, <1>5 DEF Held
  <2>2. r \notin Held(w)'
    BY <1>1, <1>2, <1>5 DEF Held, Stage
  <2>3. \A e \in ledger' : e.row = r => e \in ledger \/ e.number = jobNo[w][r]
    BY <1>1 DEF NewAttempts
  <2>4. QED
    BY <1>1, <1>3, <2>1, <2>2, <2>3 DEF NumbersInv
<1>6. QED
  BY <1>4, <1>5

LEMMA NumbersNext ==
  ASSUME TypeOK, ClaimInv, [Next]_vars, NEW r \in Rows,
         reopened'[r] = 0, status'[r] # "deleted"
  PROVE  NumbersInv(r)'
<1>1. NumbersInv(r) /\ \A w \in Workers : Stage(w)
  BY OnceTracked DEF ClaimInv
<1>2. CASE \E w \in Workers : Claim(w)
  BY <1>1, <1>2, ClaimNumbers
<1>3. CASE \E w \in Workers : Record(w)
  BY <1>1, <1>3, RecordNumbers
<1>4. CASE \A w \in Workers : ~Claim(w) /\ ~Record(w)
  <2>1. ASSUME NEW rows, Delete(rows)
        PROVE  attempts'[r] = attempts[r] /\ ledger' \subseteq ledger
    BY <2>1 DEF TypeOK, Delete
  <2>2. ASSUME NEW rows, RetryFailed(rows)
        PROVE  attempts'[r] = attempts[r] /\ ledger' \subseteq ledger
    <3>1. r \notin rows
      BY <2>2 DEF TypeOK, RetryFailed
    <3>2. QED
      BY <2>2, <3>1 DEF TypeOK, RetryFailed
  <2>3. attempts'[r] = attempts[r] /\ ledger' \subseteq ledger
    BY <1>4, <2>1, <2>2 DEF Next, Deliver, SendGroup, SendSolo, Send, Respond,
       Alert, RecordFails, Crash, GiveUp, Enqueue, Clear, RemoveDestination,
       ToggleDestination, Tick, vars, rowVars
  <2>4. QED
    BY <1>1, <1>4, <2>3, HeldLater, NumbersKept
<1>5. QED
  BY <1>2, <1>3, <1>4

LEMMA ClaimInductive ==
  ASSUME TypeOK, ClaimInv, [Next]_vars
  PROVE  ClaimInv'
<1>1. ASSUME NEW w \in Workers
      PROVE  Stage(w)' /\ RejectedAlone(w)'
  BY StageNext, RejectedNext DEF ClaimInv
<1>2. QED
  BY <1>1, NumbersNext DEF ClaimInv

LEMMA ClaimInvariant == Spec => []ClaimInv
<1>1. Init => ClaimInv
  BY DEF Init, ClaimInv, Stage, RejectedAlone, NumbersInv, Held
<1>2. TypeOK /\ ClaimInv /\ [Next]_vars => ClaimInv'
  BY ClaimInductive
<1>3. QED
  BY <1>1, <1>2, TypeCorrect, PTL DEF Spec

\* However late a worker is, no two workers hold the same attempt of a row
\* until it is retried by hand: claims count the attempt they hand out
\* (tiktok-outbox.processor.ts, claim).
THEOREM AttemptsIdentifyClaims == Spec => []AttemptIdentifiesClaim
<1>1. ClaimInv => AttemptIdentifiesClaim
  BY DEF ClaimInv, NumbersInv, AttemptIdentifiesClaim
<1>2. QED
  BY <1>1, ClaimInvariant, PTL

-----------------------------------------------------------------------------
(* What a row's status rests on *)

\* A row keeps its status, or a worker records one, or it is one nobody records.
LEMMA StatusLater ==
  ASSUME TypeOK, [Next]_vars, NEW r \in Rows,
         reopened'[r] = 0, status'[r] # "deleted",
         \A w \in Workers : Record(w) => r \notin batch[w]
  PROVE  /\ status'[r] = status[r] \/ status'[r] \in {"pending", "processing", "cancelled"}
         /\ \A e \in ledger : e.row = r => e \in ledger'
<1>1. CASE UNCHANGED <<status, ledger>>
  BY <1>1
<1>2. ASSUME NEW w \in Workers, Claim(w)
      PROVE  /\ status'[r] \in {status[r], "processing", "cancelled"}
             /\ ledger' = ledger
  BY <1>2 DEF TypeOK, Claim
<1>3. ASSUME NEW w \in Workers, Record(w)
      PROVE  status'[r] = status[r] /\ ledger \subseteq ledger'
  BY <1>3 DEF TypeOK, Record
<1>4. ASSUME NEW q \in Rows, Enqueue(q)
      PROVE  status'[r] \in {status[r], "pending"} /\ ledger' = ledger
  BY <1>4 DEF TypeOK, Enqueue
<1>5. ASSUME NEW rows, Delete(rows)
      PROVE  /\ status'[r] = status[r]
             /\ \A e \in ledger : e.row = r => e \in ledger'
  <2>1. r \notin rows
    BY <1>5 DEF TypeOK, Delete
  <2>2. QED
    BY <1>5, <2>1 DEF TypeOK, Delete
<1>6. ASSUME NEW rows, RetryFailed(rows)
      PROVE  status'[r] = status[r] /\ ledger' = ledger
  <2>1. r \notin rows
    BY <1>6 DEF TypeOK, RetryFailed
  <2>2. QED
    BY <1>6, <2>1 DEF TypeOK, RetryFailed
<1>7. QED
  BY <1>1, <1>2, <1>3, <1>4, <1>5, <1>6 DEF Next, Deliver, SendGroup, SendSolo,
     Send, Respond, Alert, RecordFails, Crash, GiveUp, Clear, RemoveDestination,
     ToggleDestination, Tick, vars, rowVars

LEMMA OnRecordNext ==
  ASSUME TypeOK, ClaimInv, SettledOnRecord, [Next]_vars, NEW r \in Rows,
         reopened'[r] = 0
  PROVE  OnRecord(r)'
<1>1. CASE status'[r] = "deleted"
  BY <1>1 DEF OnRecord
<1>2. ASSUME NEW w \in Workers, Record(w), r \in batch[w]
      PROVE  OnRecord(r)'
  <2>1. status'[r] = Verdict(w, r) /\ status[r] # "deleted"
        /\ ledger' = ledger \cup NewAttempts(w) /\ reopened' = reopened
    BY <1>2 DEF Record, TypeOK
  <2>2. NumbersInv(r) /\ r \in Held(w)
    BY <1>2, <2>1 DEF ClaimInv, Held, Record
  <2>3. [row |-> r, number |-> jobNo[w][r], outcome |-> OutcomeOf(Verdict(w, r))]
          \in NewAttempts(w)
    BY <1>2, <2>2 DEF NewAttempts, NumbersInv
  <2>4. QED
    BY <2>1, <2>3 DEF OnRecord
<1>3. CASE /\ status'[r] # "deleted"
           /\ \A w \in Workers : Record(w) => r \notin batch[w]
  <2>1. OnRecord(r)
    BY <1>3, OnceTracked DEF SettledOnRecord
  <2>2. /\ status'[r] = status[r] \/ status'[r] \in {"pending", "processing", "cancelled"}
        /\ \A e \in ledger : e.row = r => e \in ledger'
    BY <1>3, StatusLater
  <2>3. QED
    BY <2>1, <2>2 DEF OnRecord
<1>4. QED
  BY <1>1, <1>2, <1>3

\* A status a worker left behind is backed by an attempt row with the same
\* outcome until the row is retried by hand: ON CONFLICT DO NOTHING never meets
\* a conflict there (deliver).
THEOREM StatusesAreOnRecord == Spec => []SettledOnRecord
<1>1. Init => SettledOnRecord
  BY DEF Init, SettledOnRecord, OnRecord
<1>2. TypeOK /\ ClaimInv /\ SettledOnRecord /\ [Next]_vars => SettledOnRecord'
  BY OnRecordNext DEF SettledOnRecord
<1>3. QED
  BY <1>1, <1>2, TypeCorrect, ClaimInvariant, PTL DEF Spec

LEMMA HealthyNext ==
  ASSUME TypeOK, ClaimInv, HealthyFailsOnlyExhausted, [Next]_vars, NEW r \in Rows,
         HealthyRow(r), status'[r] = "failed_permanently", reopened'[r] = 0
  PROVE  attempts'[r] >= MaxAttempts
<1>0. reopened[r] = 0 /\ status[r] # "deleted" /\ NumbersInv(r)
  BY OnceTracked DEF ClaimInv
<1>1. ASSUME NEW w \in Workers, Record(w), r \in batch[w]
      PROVE  attempts'[r] >= MaxAttempts
  <2>1. status'[r] = Verdict(w, r) /\ attempts' = attempts /\ pc[w] = "recording"
    BY <1>1 DEF Record, TypeOK
  <2>2. answer[w] # "permanent"
    BY <1>1, <2>1 DEF ClaimInv, RejectedAlone
  <2>3. answer[w] = "retry" => jobNo[w][r] >= MaxAttempts
    <3>1. jobNo[w][r] \in Nat
      BY DEF TypeOK
    <3>2. QED
      BY <2>1, <3>1, OutboxAssumption DEF Verdict, CanRetry
  <2>4. answer[w] = "retry"
    <3>1. answer[w] # "none"
      BY <2>1 DEF ClaimInv, RejectedAlone
    <3>2. QED
      BY <2>1, <2>2, <3>1 DEF Verdict, TypeOK
  <2>5. jobNo[w][r] \in 1 .. attempts[r] /\ attempts[r] \in Nat
    BY <1>0, <1>1, <2>1 DEF NumbersInv, Held, TypeOK
  <2>6. QED
    BY <2>1, <2>3, <2>4, <2>5, OutboxAssumption
<1>2. CASE \A w \in Workers : Record(w) => r \notin batch[w]
  <2>1. status[r] = "failed_permanently"
    BY <1>2, StatusLater
  <2>2. attempts'[r] = attempts[r]
    <3>1. ASSUME NEW w \in Workers, Claim(w)
          PROVE  attempts'[r] = attempts[r]
      <4>1. ~Ready(r)
        BY <2>1 DEF Ready, Waiting, Stale
      <4>2. \A picked \in Batches : r \notin picked
        BY <4>1 DEF Batches
      <4>3. QED
        BY <3>1, <4>2 DEF Claim
    <3>2. ASSUME NEW rows, Delete(rows)
          PROVE  attempts'[r] = attempts[r]
      BY <3>2 DEF TypeOK, Delete
    <3>3. ASSUME NEW rows, RetryFailed(rows)
          PROVE  attempts'[r] = attempts[r]
      BY <3>3 DEF TypeOK, RetryFailed
    <3>4. QED
      BY <3>1, <3>2, <3>3 DEF Next, Deliver, SendGroup, SendSolo, Send, Respond,
         Record, Alert, RecordFails, Crash, GiveUp, Enqueue, Clear,
         RemoveDestination, ToggleDestination, Tick, vars, rowVars
  <2>3. QED
    BY <1>0, <2>1, <2>2 DEF HealthyFailsOnlyExhausted
<1>3. QED
  BY <1>1, <1>2

\* An event that is not at fault, at a destination that works, fails only with
\* its attempts used up, whatever shares its request (deliver splits a rejected
\* batch).
THEOREM HealthyEventsAreNotFailed == Spec => []HealthyFailsOnlyExhausted
<1>1. Init => HealthyFailsOnlyExhausted
  BY DEF Init, HealthyFailsOnlyExhausted
<1>2. TypeOK /\ ClaimInv /\ HealthyFailsOnlyExhausted /\ [Next]_vars =>
        HealthyFailsOnlyExhausted'
  BY HealthyNext DEF HealthyFailsOnlyExhausted, HealthyRow
<1>3. QED
  BY <1>1, <1>2, TypeCorrect, ClaimInvariant, PTL DEF Spec
=============================================================================
