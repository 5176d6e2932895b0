--------------------------- MODULE ApprovalsProofs ---------------------------
(***************************************************************************)
(* Proofs about the approvals, for any number of requests, callers,        *)
(* connections and changes, and a Redis that may be away.                  *)
(***************************************************************************)
EXTENDS Approvals, TLAPS

-----------------------------------------------------------------------------
(* Steps *)

\* What one caller does.
Move(c) ==
  \/ Mutate(c) \/ List(c) \/ ChangePlan(c)
  \/ \E r \in Requests, what \in {"approve", "reject"} : Review(c, what, r)
  \/ Advance(c)

\* What happens outside every call.
Outside == Alarm \/ DropPolicy \/ \E r \in Requests : Age(r) \/ Lapse(r)

LEMMA StepSplits ==
  ASSUME Step
  PROVE  (\E c \in Callers : Move(c)) \/ Outside
BY DEF Step, Move, Outside

-----------------------------------------------------------------------------
(* Types *)

CallType ==
  /\ job \in [Callers -> Jobs] /\ pc \in [Callers -> Points]
  /\ request \in [Callers -> Requests \cup {NoRequest}]
  /\ policy \in [Callers -> Policy \cup {NoPolicy}]
  /\ stale \in [Callers -> {"no", "yes"}]
  /\ missed \in [Callers -> SUBSET Requests]
  /\ out \in [Callers -> {"none", "done"}]

\* All of TypeOK but the calls and the history kept by Watch.
DataType ==
  /\ rule \in Rules /\ version \in 0..MaxChanges
  /\ alarm \in {"open", "denied"} /\ alarms \in 0..MaxAlarms
  /\ cached \in Policy \cup {NoPolicy}
  /\ status \in [Requests -> Statuses]
  /\ recent \subseteq Requests /\ lapsed \subseteq Requests
  /\ done \in [Requests -> Nat]
  /\ rowLock \in [Requests -> Callers \cup {Nobody}]
  /\ permLock \in Callers \cup {Nobody}
  /\ announced \in 0..MaxChanges

HistoryType ==
  /\ seen \in [Callers -> SUBSET {"open", "denied"}]
  /\ since \in [Callers -> 0..MaxChanges]

LEMMA TypeParts == TypeOK <=> DataType /\ CallType /\ HistoryType
BY DEF TypeOK, DataType, CallType, HistoryType

LEMMA EnterType ==
  ASSUME CallType, NEW c \in Callers, NEW what \in Jobs, NEW p \in Points,
         NEW r \in Requests \cup {NoRequest}, Enter(c, what, p, r)
  PROVE  CallType'
BY DEF CallType, Enter

LEMMA GotoType ==
  ASSUME CallType, NEW c \in Callers, NEW p \in Points, Goto(c, p)
  PROVE  CallType'
BY DEF CallType, Goto

LEMMA ReturnType ==
  ASSUME CallType, NEW c \in Callers, NEW made \in {"none", "done"}, Return(c, made)
  PROVE  CallType'
BY DEF CallType, Return, Points, Jobs

LEMMA UnlockType ==
  ASSUME DataType, NEW c \in Callers, Unlock(c)
  PROVE  rowLock' \in [Requests -> Callers \cup {Nobody}] /\ permLock' \in Callers \cup {Nobody}
BY DEF DataType, Unlock

LEMMA CurrentPolicyType ==
  ASSUME DataType
  PROVE  CurrentPolicy \in Policy
BY DEF DataType, CurrentPolicy, Policy, Pending

LEMMA MoveType ==
  ASSUME DataType, CallType, NEW c \in Callers, Move(c)
  PROVE  DataType' /\ CallType'
<1> USE ApprovalsAssumption
    DEF ApprovalsAssumption, Points, Jobs, planVars, rowVars, lockVars, callVars
<1>1. CASE Mutate(c) \/ List(c)
  BY <1>1, EnterType DEF DataType, Mutate, List
<1>2. CASE ChangePlan(c)
  <2>1. CallType'
    BY <1>2, EnterType DEF ChangePlan
  <2>2. version + 1 \in 0..MaxChanges
    BY <1>2 DEF DataType, ChangePlan
  <2>3. QED
    BY <1>2, <2>1, <2>2 DEF DataType, ChangePlan
<1>3. ASSUME NEW r \in Requests, NEW what \in {"approve", "reject"}, Review(c, what, r)
      PROVE  DataType' /\ CallType'
  BY <1>3, EnterType DEF DataType, Review
<1>4. CASE Ask(c)
  BY <1>4, GotoType DEF DataType, CallType, Ask
<1>5. CASE Read(c)
  BY <1>5, CurrentPolicyType DEF DataType, CallType, Read
<1>6. CASE Keep(c)
  BY <1>6, GotoType DEF DataType, CallType, Keep
<1>7. CASE Decide(c)
  <2>1. DataType'
    BY <1>7, UnlockType DEF DataType, Decide
  <2>2. CallType'
    BY <1>7, ReturnType DEF CallType, Decide
  <2>3. QED
    BY <2>1, <2>2
<1>8. CASE FindDuplicate(c) \/ StartInsert(c) \/ StartExpire(c)
  BY <1>8, GotoType, ReturnType DEF DataType, FindDuplicate, StartInsert, StartExpire
<1>9. ASSUME NEW r \in Requests, Insert(c, r)
      PROVE  DataType' /\ CallType'
  BY <1>9 DEF DataType, CallType, Insert, Statuses
<1>10. CASE Begin(c)
  BY <1>10 DEF DataType, CallType, Begin
<1>11. CASE LockRequest(c)
  <2>1. DataType'
    BY <1>11 DEF DataType, CallType, LockRequest
  <2>2. CallType'
    BY <1>11, ReturnType DEF CallType, LockRequest
  <2>3. QED
    BY <2>1, <2>2
<1>12. CASE LockPermission(c)
  BY <1>12, GotoType DEF DataType, LockPermission
<1>13. CASE CarryOut(c)
  BY <1>13, GotoType, ReturnType, UnlockType DEF DataType, CarryOut
<1>14. CASE Forget(c)
  <2>1. DataType'
    BY <1>14 DEF DataType, Forget, Invalidate
  <2>2. CallType'
    BY <1>14, GotoType, ReturnType DEF Forget
  <2>3. QED
    BY <2>1, <2>2
<1>15. CASE Commit(c)
  <2>1. DataType'
    <3>1. status' \in [Requests -> Statuses]
      BY <1>15 DEF DataType, Commit, Statuses
    <3>2. done' \in [Requests -> Nat]
      <4>1. \A r \in Requests : done'[r] \in {done[r], done[r] + 1}
        BY <1>15 DEF DataType, Commit
      <4>2. DOMAIN done' = Requests /\ done' = [r \in DOMAIN done' |-> done'[r]]
        BY <1>15 DEF DataType, Commit
      <4>3. \A r \in Requests : done'[r] \in Nat
        BY <4>1 DEF DataType
      <4>4. QED
        BY <4>2, <4>3
    <3>3. QED
      BY <1>15, <3>1, <3>2, UnlockType DEF DataType, Commit
  <2>2. CallType'
    BY <1>15, ReturnType DEF Commit
  <2>3. QED
    BY <2>1, <2>2
<1>16. CASE Expire(c)
  BY <1>16, ReturnType DEF DataType, Expire, Statuses
<1>17. CASE GiveUp(c)
  BY <1>17, ReturnType, UnlockType DEF DataType, GiveUp
<1>18. QED
  BY <1>1, <1>2, <1>3, <1>4, <1>5, <1>6, <1>7, <1>8, <1>9, <1>10, <1>11, <1>12, <1>13,
     <1>14, <1>15, <1>16, <1>17 DEF Move, Advance

LEMMA OutsideType ==
  ASSUME DataType, CallType, Outside
  PROVE  DataType' /\ CallType'
BY ApprovalsAssumption
   DEF ApprovalsAssumption, DataType, CallType, Outside, Alarm, DropPolicy, Age, Lapse,
       planVars, rowVars, lockVars, callVars

LEMMA NextType ==
  ASSUME TypeOK, Next
  PROVE  TypeOK'
<1>1. DataType' /\ CallType'
  BY TypeParts, MoveType, OutsideType, StepSplits DEF Next
<1>2. HistoryType'
  BY <1>1 DEF TypeOK, DataType, HistoryType, Next, Watch
<1>3. QED
  BY <1>1, <1>2, TypeParts DEF TypeOK, DataType, CallType, HistoryType

-----------------------------------------------------------------------------
(* The invariant of a call *)

\* Where a review has locked its request.
Locked == {"lockperm", "ask", "read", "keep", "decide", "carry", "forget", "commit"}

\* What a call is about, and what its lock protects.
CallInv(c) ==
  LET r == request[c] IN
  /\ pc[c] = "idle" \/ Reviewing(c) \/ job[c] \in {"mutate", "list", "change"}
  /\ pc[c] \in {"begin", "lock", "lockperm", "carry", "forget", "commit"} => Reviewing(c)
  /\ pc[c] \in {"ask", "read", "keep", "decide", "carry"} => job[c] \in {"mutate", "approve"}
  /\ pc[c] \in {"duplicate", "insert", "inserting"} => job[c] = "mutate"
  /\ pc[c] = "announce" => job[c] \in {"mutate", "change"}
  /\ pc[c] \in {"expire", "expiring"} => job[c] = "list"
  /\ Reviewing(c) /\ pc[c] # "idle" =>
       pc[c] \in Locked \cup {"begin", "lock"} /\ r \in Requests /\ status[r] # "none"
  /\ Reviewing(c) /\ pc[c] \in Locked => rowLock[r] = c /\ status[r] = "pending"

\* Only the review of a request has its lock.
LockInv ==
  \A r \in Requests, c \in Callers :
    rowLock[r] = c => Reviewing(c) /\ pc[c] \in Locked /\ request[c] = r

\* A call that looked for a duplicate was told of every request since.
TwinInv(c) == pc[c] \in {"insert", "inserting"} => Pending \cap recent \subseteq missed[c]

\* A call watches the emergency deny, and goes on only when it was open.
SeenInv(c) ==
  /\ pc[c] # "idle" /\ job[c] \in {"mutate", "approve"} => alarm \in seen[c]
  /\ pc[c] \in {"carry", "forget", "commit"} /\ job[c] = "approve" => "open" \in seen[c]
  /\ out[c] = "done" => pc[c] = "idle" /\ "open" \in seen[c]

\* No policy that is cached, or about to be, is older than the newest announced.
StaleInv ==
  /\ announced <= version
  /\ cached # NoPolicy => cached.version >= announced
  /\ \A c \in Callers : pc[c] = "keep" =>
       policy[c] # NoPolicy /\ policy[c].version >= announced

\* No call decides by a policy older than what was announced when it began.
SinceInv ==
  \A c \in Callers :
    /\ since[c] <= announced
    /\ pc[c] = "decide" => policy[c] # NoPolicy /\ policy[c].version >= since[c]

DecideInv == CarriedOutOnce /\ LockInv /\ \A c \in Callers : CallInv(c)

\* A call that does not move, while its row and its lock are left alone.
Same(d) ==
  /\ pc'[d] = pc[d] /\ job'[d] = job[d] /\ request'[d] = request[d]
  /\ out'[d] = out[d]

LEMMA EnterSame ==
  ASSUME CallType, NEW c \in Callers, NEW d \in Callers \ {c}, NEW what, NEW p, NEW r,
         Enter(c, what, p, r)
  PROVE  Same(d)
BY DEF CallType, Enter, Same

LEMMA GotoSame ==
  ASSUME CallType, NEW c \in Callers, NEW d \in Callers \ {c}, NEW p, Goto(c, p)
  PROVE  Same(d)
BY DEF CallType, Goto, Same

LEMMA ReturnSame ==
  ASSUME CallType, NEW c \in Callers, NEW d \in Callers \ {c}, NEW made, Return(c, made)
  PROVE  Same(d)
BY DEF CallType, Return, Same

LEMMA MoveSame ==
  ASSUME CallType, NEW c \in Callers, NEW d \in Callers \ {c}, Move(c)
  PROVE  Same(d)
<1>1. CASE Mutate(c) \/ List(c) \/ ChangePlan(c)
  BY <1>1, EnterSame DEF Mutate, List, ChangePlan
<1>2. ASSUME NEW r \in Requests, NEW what \in {"approve", "reject"}, Review(c, what, r)
      PROVE  Same(d)
  BY <1>2, EnterSame DEF Review
<1>3. CASE Ask(c)
  BY <1>3, GotoSame DEF CallType, Ask, Same
<1>4. CASE Keep(c) \/ StartInsert(c) \/ LockPermission(c) \/ StartExpire(c)
  BY <1>4, GotoSame DEF Keep, StartInsert, LockPermission, StartExpire
<1>5. CASE FindDuplicate(c) \/ CarryOut(c) \/ Forget(c)
  BY <1>5, GotoSame, ReturnSame DEF FindDuplicate, CarryOut, Forget
<1>6. CASE Read(c) \/ Begin(c) \/ \E r \in Requests : Insert(c, r)
  BY <1>6 DEF CallType, Read, Begin, Insert, Same
<1>7. CASE Decide(c)
  BY <1>7, ReturnSame DEF CallType, Decide, Same
<1>8. CASE LockRequest(c)
  BY <1>8, ReturnSame DEF CallType, LockRequest, Same
<1>9. CASE Commit(c) \/ Expire(c) \/ GiveUp(c)
  BY <1>9, ReturnSame DEF Commit, Expire, GiveUp
<1>10. QED
  BY <1>1, <1>2, <1>3, <1>4, <1>5, <1>6, <1>7, <1>8, <1>9 DEF Move, Advance

\* A step that leaves the requests and their locks as they are.
LEMMA QuietInv ==
  ASSUME TypeOK, DecideInv, NEW c \in Callers, UNCHANGED <<rowLock, status, done>>,
         \A d \in Callers \ {c} : Same(d), CallInv(c)',
         Reviewing(c) /\ pc[c] \in Locked =>
           Reviewing(c)' /\ pc'[c] \in Locked /\ request'[c] = request[c]
  PROVE  DecideInv'
<1>1. CarriedOutOnce'
  BY DEF DecideInv, CarriedOutOnce
<1>2. LockInv'
  BY DEF DecideInv, LockInv, Reviewing, Same
<1>3. ASSUME NEW d \in Callers \ {c}
      PROVE  CallInv(d)'
  BY DEF DecideInv, CallInv, Reviewing, Same
<1>4. QED
  BY <1>1, <1>2, <1>3 DEF DecideInv

\* A call that ends and gives up its lock.
LEMMA EndInv ==
  ASSUME TypeOK, DecideInv, NEW c \in Callers, Unlock(c), UNCHANGED <<status, done>>,
         \A d \in Callers \ {c} : Same(d), pc'[c] = "idle"
  PROVE  DecideInv'
<1>1. CarriedOutOnce'
  BY DEF DecideInv, CarriedOutOnce
<1>2. \A r \in Requests : rowLock'[r] = IF rowLock[r] = c THEN Nobody ELSE rowLock[r]
  BY DEF Unlock
<1>3. ASSUME NEW r \in Requests, NEW d \in Callers, rowLock'[r] = d
      PROVE  Reviewing(d)' /\ pc'[d] \in Locked /\ request'[d] = r
  <2>1. d # c /\ rowLock[r] = d
    BY <1>2, <1>3, ApprovalsAssumption DEF ApprovalsAssumption, TypeOK
  <2>2. Reviewing(d) /\ pc[d] \in Locked /\ request[d] = r /\ Same(d)
    BY <2>1 DEF DecideInv, LockInv
  <2>3. QED
    BY <2>2 DEF Reviewing, Same
<1>4. ASSUME NEW d \in Callers \ {c}
      PROVE  CallInv(d)'
  <2>1. CallInv(d) /\ Same(d) /\ request[d] \in Requests \cup {NoRequest}
    BY DEF DecideInv, TypeOK
  <2>2. Reviewing(d) /\ pc[d] \in Locked => rowLock'[request[d]] = rowLock[request[d]]
    <3>1. Reviewing(d) /\ pc[d] \in Locked => request[d] \in Requests /\ rowLock[request[d]] = d
      BY <2>1 DEF CallInv, Locked
    <3>2. QED
      BY <1>2, <3>1
  <2>3. QED
    BY <2>1, <2>2 DEF CallInv, Reviewing, Same
<1>5. CallInv(c)'
  BY DEF CallInv, Reviewing, Locked
<1>6. QED
  BY <1>1, <1>3, <1>4, <1>5 DEF DecideInv, LockInv

\* What the three ways to move leave in the caller's own variables.
LEMMA EnterOwn ==
  ASSUME CallType, NEW c \in Callers, NEW what, NEW p, NEW r, Enter(c, what, p, r)
  PROVE  /\ pc[c] = "idle" /\ pc'[c] = p /\ job'[c] = what /\ request'[c] = r
         /\ out'[c] = "none"
BY DEF CallType, Enter

LEMMA GotoOwn ==
  ASSUME CallType, NEW c \in Callers, NEW p, Goto(c, p)
  PROVE  pc'[c] = p /\ job'[c] = job[c] /\ request'[c] = request[c] /\ out'[c] = out[c]
BY DEF CallType, Goto

LEMMA ReturnOwn ==
  ASSUME CallType, NEW c \in Callers, NEW made, Return(c, made)
  PROVE  pc'[c] = "idle" /\ job'[c] = "none" /\ out'[c] = made
BY DEF CallType, Return

LEMMA EnterInv ==
  ASSUME TypeOK, DecideInv, NEW c \in Callers,
         \/ Mutate(c) \/ List(c) \/ ChangePlan(c)
         \/ \E r \in Requests, what \in {"approve", "reject"} : Review(c, what, r)
  PROVE  DecideInv'
<1>1. CallType
  BY TypeParts
<1>2. UNCHANGED <<rowLock, status, done>>
  BY DEF Mutate, List, ChangePlan, Review, rowVars, lockVars
<1>3. \A d \in Callers \ {c} : Same(d)
  BY <1>1, MoveSame DEF Move
<1>4. pc[c] = "idle" /\ CallInv(c)'
  <2>1. CASE Mutate(c) \/ List(c) \/ ChangePlan(c)
    BY <1>1, <2>1, EnterOwn DEF Mutate, List, ChangePlan, CallInv, Reviewing, Locked
  <2>2. ASSUME NEW r \in Requests, NEW what \in {"approve", "reject"}, Review(c, what, r)
        PROVE  pc[c] = "idle" /\ CallInv(c)'
    <3>1. /\ pc[c] = "idle" /\ pc'[c] = "begin" /\ job'[c] = what /\ request'[c] = r
          /\ status[r] # "none"
      BY <1>1, <2>2, EnterOwn DEF Review
    <3>2. QED
      BY <1>2, <3>1 DEF CallInv, Reviewing, Locked
  <2>3. QED
    BY <2>1, <2>2
<1>5. QED
  BY <1>2, <1>3, <1>4, QuietInv DEF Locked

\* The steps of a call that touch neither a request nor a lock of one.
LEMMA QuietMoves ==
  ASSUME TypeOK, DecideInv, NEW c \in Callers,
         \/ Ask(c) \/ Read(c) \/ Keep(c) \/ FindDuplicate(c) \/ StartInsert(c)
         \/ Begin(c) \/ LockPermission(c) \/ Forget(c) \/ StartExpire(c)
  PROVE  DecideInv'
<1>1. CallType /\ CallInv(c)
  BY TypeParts DEF DecideInv
<1>2. UNCHANGED <<rowLock, status, done>>
  BY DEF Ask, Read, Keep, FindDuplicate, StartInsert, Begin, LockPermission, Forget,
         StartExpire, rowVars, lockVars
<1>3. \A d \in Callers \ {c} : Same(d)
  BY <1>1, MoveSame DEF Move, Advance
<1>4. /\ CallInv(c)'
      /\ Reviewing(c) /\ pc[c] \in Locked =>
           Reviewing(c)' /\ pc'[c] \in Locked /\ request'[c] = request[c]
  <2>1. CASE Ask(c)
    <3>1. /\ pc[c] = "ask" /\ pc'[c] \in {"decide", "read"}
          /\ job'[c] = job[c] /\ request'[c] = request[c]
      BY <1>1, <2>1, GotoOwn DEF CallType, Ask
    <3>2. QED
      BY <1>1, <1>2, <3>1 DEF CallInv, Reviewing, Locked
  <2>2. CASE Read(c)
    <3>1. /\ pc[c] = "read" /\ pc'[c] = "keep"
          /\ job'[c] = job[c] /\ request'[c] = request[c]
      BY <1>1, <2>2 DEF CallType, Read
    <3>2. QED
      BY <1>1, <1>2, <3>1 DEF CallInv, Reviewing, Locked
  <2>3. CASE Keep(c)
    <3>1. /\ pc[c] = "keep" /\ pc'[c] = "decide"
          /\ job'[c] = job[c] /\ request'[c] = request[c]
      BY <1>1, <2>3, GotoOwn DEF Keep
    <3>2. QED
      BY <1>1, <1>2, <3>1 DEF CallInv, Reviewing, Locked
  <2>4. CASE FindDuplicate(c) \/ StartInsert(c) \/ StartExpire(c)
    <3>1. /\ pc[c] \in {"duplicate", "insert", "expire"} /\ ~Reviewing(c)
          /\ \/ pc'[c] = "idle"
             \/ /\ job'[c] = job[c]
                /\ \/ pc[c] \in {"duplicate", "insert"}
                      /\ pc'[c] \in {"insert", "inserting"}
                   \/ pc[c] = "expire" /\ pc'[c] = "expiring"
      BY <1>1, <2>4, GotoOwn, ReturnOwn
         DEF FindDuplicate, StartInsert, StartExpire, CallInv, Reviewing
    <3>2. QED
      BY <1>1, <1>2, <3>1 DEF CallInv, Reviewing, Locked
  <2>5. CASE Begin(c)
    <3>1. /\ pc[c] = "begin" /\ pc'[c] = "lock"
          /\ job'[c] = job[c] /\ request'[c] = request[c]
      BY <1>1, <2>5 DEF CallType, Begin
    <3>2. QED
      BY <1>1, <1>2, <3>1 DEF CallInv, Reviewing, Locked
  <2>6. CASE LockPermission(c)
    <3>1. /\ pc[c] = "lockperm" /\ pc'[c] = (IF job[c] = "approve" THEN "ask" ELSE "forget")
          /\ job'[c] = job[c] /\ request'[c] = request[c]
      BY <1>1, <2>6, GotoOwn DEF LockPermission
    <3>2. QED
      BY <1>1, <1>2, <3>1 DEF CallInv, Reviewing, Locked
  <2>7. CASE Forget(c)
    <3>1. \/ /\ pc[c] = "forget" /\ pc'[c] = "commit"
             /\ job'[c] = job[c] /\ request'[c] = request[c]
          \/ pc[c] = "announce" /\ pc'[c] = "idle"
      BY <1>1, <2>7, GotoOwn, ReturnOwn DEF Forget
    <3>2. QED
      BY <1>1, <1>2, <3>1 DEF CallInv, Reviewing, Locked
  <2>8. QED
    BY <2>1, <2>2, <2>3, <2>4, <2>5, <2>6, <2>7
<1>5. QED
  BY <1>2, <1>3, <1>4, QuietInv

LEMMA DecideMove ==
  ASSUME TypeOK, DecideInv, NEW c \in Callers, Decide(c) \/ CarryOut(c) \/ GiveUp(c)
  PROVE  DecideInv'
<1>1. CallType /\ CallInv(c)
  BY TypeParts DEF DecideInv
<1>2. UNCHANGED <<status, done>>
  BY DEF Decide, CarryOut, GiveUp, rowVars
<1>3. \A d \in Callers \ {c} : Same(d)
  BY <1>1, MoveSame DEF Move, Advance
<1>4. CASE Unlock(c) /\ \E made \in {"none", "done"} : Return(c, made)
  BY <1>1, <1>2, <1>3, <1>4, ReturnOwn, EndInv
<1>5. CASE Decide(c) /\ UNCHANGED lockVars
  <2>1. /\ pc[c] = "decide" /\ job[c] \in {"mutate", "approve"} /\ rowLock' = rowLock
        /\ \/ pc'[c] = "idle" /\ ~Reviewing(c)
           \/ /\ pc'[c] = IF Reviewing(c) THEN "carry" ELSE "duplicate"
              /\ job'[c] = job[c] /\ request'[c] = request[c]
           \/ Unlock(c) /\ \E made \in {"none", "done"} : Return(c, made)
    BY <1>1, <1>5, ReturnOwn DEF CallType, Decide, CallInv, lockVars
  <2>2. CASE pc'[c] = "idle" /\ ~Reviewing(c)
    <3>1. CallInv(c)'
      BY <2>2 DEF CallInv, Locked
    <3>2. QED
      BY <1>2, <1>3, <2>1, <2>2, <3>1, QuietInv
  <2>3. CASE /\ pc'[c] = IF Reviewing(c) THEN "carry" ELSE "duplicate"
             /\ job'[c] = job[c] /\ request'[c] = request[c]
    <3>1. CallInv(c)' /\ (Reviewing(c) => Reviewing(c)' /\ pc'[c] \in Locked)
      BY <1>1, <1>2, <2>1, <2>3 DEF CallInv, Reviewing, Locked
    <3>2. QED
      BY <1>2, <1>3, <2>1, <2>3, <3>1, QuietInv
  <2>4. QED
    BY <1>4, <2>1, <2>2, <2>3
<1>6. CASE CarryOut(c) /\ UNCHANGED lockVars
  <2>1. \/ /\ pc[c] = "carry" /\ rowLock' = rowLock /\ pc'[c] = "forget"
           /\ job'[c] = job[c] /\ request'[c] = request[c]
        \/ Unlock(c) /\ \E made \in {"none", "done"} : Return(c, made)
    BY <1>1, <1>6, GotoOwn DEF CarryOut, lockVars
  <2>2. CASE ~(Unlock(c) /\ \E made \in {"none", "done"} : Return(c, made))
    <3>1. CallInv(c)' /\ (Reviewing(c) => Reviewing(c)' /\ pc'[c] \in Locked)
      BY <1>1, <1>2, <2>1, <2>2 DEF CallInv, Reviewing, Locked
    <3>2. QED
      BY <1>2, <1>3, <2>1, <2>2, <3>1, QuietInv
  <2>3. QED
    BY <1>4, <2>2
<1>7. QED
  BY <1>4, <1>5, <1>6 DEF Decide, CarryOut, GiveUp

\* The row is locked only when it is free and still pending.
LEMMA LockMove ==
  ASSUME TypeOK, DecideInv, NEW c \in Callers, LockRequest(c)
  PROVE  DecideInv'
<1>1. CallType /\ CallInv(c)
  BY TypeParts DEF DecideInv
<1>2. \A d \in Callers \ {c} : Same(d)
  BY <1>1, MoveSame DEF Move, Advance
<1>3. UNCHANGED <<status, done>> /\ pc[c] = "lock"
  BY DEF LockRequest, rowVars
<1>4. CASE Return(c, "none") /\ UNCHANGED rowLock
  <2>1. pc'[c] = "idle"
    BY <1>1, <1>4, ReturnOwn
  <2>2. CallInv(c)'
    BY <2>1 DEF CallInv, Locked
  <2>3. QED
    BY <1>2, <1>3, <1>4, <2>2, QuietInv DEF Locked
<1>5. CASE ~(Return(c, "none") /\ UNCHANGED rowLock)
  <2>. PICK r \in Requests : r = request[c]
    BY <1>1, <1>3 DEF CallInv
  <2>1. /\ rowLock[r] = Nobody /\ status[r] = "pending"
        /\ rowLock' = [rowLock EXCEPT ![r] = c]
        /\ pc'[c] = "lockperm" /\ job'[c] = job[c] /\ request'[c] = r
    BY <1>1, <1>5 DEF CallType, LockRequest, RowFree
  <2>2. \A q \in Requests : rowLock'[q] = IF q = r THEN c ELSE rowLock[q]
    BY <2>1 DEF TypeOK
  <2>3. Reviewing(c) /\ Reviewing(c)'
    BY <1>1, <1>3, <2>1 DEF CallInv, Reviewing
  <2>4. LockInv'
    BY <1>2, <1>3, <2>1, <2>2, <2>3 DEF DecideInv, LockInv, Reviewing, Same, Locked
  <2>5. CallInv(c)'
    BY <1>3, <2>1, <2>2, <2>3 DEF CallInv, Reviewing, Locked
  <2>6. ASSUME NEW d \in Callers \ {c}
        PROVE  CallInv(d)'
    <3>1. CallInv(d) /\ Same(d)
      BY <1>2 DEF DecideInv
    <3>2. Reviewing(d) /\ pc[d] \in Locked =>
            rowLock'[request[d]] = rowLock[request[d]]
      BY <2>1, <2>2, <3>1, ApprovalsAssumption
         DEF ApprovalsAssumption, CallInv, Locked
    <3>3. QED
      BY <1>3, <3>1, <3>2 DEF CallInv, Reviewing, Same
  <2>7. CarriedOutOnce'
    BY <1>3 DEF DecideInv, CarriedOutOnce
  <2>8. QED
    BY <2>4, <2>5, <2>6, <2>7 DEF DecideInv
<1>6. QED
  BY <1>4, <1>5

\* A new request changes no other.
LEMMA InsertMove ==
  ASSUME TypeOK, DecideInv, NEW c \in Callers, NEW r \in Requests, Insert(c, r)
  PROVE  DecideInv'
<1>1. CallType /\ CallInv(c)
  BY TypeParts DEF DecideInv
<1>2. \A d \in Callers \ {c} : Same(d)
  BY <1>1, MoveSame DEF Move, Advance
<1>3. /\ UNCHANGED <<rowLock, done>> /\ status[r] = "none"
      /\ \A q \in Requests : status'[q] = IF q = r THEN "pending" ELSE status[q]
      /\ pc[c] = "inserting" /\ pc'[c] = "announce" /\ job'[c] = job[c]
  BY DEF TypeOK, Insert, lockVars
<1>4. job[c] = "mutate"
  BY <1>1, <1>3 DEF CallInv
<1>5. CallInv(c)'
  BY <1>3, <1>4 DEF CallInv, Reviewing, Locked
<1>6. ASSUME NEW d \in Callers \ {c}
      PROVE  CallInv(d)'
  <2>1. CallInv(d) /\ Same(d)
    BY <1>2 DEF DecideInv
  <2>2. QED
    BY <1>3, <2>1 DEF CallInv, Reviewing, Same, Locked
<1>7. LockInv'
  BY <1>2, <1>3, <1>4 DEF DecideInv, LockInv, Reviewing, Same
<1>8. CarriedOutOnce'
  BY <1>3 DEF DecideInv, CarriedOutOnce
<1>9. QED
  BY <1>5, <1>6, <1>7, <1>8 DEF DecideInv

\* Only rows that no review has locked expire.
LEMMA ExpireMove ==
  ASSUME TypeOK, DecideInv, NEW c \in Callers, Expire(c)
  PROVE  DecideInv'
<1>1. CallType /\ CallInv(c)
  BY TypeParts DEF DecideInv
<1>2. \A d \in Callers \ {c} : Same(d)
  BY <1>1, MoveSame DEF Move, Advance
<1>3. /\ UNCHANGED <<rowLock, done>>
      /\ \A q \in Requests :
           \/ status'[q] = status[q]
           \/ status[q] = "pending" /\ status'[q] = "expired" /\ rowLock[q] = Nobody
      /\ pc[c] = "expiring" /\ pc'[c] = "idle"
  BY <1>1, ReturnOwn DEF Expire, Expirable, Pending, lockVars
<1>4. CallInv(c)'
  BY <1>3 DEF CallInv, Locked
<1>5. ASSUME NEW d \in Callers \ {c}
      PROVE  CallInv(d)'
  <2>1. CallInv(d) /\ Same(d)
    BY <1>2 DEF DecideInv
  <2>2. QED
    BY <1>3, <2>1, ApprovalsAssumption
       DEF ApprovalsAssumption, CallInv, Reviewing, Same, Locked
<1>6. LockInv'
  BY <1>2, <1>3 DEF DecideInv, LockInv, Reviewing, Same, Locked
<1>7. CarriedOutOnce'
  BY <1>3 DEF DecideInv, CarriedOutOnce
<1>8. QED
  BY <1>4, <1>5, <1>6, <1>7 DEF DecideInv

\* The decision is written under the lock, over a pending request.
LEMMA CommitMove ==
  ASSUME TypeOK, DecideInv, NEW c \in Callers, Commit(c)
  PROVE  DecideInv'
<1>1. CallType /\ CallInv(c)
  BY TypeParts DEF DecideInv
<1>2. \A d \in Callers \ {c} : Same(d)
  BY <1>1, MoveSame DEF Move, Advance
<1>3. pc[c] = "commit" /\ Reviewing(c)
  BY <1>1 DEF Commit, CallInv
<1>. PICK r \in Requests : r = request[c]
  BY <1>1, <1>3 DEF CallInv
<1>4. rowLock[r] = c /\ status[r] = "pending" /\ done[r] = 0
  <2>1. rowLock[r] = c /\ status[r] = "pending"
    BY <1>1, <1>3 DEF CallInv, Locked
  <2>2. QED
    BY <2>1 DEF DecideInv, CarriedOutOnce
<1>5. \A q \in Requests : rowLock'[q] = IF rowLock[q] = c THEN Nobody ELSE rowLock[q]
  BY DEF Commit, Unlock
<1>6. \A q \in Requests \ {r} : status'[q] = status[q] /\ done'[q] = done[q]
  BY DEF TypeOK, Commit
<1>7. \/ status'[r] = "approved" /\ done'[r] = 1
      \/ status'[r] = "rejected" /\ done'[r] = 0
  BY <1>4 DEF TypeOK, Commit
<1>8. pc'[c] = "idle"
  BY <1>1, ReturnOwn DEF Commit
<1>9. CarriedOutOnce'
  BY <1>6, <1>7 DEF DecideInv, CarriedOutOnce
<1>10. CallInv(c)'
  BY <1>8 DEF CallInv, Locked
<1>11. ASSUME NEW q \in Requests, NEW d \in Callers, rowLock'[q] = d
       PROVE  Reviewing(d)' /\ pc'[d] \in Locked /\ request'[d] = q
  <2>1. d # c /\ rowLock[q] = d
    BY <1>5, <1>11, ApprovalsAssumption DEF ApprovalsAssumption
  <2>2. Reviewing(d) /\ pc[d] \in Locked /\ request[d] = q /\ Same(d)
    BY <1>2, <2>1 DEF DecideInv, LockInv
  <2>3. QED
    BY <2>2 DEF Reviewing, Same
<1>12. ASSUME NEW d \in Callers \ {c}
       PROVE  CallInv(d)'
  <2>1. CallInv(d) /\ Same(d)
    BY <1>2 DEF DecideInv
  <2>2. CASE Reviewing(d) /\ pc[d] \in Locked
    <3>1. request[d] \in Requests \ {r} /\ rowLock[request[d]] = d
      BY <1>4, <2>1, <2>2 DEF CallInv, Locked
    <3>2. rowLock'[request[d]] = d /\ status'[request[d]] = status[request[d]]
      BY <1>5, <1>6, <3>1
    <3>3. QED
      BY <2>1, <3>2 DEF CallInv, Reviewing, Same
  <2>3. CASE ~(Reviewing(d) /\ pc[d] \in Locked)
    <3>1. \A q \in Requests : status[q] # "none" => status'[q] # "none"
      BY <1>6, <1>7
    <3>2. QED
      BY <2>1, <2>3, <3>1 DEF CallInv, Reviewing, Same
  <2>4. QED
    BY <2>2, <2>3
<1>13. QED
  BY <1>9, <1>10, <1>11, <1>12 DEF DecideInv, LockInv

LEMMA StepDecide ==
  ASSUME TypeOK, DecideInv, Step
  PROVE  DecideInv'
<1>1. ASSUME NEW c \in Callers, Move(c)
      PROVE  DecideInv'
  BY <1>1, EnterInv, QuietMoves, DecideMove, LockMove, InsertMove, ExpireMove, CommitMove
     DEF Move, Advance
<1>2. ASSUME Outside
      PROVE  DecideInv'
  <2>1. UNCHANGED <<status, done, rowLock, pc, job, request>>
    BY <1>2 DEF Outside, Alarm, DropPolicy, Age, Lapse, planVars, rowVars, lockVars, callVars
  <2>2. QED
    BY <2>1 DEF DecideInv, CarriedOutOnce, LockInv, CallInv, Reviewing
<1>3. QED
  BY <1>1, <1>2, StepSplits

-----------------------------------------------------------------------------
(* Duplicates *)

\* Steps after which nobody else is inserting and no request is new.
LEMMA QuietTwins ==
  ASSUME \A d \in Callers : TwinInv(d),
         \A d \in Callers : pc'[d] \in {"insert", "inserting"} =>
           pc[d] \in {"insert", "inserting"} /\ missed'[d] = missed[d],
         recent' \subseteq recent,
         \A r \in Requests : status'[r] = "pending" => status[r] = "pending"
  PROVE  \A d \in Callers : TwinInv(d)'
BY DEF TwinInv, Pending

LEMMA StepTwins ==
  ASSUME TypeOK, DecideInv, \A d \in Callers : TwinInv(d), Step
  PROVE  \A d \in Callers : TwinInv(d)'
<1>1. CallType
  BY TypeParts
<1>2. ASSUME NEW c \in Callers, FindDuplicate(c)
      PROVE  \A d \in Callers : TwinInv(d)'
  <2>1. UNCHANGED <<status, recent>>
    BY <1>2 DEF FindDuplicate, rowVars
  <2>2. \A d \in Callers \ {c} : pc'[d] = pc[d] /\ missed'[d] = missed[d]
    BY <1>1, <1>2 DEF CallType, FindDuplicate, Goto, Return
  <2>3. pc'[c] = "idle" \/ Pending \cap recent = {}
    BY <1>1, <1>2, ReturnOwn DEF FindDuplicate, Duplicates
  <2>4. QED
    BY <2>1, <2>2, <2>3 DEF TwinInv, Pending
<1>3. ASSUME NEW c \in Callers, NEW r \in Requests, Insert(c, r)
      PROVE  \A d \in Callers : TwinInv(d)'
  <2>1. /\ recent' = recent \cup {r}
        /\ \A q \in Requests : status'[q] = "pending" => q = r \/ status[q] = "pending"
        /\ pc'[c] = "announce"
    BY <1>3 DEF TypeOK, Insert
  <2>2. \A d \in Callers \ {c} :
          /\ pc'[d] = pc[d]
          /\ pc[d] \in {"insert", "inserting"} => missed'[d] = missed[d] \cup {r}
    BY <1>3 DEF TypeOK, Insert
  <2>3. QED
    BY <2>1, <2>2 DEF TwinInv, Pending
<1>4. ASSUME NEW c \in Callers, Commit(c) \/ Expire(c)
      PROVE  \A d \in Callers : TwinInv(d)'
  <2>1. \A r \in Requests : status'[r] = "pending" => status[r] = "pending"
    BY <1>4 DEF TypeOK, Commit, Expire
  <2>2. /\ recent' = recent /\ pc'[c] = "idle"
        /\ \A d \in Callers \ {c} : pc'[d] = pc[d] /\ missed'[d] = missed[d]
    BY <1>1, <1>4 DEF CallType, Commit, Expire, Return
  <2>3. QED
    BY <2>1, <2>2, QuietTwins
<1>5. ASSUME NEW c \in Callers,
             \/ Mutate(c) \/ List(c) \/ ChangePlan(c)
             \/ \E r \in Requests, what \in {"approve", "reject"} : Review(c, what, r)
             \/ Ask(c) \/ Read(c) \/ Keep(c) \/ Decide(c) \/ StartInsert(c) \/ Begin(c)
             \/ LockRequest(c) \/ LockPermission(c) \/ CarryOut(c) \/ Forget(c)
             \/ StartExpire(c) \/ GiveUp(c)
      PROVE  \A d \in Callers : TwinInv(d)'
  <2>1. UNCHANGED <<status, recent>>
    BY <1>5 DEF Mutate, List, ChangePlan, Review, Ask, Read, Keep, Decide, StartInsert,
                Begin, LockRequest, LockPermission, CarryOut, Forget, StartExpire, GiveUp,
                rowVars
  <2>2. ASSUME NEW d \in Callers, pc'[d] \in {"insert", "inserting"}
        PROVE  pc[d] \in {"insert", "inserting"} /\ missed'[d] = missed[d]
    <3>1. CASE \/ Mutate(c) \/ List(c) \/ ChangePlan(c)
               \/ \E r \in Requests, what \in {"approve", "reject"} : Review(c, what, r)
      BY <1>1, <2>2, <3>1 DEF CallType, Mutate, List, ChangePlan, Review, Enter
    <3>2. CASE Ask(c) \/ Read(c) \/ Keep(c) \/ StartInsert(c) \/ Begin(c)
      BY <1>1, <2>2, <3>2 DEF CallType, Ask, Read, Keep, StartInsert, Begin, Goto
    <3>3. CASE Decide(c)
      BY <1>1, <2>2, <3>3 DEF CallType, Decide, Return
    <3>4. CASE LockRequest(c) \/ LockPermission(c) \/ CarryOut(c)
      BY <1>1, <2>2, <3>4 DEF CallType, LockRequest, LockPermission, CarryOut, Goto, Return
    <3>5. CASE Forget(c) \/ StartExpire(c) \/ GiveUp(c)
      BY <1>1, <2>2, <3>5 DEF CallType, Forget, StartExpire, GiveUp, Goto, Return
    <3>6. QED
      BY <1>5, <3>1, <3>2, <3>3, <3>4, <3>5
  <2>3. QED
    BY <2>1, <2>2, QuietTwins
<1>6. ASSUME Outside
      PROVE  \A d \in Callers : TwinInv(d)'
  <2>1. UNCHANGED <<status, pc, missed>> /\ recent' \subseteq recent
    BY <1>6 DEF Outside, Alarm, DropPolicy, Age, Lapse, planVars, rowVars, lockVars, callVars
  <2>2. QED
    BY <2>1, QuietTwins
<1>7. QED
  BY <1>2, <1>3, <1>4, <1>5, <1>6, StepSplits DEF Move, Advance

-----------------------------------------------------------------------------
(* The emergency deny *)

\* What a call's own step may make of it.
LEMMA MoveSeen ==
  ASSUME TypeOK, DecideInv, NEW c \in Callers, SeenInv(c), Move(c)
  PROVE  /\ out'[c] = "done" => pc'[c] = "idle" /\ "open" \in seen[c]
         /\ pc'[c] \in {"carry", "forget", "commit"} /\ job'[c] = "approve" =>
              pc[c] # "idle" /\ "open" \in seen[c]
<1>1. CallType /\ CallInv(c)
  BY TypeParts DEF DecideInv
<1> DEFINE Goal ==
      /\ out'[c] = "done" => pc'[c] = "idle" /\ "open" \in seen[c]
      /\ pc'[c] \in {"carry", "forget", "commit"} /\ job'[c] = "approve" =>
           pc[c] # "idle" /\ "open" \in seen[c]
<1>2. CASE \/ Mutate(c) \/ List(c) \/ ChangePlan(c)
           \/ \E r \in Requests, what \in {"approve", "reject"} : Review(c, what, r)
  <2>1. out'[c] = "none" /\ pc'[c] \in {"ask", "expire", "announce", "begin"}
    BY <1>1, <1>2, EnterOwn DEF Mutate, List, ChangePlan, Review
  <2>2. QED
    BY <2>1
<1>3. ASSUME pc[c] # "idle", out'[c] = out[c],
             pc'[c] \notin {"carry", "forget", "commit"}
      PROVE  Goal
  BY <1>3 DEF SeenInv
<1>4. ASSUME pc'[c] = "idle", out'[c] = "none"
      PROVE  Goal
  BY <1>4
<1>5. CASE Ask(c) \/ Read(c) \/ Keep(c) \/ FindDuplicate(c)
  <2>1. /\ pc[c] # "idle"
        /\ \/ pc'[c] = "idle" /\ out'[c] = "none"
           \/ pc'[c] \in {"decide", "read", "keep", "insert"} /\ out'[c] = out[c]
    BY <1>1, <1>5, GotoOwn, ReturnOwn DEF CallType, Ask, Read, Keep, FindDuplicate
  <2>2. QED
    BY <1>3, <1>4, <2>1
<1>6. CASE StartInsert(c) \/ StartExpire(c) \/ Begin(c) \/ \E r \in Requests : Insert(c, r)
  <2>1. /\ pc[c] # "idle" /\ out'[c] = out[c]
        /\ pc'[c] \in {"inserting", "expiring", "lock", "announce"}
    BY <1>1, <1>6, GotoOwn DEF CallType, StartInsert, StartExpire, Begin, Insert
  <2>2. QED
    BY <1>3, <2>1
<1>7. CASE LockRequest(c) \/ Expire(c) \/ GiveUp(c)
  <2>1. \/ pc'[c] = "idle" /\ out'[c] = "none"
        \/ pc[c] = "lock" /\ pc'[c] = "lockperm" /\ out'[c] = out[c]
    BY <1>1, <1>7, ReturnOwn DEF CallType, LockRequest, Expire, GiveUp
  <2>2. QED
    BY <1>3, <1>4, <2>1
<1>8. CASE LockPermission(c)
  <2>1. /\ pc[c] = "lockperm" /\ out'[c] = out[c] /\ job'[c] = job[c]
        /\ pc'[c] = IF job[c] = "approve" THEN "ask" ELSE "forget"
    BY <1>1, <1>8, GotoOwn DEF LockPermission
  <2>2. QED
    BY <2>1 DEF SeenInv
<1>9. CASE Decide(c)
  <2>1. CASE pc'[c] = "idle" /\ out'[c] = "none"
    BY <1>4, <2>1
  <2>2. CASE ~(pc'[c] = "idle" /\ out'[c] = "none")
    <3>1. alarm = "open" /\ pc[c] = "decide"
      BY <1>1, <1>9, <2>2, ReturnOwn DEF TypeOK, Decide, Stopped
    <3>2. "open" \in seen[c]
      BY <1>1, <3>1 DEF SeenInv, CallInv
    <3>3. \/ pc'[c] = "idle"
          \/ pc'[c] \in {"carry", "duplicate"} /\ out'[c] = out[c]
      BY <1>1, <1>9, ReturnOwn DEF CallType, Decide
    <3>4. QED
      BY <3>1, <3>2, <3>3 DEF SeenInv
  <2>3. QED
    BY <2>1, <2>2
<1>10. CASE CarryOut(c) \/ Forget(c)
  <2>1. \/ pc'[c] = "idle" /\ out'[c] = "none"
        \/ /\ pc[c] \in {"carry", "forget"} /\ pc'[c] \in {"forget", "commit"}
           /\ out'[c] = out[c] /\ job'[c] = job[c]
    BY <1>1, <1>10, GotoOwn, ReturnOwn DEF CarryOut, Forget
  <2>2. QED
    BY <1>4, <2>1 DEF SeenInv
<1>11. CASE Commit(c)
  <2>1. /\ pc[c] = "commit" /\ pc'[c] = "idle"
        /\ out'[c] = IF job[c] = "approve" THEN "done" ELSE "none"
    BY <1>1, <1>11, ReturnOwn DEF Commit
  <2>2. QED
    BY <2>1 DEF SeenInv
<1>12. QED
  BY <1>2, <1>5, <1>6, <1>7, <1>8, <1>9, <1>10, <1>11 DEF Move, Advance

LEMMA NextSeen ==
  ASSUME TypeOK, DecideInv, \A c \in Callers : SeenInv(c), Next
  PROVE  \A c \in Callers : SeenInv(c)'
<1>1. ASSUME NEW d \in Callers
      PROVE  /\ out'[d] = "done" => pc'[d] = "idle" /\ "open" \in seen[d]
             /\ pc'[d] \in {"carry", "forget", "commit"} /\ job'[d] = "approve" =>
                  pc[d] # "idle" /\ "open" \in seen[d]
  <2>1. CASE Same(d)
    BY <2>1 DEF Same, SeenInv
  <2>2. CASE Move(d)
    BY <2>2, MoveSeen
  <2>3. Same(d) \/ Move(d)
    <3>1. ASSUME NEW c \in Callers, Move(c)
          PROVE  Same(d) \/ Move(d)
      BY <3>1, MoveSame, TypeParts
    <3>2. Outside => Same(d)
      BY DEF Outside, Alarm, DropPolicy, Age, Lapse, callVars, Same
    <3>3. QED
      BY <3>1, <3>2, StepSplits DEF Next
  <2>4. QED
    BY <2>1, <2>2, <2>3
<1>2. ASSUME NEW d \in Callers
      PROVE  /\ pc'[d] = "idle" /\ out'[d] = "done" => seen'[d] = seen[d]
             /\ pc'[d] # "idle" /\ job'[d] \in {"mutate", "approve"} =>
                  /\ alarm' \in seen'[d]
                  /\ pc[d] # "idle" => seen[d] \subseteq seen'[d]
  BY DEF Next, Watch
<1>3. QED
  BY <1>1, <1>2 DEF SeenInv

-----------------------------------------------------------------------------
(* The cached policy *)

LEMMA StepStale ==
  ASSUME TypeOK, StaleInv, Step
  PROVE  StaleInv'
<1>1. CallType
  BY TypeParts
<1>2. ASSUME NEW c \in Callers, Move(c)
      PROVE  StaleInv'
  <2>1. CASE Read(c)
    <3>1. /\ UNCHANGED <<version, cached, announced>>
          /\ policy' = [policy EXCEPT ![c] = CurrentPolicy]
          /\ pc' = [pc EXCEPT ![c] = "keep"]
      BY <2>1 DEF Read, planVars
    <3>2. CurrentPolicy \in Policy /\ CurrentPolicy.version = version
      BY CurrentPolicyType, TypeParts DEF CurrentPolicy
    <3>3. CurrentPolicy # NoPolicy
      BY <3>2, NoPolicyAssumption
    <3>4. version \in Nat /\ announced \in Nat
      BY ApprovalsAssumption DEF ApprovalsAssumption, TypeOK
    <3>5. QED
      BY <1>1, <3>1, <3>2, <3>3, <3>4 DEF CallType, StaleInv
  <2>2. CASE Keep(c)
    <3>1. /\ UNCHANGED <<version, announced, policy>> /\ pc[c] = "keep"
          /\ cached' \in {cached, policy[c]}
          /\ pc' = [pc EXCEPT ![c] = "decide"]
      BY <2>2 DEF Keep, planVars, Goto
    <3>2. QED
      BY <1>1, <3>1 DEF CallType, StaleInv
  <2>3. CASE Forget(c)
    <3>1. /\ version' = version
          /\ cached' = NoPolicy \/ cached' = cached
          /\ \A d \in Callers : pc'[d] = "keep" =>
               pc[d] = "keep" /\ policy'[d] = policy[d]
          /\ \/ announced' = announced
             \/ /\ announced' = version /\ cached' = NoPolicy
                /\ \A d \in Callers : pc[d] # "keep"
      BY <1>1, <2>3 DEF CallType, Forget, Invalidate, planVars, Goto, Return
    <3>2. version \in Nat
      BY ApprovalsAssumption DEF ApprovalsAssumption, TypeOK
    <3>3. QED
      BY <3>1, <3>2 DEF StaleInv
  <2>4. CASE ChangePlan(c)
    <3>1. /\ version' = version + 1 /\ UNCHANGED <<cached, announced, policy>>
          /\ \A d \in Callers : pc'[d] = "keep" => pc[d] = "keep"
      BY <1>1, <2>4 DEF CallType, ChangePlan, Enter
    <3>2. version \in Nat /\ announced \in Nat
      BY ApprovalsAssumption DEF ApprovalsAssumption, TypeOK
    <3>3. QED
      BY <3>1, <3>2 DEF StaleInv
  <2>5. ASSUME UNCHANGED <<version, cached, announced>>,
               \A d \in Callers : pc'[d] = "keep" =>
                 pc[d] = "keep" /\ policy'[d] = policy[d]
        PROVE  StaleInv'
    BY <2>5 DEF StaleInv
  <2>6. CASE \/ Mutate(c) \/ List(c)
             \/ \E r \in Requests, what \in {"approve", "reject"} : Review(c, what, r)
    BY <1>1, <2>5, <2>6 DEF CallType, Mutate, List, Review, Enter, planVars
  <2>7. CASE Ask(c) \/ Decide(c) \/ FindDuplicate(c) \/ StartInsert(c)
    BY <1>1, <2>5, <2>7
       DEF CallType, Ask, Decide, FindDuplicate, StartInsert, Goto, Return, planVars
  <2>8. CASE Begin(c) \/ LockRequest(c) \/ LockPermission(c) \/ CarryOut(c)
    BY <1>1, <2>5, <2>8
       DEF CallType, Begin, LockRequest, LockPermission, CarryOut, Goto, Return, planVars
  <2>9. CASE \/ Commit(c) \/ StartExpire(c) \/ Expire(c) \/ GiveUp(c)
             \/ \E r \in Requests : Insert(c, r)
    BY <1>1, <2>5, <2>9
       DEF CallType, Commit, StartExpire, Expire, GiveUp, Insert, Goto, Return, planVars
  <2>10. QED
    BY <1>2, <2>1, <2>2, <2>3, <2>4, <2>6, <2>7, <2>8, <2>9 DEF Move, Advance
<1>3. ASSUME Outside
      PROVE  StaleInv'
  <2>1. /\ UNCHANGED <<version, announced, pc, policy>>
        /\ cached' = cached \/ cached' = NoPolicy
    BY <1>3 DEF Outside, Alarm, DropPolicy, Age, Lapse, planVars, callVars
  <2>2. QED
    BY <2>1 DEF StaleInv
<1>4. QED
  BY <1>2, <1>3, StepSplits

\* A call that decides took its policy from the cache or read it itself.
LEMMA DecideFrom ==
  ASSUME TypeOK, Step, NEW c \in Callers, pc'[c] = "decide"
  PROVE  /\ job'[c] = job[c]
         /\ \/ pc[c] \in {"decide", "keep"} /\ policy'[c] = policy[c]
            \/ pc[c] = "ask" /\ cached # NoPolicy /\ policy'[c] = cached
<1> DEFINE Goal ==
      /\ job'[c] = job[c]
      /\ \/ pc[c] \in {"decide", "keep"} /\ policy'[c] = policy[c]
         \/ pc[c] = "ask" /\ cached # NoPolicy /\ policy'[c] = cached
<1>1. CallType
  BY TypeParts
<1>2. ASSUME NEW d \in Callers, Move(d)
      PROVE  Goal
  <2>1. CASE \/ Mutate(d) \/ List(d) \/ ChangePlan(d)
             \/ \E r \in Requests, what \in {"approve", "reject"} : Review(d, what, r)
    BY <1>1, <2>1 DEF CallType, Mutate, List, ChangePlan, Review, Enter
  <2>2. CASE Ask(d) \/ Keep(d)
    BY <1>1, <2>2 DEF CallType, Ask, Keep, Goto
  <2>3. CASE Read(d) \/ Begin(d) \/ \E r \in Requests : Insert(d, r)
    BY <1>1, <2>3 DEF CallType, Read, Begin, Insert
  <2>4. CASE Decide(d)
    BY <1>1, <2>4 DEF CallType, Decide, Return
  <2>5. CASE FindDuplicate(d) \/ StartInsert(d) \/ StartExpire(d) \/ CarryOut(d)
    BY <1>1, <2>5
       DEF CallType, FindDuplicate, StartInsert, StartExpire, CarryOut, Goto, Return
  <2>6. CASE LockRequest(d) \/ LockPermission(d) \/ Forget(d)
    BY <1>1, <2>6 DEF CallType, LockRequest, LockPermission, Forget, Goto, Return
  <2>7. CASE Commit(d) \/ Expire(d) \/ GiveUp(d)
    BY <1>1, <2>7 DEF CallType, Commit, Expire, GiveUp, Return
  <2>8. QED
    BY <1>2, <2>1, <2>2, <2>3, <2>4, <2>5, <2>6, <2>7 DEF Move, Advance
<1>3. Outside => Goal
  BY DEF Outside, Alarm, DropPolicy, Age, Lapse, callVars
<1>4. QED
  BY <1>2, <1>3, StepSplits

\* What is announced only grows.
LEMMA AnnouncedGrows ==
  ASSUME TypeOK, StaleInv, Step
  PROVE  announced' \in {announced, version}
<1>1. ASSUME NEW c \in Callers, Move(c)
      PROVE  announced' \in {announced, version}
  BY <1>1 DEF Move, Advance, Mutate, List, ChangePlan, Review, Ask, Read, Keep, Decide,
              FindDuplicate, StartInsert, Insert, Begin, LockRequest, LockPermission,
              CarryOut, Forget, Commit, StartExpire, Expire, GiveUp
<1>2. Outside => announced' = announced
  BY DEF Outside, Alarm, DropPolicy, Age, Lapse
<1>3. QED
  BY <1>1, <1>2, StepSplits

LEMMA NextSince ==
  ASSUME TypeOK, DecideInv, StaleInv, SinceInv, Next
  PROVE  SinceInv'
<1>1. /\ announced \in Nat /\ announced' \in Nat /\ announced <= announced'
      /\ \A c \in Callers : since[c] \in Nat
  BY AnnouncedGrows, ApprovalsAssumption DEF ApprovalsAssumption, TypeOK, StaleInv, Next
<1>2. ASSUME NEW c \in Callers
      PROVE  since'[c] <= announced'
  BY <1>1 DEF SinceInv, Next, Watch
<1>3. ASSUME NEW c \in Callers, pc'[c] = "decide"
      PROVE  policy'[c] # NoPolicy /\ policy'[c].version >= since'[c]
  <2>1. /\ job'[c] = job[c] /\ pc[c] \in {"decide", "keep", "ask"}
        /\ \/ pc[c] \in {"decide", "keep"} /\ policy'[c] = policy[c]
           \/ pc[c] = "ask" /\ cached # NoPolicy /\ policy'[c] = cached
    BY <1>3, DecideFrom DEF Next
  <2>2. job[c] \in {"mutate", "approve"}
    BY <2>1 DEF DecideInv, CallInv
  <2>3. since'[c] = since[c] /\ since[c] \in Nat /\ since[c] <= announced
    BY <1>1, <1>3, <2>1, <2>2 DEF SinceInv, Next, Watch, Decides
  <2>4. policy'[c] # NoPolicy /\ policy'[c].version \in Nat
    BY <2>1, ApprovalsAssumption, NoPolicyAssumption
       DEF ApprovalsAssumption, TypeOK, SinceInv, StaleInv, Policy
  <2>5. policy'[c].version >= since[c]
    BY <1>1, <2>1, <2>3, <2>4 DEF SinceInv, StaleInv
  <2>6. QED
    BY <2>3, <2>4, <2>5
<1>4. QED
  BY <1>2, <1>3 DEF SinceInv

-----------------------------------------------------------------------------
(* Theorems *)

ApprovalsInv ==
  /\ TypeOK /\ DecideInv /\ StaleInv /\ SinceInv
  /\ \A c \in Callers : TwinInv(c) /\ SeenInv(c)

LEMMA InitInv == Init => ApprovalsInv
<1> SUFFICES ASSUME Init PROVE ApprovalsInv
  OBVIOUS
<1>1. TypeOK
  BY ApprovalsAssumption
     DEF ApprovalsAssumption, Init, TypeOK, Rules, Statuses, Jobs, Points
<1>2. DecideInv
  BY ApprovalsAssumption
     DEF ApprovalsAssumption, Init, DecideInv, CarriedOutOnce, LockInv, CallInv, Reviewing,
         Locked
<1>3. StaleInv /\ SinceInv
  BY DEF Init, StaleInv, SinceInv
<1>4. \A c \in Callers : TwinInv(c) /\ SeenInv(c)
  BY DEF Init, TwinInv, SeenInv
<1>5. QED
  BY <1>1, <1>2, <1>3, <1>4 DEF ApprovalsInv

LEMMA NextInv == ApprovalsInv /\ [Next]_vars => ApprovalsInv'
<1> SUFFICES ASSUME ApprovalsInv, [Next]_vars PROVE ApprovalsInv'
  OBVIOUS
<1>1. ASSUME Next
      PROVE  ApprovalsInv'
  <2>1. Step
    BY <1>1 DEF Next
  <2>2. TypeOK' /\ DecideInv'
    BY <1>1, <2>1, NextType, StepDecide DEF ApprovalsInv
  <2>3. StaleInv' /\ SinceInv'
    BY <1>1, <2>1, StepStale, NextSince DEF ApprovalsInv
  <2>4. \A c \in Callers : TwinInv(c)'
    BY <2>1, StepTwins DEF ApprovalsInv
  <2>5. \A c \in Callers : SeenInv(c)'
    BY <1>1, NextSeen DEF ApprovalsInv
  <2>6. QED
    BY <2>2, <2>3, <2>4, <2>5 DEF ApprovalsInv
<1>2. ASSUME UNCHANGED vars
      PROVE  ApprovalsInv'
  <2> USE <1>2 DEF ApprovalsInv, vars, planVars, rowVars, lockVars, callVars
  <2>1. TypeOK'
    BY DEF TypeOK
  <2>2. DecideInv'
    BY DEF DecideInv, CarriedOutOnce, LockInv, CallInv, Reviewing
  <2>3. StaleInv' /\ SinceInv'
    BY DEF StaleInv, SinceInv
  <2>4. \A c \in Callers : TwinInv(c)' /\ SeenInv(c)'
    BY DEF TwinInv, SeenInv, Pending
  <2>5. QED
    BY <2>1, <2>2, <2>3, <2>4
<1>3. QED
  BY <1>1, <1>2

\* Every variable keeps its type, and every call and lock its invariant.
THEOREM ApprovalsInvariant == Spec => []ApprovalsInv
BY InitInv, NextInv, PTL DEF Spec

\* The state of the approvals keeps its types (approval.service.ts,
\* authorization.service.ts).
THEOREM TypeCorrect == Spec => []TypeOK
<1>1. ApprovalsInv => TypeOK
  BY DEF ApprovalsInv
<1>2. QED
  BY <1>1, ApprovalsInvariant, PTL

\* Whoever reviews, lists or gives up, a request is carried out once, and
\* exactly when it is approved (review, list).
THEOREM ApprovedIsCarriedOut == Spec => []CarriedOutOnce
<1>1. ApprovalsInv => CarriedOutOnce
  BY DEF ApprovalsInv, DecideInv
<1>2. QED
  BY <1>1, ApprovalsInvariant, PTL

\* No change is made by a call during which an emergency deny was always in
\* force (hasEmergencyDeny).
THEOREM DenyStops == Spec => []EmergencyStops
<1>1. ApprovalsInv => EmergencyStops
  BY DEF ApprovalsInv, SeenInv, EmergencyStops
<1>2. QED
  BY <1>1, ApprovalsInvariant, PTL

\* Once a change of the plan has cleared the cache undisturbed, neither the
\* cache nor a call that begins afterwards has an older policy
\* (getBusinessPolicy, invalidateBusinessPolicy).
THEOREM StalenessNeedsOverlap == Spec => []StaleOnlyByOverlap
<1>1. ASSUME ApprovalsInv
      PROVE  StaleOnlyByOverlap
  <2>1. ASSUME NEW c \in Callers, pc[c] = "keep"
        PROVE  policy[c].version >= since[c]
    <3>1. policy[c].version \in Nat /\ since[c] \in Nat /\ announced \in Nat
      BY <1>1, <2>1, ApprovalsAssumption
         DEF ApprovalsAssumption, ApprovalsInv, TypeOK, StaleInv, Policy
    <3>2. since[c] <= announced /\ policy[c].version >= announced
      BY <1>1, <2>1 DEF ApprovalsInv, StaleInv, SinceInv
    <3>3. QED
      BY <3>1, <3>2
  <2>2. QED
    BY <1>1, <2>1 DEF ApprovalsInv, StaleInv, SinceInv, StaleOnlyByOverlap
<1>2. QED
  BY <1>1, ApprovalsInvariant, PTL

\* Twice the same request needs two callers who look before either inserts
\* (create).
THEOREM TwinsNeedOverlap == Spec => TwinsOverlap
<1>1. ApprovalsInv /\ [Next]_vars =>
        [\A c \in Callers : pc[c] = "inserting" /\ pc'[c] = "announce" =>
           Pending \cap recent \subseteq missed[c]]_vars
  BY DEF ApprovalsInv, TwinInv
<1>2. QED
  BY <1>1, ApprovalsInvariant, PTL DEF Spec, TwinsOverlap

\* A decision stays (the status is compared under the row's lock).
THEOREM DecisionsAreFinal == Spec => DecidedOnce
<1>1. ASSUME ApprovalsInv, Next, NEW r \in Requests,
             status[r] \in {"approved", "rejected", "expired"}
      PROVE  status'[r] = status[r]
  <2>1. ASSUME NEW c \in Callers, Commit(c)
        PROVE  status'[r] = status[r]
    <3>1. CallInv(c) /\ Reviewing(c) /\ pc[c] = "commit"
      BY <1>1, <2>1 DEF ApprovalsInv, DecideInv, CallInv, Commit
    <3>2. r # request[c]
      BY <1>1, <3>1 DEF CallInv, Locked
    <3>3. QED
      BY <1>1, <2>1, <3>2 DEF ApprovalsInv, TypeOK, Commit
  <2>2. ASSUME NEW c \in Callers, Expire(c) \/ \E q \in Requests : Insert(c, q)
        PROVE  status'[r] = status[r]
    BY <1>1, <2>2 DEF ApprovalsInv, TypeOK, Expire, Expirable, Pending, Insert
  <2>3. ASSUME NEW c \in Callers, Move(c), ~Commit(c), ~Expire(c),
               ~(\E q \in Requests : Insert(c, q))
        PROVE  status' = status
    BY <2>3 DEF Move, Advance, Mutate, List, ChangePlan, Review, Ask, Read, Keep, Decide,
                FindDuplicate, StartInsert, Begin, LockRequest, LockPermission, CarryOut,
                Forget, StartExpire, GiveUp, rowVars
  <2>4. Outside => status' = status
    BY DEF Outside, Alarm, DropPolicy, Age, Lapse, rowVars
  <2>5. QED
    BY <1>1, <2>1, <2>2, <2>3, <2>4, StepSplits DEF Next
<1>2. ApprovalsInv /\ [Next]_vars =>
        [\A r \in Requests :
           status[r] \in {"approved", "rejected", "expired"} =>
             status'[r] = status[r]]_vars
  BY <1>1
<1>3. QED
  BY <1>2, ApprovalsInvariant, PTL DEF Spec, DecidedOnce
=============================================================================
