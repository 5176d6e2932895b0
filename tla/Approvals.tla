------------------------------ MODULE Approvals ------------------------------
(***************************************************************************)
(* One permission of one business: the policy that decides whether a       *)
(* change of the dashboard is made, queued or refused                      *)
(* (backend/src/auth/authorization.service.ts and authorization.guard.ts), *)
(* the queued requests and their review (auth/approval.service.ts).        *)
(*                                                                         *)
(* The policy comes from PostgreSQL and is cached in Redis for a minute; an *)
(* emergency deny is asked for every time.  Every statement needs one of   *)
(* Pool connections; a review keeps one for its transaction and needs      *)
(* another to authorize.  All requests are for the same change, so that    *)
(* each is a duplicate of the others.                                      *)
(***************************************************************************)
EXTENDS Integers, FiniteSets

CONSTANTS
  Requests,    \* rows of permission_approval_requests
  Callers,     \* requests of the dashboard and of administrators
  Nobody,      \* no caller holds the lock
  NoPolicy,    \* nothing is cached
  NoRequest,   \* the call is about no request
  Pool,        \* connections of the process (DB_POOL_MAX)
  Lossy,       \* may Redis be away?
  MaxChanges,  \* bound on the changes of the plan
  MaxAlarms    \* bound on the changes of the emergency deny

ASSUME ApprovalsAssumption ==
  /\ IsFiniteSet(Requests) /\ IsFiniteSet(Callers)
  /\ Nobody \notin Callers
  /\ NoRequest \notin Requests
  /\ Pool \in Nat \ {0}
  /\ Lossy \in BOOLEAN
  /\ MaxChanges \in Nat /\ MaxAlarms \in Nat

Rules == {"direct", "approval", "deny"}
Policy == [rule : Rules, version : 0..MaxChanges, pending : SUBSET Requests]
ASSUME NoPolicyAssumption == NoPolicy \notin Policy

VARIABLES
  rule,       \* what the plan says of the permission
  version,    \* how often the plan has changed
  alarm,      \* an emergency deny is in force
  alarms,     \* how often that has changed
  cached,     \* authorization:business-policy:<id> in Redis
  status,     \* of each request
  recent,     \* requests of the last five minutes
  lapsed,     \* requests whose expires_at has passed
  done,       \* how often the change of each request was carried out
  rowLock,    \* the review that holds each request
  permLock,   \* the review that holds the row of the permission
  job, pc,    \* what each caller is doing, and where it is
  request,    \* the request it reviews
  policy,     \* the policy it decides by
  stale,      \* had its request lapsed when its transaction began?
  missed,     \* requests inserted since it looked for a duplicate
  out,        \* did the last call make a change?
  seen,       \* the states of the emergency deny during the call
  announced,  \* the newest change all caches are rid of
  since       \* what was announced when the call began

planVars == <<rule, version, alarm, alarms>>
rowVars == <<status, recent, lapsed, done>>
lockVars == <<rowLock, permLock>>
callVars == <<job, pc, request, policy, stale, missed, out>>
vars == <<planVars, cached, rowVars, lockVars, callVars, seen, announced, since>>

Statuses == {"none", "pending", "approved", "rejected", "expired"}
Jobs == {"none", "mutate", "approve", "reject", "list", "change"}
Points == {"idle", "ask", "read", "keep", "decide", "duplicate", "insert",
           "inserting", "announce", "begin", "lock", "lockperm", "carry",
           "forget", "commit", "expire", "expiring"}

TypeOK ==
  /\ rule \in Rules /\ version \in 0..MaxChanges
  /\ alarm \in {"open", "denied"} /\ alarms \in 0..MaxAlarms
  /\ cached \in Policy \cup {NoPolicy}
  /\ status \in [Requests -> Statuses]
  /\ recent \subseteq Requests /\ lapsed \subseteq Requests
  /\ done \in [Requests -> Nat]
  /\ rowLock \in [Requests -> Callers \cup {Nobody}]
  /\ permLock \in Callers \cup {Nobody}
  /\ job \in [Callers -> Jobs] /\ pc \in [Callers -> Points]
  /\ request \in [Callers -> Requests \cup {NoRequest}]
  /\ policy \in [Callers -> Policy \cup {NoPolicy}]
  /\ stale \in [Callers -> {"no", "yes"}]
  /\ missed \in [Callers -> SUBSET Requests]
  /\ out \in [Callers -> {"none", "done"}]
  /\ seen \in [Callers -> SUBSET {"open", "denied"}]
  /\ announced \in 0..MaxChanges
  /\ since \in [Callers -> 0..MaxChanges]

Init ==
  /\ rule = "approval" /\ version = 0
  /\ alarm = "open" /\ alarms = 0
  /\ cached = NoPolicy
  /\ status = [r \in Requests |-> "none"]
  /\ recent = {} /\ lapsed = {}
  /\ done = [r \in Requests |-> 0]
  /\ rowLock = [r \in Requests |-> Nobody]
  /\ permLock = Nobody
  /\ job = [c \in Callers |-> "none"]
  /\ pc = [c \in Callers |-> "idle"]
  /\ request = [c \in Callers |-> NoRequest]
  /\ policy = [c \in Callers |-> NoPolicy]
  /\ stale = [c \in Callers |-> "no"]
  /\ missed = [c \in Callers |-> {}]
  /\ out = [c \in Callers |-> "none"]
  /\ seen = [c \in Callers |-> {}]
  /\ announced = 0
  /\ since = [c \in Callers |-> 0]

-----------------------------------------------------------------------------
(* Connections, locks and the cache *)

Reviewing(c) == job[c] \in {"approve", "reject"}
InTransaction(c) == Reviewing(c) /\ pc[c] \notin {"idle", "begin"}
Holding == {c \in Callers : InTransaction(c) \/ pc[c] \in {"inserting", "expiring"}}
Connection == Cardinality(Holding) < Pool

\* The requests the dashboard is shown as pending.
Pending == {r \in Requests : status[r] = "pending"}
OfReplica ==
  [rule |-> rule, version |-> IF version = 0 THEN 0 ELSE version - 1,
   pending |-> Pending \ lapsed]
CurrentPolicy ==
  [rule |-> rule, version |-> version, pending |-> Pending \ lapsed]

Enter(c, what, p, r) ==
  /\ pc[c] = "idle"
  /\ job' = [job EXCEPT ![c] = what]
  /\ pc' = [pc EXCEPT ![c] = p]
  /\ request' = [request EXCEPT ![c] = r]
  /\ out' = [out EXCEPT ![c] = "none"]
  /\ UNCHANGED <<policy, stale, missed>>

Goto(c, p) ==
  /\ pc' = [pc EXCEPT ![c] = p]
  /\ UNCHANGED <<job, request, policy, stale, missed, out>>

Return(c, made) ==
  /\ pc' = [pc EXCEPT ![c] = "idle"]
  /\ job' = [job EXCEPT ![c] = "none"]
  /\ request' = [request EXCEPT ![c] = NoRequest]
  /\ policy' = [policy EXCEPT ![c] = NoPolicy]
  /\ stale' = [stale EXCEPT ![c] = "no"]
  /\ missed' = [missed EXCEPT ![c] = {}]
  /\ out' = [out EXCEPT ![c] = made]

\* The end of a transaction, or of a call that has none.
Unlock(c) ==
  /\ rowLock' = [r \in Requests |-> IF rowLock[r] = c THEN Nobody ELSE rowLock[r]]
  /\ permLock' = IF permLock = c THEN Nobody ELSE permLock

Invalidate == cached' = NoPolicy \/ (Lossy /\ cached' = cached)

-----------------------------------------------------------------------------
(* Deciding: the guard of a dashboard request, and of an approval *)

Mutate(c) ==
  /\ Enter(c, "mutate", "ask", NoRequest)
  /\ UNCHANGED <<planVars, cached, rowVars, lockVars, announced>>

Ask(c) ==
  /\ pc[c] = "ask"
  /\ \/ /\ cached # NoPolicy
        /\ policy' = [policy EXCEPT ![c] = cached]
        /\ pc' = [pc EXCEPT ![c] = "decide"]
        /\ UNCHANGED <<job, request, stale, missed, out>>
     \/ (cached = NoPolicy \/ Lossy) /\ Goto(c, "read")
  /\ UNCHANGED <<planVars, cached, rowVars, lockVars, announced>>

\* The queries of a miss; nothing here relates what one of them reads to what
\* another does.
Read(c) ==
  /\ pc[c] = "read" /\ Connection
  /\ policy' = [policy EXCEPT ![c] = CurrentPolicy]
  /\ pc' = [pc EXCEPT ![c] = "keep"]
  /\ UNCHANGED <<planVars, cached, rowVars, lockVars, announced,
                 job, request, stale, missed, out>>

Keep(c) ==
  /\ pc[c] = "keep"
  /\ cached' = policy[c] \/ (Lossy /\ cached' = cached)
  /\ Goto(c, "decide")
  /\ UNCHANGED <<planVars, rowVars, lockVars, announced>>

\* The emergency deny is asked for whatever the policy is or where it was.
AlarmInPolicy(c) == alarm = "denied" /\ cached # policy[c]
Stopped(c) == alarm = "denied"

\* A change the rule calls direct is made by the handler behind the guard.
Decide(c) ==
  /\ pc[c] = "decide" /\ Connection
  /\ IF Stopped(c) \/ policy[c].rule = "deny"
       THEN Return(c, "none") /\ Unlock(c)
       ELSE /\ UNCHANGED lockVars
            /\ IF policy[c].rule = "direct" /\ ~Reviewing(c)
                 THEN Return(c, "done")
                 ELSE /\ policy' = [policy EXCEPT ![c] = NoPolicy]
                      /\ pc' = [pc EXCEPT ![c] =
                           IF Reviewing(c) THEN "carry" ELSE "duplicate"]
                      /\ UNCHANGED <<job, request, stale, missed, out>>
  /\ UNCHANGED <<planVars, cached, rowVars, announced>>

-----------------------------------------------------------------------------
(* Queueing a request *)

Duplicates == Pending \cap recent

FindDuplicate(c) ==
  /\ pc[c] = "duplicate" /\ Connection
  /\ IF Duplicates # {} THEN Return(c, "none") ELSE Goto(c, "insert")
  /\ UNCHANGED <<planVars, cached, rowVars, lockVars, announced>>

StartInsert(c) ==
  /\ pc[c] = "insert" /\ Connection
  /\ Goto(c, "inserting")
  /\ UNCHANGED <<planVars, cached, rowVars, lockVars, announced>>

\* The foreign key waits for a review that has locked the permission.
Insert(c, r) ==
  /\ pc[c] = "inserting" /\ permLock = Nobody
  /\ status[r] = "none"
  /\ status' = [status EXCEPT ![r] = "pending"]
  /\ recent' = recent \cup {r}
  /\ missed' = [d \in Callers |->
       IF pc[d] \in {"insert", "inserting"} /\ d # c THEN missed[d] \cup {r}
       ELSE missed[d]]
  /\ pc' = [pc EXCEPT ![c] = "announce"]
  /\ UNCHANGED <<planVars, cached, lapsed, done, lockVars, announced,
                 job, request, policy, stale, out>>

-----------------------------------------------------------------------------
(* Reviewing *)

Review(c, what, r) ==
  /\ status[r] # "none"
  /\ Enter(c, what, "begin", r)
  /\ UNCHANGED <<planVars, cached, rowVars, lockVars, announced>>

\* NOW() is the start of the transaction.
Begin(c) ==
  /\ pc[c] = "begin" /\ Connection
  /\ stale' = [stale EXCEPT ![c] = IF request[c] \in lapsed THEN "yes" ELSE "no"]
  /\ pc' = [pc EXCEPT ![c] = "lock"]
  /\ UNCHANGED <<planVars, cached, rowVars, lockVars, announced,
                 job, request, policy, missed, out>>

\* SELECT ... FOR UPDATE: the row is looked at again once it is free.
WithoutLock(c) == TRUE
RowFree(c) == rowLock[request[c]] = Nobody

LockRequest(c) ==
  LET r == request[c] IN
  /\ pc[c] = "lock" /\ RowFree(c)
  /\ IF status[r] = "pending" /\ stale[c] = "no"
       THEN /\ rowLock' = [rowLock EXCEPT ![r] = c]
            /\ pc' = [pc EXCEPT ![c] = "lockperm"]
            /\ stale' = [stale EXCEPT ![c] = "no"]
            /\ UNCHANGED <<job, request, policy, missed, out>>
       ELSE Return(c, "none") /\ UNCHANGED rowLock
  /\ UNCHANGED <<planVars, cached, rowVars, permLock, announced>>

\* The query locks the joined permission, too.
LockPermission(c) ==
  /\ pc[c] = "lockperm" /\ permLock = Nobody
  /\ permLock' = c
  /\ Goto(c, IF job[c] = "approve" THEN "ask" ELSE "forget")
  /\ UNCHANGED <<planVars, cached, rowVars, rowLock, announced>>

\* The change is made inside the transaction, and may be refused there.
CarryOut(c) ==
  /\ pc[c] = "carry"
  /\ \/ Goto(c, "forget") /\ UNCHANGED lockVars
     \/ Return(c, "none") /\ Unlock(c)
  /\ UNCHANGED <<planVars, cached, rowVars, announced>>

\* The cached policy is dropped before the transaction commits; after an
\* insertion or a change of the plan it is dropped afterwards.
Forget(c) ==
  /\ pc[c] \in {"forget", "announce"}
  /\ Invalidate
  /\ IF pc[c] = "forget" THEN Goto(c, "commit")
     ELSE Return(c, "none")
  /\ announced' =
       IF /\ job[c] = "change" /\ cached' = NoPolicy
          /\ \A d \in Callers : pc[d] # "keep"
       THEN version ELSE announced
  /\ UNCHANGED <<planVars, rowVars, lockVars>>

Commit(c) ==
  LET r == request[c] IN
  /\ pc[c] = "commit"
  /\ status' = [status EXCEPT ![r] =
       IF job[c] = "approve" THEN "approved" ELSE "rejected"]
  /\ done' = [done EXCEPT ![r] = IF job[c] = "approve" THEN @ + 1 ELSE @]
  /\ Unlock(c)
  /\ Return(c, IF job[c] = "approve" THEN "done" ELSE "none")
  /\ UNCHANGED <<planVars, cached, recent, lapsed, announced>>

-----------------------------------------------------------------------------
(* The list of requests *)

List(c) ==
  /\ Enter(c, "list", "expire", NoRequest)
  /\ UNCHANGED <<planVars, cached, rowVars, lockVars, announced>>

StartExpire(c) ==
  /\ pc[c] = "expire" /\ Connection
  /\ Goto(c, "expiring")
  /\ UNCHANGED <<planVars, cached, rowVars, lockVars, announced>>

\* One statement, which waits for the rows that are being reviewed.
Expirable == Pending \cap lapsed

Expire(c) ==
  /\ pc[c] = "expiring"
  /\ \A r \in Expirable : rowLock[r] = Nobody
  /\ status' = [r \in Requests |-> IF r \in Expirable THEN "expired" ELSE status[r]]
  /\ Return(c, "none")
  /\ UNCHANGED <<planVars, cached, recent, lapsed, done, lockVars, announced>>

-----------------------------------------------------------------------------
(* Waiting ends: a connection after 10 s, a statement after 30 s *)

WaitsForRow(c) == pc[c] \in {"lock", "lockperm", "inserting", "expiring"}
WaitsForPool(c) ==
  pc[c] \in {"read", "decide", "duplicate", "insert", "begin", "expire"}
Patient(c) == FALSE
TimesOut(c) == WaitsForRow(c) \/ WaitsForPool(c)

GiveUp(c) ==
  /\ TimesOut(c)
  /\ Unlock(c)
  /\ Return(c, "none")
  /\ UNCHANGED <<planVars, cached, rowVars, announced>>

-----------------------------------------------------------------------------
(* The plan, the deny and time *)

\* An administrator edits the plan, or assigns another one.
ChangePlan(c) ==
  /\ version < MaxChanges
  /\ Enter(c, "change", "announce", NoRequest)
  /\ rule' \in Rules \ {rule}
  /\ version' = version + 1
  /\ UNCHANGED <<alarm, alarms, cached, rowVars, lockVars, announced>>

Alarm ==
  /\ alarms < MaxAlarms
  /\ alarm' = IF alarm = "open" THEN "denied" ELSE "open"
  /\ alarms' = alarms + 1
  /\ UNCHANGED <<rule, version, cached, rowVars, lockVars, callVars, announced>>

\* The minute of the cached policy is over.
KeptForGood == FALSE
Expires == cached # NoPolicy

DropPolicy ==
  /\ Expires
  /\ cached' = NoPolicy
  /\ UNCHANGED <<planVars, rowVars, lockVars, callVars, announced>>

Age(r) ==
  /\ r \in recent
  /\ recent' = recent \ {r}
  /\ UNCHANGED <<planVars, cached, status, lapsed, done, lockVars, callVars,
                 announced>>

Lapse(r) ==
  /\ status[r] # "none" /\ r \notin lapsed \cup recent
  /\ lapsed' = lapsed \cup {r}
  /\ UNCHANGED <<planVars, cached, status, recent, done, lockVars, callVars,
                 announced>>

-----------------------------------------------------------------------------
Advance(c) ==
  \/ Ask(c) \/ Read(c) \/ Keep(c) \/ Decide(c)
  \/ FindDuplicate(c) \/ StartInsert(c) \/ \E r \in Requests : Insert(c, r)
  \/ Begin(c) \/ LockRequest(c) \/ LockPermission(c) \/ CarryOut(c)
  \/ Forget(c) \/ Commit(c)
  \/ StartExpire(c) \/ Expire(c)
  \/ GiveUp(c)

Step ==
  \/ \E c \in Callers :
       \/ Mutate(c) \/ List(c) \/ ChangePlan(c)
       \/ \E r \in Requests, what \in {"approve", "reject"} : Review(c, what, r)
       \/ Advance(c)
  \/ Alarm \/ DropPolicy
  \/ \E r \in Requests : Age(r) \/ Lapse(r)

\* Calls that decide by a policy.
Decides(c) == pc[c] # "idle" /\ job[c] \in {"mutate", "approve"}

\* History: the states of the emergency deny while a call lasts, and what was
\* announced when it began.
Watch ==
  /\ seen' = [c \in Callers |->
       IF pc'[c] = "idle" THEN IF out'[c] = "done" THEN seen[c] ELSE {}
       ELSE IF job'[c] \notin {"mutate", "approve"} THEN {}
       ELSE (IF pc[c] = "idle" THEN {} ELSE seen[c]) \cup {alarm'}]
  /\ since' = [c \in Callers |->
       IF Decides(c) /\ Decides(c)' THEN since[c] ELSE announced']

Next == Step /\ Watch

Spec == Init /\ [][Next]_vars

\* Calls go on or time out, and Redis keeps the lifetime of its entries.
FairSpec ==
  /\ Spec
  /\ \A c \in Callers : WF_vars(Advance(c) /\ Watch)
  /\ WF_vars(DropPolicy /\ Watch)

-----------------------------------------------------------------------------
(* Properties *)

\* The change of a request is carried out at most once, and exactly when the
\* request is approved, whoever else approves, rejects or expires it at the
\* same time (review locks the row and looks at it again).
CarriedOutOnce ==
  \A r \in Requests : done[r] = IF status[r] = "approved" THEN 1 ELSE 0

\* A decision is final: two reviews, or a review and the list that expires old
\* requests, never both decide (the status is compared in both statements).
DecidedOnce ==
  [][\A r \in Requests :
       status[r] \in {"approved", "rejected", "expired"} =>
         status'[r] = status[r]]_vars

\* The same change is queued twice within five minutes only if the second caller
\* had looked for the first request before it was there (create: a query, then an
\* insert).
TwinsOverlap ==
  [][\A c \in Callers : pc[c] = "inserting" /\ pc'[c] = "announce" =>
       Pending \cap recent \subseteq missed[c]]_vars

\* Nothing is changed, directly or by an approval, by a call during the whole
\* of which an emergency deny was in force (hasEmergencyDeny is asked for
\* every decision, cached policy or not).
EmergencyStops ==
  \A c \in Callers : out[c] = "done" => "open" \in seen[c]

\* Once a change of the plan has cleared the cache while nobody was about to
\* fill it, the cache has no older plan, and no call that begins afterwards
\* decides by one (billing-management invalidates after its transaction).  A
\* call that had taken the older policy before the clearing still decides by it.
StaleOnlyByOverlap ==
  /\ cached # NoPolicy => cached.version >= announced
  /\ \A c \in Callers :
       pc[c] \in {"keep", "decide"} => policy[c].version >= since[c]

\* Whatever was invalidated too early, lost or overtaken by an older fill: in
\* the end the cached policy, with the requests it shows as pending, is the
\* database's ("cached per business in Redis for 60 seconds").
PolicyCatchesUp == <>[](cached # NoPolicy => cached = CurrentPolicy)

\* Every call ends, although reviews that hold all the connections wait for
\* another one, and requests wait for the permission a review has locked.
EveryCallEnds == \A c \in Callers : pc[c] # "idle" ~> pc[c] = "idle"
=============================================================================
