------------------------------- MODULE Sessions -------------------------------
(***************************************************************************)
(* Sign-in sessions: rows of business_sessions and platform_admin_sessions *)
(* in PostgreSQL, the identity of each cached in Redis under its token, and *)
(* the calls of backend/src/auth/session.service.ts, which many requests   *)
(* run at once in many processes.                                          *)
(*                                                                         *)
(* One business and one platform administrator.  A query or a Redis        *)
(* command is one step; what a call keeps between two of them is its own.  *)
(* A Redis command may do nothing (redis.service.ts swallows every error), *)
(* and the cache may forget anything.                                      *)
(***************************************************************************)
EXTENDS Integers, FiniteSets

CONSTANTS
  Tokens,      \* session tokens (a sign-in draws an unused one)
  Kind,        \* whose session a token will be: "owner", "borrowed" (an
               \* administrator in the dashboard of the business) or "admin"
  Callers,     \* requests in progress
  NoUser,      \* nothing is cached
  NoToken,     \* the caller has no session at hand
  Cap,         \* sessions of an owner that may coexist
  Lossy,       \* may Redis be away or evict keys?
  MaxChanges,  \* bound on the changes of the business record
  MaxCrashes   \* bound on calls cut short

Kinds == {"owner", "borrowed", "admin"}

ASSUME SessionsAssumption ==
  /\ IsFiniteSet(Tokens) /\ IsFiniteSet(Callers)
  /\ Kind \in [Tokens -> Kinds]
  /\ NoToken \notin Tokens
  /\ NoUser \notin [as : Kinds, name : Nat, at : Nat]
  /\ Cap \in Nat \ {0}
  /\ Lossy \in BOOLEAN
  /\ MaxChanges \in Nat
  /\ MaxCrashes \in Nat

VARIABLES
  row,       \* session row of each token
  born,      \* created_at of each row
  over,      \* tokens whose lifetime is over
  active,    \* businesses.status = 'active'
  name,      \* businesses.name, as the number of times it changed
  address,   \* businesses.subdomain, likewise
  cached,    \* session:<token> in Redis
  tracked,   \* business:sessions:<id> in Redis
  tracker,   \* the token whose lifetime that key was last given
  call,      \* what each caller is doing
  pc,        \* and where it is
  token,     \* the token of the call
  user,      \* the identity the call has read
  doomed,    \* tokens whose cache entry the call is removing
  asOf,      \* the name announced when the call began, or that it announces
  out,       \* what the last call returned
  seen,      \* was the token valid at some, or invalid at some, time of the call?
  announced, \* the latest name whose change has cleared the cache
  crashes    \* calls cut short so far

dbVars == <<row, born, over, active, name, address>>
redisVars == <<cached, tracked, tracker>>
callVars == <<call, pc, token, user, doomed, asOf, out>>
ghosts == <<announced, crashes>>
vars == <<dbVars, redisVars, callVars, ghosts, seen>>

User == [as : Kinds, name : Nat, at : Nat]
Results == [is : {"none", "refused", "served"}, user : User \cup {NoUser}]
Nothing == [is |-> "none", user |-> NoUser]
Refused == [is |-> "refused", user |-> NoUser]
Served(u) == [is |-> "served", user |-> u]

TypeOK ==
  /\ row \in [Tokens -> {"unborn", "kept", "gone"}]
  /\ born \in [Tokens -> Nat]
  /\ over \subseteq Tokens
  /\ active \in BOOLEAN
  /\ name \in Nat /\ address \in Nat
  /\ cached \in [Tokens -> User \cup {NoUser}]
  /\ tracked \subseteq Tokens
  /\ tracker \in Tokens \cup {NoToken}
  /\ call \in [Callers -> {"none", "signin", "get", "logout", "revoke", "change"}]
  /\ pc \in [Callers -> {"idle", "insert", "trim", "evict", "store", "track",
                          "verify", "drop", "load", "forget", "delete",
                          "gather", "wipe"}]
  /\ token \in [Callers -> Tokens \cup {NoToken}]
  /\ user \in [Callers -> User \cup {NoUser}]
  /\ doomed \in [Callers -> SUBSET Tokens]
  /\ asOf \in [Callers -> Nat]
  /\ out \in [Callers -> Results]
  /\ seen \in [Callers -> SUBSET {"valid", "invalid"}]
  /\ announced \in Nat
  /\ crashes \in Nat

Init ==
  /\ row = [t \in Tokens |-> "unborn"]
  /\ born = [t \in Tokens |-> 0]
  /\ over = {}
  /\ active = TRUE
  /\ name = 0 /\ address = 0
  /\ cached = [t \in Tokens |-> NoUser]
  /\ tracked = {}
  /\ tracker = NoToken
  /\ call = [c \in Callers |-> "none"]
  /\ pc = [c \in Callers |-> "idle"]
  /\ token = [c \in Callers |-> NoToken]
  /\ user = [c \in Callers |-> NoUser]
  /\ doomed = [c \in Callers |-> {}]
  /\ asOf = [c \in Callers |-> 0]
  /\ out = [c \in Callers |-> Nothing]
  /\ seen = [c \in Callers |-> {}]
  /\ announced = 0
  /\ crashes = 0

-----------------------------------------------------------------------------
(* What the queries select *)

OfBusiness(t) == Kind[t] # "admin"
OwnerRows == {t \in Tokens : Kind[t] = "owner" /\ row[t] = "kept"}
RowsLike(t) == {u \in Tokens : row[u] = "kept" /\ (OfBusiness(u) <=> OfBusiness(t))}

\* Is this the token of a live session of an account that may act?
Authentic(t) ==
  row[t] = "kept" /\ t \notin over /\ (OfBusiness(t) => active)

\* The profile of the account behind a token, as the database has it now.
ForgetsBorrower(t) ==
  [as |-> IF Kind[t] = "borrowed" THEN "owner" ELSE Kind[t],
   name |-> name, at |-> address]
UserOf(t) == [as |-> Kind[t], name |-> name, at |-> address]

\* Does the database confirm the cached identity u of token t?  The name is
\* not compared.
TrustsCache(t, u) == u # NoUser
NullsNeverMatch(t, u) == Authentic(t) /\ u.as = Kind[t] /\ ~OfBusiness(t)
Confirmed(t, u) ==
  Authentic(t) /\ u.as = Kind[t] /\ (OfBusiness(t) => u.at = address)

\* Rows beyond the newest Cap sign-ins of the owner: ORDER BY created_at DESC
\* OFFSET Cap.  Expired rows count.
OneTooMany ==
  {t \in OwnerRows :
     Cardinality({u \in OwnerRows : born[u] > born[t]}) > Cap}
Surplus ==
  {t \in OwnerRows :
     Cardinality({u \in OwnerRows : born[u] > born[t]}) >= Cap}

-----------------------------------------------------------------------------
(* Calls *)

\* A new call enters at step p with token t and identity u.
Begin(c, what, p, t, u, dooms, since) ==
  /\ pc[c] = "idle"
  /\ call' = [call EXCEPT ![c] = what]
  /\ pc' = [pc EXCEPT ![c] = p]
  /\ token' = [token EXCEPT ![c] = t]
  /\ user' = [user EXCEPT ![c] = u]
  /\ doomed' = [doomed EXCEPT ![c] = dooms]
  /\ asOf' = [asOf EXCEPT ![c] = since]
  /\ out' = [out EXCEPT ![c] = Nothing]

Goto(c, p) ==
  /\ pc' = [pc EXCEPT ![c] = p]
  /\ UNCHANGED <<call, token, user, doomed, asOf, out>>

Return(c, result) ==
  /\ call' = [call EXCEPT ![c] = "none"]
  /\ pc' = [pc EXCEPT ![c] = "idle"]
  /\ user' = [user EXCEPT ![c] = NoUser]
  /\ doomed' = [doomed EXCEPT ![c] = {}]
  /\ asOf' = [asOf EXCEPT ![c] = 0]
  /\ out' = [out EXCEPT ![c] = result]
  /\ token' = [token EXCEPT ![c] = IF result.is = "served" THEN @ ELSE NoToken]

\* A Redis command that takes effect, or is lost.
Redis(effect, none) == effect \/ (Lossy /\ none)

Delete(rows) ==
  row' = [t \in Tokens |-> IF t \in rows THEN "gone" ELSE row[t]]

Unused(t) == row[t] = "unborn" /\ \A c \in Callers : pc[c] # "idle" => token[c] # t

\* A token its holder has been given.
Issued(t) ==
  row[t] # "unborn" /\ \A c \in Callers : call[c] = "signin" => token[c] # t

-----------------------------------------------------------------------------
(* Signing in *)

\* The identity was read when the sign-in started, before the e-mailed code
\* or the handoff link came back.
SignIn(c, t) ==
  /\ Unused(t) /\ OfBusiness(t)
  /\ Begin(c, "signin", "insert", t, UserOf(t), {}, 0)
  /\ UNCHANGED <<dbVars, redisVars, ghosts>>

\* The administrator's older sessions are deleted first.
AdminSignIn(c, t) ==
  LET older == RowsLike(t)
  IN  /\ Unused(t) /\ ~OfBusiness(t)
      /\ Begin(c, "signin", IF older = {} THEN "insert" ELSE "evict", t,
               UserOf(t), older, 0)
      /\ Delete(older)
      /\ UNCHANGED <<born, over, active, name, address, redisVars, ghosts>>

Insert(c) ==
  LET t == token[c] IN
  /\ pc[c] = "insert"
  /\ IF OfBusiness(t) /\ ~active
       THEN Return(c, Refused) /\ UNCHANGED <<row, born>>
       ELSE /\ row' = [row EXCEPT ![t] = "kept"]
            /\ born' = [born EXCEPT ![t] =
                 1 + Cardinality({u \in Tokens : row[u] # "unborn"})]
            /\ Goto(c, IF OfBusiness(t) THEN "trim" ELSE "store")
  /\ UNCHANGED <<over, active, name, address, redisVars, ghosts>>

Trim(c) ==
  /\ pc[c] = "trim"
  /\ Delete(Surplus)
  /\ doomed' = [doomed EXCEPT ![c] = Surplus]
  /\ pc' = [pc EXCEPT ![c] = IF Surplus = {} THEN "store" ELSE "evict"]
  /\ UNCHANGED <<born, over, active, name, address, redisVars, ghosts,
                 call, token, user, asOf, out>>

\* The deleted tokens leave Redis one by one, then the call goes on.
Evict(c) ==
  /\ pc[c] = "evict"
  /\ \E t \in doomed[c] :
       /\ Redis(cached' = [cached EXCEPT ![t] = NoUser], UNCHANGED cached)
       /\ Redis(tracked' = tracked \ {t}, UNCHANGED tracked)
       /\ IF doomed[c] # {t}
            THEN /\ doomed' = [doomed EXCEPT ![c] = @ \ {t}]
                 /\ UNCHANGED <<call, pc, token, user, asOf, out>>
            ELSE IF call[c] = "revoke" THEN Return(c, Nothing)
            ELSE /\ doomed' = [doomed EXCEPT ![c] = {}]
                 /\ pc' = [pc EXCEPT ![c] =
                      IF OfBusiness(token[c]) THEN "store" ELSE "insert"]
                 /\ UNCHANGED <<call, token, user, asOf, out>>
  /\ UNCHANGED <<dbVars, tracker, ghosts>>

\* The identity is cached under the token, then the token is tracked.
Store(c) ==
  /\ pc[c] = "store"
  /\ Redis(cached' = [cached EXCEPT ![token[c]] = user[c]], UNCHANGED cached)
  /\ Goto(c, "track")
  /\ UNCHANGED <<dbVars, tracked, tracker, ghosts>>

\* EXPIRE gives the whole key the lifetime of the token added last.  (The key
\* of an administrator is never read.)
Track(c) ==
  /\ pc[c] = "track"
  /\ \/ OfBusiness(token[c]) /\ tracked' = tracked \cup {token[c]}
                             /\ tracker' = token[c]
     \/ (Lossy \/ ~OfBusiness(token[c])) /\ UNCHANGED <<tracked, tracker>>
  /\ Return(c, IF call[c] = "get" THEN Served(user[c]) ELSE Nothing)
  /\ UNCHANGED <<dbVars, cached, ghosts>>

-----------------------------------------------------------------------------
(* Using a session: getSessionUser *)

Get(c, t) ==
  /\ Issued(t)
  /\ \E u \in {cached[t]} \cup (IF Lossy THEN {NoUser} ELSE {}) :
       Begin(c, "get", IF u = NoUser THEN "load" ELSE "verify", t, u, {},
             announced)
  /\ UNCHANGED <<dbVars, redisVars, ghosts>>

\* "Redis is metadata, never the authority."
Verify(c) ==
  /\ pc[c] = "verify"
  /\ IF Confirmed(token[c], user[c])
       THEN Return(c, Served(user[c])) ELSE Goto(c, "drop")
  /\ UNCHANGED <<dbVars, redisVars, ghosts>>

Drop(c) ==
  /\ pc[c] = "drop"
  /\ Redis(cached' = [cached EXCEPT ![token[c]] = NoUser], UNCHANGED cached)
  /\ Return(c, Refused)
  /\ UNCHANGED <<dbVars, tracked, tracker, ghosts>>

\* On a miss the identity comes from the database and is cached again.
Load(c) ==
  /\ pc[c] = "load"
  /\ IF Authentic(token[c])
       THEN /\ user' = [user EXCEPT ![c] = UserOf(token[c])]
            /\ pc' = [pc EXCEPT ![c] = "store"]
            /\ UNCHANGED <<call, token, doomed, asOf, out>>
       ELSE Return(c, Refused)
  /\ UNCHANGED <<dbVars, redisVars, ghosts>>

-----------------------------------------------------------------------------
(* Ending sessions *)

\* The guard has just served the session that is being logged out.
Logout(c) ==
  /\ out[c].is = "served"
  /\ Begin(c, "logout", "forget", token[c], NoUser, {}, 0)
  /\ UNCHANGED <<dbVars, redisVars, ghosts>>

Forget(c) ==
  /\ pc[c] = "forget"
  /\ Redis(cached' = [cached EXCEPT ![token[c]] = NoUser], UNCHANGED cached)
  /\ Redis(tracked' = tracked \ {token[c]}, UNCHANGED tracked)
  /\ Goto(c, "delete")
  /\ UNCHANGED <<dbVars, tracker, ghosts>>

DeleteRow(c) ==
  /\ pc[c] = "delete"
  /\ Delete({token[c]})
  /\ Return(c, Nothing)
  /\ UNCHANGED <<born, over, active, name, address, redisVars, ghosts>>

\* One session of an account, or all of them, or all but the current one.
Revoke(c, t) ==
  /\ \E rows \in {{t}, RowsLike(t)} \cup {RowsLike(t) \ {u} : u \in RowsLike(t)} :
       /\ rows # {} /\ rows \subseteq RowsLike(t)
       /\ Begin(c, "revoke", "evict", t, NoUser, rows, 0)
       /\ Delete(rows)
  /\ UNCHANGED <<born, over, active, name, address, redisVars, ghosts>>

-----------------------------------------------------------------------------
(* The business record changes *)

\* The dashboard changes the name; an administrator any of the three.  Both
\* then clear the cached sessions of the business.
Change(c) ==
  /\ name' \in {name, name + 1}
  /\ address' \in {address, address + 1}
  /\ name' + address' <= MaxChanges
  /\ active' \in BOOLEAN
  /\ Begin(c, "change", "gather", NoToken, NoUser, {}, name')
  /\ UNCHANGED <<row, born, over, redisVars, ghosts>>

\* clearBusinessSessions reads the tracked tokens,
Gather(c) ==
  /\ pc[c] = "gather"
  /\ \/ /\ doomed' = [doomed EXCEPT ![c] = tracked]
        /\ pc' = [pc EXCEPT ![c] = "wipe"]
        /\ UNCHANGED <<call, token, user, asOf, out>>
     \/ Lossy /\ Return(c, Nothing)
  /\ UNCHANGED <<dbVars, redisVars, ghosts>>

\* and deletes their entries, and the key, in one pipeline.
Wipe(c) ==
  /\ pc[c] = "wipe"
  /\ \/ /\ cached' = [t \in Tokens |-> IF t \in doomed[c] THEN NoUser ELSE cached[t]]
        /\ tracked' = {}
        /\ announced' = IF announced < asOf[c] THEN asOf[c] ELSE announced
     \/ Lossy /\ UNCHANGED <<cached, tracked, announced>>
  /\ Return(c, Nothing)
  /\ UNCHANGED <<dbVars, tracker, crashes>>

\* An approved profile request, or a new username, clears nothing.
Rename ==
  /\ name + address < MaxChanges
  /\ name' = name + 1
  /\ UNCHANGED <<row, born, over, active, address, redisVars, callVars, ghosts>>

-----------------------------------------------------------------------------
(* Time and failures *)

Lapse(t) ==
  /\ row[t] # "unborn" /\ t \notin over
  /\ over' = over \cup {t}
  /\ UNCHANGED <<row, born, active, name, address, redisVars, callVars, ghosts>>

\* Redis forgets: entries whose time is up, or any of them.
ForgetEntry(t) ==
  /\ cached[t] # NoUser /\ (Lossy \/ t \in over)
  /\ cached' = [cached EXCEPT ![t] = NoUser]
  /\ UNCHANGED <<dbVars, tracked, tracker, callVars, ghosts>>

ForgetTracking ==
  /\ tracked # {} /\ (Lossy \/ tracker \in over)
  /\ tracked' = {}
  /\ UNCHANGED <<dbVars, cached, tracker, callVars, ghosts>>

\* The process dies in the middle of a call.
Crash(c) ==
  /\ pc[c] # "idle" /\ crashes < MaxCrashes
  /\ crashes' = crashes + 1
  /\ Return(c, Nothing)
  /\ UNCHANGED <<dbVars, redisVars, announced>>

-----------------------------------------------------------------------------
Step ==
  \/ \E c \in Callers :
       \/ \E t \in Tokens :
            SignIn(c, t) \/ AdminSignIn(c, t) \/ Get(c, t) \/ Revoke(c, t)
       \/ Insert(c) \/ Trim(c) \/ Evict(c) \/ Store(c) \/ Track(c)
       \/ Verify(c) \/ Drop(c) \/ Load(c)
       \/ Logout(c) \/ Forget(c) \/ DeleteRow(c)
       \/ Change(c) \/ Gather(c) \/ Wipe(c)
       \/ Crash(c)
  \/ Rename
  \/ \E t \in Tokens : Lapse(t) \/ ForgetEntry(t)
  \/ ForgetTracking

Standing(t) == IF Authentic(t) THEN "valid" ELSE "invalid"

\* History: what a get call could have seen of its token, from its first step
\* to its last.
Watch ==
  seen' = [c \in Callers |->
    IF call'[c] = "get"
      THEN (IF call[c] = "get" THEN seen[c] ELSE {}) \cup {Standing(token[c])'}
      ELSE IF out'[c] = Nothing THEN {} ELSE seen[c]]

Next == Step /\ Watch

Spec == Init /\ [][Next]_vars

-----------------------------------------------------------------------------
(* Properties *)

\* A request is let in only on a session that was live, of an account that was
\* active, at some moment of the call, whatever the cache says and whoever
\* revoked, suspended or signed in meanwhile (getSessionUser: "Redis is
\* metadata, never the authority for a durable session").
ServedWhileValid ==
  \A c \in Callers : out[c].is = "served" => "valid" \in seen[c]

\* A session an administrator borrowed is never served as the owner's, nor the
\* other way round, however often Redis lost it and it was rebuilt
\* (SessionImpersonation, and the projection of getSessionUser).
BorrowedStaysBorrowed ==
  \A c \in Callers : out[c].is = "served" =>
    out[c].user.as = Kind[token[c]]

\* A session that is valid all along is never refused, unless the subdomain of
\* its business has changed: cache entries that other calls left behind cost
\* nobody a sign-in (getSessionUser).
RefusedForCause ==
  \A c \in Callers : out[c].is = "refused" /\ seen[c] # {} =>
    "invalid" \in seen[c] \/ address > 0

\* An owner never keeps more than Cap sessions, but for sign-ins that have not
\* trimmed yet and those that died before they could (createBusinessSession
\* inserts and trims in two statements).
CapRespected ==
  Cardinality(OwnerRows) <=
    Cap + Cardinality({c \in Callers : pc[c] = "trim"}) + crashes

-----------------------------------------------------------------------------
(* Why: the inductive invariant *)

\* At each point of a call: which call it can be, whose identity it holds, and
\* what it has seen of its token.
CallInv(c) ==
  /\ pc[c] = "idle" <=> call[c] = "none"
  /\ call[c] # "none" => out[c] = Nothing
  /\ pc[c] \in {"insert", "trim"} => call[c] = "signin"
  /\ pc[c] = "evict" => call[c] \in {"signin", "revoke"}
  /\ pc[c] \in {"store", "track"} => call[c] \in {"signin", "get"}
  /\ pc[c] \in {"verify", "drop", "load"} => call[c] = "get"
  /\ call[c] \in {"signin", "get"} => token[c] \in Tokens
  /\ call[c] = "signin" \/ pc[c] \in {"store", "track"} =>
       user[c] \in User /\ user[c].as = Kind[token[c]]
  /\ call[c] = "get" => Standing(token[c]) \in seen[c]
  /\ call[c] = "get" /\ pc[c] \in {"store", "track"} => "valid" \in seen[c]
  /\ out[c].is = "served" =>
       "valid" \in seen[c] /\ out[c].user.as = Kind[token[c]]

SessionInv == \A c \in Callers : CallInv(c)

\* An identity u that is cached under token t, or that a call has read for it,
\* is that of t's session, and no newer than the business.
FitsToken(t, u) == u # NoUser => u.as = Kind[t] /\ u.at <= address

\* The two causes RefusedForCause allows.
Excused(c) == "invalid" \in seen[c] \/ address > 0

\* Every copy of an identity fits its token, so that while the subdomain never
\* changed only an invalid session can fail Verify.
CauseOf(c) ==
  /\ FitsToken(token[c], user[c])
  /\ pc[c] = "verify" => user[c] # NoUser
  /\ pc[c] = "drop" => Excused(c)
  /\ call[c] \notin {"none", "get"} => seen[c] = {}
  /\ out[c].is = "refused" /\ seen[c] # {} => Excused(c)

CauseInv ==
  /\ \A t \in Tokens : FitsToken(t, cached[t])
  /\ \A c \in Callers : CauseOf(c)

\* Rows are created one after the other, each under a token that only its own
\* sign-in held until then: Trim finds the newest Cap rows well defined.
Created == {t \in Tokens : row[t] # "unborn"}

TokenOf(c) ==
  /\ pc[c] = "insert" => row[token[c]] = "unborn"
  /\ pc[c] = "evict" /\ call[c] = "signin" /\ ~OfBusiness(token[c]) =>
       row[token[c]] = "unborn"
  /\ pc[c] = "trim" => OfBusiness(token[c])
  /\ call[c] = "get" \/ pc[c] \in {"forget", "delete"} \/ out[c].is = "served" =>
       token[c] \in Created

BirthInv ==
  /\ \A t \in Created : born[t] <= Cardinality(Created)
  /\ \A t, u \in Created : born[t] = born[u] => t = u
  /\ \A c \in Callers : TokenOf(c)
  /\ \A c, d \in Callers :
       call[c] = "signin" /\ call[d] = "signin" /\ token[c] = token[d] => c = d

-----------------------------------------------------------------------------
(* A claim of the source that the code does not keep *)

\* Once a change of the name has cleared the cached sessions, requests that
\* start later are served that name or a newer one.
ClearedNameNotServed ==
  \A c \in Callers :
    pc[c] = "verify" /\ Confirmed(token[c], user[c]) /\ OfBusiness(token[c]) =>
      user[c].name >= asOf[c]
=============================================================================
