--------------------------- MODULE SessionsProofs ---------------------------
(***************************************************************************)
(* Proofs about the sessions, for every number of tokens and callers, any  *)
(* cap, and a cache that may lose anything.                                *)
(***************************************************************************)
EXTENDS Sessions, FiniteSetTheorems, TLAPS

-----------------------------------------------------------------------------
(* Who a step concerns *)

\* What one caller does.
Move(c) ==
  \/ \E t \in Tokens :
       SignIn(c, t) \/ AdminSignIn(c, t) \/ Get(c, t) \/ Revoke(c, t)
  \/ Insert(c) \/ Trim(c) \/ Evict(c) \/ Store(c) \/ Track(c)
  \/ Verify(c) \/ Drop(c) \/ Load(c)
  \/ Logout(c) \/ Forget(c) \/ DeleteRow(c)
  \/ Change(c) \/ Gather(c) \/ Wipe(c)
  \/ Crash(c)

\* What happens outside every call.
Outside ==
  \/ Rename
  \/ \E t \in Tokens : Lapse(t) \/ ForgetEntry(t)
  \/ ForgetTracking

\* Nothing of caller d's own changes.
Same(d) ==
  /\ call'[d] = call[d] /\ pc'[d] = pc[d] /\ token'[d] = token[d]
  /\ user'[d] = user[d] /\ out'[d] = out[d]

LEMMA StepSplits ==
  ASSUME Step
  PROVE  (\E c \in Callers : Move(c)) \/ Outside
BY DEF Step, Move, Outside

LEMMA OutsideSame ==
  ASSUME Outside, NEW d \in Callers
  PROVE  Same(d)
BY DEF Outside, Rename, Lapse, ForgetEntry, ForgetTracking, callVars, Same

\* The three ways a call moves on leave every other caller alone.
LEMMA BeginSame ==
  ASSUME TypeOK, NEW c \in Callers, NEW d \in Callers \ {c},
         NEW what, NEW p, NEW t, NEW u, NEW dooms, NEW since,
         Begin(c, what, p, t, u, dooms, since)
  PROVE  Same(d)
BY DEF TypeOK, Begin, Same

LEMMA GotoSame ==
  ASSUME TypeOK, NEW c \in Callers, NEW d \in Callers \ {c}, NEW p, Goto(c, p)
  PROVE  Same(d)
BY DEF TypeOK, Goto, Same

LEMMA ReturnSame ==
  ASSUME TypeOK, NEW c \in Callers, NEW d \in Callers \ {c}, NEW result,
         Return(c, result)
  PROVE  Same(d)
BY DEF TypeOK, Return, Same

LEMMA MoveSame ==
  ASSUME TypeOK, NEW c \in Callers, NEW d \in Callers \ {c}, Move(c)
  PROVE  Same(d)
<1>1. ASSUME NEW t \in Tokens,
             SignIn(c, t) \/ AdminSignIn(c, t) \/ Get(c, t) \/ Revoke(c, t)
      PROVE  Same(d)
  <2>1. PICK what, p, u, dooms, since : Begin(c, what, p, t, u, dooms, since)
    BY <1>1 DEF SignIn, AdminSignIn, Get, Revoke
  <2>2. QED
    BY <2>1, BeginSame
<1>2. CASE Logout(c) \/ Change(c)
  <2>1. PICK what, p, t, u, dooms, since : Begin(c, what, p, t, u, dooms, since)
    BY <1>2 DEF Logout, Change
  <2>2. QED
    BY <2>1, BeginSame
<1>3. CASE Insert(c)
  BY <1>3, ReturnSame, GotoSame DEF Insert
<1>4. CASE Track(c) \/ Drop(c) \/ DeleteRow(c) \/ Wipe(c) \/ Crash(c)
  <2>1. PICK result : Return(c, result)
    BY <1>4 DEF Track, Drop, DeleteRow, Wipe, Crash
  <2>2. QED
    BY <2>1, ReturnSame
<1>5. CASE Store(c) \/ Forget(c)
  BY <1>5, GotoSame DEF Store, Forget
<1>6. CASE Verify(c)
  BY <1>6, ReturnSame, GotoSame DEF Verify
<1>7. CASE Trim(c)
  BY <1>7 DEF TypeOK, Trim, Same
<1>8. CASE Load(c)
  <2>1. CASE Authentic(token[c])
    BY <1>8, <2>1 DEF TypeOK, Load, Same
  <2>2. CASE ~Authentic(token[c])
    BY <1>8, <2>2, ReturnSame DEF Load
  <2>3. QED
    BY <2>1, <2>2
<1>9. CASE Gather(c)
  <2>1. CASE Return(c, Nothing)
    BY <2>1, ReturnSame
  <2>2. CASE ~Return(c, Nothing)
    BY <1>9, <2>2 DEF TypeOK, Gather, Same
  <2>3. QED
    BY <2>1, <2>2
<1>10. CASE Evict(c)
  <2>1. CASE Return(c, Nothing)
    BY <2>1, ReturnSame
  <2>2. CASE ~Return(c, Nothing)
    BY <1>10, <2>2 DEF TypeOK, Evict, Same
  <2>3. QED
    BY <2>1, <2>2
<1>11. QED
  BY <1>1, <1>2, <1>3, <1>4, <1>5, <1>6, <1>7, <1>8, <1>9, <1>10 DEF Move

-----------------------------------------------------------------------------
(* The invariant of a call *)

\* A caller that does not move keeps its invariant: its token's standing after
\* the step is added to what it has seen.
LEMMA BystanderInv ==
  ASSUME TypeOK, SessionInv, Watch, NEW d \in Callers, Same(d)
  PROVE  CallInv(d)'
<1>1. CallInv(d)
  BY DEF SessionInv
<1>2. seen[d] \subseteq seen'[d] \/ (out'[d] = Nothing /\ call[d] # "get")
  BY DEF Watch, Same
<1>3. call[d] = "get" =>
        Standing(token[d])' \in seen'[d] /\ seen[d] \subseteq seen'[d]
  BY DEF Watch, Same
<1>4. QED
  BY <1>1, <1>2, <1>3 DEF CallInv, Same, Nothing

\* A caller that begins a call.
LEMMA BeginInv ==
  ASSUME TypeOK, Watch, NEW c \in Callers,
         NEW what \in {"signin", "get", "logout", "revoke", "change"},
         NEW p, NEW t, NEW u, NEW dooms, NEW since,
         Begin(c, what, p, t, u, dooms, since),
         p # "idle",
         p \in {"insert", "trim"} => what = "signin",
         p = "evict" => what \in {"signin", "revoke"},
         p \in {"verify", "drop", "load"} => what = "get",
         p \notin {"store", "track"},
         what \in {"signin", "get"} => t \in Tokens,
         what = "signin" => u \in User /\ u.as = Kind[t]
  PROVE  CallInv(c)'
<1>1. /\ call'[c] = what /\ pc'[c] = p /\ token'[c] = t /\ user'[c] = u
      /\ out'[c] = Nothing
  BY DEF TypeOK, Begin
<1>2. what = "get" => Standing(token[c])' \in seen'[c]
  BY <1>1 DEF Watch
<1>3. QED
  BY <1>1, <1>2 DEF CallInv, Nothing

\* A caller whose call ends: what it is served was confirmed.
LEMMA ReturnInv ==
  ASSUME TypeOK, SessionInv, Watch, NEW c \in Callers, NEW result,
         Return(c, result),
         \/ result = Nothing
         \/ result = Refused
         \/ /\ result.is = "served"
            /\ "valid" \in seen[c] /\ result.user.as = Kind[token[c]]
  PROVE  CallInv(c)'
<1>1. /\ call'[c] = "none" /\ pc'[c] = "idle" /\ out'[c] = result
      /\ result.is = "served" => token'[c] = token[c]
  BY DEF TypeOK, Return
<1>2. result # Nothing => seen'[c] = seen[c]
  BY <1>1 DEF Watch
<1>3. QED
  BY <1>1, <1>2 DEF CallInv, Nothing, Refused

\* A caller that goes on with its call, to a step that call may reach.
LEMMA ContinueInv ==
  ASSUME TypeOK, SessionInv, Watch, NEW c \in Callers,
         pc[c] # "idle",
         call'[c] = call[c], token'[c] = token[c], out'[c] = out[c],
         pc'[c] # "idle",
         pc'[c] \in {"insert", "trim"} => call[c] = "signin",
         pc'[c] = "evict" => call[c] \in {"signin", "revoke"},
         pc'[c] \in {"store", "track"} => call[c] \in {"signin", "get"},
         pc'[c] \in {"verify", "drop", "load"} => call[c] = "get",
         \/ user'[c] = user[c]
         \/ user'[c] \in User /\ user'[c].as = Kind[token[c]],
         call[c] = "get" /\ pc'[c] \in {"store", "track"} =>
           /\ "valid" \in seen[c]
           /\ user'[c] \in User /\ user'[c].as = Kind[token[c]]
  PROVE  CallInv(c)'
<1>1. CallInv(c)
  BY DEF SessionInv
<1>2. call[c] = "get" =>
        Standing(token[c])' \in seen'[c] /\ seen[c] \subseteq seen'[c]
  BY DEF Watch
<1>3. out[c] = Nothing
  BY <1>1 DEF CallInv
<1>4. QED
  BY <1>1, <1>2, <1>3 DEF CallInv, Nothing

LEMMA UserOfType ==
  ASSUME TypeOK, NEW t \in Tokens
  PROVE  UserOf(t) \in User /\ UserOf(t).as = Kind[t]
BY SessionsAssumption DEF TypeOK, UserOf, User

LEMMA MoveInv ==
  ASSUME TypeOK, SessionInv, Watch, NEW c \in Callers, Move(c)
  PROVE  CallInv(c)'
<1> USE DEF SessionInv
<1>0. CallInv(c)
  OBVIOUS
<1>1. ASSUME NEW t \in Tokens, SignIn(c, t)
      PROVE  CallInv(c)'
  BY <1>1, BeginInv, UserOfType DEF SignIn
<1>2. ASSUME NEW t \in Tokens, AdminSignIn(c, t)
      PROVE  CallInv(c)'
  <2>1. PICK p, dooms :
          /\ p \in {"insert", "evict"}
          /\ Begin(c, "signin", p, t, UserOf(t), dooms, 0)
    BY <1>2 DEF AdminSignIn
  <2>2. QED
    BY <2>1, BeginInv, UserOfType
<1>3. ASSUME NEW t \in Tokens, Get(c, t)
      PROVE  CallInv(c)'
  <2>1. PICK p, u :
          /\ p \in {"load", "verify"}
          /\ Begin(c, "get", p, t, u, {}, announced)
    BY <1>3 DEF Get
  <2>2. QED
    BY <2>1, BeginInv
<1>4. ASSUME NEW t \in Tokens, Revoke(c, t)
      PROVE  CallInv(c)'
  <2>1. PICK dooms : Begin(c, "revoke", "evict", t, NoUser, dooms, 0)
    BY <1>4 DEF Revoke
  <2>2. QED
    BY <2>1, BeginInv
<1>5. CASE Logout(c)
  BY <1>5, BeginInv DEF Logout
<1>6. CASE Change(c)
  BY <1>6, BeginInv DEF Change
<1>7. CASE Insert(c)
  <2>1. call[c] = "signin"
    BY <1>0, <1>7 DEF CallInv, Insert
  <2>2. CASE Return(c, Refused)
    BY <2>2, ReturnInv
  <2>3. ASSUME NEW p \in {"trim", "store"}, Goto(c, p)
        PROVE  CallInv(c)'
    <3>1. pc'[c] = p /\ UNCHANGED <<call, token, user, out>>
      BY <2>3 DEF TypeOK, Goto
    <3>2. QED
      BY <3>1, <2>1, <1>7, ContinueInv DEF Insert
  <2>4. QED
    BY <2>2, <2>3, <1>7 DEF Insert
<1>8. CASE Trim(c)
  <2>1. call[c] = "signin"
    BY <1>0, <1>8 DEF CallInv, Trim
  <2>2. pc'[c] \in {"store", "evict"} /\ UNCHANGED <<call, token, user, out>>
    BY <1>8 DEF TypeOK, Trim
  <2>3. QED
    BY <2>1, <2>2, <1>8, ContinueInv DEF Trim
<1>9. CASE Evict(c)
  <2>1. call[c] \in {"signin", "revoke"}
    BY <1>0, <1>9 DEF CallInv, Evict
  <2>2. CASE Return(c, Nothing)
    BY <2>2, ReturnInv
  <2>3. CASE ~Return(c, Nothing)
    <3>1. /\ UNCHANGED <<call, token, user, out>>
          /\ \/ pc'[c] = "evict"
             \/ call[c] # "revoke" /\ pc'[c] \in {"store", "insert"}
      BY <1>9, <2>3 DEF TypeOK, Evict
    <3>2. QED
      BY <3>1, <2>1, <1>9, ContinueInv DEF Evict
  <2>4. QED
    BY <2>2, <2>3
<1>10. CASE Store(c)
  <2>1. /\ call[c] \in {"signin", "get"}
        /\ call[c] = "get" =>
             "valid" \in seen[c] /\ user[c] \in User /\ user[c].as = Kind[token[c]]
    BY <1>0, <1>10 DEF CallInv, Store
  <2>2. pc'[c] = "track" /\ UNCHANGED <<call, token, user, out>>
    BY <1>10 DEF TypeOK, Store, Goto
  <2>3. QED
    BY <2>1, <2>2, <1>10, ContinueInv DEF Store
<1>11. CASE Track(c)
  <2>1. call[c] = "get" => "valid" \in seen[c] /\ user[c].as = Kind[token[c]]
    BY <1>0, <1>11 DEF CallInv, Track
  <2>2. CASE call[c] = "get"
    <3>1. Return(c, Served(user[c]))
      BY <1>11, <2>2 DEF Track
    <3>2. QED
      BY <3>1, <2>1, <2>2, ReturnInv DEF Served
  <2>3. CASE call[c] # "get"
    BY <1>11, <2>3, ReturnInv DEF Track
  <2>4. QED
    BY <2>2, <2>3
<1>12. CASE Verify(c)
  <2>1. call[c] = "get" /\ Standing(token[c]) \in seen[c]
    BY <1>0, <1>12 DEF CallInv, Verify
  <2>2. CASE Confirmed(token[c], user[c])
    <3>1. "valid" \in seen[c] /\ user[c].as = Kind[token[c]]
      BY <2>1, <2>2 DEF Confirmed, Standing
    <3>2. Return(c, Served(user[c]))
      BY <1>12, <2>2 DEF Verify
    <3>3. QED
      BY <3>1, <3>2, ReturnInv DEF Served
  <2>3. CASE ~Confirmed(token[c], user[c])
    <3>1. pc'[c] = "drop" /\ UNCHANGED <<call, token, user, out>>
      BY <1>12, <2>3 DEF TypeOK, Verify, Goto
    <3>2. QED
      BY <3>1, <2>1, <1>12, ContinueInv DEF Verify
  <2>4. QED
    BY <2>2, <2>3
<1>13. CASE Drop(c)
  BY <1>13, ReturnInv DEF Drop
<1>14. CASE Load(c)
  <2>1. /\ call[c] = "get" /\ token[c] \in Tokens
        /\ Standing(token[c]) \in seen[c]
    BY <1>0, <1>14 DEF CallInv, Load
  <2>2. CASE Authentic(token[c])
    <3>1. "valid" \in seen[c]
      BY <2>1, <2>2 DEF Standing
    <3>2. /\ pc'[c] = "store" /\ user'[c] = UserOf(token[c])
          /\ UNCHANGED <<call, token, out>>
      BY <1>14, <2>2 DEF TypeOK, Load
    <3>3. QED
      BY <3>1, <3>2, <2>1, <1>14, UserOfType, ContinueInv DEF Load
  <2>3. CASE ~Authentic(token[c])
    BY <1>14, <2>3, ReturnInv DEF Load
  <2>4. QED
    BY <2>2, <2>3
<1>15. CASE Forget(c)
  <2>1. pc'[c] = "delete" /\ UNCHANGED <<call, token, user, out>>
    BY <1>15 DEF TypeOK, Forget, Goto
  <2>2. QED
    BY <2>1, <1>15, ContinueInv DEF Forget
<1>16. CASE DeleteRow(c) \/ Wipe(c) \/ Crash(c)
  BY <1>16, ReturnInv DEF DeleteRow, Wipe, Crash
<1>17. CASE Gather(c)
  <2>1. CASE Return(c, Nothing)
    BY <2>1, ReturnInv
  <2>2. CASE ~Return(c, Nothing)
    <3>1. pc'[c] = "wipe" /\ UNCHANGED <<call, token, user, out>>
      BY <1>17, <2>2 DEF TypeOK, Gather
    <3>2. QED
      BY <3>1, <1>17, ContinueInv DEF Gather
  <2>3. QED
    BY <2>1, <2>2
<1>18. QED
  BY <1>1, <1>2, <1>3, <1>4, <1>5, <1>6, <1>7, <1>8, <1>9, <1>10, <1>11, <1>12,
     <1>13, <1>14, <1>15, <1>16, <1>17 DEF Move

-----------------------------------------------------------------------------
(* Types *)

DbTypes ==
  /\ row \in [Tokens -> {"unborn", "kept", "gone"}]
  /\ born \in [Tokens -> Nat]
  /\ over \subseteq Tokens
  /\ active \in BOOLEAN
  /\ name \in Nat /\ address \in Nat

RedisTypes ==
  /\ cached \in [Tokens -> User \cup {NoUser}]
  /\ tracked \subseteq Tokens
  /\ tracker \in Tokens \cup {NoToken}

Points == {"idle", "insert", "trim", "evict", "store", "track", "verify",
           "drop", "load", "forget", "delete", "gather", "wipe"}

CallTypes ==
  /\ call \in [Callers -> {"none", "signin", "get", "logout", "revoke", "change"}]
  /\ pc \in [Callers -> Points]
  /\ token \in [Callers -> Tokens \cup {NoToken}]
  /\ user \in [Callers -> User \cup {NoUser}]
  /\ doomed \in [Callers -> SUBSET Tokens]
  /\ asOf \in [Callers -> Nat]
  /\ out \in [Callers -> Results]

GhostTypes ==
  /\ announced \in Nat
  /\ crashes \in Nat

SeenType == seen \in [Callers -> SUBSET {"valid", "invalid"}]

LEMMA TypeParts ==
  TypeOK <=> DbTypes /\ RedisTypes /\ CallTypes /\ GhostTypes /\ SeenType
BY DEF TypeOK, DbTypes, RedisTypes, CallTypes, GhostTypes, SeenType, Points

LEMMA TypePartsNext ==
  ASSUME DbTypes', RedisTypes', CallTypes', GhostTypes', SeenType'
  PROVE  TypeOK'
BY DEF TypeOK, DbTypes, RedisTypes, CallTypes, GhostTypes, SeenType, Points

LEMMA BeginType ==
  ASSUME CallTypes, NEW c \in Callers,
         NEW what \in {"signin", "get", "logout", "revoke", "change"},
         NEW p \in Points, NEW t \in Tokens \cup {NoToken},
         NEW u \in User \cup {NoUser}, NEW dooms \in SUBSET Tokens,
         NEW since \in Nat,
         Begin(c, what, p, t, u, dooms, since)
  PROVE  CallTypes'
BY DEF CallTypes, Begin, Nothing, Results

LEMMA GotoType ==
  ASSUME CallTypes, NEW c \in Callers, NEW p \in Points, Goto(c, p)
  PROVE  CallTypes'
BY DEF CallTypes, Goto

LEMMA ReturnType ==
  ASSUME CallTypes, NEW c \in Callers, NEW result \in Results, Return(c, result)
  PROVE  CallTypes'
BY DEF CallTypes, Return, Points

LEMMA ResultTypes ==
  ASSUME CallTypes, NEW c \in Callers
  PROVE  Nothing \in Results /\ Refused \in Results /\ Served(user[c]) \in Results
BY DEF CallTypes, Nothing, Refused, Served, Results

LEMMA DeleteType ==
  ASSUME DbTypes, NEW rows, Delete(rows)
  PROVE  row' \in [Tokens -> {"unborn", "kept", "gone"}]
BY DEF DbTypes, Delete

LEMMA RowsAreTokens ==
  ASSUME NEW t
  PROVE  RowsLike(t) \in SUBSET Tokens /\ Surplus \in SUBSET Tokens
BY DEF RowsLike, Surplus, OwnerRows

LEMMA MoveType ==
  ASSUME TypeOK, SessionInv, NEW c \in Callers, Move(c)
  PROVE  DbTypes' /\ RedisTypes' /\ CallTypes' /\ GhostTypes'
<1>0. /\ DbTypes /\ RedisTypes /\ CallTypes /\ GhostTypes
      /\ CallInv(c) /\ c \in Callers
  BY TypeParts DEF SessionInv
<1> USE <1>0, ResultTypes
<1>1. ASSUME NEW t \in Tokens, SignIn(c, t)
      PROVE  DbTypes' /\ RedisTypes' /\ CallTypes' /\ GhostTypes'
  <2>1. CallTypes'
    BY <1>1, BeginType, UserOfType DEF SignIn, Points
  <2>2. QED
    BY <1>1, <2>1 DEF SignIn, DbTypes, RedisTypes, GhostTypes, dbVars, redisVars,
                      ghosts
<1>2. ASSUME NEW t \in Tokens, AdminSignIn(c, t)
      PROVE  DbTypes' /\ RedisTypes' /\ CallTypes' /\ GhostTypes'
  <2>1. PICK p \in {"insert", "evict"} :
          Begin(c, "signin", p, t, UserOf(t), RowsLike(t), 0)
    BY <1>2 DEF AdminSignIn
  <2>2. CallTypes'
    BY <2>1, BeginType, UserOfType, RowsAreTokens DEF Points
  <2>3. DbTypes'
    BY <1>2, DeleteType DEF AdminSignIn, DbTypes
  <2>4. QED
    BY <1>2, <2>2, <2>3 DEF AdminSignIn, RedisTypes, GhostTypes, redisVars, ghosts
<1>3. ASSUME NEW t \in Tokens, Get(c, t)
      PROVE  DbTypes' /\ RedisTypes' /\ CallTypes' /\ GhostTypes'
  <2>1. PICK u \in {cached[t]} \cup (IF Lossy THEN {NoUser} ELSE {}) :
          Begin(c, "get", IF u = NoUser THEN "load" ELSE "verify", t, u, {},
                announced)
    BY <1>3 DEF Get
  <2>2. u \in User \cup {NoUser} /\ announced \in Nat
    BY <2>1 DEF RedisTypes, GhostTypes
  <2>3. CallTypes'
    BY <2>1, <2>2, BeginType DEF Points
  <2>4. QED
    BY <1>3, <2>3 DEF Get, DbTypes, RedisTypes, GhostTypes, dbVars, redisVars,
                      ghosts
<1>4. ASSUME NEW t \in Tokens, Revoke(c, t)
      PROVE  DbTypes' /\ RedisTypes' /\ CallTypes' /\ GhostTypes'
  <2>1. PICK rows \in SUBSET Tokens :
          Begin(c, "revoke", "evict", t, NoUser, rows, 0) /\ Delete(rows)
    BY <1>4, RowsAreTokens DEF Revoke
  <2>2. CallTypes'
    BY <2>1, BeginType DEF Points
  <2>3. DbTypes'
    BY <1>4, <2>1, DeleteType DEF Revoke, DbTypes
  <2>4. QED
    BY <1>4, <2>2, <2>3 DEF Revoke, RedisTypes, GhostTypes, redisVars, ghosts
<1>5. CASE Insert(c)
  <2>1. CallTypes'
    BY <1>5, ReturnType, GotoType DEF Insert, Points
  <2>2. row' \in [Tokens -> {"unborn", "kept", "gone"}]
    BY <1>5 DEF Insert, DbTypes
  <2>3. born' \in [Tokens -> Nat]
    <3>1. Cardinality({u \in Tokens : row[u] # "unborn"}) \in Nat
      BY SessionsAssumption, FS_Subset, FS_CardinalityType
    <3>2. QED
      BY <1>5, <3>1 DEF Insert, DbTypes
  <2>4. QED
    BY <1>5, <2>1, <2>2, <2>3 DEF Insert, DbTypes, RedisTypes, GhostTypes,
                                  redisVars, ghosts
<1>6. CASE Trim(c)
  <2>1. CallTypes'
    BY <1>6, RowsAreTokens DEF Trim, CallTypes, Points
  <2>2. DbTypes'
    BY <1>6, DeleteType DEF Trim, DbTypes
  <2>3. QED
    BY <1>6, <2>1, <2>2 DEF Trim, RedisTypes, GhostTypes, redisVars, ghosts
<1>7. CASE Evict(c)
  <2>1. CallTypes'
    <3>1. CASE Return(c, Nothing)
      BY <3>1, ReturnType
    <3>2. CASE ~Return(c, Nothing)
      BY <1>7, <3>2 DEF Evict, CallTypes, Points
    <3>3. QED
      BY <3>1, <3>2
  <2>2. RedisTypes'
    BY <1>7 DEF Evict, RedisTypes, Redis
  <2>3. QED
    BY <1>7, <2>1, <2>2 DEF Evict, DbTypes, GhostTypes, dbVars, ghosts
<1>8. CASE Store(c)
  <2>1. CallTypes'
    BY <1>8, GotoType DEF Store, Points
  <2>2. RedisTypes'
    BY <1>8 DEF Store, RedisTypes, CallTypes, Redis
  <2>3. QED
    BY <1>8, <2>1, <2>2 DEF Store, DbTypes, GhostTypes, dbVars, ghosts
<1>9. CASE Track(c)
  <2>1. CallTypes'
    BY <1>9, ReturnType DEF Track
  <2>2. token[c] \in Tokens
    BY <1>9 DEF Track, CallInv
  <2>3. RedisTypes'
    BY <1>9, <2>2 DEF Track, RedisTypes
  <2>4. QED
    BY <1>9, <2>1, <2>3 DEF Track, DbTypes, GhostTypes, dbVars, ghosts
<1>10. CASE Verify(c)
  <2>1. CallTypes'
    BY <1>10, ReturnType, GotoType DEF Verify, Points
  <2>2. QED
    BY <1>10, <2>1 DEF Verify, DbTypes, RedisTypes, GhostTypes, dbVars, redisVars,
                       ghosts
<1>11. CASE Drop(c)
  <2>1. CallTypes'
    BY <1>11, ReturnType DEF Drop
  <2>2. RedisTypes'
    BY <1>11 DEF Drop, RedisTypes, Redis
  <2>3. QED
    BY <1>11, <2>1, <2>2 DEF Drop, DbTypes, GhostTypes, dbVars, ghosts
<1>12. CASE Load(c)
  <2>1. CallTypes'
    <3>1. token[c] \in Tokens
      BY <1>12 DEF Load, CallInv
    <3>2. UserOf(token[c]) \in User
      BY <3>1, UserOfType
    <3>3. QED
      BY <1>12, <3>2, ReturnType DEF Load, CallTypes, Points
  <2>2. QED
    BY <1>12, <2>1 DEF Load, DbTypes, RedisTypes, GhostTypes, dbVars, redisVars,
                       ghosts
<1>13. CASE Logout(c)
  <2>1. token[c] \in Tokens \cup {NoToken}
    BY DEF CallTypes
  <2>2. CallTypes'
    BY <1>13, <2>1, BeginType DEF Logout, Points
  <2>3. QED
    BY <1>13, <2>2 DEF Logout, DbTypes, RedisTypes, GhostTypes, dbVars, redisVars,
                       ghosts
<1>14. CASE Forget(c)
  <2>1. CallTypes'
    BY <1>14, GotoType DEF Forget, Points
  <2>2. RedisTypes'
    BY <1>14 DEF Forget, RedisTypes, Redis
  <2>3. QED
    BY <1>14, <2>1, <2>2 DEF Forget, DbTypes, GhostTypes, dbVars, ghosts
<1>15. CASE DeleteRow(c)
  <2>1. CallTypes'
    BY <1>15, ReturnType DEF DeleteRow
  <2>2. DbTypes'
    BY <1>15, DeleteType DEF DeleteRow, DbTypes
  <2>3. QED
    BY <1>15, <2>1, <2>2 DEF DeleteRow, RedisTypes, GhostTypes, redisVars, ghosts
<1>16. CASE Change(c)
  <2>1. DbTypes' /\ name' \in Nat
    BY <1>16 DEF Change, DbTypes
  <2>2. CallTypes'
    BY <1>16, <2>1, BeginType DEF Change, Points
  <2>3. QED
    BY <1>16, <2>1, <2>2 DEF Change, RedisTypes, GhostTypes, redisVars, ghosts
<1>17. CASE Gather(c)
  <2>1. CallTypes'
    <3>1. CASE Return(c, Nothing)
      BY <3>1, ReturnType
    <3>2. CASE ~Return(c, Nothing)
      BY <1>17, <3>2 DEF Gather, CallTypes, RedisTypes, Points
    <3>3. QED
      BY <3>1, <3>2
  <2>2. QED
    BY <1>17, <2>1 DEF Gather, DbTypes, RedisTypes, GhostTypes, dbVars, redisVars,
                       ghosts
<1>18. CASE Wipe(c)
  <2>1. CallTypes'
    BY <1>18, ReturnType DEF Wipe
  <2>2. cached' \in [Tokens -> User \cup {NoUser}] /\ tracked' \subseteq Tokens
    BY <1>18 DEF Wipe, RedisTypes
  <2>3. announced' \in Nat
    BY <1>18 DEF Wipe, GhostTypes, CallTypes
  <2>4. QED
    BY <1>18, <2>1, <2>2, <2>3 DEF Wipe, DbTypes, RedisTypes, GhostTypes, dbVars
<1>19. CASE Crash(c)
  <2>1. CallTypes'
    BY <1>19, ReturnType DEF Crash
  <2>2. QED
    BY <1>19, <2>1 DEF Crash, DbTypes, RedisTypes, GhostTypes, dbVars, redisVars
<1>20. QED
  BY <1>1, <1>2, <1>3, <1>4, <1>5, <1>6, <1>7, <1>8, <1>9, <1>10, <1>11, <1>12,
     <1>13, <1>14, <1>15, <1>16, <1>17, <1>18, <1>19 DEF Move

LEMMA OutsideType ==
  ASSUME TypeOK, Outside
  PROVE  DbTypes' /\ RedisTypes' /\ CallTypes' /\ GhostTypes'
<1>0. DbTypes /\ RedisTypes /\ CallTypes /\ GhostTypes
  BY TypeParts
<1> USE <1>0
<1>1. CASE Rename
  BY <1>1 DEF Rename, DbTypes, RedisTypes, CallTypes, GhostTypes, redisVars,
              callVars, ghosts
<1>2. ASSUME NEW t \in Tokens, Lapse(t)
      PROVE  DbTypes' /\ RedisTypes' /\ CallTypes' /\ GhostTypes'
  BY <1>2 DEF Lapse, DbTypes, RedisTypes, CallTypes, GhostTypes, redisVars,
              callVars, ghosts
<1>3. ASSUME NEW t \in Tokens, ForgetEntry(t)
      PROVE  DbTypes' /\ RedisTypes' /\ CallTypes' /\ GhostTypes'
  BY <1>3 DEF ForgetEntry, DbTypes, RedisTypes, CallTypes, GhostTypes, dbVars,
              callVars, ghosts
<1>4. CASE ForgetTracking
  BY <1>4 DEF ForgetTracking, DbTypes, RedisTypes, CallTypes, GhostTypes, dbVars,
              callVars, ghosts
<1>5. QED
  BY <1>1, <1>2, <1>3, <1>4 DEF Outside

LEMMA WatchType ==
  ASSUME TypeOK, Watch
  PROVE  SeenType'
BY DEF TypeOK, Watch, Standing, SeenType

-----------------------------------------------------------------------------
(* The theorems *)

LEMMA InitInv == Init => TypeOK /\ SessionInv
<1>1. ASSUME Init
      PROVE  TypeOK
  BY <1>1 DEF Init, TypeOK, User, Nothing, Results
<1>2. ASSUME Init
      PROVE  SessionInv
  BY <1>2 DEF Init, SessionInv, CallInv, Nothing
<1>3. QED
  BY <1>1, <1>2

LEMMA NextInv == TypeOK /\ SessionInv /\ [Next]_vars => TypeOK' /\ SessionInv'
<1>1. ASSUME TypeOK, SessionInv, Step, Watch
      PROVE  TypeOK' /\ SessionInv'
  <2>1. SeenType'
    BY <1>1, WatchType
  <2>2. ASSUME NEW c \in Callers, Move(c)
        PROVE  TypeOK' /\ SessionInv'
    <3>1. TypeOK'
      BY <1>1, <2>1, <2>2, MoveType, TypePartsNext
    <3>2. ASSUME NEW d \in Callers
          PROVE  CallInv(d)'
      <4>1. CASE d = c
        BY <1>1, <2>2, <4>1, MoveInv
      <4>2. CASE d # c
        BY <1>1, <2>2, <4>2, MoveSame, BystanderInv
      <4>3. QED
        BY <4>1, <4>2
    <3>3. QED
      BY <3>1, <3>2 DEF SessionInv
  <2>3. ASSUME Outside
        PROVE  TypeOK' /\ SessionInv'
    <3>1. TypeOK'
      BY <1>1, <2>1, <2>3, OutsideType, TypePartsNext
    <3>2. ASSUME NEW d \in Callers
          PROVE  CallInv(d)'
      BY <1>1, <2>3, OutsideSame, BystanderInv
    <3>3. QED
      BY <3>1, <3>2 DEF SessionInv
  <2>4. QED
    BY <1>1, <2>2, <2>3, StepSplits
<1>2. ASSUME TypeOK, SessionInv, UNCHANGED vars
      PROVE  TypeOK' /\ SessionInv'
  <2>1. TypeOK'
    BY <1>2 DEF TypeOK, vars, dbVars, redisVars, callVars, ghosts
  <2>2. SessionInv'
    BY <1>2 DEF SessionInv, CallInv, Standing, Authentic, vars, dbVars, redisVars,
                callVars, ghosts
  <2>3. QED
    BY <2>1, <2>2
<1>3. QED
  BY <1>1, <1>2 DEF Next

\* Every variable keeps its type, and every call its invariant.
THEOREM SessionsInvariant == Spec => [](TypeOK /\ SessionInv)
BY InitInv, NextInv, PTL DEF Spec

\* The state of the sessions keeps its types (session.service.ts).
THEOREM TypeCorrect == Spec => []TypeOK
BY SessionsInvariant, PTL

\* Whatever the cache holds or loses, and however calls interleave, a request
\* is served only on a session that was valid during the call
\* (getSessionUser).
THEOREM OnlyValidSessionsServe == Spec => []ServedWhileValid
<1>1. SessionInv => ServedWhileValid
  BY DEF SessionInv, CallInv, ServedWhileValid
<1>2. QED
  BY <1>1, SessionsInvariant, PTL

\* A borrowed session is never served as an ordinary one, nor an ordinary one as
\* borrowed (getSessionUser and its projection).
THEOREM IdentityIsKept == Spec => []BorrowedStaysBorrowed
<1>1. SessionInv => BorrowedStaysBorrowed
  BY DEF SessionInv, CallInv, BorrowedStaysBorrowed
<1>2. QED
  BY <1>1, SessionsInvariant, PTL
-----------------------------------------------------------------------------
(* Why a valid session is not refused *)

LEMMA AddressGrows ==
  ASSUME TypeOK, Step
  PROVE  address' >= address /\ address' \in Nat /\ address \in Nat
<1>1. CASE UNCHANGED address
  BY <1>1 DEF TypeOK
<1>2. CASE \E c \in Callers : Change(c)
  BY <1>2 DEF TypeOK, Change
<1>3. QED
  BY <1>1, <1>2 DEF Step, SignIn, AdminSignIn, Get, Revoke, Insert, Trim, Evict,
     Store, Track, Verify, Drop, Load, Logout, Forget, DeleteRow, Gather, Wipe,
     Crash, Rename, Lapse, ForgetEntry, ForgetTracking, dbVars

\* What the cache holds after a step was there before, or is the identity of the
\* call that stored it.
LEMMA CacheFrom ==
  ASSUME TypeOK, Step, NEW t \in Tokens
  PROVE  \/ cached'[t] \in {cached[t], NoUser}
         \/ \E c \in Callers : token[c] = t /\ cached'[t] = user[c]
<1>1. CASE UNCHANGED cached
  BY <1>1
<1>2. ASSUME NEW c \in Callers, Store(c)
      PROVE  \/ cached'[t] \in {cached[t], NoUser}
             \/ token[c] = t /\ cached'[t] = user[c]
  BY <1>2 DEF TypeOK, Store, Redis
<1>3. ASSUME NEW c \in Callers, Evict(c) \/ Drop(c) \/ Forget(c) \/ Wipe(c)
      PROVE  cached'[t] \in {cached[t], NoUser}
  BY <1>3 DEF TypeOK, Evict, Drop, Forget, Wipe, Redis
<1>4. ASSUME NEW u \in Tokens, ForgetEntry(u)
      PROVE  cached'[t] \in {cached[t], NoUser}
  BY <1>4 DEF TypeOK, ForgetEntry
<1>5. QED
  BY <1>1, <1>2, <1>3, <1>4 DEF Step, SignIn, AdminSignIn, Get, Revoke, Insert,
     Trim, Track, Verify, Load, Logout, DeleteRow, Change, Gather,
     Crash, Rename, Lapse, ForgetTracking, redisVars

LEMMA StillFits ==
  ASSUME TypeOK, Step, NEW t, NEW u \in User \cup {NoUser}, FitsToken(t, u)
  PROVE  u # NoUser => u.as = Kind[t] /\ u.at <= address'
<1>1. u # NoUser => u.at \in Nat
  BY DEF User
<1>2. QED
  BY <1>1, AddressGrows DEF FitsToken

LEMMA CacheStillFits ==
  ASSUME TypeOK, CauseInv, Step, NEW t \in Tokens
  PROVE  FitsToken(t, cached[t])'
<1>1. ASSUME cached'[t] = cached[t]
      PROVE  FitsToken(t, cached[t])'
  BY <1>1, StillFits DEF FitsToken, CauseInv, TypeOK
<1>2. ASSUME NEW c \in Callers, token[c] = t, cached'[t] = user[c]
      PROVE  FitsToken(t, cached[t])'
  BY <1>2, StillFits DEF FitsToken, CauseInv, CauseOf, TypeOK
<1>3. QED
  BY <1>1, <1>2, CacheFrom DEF FitsToken

\* A caller that does not move: a get in progress only sees more.
LEMMA BystanderCause ==
  ASSUME TypeOK, SessionInv, CauseInv, Step, Watch, NEW d \in Callers, Same(d)
  PROVE  CauseOf(d)'
<1>1. CauseOf(d) /\ CallInv(d)
  BY DEF CauseInv, SessionInv
<1>2. FitsToken(token[d], user[d])'
  BY <1>1, StillFits DEF FitsToken, CauseOf, TypeOK, Same
<1>3. Excused(d) /\ seen[d] \subseteq seen'[d] => Excused(d)'
  BY AddressGrows DEF Excused
<1>4. pc[d] = "drop" => seen[d] \subseteq seen'[d]
  BY <1>1 DEF Watch, Same, CallInv
<1>5. out[d].is = "refused" => seen'[d] = seen[d]
  BY <1>1 DEF Watch, Same, CallInv, Nothing
<1>6. call[d] \notin {"none", "get"} => seen'[d] = {}
  BY <1>1 DEF Watch, Same, CallInv
<1>7. QED
  BY <1>1, <1>2, <1>3, <1>4, <1>5, <1>6 DEF CauseOf, Same

LEMMA BeginCause ==
  ASSUME TypeOK, Watch, NEW c \in Callers,
         NEW what \in {"signin", "get", "logout", "revoke", "change"},
         NEW p, NEW t, NEW u, NEW dooms, NEW since,
         Begin(c, what, p, t, u, dooms, since),
         p # "drop",
         p = "verify" => u # NoUser,
         u # NoUser => u.as = Kind[t] /\ u.at <= address'
  PROVE  CauseOf(c)'
<1>1. /\ call'[c] = what /\ pc'[c] = p /\ token'[c] = t /\ user'[c] = u
      /\ out'[c] = Nothing
  BY DEF TypeOK, Begin
<1>2. what # "get" => seen'[c] = {}
  BY <1>1 DEF Watch
<1>3. QED
  BY <1>1, <1>2 DEF CauseOf, FitsToken, Nothing

LEMMA ReturnCause ==
  ASSUME TypeOK, Step, Watch, NEW c \in Callers, NEW result,
         Return(c, result),
         result.is = "refused" /\ seen[c] # {} => Excused(c)
  PROVE  CauseOf(c)'
<1>1. /\ call'[c] = "none" /\ pc'[c] = "idle" /\ out'[c] = result
      /\ user'[c] = NoUser
  BY DEF TypeOK, Return
<1>2. result.is = "refused" => seen'[c] = seen[c]
  BY <1>1 DEF Watch, Nothing
<1>3. QED
  BY <1>1, <1>2, AddressGrows DEF CauseOf, FitsToken, Excused

LEMMA ContinueCause ==
  ASSUME TypeOK, SessionInv, CauseInv, Step, Watch, NEW c \in Callers,
         pc[c] # "idle",
         call'[c] = call[c], token'[c] = token[c], out'[c] = out[c],
         pc'[c] # "verify",
         pc'[c] = "drop" => call[c] = "get" /\ Excused(c),
         \/ user'[c] = user[c]
         \/ user'[c] = UserOf(token[c]) /\ address' = address
  PROVE  CauseOf(c)'
<1>1. CauseOf(c) /\ CallInv(c)
  BY DEF CauseInv, SessionInv
<1>2. out[c] = Nothing /\ call[c] # "none"
  BY <1>1 DEF CallInv
<1>3. call[c] # "get" => seen'[c] = {}
  BY <1>2 DEF Watch
<1>4. call[c] = "get" => seen[c] \subseteq seen'[c]
  BY DEF Watch
<1>5. FitsToken(token[c], user[c])'
  <2>1. CASE user'[c] = user[c]
    BY <1>1, <2>1, StillFits DEF FitsToken, CauseOf, TypeOK
  <2>2. CASE user'[c] = UserOf(token[c]) /\ address' = address
    BY <2>2, AddressGrows DEF FitsToken, UserOf
  <2>3. QED
    BY <2>1, <2>2
<1>6. QED
  BY <1>2, <1>3, <1>4, <1>5, AddressGrows DEF CauseOf, Excused, Nothing

LEMMA MoveCause ==
  ASSUME TypeOK, SessionInv, CauseInv, Step, Watch, NEW c \in Callers, Move(c)
  PROVE  CauseOf(c)'
<1>0. CallInv(c) /\ CauseOf(c)
  BY DEF SessionInv, CauseInv
<1>1. ASSUME NEW t \in Tokens, SignIn(c, t) \/ AdminSignIn(c, t)
      PROVE  CauseOf(c)'
  <2>1. PICK p, dooms :
          /\ p \in {"insert", "evict"}
          /\ Begin(c, "signin", p, t, UserOf(t), dooms, 0)
    BY <1>1 DEF SignIn, AdminSignIn
  <2>2. address' = address
    BY <1>1 DEF SignIn, AdminSignIn, dbVars
  <2>3. UserOf(t).as = Kind[t] /\ UserOf(t).at <= address'
    BY <2>2, AddressGrows DEF UserOf
  <2>4. QED
    BY <2>1, <2>3, BeginCause
<1>2. ASSUME NEW t \in Tokens, Get(c, t)
      PROVE  CauseOf(c)'
  <2>1. PICK u \in {cached[t], NoUser} :
          Begin(c, "get", IF u = NoUser THEN "load" ELSE "verify", t, u, {},
                announced)
    BY <1>2 DEF Get
  <2>2. u # NoUser => u.as = Kind[t] /\ u.at <= address'
    BY <2>1, StillFits DEF CauseInv, TypeOK
  <2>3. QED
    BY <2>1, <2>2, BeginCause
<1>3. ASSUME NEW t \in Tokens, Revoke(c, t)
      PROVE  CauseOf(c)'
  <2>1. PICK dooms : Begin(c, "revoke", "evict", t, NoUser, dooms, 0)
    BY <1>3 DEF Revoke
  <2>2. QED
    BY <2>1, BeginCause
<1>4. CASE Logout(c)
  BY <1>4, BeginCause DEF Logout
<1>5. CASE Change(c)
  BY <1>5, BeginCause DEF Change
<1>6. CASE Insert(c)
  <2>1. seen[c] = {}
    BY <1>0, <1>6 DEF CallInv, CauseOf, Insert
  <2>2. CASE Return(c, Refused)
    BY <2>1, <2>2, ReturnCause
  <2>3. ASSUME NEW p \in {"trim", "store"}, Goto(c, p)
        PROVE  CauseOf(c)'
    <3>1. pc'[c] = p /\ UNCHANGED <<call, token, user, out>>
      BY <2>3 DEF TypeOK, Goto
    <3>2. QED
      BY <3>1, <1>6, ContinueCause DEF Insert
  <2>4. QED
    BY <2>2, <2>3, <1>6 DEF Insert
<1>7. CASE Trim(c)
  <2>1. pc'[c] \in {"store", "evict"} /\ UNCHANGED <<call, token, user, out>>
    BY <1>7 DEF TypeOK, Trim
  <2>2. QED
    BY <2>1, <1>7, ContinueCause DEF Trim
<1>8. CASE Evict(c)
  <2>1. CASE Return(c, Nothing)
    BY <2>1, ReturnCause DEF Nothing
  <2>2. CASE ~Return(c, Nothing)
    <3>1. /\ UNCHANGED <<call, token, user, out>>
          /\ pc'[c] \in {"evict", "store", "insert"}
      BY <1>8, <2>2 DEF TypeOK, Evict
    <3>2. QED
      BY <3>1, <1>8, ContinueCause DEF Evict
  <2>3. QED
    BY <2>1, <2>2
<1>9. CASE Store(c)
  <2>1. pc'[c] = "track" /\ UNCHANGED <<call, token, user, out>>
    BY <1>9 DEF TypeOK, Store, Goto
  <2>2. QED
    BY <2>1, <1>9, ContinueCause DEF Store
<1>10. CASE Track(c)
  BY <1>10, ReturnCause DEF Track, Nothing, Served
<1>11. CASE Verify(c)
  <2>1. /\ call[c] = "get" /\ Standing(token[c]) \in seen[c]
        /\ user[c] \in User /\ user[c].as = Kind[token[c]]
        /\ user[c].at <= address
    BY <1>0, <1>11 DEF CallInv, CauseOf, FitsToken, Verify, TypeOK
  <2>2. CASE Confirmed(token[c], user[c])
    BY <1>11, <2>2, ReturnCause DEF Verify, Served
  <2>3. CASE ~Confirmed(token[c], user[c])
    <3>1. pc'[c] = "drop" /\ UNCHANGED <<call, token, user, out>>
      BY <1>11, <2>3 DEF TypeOK, Verify, Goto
    <3>2. user[c].at \in Nat /\ address \in Nat
      BY <2>1, AddressGrows DEF User
    <3>3. Excused(c)
      BY <2>1, <2>3, <3>2 DEF Confirmed, Standing, Excused
    <3>4. QED
      BY <3>1, <3>3, <2>1, <1>11, ContinueCause DEF Verify
  <2>4. QED
    BY <2>2, <2>3
<1>12. CASE Drop(c)
  BY <1>0, <1>12, ReturnCause DEF Drop, CauseOf
<1>13. CASE Load(c)
  <2>1. CASE Authentic(token[c])
    <3>1. /\ pc'[c] = "store" /\ user'[c] = UserOf(token[c])
          /\ UNCHANGED <<call, token, out>> /\ address' = address
      BY <1>13, <2>1 DEF TypeOK, Load, dbVars
    <3>2. QED
      BY <3>1, <1>13, ContinueCause DEF Load
  <2>2. CASE ~Authentic(token[c])
    <3>1. Excused(c)
      BY <1>0, <1>13, <2>2 DEF CallInv, Load, Standing, Excused
    <3>2. QED
      BY <1>13, <2>2, <3>1, ReturnCause DEF Load
  <2>3. QED
    BY <2>1, <2>2
<1>14. CASE Forget(c)
  <2>1. pc'[c] = "delete" /\ UNCHANGED <<call, token, user, out>>
    BY <1>14 DEF TypeOK, Forget, Goto
  <2>2. QED
    BY <2>1, <1>14, ContinueCause DEF Forget
<1>15. CASE DeleteRow(c) \/ Wipe(c) \/ Crash(c)
  BY <1>15, ReturnCause DEF DeleteRow, Wipe, Crash, Nothing
<1>16. CASE Gather(c)
  <2>1. CASE Return(c, Nothing)
    BY <2>1, ReturnCause DEF Nothing
  <2>2. CASE ~Return(c, Nothing)
    <3>1. pc'[c] = "wipe" /\ UNCHANGED <<call, token, user, out>>
      BY <1>16, <2>2 DEF TypeOK, Gather
    <3>2. QED
      BY <3>1, <1>16, ContinueCause DEF Gather
  <2>3. QED
    BY <2>1, <2>2
<1>17. QED
  BY <1>1, <1>2, <1>3, <1>4, <1>5, <1>6, <1>7, <1>8, <1>9, <1>10, <1>11, <1>12,
     <1>13, <1>14, <1>15, <1>16 DEF Move

LEMMA NextCause ==
  ASSUME TypeOK, SessionInv, CauseInv, [Next]_vars
  PROVE  CauseInv'
<1>1. CASE Step /\ Watch
  <2>1. ASSUME NEW d \in Callers
        PROVE  CauseOf(d)'
    <3>1. CASE Move(d)
      BY <1>1, <3>1, MoveCause
    <3>2. CASE ~Move(d)
      <4>1. Same(d)
        BY <1>1, <3>2, StepSplits, OutsideSame, MoveSame
      <4>2. QED
        BY <1>1, <4>1, BystanderCause
    <3>3. QED
      BY <3>1, <3>2
  <2>2. QED
    BY <1>1, <2>1, CacheStillFits DEF CauseInv
<1>2. CASE UNCHANGED vars
  BY <1>2 DEF CauseInv, CauseOf, FitsToken, Excused, vars, dbVars, redisVars,
              callVars, ghosts
<1>3. QED
  BY <1>1, <1>2 DEF Next

\* A session that is valid all along is not refused while the subdomain of its
\* business never changed: what other calls left in the cache fits the token
\* (getSessionUser).
THEOREM ValidSessionsAreNotRefused == Spec => []RefusedForCause
<1>1. Init => CauseInv
  BY DEF Init, CauseInv, CauseOf, FitsToken, Nothing
<1>2. CauseInv => RefusedForCause
  BY DEF CauseInv, CauseOf, Excused, RefusedForCause
<1>3. TypeOK /\ SessionInv /\ CauseInv /\ [Next]_vars => CauseInv'
  BY NextCause
<1>4. QED
  BY <1>1, <1>2, <1>3, SessionsInvariant, PTL DEF Spec
-----------------------------------------------------------------------------
(* Which rows there are *)

\* In a finite set some element comes first.
LEMMA OldestOf ==
  ASSUME NEW S, IsFiniteSet(S), S # {}, NEW f \in [S -> Nat]
  PROVE  \E t \in S : \A u \in S : f[t] <= f[u]
<1> DEFINE UpTo(t) == {u \in S : f[u] <= f[t]}
           All == {UpTo(t) : t \in S}
<1>1. IsWellFoundedOn(StrictSubsetOrdering(S), SUBSET S)
  BY FS_StrictSubsetOrderingWellFounded, FS_FiniteSubsetsOfFinite
<1>2. All \subseteq SUBSET S /\ All # {}
  <2>1. PICK s : s \in S
    OBVIOUS
  <2>2. UpTo(s) \in All
    BY <2>1
  <2>3. \A t \in S : UpTo(t) \in SUBSET S
    OBVIOUS
  <2>4. QED
    BY <2>2, <2>3
<1>3. PICK X \in All : \A Y \in All : ~ (<<Y, X>> \in StrictSubsetOrdering(S))
  <2> HIDE DEF All
  <2> QED
    BY <1>1, <1>2, WFMin
<1>4. PICK t \in S : X = UpTo(t)
  BY <1>3
<1>5. ASSUME NEW u \in S, f[u] < f[t]
      PROVE  FALSE
  <2>1. UpTo(u) \in All
    BY <1>5
  <2>2. UpTo(u) \subseteq UpTo(t) /\ t \in UpTo(t) /\ t \notin UpTo(u)
    BY <1>5
  <2>3. <<UpTo(u), X>> \in StrictSubsetOrdering(S)
    BY <2>2, <1>4 DEF StrictSubsetOrdering
  <2>4. QED
    BY <2>1, <2>3, <1>3
<1>6. QED
  BY <1>5

\* What Trim leaves is at most Cap rows: the oldest of them has all the others
\* before it, and is not beyond the first Cap.
LEMMA TrimLeavesCap ==
  ASSUME TypeOK, BirthInv
  PROVE  Cardinality(OwnerRows \ Surplus) <= Cap
<1> DEFINE S == OwnerRows \ Surplus
<1>1. IsFiniteSet(OwnerRows) /\ IsFiniteSet(S)
  BY SessionsAssumption, FS_Subset DEF OwnerRows
<1>2. CASE S = {}
  BY <1>2, FS_EmptySet, SessionsAssumption
<1>3. CASE S # {}
  <2> DEFINE f == [t \in S |-> born[t]]
  <2>1. f \in [S -> Nat]
    BY DEF TypeOK, OwnerRows
  <2>2. PICK t \in S : \A u \in S : f[t] <= f[u]
    <3> HIDE DEF f, S
    <3> QED
      BY <1>1, <1>3, <2>1, OldestOf
  <2> DEFINE Newer == {u \in OwnerRows : born[u] > born[t]}
  <2>3. S \ {t} \subseteq Newer
    <3>1. ASSUME NEW u \in S, u # t
          PROVE  born[u] > born[t]
      <4>1. born[t] <= born[u]
        BY <2>2
      <4>2. born[t] # born[u]
        BY <3>1, <2>2 DEF BirthInv, Created, OwnerRows
      <4>3. born[t] \in Nat /\ born[u] \in Nat
        BY <2>2 DEF TypeOK, OwnerRows
      <4>4. QED
        BY <4>1, <4>2, <4>3
    <3>2. QED
      BY <3>1
  <2>4. Cardinality(Newer) < Cap
    <3>1. IsFiniteSet(Newer)
      BY <1>1, FS_Subset
    <3>2. Cardinality(Newer) \in Nat
      BY <3>1, FS_CardinalityType
    <3>3. ~(Cardinality(Newer) >= Cap)
      BY <2>2 DEF Surplus
    <3>4. QED
      BY <3>2, <3>3, SessionsAssumption
  <2>5. /\ Cardinality(S \ {t}) = Cardinality(S) - 1
        /\ Cardinality(S) \in Nat
    BY <1>1, <2>2, FS_RemoveElement, FS_CardinalityType
  <2>6. /\ Cardinality(S \ {t}) <= Cardinality(Newer)
        /\ Cardinality(Newer) \in Nat
    <3>1. IsFiniteSet(Newer)
      BY <1>1, FS_Subset
    <3>2. QED
      BY <2>3, <3>1, FS_Subset, FS_CardinalityType
  <2>7. QED
    BY <2>4, <2>5, <2>6, SessionsAssumption
<1>4. QED
  BY <1>2, <1>3

\* Rows already created stay so, and only Insert creates one.
LEMMA CreatedLater ==
  ASSUME TypeOK, BirthInv, Step
  PROVE  \/ /\ Created' = Created /\ UNCHANGED born
            /\ \A t \in Tokens : row'[t] # "kept" \/ row[t] = "kept"
         \/ \E c \in Callers : Insert(c)
<1>1. CASE UNCHANGED <<row, born>>
  BY <1>1 DEF Created
<1>2. ASSUME NEW rows, rows \subseteq Created, Delete(rows), UNCHANGED born
      PROVE  /\ Created' = Created /\ UNCHANGED born
             /\ \A t \in Tokens : row'[t] # "kept" \/ row[t] = "kept"
  BY <1>2 DEF TypeOK, Created, Delete
<1>3. ASSUME NEW c \in Callers, NEW t \in Tokens, AdminSignIn(c, t) \/ Revoke(c, t)
      PROVE  \E rows \in SUBSET Created : Delete(rows) /\ UNCHANGED born
  BY <1>3 DEF AdminSignIn, Revoke, RowsLike, Created
<1>4. ASSUME NEW c \in Callers, Trim(c)
      PROVE  \E rows \in SUBSET Created : Delete(rows) /\ UNCHANGED born
  BY <1>4 DEF Trim, Surplus, OwnerRows, Created
<1>5. ASSUME NEW c \in Callers, DeleteRow(c)
      PROVE  \E rows \in SUBSET Created : Delete(rows) /\ UNCHANGED born
  BY <1>5 DEF DeleteRow, BirthInv, TokenOf
<1>6. QED
  BY <1>1, <1>2, <1>3, <1>4, <1>5 DEF Step, SignIn, Get, Evict,
     Store, Track, Verify, Drop, Load, Logout, Forget, Change, Gather, Wipe,
     Crash, Rename, Lapse, ForgetEntry, ForgetTracking, dbVars

LEMMA InsertCreates ==
  ASSUME TypeOK, SessionInv, BirthInv, NEW c \in Callers, Insert(c)
  PROVE  \/ UNCHANGED <<row, born>> /\ pc'[c] = "idle"
         \/ /\ token[c] \in Tokens \ Created
            /\ row' = [row EXCEPT ![token[c]] = "kept"]
            /\ born' = [born EXCEPT ![token[c]] = 1 + Cardinality(Created)]
            /\ pc'[c] = IF OfBusiness(token[c]) THEN "trim" ELSE "store"
<1>1. token[c] \in Tokens
  BY DEF Insert, SessionInv, CallInv
<1>2. row[token[c]] = "unborn"
  BY DEF Insert, BirthInv, TokenOf
<1>3. CASE OfBusiness(token[c]) /\ ~active
  BY <1>3 DEF TypeOK, Insert, Return
<1>4. CASE ~(OfBusiness(token[c]) /\ ~active)
  <2>1. Goto(c, IF OfBusiness(token[c]) THEN "trim" ELSE "store")
    BY <1>4 DEF Insert
  <2>2. pc'[c] = IF OfBusiness(token[c]) THEN "trim" ELSE "store"
    BY <2>1 DEF TypeOK, Goto
  <2>3. /\ row' = [row EXCEPT ![token[c]] = "kept"]
        /\ born' = [born EXCEPT ![token[c]] = 1 + Cardinality(Created)]
    BY <1>4 DEF Insert, Created
  <2>4. QED
    BY <1>1, <1>2, <2>2, <2>3 DEF Created
<1>5. QED
  BY <1>3, <1>4
LEMMA CreatedGrows ==
  ASSUME TypeOK, SessionInv, BirthInv, Step
  PROVE  Created \subseteq Created'
<1>1. ASSUME NEW c \in Callers, Insert(c)
      PROVE  Created \subseteq Created'
  <2>1. CASE UNCHANGED row
    BY <2>1 DEF Created
  <2>2. CASE row' = [row EXCEPT ![token[c]] = "kept"]
    BY <2>2 DEF TypeOK, Created
  <2>3. QED
    BY <1>1, <2>1, <2>2, InsertCreates
<1>2. QED
  BY <1>1, CreatedLater

\* A token without a row gets one only from its own sign-in.
LEMMA StaysUnborn ==
  ASSUME TypeOK, SessionInv, BirthInv, Step, NEW t \in Tokens,
         row[t] = "unborn", \A c \in Callers : pc[c] = "insert" => token[c] # t
  PROVE  row'[t] = "unborn"
<1>1. ASSUME NEW c \in Callers, Insert(c)
      PROVE  row'[t] = "unborn"
  <2>1. token[c] # t
    BY <1>1 DEF Insert
  <2>2. QED
    BY <1>1, <2>1, InsertCreates DEF TypeOK
<1>2. CASE Created' = Created
  BY <1>2 DEF Created
<1>3. QED
  BY <1>1, <1>2, CreatedLater

LEMMA BirthsLater ==
  ASSUME TypeOK, SessionInv, BirthInv, Step
  PROVE  /\ \A t \in Created' : born'[t] <= Cardinality(Created')
         /\ \A t, u \in Created' : born'[t] = born'[u] => t = u
<1>1. ASSUME NEW c \in Callers, Insert(c), ~UNCHANGED <<row, born>>
      PROVE  /\ \A t \in Created' : born'[t] <= Cardinality(Created')
             /\ \A t, u \in Created' : born'[t] = born'[u] => t = u
  <2> DEFINE n == Cardinality(Created)
             new == token[c]
  <2>1. /\ new \in Tokens \ Created
        /\ row' = [row EXCEPT ![new] = "kept"]
        /\ born' = [born EXCEPT ![new] = 1 + n]
    BY <1>1, InsertCreates
  <2>2. Created' = Created \cup {new}
    BY <2>1 DEF TypeOK, Created
  <2>3. IsFiniteSet(Created)
    BY SessionsAssumption, FS_Subset DEF Created
  <2>4. n \in Nat /\ Cardinality(Created') = n + 1
    BY <2>1, <2>2, <2>3, FS_CardinalityType, FS_AddElement
  <2>5. born'[new] = n + 1
    BY <2>1, <2>4 DEF TypeOK
  <2>6. ASSUME NEW t \in Created
        PROVE  born'[t] = born[t] /\ born[t] \in Nat /\ born[t] <= n
    BY <2>1 DEF TypeOK, BirthInv, Created
  <2>7. \A t \in Created' : born'[t] <= Cardinality(Created')
    BY <2>2, <2>4, <2>5, <2>6
  <2>8. \A t, u \in Created : born'[t] = born'[u] => t = u
    BY <2>6 DEF BirthInv
  <2>9. \A t \in Created : born'[t] # born'[new]
    BY <2>4, <2>5, <2>6
  <2>10. QED
    BY <2>2, <2>7, <2>8, <2>9
<1>2. CASE Created' = Created /\ UNCHANGED born
  BY <1>2 DEF BirthInv
<1>3. CASE UNCHANGED <<row, born>>
  BY <1>3 DEF BirthInv, Created
<1>4. QED
  BY <1>1, <1>2, <1>3, CreatedLater

\* A sign-in has its token from its first step on, and it was unused then.
LEMMA SignInFrom ==
  ASSUME TypeOK, Step, NEW c \in Callers, call'[c] = "signin"
  PROVE  \/ call[c] = "signin" /\ token'[c] = token[c]
         \/ Unused(token'[c]) /\ Move(c)
<1>1. CASE Same(c)
  BY <1>1 DEF Same
<1>2. CASE Move(c)
  <2>1. ASSUME NEW t \in Tokens, SignIn(c, t) \/ AdminSignIn(c, t)
        PROVE  Unused(token'[c])
    BY <2>1 DEF TypeOK, SignIn, AdminSignIn, Begin
  <2>2. ASSUME NEW what, what # "signin", NEW p, NEW t, NEW u, NEW dooms,
               NEW since, Begin(c, what, p, t, u, dooms, since)
        PROVE  FALSE
    BY <2>2 DEF TypeOK, Begin
  <2>3. ASSUME NEW t \in Tokens, Get(c, t) \/ Revoke(c, t)
        PROVE  FALSE
    BY <2>2, <2>3 DEF Get, Revoke
  <2>4. CASE Logout(c) \/ Change(c)
    BY <2>2, <2>4 DEF Logout, Change
  <2>5. ASSUME NEW result, Return(c, result)
        PROVE  FALSE
    BY <2>5 DEF TypeOK, Return
  <2>6. ASSUME UNCHANGED <<call, token>>
        PROVE  call[c] = "signin" /\ token'[c] = token[c]
    BY <2>6
  <2>7. QED
    BY <1>2, <2>1, <2>3, <2>4, <2>5, <2>6 DEF Move, Insert, Trim, Evict, Store,
       Track, Verify, Drop, Load, Forget, DeleteRow, Gather, Wipe, Crash, Goto
<1>3. QED
  BY <1>1, <1>2, StepSplits, OutsideSame, MoveSame

LEMMA SignInsApart ==
  ASSUME TypeOK, SessionInv, BirthInv, Step,
         NEW c \in Callers, NEW d \in Callers,
         call'[c] = "signin", call'[d] = "signin", token'[c] = token'[d]
  PROVE  c = d
<1>1. ASSUME NEW e \in Callers, call[e] = "signin"
      PROVE  pc[e] # "idle"
  BY <1>1 DEF SessionInv, CallInv
<1>2. ASSUME NEW a \in Callers, NEW b \in Callers, a # b,
             Unused(token'[a]), Move(a), call'[b] = "signin"
      PROVE  token'[a] # token'[b]
  <2>1. Same(b)
    BY <1>2, MoveSame
  <2>2. QED
    BY <1>1, <1>2, <2>1 DEF Unused, Same
<1>3. CASE /\ call[c] = "signin" /\ token'[c] = token[c]
           /\ call[d] = "signin" /\ token'[d] = token[d]
  BY <1>3 DEF BirthInv
<1>4. QED
  BY <1>2, <1>3, SignInFrom

LEMMA BystanderToken ==
  ASSUME TypeOK, SessionInv, BirthInv, Step, NEW d \in Callers, Same(d), ~Insert(d)
  PROVE  TokenOf(d)'
<1>1. TokenOf(d) /\ CallInv(d)
  BY DEF BirthInv, SessionInv
<1>2. ASSUME call[d] = "signin", row[token[d]] = "unborn"
      PROVE  row'[token[d]] = "unborn"
  <2>1. CASE \E c \in Callers : Insert(c)
    <3>1. PICK c \in Callers : Insert(c)
      BY <2>1
    <3>2. call[c] = "signin" /\ token[c] # token[d]
      BY <1>2, <3>1 DEF BirthInv, SessionInv, CallInv, Insert
    <3>3. token[d] \in Tokens
      BY <1>1, <1>2 DEF CallInv
    <3>4. QED
      BY <1>2, <3>1, <3>2, <3>3, InsertCreates DEF TypeOK
  <2>2. CASE Created' = Created
    BY <1>1, <1>2, <2>2 DEF Created, CallInv
  <2>3. QED
    BY <2>1, <2>2, CreatedLater
<1>3. QED
  BY <1>1, <1>2, CreatedGrows DEF TokenOf, CallInv, Same, OfBusiness

LEMMA ReturnToken ==
  ASSUME TypeOK, NEW c \in Callers, NEW result, Return(c, result),
         result.is = "served" => token[c] \in Created'
  PROVE  TokenOf(c)'
BY DEF TypeOK, Return, TokenOf

LEMMA ContinueToken ==
  ASSUME TypeOK, SessionInv, BirthInv, Step, NEW c \in Callers,
         pc[c] # "idle", UNCHANGED <<call, token, out>>,
         pc'[c] # "trim", pc'[c] # "insert", pc'[c] # "forget",
         pc'[c] = "evict" => call[c] # "signin" \/ OfBusiness(token[c]),
         pc'[c] = "delete" => pc[c] = "forget"
  PROVE  TokenOf(c)'
<1>1. TokenOf(c) /\ CallInv(c)
  BY DEF BirthInv, SessionInv
<1>2. QED
  BY <1>1, CreatedGrows DEF TokenOf, CallInv, OfBusiness

LEMMA MoveToken ==
  ASSUME TypeOK, SessionInv, BirthInv, Step, NEW c \in Callers, Move(c)
  PROVE  TokenOf(c)'
<1>0. TokenOf(c) /\ CallInv(c) /\ Created \subseteq Created'
  BY CreatedGrows DEF BirthInv, SessionInv
<1>1. ASSUME NEW t \in Tokens, SignIn(c, t) \/ AdminSignIn(c, t)
      PROVE  TokenOf(c)'
  <2>1. Unused(t)
    BY <1>1 DEF SignIn, AdminSignIn
  <2>2. row'[t] = "unborn"
    <3>1. \A d \in Callers : pc[d] = "insert" => token[d] # t
      BY <2>1 DEF Unused
    <3>2. QED
      BY <2>1, <3>1, StaysUnborn DEF Unused
  <2>3. /\ pc'[c] \in {"insert", "evict"} /\ call'[c] = "signin"
        /\ token'[c] = t /\ out'[c] = Nothing
    BY <1>1 DEF TypeOK, SignIn, AdminSignIn, Begin
  <2>4. QED
    BY <2>2, <2>3 DEF TokenOf, Nothing
<1>2. ASSUME NEW t \in Tokens, Get(c, t)
      PROVE  TokenOf(c)'
  <2>1. t \in Created'
    BY <1>0, <1>2 DEF Get, Issued, Created
  <2>2. /\ pc'[c] \in {"load", "verify"} /\ call'[c] = "get"
        /\ token'[c] = t /\ out'[c] = Nothing
    BY <1>2 DEF TypeOK, Get, Begin
  <2>3. QED
    BY <2>1, <2>2 DEF TokenOf, Nothing
<1>3. ASSUME NEW t \in Tokens, Revoke(c, t)
      PROVE  TokenOf(c)'
  BY <1>3 DEF TypeOK, Revoke, Begin, TokenOf, Nothing
<1>4. CASE Logout(c)
  <2>1. token[c] \in Created'
    BY <1>0, <1>4 DEF Logout, TokenOf
  <2>2. /\ pc'[c] = "forget" /\ call'[c] = "logout"
        /\ token'[c] = token[c] /\ out'[c] = Nothing
    BY <1>4 DEF TypeOK, Logout, Begin
  <2>3. QED
    BY <2>1, <2>2 DEF TokenOf, Nothing
<1>5. CASE Change(c)
  BY <1>5 DEF TypeOK, Change, Begin, TokenOf, Nothing
<1>6. CASE Insert(c)
  <2>1. CASE Return(c, Refused)
    BY <2>1, ReturnToken DEF Refused
  <2>2. CASE ~Return(c, Refused)
    <3>1. /\ pc'[c] = IF OfBusiness(token[c]) THEN "trim" ELSE "store"
          /\ UNCHANGED <<call, token, out>>
      BY <1>6, <2>2 DEF TypeOK, Insert, Goto
    <3>2. call[c] = "signin" /\ out[c] = Nothing
      BY <1>0, <1>6 DEF Insert, CallInv
    <3>3. QED
      BY <3>1, <3>2 DEF TokenOf, OfBusiness, Nothing
  <2>3. QED
    BY <2>1, <2>2
<1>7. CASE Trim(c)
  <2>1. pc'[c] \in {"store", "evict"} /\ UNCHANGED <<call, token, out>>
    BY <1>7 DEF TypeOK, Trim
  <2>2. OfBusiness(token[c])
    BY <1>0, <1>7 DEF TokenOf, Trim
  <2>3. QED
    BY <2>1, <2>2, <1>7, ContinueToken DEF Trim
<1>8. CASE Evict(c)
  <2>1. CASE Return(c, Nothing)
    BY <2>1, ReturnToken DEF Nothing
  <2>2. CASE ~Return(c, Nothing) /\ pc'[c] = "insert"
    <3>1. /\ UNCHANGED <<call, token, out>> /\ call[c] = "signin"
          /\ ~OfBusiness(token[c]) /\ out[c] = Nothing
      BY <1>0, <1>8, <2>2 DEF TypeOK, Evict, CallInv
    <3>2. row'[token[c]] = "unborn"
      <4>1. token[c] \in Tokens /\ row[token[c]] = "unborn" /\ UNCHANGED row
        BY <1>0, <1>8, <3>1 DEF TokenOf, CallInv, Evict, dbVars
      <4>2. QED
        BY <4>1
    <3>3. QED
      BY <2>2, <3>1, <3>2 DEF TokenOf, Nothing
  <2>3. CASE ~Return(c, Nothing) /\ pc'[c] # "insert"
    <3>1. UNCHANGED <<call, token, out>> /\ pc'[c] \in {"evict", "store"}
      BY <1>8, <2>3 DEF TypeOK, Evict
    <3>2. UNCHANGED row
      BY <1>8 DEF Evict, dbVars
    <3>3. QED
      BY <1>0, <1>8, <3>1, <3>2 DEF TokenOf, CallInv, Evict, OfBusiness, Nothing
  <2>4. QED
    BY <2>1, <2>2, <2>3
<1>9. CASE Store(c)
  <2>1. pc'[c] = "track" /\ UNCHANGED <<call, token, out>>
    BY <1>9 DEF TypeOK, Store, Goto
  <2>2. QED
    BY <2>1, <1>9, ContinueToken DEF Store
<1>10. CASE Track(c)
  BY <1>0, <1>10, ReturnToken DEF Track, TokenOf, Nothing
<1>11. CASE Verify(c)
  <2>1. token[c] \in Created'
    BY <1>0, <1>11 DEF Verify, CallInv, TokenOf
  <2>2. CASE Confirmed(token[c], user[c])
    BY <2>1, <1>11, <2>2, ReturnToken DEF Verify
  <2>3. CASE ~Confirmed(token[c], user[c])
    <3>1. pc'[c] = "drop" /\ UNCHANGED <<call, token, out>>
      BY <1>11, <2>3 DEF TypeOK, Verify, Goto
    <3>2. QED
      BY <3>1, <1>11, ContinueToken DEF Verify
  <2>4. QED
    BY <2>2, <2>3
<1>12. CASE Load(c)
  <2>1. CASE Authentic(token[c])
    <3>1. pc'[c] = "store" /\ UNCHANGED <<call, token, out>>
      BY <1>12, <2>1 DEF TypeOK, Load
    <3>2. QED
      BY <3>1, <1>12, ContinueToken DEF Load
  <2>2. CASE ~Authentic(token[c])
    BY <1>12, <2>2, ReturnToken DEF Load, Refused
  <2>3. QED
    BY <2>1, <2>2
<1>13. CASE Forget(c)
  <2>1. pc'[c] = "delete" /\ UNCHANGED <<call, token, out>>
    BY <1>13 DEF TypeOK, Forget, Goto
  <2>2. QED
    BY <2>1, <1>13, ContinueToken DEF Forget
<1>14. CASE Drop(c) \/ DeleteRow(c) \/ Wipe(c) \/ Crash(c)
  BY <1>14, ReturnToken DEF Drop, DeleteRow, Wipe, Crash, Nothing, Refused
<1>15. CASE Gather(c)
  <2>1. CASE Return(c, Nothing)
    BY <2>1, ReturnToken DEF Nothing
  <2>2. CASE ~Return(c, Nothing)
    <3>1. pc'[c] = "wipe" /\ UNCHANGED <<call, token, out>>
      BY <1>15, <2>2 DEF TypeOK, Gather
    <3>2. QED
      BY <3>1, <1>15, ContinueToken DEF Gather
  <2>3. QED
    BY <2>1, <2>2
<1>16. QED
  BY <1>1, <1>2, <1>3, <1>4, <1>5, <1>6, <1>7, <1>8, <1>9, <1>10, <1>11, <1>12,
     <1>13, <1>14, <1>15 DEF Move

LEMMA NextBirth ==
  ASSUME TypeOK, SessionInv, BirthInv, [Next]_vars
  PROVE  BirthInv'
<1>1. CASE Step
  <2>1. ASSUME NEW d \in Callers
        PROVE  TokenOf(d)'
    <3>1. CASE Move(d)
      BY <1>1, <3>1, MoveToken
    <3>2. CASE ~Move(d)
      <4>1. Same(d) /\ ~Insert(d)
        BY <1>1, <3>2, StepSplits, OutsideSame, MoveSame DEF Move
      <4>2. QED
        BY <1>1, <4>1, BystanderToken
    <3>3. QED
      BY <3>1, <3>2
  <2>2. \A c, d \in Callers :
          call'[c] = "signin" /\ call'[d] = "signin" /\ token'[c] = token'[d] =>
            c = d
    BY <1>1, SignInsApart
  <2>3. QED
    BY <1>1, <2>1, <2>2, BirthsLater DEF BirthInv
<1>2. CASE UNCHANGED vars
  BY <1>2 DEF BirthInv, TokenOf, Created, OfBusiness, vars, dbVars, redisVars,
              callVars, ghosts
<1>3. QED
  BY <1>1, <1>2 DEF Next

-----------------------------------------------------------------------------
(* Why an owner keeps at most Cap sessions *)

Trimming == {c \in Callers : pc[c] = "trim"}

LEMMA FiniteCounts ==
  /\ IsFiniteSet(OwnerRows) /\ Cardinality(OwnerRows) \in Nat
  /\ IsFiniteSet(Trimming) /\ Cardinality(Trimming) \in Nat
BY SessionsAssumption, FS_Subset, FS_CardinalityType DEF OwnerRows, Trimming

LEMMA FiniteCountsNext ==
  /\ IsFiniteSet(OwnerRows') /\ Cardinality(OwnerRows') \in Nat
  /\ IsFiniteSet(Trimming') /\ Cardinality(Trimming') \in Nat
BY SessionsAssumption, FS_Subset, FS_CardinalityType DEF OwnerRows, Trimming

\* Only Trim and a crash take a caller out of Trim.
LEMMA StillTrimming ==
  ASSUME TypeOK, Step, \A c \in Callers : ~Trim(c) /\ ~Crash(c)
  PROVE  Trimming \subseteq Trimming' /\ crashes' = crashes
<1>1. ASSUME NEW c \in Callers, Move(c)
      PROVE  pc[c] # "trim" /\ crashes' = crashes
  BY <1>1 DEF Move, SignIn, AdminSignIn, Get, Revoke, Insert, Trim, Evict, Store,
     Track, Verify, Drop, Load, Logout, Forget, DeleteRow, Change, Gather, Wipe,
     Begin, ghosts
<1>2. ASSUME NEW d \in Callers, pc[d] = "trim"
      PROVE  pc'[d] = "trim"
  BY <1>1, <1>2, StepSplits, OutsideSame, MoveSame DEF Same
<1>3. CASE Outside
  BY <1>2, <1>3 DEF Trimming, Outside, Rename, Lapse, ForgetEntry,
     ForgetTracking, ghosts
<1>4. QED
  BY <1>1, <1>2, <1>3, StepSplits DEF Trimming

LEMMA NextCap ==
  ASSUME TypeOK, SessionInv, BirthInv, CapRespected, [Next]_vars
  PROVE  CapRespected'
<1> DEFINE rows == Cardinality(OwnerRows)
           trims == Cardinality(Trimming)
           rowsThen == Cardinality(OwnerRows')
           trimsThen == Cardinality(Trimming')
<1>0. /\ rows \in Nat /\ trims \in Nat /\ crashes \in Nat /\ Cap \in Nat
      /\ rowsThen \in Nat /\ trimsThen \in Nat
      /\ rows <= Cap + trims + crashes
  BY FiniteCounts, FiniteCountsNext, SessionsAssumption
     DEF CapRespected, TypeOK, Trimming
<1> SUFFICES rowsThen <= Cap + trimsThen + crashes'
  BY DEF CapRespected, Trimming
<1>1. ASSUME NEW c \in Callers, Step, Trim(c)
      PROVE  rowsThen <= Cap + trimsThen + crashes'
  <2>1. OwnerRows' = OwnerRows \ Surplus
    BY <1>1 DEF TypeOK, Trim, Delete, OwnerRows
  <2>2. rowsThen <= Cap
    BY <2>1, TrimLeavesCap
  <2>3. crashes' \in Nat
    BY <1>1 DEF TypeOK, Trim, ghosts
  <2>4. QED
    BY <1>0, <2>2, <2>3
<1>2. ASSUME NEW c \in Callers, Step, Insert(c), OwnerRows' # OwnerRows
      PROVE  rowsThen <= Cap + trimsThen + crashes'
  <2>1. /\ token[c] \in Tokens \ Created
        /\ row' = [row EXCEPT ![token[c]] = "kept"]
        /\ pc'[c] = IF OfBusiness(token[c]) THEN "trim" ELSE "store"
    BY <1>2, InsertCreates DEF OwnerRows
  <2>2. OwnerRows' = OwnerRows \cup {token[c]} /\ Kind[token[c]] = "owner"
    BY <1>2, <2>1 DEF TypeOK, OwnerRows
  <2>3. Trimming' = Trimming \cup {c} /\ c \notin Trimming
    <3>1. pc[c] = "insert" /\ pc'[c] = "trim"
      BY <1>2, <2>1, <2>2 DEF Insert, OfBusiness
    <3>2. \A d \in Callers \ {c} : pc'[d] = pc[d]
      BY <1>2, MoveSame DEF Move, Same
    <3>3. QED
      BY <3>1, <3>2 DEF Trimming
  <2>4. rowsThen = IF token[c] \in OwnerRows THEN rows ELSE rows + 1
    BY <2>2, FiniteCounts, FS_AddElement
  <2>5. trimsThen = trims + 1
    BY <2>3, FiniteCounts, FS_AddElement
  <2>6. crashes' = crashes
    BY <1>2 DEF Insert, ghosts
  <2> HIDE DEF rows, trims, rowsThen, trimsThen
  <2>7. QED
    BY <1>0, <2>4, <2>5, <2>6
<1>3. ASSUME NEW c \in Callers, Step, Crash(c)
      PROVE  rowsThen <= Cap + trimsThen + crashes'
  <2>1. rowsThen = rows
    BY <1>3 DEF Crash, dbVars, OwnerRows
  <2>2. Trimming \subseteq Trimming' \cup {c}
    BY <1>3, MoveSame DEF Move, Same, Trimming
  <2>3. trims <= trimsThen + 1
    <3> DEFINE with == Cardinality(Trimming' \cup {c})
    <3>1. /\ IsFiniteSet(Trimming' \cup {c})
          /\ with = IF c \in Trimming' THEN trimsThen ELSE trimsThen + 1
      BY FiniteCountsNext, FS_AddElement
    <3>2. trims <= with
      BY <2>2, <3>1, FS_Subset
    <3>3. with \in Nat
      BY <3>1, FS_CardinalityType
    <3> HIDE DEF trims, trimsThen, with
    <3>4. QED
      BY <1>0, <3>1, <3>2, <3>3
  <2>4. crashes' = crashes + 1
    BY <1>3 DEF Crash
  <2> HIDE DEF rows, trims, rowsThen, trimsThen
  <2>5. QED
    BY <1>0, <2>1, <2>3, <2>4
<1>4. ASSUME OwnerRows' \subseteq OwnerRows, Trimming \subseteq Trimming',
             crashes' = crashes
      PROVE  rowsThen <= Cap + trimsThen + crashes'
  <2>1. rowsThen <= rows
    BY <1>4, FiniteCounts, FS_Subset
  <2>2. trims <= trimsThen
    BY <1>4, FiniteCountsNext, FS_Subset
  <2> HIDE DEF rows, trims, rowsThen, trimsThen
  <2>3. QED
    BY <1>0, <1>4, <2>1, <2>2
<1>5. CASE Step /\ \A c \in Callers : ~Trim(c) /\ ~Crash(c)
  <2>1. CASE OwnerRows' \subseteq OwnerRows
    BY <1>4, <1>5, <2>1, StillTrimming
  <2>2. CASE \E c \in Callers : Insert(c)
    BY <1>2, <1>5, <2>1, <2>2
  <2>3. QED
    BY <1>5, <2>1, <2>2, CreatedLater DEF OwnerRows
<1>6. CASE UNCHANGED vars
  BY <1>4, <1>6 DEF OwnerRows, Trimming, vars, dbVars, callVars, ghosts
<1>7. QED
  BY <1>1, <1>3, <1>5, <1>6 DEF Next

\* An owner keeps at most Cap sessions, but for the sign-ins that have not
\* trimmed yet and those that died before they could: each one that trims sees
\* every row, its own and the late ones of others (createBusinessSession).
THEOREM SessionsAreCapped == Spec => []CapRespected
<1>1. Init => BirthInv
  BY DEF Init, BirthInv, TokenOf, Created, Nothing
<1>2. Init => CapRespected
  <2>1. ASSUME Init
        PROVE  /\ Cardinality(OwnerRows) = 0 /\ Cardinality(Trimming) \in Nat
               /\ crashes = 0
    <3>1. OwnerRows = {}
      BY <2>1 DEF Init, OwnerRows
    <3>2. QED
      BY <2>1, <3>1, FS_EmptySet, FiniteCounts DEF Init
  <2>2. QED
    BY <2>1, SessionsAssumption DEF CapRespected, Trimming
<1>3. TypeOK /\ SessionInv /\ BirthInv /\ [Next]_vars => BirthInv'
  BY NextBirth
<1>4. TypeOK /\ SessionInv /\ BirthInv /\ CapRespected /\ [Next]_vars =>
        CapRespected'
  BY NextCap
<1>5. QED
  BY <1>1, <1>2, <1>3, <1>4, SessionsInvariant, PTL DEF Spec
=============================================================================
