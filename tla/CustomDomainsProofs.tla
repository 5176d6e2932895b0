------------------------- MODULE CustomDomainsProofs -------------------------
(***************************************************************************)
(* Theorems about custom domains: the results of checks that overlap, the  *)
(* selection of the primary domain, and the hostnames that are kept.       *)
(***************************************************************************)
EXTENDS CustomDomains, TLAPS

\* A later lookup is known to a caller only while both wait to write the same
\* row, and a caller whose row a later lookup was written to will find the row
\* changed.
OrderInv ==
  /\ \A c, d \in Callers : c \in later[d] =>
       c # d /\ pc[c] = "commit" /\ pc[d] = "commit" /\ claim[c] = claim[d]
  /\ \A c \in overtaken : c \in changed /\ pc[c] = "commit"

\* A row stays verified, and a check that read it as pending will find it
\* changed.
VerifiedInv ==
  /\ \A k \in verified : status[k] \in {"active", "disconnected"}
  /\ \A c \in Callers :
       /\ pc[c] \in {"lookup", "commit"}
       /\ before[c] = "pending" /\ claim[c] \in verified
       => c \in changed

DomainsInv == TypeOK /\ OrderInv /\ PrimaryIsActive /\ VerifiedInv

-----------------------------------------------------------------------------
(* Types *)

LEMMA Defaults == Someone \in Claims /\ Anyone \in Businesses /\ Anywhere \in Hosts
BY DomainsAssumption DEF DomainsAssumption, Someone, Anyone, Anywhere

LEMMA FreeType ==
  ASSUME TypeOK, NEW c \in Callers, Free(c)
  PROVE  /\ pc' \in [Callers -> {"idle", "lookup", "commit", "probe", "select"}]
         /\ claim' \in [Callers -> Claims]
         /\ server' \in [Callers -> Processes \cup {Manual}]
         /\ before' \in [Callers -> Kept]
         /\ found' \in [Callers -> {"nothing", "proof", "failure"}]
         /\ later' \in [Callers -> SUBSET Callers]
<1>1. claim' \in [Callers -> Claims]
  BY Defaults DEF TypeOK, Free
<1>2. before' \in [Callers -> Kept]
  BY DEF TypeOK, Free, Kept
<1>3. later' \in [Callers -> SUBSET Callers]
  BY DEF TypeOK, Free
<1>4. QED
  BY <1>1, <1>2, <1>3 DEF TypeOK, Free

LEMMA BeginType ==
  ASSUME TypeOK, NEW c \in Callers, NEW k \in Claims, status[k] \in Kept,
         NEW p \in {"lookup", "probe"}, NEW who \in Processes \cup {Manual},
         Begin(c, k, p, who)
  PROVE  /\ pc' \in [Callers -> {"idle", "lookup", "commit", "probe", "select"}]
         /\ claim' \in [Callers -> Claims]
         /\ server' \in [Callers -> Processes \cup {Manual}]
         /\ before' \in [Callers -> Kept]
         /\ found' \in [Callers -> {"nothing", "proof", "failure"}]
         /\ later' \in [Callers -> SUBSET Callers]
         /\ changed' \subseteq Callers /\ overtaken' \subseteq Callers
BY DEF TypeOK, Begin

LEMMA AddType ==
  ASSUME TypeOK, NEW k \in Claims, NEW b \in Businesses, NEW h \in Hosts,
         Add(k, b, h)
  PROVE  TypeOK'
<1>1. owner' \in [Claims -> Businesses] /\ host' \in [Claims -> Hosts]
  BY Defaults DEF TypeOK, Add
<1>2. status' \in [Claims -> {"absent", "removed"} \cup Kept]
  BY DEF TypeOK, Add, Kept
<1>3. changed' \subseteq Callers
  BY DEF TypeOK, Add, Touch, Reading
<1>4. QED
  BY <1>1, <1>2, <1>3 DEF TypeOK, Add, callVars

LEMMA RemoveType ==
  ASSUME TypeOK, NEW k \in Claims, Remove(k)
  PROVE  TypeOK'
<1>1. owner' \in [Claims -> Businesses] /\ host' \in [Claims -> Hosts]
  BY Defaults DEF TypeOK, Remove
<1>2. changed' \subseteq Callers
  BY DEF TypeOK, Remove, Touch, Reading
<1>3. QED
  BY <1>1, <1>2 DEF TypeOK, Remove, callVars

LEMMA CallType ==
  ASSUME TypeOK, NEW c \in Callers, Check(c)
  PROVE  TypeOK'
<1>1. CASE Lookup(c)
  <2>1. CASE Fail(c) /\ outages < MaxOutages /\ outages' = outages + 1
    <3>1. changed' \subseteq Callers /\ overtaken' \subseteq Callers /\ Free(c)
      BY <2>1 DEF TypeOK, Fail
    <3>2. QED
      BY <1>1, <2>1, <3>1, FreeType DEF TypeOK, Lookup, rowVars
  <2>2. CASE pc' = [pc EXCEPT ![c] = "commit"] /\ later' \in [Callers -> SUBSET Callers]
             /\ found' \in [Callers -> {"nothing", "proof", "failure"}]
             /\ UNCHANGED <<claim, server, before, overtaken, changed, outages>>
    BY <1>1, <2>2 DEF TypeOK, Lookup, rowVars
  <2>3. QED
    BY <1>1, <2>1, <2>2 DEF TypeOK, Lookup
<1>2. CASE Commit(c)
  <2>1. Free(c) /\ claim[c] \in Claims
    BY <1>2 DEF TypeOK, Commit
  <2>2. status' \in [Claims -> {"absent", "removed"} \cup Kept]
    BY <1>2, <2>1 DEF TypeOK, Commit, StatusAfter, Kept
  <2>3. leased' \subseteq Claims /\ primary' \subseteq Claims
    BY <1>2, <2>1 DEF TypeOK, Commit, Set
  <2>4. changed' \subseteq Callers /\ overtaken' \subseteq Callers
    BY <1>2 DEF TypeOK, Commit, Reading
  <2>5. QED
    BY <1>2, <2>1, <2>2, <2>3, <2>4, FreeType DEF TypeOK, Commit
<1>3. CASE Conflict(c)
  <2>1. changed' \subseteq Callers /\ overtaken' \subseteq Callers /\ Free(c)
    BY <1>3 DEF TypeOK, Conflict, Fail
  <2>2. QED
    BY <1>3, <2>1, FreeType DEF TypeOK, Conflict, rowVars
<1>4. CASE Probe(c)
  <2>1. CASE Fail(c)
    <3>1. changed' \subseteq Callers /\ overtaken' \subseteq Callers /\ Free(c)
      BY <2>1 DEF TypeOK, Fail
    <3>2. QED
      BY <1>4, <3>1, FreeType DEF TypeOK, Probe, rowVars
  <2>2. CASE pc' = [pc EXCEPT ![c] = "select"]
             /\ UNCHANGED <<claim, server, before, found, later, overtaken, changed>>
    BY <1>4, <2>2 DEF TypeOK, Probe, rowVars
  <2>3. QED
    BY <1>4, <2>1, <2>2 DEF Probe
<1>5. CASE Select(c)
  <2>1. Free(c) /\ claim[c] \in Claims
    BY <1>5 DEF TypeOK, Select
  <2>2. primary' \subseteq Claims /\ changed' \subseteq Callers
    BY <1>5, <2>1 DEF TypeOK, Select, Reading, Kin
  <2>3. QED
    BY <1>5, <2>1, <2>2, FreeType DEF TypeOK, Select
<1>6. QED
  BY <1>1, <1>2, <1>3, <1>4, <1>5 DEF Check

LEMMA MaintenanceType ==
  ASSUME TypeOK, NEW p \in Processes,
         Sweep(p) \/ Crash(p) \/ \E c \in Callers : Take(c, p)
  PROVE  TypeOK'
<1>1. CASE Sweep(p)
  <2>1. PICK rows \in SUBSET Overdue :
          /\ queue' = [queue EXCEPT ![p] = rows] /\ due' = due \ rows
          /\ Touch(rows)
    BY <1>1 DEF Sweep
  <2>2. changed' \subseteq Callers /\ rows \subseteq Claims
    BY <2>1 DEF TypeOK, Touch, Reading, Overdue
  <2>3. QED
    BY <1>1, <2>1, <2>2 DEF TypeOK, Sweep, callVars
<1>2. CASE Crash(p)
  <2>1. claim' \in [Callers -> Claims]
    BY <1>2, Defaults DEF TypeOK, Crash
  <2>2. before' \in [Callers -> Kept]
    BY <1>2 DEF TypeOK, Crash, Kept
  <2>3. later' \in [Callers -> SUBSET Callers]
    BY <1>2 DEF TypeOK, Crash
  <2>4. QED
    BY <1>2, <2>1, <2>2, <2>3 DEF TypeOK, Crash, rowVars
<1>3. ASSUME NEW c \in Callers, Take(c, p)
      PROVE  TypeOK'
  <2>1. PICK k \in queue[p] :
          /\ queue' = [queue EXCEPT ![p] = @ \ {k}]
          /\ IF Checkable(k) THEN Begin(c, k, "lookup", p)
             ELSE pc[c] = "idle" /\ UNCHANGED <<callVars, changed>>
    BY <1>3 DEF Take
  <2>2. k \in Claims /\ queue' \in [Processes -> SUBSET Claims]
    BY <2>1 DEF TypeOK
  <2>3. CASE Checkable(k)
    <3>1. status[k] \in Kept /\ Begin(c, k, "lookup", p)
      BY <2>1, <2>3 DEF Checkable, Of
    <3>2. QED
      BY <1>3, <2>2, <3>1, BeginType DEF TypeOK, Take, rowVars
  <2>4. CASE ~Checkable(k)
    BY <1>3, <2>1, <2>2, <2>4 DEF TypeOK, Take, rowVars, callVars
  <2>5. QED
    BY <2>3, <2>4
<1>4. QED
  BY <1>1, <1>2, <1>3

LEMMA NextType == TypeOK /\ [Next]_vars => TypeOK'
<1> SUFFICES ASSUME TypeOK, [Next]_vars
             PROVE  TypeOK'
  OBVIOUS
<1>1. ASSUME NEW c \in Callers, NEW k \in Claims, Verify(c, k) \/ Choose(c, k)
      PROVE  TypeOK'
  <2>1. /\ status[k] \in Kept
        /\ Begin(c, k, "lookup", Manual) \/ Begin(c, k, "probe", Manual)
    BY <1>1 DEF Verify, Choose, Checkable, Ready, Of
  <2>2. QED
    BY <1>1, <2>1, BeginType DEF TypeOK, Verify, Choose, rowVars
<1>2. ASSUME NEW k \in Claims, Publish(k) \/ Lapse(k) \/ Age(k) \/ FallDue(k)
      PROVE  TypeOK'
  BY <1>2 DEF TypeOK, Publish, Lapse, Age, FallDue, rowVars, callVars
<1>3. ASSUME NEW b \in Businesses, Suspend(b)
      PROVE  TypeOK'
  BY <1>3 DEF TypeOK, Suspend, rowVars, callVars
<1>4. CASE UNCHANGED vars
  BY <1>4 DEF TypeOK, vars, rowVars, callVars
<1>5. QED
  BY <1>1, <1>2, <1>3, <1>4, AddType, RemoveType, CallType, MaintenanceType
  DEF Next

LEMMA InitType == Init => TypeOK
BY Defaults, DomainsAssumption DEF Init, TypeOK, Kept, DomainsAssumption

-----------------------------------------------------------------------------
(* Checks that overlap *)

\* Rows written by somebody else, and calls that begin, disturb nothing.
LEMMA OrderKept ==
  ASSUME TypeOK, OrderInv, UNCHANGED <<later, overtaken>>,
         overtaken \subseteq changed',
         \A c \in Callers : pc[c] = "commit" => pc'[c] = pc[c] /\ claim'[c] = claim[c]
  PROVE  OrderInv'
BY DEF TypeOK, OrderInv

\* A call that ends is forgotten by those it was known to.
LEMMA OrderFreed ==
  ASSUME TypeOK, OrderInv, NEW c \in Callers, Free(c),
         overtaken' \subseteq Callers,
         \A d \in overtaken' : d # c /\ d \in changed' /\ pc[d] = "commit"
  PROVE  OrderInv'
<1>1. /\ \A d \in Callers : d # c => pc'[d] = pc[d] /\ claim'[d] = claim[d]
      /\ \A d \in Callers : later'[d] = IF d = c THEN {} ELSE later[d] \ {c}
  BY DEF TypeOK, Free
<1>2. \A d, e \in Callers : d \in later'[e] =>
        d # c /\ e # c /\ d \in later[e]
  BY <1>1
<1>3. QED
  BY <1>1, <1>2 DEF OrderInv, TypeOK

LEMMA OrderFailed ==
  ASSUME TypeOK, OrderInv, NEW c \in Callers, Fail(c)
  PROVE  OrderInv'
BY OrderFreed DEF TypeOK, OrderInv, Fail

LEMMA OrderCall ==
  ASSUME TypeOK, OrderInv, NEW c \in Callers, Check(c)
  PROVE  OrderInv'
<1>1. CASE Lookup(c) /\ ~Fail(c)
  <2>1. /\ pc[c] = "lookup" /\ pc' = [pc EXCEPT ![c] = "commit"]
        /\ later' = [d \in Callers |->
             IF pc[d] = "commit" /\ claim[d] = claim[c] THEN later[d] \cup {c}
             ELSE later[d]]
        /\ UNCHANGED <<claim, overtaken, changed>>
    BY <1>1 DEF Lookup
  <2>2. QED
    BY <2>1 DEF TypeOK, OrderInv
<1>2. CASE Commit(c)
  <2>1. /\ pc[c] = "commit" /\ Free(c)
        /\ changed' = (changed \cup Reading({claim[c]})) \ {c}
        /\ overtaken' = (overtaken \cup {d \in Callers : c \in later[d]}) \ {c}
    BY <1>2 DEF Commit
  <2>2. \A d \in Callers : c \in later[d] =>
          pc[d] = "commit" /\ d \in Reading({claim[c]})
    BY DEF OrderInv, Reading
  <2>3. QED
    BY <2>1, <2>2, OrderFreed DEF OrderInv, TypeOK
<1>3. CASE Conflict(c)
  BY <1>3, OrderFailed DEF Conflict
<1>4. CASE Probe(c) /\ ~Fail(c)
  BY <1>4, OrderKept DEF TypeOK, OrderInv, Probe
<1>5. CASE Select(c)
  <2>1. \A d \in overtaken : d # c /\ d \in changed' /\ pc[d] = "commit"
    BY <1>5 DEF Select, OrderInv, Kin
  <2>2. QED
    BY <1>5, <2>1, OrderFreed DEF Select, TypeOK
<1>6. CASE Fail(c)
  BY <1>6, OrderFailed
<1>7. QED
  BY <1>1, <1>2, <1>3, <1>4, <1>5, <1>6 DEF Check

LEMMA OrderMaintenance ==
  ASSUME TypeOK, OrderInv, NEW p \in Processes,
         Sweep(p) \/ Crash(p) \/ \E c \in Callers : Take(c, p)
  PROVE  OrderInv'
<1>1. CASE Sweep(p)
  BY <1>1, OrderKept DEF OrderInv, Sweep, Touch, callVars
<1>2. CASE Crash(p)
  <2>1. PICK mine \in SUBSET Callers :
          /\ pc' = [c \in Callers |-> IF c \in mine THEN "idle" ELSE pc[c]]
          /\ claim' = [c \in Callers |-> IF c \in mine THEN Someone ELSE claim[c]]
          /\ later' = [c \in Callers |-> IF c \in mine THEN {} ELSE later[c] \ mine]
          /\ changed' = changed \ mine /\ overtaken' = overtaken \ mine
    BY <1>2 DEF Crash
  <2>2. \A c, d \in Callers : c \in later'[d] =>
          c \notin mine /\ d \notin mine /\ c \in later[d]
    BY <2>1
  <2>3. \A c \in Callers \ mine : pc'[c] = pc[c] /\ claim'[c] = claim[c]
    BY <2>1
  <2>4. QED
    BY <2>1, <2>2, <2>3 DEF TypeOK, OrderInv
<1>3. ASSUME NEW c \in Callers, Take(c, p)
      PROVE  OrderInv'
  BY <1>3, OrderKept DEF TypeOK, OrderInv, Take, Begin, callVars
<1>4. QED
  BY <1>1, <1>2, <1>3

LEMMA NextOrder == TypeOK /\ OrderInv /\ [Next]_vars => OrderInv'
<1> SUFFICES ASSUME TypeOK, OrderInv, [Next]_vars
             PROVE  OrderInv'
  OBVIOUS
<1>1. ASSUME NEW k \in Claims,
             Remove(k) \/ \E b \in Businesses, h \in Hosts : Add(k, b, h)
      PROVE  OrderInv'
  BY <1>1, OrderKept DEF OrderInv, Add, Remove, Touch, callVars
<1>2. ASSUME NEW c \in Callers, NEW k \in Claims, Verify(c, k) \/ Choose(c, k)
      PROVE  OrderInv'
  BY <1>2, OrderKept DEF TypeOK, OrderInv, Verify, Choose, Begin
<1>3. ASSUME NEW k \in Claims, Publish(k) \/ Lapse(k) \/ Age(k) \/ FallDue(k)
      PROVE  OrderInv'
  BY <1>3, OrderKept DEF OrderInv, Publish, Lapse, Age, FallDue, callVars
<1>4. ASSUME NEW b \in Businesses, Suspend(b)
      PROVE  OrderInv'
  BY <1>4, OrderKept DEF OrderInv, Suspend, callVars
<1>5. CASE UNCHANGED vars
  BY <1>5, OrderKept DEF OrderInv, vars, callVars
<1>6. QED
  BY <1>1, <1>2, <1>3, <1>4, <1>5, OrderCall, OrderMaintenance DEF Next

-----------------------------------------------------------------------------
(* The primary domain *)

LEMMA NextPrimary == TypeOK /\ PrimaryIsActive /\ [Next]_vars => PrimaryIsActive'
<1> SUFFICES ASSUME TypeOK, PrimaryIsActive, [Next]_vars
             PROVE  PrimaryIsActive'
  OBVIOUS
<1>1. CASE UNCHANGED <<status, primary>>
  BY <1>1 DEF PrimaryIsActive
<1>2. ASSUME NEW k \in Claims, NEW b \in Businesses, NEW h \in Hosts, Add(k, b, h)
      PROVE  PrimaryIsActive'
  BY <1>2 DEF TypeOK, PrimaryIsActive, Add, Expired
<1>3. ASSUME NEW k \in Claims, Remove(k)
      PROVE  PrimaryIsActive'
  BY <1>3 DEF TypeOK, PrimaryIsActive, Remove
<1>4. ASSUME NEW c \in Callers, Commit(c)
      PROVE  PrimaryIsActive'
  <2>1. PICK k \in Claims :
          /\ status' = [status EXCEPT ![k] = StatusAfter(c)]
          /\ primary' = Set(k, primary, k \in primary /\ StaysPrimary(k, found[c] = "proof"))
    BY <1>4 DEF TypeOK, Commit
  <2>2. k \in primary' => status'[k] = "active"
    BY <2>1 DEF TypeOK, Set, StaysPrimary, StatusAfter
  <2>3. \A j \in primary' \ {k} : j \in primary /\ status'[j] = status[j]
    BY <2>1 DEF TypeOK, Set
  <2>4. QED
    BY <2>2, <2>3 DEF PrimaryIsActive
<1>5. ASSUME NEW c \in Callers, Select(c)
      PROVE  PrimaryIsActive'
  BY <1>5 DEF TypeOK, PrimaryIsActive, Select, Ready
<1>6. ASSUME NEW c \in Callers, Lookup(c) \/ Conflict(c) \/ Probe(c)
      PROVE  UNCHANGED <<status, primary>>
  BY <1>6 DEF Lookup, Conflict, Probe, rowVars
<1>7. ASSUME NEW c \in Callers, NEW k \in Claims, Verify(c, k) \/ Choose(c, k)
      PROVE  UNCHANGED <<status, primary>>
  BY <1>7 DEF Verify, Choose, rowVars
<1>8. ASSUME NEW p \in Processes,
             Sweep(p) \/ Crash(p) \/ \E c \in Callers : Take(c, p)
      PROVE  UNCHANGED <<status, primary>>
  BY <1>8 DEF Sweep, Crash, Take, rowVars
<1>9. ASSUME NEW k \in Claims, Publish(k) \/ Lapse(k) \/ Age(k) \/ FallDue(k)
      PROVE  UNCHANGED <<status, primary>>
  BY <1>9 DEF Publish, Lapse, Age, FallDue, rowVars
<1>10. (\E b \in Businesses : Suspend(b)) \/ UNCHANGED vars => UNCHANGED <<status, primary>>
  BY DEF Suspend, vars, rowVars
<1>11. QED
  BY <1>1, <1>2, <1>3, <1>4, <1>5, <1>6, <1>7, <1>8, <1>9, <1>10 DEF Next, Check

-----------------------------------------------------------------------------
(* Rows that were verified *)

\* Steps that verify nothing and leave what callers read as it is.
LEMMA VerifiedKept ==
  ASSUME VerifiedInv, verified' \subseteq verified,
         \A k \in verified' : status'[k] = status[k],
         \A c \in Callers : pc'[c] \in {"lookup", "commit"} =>
           /\ pc[c] \in {"lookup", "commit"}
           /\ before'[c] = before[c] /\ claim'[c] = claim[c]
           /\ c \in changed => c \in changed'
  PROVE  VerifiedInv'
BY DEF VerifiedInv

\* A call that ends, and writes nothing.
LEMMA VerifiedFreed ==
  ASSUME TypeOK, VerifiedInv, NEW c \in Callers, Free(c),
         UNCHANGED <<verified, status>>, changed \ {c} \subseteq changed'
  PROVE  VerifiedInv'
<1>1. /\ pc'[c] = "idle"
      /\ \A d \in Callers : d # c =>
           pc'[d] = pc[d] /\ before'[d] = before[d] /\ claim'[d] = claim[d]
  BY DEF TypeOK, Free
<1>2. QED
  BY <1>1, VerifiedKept

\* A call that begins reads the status of its row.
LEMMA VerifiedBegun ==
  ASSUME TypeOK, VerifiedInv, NEW c \in Callers, NEW k \in Claims, NEW p, NEW who,
         Begin(c, k, p, who), UNCHANGED <<verified, status>>
  PROVE  VerifiedInv'
<1>1. /\ before'[c] = status[k] /\ claim'[c] = k
      /\ \A d \in Callers : d # c =>
           /\ pc'[d] = pc[d] /\ before'[d] = before[d] /\ claim'[d] = claim[d]
           /\ d \in changed => d \in changed'
  BY DEF TypeOK, Begin
<1>2. QED
  BY <1>1 DEF VerifiedInv

LEMMA VerifiedCommit ==
  ASSUME TypeOK, VerifiedInv, NEW c \in Callers, Commit(c)
  PROVE  VerifiedInv'
<1> DEFINE k == claim[c]
<1>1. /\ pc[c] = "commit" /\ c \notin changed /\ k \in Claims /\ Free(c)
      /\ status' = [status EXCEPT ![k] = StatusAfter(c)]
      /\ verified' = IF found[c] = "proof" THEN verified \cup {k} ELSE verified
      /\ changed' = (changed \cup Reading({k})) \ {c}
  BY DEF TypeOK, Commit, SameVersion
<1>2. \A j \in verified' : status'[j] \in {"active", "disconnected"}
  <2>1. k \in verified' => status'[k] \in {"active", "disconnected"}
    BY <1>1 DEF TypeOK, VerifiedInv, StatusAfter
  <2>2. QED
    BY <1>1, <2>1 DEF TypeOK, VerifiedInv
<1>3. /\ pc'[c] = "idle"
      /\ \A d \in Callers : d # c =>
           pc'[d] = pc[d] /\ before'[d] = before[d] /\ claim'[d] = claim[d]
  BY <1>1 DEF TypeOK, Free
<1>4. ASSUME NEW d \in Callers, pc'[d] \in {"lookup", "commit"},
             before'[d] = "pending", claim'[d] \in verified'
      PROVE  d \in changed'
  BY <1>1, <1>3, <1>4 DEF VerifiedInv, Reading
<1>5. QED
  BY <1>2, <1>4 DEF VerifiedInv

LEMMA NextVerified == TypeOK /\ VerifiedInv /\ [Next]_vars => VerifiedInv'
<1> SUFFICES ASSUME TypeOK, VerifiedInv, [Next]_vars
             PROVE  VerifiedInv'
  OBVIOUS
<1>1. ASSUME NEW k \in Claims, NEW b \in Businesses, NEW h \in Hosts, Add(k, b, h)
      PROVE  VerifiedInv'
  <2>1. /\ verified' \subseteq verified /\ changed \subseteq changed'
        /\ \A j \in verified' : status'[j] = status[j]
    BY <1>1 DEF TypeOK, VerifiedInv, Add, Expired, Touch
  <2>2. QED
    BY <1>1, <2>1, VerifiedKept DEF Add, callVars
<1>2. ASSUME NEW k \in Claims, Remove(k)
      PROVE  VerifiedInv'
  <2>1. /\ verified' \subseteq verified /\ changed \subseteq changed'
        /\ \A j \in verified' : status'[j] = status[j]
    BY <1>2 DEF TypeOK, Remove, Touch
  <2>2. QED
    BY <1>2, <2>1, VerifiedKept DEF Remove, callVars
<1>3. ASSUME NEW c \in Callers, NEW k \in Claims, Verify(c, k) \/ Choose(c, k)
      PROVE  VerifiedInv'
  BY <1>3, VerifiedBegun DEF Verify, Choose, rowVars
<1>4. ASSUME NEW c \in Callers, Lookup(c) \/ Conflict(c) \/ Probe(c) \/ Select(c)
      PROVE  VerifiedInv'
  <2>1. CASE Fail(c)
    BY <1>4, <2>1, VerifiedFreed
       DEF Fail, Lookup, Conflict, Probe, Select, rowVars
  <2>2. CASE Select(c)
    BY <2>2, VerifiedFreed DEF Select
  <2>3. CASE Lookup(c) /\ ~Fail(c)
    <3>1. /\ pc[c] = "lookup" /\ pc' = [pc EXCEPT ![c] = "commit"]
          /\ UNCHANGED <<claim, before, changed, status, verified>>
      BY <2>3 DEF Lookup, rowVars
    <3>2. QED
      BY <3>1, VerifiedKept DEF TypeOK
  <2>4. CASE Probe(c) /\ ~Fail(c)
    <3>1. /\ pc' = [pc EXCEPT ![c] = "select"]
          /\ UNCHANGED <<claim, before, changed, status, verified>>
      BY <2>4 DEF Probe, rowVars
    <3>2. QED
      BY <3>1, VerifiedKept DEF TypeOK
  <2>5. QED
    BY <1>4, <2>1, <2>2, <2>3, <2>4 DEF Conflict
<1>5. ASSUME NEW p \in Processes, Sweep(p)
      PROVE  VerifiedInv'
  <2>1. changed \subseteq changed' /\ UNCHANGED <<status, verified>>
    BY <1>5 DEF Sweep, Touch
  <2>2. QED
    BY <1>5, <2>1, VerifiedKept DEF Sweep, callVars
<1>6. ASSUME NEW p \in Processes, Crash(p)
      PROVE  VerifiedInv'
  <2>1. PICK mine \in SUBSET Callers :
          /\ pc' = [c \in Callers |-> IF c \in mine THEN "idle" ELSE pc[c]]
          /\ claim' = [c \in Callers |-> IF c \in mine THEN Someone ELSE claim[c]]
          /\ before' = [c \in Callers |-> IF c \in mine THEN "pending" ELSE before[c]]
          /\ changed' = changed \ mine
    BY <1>6 DEF Crash
  <2>2. UNCHANGED <<status, verified>>
    BY <1>6 DEF Crash, rowVars
  <2>3. QED
    BY <2>1, <2>2, VerifiedKept
<1>7. ASSUME NEW c \in Callers, NEW p \in Processes, Take(c, p)
      PROVE  VerifiedInv'
  <2>1. UNCHANGED <<status, verified>>
    BY <1>7 DEF Take, rowVars
  <2>2. PICK k \in queue[p] :
          IF Checkable(k) THEN Begin(c, k, "lookup", p)
          ELSE pc[c] = "idle" /\ UNCHANGED <<callVars, changed>>
    BY <1>7 DEF Take
  <2>3. CASE Checkable(k)
    BY <2>1, <2>2, <2>3, VerifiedBegun DEF TypeOK
  <2>4. CASE ~Checkable(k)
    BY <2>1, <2>2, <2>4, VerifiedKept DEF callVars
  <2>5. QED
    BY <2>3, <2>4
<1>8. ASSUME NEW k \in Claims, Publish(k) \/ Lapse(k) \/ Age(k) \/ FallDue(k)
      PROVE  VerifiedInv'
  BY <1>8, VerifiedKept DEF Publish, Lapse, Age, FallDue, rowVars, callVars
<1>9. CASE (\E b \in Businesses : Suspend(b)) \/ UNCHANGED vars
  BY <1>9, VerifiedKept DEF Suspend, vars, rowVars, callVars
<1>10. QED
  BY <1>1, <1>2, <1>3, <1>4, <1>5, <1>6, <1>7, <1>8, <1>9, VerifiedCommit
  DEF Next, Check

-----------------------------------------------------------------------------
\* The inductive invariant: types, what overlapping checks know of one another,
\* the selection, and the rows that were verified.
THEOREM DomainsInvariant == Spec => []DomainsInv
<1>1. Init => DomainsInv
  <2>1. Init => OrderInv /\ PrimaryIsActive /\ VerifiedInv
    BY DEF Init, OrderInv, PrimaryIsActive, VerifiedInv
  <2>2. QED
    BY <2>1, InitType DEF DomainsInv
<1>2. DomainsInv /\ [Next]_vars => DomainsInv'
  BY NextType, NextOrder, NextPrimary, NextVerified DEF DomainsInv
<1>3. QED
  BY <1>1, <1>2, PTL DEF Spec

\* The state of the custom domains keeps its types (domains.service.ts).
THEOREM TypeCorrect == Spec => []TypeOK
BY DomainsInvariant, PTL DEF DomainsInv

\* The constraint domain_primary_active never fails a transaction
\* (92_business_domains.sql).
THEOREM PrimariesAreActive == Spec => []PrimaryIsActive
BY DomainsInvariant, PTL DEF DomainsInv

\* However many checks of a domain run at once, none writes its result over
\* that of a later lookup (verify).
THEOREM NewerResultsStay == Spec => NewerResultStays
<1>1. DomainsInv /\ [Next]_vars =>
        [\A c \in Callers :
           c \in overtaken /\ pc[c] = "commit" /\ pc'[c] = "idle" =>
             UNCHANGED <<status, leased, primary>>]_vars
  <2> SUFFICES ASSUME TypeOK, OrderInv, Next, NEW c \in Callers,
                      c \in overtaken, pc[c] = "commit", pc'[c] = "idle"
               PROVE  UNCHANGED <<status, leased, primary>>
    BY DEF DomainsInv
  <2>1. c \in changed
    BY DEF OrderInv
  <2>2. ASSUME NEW d \in Callers, Commit(d) \/ Select(d)
        PROVE  FALSE
    <3>1. d # c
      BY <2>1, <2>2 DEF Commit, SameVersion, Select
    <3>2. Free(d)
      BY <2>2 DEF Commit, Select
    <3>3. pc'[c] = pc[c]
      BY <3>1, <3>2 DEF TypeOK, Free
    <3>4. QED
      BY <3>3
  <2>3. ASSUME NEW d \in Callers, Lookup(d) \/ Conflict(d) \/ Probe(d)
        PROVE  UNCHANGED <<status, leased, primary>>
    BY <2>3 DEF Lookup, Conflict, Probe, rowVars
  <2>4. ASSUME NEW d \in Callers, NEW k \in Claims, Verify(d, k) \/ Choose(d, k)
        PROVE  UNCHANGED <<status, leased, primary>>
    BY <2>4 DEF Verify, Choose, rowVars
  <2>5. ASSUME NEW p \in Processes, Sweep(p) \/ Crash(p) \/ \E d \in Callers : Take(d, p)
        PROVE  UNCHANGED <<status, leased, primary>>
    BY <2>5 DEF Sweep, Crash, Take, rowVars
  <2>6. ASSUME NEW k \in Claims,
               \/ Remove(k) \/ Publish(k) \/ Lapse(k) \/ Age(k) \/ FallDue(k)
               \/ \E b \in Businesses, h \in Hosts : Add(k, b, h)
        PROVE  FALSE
    BY <2>6 DEF Remove, Publish, Lapse, Age, FallDue, Add, callVars
  <2>7. ASSUME NEW b \in Businesses, Suspend(b)
        PROVE  FALSE
    BY <2>7 DEF Suspend, callVars
  <2>8. QED
    BY <2>2, <2>3, <2>4, <2>5, <2>6, <2>7 DEF Next, Check
<1>2. QED
  BY <1>1, DomainsInvariant, PTL DEF Spec, NewerResultStays

\* No check, however late, brings a selection back: only an administrator
\* makes a domain the address of its business (verify, primary).
THEOREM SelectionsAreNotRestored == Spec => SelectionNotRestored
<1>1. TypeOK /\ [Next]_vars =>
        [\A k \in Claims : ~Selected(k) /\ Selected(k)' =>
           \E c \in Callers : pc[c] = "select" /\ claim[c] = k]_vars
  <2> SUFFICES ASSUME TypeOK, Next, NEW k \in Claims, ~Selected(k), Selected(k)'
               PROVE  \E c \in Callers : pc[c] = "select" /\ claim[c] = k
    OBVIOUS
  <2>1. ASSUME UNCHANGED <<status, primary>>, leased' \subseteq leased
        PROVE  FALSE
    BY <2>1 DEF Selected
  <2>2. ASSUME NEW j \in Claims, NEW b \in Businesses, NEW h \in Hosts, Add(j, b, h)
        PROVE  FALSE
    BY <2>2 DEF TypeOK, Selected, Add
  <2>3. ASSUME NEW j \in Claims, Remove(j)
        PROVE  FALSE
    BY <2>3 DEF TypeOK, Selected, Remove
  <2>4. ASSUME NEW c \in Callers, Commit(c)
        PROVE  FALSE
    <3>1. PICK j \in Claims :
            /\ status' = [status EXCEPT ![j] = StatusAfter(c)]
            /\ leased' = Set(j, leased, found[c] = "proof")
            /\ primary' = Set(j, primary, j \in primary /\ StaysPrimary(j, found[c] = "proof"))
      BY <2>4 DEF TypeOK, Commit
    <3>2. CASE j = k
      BY <3>1, <3>2 DEF TypeOK, Selected, Set, StaysPrimary
    <3>3. CASE j # k
      BY <3>1, <3>3 DEF TypeOK, Selected, Set
    <3>4. QED
      BY <3>2, <3>3
  <2>5. ASSUME NEW c \in Callers, Select(c)
        PROVE  pc[c] = "select" /\ claim[c] = k
    BY <2>5 DEF Select, Selected
  <2>6. ASSUME NEW c \in Callers, Lookup(c) \/ Conflict(c) \/ Probe(c)
        PROVE  FALSE
    BY <2>1, <2>6 DEF Lookup, Conflict, Probe, rowVars
  <2>7. ASSUME NEW c \in Callers, NEW j \in Claims, Verify(c, j) \/ Choose(c, j)
        PROVE  FALSE
    BY <2>1, <2>7 DEF Verify, Choose, rowVars
  <2>8. ASSUME NEW p \in Processes, Sweep(p) \/ Crash(p) \/ \E c \in Callers : Take(c, p)
        PROVE  FALSE
    BY <2>1, <2>8 DEF Sweep, Crash, Take, rowVars
  <2>9. ASSUME NEW j \in Claims, Publish(j) \/ Lapse(j) \/ Age(j) \/ FallDue(j)
        PROVE  FALSE
    BY <2>1, <2>9 DEF Publish, Lapse, Age, FallDue, rowVars
  <2>10. ASSUME NEW b \in Businesses, Suspend(b)
         PROVE  FALSE
    BY <2>1, <2>10 DEF Suspend, rowVars
  <2>11. QED
    BY <2>2, <2>3, <2>4, <2>5, <2>6, <2>7, <2>8, <2>9, <2>10 DEF Next, Check
<1>2. QED
  BY <1>1, TypeCorrect, PTL DEF Spec, SelectionNotRestored

\* No claim takes a hostname away that was verified once, whatever checks are in
\* flight and however late they end (verify, add).
THEOREM VerifiedAreNotReleased == Spec => VerifiedNotReleased
<1>1. TypeOK /\ VerifiedInv /\ [Next]_vars =>
        [\A j \in verified : status'[j] = "removed" =>
           \A k \in Claims : status[k] = "absent" => status'[k] = "absent"]_vars
  <2> SUFFICES ASSUME TypeOK, VerifiedInv, Next, NEW j \in verified, NEW k \in Claims,
                      status'[j] = "removed", status[k] = "absent"
               PROVE  status'[k] = "absent"
    OBVIOUS
  <2>0. j \in Claims /\ status[j] \in {"active", "disconnected"}
    BY DEF TypeOK, VerifiedInv
  <2>1. status' # status
    BY <2>0
  <2>2. ASSUME NEW i \in Claims, NEW b \in Businesses, NEW h \in Hosts, Add(i, b, h)
        PROVE  FALSE
    BY <2>0, <2>2 DEF TypeOK, Add, Expired
  <2>3. ASSUME NEW i \in Claims, Remove(i)
        PROVE  status'[k] = "absent"
    BY <2>3 DEF TypeOK, Remove, Kept
  <2>4. ASSUME NEW c \in Callers, Commit(c)
        PROVE  FALSE
    BY <2>0, <2>4 DEF TypeOK, Commit, StatusAfter
  <2>5. ASSUME NEW c \in Callers, Select(c) \/ Lookup(c) \/ Conflict(c) \/ Probe(c)
        PROVE  FALSE
    BY <2>1, <2>5 DEF Select, Lookup, Conflict, Probe, rowVars
  <2>6. ASSUME NEW c \in Callers, NEW i \in Claims, Verify(c, i) \/ Choose(c, i)
        PROVE  FALSE
    BY <2>1, <2>6 DEF Verify, Choose, rowVars
  <2>7. ASSUME NEW p \in Processes, Sweep(p) \/ Crash(p) \/ \E c \in Callers : Take(c, p)
        PROVE  FALSE
    BY <2>1, <2>7 DEF Sweep, Crash, Take, rowVars
  <2>8. ASSUME NEW i \in Claims, Publish(i) \/ Lapse(i) \/ Age(i) \/ FallDue(i)
        PROVE  FALSE
    BY <2>1, <2>8 DEF Publish, Lapse, Age, FallDue, rowVars
  <2>9. ASSUME NEW b \in Businesses, Suspend(b)
        PROVE  FALSE
    BY <2>1, <2>9 DEF Suspend, rowVars
  <2>10. QED
    BY <2>2, <2>3, <2>4, <2>5, <2>6, <2>7, <2>8, <2>9 DEF Next, Check
<1>2. QED
  BY <1>1, DomainsInvariant, PTL DEF Spec, VerifiedNotReleased, DomainsInv
=============================================================================
