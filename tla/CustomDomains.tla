---------------------------- MODULE CustomDomains ----------------------------
(***************************************************************************)
(* Custom domains: rows of business_domains, and the operations of         *)
(* backend/src/domains/domains.service.ts on them.  A check of a domain    *)
(* reads its row, asks the DNS outside any transaction, and then writes    *)
(* the result if the row has not changed meanwhile (its xmin); making a    *)
(* domain primary does the same around an HTTPS probe.  Administrators'    *)
(* requests and the maintenance of every process do so at the same time.   *)
(*                                                                         *)
(* Time is not counted: a lease runs out, a claim grows old and a row falls *)
(* due at any moment.                                                      *)
(***************************************************************************)
EXTENDS Integers, FiniteSets

CONSTANTS
  Claims,       \* rows of business_domains (an id is used once)
  Businesses,
  Hosts,
  Callers,      \* checks and probes in progress
  Processes,    \* backend processes, each with its maintenance timer
  Manual,       \* the caller works for an administrator, not for a process
  Batch,        \* rows one maintenance run claims
  Prompt,       \* is a batch always checked before its rows fall due again?
  MaxOutages    \* bound on DNS failures and crashes

ASSUME DomainsAssumption ==
  /\ IsFiniteSet(Claims) /\ IsFiniteSet(Callers)
  /\ Claims # {} /\ Businesses # {} /\ Hosts # {}
  /\ Manual \notin Processes
  /\ Batch \in Nat \ {0}
  /\ Prompt \in BOOLEAN
  /\ MaxOutages \in Nat

VARIABLES
  active,    \* businesses that are active
  owner,     \* business_id of each row
  host,      \* hostname of each row
  status,    \* status column; "absent" before the insert, "removed" after
  leased,    \* rows with valid_until > now()
  primary,   \* rows with is_primary
  old,       \* rows created more than seven days ago
  due,       \* rows whose checked_at lies back far enough for a recheck
  proven,    \* rows in place whose DNS records are right (the outside world)
  pc,        \* where each caller is
  claim,     \* the row it works on
  server,    \* for whom: Manual, or the process whose maintenance it is
  changed,   \* callers whose row was written since they read it (its xmin)
  before,    \* status of the row as the caller read it
  found,     \* what the DNS told the caller
  later,     \* callers whose lookup of the same row came after this one's
  overtaken, \* callers of whose row a later lookup has been written
  verified,  \* rows a proof was written to since they were added
  queue,     \* rows a process claimed and has not begun to check
  outages    \* DNS failures and crashes so far

rowVars == <<owner, host, status, leased, primary, old, due>>
callVars == <<pc, claim, server, before, found, later, overtaken>>
vars == <<active, rowVars, proven, callVars, changed, verified, queue, outages>>

Kept == {"pending", "active", "disconnected"}

TypeOK ==
  /\ active \subseteq Businesses
  /\ owner \in [Claims -> Businesses]
  /\ host \in [Claims -> Hosts]
  /\ status \in [Claims -> {"absent", "removed"} \cup Kept]
  /\ leased \subseteq Claims /\ primary \subseteq Claims
  /\ old \subseteq Claims /\ due \subseteq Claims
  /\ proven \subseteq Claims
  /\ pc \in [Callers -> {"idle", "lookup", "commit", "probe", "select"}]
  /\ claim \in [Callers -> Claims]
  /\ server \in [Callers -> Processes \cup {Manual}]
  /\ changed \subseteq Callers
  /\ before \in [Callers -> Kept]
  /\ found \in [Callers -> {"nothing", "proof", "failure"}]
  /\ later \in [Callers -> SUBSET Callers]
  /\ overtaken \subseteq Callers
  /\ verified \subseteq Claims
  /\ queue \in [Processes -> SUBSET Claims]
  /\ outages \in Nat

\* What a variable holds while it means nothing: the owner and the host of a
\* row that is not there, the row of an idle caller.
Someone == CHOOSE c \in Claims : TRUE
Anyone == CHOOSE b \in Businesses : TRUE
Anywhere == CHOOSE h \in Hosts : TRUE

Init ==
  /\ active = Businesses
  /\ owner = [k \in Claims |-> Anyone]
  /\ host = [k \in Claims |-> Anywhere]
  /\ status = [k \in Claims |-> "absent"]
  /\ leased = {} /\ primary = {} /\ old = {} /\ due = {}
  /\ proven = {}
  /\ pc = [c \in Callers |-> "idle"]
  /\ claim = [c \in Callers |-> Someone]
  /\ server = [c \in Callers |-> Manual]
  /\ changed = {}
  /\ before = [c \in Callers |-> "pending"]
  /\ found = [c \in Callers |-> "nothing"]
  /\ later = [c \in Callers |-> {}]
  /\ overtaken = {}
  /\ verified = {}
  /\ queue = [p \in Processes |-> {}]
  /\ outages = 0

-----------------------------------------------------------------------------
(* Rows *)

Kin(k) == {j \in Claims : status[j] \in Kept /\ owner[j] = owner[k]}

\* A row of an active business.
Of(k) == status[k] \in Kept /\ owner[k] \in active

\* Does this row name the address its business is served at (resolve)?
Selected(k) == k \in primary /\ k \in leased /\ status[k] = "active"

Reading(rows) == {c \in Callers : pc[c] # "idle" /\ claim[c] \in rows}

\* Every write gives the rows a new xmin.
Touch(rows) == changed' = changed \cup Reading(rows)

Free(c) ==
  /\ pc' = [pc EXCEPT ![c] = "idle"]
  /\ claim' = [claim EXCEPT ![c] = Someone]
  /\ server' = [server EXCEPT ![c] = Manual]
  /\ before' = [before EXCEPT ![c] = "pending"]
  /\ found' = [found EXCEPT ![c] = "nothing"]
  /\ later' = [d \in Callers |-> IF d = c THEN {} ELSE later[d] \ {c}]

\* The call ends without having written anything.
Fail(c) ==
  /\ Free(c)
  /\ changed' = changed \ {c}
  /\ overtaken' = overtaken \ {c}

Begin(c, k, p, who) ==
  /\ pc[c] = "idle"
  /\ pc' = [pc EXCEPT ![c] = p]
  /\ claim' = [claim EXCEPT ![c] = k]
  /\ server' = [server EXCEPT ![c] = who]
  /\ before' = [before EXCEPT ![c] = status[k]]
  /\ changed' = changed \ {c}
  /\ UNCHANGED <<found, later, overtaken>>

-----------------------------------------------------------------------------
(* Adding and removing *)

\* An unverified claim older than seven days gives the hostname up; the
\* hostname must then be free, and the business without a domain.
Expired(h) == {j \in old : host[j] = h /\ status[j] = "pending"}

Add(k, b, h) ==
  LET expired == Expired(h)
      others == {j \in Claims \ expired : status[j] \in Kept}
  IN  /\ status[k] = "absent" /\ b \in active
      /\ \A j \in others : owner[j] # b /\ host[j] # h
      /\ status' = [j \in Claims |-> IF j = k THEN "pending"
                      ELSE IF j \in expired THEN "removed" ELSE status[j]]
      /\ owner' = [j \in Claims |-> IF j = k THEN b
                     ELSE IF j \in expired THEN Anyone ELSE owner[j]]
      /\ host' = [j \in Claims |-> IF j = k THEN h
                    ELSE IF j \in expired THEN Anywhere ELSE host[j]]
      /\ due' = (due \ expired) \cup {k}
      /\ old' = old \ expired
      /\ proven' = proven \ expired
      /\ verified' = verified \ expired
      /\ Touch(expired)
      /\ UNCHANGED <<active, leased, primary, callVars, queue, outages>>

Remove(k) ==
  /\ status[k] \in Kept
  /\ status' = [status EXCEPT ![k] = "removed"]
  /\ owner' = [owner EXCEPT ![k] = Anyone]
  /\ host' = [host EXCEPT ![k] = Anywhere]
  /\ proven' = proven \ {k}
  /\ leased' = leased \ {k} /\ primary' = primary \ {k}
  /\ old' = old \ {k} /\ due' = due \ {k}
  /\ verified' = verified \ {k}
  /\ Touch({k})
  /\ UNCHANGED <<active, callVars, queue, outages>>

-----------------------------------------------------------------------------
(* Checking: verify *)

Checkable(k) == Of(k) /\ ~(status[k] = "pending" /\ k \in old)

Verify(c, k) ==
  /\ Checkable(k)
  /\ Begin(c, k, "lookup", Manual)
  /\ UNCHANGED <<active, rowVars, proven, queue, outages, verified>>

\* The DNS answers as it is now, or not at all: then nothing is written.
Lookup(c) ==
  /\ pc[c] = "lookup"
  /\ \/ /\ found' = [found EXCEPT ![c] =
             IF claim[c] \in proven THEN "proof" ELSE "failure"]
        /\ later' = [d \in Callers |->
             IF pc[d] = "commit" /\ claim[d] = claim[c] THEN later[d] \cup {c}
             ELSE later[d]]
        /\ pc' = [pc EXCEPT ![c] = "commit"]
        /\ UNCHANGED <<claim, server, before, overtaken, changed, outages>>
     \/ /\ outages < MaxOutages /\ outages' = outages + 1
        /\ Fail(c)
  /\ UNCHANGED <<active, rowVars, proven, queue, verified>>

\* Is the row still as the caller read it?
AnyVersion(c) == Of(claim[c])
SameVersion(c) == Of(claim[c]) /\ c \notin changed

PrimaryWhateverLease(k, proof) == proof
\* A proof keeps the selection only while the previous lease lasts.
StaysPrimary(k, proof) == proof /\ status[k] = "active" /\ k \in leased

StatusAfter(c) ==
  IF found[c] = "proof" THEN "active"
  ELSE IF before[c] = "pending" THEN "pending" ELSE "disconnected"

Set(k, rows, in) == IF in THEN rows \cup {k} ELSE rows \ {k}

Commit(c) ==
  LET k == claim[c]
      proof == found[c] = "proof"
  IN  /\ pc[c] = "commit" /\ SameVersion(c)
      /\ status' = [status EXCEPT ![k] = StatusAfter(c)]
      /\ leased' = Set(k, leased, proof)
      /\ primary' = Set(k, primary, k \in primary /\ StaysPrimary(k, proof))
      /\ due' = due \ {k}
      /\ verified' = IF proof THEN verified \cup {k} ELSE verified
      /\ changed' = (changed \cup Reading({k})) \ {c}
      /\ overtaken' = (overtaken \cup {d \in Callers : c \in later[d]}) \ {c}
      /\ Free(c)
      /\ UNCHANGED <<active, owner, host, old, proven, queue, outages>>

Conflict(c) ==
  /\ pc[c] = "commit" /\ ~SameVersion(c)
  /\ Fail(c)
  /\ UNCHANGED <<active, rowVars, proven, queue, outages, verified>>

-----------------------------------------------------------------------------
(* Selecting: primary *)

Ready(k) == Of(k) /\ status[k] = "active" /\ k \in leased

Choose(c, k) ==
  /\ Ready(k)
  /\ Begin(c, k, "probe", Manual)
  /\ UNCHANGED <<active, rowVars, proven, queue, outages, verified>>

\* The certificate is in order, or the call fails.
Probe(c) ==
  /\ pc[c] = "probe"
  /\ \/ /\ pc' = [pc EXCEPT ![c] = "select"]
        /\ UNCHANGED <<claim, server, before, found, later, overtaken,
                       changed>>
     \/ Fail(c)
  /\ UNCHANGED <<active, rowVars, proven, queue, outages, verified>>

Select(c) ==
  LET k == claim[c] IN
  /\ pc[c] = "select"
  /\ IF Ready(k)
       THEN /\ primary' = (primary \ Kin(k)) \cup {k}
            /\ changed' = (changed \cup Reading({k} \cup (primary \cap Kin(k)))) \ {c}
       ELSE UNCHANGED primary /\ changed' = changed \ {c}
  /\ Free(c)
  /\ UNCHANGED overtaken
  /\ UNCHANGED <<active, owner, host, status, leased, old, due, proven, queue,
                 outages, verified>>

-----------------------------------------------------------------------------
(* Maintenance: recheck *)

Rechecking(p) == queue[p] # {} \/ \E c \in Callers : pc[c] # "idle" /\ server[c] = p

OverdueConnected ==
  {k \in due : Checkable(k) /\ status[k] # "disconnected"}
Overdue == {k \in due : Checkable(k)}

\* One statement claims a batch for this process and stamps it checked.
Sweep(p) ==
  /\ ~Rechecking(p)
  /\ \E rows \in SUBSET Overdue :
       /\ rows # {}
       /\ Cardinality(rows) <= Batch
       /\ Cardinality(rows) = Batch \/ rows = Overdue
       /\ queue' = [queue EXCEPT ![p] = rows]
       /\ due' = due \ rows
       /\ Touch(rows)
  /\ UNCHANGED <<active, owner, host, status, leased, primary, old, proven,
                 callVars, outages, verified>>

\* Up to five workers of the process take rows from the batch.  A row that can
\* no longer be checked is dropped with a warning.
Take(c, p) ==
  /\ \E k \in queue[p] :
       /\ queue' = [queue EXCEPT ![p] = @ \ {k}]
       /\ IF Checkable(k) THEN Begin(c, k, "lookup", p)
          ELSE pc[c] = "idle" /\ UNCHANGED <<callVars, changed>>
  /\ UNCHANGED <<active, rowVars, proven, outages, verified>>

\* A process dies: its calls and its batch are gone.
Crash(p) ==
  LET mine == {c \in Callers : pc[c] # "idle" /\ server[c] = p} IN
  /\ Rechecking(p)
  /\ outages < MaxOutages /\ outages' = outages + 1
  /\ queue' = [queue EXCEPT ![p] = {}]
  /\ pc' = [c \in Callers |-> IF c \in mine THEN "idle" ELSE pc[c]]
  /\ claim' = [c \in Callers |-> IF c \in mine THEN Someone ELSE claim[c]]
  /\ server' = [c \in Callers |-> IF c \in mine THEN Manual ELSE server[c]]
  /\ before' = [c \in Callers |-> IF c \in mine THEN "pending" ELSE before[c]]
  /\ found' = [c \in Callers |-> IF c \in mine THEN "nothing" ELSE found[c]]
  /\ later' = [c \in Callers |-> IF c \in mine THEN {} ELSE later[c] \ mine]
  /\ changed' = changed \ mine
  /\ overtaken' = overtaken \ mine
  /\ UNCHANGED <<active, rowVars, proven, verified>>

-----------------------------------------------------------------------------
(* The world outside *)

\* Records appear and disappear, for the domains somebody claimed.
Publish(k) ==
  /\ status[k] \in Kept
  /\ proven' = IF k \in proven THEN proven \ {k} ELSE proven \cup {k}
  /\ UNCHANGED <<active, rowVars, callVars, changed, queue, outages, verified>>

Suspend(b) ==
  /\ active' = IF b \in active THEN active \ {b} ELSE active \cup {b}
  /\ UNCHANGED <<rowVars, proven, callVars, changed, queue, outages, verified>>

\* Time: a lease runs out, a claim grows old, a row falls due.
Lapse(k) ==
  /\ k \in leased
  /\ leased' = leased \ {k}
  /\ UNCHANGED <<active, owner, host, status, primary, old, due, proven,
                 callVars, changed, queue, outages, verified>>

Age(k) ==
  /\ status[k] = "pending" /\ k \notin old
  /\ old' = old \cup {k}
  /\ UNCHANGED <<active, owner, host, status, leased, primary, due, proven,
                 callVars, changed, queue, outages, verified>>

FallDue(k) ==
  /\ status[k] \in Kept /\ k \notin due
  /\ Prompt => Reading({k}) = {} /\ \A p \in Processes : k \notin queue[p]
  /\ due' = due \cup {k}
  /\ UNCHANGED <<active, owner, host, status, leased, primary, old, proven,
                 callVars, changed, queue, outages, verified>>

-----------------------------------------------------------------------------
Check(c) == Lookup(c) \/ Commit(c) \/ Conflict(c) \/ Probe(c) \/ Select(c)

Next ==
  \/ \E k \in Claims, b \in Businesses, h \in Hosts : Add(k, b, h)
  \/ \E k \in Claims : Remove(k)
  \/ \E c \in Callers, k \in Claims : Verify(c, k) \/ Choose(c, k)
  \/ \E c \in Callers : Check(c)
  \/ \E p \in Processes : Sweep(p) \/ Crash(p)
  \/ \E c \in Callers, p \in Processes : Take(c, p)
  \/ \E k \in Claims : Publish(k) \/ Lapse(k) \/ Age(k) \/ FallDue(k)
  \/ \E b \in Businesses : Suspend(b)

Spec == Init /\ [][Next]_vars

\* The minute timer of every process fires, what was begun is finished, and
\* rows fall due.
Fairness ==
  /\ \A p \in Processes : WF_vars(Sweep(p))
  /\ \A p \in Processes : WF_vars(\E c \in Callers : Take(c, p))
  /\ \A c \in Callers : WF_vars(Check(c))
  /\ \A k \in Claims : WF_vars(FallDue(k))

FairSpec == Spec /\ Fairness

-----------------------------------------------------------------------------
(* Properties *)

\* The result of a lookup is never written over that of a later lookup of the
\* same domain, in whatever order the checks finish and whichever process or
\* administrator runs them (verify: "a newer check ... must invalidate this
\* result").
NewerResultStays ==
  [][\A c \in Callers :
       c \in overtaken /\ pc[c] = "commit" /\ pc'[c] = "idle" =>
         UNCHANGED <<status, leased, primary>>]_vars

\* A domain becomes the address of its business only when an administrator
\* selects it: a lease that ran out, or a domain that was disconnected, never
\* brings an old selection back when a check succeeds again (verify).
SelectionNotRestored ==
  [][\A k \in Claims : ~Selected(k) /\ Selected(k)' =>
       \E c \in Callers : pc[c] = "select" /\ claim[c] = k]_vars

\* The constraint domain_primary_active never fails a transaction: no sequence
\* of selections, lapses and failed checks leaves a primary that is not active.
PrimaryIsActive == \A k \in primary : status[k] = "active"

\* A hostname that was verified once is never given to another business that
\* adds it, however old the row is: only an explicit removal frees it.  A check
\* that read the row while it was still pending, fails and ends after the one
\* that verified it must not put it back among the claims that run out (verify,
\* add).
VerifiedNotReleased ==
  [][\A j \in verified : status'[j] = "removed" =>
       \A k \in Claims : status[k] = "absent" => status'[k] = "absent"]_vars

\* A domain whose records stay right, of a business that stays active, is
\* active with a running lease again and again, though leases lapse and
\* processes crash: maintenance neither loses a claimed row nor gives up on a
\* disconnected one (recheck).
ProvenIsRenewed ==
  \A k \in Claims :
    <>[](k \in proven /\ Checkable(k)) =>
      []<>(status[k] = "active" /\ k \in leased)
=============================================================================
