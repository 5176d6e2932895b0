------------------------------ MODULE Linktrees ------------------------------
(***************************************************************************)
(* The link pages of one business (backend/src/linktrees, links), the      *)
(* public reads of them by slug or uid (public/public.service.ts) and the  *)
(* bodies those reads keep in Redis for two hours.                         *)
(*                                                                         *)
(* A page has a uid for ever and a slug that can change; a slug may be     *)
(* another page's uid, and then the slug wins.  The contents of a page are *)
(* a version.  Dashboard calls commit first and clear the cache after it;  *)
(* approved changes and imports do not clear what visitors read.           *)
(***************************************************************************)
EXTENDS Integers, FiniteSets

CONSTANTS
  Pages,       \* rows of linktrees
  Addresses,   \* what a visitor can ask for
  Slugs,       \* those that can be a slug
  Uid,         \* the uid of each page
  Callers,     \* requests under way: visitors' and the dashboard's
  None,        \* no page, no address, no entry, nobody
  Limit,       \* limit.linktrees of the plan
  Lossy,       \* may Redis be away?
  MaxEdits,    \* bound on the versions of a page
  MaxImports   \* bound on the imports

ASSUME LinktreesAssumption ==
  /\ IsFiniteSet(Pages) /\ IsFiniteSet(Callers)
  /\ Slugs \subseteq Addresses
  /\ Uid \in [Pages -> Addresses]
  /\ None \notin Pages \cup Addresses \cup Callers
  /\ Limit \in Nat /\ MaxEdits \in Nat /\ MaxImports \in Nat
  /\ Lossy \in BOOLEAN

VARIABLES
  kept,       \* pages that are there
  default,    \* pages with is_default
  slug,       \* seo_name of each page
  inactive,   \* pages whose status is inactive
  archived,   \* pages with is_archived
  body,       \* version of the contents of each page
  lock,       \* who holds the advisory lock of the business
  cache,      \* cache:linktree:uid:<address>:sub:<subdomain>
  call,       \* what each caller is doing
  imports,    \* how many backups were imported
  shown,      \* pages that were public at its address during the call
  rivals,     \* pages that had its address as their slug all the time
  announced   \* newest version all caches of an address are rid of

pageVars == <<kept, default, slug, inactive, archived, body>>
vars == <<pageVars, lock, cache, call, imports, shown, rivals, announced>>

Entry == [page : Pages, body : 0..MaxEdits]
Points == {"idle", "get", "live", "slug", "uid", "store",
           "lock", "count", "insert", "default", "write", "delete", "clear"}
Idle == [at |-> "idle", page |-> None, addr |-> None, want |-> "none", body |-> 0]

Calls ==
  [at : Points, page : Pages \cup {None}, addr : Addresses \cup {None},
   want : {"none", "active", "inactive", "page", "default"}, body : 0..MaxEdits]

TypeOK ==
  /\ kept \subseteq Pages /\ default \subseteq kept
  /\ \A p, q \in default : p = q
  /\ inactive \subseteq kept /\ archived \subseteq kept
  /\ slug \in [Pages -> Slugs \cup {None}]
  /\ \A p, q \in kept : slug[p] \in Slugs /\ (slug[p] = slug[q] => p = q)
  /\ body \in [Pages -> 0..MaxEdits]
  /\ lock \in Callers \cup {None}
  /\ cache \in [Addresses -> Entry \cup {None}]
  /\ call \in [Callers -> Calls]
  /\ imports \in 0..MaxImports
  /\ shown \in [Callers -> SUBSET Pages] /\ rivals \in [Callers -> SUBSET Pages]
  /\ announced \in [Pages -> [Addresses -> 0..MaxEdits]]

Init ==
  /\ kept = {} /\ default = {} /\ inactive = {} /\ archived = {}
  /\ slug = [p \in Pages |-> None]
  /\ body = [p \in Pages |-> 0]
  /\ lock = None
  /\ cache = [a \in Addresses |-> None]
  /\ call = [c \in Callers |-> Idle]
  /\ imports = 0
  /\ shown = [c \in Callers |-> {}]
  /\ rivals = [c \in Callers |-> {}]
  /\ announced = [p \in Pages |-> [a \in Addresses |-> 0]]

-----------------------------------------------------------------------------
Holds(p, a) == Uid[p] = a \/ slug[p] = a
Public(p, a) == p \in kept \ (inactive \cup archived) /\ Holds(p, a)
Named(a) == {p \in kept : slug[p] = a}
Free(s) == Named(s) = {}

Start(c, at, p, a, want) ==
  /\ call[c].at = "idle"
  /\ call' = [call EXCEPT ![c] =
       [at |-> at, page |-> p, addr |-> a, want |-> want, body |-> 0]]
Goto(c, at) == call' = [call EXCEPT ![c].at = at]
Return(c) == call' = [call EXCEPT ![c] = Idle]

-----------------------------------------------------------------------------
(* A visitor *)

Visit(c, a) ==
  /\ Start(c, "get", None, a, "none")
  /\ UNCHANGED <<pageVars, lock, cache, imports, announced>>

\* redis.get
Look(c) ==
  LET a == call[c].addr IN
  /\ call[c].at = "get"
  /\ \/ /\ cache[a] # None
        /\ call' = [call EXCEPT ![c].at = "live", ![c].page = cache[a].page]
     \/ (cache[a] = None \/ Lossy) /\ Goto(c, "slug")
  /\ UNCHANGED <<pageVars, lock, cache, imports, announced>>

\* Is the cached page still the one to show here?
StillHeld(p, a) == Public(p, a)
Live(p, a) == Public(p, a) /\ Named(a) \subseteq {p}

Check(c) ==
  LET p == call[c].page  a == call[c].addr IN
  /\ call[c].at = "live"
  /\ IF Live(p, a) THEN Return(c)
     ELSE call' = [call EXCEPT ![c].at = "slug", ![c].page = None]
  /\ UNCHANGED <<pageVars, lock, cache, imports, announced>>

\* The two queries by slug and by uid.
Found(c) ==
  IF call[c].at = "slug" THEN Named(call[c].addr) \ archived
  ELSE {p \in kept \ archived : Uid[p] = call[c].addr}

Query(c) ==
  /\ call[c].at \in {"slug", "uid"}
  /\ \/ \E p \in Found(c) :
          IF p \in inactive THEN Return(c)
          ELSE call' = [call EXCEPT ![c].at = "store", ![c].page = p,
                                    ![c].body = body[p]]
     \/ Found(c) = {} /\ call[c].at = "slug" /\ Goto(c, "uid")
     \/ Found(c) = {} /\ call[c].at = "uid" /\ Return(c)
  /\ UNCHANGED <<pageVars, lock, cache, imports, announced>>

Store(c) ==
  LET entry == [page |-> call[c].page, body |-> call[c].body] IN
  /\ call[c].at = "store"
  /\ \/ cache' = [cache EXCEPT ![call[c].addr] = entry]
     \/ Lossy /\ UNCHANGED cache
  /\ Return(c)
  /\ UNCHANGED <<pageVars, lock, imports, announced>>

\* The two hours are over.
KeptForGood(a) == FALSE
Expirable(a) == cache[a] # None

Expire(a) ==
  /\ Expirable(a)
  /\ cache' = [cache EXCEPT ![a] = None]
  /\ UNCHANGED <<pageVars, lock, imports, announced, call>>

-----------------------------------------------------------------------------
(* Creating and copying *)

\* A row is inserted as active and unarchived.
Put(p, s, asDefault) ==
  /\ p \notin kept /\ slug[p] = None
  /\ kept' = kept \cup {p}
  /\ slug' = [slug EXCEPT ![p] = s]
  /\ default' = IF asDefault THEN default \cup {p} ELSE default
  /\ UNCHANGED <<inactive, archived, body>>

Create(c, s, what) ==
  /\ Free(s)
  /\ Start(c, "lock", None, s, what)
  /\ UNCHANGED <<pageVars, lock, cache, imports, announced>>

Crowding(c) == TRUE
LockFree(c) == lock = None

Lock(c) ==
  /\ call[c].at = "lock" /\ LockFree(c)
  /\ lock' = c
  /\ Goto(c, "count")
  /\ UNCHANGED <<pageVars, cache, imports, announced>>

Release(c) == lock' = IF lock = c THEN None ELSE lock

\* A second default page replaces the first in place, slug included; nothing
\* is cleared then.
Count(c) ==
  LET s == call[c].addr IN
  /\ call[c].at = "count"
  /\ IF call[c].want = "default" /\ default # {}
       THEN /\ \E d \in default :
                 \/ /\ (s = slug[d] \/ Free(s)) /\ body[d] < MaxEdits
                    /\ slug' = [slug EXCEPT ![d] = s]
                    /\ body' = [body EXCEPT ![d] = @ + 1]
                    /\ UNCHANGED <<kept, default, inactive, archived>>
                 \/ UNCHANGED pageVars
            /\ Return(c) /\ Release(c)
       ELSE /\ UNCHANGED pageVars
            /\ IF Cardinality(kept) >= Limit THEN Return(c) /\ Release(c)
               ELSE Goto(c, "insert") /\ UNCHANGED lock
  /\ UNCHANGED <<cache, imports, announced>>

\* Refused by the unique indexes if the slug or the default page was taken
\* since; a failed statement ends the transaction, too.
Insert(c, p) ==
  LET s == call[c].addr  asDefault == call[c].want = "default" IN
  /\ call[c].at = "insert"
  /\ \/ Free(s) /\ (asDefault => default = {}) /\ Put(p, s, asDefault)
     \/ UNCHANGED pageVars
  /\ Return(c) /\ Release(c)
  /\ UNCHANGED <<cache, imports, announced>>

\* The dashboard's first look: no lock and no limit.
CreateDefault(c, s) ==
  /\ default = {} /\ Free(s)
  /\ Start(c, "default", None, s, "default")
  /\ UNCHANGED <<pageVars, lock, cache, imports, announced>>

InsertDefault(c, p) ==
  LET s == call[c].addr IN
  /\ call[c].at = "default"
  /\ \/ Free(s) /\ default = {} /\ Put(p, s, TRUE)
     \/ UNCHANGED pageVars
  /\ Return(c)
  /\ UNCHANGED <<lock, cache, imports, announced>>

-----------------------------------------------------------------------------
(* Changing a page, and clearing the cache after it *)

\* An edit writes back what it read; the check of the slug comes before.
Edit(c, p, s, status) ==
  /\ p \in kept
  /\ s = slug[p] \/ Free(s)
  /\ status = "inactive" => p \notin default
  /\ Start(c, "write", p, s, status)
  /\ UNCHANGED <<pageVars, lock, cache, imports, announced>>

Write(c) ==
  LET p == call[c].page  s == call[c].addr IN
  /\ call[c].at = "write"
  /\ \/ /\ p \in kept /\ (s = slug[p] \/ Free(s)) /\ body[p] < MaxEdits
        /\ slug' = [slug EXCEPT ![p] = s]
        /\ body' = [body EXCEPT ![p] = @ + 1]
        /\ inactive' = IF call[c].want = "inactive" THEN inactive \cup {p}
                       ELSE inactive \ {p}
        /\ UNCHANGED <<kept, default, archived>>
        /\ Goto(c, "clear")
     \/ Return(c) /\ UNCHANGED pageVars
  /\ UNCHANGED <<lock, cache, imports, announced>>

\* Status, archive, campaign and links are one statement or transaction.
Change(c, p) ==
  /\ p \in kept
  /\ Start(c, "clear", p, slug[p], "none")
  /\ UNCHANGED <<kept, default, slug, lock, cache, imports, announced>>

Switch(c, p) ==
  /\ Change(c, p)
  /\ \/ p \in inactive /\ inactive' = inactive \ {p}
     \/ p \notin inactive \cup default /\ inactive' = inactive \cup {p}
  /\ UNCHANGED <<archived, body>>

Archive(c, p) ==
  /\ Change(c, p)
  /\ \/ p \in archived /\ archived' = archived \ {p}
     \/ p \notin archived \cup default /\ archived' = archived \cup {p}
  /\ UNCHANGED <<inactive, body>>

Touch(c, p) ==
  /\ Change(c, p)
  /\ body[p] < MaxEdits /\ body' = [body EXCEPT ![p] = @ + 1]
  /\ UNCHANGED <<inactive, archived>>

Remove(c, p) ==
  /\ p \in kept \ default
  /\ Start(c, "delete", p, slug[p], "none")
  /\ UNCHANGED <<pageVars, lock, cache, imports, announced>>

Gone(p) ==
  /\ kept' = kept \ {p}
  /\ default' = default \ {p}
  /\ inactive' = inactive \ {p} /\ archived' = archived \ {p}
  /\ UNCHANGED <<slug, body>>

Delete(c) ==
  /\ call[c].at = "delete"
  /\ Gone(call[c].page)
  /\ Goto(c, "clear")
  /\ UNCHANGED <<lock, cache, imports, announced>>

\* The keys of the uid and of the slug the call has written or read.
OnlyUid(c) == {Uid[call[c].page]}
Keys(c) == {Uid[call[c].page], call[c].addr}

\* A version is announced where the clearing was not overtaken by a visitor
\* who had read the page before.
Filling(p, a) ==
  \E v \in Callers : call[v].at = "store" /\ call[v].page = p /\ call[v].addr = a

Clear(c) ==
  LET p == call[c].page IN
  /\ call[c].at = "clear"
  /\ \/ /\ cache' = [a \in Addresses |-> IF a \in Keys(c) THEN None ELSE cache[a]]
        /\ announced' = [announced EXCEPT ![p] = [a \in Addresses |->
             IF a \in {Uid[p], call[c].addr} /\ ~Filling(p, a) THEN body[p] ELSE @[a]]]
     \/ Lossy /\ UNCHANGED <<cache, announced>>
  /\ Return(c)
  /\ UNCHANGED <<pageVars, lock, imports>>

-----------------------------------------------------------------------------
(* Changes by administrators, which leave visitors' cache as it is *)

ApprovedUpdate(p, s) ==
  /\ p \in kept /\ (s = slug[p] \/ Free(s)) /\ body[p] < MaxEdits
  /\ slug' = [slug EXCEPT ![p] = s]
  /\ body' = [body EXCEPT ![p] = @ + 1]
  /\ UNCHANGED <<kept, default, inactive, archived, lock, cache, imports,
                 announced, call>>

ApprovedDelete(p) ==
  /\ p \in kept \ default
  /\ Gone(p)
  /\ UNCHANGED <<lock, cache, imports, announced, call>>

\* One page of a backup: found by slug or uid, or put back; never the default
\* page afterwards, under no lock and no limit.
Import(p, s) ==
  /\ imports < MaxImports
  /\ imports' = imports + 1
  /\ (p \in kept /\ s = slug[p]) \/ Free(s)
  /\ body[p] < MaxEdits
  /\ kept' = kept \cup {p}
  /\ default' = default \ {p}
  /\ slug' = [slug EXCEPT ![p] = s]
  /\ body' = [body EXCEPT ![p] = @ + 1]
  /\ \E gone \in SUBSET {p} : inactive' = (inactive \ {p}) \cup gone
  /\ \E gone \in SUBSET {p} : archived' = (archived \ {p}) \cup gone
  /\ UNCHANGED <<lock, cache, announced, call>>

-----------------------------------------------------------------------------
Advance(c) ==
  \/ Look(c) \/ Check(c) \/ Query(c) \/ Store(c)
  \/ Lock(c) \/ Count(c) \/ \E p \in Pages : Insert(c, p) \/ InsertDefault(c, p)
  \/ Write(c) \/ Delete(c) \/ Clear(c)

Step ==
  \/ \E c \in Callers :
       \/ \E a \in Addresses : Visit(c, a)
       \/ \E s \in Slugs, what \in {"page", "default"} : Create(c, s, what)
       \/ \E s \in Slugs : CreateDefault(c, s)
       \/ \E p \in Pages : Switch(c, p) \/ Archive(c, p) \/ Touch(c, p) \/ Remove(c, p)
       \/ \E p \in Pages, s \in Slugs, status \in {"active", "inactive"} :
            Edit(c, p, s, status)
       \/ Advance(c)
  \/ \E p \in Pages : ApprovedDelete(p)
  \/ \E p \in Pages, s \in Slugs : ApprovedUpdate(p, s) \/ Import(p, s)
  \/ \E a \in Addresses : Expire(a)

\* History: what a visitor could have been shown while the call lasts.
Visible(c) == {p \in Pages : Public(p, call[c].addr)}
NamedHere(c) == {p \in Visible(c) : slug[p] = call[c].addr}

Watch ==
  LET visiting(c) == call'[c].at \in {"get", "live", "slug", "uid", "store"}
      before(c) == call[c].at # "idle" IN
  /\ shown' = [c \in Callers |->
       IF visiting(c)
         THEN (IF before(c) THEN shown[c] ELSE {})
              \cup Visible(c)'
         ELSE {}]
  /\ rivals' = [c \in Callers |->
       IF visiting(c)
         THEN NamedHere(c)' \cap (IF before(c) THEN rivals[c] ELSE Pages)
         ELSE {}]

Next == Step /\ Watch

Spec == Init /\ [][Next]_vars

\* Calls go on, and Redis keeps the lifetime of its entries.
FairSpec ==
  /\ Spec
  /\ \A c \in Callers : WF_vars(Advance(c) /\ Watch)
  /\ \A a \in Addresses : WF_vars(Expire(a) /\ Watch)

-----------------------------------------------------------------------------
(* Properties *)

\* A visitor is served a page that was published under this address at some
\* moment of the request, and never one whose place another page with this
\* slug has had all the time, whatever is cached (docs/security.md: public
\* caches recheck ownership and publication).
ServedIsPublic ==
  [][\A c \in Callers :
       call[c].at \in {"live", "store"} /\ call'[c].at = "idle" =>
         /\ call[c].page \in shown[c]
         /\ rivals[c] \subseteq {call[c].page}]_vars

\* Creating and copying at the same time never exceeds the limit of the plan;
\* only the default page, which is not counted when it is made, and imports do.
PagesWithinLimit ==
  imports = 0 => Cardinality(kept \ default) <= Limit

\* Once a change has cleared an address while no visitor was about to fill it,
\* the contents from before that change are never cached there again.
ClearedStaysCleared ==
  \A a \in Addresses : cache[a] # None =>
    cache[a].body >= announced[cache[a].page][a]

\* Whatever was not cleared, lost or overtaken: in the end a cached page has
\* the contents of the database.
PageCatchesUp ==
  <>[](\A a \in Addresses : cache[a] # None /\ cache[a].page \in kept =>
         cache[a].body = body[cache[a].page])
=============================================================================
