-------------------------- MODULE LinktreesProofs --------------------------
(***************************************************************************)
(* Proofs about the link pages, for any pages, addresses and callers, any  *)
(* limit, and a Redis that may be away.                                    *)
(***************************************************************************)
EXTENDS Linktrees, FiniteSetTheorems, TLAPS

-----------------------------------------------------------------------------
(* Steps *)

\* What one caller does.
Move(c) ==
  \/ \E a \in Addresses : Visit(c, a)
  \/ \E s \in Slugs, what \in {"page", "default"} : Create(c, s, what)
  \/ \E s \in Slugs : CreateDefault(c, s)
  \/ \E p \in Pages : Switch(c, p) \/ Archive(c, p) \/ Touch(c, p) \/ Remove(c, p)
  \/ \E p \in Pages, s \in Slugs, status \in {"active", "inactive"} : Edit(c, p, s, status)
  \/ Advance(c)

\* What happens outside every call.
Outside ==
  \/ \E p \in Pages : ApprovedDelete(p)
  \/ \E p \in Pages, s \in Slugs : ApprovedUpdate(p, s) \/ Import(p, s)
  \/ \E a \in Addresses : Expire(a)

LEMMA StepSplits ==
  ASSUME Step
  PROVE  (\E c \in Callers : Move(c)) \/ Outside
BY DEF Step, Move, Outside

\* What each kind of move leaves alone.
LEMMA MoveKinds ==
  ASSUME NEW c \in Callers, Move(c)
  PROVE  \/ UNCHANGED <<pageVars, lock, cache, imports, announced>>
         \/ /\ \E p \in Pages : Switch(c, p) \/ Archive(c, p) \/ Touch(c, p)
            /\ UNCHANGED <<kept, default, slug, lock, cache, imports, announced>>
         \/ Store(c) /\ UNCHANGED <<pageVars, lock, imports, announced>>
         \/ Lock(c) /\ UNCHANGED <<pageVars, cache, imports, announced>>
         \/ Count(c) /\ UNCHANGED <<cache, imports, announced>>
         \/ (\E p \in Pages : Insert(c, p)) /\ UNCHANGED <<cache, imports, announced>>
         \/ /\ (\E p \in Pages : InsertDefault(c, p)) \/ Write(c) \/ Delete(c)
            /\ UNCHANGED <<lock, cache, imports, announced>>
         \/ Clear(c) /\ UNCHANGED <<pageVars, lock, imports>>
<1>1. ASSUME \/ \E a \in Addresses : Visit(c, a)
             \/ \E s \in Slugs, what \in {"page", "default"} : Create(c, s, what)
             \/ \E s \in Slugs : CreateDefault(c, s)
             \/ \E p \in Pages : Remove(c, p)
             \/ \E p \in Pages, s \in Slugs, status \in {"active", "inactive"} :
                  Edit(c, p, s, status)
      PROVE  UNCHANGED <<pageVars, lock, cache, imports, announced>>
  BY <1>1 DEF Visit, Create, CreateDefault, Remove, Edit
<1>2. ASSUME Look(c) \/ Check(c) \/ Query(c)
      PROVE  UNCHANGED <<pageVars, lock, cache, imports, announced>>
  BY <1>2 DEF Look, Check, Query
<1>3. ASSUME \E p \in Pages : Switch(c, p) \/ Archive(c, p) \/ Touch(c, p)
      PROVE  UNCHANGED <<kept, default, slug, lock, cache, imports, announced>>
  BY <1>3 DEF Switch, Archive, Touch, Change
<1>4. Store(c) => UNCHANGED <<pageVars, lock, imports, announced>>
  BY DEF Store
<1>5. Lock(c) => UNCHANGED <<pageVars, cache, imports, announced>>
  BY DEF Lock
<1>6. Count(c) => UNCHANGED <<cache, imports, announced>>
  BY DEF Count
<1>7. (\E p \in Pages : Insert(c, p)) => UNCHANGED <<cache, imports, announced>>
  BY DEF Insert
<1>8. (\E p \in Pages : InsertDefault(c, p)) => UNCHANGED <<lock, cache, imports, announced>>
  BY DEF InsertDefault
<1>9. Write(c) \/ Delete(c) => UNCHANGED <<lock, cache, imports, announced>>
  BY DEF Write, Delete
<1>10. Clear(c) => UNCHANGED <<pageVars, lock, imports>>
  BY DEF Clear
<1>11. QED
  BY <1>1, <1>2, <1>3, <1>4, <1>5, <1>6, <1>7, <1>8, <1>9, <1>10 DEF Move, Advance

-----------------------------------------------------------------------------
(* The invariant of a call *)

Visiting == {"get", "live", "slug", "uid", "store"}
Naming == {"lock", "count", "insert", "default", "write"}

\* What a call has found out, its page and its address.
CallInv(c) ==
  /\ call[c].at \in Visiting \cup {"delete", "clear"} => call[c].addr \in Addresses
  /\ call[c].at \in Naming => call[c].addr \in Slugs
  /\ call[c].at \in {"live", "store", "write", "delete", "clear"} => call[c].page \in Pages

DataType ==
  /\ kept \subseteq Pages /\ default \subseteq kept
  /\ \A p, q \in default : p = q
  /\ inactive \subseteq kept /\ archived \subseteq kept
  /\ slug \in [Pages -> Slugs \cup {None}]
  /\ \A p, q \in kept : slug[p] \in Slugs /\ (slug[p] = slug[q] => p = q)
  /\ body \in [Pages -> 0..MaxEdits]
  /\ lock \in Callers \cup {None}
  /\ cache \in [Addresses -> Entry \cup {None}]
  /\ imports \in 0..MaxImports
  /\ announced \in [Pages -> [Addresses -> 0..MaxEdits]]

CallsInv == call \in [Callers -> Calls] /\ \A c \in Callers : CallInv(c)

LEMMA TypeParts == TypeOK <=>
  /\ DataType /\ call \in [Callers -> Calls]
  /\ shown \in [Callers -> SUBSET Pages] /\ rivals \in [Callers -> SUBSET Pages]
BY DEF TypeOK, DataType

\* The three ways a call moves.
LEMMA StartCall ==
  ASSUME CallsInv, NEW c \in Callers, NEW at \in Points \ {"live", "store"},
         NEW p \in Pages \cup {None},
         NEW a \in Addresses, NEW want \in {"none", "active", "inactive", "page", "default"},
         at \in Naming => a \in Slugs,
         at \in {"write", "delete", "clear"} => p \in Pages,
         Start(c, at, p, a, want)
  PROVE  /\ CallsInv'
         /\ \A d \in Callers \ {c} : call'[d] = call[d]
         /\ call[c].at = "idle" /\ call'[c].at = at /\ call'[c].page = p
         /\ call'[c].addr = a /\ call'[c].want = want
<1> DEFINE new == [at |-> at, page |-> p, addr |-> a, want |-> want, body |-> 0]
<1>1. new \in Calls
  BY LinktreesAssumption DEF LinktreesAssumption, Calls
<1>2. call' = [call EXCEPT ![c] = new] /\ call[c].at = "idle"
  BY DEF Start
<1>3. /\ call' \in [Callers -> Calls] /\ call'[c] = new
      /\ \A d \in Callers \ {c} : call'[d] = call[d]
  BY <1>1, <1>2 DEF CallsInv
<1>4. new.at = at /\ new.page = p /\ new.addr = a /\ new.want = want
  OBVIOUS
<1>5. \A d \in Callers : CallInv(d)'
  BY <1>3, <1>4 DEF CallsInv, CallInv
<1>6. QED
  BY <1>2, <1>3, <1>4, <1>5 DEF CallsInv

LEMMA GotoCall ==
  ASSUME CallsInv, NEW c \in Callers, NEW at \in Points \ {"live", "store"}, Goto(c, at),
         at \in Visiting \cup {"delete", "clear"} => call[c].addr \in Addresses,
         at \in Naming => call[c].addr \in Slugs,
         at \in {"write", "delete", "clear"} => call[c].page \in Pages
  PROVE  /\ CallsInv'
         /\ \A d \in Callers \ {c} : call'[d] = call[d]
         /\ call'[c].at = at /\ call'[c].page = call[c].page
         /\ call'[c].addr = call[c].addr /\ call'[c].want = call[c].want
         /\ call'[c].body = call[c].body
<1>1. /\ call' \in [Callers -> Calls] /\ call'[c] = [call[c] EXCEPT !.at = at]
      /\ \A d \in Callers \ {c} : call'[d] = call[d]
  BY DEF CallsInv, Goto, Calls
<1>2. /\ call'[c].at = at /\ call'[c].page = call[c].page
      /\ call'[c].addr = call[c].addr /\ call'[c].want = call[c].want
      /\ call'[c].body = call[c].body
  BY <1>1 DEF CallsInv, Calls
<1>3. \A d \in Callers : CallInv(d)'
  BY <1>1, <1>2 DEF CallsInv, CallInv
<1>4. QED
  BY <1>1, <1>2, <1>3 DEF CallsInv

LEMMA ReturnCall ==
  ASSUME CallsInv, NEW c \in Callers, Return(c)
  PROVE  /\ CallsInv'
         /\ \A d \in Callers \ {c} : call'[d] = call[d]
         /\ call'[c].at = "idle"
<1>1. Idle \in Calls /\ Idle.at = "idle"
  BY LinktreesAssumption DEF LinktreesAssumption, Calls, Points, Idle
<1>2. /\ call' \in [Callers -> Calls] /\ call'[c] = Idle
      /\ \A d \in Callers \ {c} : call'[d] = call[d]
  BY <1>1 DEF CallsInv, Return
<1>3. \A d \in Callers : CallInv(d)'
  BY <1>1, <1>2 DEF CallsInv, CallInv, Visiting, Naming
<1>4. QED
  BY <1>1, <1>2, <1>3 DEF CallsInv

\* A step of a call, and the one of others.
LEMMA MoveCalls ==
  ASSUME DataType, CallsInv, NEW c \in Callers, Move(c)
  PROVE  CallsInv' /\ \A d \in Callers \ {c} : call'[d] = call[d]
<1> USE LinktreesAssumption DEF LinktreesAssumption, Points, Visiting, Naming
<1>0. call[c] \in Calls /\ CallInv(c)
  BY DEF CallsInv
<1>1. ASSUME NEW a \in Addresses, Visit(c, a)
      PROVE  CallsInv' /\ \A d \in Callers \ {c} : call'[d] = call[d]
  BY <1>1, StartCall DEF Visit
<1>2. ASSUME NEW s \in Slugs, NEW what \in {"page", "default"},
             Create(c, s, what) \/ CreateDefault(c, s)
      PROVE  CallsInv' /\ \A d \in Callers \ {c} : call'[d] = call[d]
  BY <1>2, StartCall DEF Create, CreateDefault
<1>3. ASSUME NEW p \in Pages, Switch(c, p) \/ Archive(c, p) \/ Touch(c, p) \/ Remove(c, p)
      PROVE  CallsInv' /\ \A d \in Callers \ {c} : call'[d] = call[d]
  <2>1. p \in kept /\ slug[p] \in Addresses
    BY <1>3 DEF DataType, Switch, Archive, Touch, Remove, Change
  <2>2. Start(c, "clear", p, slug[p], "none") \/ Start(c, "delete", p, slug[p], "none")
    BY <1>3 DEF Switch, Archive, Touch, Remove, Change
  <2>3. QED
    BY <2>1, <2>2, StartCall
<1>4. ASSUME NEW p \in Pages, NEW s \in Slugs, NEW status \in {"active", "inactive"},
             Edit(c, p, s, status)
      PROVE  CallsInv' /\ \A d \in Callers \ {c} : call'[d] = call[d]
  BY <1>4, StartCall DEF Edit
<1>5. CASE Look(c)
  <2>1. call[c].addr \in Addresses
    BY <1>0, <1>5 DEF CallInv, Look
  <2>2. CASE Goto(c, "slug")
    BY <2>1, <2>2, GotoCall
  <2>3. CASE /\ cache[call[c].addr] # None
             /\ call' = [call EXCEPT ![c].at = "live",
                                     ![c].page = cache[call[c].addr].page]
    <3>1. cache[call[c].addr].page \in Pages
      BY <2>1, <2>3 DEF DataType, Entry
    <3>2. /\ call'[c] \in Calls /\ call'[c].at = "live"
          /\ call'[c].addr = call[c].addr /\ call'[c].page \in Pages
      BY <1>0, <2>3, <3>1 DEF CallsInv, Calls
    <3>3. /\ call' \in [Callers -> Calls]
          /\ \A d \in Callers \ {c} : call'[d] = call[d]
      BY <2>3, <3>2 DEF CallsInv
    <3>4. QED
      BY <2>1, <3>2, <3>3 DEF CallsInv, CallInv
  <2>4. QED
    BY <1>5, <2>2, <2>3 DEF Look
<1>6. CASE Check(c)
  <2>1. call[c].addr \in Addresses
    BY <1>0, <1>6 DEF CallInv, Check
  <2>2. CASE Return(c)
    BY <2>2, ReturnCall
  <2>3. CASE call' = [call EXCEPT ![c].at = "slug", ![c].page = None]
    <3>1. /\ call'[c] \in Calls /\ call'[c].at = "slug"
          /\ call'[c].addr = call[c].addr
      BY <1>0, <2>3 DEF CallsInv, Calls
    <3>2. /\ call' \in [Callers -> Calls]
          /\ \A d \in Callers \ {c} : call'[d] = call[d]
      BY <2>3, <3>1 DEF CallsInv
    <3>3. QED
      BY <2>1, <3>1, <3>2 DEF CallsInv, CallInv
  <2>4. QED
    BY <1>6, <2>2, <2>3 DEF Check
<1>7. CASE Query(c)
  <2>1. call[c].addr \in Addresses
    BY <1>0, <1>7 DEF CallInv, Query
  <2>2. CASE Return(c) \/ Goto(c, "uid")
    BY <2>1, <2>2, ReturnCall, GotoCall
  <2>3. ASSUME NEW p \in Found(c),
               call' = [call EXCEPT ![c].at = "store", ![c].page = p, ![c].body = body[p]]
        PROVE  CallsInv' /\ \A d \in Callers \ {c} : call'[d] = call[d]
    <3>1. p \in Pages /\ body[p] \in 0..MaxEdits
      BY DEF DataType, Found, Named
    <3>2. /\ call'[c] \in Calls /\ call'[c].at = "store"
          /\ call'[c].addr = call[c].addr /\ call'[c].page = p
      BY <1>0, <2>3, <3>1 DEF CallsInv, Calls
    <3>3. /\ call' \in [Callers -> Calls]
          /\ \A d \in Callers \ {c} : call'[d] = call[d]
      BY <2>3, <3>2 DEF CallsInv
    <3>4. QED
      BY <2>1, <3>1, <3>2, <3>3 DEF CallsInv, CallInv
  <2>4. QED
    BY <1>7, <2>2, <2>3 DEF Query
<1>8. CASE \/ Store(c) \/ (\E p \in Pages : Insert(c, p) \/ InsertDefault(c, p)) \/ Clear(c)
  BY <1>8, ReturnCall DEF Store, Insert, InsertDefault, Clear
<1>9. CASE Lock(c) \/ Count(c)
  <2>1. call[c].addr \in Slugs
    BY <1>0, <1>9 DEF CallInv, Lock, Count
  <2>2. QED
    BY <1>9, <2>1, ReturnCall, GotoCall DEF Lock, Count
<1>10. CASE Write(c) \/ Delete(c)
  <2>1. call[c].page \in Pages /\ call[c].addr \in Addresses
    BY <1>0, <1>10 DEF CallInv, Write, Delete
  <2>2. QED
    BY <1>0, <1>10, <2>1, ReturnCall, GotoCall DEF Write, Delete
<1>11. QED
  BY <1>1, <1>2, <1>3, <1>4, <1>5, <1>6, <1>7, <1>8, <1>9, <1>10 DEF Move, Advance

-----------------------------------------------------------------------------
(* The pages and their types *)

PagesType ==
  /\ kept \subseteq Pages /\ default \subseteq kept
  /\ \A p, q \in default : p = q
  /\ inactive \subseteq kept /\ archived \subseteq kept
  /\ slug \in [Pages -> Slugs \cup {None}]
  /\ \A p, q \in kept : slug[p] \in Slugs /\ (slug[p] = slug[q] => p = q)
  /\ body \in [Pages -> 0..MaxEdits]

LEMMA PutPages ==
  ASSUME PagesType, NEW p \in Pages, NEW s \in Slugs, NEW asDefault \in BOOLEAN,
         Free(s), asDefault => default = {}, Put(p, s, asDefault)
  PROVE  PagesType'
<1>1. /\ kept' = kept \cup {p} /\ p \notin kept
      /\ \A q \in Pages : slug'[q] = IF q = p THEN s ELSE slug[q]
      /\ \A q \in kept : slug[q] # s
  BY DEF PagesType, Put, Free, Named
<1>2. default' \subseteq default \cup {p} /\ (p \in default' => default = {})
  BY <1>1 DEF PagesType, Put
<1>3. default' \subseteq kept' /\ \A q, r \in default' : q = r
  BY <1>1, <1>2 DEF PagesType, Put
<1>4. slug' \in [Pages -> Slugs \cup {None}]
  BY DEF PagesType, Put
<1>5. inactive' \subseteq kept' /\ archived' \subseteq kept' /\ body' = body
  BY <1>1 DEF PagesType, Put
<1>6. \A q, r \in kept' : slug'[q] \in Slugs /\ (slug'[q] = slug'[r] => q = r)
  BY <1>1 DEF PagesType
<1>7. kept' \subseteq Pages /\ body' \in [Pages -> 0..MaxEdits]
  BY <1>1, <1>5 DEF PagesType
<1>8. QED
  BY <1>3, <1>4, <1>5, <1>6, <1>7 DEF PagesType

\* A page that is there gets a slug nobody has.
LEMMA RenamePages ==
  ASSUME PagesType, NEW p \in kept, NEW s \in Slugs, s = slug[p] \/ Free(s),
         body[p] < MaxEdits,
         slug' = [slug EXCEPT ![p] = s], body' = [body EXCEPT ![p] = @ + 1],
         kept' = kept, default' \subseteq default,
         inactive' \subseteq kept, archived' \subseteq kept
  PROVE  PagesType'
<1>1. /\ p \in Pages /\ \A q \in Pages : slug'[q] = IF q = p THEN s ELSE slug[q]
      /\ \A q \in kept \ {p} : slug[q] # s
  BY DEF PagesType, Free, Named
<1>2. body' \in [Pages -> 0..MaxEdits]
  BY LinktreesAssumption, <1>1 DEF LinktreesAssumption, PagesType
<1>3. QED
  BY <1>1, <1>2 DEF PagesType

LEMMA GonePages ==
  ASSUME PagesType, NEW p \in Pages, Gone(p)
  PROVE  PagesType'
BY DEF PagesType, Gone

LEMMA ImportPages ==
  ASSUME PagesType, NEW p \in Pages, NEW s \in Slugs, Import(p, s)
  PROVE  PagesType'
<1>1. /\ \A q \in Pages : slug'[q] = IF q = p THEN s ELSE slug[q]
      /\ \A q \in kept \ {p} : slug[q] # s
      /\ kept' = kept \cup {p} /\ default' = default \ {p}
  BY DEF PagesType, Import, Free, Named
<1>2. body' \in [Pages -> 0..MaxEdits]
  BY LinktreesAssumption DEF LinktreesAssumption, PagesType, Import
<1>3. inactive' \subseteq kept' /\ archived' \subseteq kept'
  BY <1>1 DEF PagesType, Import
<1>4. slug' \in [Pages -> Slugs \cup {None}]
  BY DEF PagesType, Import
<1>5. \A q, r \in kept' : slug'[q] \in Slugs /\ (slug'[q] = slug'[r] => q = r)
  BY <1>1 DEF PagesType
<1>6. /\ kept' \subseteq Pages /\ default' \subseteq kept'
      /\ \A q, r \in default' : q = r
  BY <1>1 DEF PagesType
<1>7. QED
  BY <1>2, <1>3, <1>4, <1>5, <1>6 DEF PagesType

LEMMA MovePages ==
  ASSUME DataType, CallsInv, NEW c \in Callers, Move(c)
  PROVE  PagesType'
<1>0. PagesType /\ CallInv(c)
  BY DEF DataType, PagesType, CallsInv
<1>1. CASE UNCHANGED pageVars
  BY <1>0, <1>1 DEF PagesType, pageVars
<1>2. ASSUME NEW p \in Pages, Switch(c, p) \/ Archive(c, p)
      PROVE  PagesType'
  BY <1>0, <1>2 DEF PagesType, Switch, Archive, Change
<1>3. ASSUME NEW p \in Pages, Touch(c, p)
      PROVE  PagesType'
  BY <1>0, <1>3, LinktreesAssumption DEF LinktreesAssumption, PagesType, Touch, Change
<1>4. CASE Count(c)
  <2>1. call[c].addr \in Slugs
    BY <1>0, <1>4 DEF CallInv, Naming, Count
  <2>2. QED
    BY <1>0, <1>1, <1>4, <2>1, RenamePages DEF Count, PagesType
<1>5. ASSUME NEW p \in Pages, Insert(c, p) \/ InsertDefault(c, p)
      PROVE  PagesType'
  <2>1. call[c].addr \in Slugs
    BY <1>0, <1>5 DEF CallInv, Naming, Insert, InsertDefault
  <2>2. QED
    BY <1>0, <1>1, <1>5, <2>1, PutPages DEF Insert, InsertDefault
<1>6. CASE Write(c)
  <2>1. call[c].addr \in Slugs
    BY <1>0, <1>6 DEF CallInv, Naming, Write
  <2>2. CASE UNCHANGED pageVars
    BY <1>1, <2>2
  <2>3. CASE ~UNCHANGED pageVars
    <3>1. /\ inactive' \subseteq kept \cup inactive /\ UNCHANGED <<kept, default, archived>>
          /\ call[c].page \in kept
      BY <1>6, <2>3 DEF Write
    <3>2. inactive' \subseteq kept /\ archived' \subseteq kept
      BY <1>0, <3>1 DEF PagesType
    <3>3. QED
      BY <1>0, <1>6, <2>1, <2>3, <3>1, <3>2, RenamePages DEF Write
  <2>4. QED
    BY <2>2, <2>3
<1>7. CASE Delete(c)
  BY <1>0, <1>7, GonePages DEF CallInv, Delete
<1>8. QED
  BY <1>1, <1>2, <1>3, <1>4, <1>5, <1>6, <1>7, MoveKinds

LEMMA OutsidePages ==
  ASSUME DataType, Outside
  PROVE  PagesType'
<1>0. PagesType
  BY DEF DataType, PagesType
<1>1. ASSUME NEW p \in Pages, ApprovedDelete(p)
      PROVE  PagesType'
  BY <1>0, <1>1, GonePages DEF ApprovedDelete
<1>2. ASSUME NEW p \in Pages, NEW s \in Slugs, ApprovedUpdate(p, s)
      PROVE  PagesType'
  BY <1>0, <1>2, RenamePages DEF ApprovedUpdate, PagesType
<1>3. ASSUME NEW a \in Addresses, Expire(a)
      PROVE  PagesType'
  BY <1>0, <1>3 DEF PagesType, Expire, pageVars
<1>4. QED
  BY <1>0, <1>1, <1>2, <1>3, ImportPages DEF Outside

\* The lock, the cache and what was announced.
LEMMA MoveData ==
  ASSUME DataType, CallsInv, NEW c \in Callers, Move(c)
  PROVE  DataType'
<1>1. lock' \in Callers \cup {None}
  <2>1. CASE Lock(c) \/ Count(c) \/ (\E p \in Pages : Insert(c, p))
    BY <2>1 DEF DataType, Lock, Count, Insert, Release
  <2>2. QED
    BY <2>1, MoveKinds DEF DataType
<1>2. imports' = imports
  BY MoveKinds
<1>3. /\ cache' \in [Addresses -> Entry \cup {None}]
      /\ announced' \in [Pages -> [Addresses -> 0..MaxEdits]]
  <2>1. CASE Store(c)
    <3>1. [page |-> call[c].page, body |-> call[c].body] \in Entry
      BY <2>1 DEF CallsInv, Calls, CallInv, Store, Entry
    <3>2. QED
      BY <2>1, <3>1 DEF DataType, Store
  <2>2. CASE Clear(c)
    <3>1. cache' \in [Addresses -> Entry \cup {None}]
      BY <2>2 DEF DataType, Clear
    <3>2. CASE announced' = announced
      BY <3>1, <3>2 DEF DataType
    <3>3. CASE announced' # announced
      <4>. PICK p \in Pages : p = call[c].page
        BY <2>2 DEF CallsInv, CallInv, Clear
      <4>1. announced' = [announced EXCEPT ![p] = [a \in Addresses |->
              IF a \in {Uid[p], call[c].addr} /\ ~Filling(p, a) THEN body[p] ELSE @[a]]]
        BY <2>2, <3>3 DEF Clear
      <4>2. [a \in Addresses |->
              IF a \in {Uid[p], call[c].addr} /\ ~Filling(p, a) THEN body[p]
              ELSE announced[p][a]] \in [Addresses -> 0..MaxEdits]
        BY DEF DataType
      <4>3. QED
        BY <3>1, <4>1, <4>2 DEF DataType
    <3>4. QED
      BY <3>2, <3>3
  <2>3. CASE UNCHANGED <<cache, announced>>
    BY <2>3 DEF DataType
  <2>4. QED
    BY <2>1, <2>2, <2>3, MoveKinds
<1>4. QED
  BY <1>1, <1>2, <1>3, MovePages DEF DataType, PagesType

LEMMA OutsideData ==
  ASSUME DataType, Outside
  PROVE  DataType' /\ call' = call
<1>1. call' = call /\ UNCHANGED <<lock, announced>>
  BY DEF Outside, ApprovedDelete, ApprovedUpdate, Import, Expire
<1>2. imports' \in 0..MaxImports
  BY LinktreesAssumption
     DEF LinktreesAssumption, DataType, Outside, ApprovedDelete, ApprovedUpdate, Import, Expire
<1>3. cache' \in [Addresses -> Entry \cup {None}]
  BY DEF DataType, Outside, ApprovedDelete, ApprovedUpdate, Import, Expire
<1>4. QED
  BY <1>1, <1>2, <1>3, OutsidePages DEF DataType, PagesType

-----------------------------------------------------------------------------
(* What was shown: the history follows the calls *)

ShownType ==
  shown \in [Callers -> SUBSET Pages] /\ rivals \in [Callers -> SUBSET Pages]

LEMMA WatchedType ==
  ASSUME ShownType, Watch
  PROVE  ShownType'
<1>1. \A c \in Callers : Visible(c)' \subseteq Pages /\ NamedHere(c)' \subseteq Pages
  BY DEF Visible, NamedHere
<1>2. shown' \in [Callers -> SUBSET Pages]
  BY <1>1 DEF Watch, ShownType
<1>3. rivals' \in [Callers -> SUBSET Pages]
  BY <1>1 DEF Watch, ShownType
<1>4. QED
  BY <1>2, <1>3 DEF ShownType

\* What Watch says of one caller.
LEMMA Watched ==
  ASSUME Watch, NEW c \in Callers, call'[c].at \in Visiting
  PROVE  /\ Visible(c)' \subseteq shown'[c]
         /\ rivals'[c] \subseteq NamedHere(c)'
         /\ call[c].at # "idle" => shown[c] \subseteq shown'[c] /\ rivals'[c] \subseteq rivals[c]
BY DEF Watch, Visiting

-----------------------------------------------------------------------------
(* The limit *)

Counted == kept \ default

\* Who counts or inserts holds the lock, and has seen room.
LimitInv ==
  /\ \A c \in Callers : call[c].at \in {"count", "insert"} => lock = c
  /\ imports = 0 => Cardinality(Counted) <= Limit
  /\ \A c \in Callers : call[c].at = "insert" /\ imports = 0 => Cardinality(Counted) < Limit

LEMMA CountedSize ==
  ASSUME DataType
  PROVE  IsFiniteSet(Counted) /\ Cardinality(Counted) \in Nat
BY LinktreesAssumption, FS_Subset, FS_CardinalityType
   DEF LinktreesAssumption, DataType, Counted

LEMMA Fewer ==
  ASSUME NEW S, IsFiniteSet(S), NEW T \in SUBSET S
  PROVE  Cardinality(T) <= Cardinality(S) /\ Cardinality(T) \in Nat
BY FS_Subset, FS_CardinalityType

LEMMA OneMore ==
  ASSUME NEW S, IsFiniteSet(S), NEW p, NEW T \in SUBSET (S \cup {p})
  PROVE  Cardinality(T) <= Cardinality(S) + 1 /\ Cardinality(T) \in Nat
<1>1. /\ IsFiniteSet(S \cup {p}) /\ Cardinality(S) \in Nat
      /\ Cardinality(S \cup {p}) = IF p \in S THEN Cardinality(S) ELSE Cardinality(S) + 1
  BY FS_AddElement, FS_CardinalityType
<1>2. Cardinality(T) <= Cardinality(S \cup {p}) /\ Cardinality(T) \in Nat
  BY <1>1, Fewer
<1>3. QED
  BY <1>1, <1>2

\* Only an insertion adds to what is counted.
LEMMA MoveCounted ==
  ASSUME DataType, CallsInv, NEW c \in Callers, Move(c)
  PROVE  \/ Counted' \subseteq Counted
         \/ /\ \E p \in Pages : Counted' \subseteq Counted \cup {p}
            /\ call[c].at = "insert" /\ call'[c].at = "idle"
<1>1. ASSUME NEW p \in Pages, Insert(c, p)
      PROVE  /\ Counted' \subseteq Counted \cup {p} /\ call[c].at = "insert"
             /\ call'[c].at = "idle"
  BY <1>1, ReturnCall DEF Insert, Put, Counted, pageVars
<1>2. ASSUME NEW p \in Pages, InsertDefault(c, p)
      PROVE  Counted' \subseteq Counted
  BY <1>2 DEF InsertDefault, Put, Counted, pageVars
<1>3. Delete(c) => Counted' \subseteq Counted
  BY DEF Delete, Gone, Counted
<1>4. UNCHANGED <<kept, default>> => Counted' \subseteq Counted
  BY DEF Counted
<1>5. Count(c) \/ Write(c) => UNCHANGED <<kept, default>>
  BY DEF Count, Write, pageVars
<1>6. QED
  BY <1>1, <1>2, <1>3, <1>4, <1>5, MoveKinds DEF pageVars

\* The lock is taken before counting and kept until the call ends.
LEMMA MoveLock ==
  ASSUME DataType, CallsInv, LimitInv, NEW c \in Callers, Move(c)
  PROVE  /\ call'[c].at \in {"count", "insert"} => lock' = c
         /\ \A d \in Callers \ {c} : lock = d => lock' = d
         /\ call'[c].at = "insert" /\ imports' = 0 => Cardinality(Counted) < Limit
                                                      /\ Counted' = Counted
<1> USE DEF Points
<1>0. /\ call[c].at \in {"count", "insert"} => lock = c
      /\ call \in [Callers -> Calls] /\ call[c] \in Calls
  BY DEF LimitInv, CallsInv
<1>1. CASE Lock(c)
  <2>1. call'[c].at = "count"
    BY <1>1, <1>0 DEF Lock, Goto, Calls
  <2>2. QED
    BY <1>1, <2>1, LinktreesAssumption DEF Lock, LockFree, LinktreesAssumption
<1>2. CASE Count(c)
  <2>1. CASE Return(c) /\ Release(c)
    BY <1>0, <1>2, <2>1, ReturnCall, LinktreesAssumption
       DEF Release, Count, LinktreesAssumption
  <2>2. CASE ~(Cardinality(kept) >= Limit) /\ Goto(c, "insert") /\ UNCHANGED <<lock, pageVars>>
    <3>1. call'[c].at = "insert" /\ lock' = c
      BY <1>0, <1>2, <2>2 DEF Count, Goto, Calls
    <3>2. Cardinality(Counted) < Limit
      <4>1. IsFiniteSet(kept) /\ Cardinality(kept) \in Nat
        BY LinktreesAssumption, FS_Subset, FS_CardinalityType
           DEF LinktreesAssumption, DataType
      <4>2. Cardinality(Counted) <= Cardinality(kept) /\ Cardinality(Counted) \in Nat
        BY <4>1, Fewer DEF Counted
      <4>3. QED
        BY <2>2, <4>1, <4>2, LinktreesAssumption DEF LinktreesAssumption
    <3>3. Counted' = Counted
      BY <2>2 DEF Counted, pageVars
    <3>4. QED
      BY <1>0, <1>2, <2>2, <3>1, <3>2, <3>3 DEF Count
  <2>3. QED
    BY <1>2, <2>1, <2>2 DEF Count
<1>3. CASE \E p \in Pages : Insert(c, p)
  BY <1>0, <1>3, ReturnCall, LinktreesAssumption DEF Insert, Release, LinktreesAssumption
<1>4. CASE lock' = lock /\ call'[c].at \notin {"count", "insert"}
  BY <1>4
<1>5. ASSUME ~Lock(c), ~Count(c), ~\E p \in Pages : Insert(c, p)
      PROVE  lock' = lock /\ call'[c].at \notin {"count", "insert"}
  <2>1. lock' = lock
    BY <1>5, MoveKinds
  <2>2. ASSUME \/ \E a \in Addresses : Visit(c, a)
               \/ \E s \in Slugs, what \in {"page", "default"} : Create(c, s, what)
               \/ \E s \in Slugs : CreateDefault(c, s)
               \/ \E p \in Pages : \/ Switch(c, p) \/ Archive(c, p) \/ Touch(c, p)
                                   \/ Remove(c, p) 
               \/ \E p \in Pages, s \in Slugs, status \in {"active", "inactive"} :
                    Edit(c, p, s, status)
        PROVE  call'[c].at \in {"get", "lock", "default", "clear", "delete", "write"}
    BY <1>0, <2>2 DEF Visit, Create, CreateDefault, Switch, Archive, Touch, Change, Remove,
                      Edit, Start
  <2>3. Look(c) \/ Check(c) \/ Query(c) => call'[c].at \in {"live", "slug", "uid", "store", "idle"}
    <3>1. Return(c) => call'[c].at = "idle"
      BY ReturnCall
    <3>2. \A at \in Points : Goto(c, at) => call'[c].at = at
      BY <1>0 DEF Goto, Calls
    <3>3. ASSUME NEW p, call' = [call EXCEPT ![c].at = "live", ![c].page = p]
          PROVE  call'[c].at = "live"
      BY <1>0, <3>3 DEF Calls
    <3>4. ASSUME NEW p, call' = [call EXCEPT ![c].at = "slug", ![c].page = p]
          PROVE  call'[c].at = "slug"
      BY <1>0, <3>4 DEF Calls
    <3>5. ASSUME NEW p, NEW b, call' = [call EXCEPT ![c].at = "store", ![c].page = p,
                                                    ![c].body = b]
          PROVE  call'[c].at = "store"
      BY <1>0, <3>5 DEF Calls
    <3>6. Look(c) => call'[c].at \in {"live", "slug"}
      BY <3>2, <3>3 DEF Look
    <3>7. Check(c) => call'[c].at \in {"slug", "idle"}
      BY <3>1, <3>4 DEF Check
    <3>8. Query(c) => call'[c].at \in {"uid", "store", "idle"}
      <4>1. ASSUME NEW p \in Found(c),
                   IF p \in inactive THEN Return(c)
                   ELSE call' = [call EXCEPT ![c].at = "store", ![c].page = p,
                                             ![c].body = body[p]]
            PROVE  call'[c].at \in {"uid", "store", "idle"}
        <5>1. CASE Return(c)
          BY <3>1, <5>1
        <5>2. CASE call' = [call EXCEPT ![c].at = "store", ![c].page = p, ![c].body = body[p]]
          BY <3>5, <5>2, Zenon
        <5>3. QED
          BY <4>1, <5>1, <5>2
      <4>2. Goto(c, "uid") \/ Return(c) => call'[c].at \in {"uid", "store", "idle"}
        BY <3>1, <3>2
      <4>3. QED
        BY <4>1, <4>2, Zenon DEF Query
    <3>9. QED
      BY <3>6, <3>7, <3>8
  <2>4. Store(c) \/ Clear(c) \/ (\E p \in Pages : InsertDefault(c, p)) => call'[c].at = "idle"
    BY ReturnCall DEF Store, Clear, InsertDefault
  <2>5. Write(c) \/ Delete(c) => call'[c].at \in {"clear", "idle"}
    BY <1>0, ReturnCall DEF Write, Delete, Goto, Calls
  <2>6. QED
    BY <1>5, <2>1, <2>2, <2>3, <2>4, <2>5 DEF Move, Advance
<1>6. QED
  BY <1>1, <1>2, <1>3, <1>4, <1>5

LEMMA OutsideCounted ==
  ASSUME DataType, Outside
  PROVE  UNCHANGED <<call, lock>> /\ (imports' = 0 => imports = 0 /\ Counted' \subseteq Counted)
<1>1. ASSUME NEW p \in Pages, ApprovedDelete(p)
      PROVE  UNCHANGED <<call, lock, imports>> /\ Counted' \subseteq Counted
  BY <1>1 DEF ApprovedDelete, Gone, Counted
<1>2. ASSUME NEW p \in Pages, NEW s \in Slugs, ApprovedUpdate(p, s)
      PROVE  UNCHANGED <<call, lock, imports>> /\ Counted' \subseteq Counted
  BY <1>2 DEF ApprovedUpdate, Counted
<1>3. ASSUME NEW a \in Addresses, Expire(a)
      PROVE  UNCHANGED <<call, lock, imports>> /\ Counted' \subseteq Counted
  BY <1>3 DEF Expire, Counted, pageVars
<1>4. ASSUME NEW p \in Pages, NEW s \in Slugs, Import(p, s)
      PROVE  UNCHANGED <<call, lock>> /\ imports' # 0
  BY <1>4, LinktreesAssumption DEF Import, LinktreesAssumption, DataType
<1>5. QED
  BY <1>1, <1>2, <1>3, <1>4 DEF Outside

LEMMA NextLimit ==
  ASSUME DataType, CallsInv, LimitInv, Step
  PROVE  LimitInv'
<1>0. Cardinality(Counted) \in Nat /\ IsFiniteSet(Counted) /\ Limit \in Nat
  BY CountedSize, LinktreesAssumption DEF LinktreesAssumption
<1>1. CASE Outside
  <2>1. imports' = 0 => /\ imports = 0 /\ Cardinality(Counted') <= Cardinality(Counted)
                        /\ Cardinality(Counted') \in Nat
    BY <1>0, <1>1, OutsideCounted, Fewer
  <2>2. UNCHANGED <<call, lock>>
    BY <1>1, OutsideCounted
  <2>3. QED
    BY <1>0, <2>1, <2>2 DEF LimitInv
<1>2. ASSUME NEW c \in Callers, Move(c)
      PROVE  LimitInv'
  <2>1. /\ imports' = imports /\ CallsInv'
        /\ \A d \in Callers \ {c} : call'[d] = call[d]
    BY <1>2, MoveKinds, MoveCalls
  <2>2. \A d \in Callers : call'[d].at \in {"count", "insert"} => lock' = d
    BY <1>2, <2>1, MoveLock DEF LimitInv
  <2>3. CASE Counted' \subseteq Counted
    <3>1. Cardinality(Counted') <= Cardinality(Counted) /\ Cardinality(Counted') \in Nat
      BY <1>0, <2>3, Fewer
    <3>2. imports' = 0 => Cardinality(Counted') <= Limit
      BY <1>0, <2>1, <3>1 DEF LimitInv
    <3>3. ASSUME NEW d \in Callers, call'[d].at = "insert", imports' = 0
          PROVE  Cardinality(Counted') < Limit
      BY <1>0, <1>2, <2>1, <3>1, <3>3, MoveLock DEF LimitInv
    <3>4. QED
      BY <2>2, <3>2, <3>3 DEF LimitInv
  <2>4. ASSUME NEW p \in Pages, Counted' \subseteq Counted \cup {p},
               call[c].at = "insert", call'[c].at = "idle"
        PROVE  LimitInv'
    <3>1. Cardinality(Counted') <= Cardinality(Counted) + 1 /\ Cardinality(Counted') \in Nat
      BY <1>0, <2>4, OneMore
    <3>2. imports' = 0 => Cardinality(Counted') <= Limit
      BY <1>0, <2>1, <2>4, <3>1 DEF LimitInv
    <3>3. \A d \in Callers : call'[d].at # "insert"
      BY <2>1, <2>4 DEF LimitInv
    <3>4. QED
      BY <2>2, <3>2, <3>3 DEF LimitInv
  <2>5. QED
    BY <1>2, <2>3, <2>4, MoveCounted
<1>3. QED
  BY <1>1, <1>2, StepSplits

-----------------------------------------------------------------------------
(* What was cleared stays cleared *)

\* Nothing older than what was announced is cached, or on its way into the
\* cache; and nothing is announced that the page has not had.
ClearInv ==
  /\ \A p \in Pages, a \in Addresses : announced[p][a] <= body[p]
  /\ \A c \in Callers : call[c].at = "store" =>
       call[c].body >= announced[call[c].page][call[c].addr]
  /\ \A a \in Addresses : cache[a] # None =>
       cache[a].body >= announced[cache[a].page][a]

\* Contents only get newer.
LEMMA Newer ==
  ASSUME DataType, CallsInv, Step
  PROVE  \A p \in Pages : body[p] <= body'[p]
<1>1. UNCHANGED body => \A p \in Pages : body[p] <= body'[p]
  BY DEF DataType
<1>2. ASSUME NEW p, body' = [body EXCEPT ![p] = @ + 1]
      PROVE  \A q \in Pages : body[q] <= body'[q]
  BY <1>2 DEF DataType
<1>3. ASSUME Outside
      PROVE  UNCHANGED body \/ \E p \in Pages : body' = [body EXCEPT ![p] = @ + 1]
  <2>1. \A p \in Pages : ApprovedDelete(p) => UNCHANGED body
    BY DEF ApprovedDelete, Gone
  <2>2. \A p \in Pages, s \in Slugs : ApprovedUpdate(p, s) \/ Import(p, s) =>
          body' = [body EXCEPT ![p] = @ + 1]
    BY DEF ApprovedUpdate, Import
  <2>3. \A a \in Addresses : Expire(a) => UNCHANGED body
    BY DEF Expire, pageVars
  <2>4. QED
    BY <1>3, <2>1, <2>2, <2>3 DEF Outside
<1>4. ASSUME NEW c \in Callers, Move(c)
      PROVE  UNCHANGED body \/ \E p : body' = [body EXCEPT ![p] = @ + 1]
  <2>1. \A p \in Pages : Switch(c, p) \/ Archive(c, p) => UNCHANGED body
    BY DEF Switch, Archive
  <2>2. \A p \in Pages : Touch(c, p) => body' = [body EXCEPT ![p] = @ + 1]
    BY DEF Touch
  <2>3. Count(c) => UNCHANGED body \/ \E p : body' = [body EXCEPT ![p] = @ + 1]
    BY DEF Count, pageVars
  <2>4. \A p \in Pages : Insert(c, p) \/ InsertDefault(c, p) => UNCHANGED body
    BY DEF Insert, InsertDefault, Put, pageVars
  <2>5. Write(c) => UNCHANGED body \/ body' = [body EXCEPT ![call[c].page] = @ + 1]
    BY DEF Write, pageVars
  <2>6. Delete(c) => UNCHANGED body
    BY DEF Delete, Gone
  <2>7. UNCHANGED pageVars => UNCHANGED body
    BY DEF pageVars
  <2>8. QED
    BY <1>4, <2>1, <2>2, <2>3, <2>4, <2>5, <2>6, <2>7, MoveKinds, Zenon
<1>5. QED
  BY <1>1, <1>2, <1>3, <1>4, StepSplits

\* Only a query leads to storing, or to asking for the uid.
LEMMA OnlyByQuery ==
  ASSUME DataType, CallsInv, NEW c \in Callers, Move(c), call'[c].at \in {"uid", "store"}
  PROVE  /\ Query(c) /\ UNCHANGED <<pageVars, lock, cache, imports, announced>>
         /\ call[c].at \in {"slug", "uid"}
<1> USE DEF Points
<1>0. call \in [Callers -> Calls] /\ call[c] \in Calls
  BY DEF CallsInv
<1>1. Return(c) => call'[c].at \notin {"uid", "store"}
  BY ReturnCall
<1>2. \A at \in Points \ {"uid", "store"} : Goto(c, at) => call'[c].at \notin {"uid", "store"}
  BY <1>0 DEF Goto, Calls
<1>3. \A p, a, w : \A at \in Points \ {"uid", "store"} :
        Start(c, at, p, a, w) => call'[c].at \notin {"uid", "store"}
  BY <1>0 DEF Start
<1>4. ~\/ \E a \in Addresses : Visit(c, a)
       \/ \E s \in Slugs, what \in {"page", "default"} : Create(c, s, what)
       \/ \E s \in Slugs : CreateDefault(c, s)
  BY <1>3 DEF Visit, Create, CreateDefault
<1>5. ~\/ \E p \in Pages : Switch(c, p) \/ Archive(c, p) \/ Touch(c, p) \/ Remove(c, p)
       \/ \E p \in Pages, s \in Slugs, status \in {"active", "inactive"} : Edit(c, p, s, status)
  BY <1>3 DEF Switch, Archive, Touch, Change, Remove, Edit
<1>6. ~Look(c)
  <2>1. ASSUME NEW p, call' = [call EXCEPT ![c].at = "live", ![c].page = p]
        PROVE  FALSE
    BY <1>0, <2>1 DEF Calls
  <2>2. QED
    BY <1>2, <2>1 DEF Look
<1>7. ~Check(c)
  <2>1. ASSUME NEW p, call' = [call EXCEPT ![c].at = "slug", ![c].page = p]
        PROVE  FALSE
    BY <1>0, <2>1 DEF Calls
  <2>2. QED
    BY <1>1, <2>1 DEF Check
<1>8. ~Store(c) /\ ~Clear(c) /\ ~\E p \in Pages : Insert(c, p) \/ InsertDefault(c, p)
  BY <1>1 DEF Store, Clear, Insert, InsertDefault
<1>9. ~Lock(c) /\ ~Count(c) /\ ~Write(c) /\ ~Delete(c)
  BY <1>1, <1>2 DEF Lock, Count, Write, Delete
<1>10. Query(c)
  BY <1>4, <1>5, <1>6, <1>7, <1>8, <1>9 DEF Move, Advance
<1>11. UNCHANGED <<pageVars, lock, cache, imports, announced>> /\ call[c].at \in {"slug", "uid"}
  BY <1>10, Zenon DEF Query
<1>12. QED
  BY <1>10, <1>11

\* A call that is about to store has just read the page.
LEMMA AboutToStore ==
  ASSUME DataType, CallsInv, NEW c \in Callers, Move(c), call'[c].at = "store"
  PROVE  \E p \in Found(c) \ inactive :
           /\ call'[c].page = p /\ call'[c].body = body[p] /\ call'[c].addr = call[c].addr
<1>0. call \in [Callers -> Calls] /\ call[c] \in Calls
  BY DEF CallsInv
<1>1. ASSUME NEW p \in Found(c), p \notin inactive,
             call' = [call EXCEPT ![c].at = "store", ![c].page = p, ![c].body = body[p]]
      PROVE  call'[c].page = p /\ call'[c].body = body[p] /\ call'[c].addr = call[c].addr
  BY <1>0, <1>1 DEF Calls
<1>2. ~Goto(c, "uid") /\ ~Return(c)
  BY <1>0, ReturnCall DEF Goto, Calls
<1>3. Query(c)
  BY OnlyByQuery
<1>4. \E p \in Found(c) : /\ p \notin inactive
                          /\ call' = [call EXCEPT ![c].at = "store", ![c].page = p,
                                                  ![c].body = body[p]]
  BY <1>2, <1>3, Zenon DEF Query
<1>5. QED
  BY <1>1, <1>4, Zenon

\* Who asks for the uid has found no page by its slug.
LEMMA AboutToAsk ==
  ASSUME DataType, CallsInv, NEW c \in Callers, Move(c), call'[c].at = "uid"
  PROVE  Named(call[c].addr) \ archived = {} /\ call'[c].addr = call[c].addr
<1>0. call \in [Callers -> Calls] /\ call[c] \in Calls
  BY DEF CallsInv
<1>1. ~Return(c)
  BY ReturnCall
<1>2. ASSUME NEW p, call' = [call EXCEPT ![c].at = "store", ![c].page = p, ![c].body = body[p]]
      PROVE  FALSE
  BY <1>0, <1>2 DEF Calls
<1>3. Query(c)
  BY OnlyByQuery
<1>4. Found(c) = {} /\ call[c].at = "slug" /\ Goto(c, "uid")
  BY <1>1, <1>2, <1>3, Zenon DEF Query
<1>5. QED
  BY <1>0, <1>4 DEF Found, Goto, Calls

LEMMA NextClear ==
  ASSUME DataType, CallsInv, ClearInv, Step
  PROVE  ClearInv'
<1>0. /\ \A p \in Pages : body[p] <= body'[p] /\ body[p] \in Nat /\ body'[p] \in Nat
      /\ \A p \in Pages, a \in Addresses : announced[p][a] \in Nat
  <2>1. DataType'
    BY StepSplits, MoveData, OutsideData
  <2>2. QED
    BY <2>1, Newer, LinktreesAssumption DEF DataType, LinktreesAssumption
<1>1. CASE Outside
  <2>1. UNCHANGED <<call, announced>>
    BY <1>1 DEF Outside, ApprovedDelete, ApprovedUpdate, Import, Expire
  <2>2. \A a \in Addresses : cache'[a] \in {None, cache[a]}
    <3>1. UNCHANGED cache \/ \E a \in Addresses : cache' = [cache EXCEPT ![a] = None]
      BY <1>1 DEF Outside, ApprovedDelete, ApprovedUpdate, Import, Expire
    <3>2. QED
      BY <3>1 DEF DataType
  <2>3. \A p \in Pages, a \in Addresses : announced'[p][a] <= body'[p]
    BY <1>0, <2>1 DEF ClearInv
  <2>4. QED
    BY <2>1, <2>2, <2>3 DEF ClearInv
<1>2. ASSUME NEW c \in Callers, Move(c)
      PROVE  ClearInv'
  <2>0. /\ \A d \in Callers \ {c} : call'[d] = call[d]
        /\ CallInv(c) /\ call \in [Callers -> Calls] /\ call[c] \in Calls
    BY <1>2, MoveCalls DEF CallsInv
  <2>1. CASE UNCHANGED <<cache, announced>>
    <3>1. \A p \in Pages, a \in Addresses : announced'[p][a] <= body'[p]
      BY <1>0, <2>1 DEF ClearInv
    <3>2. ASSUME NEW d \in Callers, call'[d].at = "store"
          PROVE  call'[d].body >= announced'[call'[d].page][call'[d].addr]
      <4>1. CASE d = c
        <5>1. PICK p \in Found(c) \ inactive : /\ call'[c].page = p /\ call'[c].body = body[p]
                                               /\ call'[c].addr = call[c].addr
          BY <1>2, <3>2, <4>1, AboutToStore
        <5>2. p \in Pages
          BY DEF DataType, Found, Named
        <5>3. call[c].addr \in Addresses
          BY <1>2, <2>0, <3>2, <4>1, OnlyByQuery DEF CallInv, Visiting
        <5>4. body[p] >= announced[p][call[c].addr]
          BY <1>0, <5>2, <5>3 DEF ClearInv
        <5>5. QED
          BY <2>1, <4>1, <5>1, <5>4
      <4>2. CASE d # c
        BY <2>0, <2>1, <3>2, <4>2 DEF ClearInv
      <4>3. QED
        BY <4>1, <4>2
    <3>3. \A a \in Addresses : cache'[a] # None =>
            cache'[a].body >= announced'[cache'[a].page][a]
      BY <2>1 DEF ClearInv
    <3>4. QED
      BY <3>1, <3>2, <3>3 DEF ClearInv
  <2>2. CASE Store(c)
    <3>1. /\ call[c].at = "store" /\ call[c].addr \in Addresses /\ call[c].page \in Pages
          /\ announced' = announced
      BY <2>0, <2>2 DEF Store, CallInv, Visiting
    <3>2. /\ call'[c].at = "idle"
          /\ \A d \in Callers \ {c} : call'[d] = call[d]
      BY <2>0, <2>2, ReturnCall DEF Store
    <3>3. \A p \in Pages, a \in Addresses : announced'[p][a] <= body'[p]
      BY <1>0, <3>1 DEF ClearInv
    <3>4. \A d \in Callers : call'[d].at = "store" =>
            call'[d].body >= announced'[call'[d].page][call'[d].addr]
      BY <3>1, <3>2 DEF ClearInv
    <3>. PICK entry : entry = [page |-> call[c].page, body |-> call[c].body]
      OBVIOUS
    <3>5. entry.page = call[c].page /\ entry.body = call[c].body
      OBVIOUS
    <3>6. UNCHANGED cache \/ cache' = [cache EXCEPT ![call[c].addr] = entry]
      BY <2>2 DEF Store
    <3>7. ASSUME NEW a \in Addresses, cache'[a] # None
          PROVE  cache'[a].body >= announced'[cache'[a].page][a]
      <4>1. CASE cache'[a] = cache[a]
        BY <3>1, <3>7, <4>1 DEF ClearInv
      <4>2. CASE a = call[c].addr /\ cache'[a] = entry
        BY <3>1, <3>5, <4>2 DEF ClearInv
      <4>3. QED
        BY <3>1, <3>6, <4>1, <4>2 DEF DataType
    <3>8. QED
      BY <3>3, <3>4, <3>7 DEF ClearInv
  <2>3. CASE Clear(c) /\ ~UNCHANGED <<cache, announced>>
    <3>. PICK p \in Pages : p = call[c].page
      BY <2>0, <2>3 DEF CallInv, Clear
    <3>1. /\ call'[c].at = "idle"
          /\ \A d \in Callers \ {c} : call'[d] = call[d]
      BY <2>0, <2>3, ReturnCall DEF Clear
    <3>2. cache' = [a \in Addresses |-> IF a \in Keys(c) THEN None ELSE cache[a]]
      BY <2>3 DEF Clear
    <3>3. announced' = [announced EXCEPT ![p] = [a \in Addresses |->
            IF a \in {Uid[p], call[c].addr} /\ ~Filling(p, a) THEN body[p] ELSE @[a]]]
      BY <2>3 DEF Clear
    <3>4. \A q \in Pages, a \in Addresses :
            announced'[q][a] = IF q = p /\ a \in Keys(c) /\ ~Filling(p, a) THEN body[p]
                               ELSE announced[q][a]
      BY <3>3 DEF DataType, Keys
    <3>5. \A q \in Pages, a \in Addresses : announced'[q][a] <= body'[q]
      BY <1>0, <3>4 DEF ClearInv
    <3>6. ASSUME NEW d \in Callers, call'[d].at = "store"
          PROVE  call'[d].body >= announced'[call'[d].page][call'[d].addr]
      <4>1. /\ d # c /\ call'[d] = call[d] /\ call[d].at = "store" /\ CallInv(d)
            /\ call[d].page \in Pages /\ call[d].addr \in Addresses
        BY <3>1, <3>6 DEF CallsInv, CallInv, Visiting
      <4>2. Filling(call[d].page, call[d].addr)
        BY <4>1 DEF Filling
      <4>3. announced'[call[d].page][call[d].addr] = announced[call[d].page][call[d].addr]
        BY <3>4, <4>1, <4>2
      <4>4. QED
        BY <4>1, <4>3 DEF ClearInv
    <3>7. ASSUME NEW a \in Addresses, cache'[a] # None
          PROVE  cache'[a].body >= announced'[cache'[a].page][a]
      <4>1. a \notin Keys(c) /\ cache'[a] = cache[a]
        BY <3>2, <3>7
      <4>2. cache[a] \in Entry /\ cache[a].page \in Pages
        BY <3>7, <4>1 DEF DataType, Entry
      <4>3. announced'[cache[a].page][a] = announced[cache[a].page][a]
        BY <3>4, <4>1, <4>2
      <4>4. QED
        BY <3>7, <4>1, <4>3 DEF ClearInv
    <3>8. QED
      BY <3>5, <3>6, <3>7 DEF ClearInv
  <2>4. QED
    BY <1>2, <2>1, <2>2, <2>3, MoveKinds
<1>3. QED
  BY <1>1, <1>2, StepSplits

-----------------------------------------------------------------------------
(* What visitors are served *)

\* What a visitor has seen so far: what is public now was shown, and a rival
\* is still there.
ServedInv ==
  \A c \in Callers : call[c].at \in Visiting =>
    /\ Visible(c) \subseteq shown[c] /\ rivals[c] \subseteq NamedHere(c)
    /\ call[c].at = "uid" => rivals[c] = {}
    /\ call[c].at = "store" => call[c].page \in shown[c] /\ rivals[c] \subseteq {call[c].page}

\* A page found is public, and by its slug it is the only one.
LEMMA FoundIsPublic ==
  ASSUME DataType, CallsInv, ServedInv, NEW c \in Callers, call[c].at \in {"slug", "uid"},
         NEW p \in Found(c) \ inactive
  PROVE  p \in Visible(c) /\ rivals[c] \subseteq {p}
<1>1. call[c].addr \in Addresses
  BY DEF CallsInv, CallInv, Visiting
<1>2. p \in Visible(c)
  BY DEF Found, Named, Visible, Public, Holds, DataType
<1>3. CASE call[c].at = "uid"
  BY <1>2, <1>3 DEF ServedInv, Visiting
<1>4. CASE call[c].at = "slug"
  <2>1. p \in kept /\ slug[p] = call[c].addr
    BY <1>4 DEF Found, Named
  <2>2. \A q \in NamedHere(c) : q \in kept /\ slug[q] = call[c].addr
    BY DEF NamedHere, Visible, Public
  <2>3. \A q \in NamedHere(c) : q = p
    BY <2>1, <2>2 DEF DataType
  <2>4. QED
    BY <1>2, <1>4, <2>3 DEF ServedInv, Visiting
<1>5. QED
  BY <1>3, <1>4

LEMMA NextServed ==
  ASSUME DataType, CallsInv, ServedInv, Step, Watch
  PROVE  ServedInv'
<1>0. SUFFICES ASSUME NEW c \in Callers, call'[c].at \in Visiting
               PROVE  /\ call'[c].at = "uid" => rivals'[c] = {}
                      /\ call'[c].at = "store" =>
                           call'[c].page \in shown'[c] /\ rivals'[c] \subseteq {call'[c].page}
  BY Watched DEF ServedInv
<1>1. CASE call'[c] = call[c]
  <2>1. shown[c] \subseteq shown'[c] /\ rivals'[c] \subseteq rivals[c]
    BY <1>0, <1>1, Watched DEF Visiting
  <2>2. QED
    BY <1>0, <1>1, <2>1 DEF ServedInv
<1>2. CASE Move(c)
  <2>1. CASE call'[c].at = "store"
    <3>1. PICK p \in Found(c) \ inactive : call'[c].page = p
      BY <1>2, <2>1, AboutToStore
    <3>2. call[c].at \in {"slug", "uid"}
      BY <1>2, <2>1, OnlyByQuery
    <3>3. p \in Visible(c) /\ rivals[c] \subseteq {p}
      BY <3>2, FoundIsPublic
    <3>4. /\ Visible(c) \subseteq shown[c]
          /\ shown[c] \subseteq shown'[c] /\ rivals'[c] \subseteq rivals[c]
      BY <1>0, <3>2, Watched DEF ServedInv, Visiting
    <3>5. QED
      BY <2>1, <3>1, <3>3, <3>4
  <2>2. CASE call'[c].at = "uid"
    <3>1. /\ Named(call[c].addr) \ archived = {} /\ call'[c].addr = call[c].addr
          /\ UNCHANGED <<kept, slug, inactive, archived>>
      BY <1>2, <2>2, AboutToAsk, OnlyByQuery DEF pageVars
    <3>2. NamedHere(c)' \subseteq Named(call[c].addr) \ archived
      BY <3>1 DEF NamedHere, Visible, Public, Named
    <3>3. rivals'[c] = {}
      BY <1>0, <3>1, <3>2, Watched
    <3>4. QED
      BY <2>2, <3>3
  <2>3. QED
    BY <2>1, <2>2
<1>3. call'[c] = call[c] \/ Move(c)
  BY StepSplits, MoveCalls, OutsideData
<1>4. QED
  BY <1>1, <1>2, <1>3

\* Who answers from the cache has just checked the page.
LEMMA AnswersChecked ==
  ASSUME DataType, CallsInv, ServedInv, NEW c \in Callers, Move(c),
         call[c].at = "live", call'[c].at = "idle"
  PROVE  call[c].page \in shown[c] /\ rivals[c] \subseteq {call[c].page}
<1>1. CallInv(c) /\ call \in [Callers -> Calls] /\ call[c] \in Calls
  BY DEF CallsInv
<1>2. \A at, p, a, w : ~Start(c, at, p, a, w)
  BY DEF Start
<1>3. ~\/ \E a \in Addresses : Visit(c, a)
       \/ \E s \in Slugs, what \in {"page", "default"} : Create(c, s, what)
       \/ \E s \in Slugs : CreateDefault(c, s)
  BY <1>2 DEF Visit, Create, CreateDefault
<1>4. ~\/ \E p \in Pages : Switch(c, p) \/ Archive(c, p) \/ Touch(c, p) \/ Remove(c, p)
       \/ \E p \in Pages, s \in Slugs, status \in {"active", "inactive"} : Edit(c, p, s, status)
  BY <1>2 DEF Switch, Archive, Touch, Change, Remove, Edit
<1>5. ~Look(c) /\ ~Store(c) /\ ~Lock(c) /\ ~Count(c) /\ ~Write(c) /\ ~Delete(c) /\ ~Clear(c)
  BY DEF Look, Store, Lock, Count, Write, Delete, Clear
<1>6. ~(\E p \in Pages : Insert(c, p) \/ InsertDefault(c, p))
  BY DEF Insert, InsertDefault
<1>7. ~Query(c)
  BY Zenon DEF Query
<1>8. Check(c)
  BY <1>3, <1>4, <1>5, <1>6, <1>7 DEF Move, Advance
<1>9. ASSUME call' = [call EXCEPT ![c].at = "slug", ![c].page = None]
      PROVE  FALSE
  BY <1>1, <1>9 DEF Calls
<1>10. Live(call[c].page, call[c].addr)
  BY <1>8, <1>9 DEF Check
<1>11. call[c].page \in Visible(c) /\ NamedHere(c) \subseteq {call[c].page}
  BY <1>1, <1>10 DEF Live, CallInv, Visible, NamedHere, Named, Public
<1>12. QED
  BY <1>11 DEF ServedInv, Visiting

-----------------------------------------------------------------------------
(* The invariant and what follows from it *)

LinktreesInv ==
  DataType /\ CallsInv /\ ShownType /\ LimitInv /\ ClearInv /\ ServedInv

LEMMA InitInv == Init => LinktreesInv
<1> SUFFICES ASSUME Init PROVE LinktreesInv
  OBVIOUS
<1> USE LinktreesAssumption DEF LinktreesAssumption, Init
<1>1. Idle \in Calls /\ Idle.at = "idle"
  BY DEF Idle, Calls, Points
<1>2. DataType
  BY DEF DataType
<1>3. \A c \in Callers : call[c] = Idle
  OBVIOUS
<1>4. CallsInv
  BY <1>1, <1>3 DEF CallsInv, CallInv, Visiting, Naming
<1>5. ShownType
  BY DEF ShownType
<1>6. Cardinality(Counted) = 0
  BY FS_EmptySet DEF Counted
<1>7. LimitInv
  BY <1>1, <1>3, <1>6 DEF LimitInv
<1>8. ClearInv
  BY <1>1, <1>3 DEF ClearInv
<1>9. ServedInv
  BY <1>1, <1>3 DEF ServedInv, Visiting
<1>10. QED
  BY <1>2, <1>4, <1>5, <1>7, <1>8, <1>9 DEF LinktreesInv

LEMMA NextInv == LinktreesInv /\ [Next]_vars => LinktreesInv'
<1> SUFFICES ASSUME LinktreesInv, [Next]_vars PROVE LinktreesInv'
  OBVIOUS
<1>1. CASE UNCHANGED vars
  BY <1>1 DEF vars, pageVars, LinktreesInv, DataType, CallsInv, CallInv, ShownType, LimitInv,
              Counted, ClearInv, ServedInv, Visible, NamedHere, Public, Holds
<1>2. CASE Step /\ Watch
  <2>1. DataType' /\ CallsInv'
    <3>1. ASSUME Outside
          PROVE  DataType' /\ CallsInv'
      BY <3>1, OutsideData DEF LinktreesInv, CallsInv, CallInv
    <3>2. QED
      BY <1>2, <3>1, StepSplits, MoveData, MoveCalls DEF LinktreesInv
  <2>2. QED
    BY <1>2, <2>1, WatchedType, NextLimit, NextClear, NextServed DEF LinktreesInv
<1>3. QED
  BY <1>1, <1>2 DEF Next

\* Everything the proof knows of a reachable state.
THEOREM LinktreesInvariant == Spec => []LinktreesInv
BY InitInv, NextInv, PTL DEF Spec

\* The rows, the cache and the calls keep their types, no two pages of a
\* business have the same slug, and at most one is the default page (the
\* unique indexes of linktrees).
THEOREM TypeCorrect == Spec => []TypeOK
<1>1. LinktreesInv => TypeOK
  BY TypeParts DEF LinktreesInv, CallsInv, ShownType
<1>2. QED
  BY <1>1, LinktreesInvariant, PTL

\* However many create and copy at once: the lock and the count under it keep
\* the pages within the plan, while nothing was imported (createLinktree,
\* duplicateLinktree).
THEOREM PagesStayWithinLimit == Spec => []PagesWithinLimit
<1>1. LinktreesInv => PagesWithinLimit
  BY DEF LinktreesInv, LimitInv, Counted, PagesWithinLimit
<1>2. QED
  BY <1>1, LinktreesInvariant, PTL

\* What a change has cleared is not cached again in an older version, unless a
\* visitor was about to write it (clearLinktreeCache, setCached).
THEOREM ClearingLasts == Spec => []ClearedStaysCleared
<1>1. LinktreesInv => ClearedStaysCleared
  BY DEF LinktreesInv, ClearInv, ClearedStaysCleared
<1>2. QED
  BY <1>1, LinktreesInvariant, PTL

\* A visitor is never served a page that was not public at the address during
\* the request, or that another page's slug hid all the time
\* (getPublicLinktreeByUidAndSubdomain).
THEOREM ServedPagesArePublic == Spec => ServedIsPublic
<1>1. ASSUME LinktreesInv, [Next]_vars
      PROVE  [\A c \in Callers :
                call[c].at \in {"live", "store"} /\ call'[c].at = "idle" =>
                  /\ call[c].page \in shown[c]
                  /\ rivals[c] \subseteq {call[c].page}]_vars
  <2>1. SUFFICES ASSUME Step, NEW c \in Callers,
                        call[c].at \in {"live", "store"}, call'[c].at = "idle"
                 PROVE  call[c].page \in shown[c] /\ rivals[c] \subseteq {call[c].page}
    BY <1>1 DEF Next
  <2>2. Move(c)
    BY <1>1, <2>1, StepSplits, MoveCalls, OutsideData DEF LinktreesInv
  <2>3. CASE call[c].at = "live"
    BY <1>1, <2>1, <2>2, <2>3, AnswersChecked DEF LinktreesInv
  <2>4. CASE call[c].at = "store"
    BY <1>1, <2>4 DEF LinktreesInv, ServedInv, Visiting
  <2>5. QED
    BY <2>1, <2>3, <2>4
<1>2. QED
  BY <1>1, LinktreesInvariant, PTL DEF Spec, ServedIsPublic
=============================================================================
