-------------------------- MODULE MediaStorageProofs --------------------------
(***************************************************************************)
(* Theorems about uploaded media: what the cleanup may delete.  The second *)
(* part is about the forms that hold such media.                           *)
(***************************************************************************)
EXTENDS MediaStorage, Forms, TLAPS

\* Only uploads that are known are at hand, and only those a record has held
\* are replaced or restored.
CallInv ==
  \A c \in Callers :
    /\ asset[c] \in known \cup {NoAsset}
    /\ replaced[c] \in saved \cup {NoAsset}
    /\ pc[c] = "restore" => asset[c] \in saved
    /\ pc[c] = "inventory" => asset[c] # NoAsset

HeldInv ==
  /\ file \subseteq known /\ row \subseteq known
  /\ \A r \in Records : refs[r] \in saved \cup {NoAsset}
  /\ CallInv
  /\ \A p \in Processes :
       /\ listing[p] \subseteq known /\ batch[p] \subseteq known
       /\ target[p] \in known \cup {NoAsset}

\* What a cleanup has selected is old, used before, or gone; what it is about
\* to strike from the inventory is used before or gone.
GraceInv ==
  \A p \in Processes :
    /\ \A a \in (batch[p] \cup {target[p]}) \cap file : a \in aged \cup saved
    /\ stage[p] = "forget" /\ target[p] \in file => target[p] \in saved

MediaInv == TypeOK /\ HeldInv /\ GraceInv

-----------------------------------------------------------------------------
(* Calls *)

LEMMA SomeRecordType == SomeRecord \in Records
BY MediaAssumption DEF MediaAssumption, SomeRecord

LEMMA EnterType ==
  ASSUME TypeOK, NEW c \in Callers, NEW r \in Records,
         NEW p \in {"inventory", "commit", "restore"},
         NEW new \in Assets \cup {NoAsset}, NEW old \in Assets \cup {NoAsset},
         Enter(c, p, r, new, old)
  PROVE  /\ pc' \in [Callers -> {"idle", "inventory", "commit", "restore",
                                 "lookup", "unlink", "forget"}]
         /\ record' \in [Callers -> Records]
         /\ asset' \in [Callers -> Assets \cup {NoAsset}]
         /\ replaced' \in [Callers -> Assets \cup {NoAsset}]
BY DEF TypeOK, Enter

LEMMA ReturnType ==
  ASSUME TypeOK, NEW c \in Callers,
         \/ Return(c)
         \/ \E p \in {"inventory", "lookup", "unlink", "forget"} : Goto(c, p)
  PROVE  /\ pc' \in [Callers -> {"idle", "inventory", "commit", "restore",
                                 "lookup", "unlink", "forget"}]
         /\ record' \in [Callers -> Records]
         /\ asset' \in [Callers -> Assets \cup {NoAsset}]
         /\ replaced' \in [Callers -> Assets \cup {NoAsset}]
<1>1. CASE Return(c)
  BY <1>1, SomeRecordType DEF TypeOK, Return
<1>2. ASSUME NEW p \in {"inventory", "lookup", "unlink", "forget"}, Goto(c, p)
      PROVE  /\ pc' \in [Callers -> {"idle", "inventory", "commit", "restore",
                                     "lookup", "unlink", "forget"}]
             /\ UNCHANGED <<record, asset, replaced>>
  BY <1>2 DEF TypeOK, Goto
<1>3. QED
  BY <1>1, <1>2 DEF TypeOK

\* A call that takes up an upload, and one that goes on or ends.
LEMMA EnterHeld ==
  ASSUME TypeOK, CallInv, NEW c \in Callers, NEW r, NEW p, NEW new, NEW old,
         Enter(c, p, r, new, old),
         known \subseteq known', saved \subseteq saved',
         new \in known' \cup {NoAsset}, old \in saved' \cup {NoAsset},
         p = "restore" => new \in saved',
         p = "inventory" => new # NoAsset
  PROVE  CallInv'
BY DEF TypeOK, CallInv, Enter

LEMMA ReturnHeld ==
  ASSUME TypeOK, CallInv, NEW c \in Callers,
         \/ Return(c)
         \/ \E p \in {"lookup", "unlink", "forget"} : Goto(c, p),
         known \subseteq known', saved \subseteq saved'
  PROVE  CallInv'
<1>1. CASE Return(c)
  BY <1>1 DEF TypeOK, CallInv, Return
<1>2. ASSUME NEW p \in {"lookup", "unlink", "forget"}, Goto(c, p)
      PROVE  CallInv'
  BY <1>2 DEF TypeOK, CallInv, Goto
<1>3. QED
  BY <1>1, <1>2

\* Nothing a cleanup relies on changes for the worse.
LEMMA GraceKept ==
  ASSUME TypeOK, HeldInv, GraceInv, UNCHANGED <<batch, target, stage>>,
         file' \ saved' \subseteq file, saved \subseteq saved',
         aged \ saved \subseteq aged'
  PROVE  GraceInv'
BY DEF GraceInv

LEMMA CallMedia ==
  ASSUME MediaInv, NEW c \in Callers,
         \/ RecordAsset(c) \/ Commit(c) \/ Restore(c)
         \/ Lookup(c) \/ Unlink(c) \/ Forget(c) \/ Abandon(c)
  PROVE  MediaInv'
<1> USE DEF MediaInv
<1>1. CASE RecordAsset(c)
  <2>1. Return(c) \/ Goto(c, "lookup")
    BY <1>1 DEF RecordAsset, Sweep
  <2>2. /\ asset[c] \in known /\ row' \in {row, row \cup {asset[c]}}
        /\ faults' \in Nat
    BY <1>1, MediaAssumption DEF TypeOK, HeldInv, CallInv, RecordAsset, Fault, MediaAssumption
  <2>3. TypeOK'
    BY <1>1, <2>1, <2>2, ReturnType DEF TypeOK, RecordAsset, cleanVars
  <2>4. HeldInv'
    BY <1>1, <2>1, <2>2, ReturnHeld DEF HeldInv, RecordAsset, cleanVars
  <2>5. GraceInv'
    BY <1>1, GraceKept DEF RecordAsset, cleanVars
  <2>6. QED
    BY <2>3, <2>4, <2>5
<1>2. CASE Commit(c)
  <2>1. Return(c) \/ Goto(c, "lookup")
    BY <1>2 DEF Commit, Sweep
  <2>2. /\ saved' = saved \cup ({asset[c]} \ {NoAsset}) /\ saved' \subseteq known
        /\ record[c] \in Records /\ asset[c] \in saved' \cup {NoAsset}
    BY <1>2 DEF TypeOK, HeldInv, CallInv, Commit
  <2>3. TypeOK'
    BY <1>2, <2>1, <2>2, ReturnType DEF TypeOK, Commit, cleanVars
  <2>4. \A r \in Records : refs'[r] \in saved' \cup {NoAsset}
    BY <1>2, <2>2 DEF TypeOK, HeldInv, Commit
  <2>5. HeldInv'
    BY <1>2, <2>1, <2>2, <2>4, ReturnHeld DEF HeldInv, Commit, cleanVars
  <2>6. GraceInv'
    BY <1>2, GraceKept DEF Commit, cleanVars
  <2>7. QED
    BY <2>3, <2>5, <2>6
<1>3. CASE Restore(c)
  <2>1. /\ asset[c] \in saved /\ file' = file \cup {asset[c]}
        /\ Goto(c, "inventory") /\ asset[c] # NoAsset
    BY <1>3, MediaAssumption DEF TypeOK, HeldInv, CallInv, Restore, MediaAssumption
  <2>2. TypeOK'
    BY <1>3, <2>1, ReturnType DEF TypeOK, Restore, cleanVars
  <2>3. CallInv'
    BY <1>3, <2>1 DEF TypeOK, HeldInv, CallInv, Restore, Goto
  <2>4. HeldInv'
    BY <1>3, <2>1, <2>3 DEF TypeOK, HeldInv, Restore, cleanVars
  <2>5. GraceInv'
    BY <1>3, <2>1, GraceKept DEF Restore, cleanVars
  <2>6. QED
    BY <2>2, <2>4, <2>5
<1>4. CASE Lookup(c) \/ Abandon(c)
  <2>1. Return(c) \/ Goto(c, "unlink") \/ Goto(c, "forget")
    BY <1>4 DEF Lookup, Abandon, After
  <2>2. /\ UNCHANGED <<diskVars, cleanVars, same, listing>>
        /\ faults' \in Nat
    BY <1>4 DEF Lookup, Abandon, Fault, TypeOK
  <2>3. TypeOK'
    BY <2>1, <2>2, ReturnType DEF TypeOK, diskVars, cleanVars
  <2>4. HeldInv'
    BY <2>1, <2>2, ReturnHeld DEF HeldInv, diskVars, cleanVars
  <2>5. GraceInv'
    BY <2>2, GraceKept DEF diskVars, cleanVars
  <2>6. QED
    BY <2>3, <2>4, <2>5
<1>5. CASE Unlink(c)
  <2>1. /\ Return(c) \/ Goto(c, "forget")
        /\ file' \subseteq file
        /\ UNCHANGED <<row, aged, refs, known, saved, cleanVars, same, listing, faults>>
    BY <1>5 DEF Unlink
  <2>2. TypeOK'
    BY <2>1, ReturnType DEF TypeOK, cleanVars
  <2>3. HeldInv'
    BY <2>1, ReturnHeld DEF HeldInv, cleanVars
  <2>4. GraceInv'
    BY <2>1, GraceKept DEF cleanVars
  <2>5. QED
    BY <2>2, <2>3, <2>4
<1>6. CASE Forget(c)
  <2>1. /\ row' \in {row, row \ {replaced[c]}} /\ aged' \in {aged, aged \ {replaced[c]}}
        /\ aged' \subseteq row' /\ same' \in [Processes -> SUBSET Assets]
        /\ faults' \in Nat
    BY <1>6 DEF TypeOK, Forget, DropRow, Fault
  <2>2. TypeOK'
    BY <1>6, <2>1, ReturnType DEF TypeOK, Forget, cleanVars
  <2>3. HeldInv'
    BY <1>6, <2>1, ReturnHeld DEF HeldInv, Forget, cleanVars
  <2>4. aged \ saved \subseteq aged'
    BY <2>1, MediaAssumption DEF TypeOK, HeldInv, CallInv, MediaAssumption
  <2>5. GraceInv'
    BY <1>6, <2>4, GraceKept DEF Forget, cleanVars
  <2>6. QED
    BY <2>2, <2>3, <2>5
<1>7. QED
  BY <1>1, <1>2, <1>3, <1>4, <1>5, <1>6

LEMMA EnterMedia ==
  ASSUME MediaInv, NEW c \in Callers, NEW r \in Records, NEW a \in Assets \cup {NoAsset},
         \/ a \in Assets /\ Upload(c, a)
         \/ Save(c, r, a)
         \/ a \in Assets /\ Import(c, r, a)
  PROVE  MediaInv'
<1> USE DEF MediaInv
<1>1. CASE a \in Assets /\ Upload(c, a)
  <2>1. /\ a \notin known /\ file' = file \cup {a} /\ known' = known \cup {a}
        /\ Enter(c, "inventory", SomeRecord, a, NoAsset)
    BY <1>1 DEF Upload
  <2>2. TypeOK'
    BY <1>1, <2>1, EnterType, SomeRecordType DEF TypeOK, Upload, cleanVars
  <2>3. CallInv'
    BY <1>1, <2>1, EnterHeld, MediaAssumption DEF HeldInv, Upload, MediaAssumption
  <2>4. HeldInv'
    BY <1>1, <2>1, <2>3 DEF HeldInv, Upload, cleanVars
  <2>5. \A p \in Processes : a \notin batch[p] \cup {target[p]}
    BY <1>1, <2>1, MediaAssumption DEF HeldInv, MediaAssumption
  <2>6. GraceInv'
    BY <1>1, <2>1, <2>5 DEF GraceInv, Upload, cleanVars
  <2>7. QED
    BY <2>2, <2>4, <2>6
<1>2. CASE Save(c, r, a)
  <2>1. PICK old \in {NoAsset, refs[r]} : Enter(c, "commit", r, a, old)
    BY <1>2 DEF Save
  <2>2. a \in known \cup {NoAsset} /\ old \in saved \cup {NoAsset}
    BY <1>2, <2>1 DEF HeldInv, Save
  <2>3. TypeOK'
    BY <1>2, <2>1, <2>2, EnterType DEF TypeOK, Save, diskVars, cleanVars
  <2>4. CallInv'
    BY <1>2, <2>1, <2>2, EnterHeld DEF HeldInv, Save, diskVars
  <2>5. HeldInv'
    BY <1>2, <2>4 DEF HeldInv, Save, diskVars, cleanVars
  <2>6. GraceInv'
    BY <1>2, GraceKept DEF Save, diskVars, cleanVars
  <2>7. QED
    BY <2>3, <2>5, <2>6
<1>3. CASE a \in Assets /\ Import(c, r, a)
  <2>1. /\ Enter(c, "restore", r, a, refs[r]) /\ a \in known
        /\ refs[r] \in saved \cup {NoAsset} /\ saved' = saved \cup {a}
    BY <1>3 DEF HeldInv, Import
  <2>2. TypeOK'
    BY <1>3, <2>1, EnterType DEF TypeOK, Import, cleanVars
  <2>3. CallInv'
    BY <1>3, <2>1, EnterHeld DEF HeldInv, Import
  <2>4. HeldInv'
    BY <1>3, <2>1, <2>3 DEF TypeOK, HeldInv, Import, cleanVars
  <2>5. GraceInv'
    BY <1>3, <2>1, GraceKept DEF Import, cleanVars
  <2>6. QED
    BY <2>2, <2>4, <2>5
<1>4. QED
  BY <1>1, <1>2, <1>3

-----------------------------------------------------------------------------
(* Cleanups and processes *)

LEMMA CallUntouched ==
  ASSUME CallInv, UNCHANGED <<callVars, known, saved>>
  PROVE  CallInv'
BY DEF CallInv, callVars

LEMMA FinishMedia ==
  ASSUME MediaInv, NEW p \in Processes, Finish(p),
         UNCHANGED <<diskVars, callVars>>, up' \subseteq Processes, faults' \in Nat,
         \/ UNCHANGED listing
         \/ listing' = [listing EXCEPT ![p] = {}]
  PROVE  MediaInv'
<1> USE DEF MediaInv
<1>1. TypeOK'
  BY DEF TypeOK, Finish, Stage, diskVars, callVars
<1>2. HeldInv'
  BY CallUntouched DEF TypeOK, HeldInv, Finish, diskVars
<1>3. \A q \in Processes :
        /\ q # p => UNCHANGED <<batch[q], target[q], stage[q]>>
        /\ q = p => batch'[q] = {} /\ target'[q] = NoAsset /\ stage'[q] = "idle"
  BY DEF TypeOK, Finish, Stage
<1>4. NoAsset \notin file
  BY MediaAssumption DEF TypeOK, MediaAssumption
<1>5. GraceInv'
  BY <1>3, <1>4 DEF GraceInv, diskVars
<1>6. QED
  BY <1>1, <1>2, <1>5

LEMMA ThrowMedia ==
  ASSUME MediaInv, NEW p \in Processes, Throw(p),
         UNCHANGED <<diskVars, callVars>>, faults' \in Nat
  PROVE  MediaInv'
<1>1. up' \subseteq Processes
  BY DEF MediaInv, TypeOK, Throw
<1>2. QED
  BY <1>1, FinishMedia DEF Throw

LEMMA CleanMedia ==
  ASSUME MediaInv, NEW p \in Processes, Clean(p)
  PROVE  MediaInv'
<1> USE DEF MediaInv
<1>1. CASE Select(p)
  <2>1. PICK picked \in SUBSET Unreferenced :
          /\ batch' = [batch EXCEPT ![p] = picked]
          /\ same' = [same EXCEPT ![p] = picked]
          /\ full' = [full EXCEPT ![p] = Cardinality(picked) = Batch]
    BY <1>1 DEF Select
  <2>2. PICK f \in BOOLEAN : forced' = [forced EXCEPT ![p] = f]
    BY <1>1 DEF Select
  <2>3. /\ picked \subseteq aged /\ stage' = [stage EXCEPT ![p] = "next"]
        /\ UNCHANGED <<diskVars, callVars, up, target, listing, faults>>
    BY <1>1 DEF Select, Stage, Unreferenced
  <2>4. full' \in [Processes -> BOOLEAN]
    BY <2>1 DEF TypeOK
  <2>5. TypeOK'
    BY <2>1, <2>2, <2>3, <2>4 DEF TypeOK, diskVars, callVars
  <2>6. HeldInv'
    BY <2>1, <2>3, CallUntouched DEF TypeOK, HeldInv, diskVars
  <2>7. GraceInv'
    BY <2>1, <2>3 DEF TypeOK, GraceInv, diskVars
  <2>8. QED
    BY <2>5, <2>6, <2>7
<1>2. CASE Exhausted(p)
  BY <1>2, FinishMedia DEF Exhausted, TypeOK
<1>3. CASE Pick(p)
  <2>1. CASE Stage(p, "select") /\ UNCHANGED <<forced, batch, same, full, target>>
    <3>1. TypeOK' /\ HeldInv'
      BY <1>3, <2>1, CallUntouched DEF TypeOK, HeldInv, Pick, Stage, diskVars, callVars
    <3>2. GraceInv'
      BY <1>3, <2>1 DEF TypeOK, GraceInv, Pick, Stage, diskVars
    <3>3. QED
      BY <3>1, <3>2
  <2>2. CASE Finish(p)
    BY <1>3, <2>2, FinishMedia DEF Pick, TypeOK
  <2>3. ASSUME NEW a \in batch[p],
               target' = [target EXCEPT ![p] = a],
               Stage(p, IF a \in file THEN "unlink" ELSE "forget"),
               UNCHANGED <<forced, batch, same, full>>
        PROVE  MediaInv'
    <3>1. a \in known /\ a \in Assets
      BY DEF HeldInv, TypeOK
    <3>2. TypeOK'
      BY <1>3, <2>3, <3>1 DEF TypeOK, Pick, Stage, diskVars, callVars
    <3>3. HeldInv'
      BY <1>3, <2>3, <3>1, CallUntouched DEF TypeOK, HeldInv, Pick, diskVars
    <3>4. GraceInv'
      BY <1>3, <2>3 DEF TypeOK, GraceInv, Pick, Stage, diskVars
    <3>5. QED
      BY <3>2, <3>3, <3>4
  <2>4. QED
    BY <1>3, <2>1, <2>2, <2>3 DEF Pick
<1>4. CASE CleanUnlink(p)
  <2>1. CASE target[p] \in file
    <3>1. /\ file' = file \ {target[p]} /\ stage' = [stage EXCEPT ![p] = "forget"]
          /\ UNCHANGED <<up, forced, batch, same, full, target, listing>>
          /\ UNCHANGED <<row, aged, refs, known, saved, callVars, faults>>
      BY <1>4, <2>1 DEF CleanUnlink, Stage
    <3>2. TypeOK'
      BY <3>1 DEF TypeOK, callVars
    <3>3. HeldInv'
      BY <3>1, CallUntouched DEF HeldInv
    <3>4. GraceInv'
      BY <3>1 DEF TypeOK, GraceInv
    <3>5. QED
      BY <3>2, <3>3, <3>4
  <2>2. CASE target[p] \notin file
    BY <1>4, <2>2, ThrowMedia DEF CleanUnlink, TypeOK, diskVars
  <2>3. QED
    BY <2>1, <2>2
<1>5. CASE CleanForget(p)
  <2>1. CASE Fault /\ Throw(p) /\ UNCHANGED <<row, aged>>
    BY <1>5, <2>1, ThrowMedia DEF CleanForget, TypeOK, Fault, diskVars
  <2>2. CASE /\ IF target[p] \in same[p] THEN DropRow(target[p])
                ELSE UNCHANGED <<row, aged, same>>
             /\ batch' = [batch EXCEPT ![p] = @ \ {target[p]}]
             /\ target' = [target EXCEPT ![p] = NoAsset]
             /\ Stage(p, "next")
             /\ UNCHANGED <<up, forced, full, listing, faults>>
    <3>1. /\ row' \in {row, row \ {target[p]}} /\ aged' \in {aged, aged \ {target[p]}}
          /\ aged' \subseteq row' /\ same' \in [Processes -> SUBSET Assets]
      BY <2>2 DEF TypeOK, DropRow
    <3>2. TypeOK'
      BY <1>5, <2>2, <3>1 DEF TypeOK, CleanForget, Stage, callVars
    <3>3. HeldInv'
      BY <1>5, <2>2, <3>1, CallUntouched DEF TypeOK, HeldInv, CleanForget
    <3>4. target[p] \notin file \/ target[p] \in saved
      BY <1>5 DEF GraceInv, CleanForget
    <3>5. /\ \A q \in Processes : batch'[q] \subseteq batch[q]
          /\ target'[p] = NoAsset /\ stage'[p] = "next"
          /\ \A q \in Processes : q # p => target'[q] = target[q] /\ stage'[q] = stage[q]
      BY <2>2 DEF TypeOK, Stage
    <3>6. NoAsset \notin file /\ UNCHANGED <<file, saved>>
      BY <1>5, MediaAssumption DEF TypeOK, MediaAssumption, CleanForget
    <3>7. GraceInv'
      BY <3>1, <3>4, <3>5, <3>6 DEF GraceInv
    <3>8. QED
      BY <3>2, <3>3, <3>7
  <2>3. QED
    BY <1>5, <2>1, <2>2 DEF CleanForget
<1>6. QED
  BY <1>1, <1>2, <1>3, <1>4, <1>5 DEF Clean

LEMMA ProcessMedia ==
  ASSUME MediaInv, NEW p \in Processes, Crash(p) \/ Start(p) \/ Inventory(p)
  PROVE  MediaInv'
<1> USE DEF MediaInv
<1>1. CASE Crash(p)
  <2>1. /\ Finish(p) /\ UNCHANGED <<diskVars, callVars>>
        /\ listing' = [listing EXCEPT ![p] = {}]
        /\ up' \subseteq Processes /\ faults' \in Nat
    BY <1>1 DEF TypeOK, Crash, Fault
  <2>2. QED
    BY <2>1, FinishMedia
<1>2. CASE Start(p)
  <2>1. TypeOK'
    BY <1>2 DEF TypeOK, Start, diskVars, callVars
  <2>2. HeldInv'
    BY <1>2, CallUntouched DEF TypeOK, HeldInv, Start, diskVars
  <2>3. GraceInv'
    BY <1>2, GraceKept DEF Start, diskVars
  <2>4. QED
    BY <2>1, <2>2, <2>3
<1>3. CASE Inventory(p)
  <2>1. /\ row' \in {row, row \cup listing[p]} /\ faults' \in Nat
        /\ listing' = [listing EXCEPT ![p] = {}]
        /\ UNCHANGED <<file, aged, refs, known, saved, callVars, cleanVars, same>>
    BY <1>3 DEF TypeOK, Inventory, Fault
  <2>2. TypeOK'
    BY <2>1 DEF TypeOK, callVars, cleanVars
  <2>3. HeldInv'
    BY <2>1, CallUntouched DEF TypeOK, HeldInv, cleanVars
  <2>4. GraceInv'
    BY <2>1, GraceKept DEF cleanVars
  <2>5. QED
    BY <2>2, <2>3, <2>4
<1>4. QED
  BY <1>1, <1>2, <1>3

-----------------------------------------------------------------------------
LEMMA InitMedia == Init => MediaInv
<1> SUFFICES ASSUME Init
             PROVE  MediaInv
  OBVIOUS
<1>1. TypeOK
  BY SomeRecordType DEF Init, TypeOK
<1>2. HeldInv
  BY DEF Init, HeldInv, CallInv
<1>3. GraceInv
  BY DEF Init, GraceInv
<1>4. QED
  BY <1>1, <1>2, <1>3 DEF MediaInv

LEMMA NextMedia == MediaInv /\ [Next]_vars => MediaInv'
<1> SUFFICES ASSUME MediaInv, [Next]_vars
             PROVE  MediaInv'
  OBVIOUS
<1>1. ASSUME NEW a \in Assets, Age(a)
      PROVE  MediaInv'
  <2>1. TypeOK'
    BY <1>1 DEF MediaInv, TypeOK, Age, callVars, cleanVars
  <2>2. HeldInv'
    BY <1>1, CallUntouched DEF MediaInv, HeldInv, Age, cleanVars
  <2>3. GraceInv'
    BY <1>1, GraceKept DEF MediaInv, Age, cleanVars
  <2>4. QED
    BY <2>1, <2>2, <2>3 DEF MediaInv
<1>2. CASE UNCHANGED vars
  <2>1. TypeOK'
    BY <1>2 DEF MediaInv, TypeOK, vars, diskVars, callVars, cleanVars
  <2>2. HeldInv'
    BY <1>2, CallUntouched DEF MediaInv, HeldInv, vars, diskVars, cleanVars
  <2>3. GraceInv'
    BY <1>2, GraceKept DEF MediaInv, vars, diskVars, cleanVars
  <2>4. QED
    BY <2>1, <2>2, <2>3 DEF MediaInv
<1>3. ASSUME NEW c \in Callers, NEW a \in Assets, Upload(c, a)
      PROVE  MediaInv'
  BY <1>3, EnterMedia, SomeRecordType
<1>4. QED
  BY <1>1, <1>2, <1>3, EnterMedia, CallMedia, CleanMedia, ProcessMedia DEF Next

-----------------------------------------------------------------------------
\* The inductive invariant: types, what is held was known or saved, and what a
\* cleanup has selected is old or used.
THEOREM MediaInvariant == Spec => []MediaInv
BY InitMedia, NextMedia, PTL DEF Spec

\* The state of the media storage keeps its types (storage.service.ts).
THEOREM TypeCorrect == Spec => []TypeOK
BY MediaInvariant, PTL DEF MediaInv

\* However many cleanups, restarts and inventories there are, a file is deleted
\* only after its grace period or after it has been in use
\* (cleanupUnusedAssets, reconcileExistingAssets, deleteImage).
THEOREM NewUploadsSurvive == Spec => NewUploadSurvives
<1>1. MediaInv /\ [Next]_vars =>
        [\A a \in file \ saved : a \in file' \/ a \in aged]_vars
  <2> SUFFICES ASSUME TypeOK, HeldInv, GraceInv, Next, NEW a \in file \ saved
               PROVE  a \in file' \/ a \in aged
    BY DEF MediaInv
  <2>1. CASE file \subseteq file'
    BY <2>1
  <2>2. ASSUME NEW c \in Callers, Unlink(c)
        PROVE  a \in file'
    <3>1. a # replaced[c]
      BY MediaAssumption DEF TypeOK, HeldInv, CallInv, MediaAssumption
    <3>2. QED
      BY <2>2, <3>1 DEF Unlink
  <2>3. ASSUME NEW p \in Processes, CleanUnlink(p)
        PROVE  a \in file' \/ a \in aged
    BY <2>3 DEF GraceInv, CleanUnlink
  <2>4. ASSUME NEW c \in Callers,
               \/ RecordAsset(c) \/ Commit(c) \/ Restore(c)
               \/ Lookup(c) \/ Forget(c) \/ Abandon(c)
        PROVE  file \subseteq file'
    BY <2>4 DEF RecordAsset, Commit, Restore, Lookup, Forget, Abandon, diskVars
  <2>5. ASSUME NEW c \in Callers, NEW r \in Records, NEW b \in Assets \cup {NoAsset},
               Upload(c, b) \/ Save(c, r, b) \/ Import(c, r, b)
        PROVE  file \subseteq file'
    BY <2>5 DEF Upload, Save, Import, diskVars
  <2>6. ASSUME NEW p \in Processes,
               \/ Select(p) \/ Exhausted(p) \/ Pick(p) \/ CleanForget(p)
               \/ Crash(p) \/ Start(p) \/ Inventory(p)
        PROVE  file \subseteq file'
    BY <2>6 DEF Select, Exhausted, Pick, CleanForget, Crash, Start, Inventory, diskVars
  <2>7. ASSUME NEW b \in Assets, Age(b)
        PROVE  file \subseteq file'
    BY <2>7 DEF Age
  <2>8. ASSUME NEW c \in Callers, NEW b \in Assets, Upload(c, b)
        PROVE  file \subseteq file'
    BY <2>8 DEF Upload
  <2>9. QED
    BY <2>1, <2>2, <2>3, <2>4, <2>5, <2>6, <2>7, <2>8 DEF Next, Clean
<1>2. QED
  BY <1>1, MediaInvariant, PTL DEF Spec, NewUploadSurvives

-----------------------------------------------------------------------------
(* The forms, which hold uploads too: for any forms, editors, visitors and *)
(* number of connections, and any bound on the saves (Forms.tla).          *)

(* Steps *)

\* What an editor does until it writes, and after it did in vain.
Compose(e) ==
  \/ \E f \in FormIds : Open(e, f)
  \/ \E a \in Addresses, d \in Definitions : SaveForm(e, a, d) \/ Create(e, a, d)
  \/ Connect(e) \/ TakeLock(e) \/ Confirm(e) \/ GiveUp(e)

\* A row is written: a new one, or one that is as its editor knew it.  No
\* other form has the title.
Written(e, f) ==
  /\ status[f] \in {"none", "active", "paused"}
  /\ status' = [status EXCEPT ![f] = draft[e].status]
  /\ address' = [address EXCEPT ![f] = draft[e].address]
  /\ definition' = [definition EXCEPT ![f] = draft[e].definition]
  /\ \E n \in Nat :
       /\ revision' = [revision EXCEPT ![f] = n]
       /\ Exists(f) => revision[f] < n
  /\ \A g \in FormIds \ {f} : Exists(g) => address[g] # draft[e].address

\* A duplicate is a form that is created.
LEMMA NextSplits ==
  ASSUME FormsNext, RowInv
  PROVE  \/ \E e \in Editors : Compose(e) \/ Write(e)
         \/ \E f \in FormIds : \/ \E s \in {"active", "paused"} : SetStatus(f, s)
                               \/ DeleteSubmissions(f) \/ Delete(f)
         \/ \E p \in Pages : Submit(p) \/ \E f \in FormIds : PublicForm(p, f)
<1>1. ASSUME NEW e \in Editors, NEW f \in FormIds, NEW a \in Addresses,
             Duplicate(e, f, a)
      PROVE  Compose(e)
  <2>1. definition[f] \in Definitions
    BY <1>1 DEF Duplicate, RowInv
  <2> QED BY <1>1, <2>1 DEF Duplicate, Compose
<1> QED BY <1>1 DEF FormsNext, Advance, Compose

LEMMA ComposeKeeps ==
  ASSUME NEW e \in Editors, Compose(e)
  PROVE  UNCHANGED <<rowVars, stored, pageVars>>
BY DEF Compose, Open, SaveForm, Create, Connect, TakeLock, Confirm, GiveUp

LEMMA WriteKinds ==
  ASSUME FormsAssumption, FormsTypeOK, DraftInv, NEW e \in Editors, Write(e)
  PROVE  /\ UNCHANGED <<stored, pageVars>>
         /\ UNCHANGED rowVars \/ \E f \in FormIds : Written(e, f)
<1>1. CASE Reserved(e)
  BY <1>1 DEF Write
<1>2. CASE ~Reserved(e)
  <2>1. ASSUME draft[e].form = Nothing, NEW f \in FormIds, status[f] = "none",
               Put(f, draft[e].status, draft[e].address, draft[e].definition, 1)
        PROVE  Written(e, f)
    <3>1. \A g \in FormIds \ {f} : Exists(g) => address[g] # draft[e].address
      BY <1>2, <2>1 DEF Reserved, FormsAssumption
    <3>2. 1 \in Nat /\ ~Exists(f)
      BY <2>1 DEF Exists
    <3> QED BY <2>1, <3>1, <3>2 DEF Written, Put
  <2>2. ASSUME draft[e].form # Nothing, Unchanged(e),
               Put(draft[e].form, status[draft[e].form], draft[e].address,
                   draft[e].definition, draft[e].revision + 1)
        PROVE  draft[e].form \in FormIds /\ Written(e, draft[e].form)
    <3>1. /\ draft[e].form \in FormIds /\ draft[e].revision \in Nat
          /\ draft[e].status \in {"active", "paused"}
      BY <2>2 DEF FormsTypeOK
    <3>2. \A g \in FormIds \ {draft[e].form} :
            Exists(g) => address[g] # draft[e].address
      BY <1>2 DEF Reserved
    <3>3. /\ draft[e].revision + 1 \in Nat
          /\ revision[draft[e].form] < draft[e].revision + 1
      BY <2>2, <3>1 DEF Unchanged
    <3> QED BY <2>2, <3>1, <3>2, <3>3 DEF Written, Put, Unchanged
  <2> QED BY <1>2, <2>1, <2>2 DEF Write
<1> QED BY <1>1, <1>2 DEF Write

-----------------------------------------------------------------------------
(* Types *)

LEMMA FormsTypeInit ==
  ASSUME FormsAssumption, FormsInit
  PROVE  FormsTypeOK
BY DEF FormsAssumption, FormsInit, FormsTypeOK, Blank

DraftType ==
  [form : FormIds \cup {Nothing}, address : Addresses \cup {Nothing},
   definition : Definitions \cup {Nothing}, revision : Nat,
   status : {"active", "paused"}]

LEMMA BlankType ==
  Blank \in DraftType
BY DEF Blank, DraftType

LEMMA EditEndType ==
  ASSUME FormsTypeOK, NEW e \in Editors, EndCall(e)
  PROVE  /\ lock' \in Editors \cup {Nobody}
         /\ step' \in [Editors -> {"idle", "editing", "connect", "lock", "write", "confirm"}]
         /\ draft' \in [Editors -> DraftType]
BY BlankType DEF FormsTypeOK, DraftType, EndCall

LEMMA FormsTypeNext ==
  ASSUME FormsAssumption, FormsTypeOK, RowInv, DraftInv, FormsNext
  PROVE  FormsTypeOK'
<1>1. ASSUME NEW e \in Editors, NEW f \in FormIds, Open(e, f)
      PROVE  FormsTypeOK'
  <2>1. revision[f] \in Nat /\ draft[e] \in DraftType
    BY DEF FormsTypeOK, DraftType
  <2>2. [draft[e] EXCEPT !.form = f, !.revision = revision[f]] \in DraftType
    BY <2>1 DEF DraftType
  <2>3. draft' = [draft EXCEPT
          ![e] = [draft[e] EXCEPT !.form = f, !.revision = revision[f]]]
    BY <1>1 DEF Open, FormsTypeOK
  <2>4. draft' \in [Editors -> DraftType]
    BY <2>2, <2>3 DEF FormsTypeOK, DraftType
  <2> QED BY <1>1, <2>4 DEF Open, FormsTypeOK, DraftType, rowVars, pageVars
<1>2. ASSUME NEW e \in Editors, NEW a \in Addresses, NEW d \in Definitions,
             SaveForm(e, a, d)
      PROVE  FormsTypeOK'
  <2>1. CASE EndCall(e) /\ UNCHANGED <<rowVars, stored, pageVars>>
    BY <2>1, EditEndType DEF FormsTypeOK, DraftType, rowVars, pageVars
  <2>2. CASE ~(EndCall(e) /\ UNCHANGED <<rowVars, stored, pageVars>>)
    <3>1. status[draft[e].form] \in {"active", "paused"}
      BY <1>2, <2>2 DEF SaveForm, Exists
    <3>2. [draft[e] EXCEPT !.address = a, !.definition = d,
                           !.status = status[draft[e].form]] \in DraftType
      <4>1. draft[e] \in DraftType
        BY DEF FormsTypeOK, DraftType
      <4> QED BY <3>1, <4>1 DEF DraftType
    <3>3. /\ step' = [step EXCEPT ![e] = "connect"]
          /\ draft' = [draft EXCEPT ![e] =
               [draft[e] EXCEPT !.address = a, !.definition = d,
                                !.status = status[draft[e].form]]]
          /\ UNCHANGED <<lock, rowVars, stored, pageVars>>
      BY <1>2, <2>2 DEF SaveForm
    <3>4. draft' \in [Editors -> DraftType]
      BY <3>2, <3>3 DEF FormsTypeOK, DraftType
    <3> QED BY <3>3, <3>4 DEF FormsTypeOK, DraftType, rowVars, pageVars
  <2> QED BY <2>1, <2>2
<1>3. ASSUME NEW e \in Editors, NEW a \in Addresses, NEW d \in Definitions,
             Create(e, a, d)
      PROVE  FormsTypeOK'
  BY <1>3, BlankType DEF Create, FormsTypeOK, DraftType, rowVars, pageVars
<1>4. ASSUME NEW e \in Editors, Connect(e) \/ TakeLock(e)
      PROVE  FormsTypeOK'
  BY <1>4 DEF Connect, TakeLock, MoveTo, FormsTypeOK, rowVars, pageVars
<1>5. ASSUME NEW e \in Editors, Confirm(e) \/ GiveUp(e)
      PROVE  FormsTypeOK'
  BY <1>5, EditEndType DEF Confirm, GiveUp, FormsTypeOK, DraftType, rowVars, pageVars
<1>6. ASSUME NEW e \in Editors, Write(e)
      PROVE  FormsTypeOK'
  <2>1. /\ status' \in [FormIds -> {"none", "active", "paused", "deleted"}]
        /\ address' \in [FormIds -> Addresses \cup {Nothing}]
        /\ definition' \in [FormIds -> Definitions \cup {Nothing}]
        /\ revision' \in [FormIds -> Nat]
    <3>1. CASE UNCHANGED rowVars
      BY <3>1 DEF rowVars, FormsTypeOK
    <3>2. ASSUME NEW f \in FormIds, Written(e, f)
          PROVE  <2>1
      <4>1. /\ draft[e].status \in {"active", "paused"}
            /\ draft[e].address \in Addresses \cup {Nothing}
            /\ draft[e].definition \in Definitions \cup {Nothing}
        BY DEF FormsTypeOK
      <4> QED BY <3>2, <4>1 DEF Written, FormsTypeOK
    <3> QED BY <1>6, <3>1, <3>2, WriteKinds
  <2>2. /\ lock' \in Editors \cup {Nobody}
        /\ step' \in [Editors -> {"idle", "editing", "connect", "lock", "write", "confirm"}]
        /\ draft' \in [Editors -> DraftType]
    <3>1. CASE EndCall(e)
      BY <3>1, EditEndType
    <3>2. CASE MoveTo(e, "confirm") /\ UNCHANGED lock
      BY <3>2 DEF MoveTo, FormsTypeOK, DraftType
    <3> QED BY <1>6, <3>1, <3>2 DEF Write
  <2> QED BY <1>6, <2>1, <2>2, WriteKinds DEF pageVars, FormsTypeOK, DraftType
<1>7. ASSUME NEW f \in FormIds, NEW s \in {"active", "paused"}, SetStatus(f, s)
      PROVE  FormsTypeOK'
  BY <1>7 DEF SetStatus, FormsTypeOK, editVars, pageVars
<1>8. ASSUME NEW f \in FormIds, DeleteSubmissions(f) \/ Delete(f)
      PROVE  FormsTypeOK'
  <2>1. stored' \in [Pages -> SUBSET [form : FormIds, definition : Definitions]]
    BY <1>8 DEF DeleteSubmissions, Delete, WithoutResponses, FormsTypeOK
  <2>2. /\ status' \in [FormIds -> {"none", "active", "paused", "deleted"}]
        /\ address' \in [FormIds -> Addresses \cup {Nothing}]
        /\ definition' \in [FormIds -> Definitions \cup {Nothing}]
        /\ revision' \in [FormIds -> Nat]
    BY <1>8 DEF DeleteSubmissions, Delete, Put, rowVars, FormsTypeOK
  <2> QED BY <1>8, <2>1, <2>2
        DEF DeleteSubmissions, Delete, FormsTypeOK, editVars, pageVars
<1>9. ASSUME NEW p \in Pages, Submit(p)
      PROVE  FormsTypeOK'
  <2>1. told' \in [Pages -> {"nothing", "lost", "stored", "refused"}]
    BY <1>9 DEF Submit, Answer, FormsTypeOK
  <2>2. stored' \in [Pages -> SUBSET [form : FormIds, definition : Definitions]]
    <3>1. ASSUME NEW f \in FormIds, Published(f, page[p].address)
          PROVE  definition[f] \in Definitions
      BY <3>1 DEF Published, Exists, RowInv
    <3> QED BY <1>9, <3>1 DEF Submit, FormsTypeOK
  <2> QED BY <1>9, <2>1, <2>2 DEF Submit, FormsTypeOK, rowVars, editVars
<1>10. ASSUME NEW p \in Pages, NEW f \in FormIds, PublicForm(p, f)
       PROVE  FormsTypeOK'
  <2>1. address[f] \in Addresses /\ definition[f] \in Definitions
    BY <1>10 DEF PublicForm, Exists, RowInv
  <2> QED BY <1>10, <2>1 DEF PublicForm, FormsTypeOK, rowVars, editVars
<1> QED BY <1>1, <1>2, <1>3, <1>4, <1>5, <1>6, <1>7, <1>8, <1>9, <1>10,
           NextSplits DEF Compose

-----------------------------------------------------------------------------
(* Rows, drafts and the lock *)

\* No two forms get one title, and what is written is complete if its form
\* is active.
LEMMA RowNext ==
  ASSUME FormsAssumption, FormsTypeOK, RowInv, DraftInv, ActiveIsComplete, FormsNext
  PROVE  RowInv' /\ ActiveIsComplete'
<1>1. ASSUME UNCHANGED rowVars
      PROVE  RowInv' /\ ActiveIsComplete'
  BY <1>1 DEF rowVars, RowInv, ActiveIsComplete, Exists
<1>2. ASSUME NEW e \in Editors, Write(e), NEW f \in FormIds, Written(e, f)
      PROVE  RowInv' /\ ActiveIsComplete'
  <2>1. /\ draft[e].address \in Addresses
        /\ draft[e].definition \in Definitions
        /\ draft[e].status \in {"active", "paused"}
        /\ draft[e].status = "active" => draft[e].definition \in Complete
    BY <1>2 DEF Write, DraftInv, FormsTypeOK
  <2>2. /\ Exists(f)'
        /\ status'[f] = draft[e].status
        /\ address'[f] = draft[e].address
        /\ definition'[f] = draft[e].definition
    BY <1>2, <2>1 DEF Written, Exists, FormsTypeOK
  <2>3. \A g \in FormIds \ {f} :
          /\ Exists(g)' <=> Exists(g)
          /\ status'[g] = status[g]
          /\ address'[g] = address[g]
          /\ definition'[g] = definition[g]
          /\ Exists(g) => address[g] # draft[e].address
    BY <1>2 DEF Written, Exists, FormsTypeOK
  <2>4. \A g \in FormIds :
          Exists(g)' => address'[g] \in Addresses /\ definition'[g] \in Definitions
    BY <2>1, <2>2, <2>3 DEF RowInv
  <2>5. ASSUME NEW g \in FormIds, NEW h \in FormIds,
               Exists(g)', Exists(h)', address'[g] = address'[h]
        PROVE  g = h
    BY <2>2, <2>3, <2>5 DEF RowInv
  <2>6. \A g \in FormIds : status'[g] = "active" => definition'[g] \in Complete
    BY <2>1, <2>2, <2>3 DEF ActiveIsComplete
  <2> QED BY <2>4, <2>5, <2>6 DEF RowInv, ActiveIsComplete
<1>3. ASSUME NEW f \in FormIds, NEW s \in {"active", "paused"}, SetStatus(f, s)
      PROVE  RowInv' /\ ActiveIsComplete'
  <2>1. \A g \in FormIds : /\ Exists(g)' <=> Exists(g)
                           /\ address'[g] = address[g]
                           /\ definition'[g] = definition[g]
    BY <1>3 DEF SetStatus, Exists, FormsTypeOK
  <2>2. \A g \in FormIds : status'[g] = "active" => definition'[g] \in Complete
    BY <1>3 DEF SetStatus, FormsTypeOK, ActiveIsComplete
  <2> QED BY <2>1, <2>2 DEF RowInv, ActiveIsComplete
<1>4. ASSUME NEW f \in FormIds, Delete(f)
      PROVE  RowInv' /\ ActiveIsComplete'
  <2>1. ~Exists(f)' /\ status'[f] # "active"
    BY <1>4 DEF Delete, Put, Exists, FormsTypeOK
  <2>2. \A g \in FormIds \ {f} :
          /\ Exists(g)' <=> Exists(g)
          /\ status'[g] = status[g]
          /\ address'[g] = address[g]
          /\ definition'[g] = definition[g]
    BY <1>4 DEF Delete, Put, Exists, FormsTypeOK
  <2> QED BY <2>1, <2>2 DEF RowInv, ActiveIsComplete
<1>5. ASSUME NEW f \in FormIds, DeleteSubmissions(f)
      PROVE  UNCHANGED rowVars
  BY <1>5 DEF DeleteSubmissions
<1>6. ASSUME NEW p \in Pages, Submit(p) \/ \E f \in FormIds : PublicForm(p, f)
      PROVE  UNCHANGED rowVars
  BY <1>6 DEF Submit, PublicForm
<1>7. ASSUME NEW e \in Editors, Compose(e) \/ Write(e)
      PROVE  RowInv' /\ ActiveIsComplete'
  <2>1. CASE Compose(e)
    <3>1. UNCHANGED rowVars
      BY <2>1, ComposeKeeps
    <3> QED BY <1>1, <3>1
  <2>2. CASE Write(e)
    BY <1>1, <1>2, <2>2, WriteKinds
  <2> QED BY <1>7, <2>1, <2>2
<1> QED BY <1>1, <1>3, <1>4, <1>5, <1>6, <1>7, NextSplits

\* What the end of a call leaves of the drafts and the lock.
LEMMA EditEndKeeps ==
  ASSUME FormsAssumption, FormsTypeOK, DraftInv, LockInv, NEW e \in Editors, EndCall(e)
  PROVE  DraftInv' /\ LockInv'
<1>1. /\ step'[e] = "idle"
      /\ \A x \in Editors \ {e} : step'[x] = step[x] /\ draft'[x] = draft[x]
  BY DEF EndCall, FormsTypeOK
<1>2. \A x \in Editors \ {e} : lock' = x <=> lock = x
  BY DEF EndCall, LockInv, FormsAssumption
<1>3. lock' # e
  BY DEF EndCall, FormsAssumption
<1> QED BY <1>1, <1>2, <1>3 DEF DraftInv, LockInv

LEMMA DraftNext ==
  ASSUME FormsAssumption, FormsTypeOK, RowInv, DraftInv, LockInv, FormsNext
  PROVE  DraftInv' /\ LockInv'
<1>1. ASSUME NEW e \in Editors, NEW f \in FormIds, Open(e, f)
      PROVE  DraftInv' /\ LockInv'
  <2>1. /\ step'[e] = "editing" /\ step[e] = "idle" /\ draft'[e].form = f
        /\ \A x \in Editors \ {e} : step'[x] = step[x] /\ draft'[x] = draft[x]
        /\ lock' = lock
    BY <1>1 DEF Open, FormsTypeOK
  <2> QED BY <2>1 DEF DraftInv, LockInv
<1>2. ASSUME NEW e \in Editors, NEW a \in Addresses, NEW d \in Definitions,
             SaveForm(e, a, d)
      PROVE  DraftInv' /\ LockInv'
  <2>1. CASE Exists(draft[e].form)
    <3>1. /\ step'[e] = "connect" /\ step[e] = "editing" /\ lock' = lock
          /\ \A x \in Editors \ {e} : step'[x] = step[x] /\ draft'[x] = draft[x]
          /\ draft'[e].address = a /\ draft'[e].definition = d
          /\ draft'[e].status = status[draft[e].form]
          /\ status[draft[e].form] = "active" => d \in Complete
      <4>1. /\ step[e] = "editing" /\ UNCHANGED lock
            /\ status[draft[e].form] = "active" => d \in Complete
            /\ step' = [step EXCEPT ![e] = "connect"]
            /\ draft' = [draft EXCEPT ![e] =
                 [draft[e] EXCEPT !.address = a, !.definition = d,
                                  !.status = status[draft[e].form]]]
        BY <1>2, <2>1 DEF SaveForm
      <4>2. draft[e] \in DraftType
        BY DEF FormsTypeOK, DraftType
      <4>3. draft'[e] = [draft[e] EXCEPT !.address = a, !.definition = d,
                                         !.status = status[draft[e].form]]
        BY <4>1 DEF FormsTypeOK
      <4>4. /\ draft'[e].address = a /\ draft'[e].definition = d
            /\ draft'[e].status = status[draft[e].form]
        BY <4>2, <4>3 DEF DraftType
      <4> QED BY <4>1, <4>4 DEF FormsTypeOK
    <3> QED BY <3>1 DEF DraftInv, LockInv
  <2>2. CASE ~Exists(draft[e].form)
    <3>1. EndCall(e)
      BY <1>2, <2>2 DEF SaveForm
    <3> QED BY <3>1, EditEndKeeps
  <2> QED BY <2>1, <2>2
<1>3. ASSUME NEW e \in Editors, NEW a \in Addresses, NEW d \in Definitions,
             Create(e, a, d)
      PROVE  DraftInv' /\ LockInv'
  <2>1. /\ step'[e] = "connect" /\ step[e] = "idle" /\ lock' = lock
        /\ \A x \in Editors \ {e} : step'[x] = step[x] /\ draft'[x] = draft[x]
        /\ draft'[e].address = a /\ draft'[e].definition = d
        /\ draft'[e].status = "active" => d \in Complete
    BY <1>3 DEF Create, Blank, FormsTypeOK
  <2> QED BY <2>1 DEF DraftInv, LockInv
<1>4. ASSUME NEW e \in Editors, Connect(e)
      PROVE  DraftInv' /\ LockInv'
  <2>1. /\ step'[e] = "lock" /\ step[e] = "connect" /\ UNCHANGED <<lock, draft>>
        /\ \A x \in Editors \ {e} : step'[x] = step[x]
    BY <1>4 DEF Connect, MoveTo, FormsTypeOK
  <2> QED BY <2>1 DEF DraftInv, LockInv
<1>5. ASSUME NEW e \in Editors, TakeLock(e)
      PROVE  DraftInv' /\ LockInv'
  <2>1. /\ step'[e] = "write" /\ step[e] = "lock" /\ UNCHANGED draft
        /\ lock = Nobody /\ lock' = e
        /\ \A x \in Editors \ {e} : step'[x] = step[x]
    BY <1>5 DEF TakeLock, MoveTo, FormsTypeOK
  <2> QED BY <2>1 DEF DraftInv, LockInv, FormsAssumption
<1>6. ASSUME NEW e \in Editors, Confirm(e) \/ GiveUp(e)
      PROVE  DraftInv' /\ LockInv'
  BY <1>6, EditEndKeeps DEF Confirm, GiveUp
<1>7. ASSUME NEW e \in Editors, Write(e)
      PROVE  DraftInv' /\ LockInv'
  <2>1. CASE EndCall(e)
    BY <2>1, EditEndKeeps
  <2>2. CASE MoveTo(e, "confirm") /\ UNCHANGED lock
    <3>1. /\ step'[e] = "confirm" /\ step[e] = "write" /\ UNCHANGED <<lock, draft>>
          /\ \A x \in Editors \ {e} : step'[x] = step[x]
      BY <1>7, <2>2 DEF Write, MoveTo, FormsTypeOK
    <3> QED BY <3>1 DEF DraftInv, LockInv
  <2> QED BY <1>7, <2>1, <2>2 DEF Write
<1>8. ASSUME UNCHANGED editVars
      PROVE  DraftInv' /\ LockInv'
  BY <1>8 DEF editVars, DraftInv, LockInv
<1>9. ASSUME NEW f \in FormIds,
             \/ \E s \in {"active", "paused"} : SetStatus(f, s)
             \/ DeleteSubmissions(f) \/ Delete(f)
      PROVE  UNCHANGED editVars
  BY <1>9 DEF SetStatus, DeleteSubmissions, Delete
<1>10. ASSUME NEW p \in Pages, Submit(p) \/ \E f \in FormIds : PublicForm(p, f)
       PROVE  UNCHANGED editVars
  BY <1>10 DEF Submit, PublicForm
<1>11. ASSUME NEW e \in Editors, Compose(e)
       PROVE  DraftInv' /\ LockInv'
  BY <1>1, <1>2, <1>3, <1>4, <1>5, <1>6, <1>11 DEF Compose
<1> QED BY <1>7, <1>8, <1>9, <1>10, <1>11, NextSplits

-----------------------------------------------------------------------------
(* What visitors see and answer *)

\* What a step of a row leaves of the forms visitors have seen.
LEMMA SeenKept ==
  ASSUME FormsTypeOK, PageInv, UNCHANGED page, revision' \in [FormIds -> Nat],
         \A p \in Pages : stored'[p] \subseteq stored[p],
         \A f \in FormIds :
           status[f] # "none" =>
             /\ status'[f] # "none"
             /\ Exists(f)' =>
                  /\ Exists(f)
                  /\ revision[f] =< revision'[f]
                  /\ revision'[f] = revision[f] => definition'[f] = definition[f]
  PROVE  PageInv'
<1>1. ASSUME NEW p \in Pages, page[p] # Nothing
      PROVE  /\ status'[page[p].form] # "none"
             /\ Exists(page[p].form)' =>
                  /\ page[p].revision =< revision'[page[p].form]
                  /\ page[p].revision = revision'[page[p].form] =>
                       page[p].definition = definition'[page[p].form]
  <2>1. page[p].form \in FormIds /\ page[p].revision \in Nat
    BY <1>1 DEF FormsTypeOK
  <2>2. /\ revision[page[p].form] \in Nat
        /\ status[page[p].form] # "none"
        /\ Exists(page[p].form) =>
             /\ page[p].revision =< revision[page[p].form]
             /\ page[p].revision = revision[page[p].form] =>
                  page[p].definition = definition[page[p].form]
    BY <1>1, <2>1 DEF FormsTypeOK, PageInv, SameRevision
  <2>3. CASE Exists(page[p].form)'
    <3>1. /\ Exists(page[p].form) /\ revision'[page[p].form] \in Nat
          /\ status'[page[p].form] # "none"
          /\ revision[page[p].form] =< revision'[page[p].form]
          /\ revision'[page[p].form] = revision[page[p].form] =>
               definition'[page[p].form] = definition[page[p].form]
      BY <2>1, <2>2, <2>3
    <3> QED BY <2>1, <2>2, <3>1
  <2>4. CASE ~Exists(page[p].form)'
    BY <2>1, <2>2, <2>4
  <2> QED BY <2>3, <2>4
<1>2. \A p \in Pages : page[p] = Nothing => stored'[p] = {}
  BY DEF PageInv
<1> QED BY <1>1, <1>2 DEF PageInv, SameRevision

\* A form that is saved gets another revision, one that is deleted is gone.
LEMMA WrittenKeepsSeen ==
  ASSUME FormsAssumption, FormsTypeOK, NEW e \in Editors, NEW f \in FormIds, Written(e, f),
         NEW g \in FormIds, status[g] # "none"
  PROVE  /\ status'[g] # "none"
         /\ Exists(g)' =>
              /\ Exists(g)
              /\ revision[g] =< revision'[g]
              /\ revision'[g] = revision[g] => definition'[g] = definition[g]
<1>1. CASE g = f
  <2>1. draft[e].status \in {"active", "paused"}
    BY DEF FormsTypeOK
  <2>2. Exists(f) /\ status'[f] = draft[e].status
    BY <1>1 DEF Written, Exists, FormsTypeOK
  <2>3. PICK n \in Nat : /\ revision' = [revision EXCEPT ![f] = n]
                         /\ Exists(f) => revision[f] < n
    BY DEF Written
  <2>4. revision[f] \in Nat /\ revision'[f] = n
    BY <2>3 DEF FormsTypeOK
  <2> QED BY <1>1, <2>1, <2>2, <2>3, <2>4
<1>2. CASE g # f
  <2>1. /\ status'[g] = status[g] /\ definition'[g] = definition[g]
        /\ revision'[g] = revision[g] /\ revision[g] \in Nat
    BY <1>2 DEF Written, FormsTypeOK
  <2> QED BY <2>1 DEF Exists
<1> QED BY <1>1, <1>2

LEMMA PageNext ==
  ASSUME FormsAssumption, FormsTypeOK, RowInv, DraftInv, PageInv, FormsNext, FormsTypeOK'
  PROVE  PageInv'
<1>0. revision' \in [FormIds -> Nat] /\ revision \in [FormIds -> Nat]
  BY DEF FormsTypeOK
<1>1. ASSUME UNCHANGED <<rowVars, page>>, \A p \in Pages : stored'[p] \subseteq stored[p]
      PROVE  PageInv'
  <2>1. \A f \in FormIds : /\ status'[f] = status[f] /\ revision'[f] = revision[f]
                           /\ definition'[f] = definition[f]
                           /\ Exists(f)' <=> Exists(f)
    BY <1>1 DEF rowVars, Exists
  <2>2. \A f \in FormIds : revision[f] =< revision'[f]
    BY <1>0, <2>1
  <2> QED BY <1>0, <1>1, <2>1, <2>2, SeenKept
<1>2. ASSUME NEW e \in Editors, Compose(e) \/ Write(e)
      PROVE  PageInv'
  <2>1. CASE UNCHANGED <<rowVars, stored, pageVars>>
    BY <1>1, <2>1 DEF pageVars
  <2>2. ASSUME Write(e), NEW f \in FormIds, Written(e, f)
        PROVE  PageInv'
    <3>1. UNCHANGED <<stored, page>>
      BY <2>2, WriteKinds DEF pageVars
    <3>2. \A p \in Pages : stored'[p] \subseteq stored[p]
      BY <3>1
    <3>3. ASSUME NEW g \in FormIds, status[g] # "none"
          PROVE  /\ status'[g] # "none"
                 /\ Exists(g)' =>
                      /\ Exists(g)
                      /\ revision[g] =< revision'[g]
                      /\ revision'[g] = revision[g] => definition'[g] = definition[g]
      BY <2>2, <3>3, WrittenKeepsSeen
    <3> QED BY <1>0, <3>1, <3>2, <3>3, SeenKept
  <2> QED BY <1>2, <2>1, <2>2, ComposeKeeps, WriteKinds
<1>3. ASSUME NEW f \in FormIds, NEW s \in {"active", "paused"}, SetStatus(f, s)
      PROVE  PageInv'
  <2>1. UNCHANGED <<revision, definition, stored, page>>
    BY <1>3 DEF SetStatus, pageVars
  <2>2. \A g \in FormIds : /\ status[g] # "none" => status'[g] # "none"
                           /\ Exists(g)' => Exists(g)
                           /\ revision[g] =< revision'[g]
    BY <1>0, <1>3, <2>1 DEF SetStatus, Exists, FormsTypeOK
  <2>3. \A p \in Pages : stored'[p] \subseteq stored[p]
    BY <2>1
  <2> QED BY <1>0, <2>1, <2>2, <2>3, SeenKept
<1>4. ASSUME NEW f \in FormIds, Delete(f)
      PROVE  PageInv'
  <2>1. UNCHANGED page /\ \A p \in Pages : stored'[p] \subseteq stored[p]
    BY <1>4 DEF Delete, WithoutResponses, pageVars
  <2>2. status'[f] = "deleted" /\ ~Exists(f)'
    BY <1>4 DEF Delete, Put, Exists, FormsTypeOK
  <2>3. \A g \in FormIds \ {f} :
          /\ status'[g] = status[g] /\ revision'[g] = revision[g]
          /\ definition'[g] = definition[g] /\ (Exists(g)' <=> Exists(g))
          /\ revision[g] =< revision'[g]
    BY <1>0, <1>4 DEF Delete, Put, Exists, FormsTypeOK
  <2> QED BY <1>0, <2>1, <2>2, <2>3, SeenKept
<1>5. ASSUME NEW f \in FormIds, DeleteSubmissions(f)
      PROVE  PageInv'
  BY <1>1, <1>5 DEF DeleteSubmissions, WithoutResponses, pageVars
<1>6. ASSUME NEW p \in Pages, Submit(p)
      PROVE  PageInv'
  <2>1. UNCHANGED <<rowVars, page>> /\ page[p] # Nothing
    BY <1>6 DEF Submit
  <2>2. \A q \in Pages \ {p} : stored'[q] = stored[q]
    BY <1>6 DEF Submit, FormsTypeOK
  <2> QED BY <2>1, <2>2 DEF PageInv, SameRevision, Exists, rowVars
<1>7. ASSUME NEW p \in Pages, NEW f \in FormIds, PublicForm(p, f)
      PROVE  PageInv'
  <2>1. /\ page[p] = Nothing /\ stored[p] = {} /\ status[f] = "active"
        /\ UNCHANGED <<rowVars, stored>>
        /\ page' = [page EXCEPT ![p] =
             [form |-> f, address |-> address[f], definition |-> definition[f],
              revision |-> revision[f]]]
    BY <1>7 DEF PublicForm, PageInv
  <2>2. /\ page'[p].form = f /\ page'[p].revision = revision[f]
        /\ page'[p].definition = definition[f]
        /\ \A q \in Pages \ {p} : page'[q] = page[q]
    BY <2>1 DEF FormsTypeOK
  <2>3. revision[f] =< revision[f]
    BY <1>0
  <2> QED BY <2>1, <2>2, <2>3 DEF PageInv, SameRevision, Exists, rowVars
<1> QED BY <1>2, <1>3, <1>4, <1>5, <1>6, <1>7, NextSplits

LEMMA AnswersNext ==
  ASSUME FormsAssumption, FormsTypeOK, RowInv, DraftInv, PageInv, AnswersFit, FormsNext
  PROVE  AnswersFit'
<1>1. ASSUME UNCHANGED page, \A p \in Pages : stored'[p] \subseteq stored[p]
      PROVE  AnswersFit'
  BY <1>1 DEF AnswersFit
<1>2. ASSUME NEW e \in Editors, Compose(e) \/ Write(e)
      PROVE  AnswersFit'
  BY <1>1, <1>2, ComposeKeeps, WriteKinds DEF pageVars
<1>3. ASSUME NEW f \in FormIds,
             \/ \E s \in {"active", "paused"} : SetStatus(f, s)
             \/ DeleteSubmissions(f) \/ Delete(f)
      PROVE  AnswersFit'
  BY <1>1, <1>3 DEF SetStatus, DeleteSubmissions, Delete, WithoutResponses, pageVars
<1>4. ASSUME NEW p \in Pages, Submit(p)
      PROVE  AnswersFit'
  <2>1. UNCHANGED page /\ page[p] # Nothing
    BY <1>4 DEF Submit
  <2>2. CASE UNCHANGED stored
    BY <1>1, <2>1, <2>2
  <2>3. ASSUME NEW f \in FormIds, Published(f, page[p].address), SameRevision(p, f),
               stored' = [stored EXCEPT ![p] =
                 @ \cup {[form |-> f, definition |-> definition[f]]}]
        PROVE  AnswersFit'
    <3>1. f = page[p].form => definition[f] = page[p].definition
      BY <2>1, <2>3 DEF PageInv, Published, Exists
    <3>2. \A q \in Pages \ {p} : stored'[q] = stored[q]
      BY <2>3 DEF FormsTypeOK
    <3>3. stored'[p] = stored[p] \cup {[form |-> f, definition |-> definition[f]]}
      BY <2>3 DEF FormsTypeOK
    <3>4. ASSUME NEW r \in stored'[p], r.form = page[p].form
          PROVE  r.definition = page[p].definition
      BY <3>1, <3>3, <3>4 DEF AnswersFit
    <3> QED BY <2>1, <3>2, <3>4 DEF AnswersFit
  <2> QED BY <1>4, <2>2, <2>3 DEF Submit
<1>5. ASSUME NEW p \in Pages, NEW f \in FormIds, PublicForm(p, f)
      PROVE  AnswersFit'
  <2>1. /\ stored[p] = {} /\ UNCHANGED stored
        /\ \A q \in Pages \ {p} : page'[q] = page[q]
    BY <1>5 DEF PublicForm, PageInv, FormsTypeOK
  <2> QED BY <2>1 DEF AnswersFit
<1> QED BY <1>2, <1>3, <1>4, <1>5, NextSplits

\* While a visitor is refused, no published form keeps a response of the
\* request: only one form is published at the address.
LEMMA RefusedNext ==
  ASSUME FormsAssumption, FormsTypeOK, RowInv, DraftInv, FormsNext
  PROVE  \A p \in Pages :
           told[p] # "refused" /\ told'[p] = "refused" =>
             ~ \E f \in FormIds :
                 Published(f, page[p].address) /\ \E r \in stored[p] : r.form = f
<1>1. ASSUME NEW p \in Pages, told[p] # "refused", told'[p] = "refused",
             NEW f \in FormIds, Published(f, page[p].address), Receipt(p, f)
      PROVE  FALSE
  <2>1. PICK q \in Pages : Submit(q)
    <3>1. ASSUME UNCHANGED told
          PROVE  FALSE
      BY <1>1, <3>1
    <3>2. ASSUME NEW e \in Editors, Compose(e) \/ Write(e)
          PROVE  UNCHANGED told
      BY <3>2, ComposeKeeps, WriteKinds DEF pageVars
    <3>3. ASSUME NEW g \in FormIds,
                 \/ \E s \in {"active", "paused"} : SetStatus(g, s)
                 \/ DeleteSubmissions(g) \/ Delete(g)
          PROVE  UNCHANGED told
      BY <3>3 DEF SetStatus, DeleteSubmissions, Delete, pageVars
    <3>4. ASSUME NEW q \in Pages, NEW g \in FormIds, PublicForm(q, g)
          PROVE  UNCHANGED told
      BY <3>4 DEF PublicForm
    <3> QED BY <3>1, <3>2, <3>3, <3>4, NextSplits
  <2>2. q = p
    BY <1>1, <2>1 DEF Submit, Answer, FormsTypeOK
  <2>3. ~Answer(p, "stored")
    BY <1>1 DEF Answer, FormsTypeOK
  <2>4. PICK g \in FormIds : Published(g, page[p].address) /\ ~Receipt(p, g)
    BY <1>1, <2>1, <2>2, <2>3 DEF Submit
  <2>5. g = f
    BY <1>1, <2>4 DEF Published, Exists, RowInv
  <2> QED BY <1>1, <2>4, <2>5
<1> QED BY <1>1 DEF Receipt

-----------------------------------------------------------------------------
(* The theorems *)

LEMMA FormsInductive ==
  ASSUME FormsAssumption, FormsTypeOK, FormsInv, [FormsNext]_formsVars
  PROVE  FormsTypeOK' /\ FormsInv'
<1>1. CASE FormsNext
  BY <1>1, FormsTypeNext, RowNext, DraftNext, PageNext, AnswersNext DEF FormsInv
<1>2. CASE UNCHANGED formsVars
  BY <1>2 DEF formsVars, rowVars, editVars, pageVars, FormsTypeOK, FormsInv, RowInv, DraftInv,
              LockInv, PageInv, ActiveIsComplete, AnswersFit, SameRevision, Exists
<1> QED BY <1>1, <1>2

LEMMA FormsInvariant == FormsSpec => [](FormsTypeOK /\ FormsInv)
<1>1. FormsInit => FormsTypeOK /\ FormsInv
  BY FormsAssumption, FormsTypeInit DEF FormsInit, FormsInv, RowInv, DraftInv, LockInv, PageInv,
     ActiveIsComplete, AnswersFit, Exists, FormsAssumption
<1>2. FormsTypeOK /\ FormsInv /\ [FormsNext]_formsVars => (FormsTypeOK /\ FormsInv)'
  BY FormsAssumption, FormsInductive
<1> QED BY <1>1, <1>2, PTL DEF FormsSpec

\* Every variable keeps its type: no row, draft or page is half written.
THEOREM FormsTypes == FormsSpec => []FormsTypeOK
BY FormsInvariant, PTL

\* An active form is complete: a save compares the status it validated its
\* draft by, an activation looks at what the row holds
\* (FormsService.update, status).
THEOREM ActiveFormsAreComplete == FormsSpec => []ActiveIsComplete
<1>1. FormsInv => ActiveIsComplete
  BY DEF FormsInv
<1> QED BY <1>1, FormsInvariant, PTL

\* A response that is stored with the form a visitor was shown answers the
\* questions the visitor was shown: revisions grow with every save, and the
\* id of a deleted form is never used again (FormsService.submit).
THEOREM AnswersFitTheQuestions == FormsSpec => []AnswersFit
<1>1. FormsInv => AnswersFit
  BY DEF FormsInv
<1> QED BY <1>1, FormsInvariant, PTL

\* A retry is not refused while the form that keeps its response is active at
\* the page's address, for no other form is there (FormsService.submit).
THEOREM RetriesKeepTheirReceipts == FormsSpec => RetryKeepsReceipt
<1> DEFINE Kept ==
  \A p \in Pages :
    told[p] # "refused" /\ told'[p] = "refused" =>
      ~ \E f \in FormIds :
          Published(f, page[p].address) /\ \E r \in stored[p] : r.form = f
<1>1. FormsTypeOK /\ FormsInv /\ [FormsNext]_formsVars => [Kept]_formsVars
  <2>1. FormsTypeOK /\ FormsInv /\ FormsNext => Kept
    BY FormsAssumption, RefusedNext DEF FormsInv
  <2> QED BY <2>1
<1> QED BY <1>1, FormsInvariant, PTL DEF FormsSpec, RetryKeepsReceipt

\* While a save looks for the title, writes and asks what became of its form,
\* no other save does (FormsService.create, update).
THEOREM OneSaveWrites ==
  FormsSpec => [](\A d, e \in Editors :
    step[d] \in {"write", "confirm"} /\ step[e] \in {"write", "confirm"} => d = e)
<1>1. FormsInv => \A d, e \in Editors :
        step[d] \in {"write", "confirm"} /\ step[e] \in {"write", "confirm"} => d = e
  BY DEF FormsInv, LockInv
<1> QED BY <1>1, FormsInvariant, PTL
===============================================================================
