----------------------------- MODULE MediaStorage -----------------------------
(***************************************************************************)
(* Uploaded media: files in the upload directory, their inventory rows in  *)
(* uploaded_media_assets, and the operations of                            *)
(* backend/src/storage/storage.service.ts that bring the two in line with  *)
(* the records that refer to them.  A file cannot be written or deleted in *)
(* a transaction, so every operation is a sequence of steps that others    *)
(* interleave with and that may stop half-way.                             *)
(*                                                                         *)
(* An asset is a storage key; an upload draws a new one.  A record holds    *)
(* one asset.                                                              *)
(***************************************************************************)
EXTENDS Integers, FiniteSets

CONSTANTS
  Assets,     \* storage keys
  Records,    \* fields of the database that hold the address of an upload
  Inspected,  \* the records the two "is it referenced?" queries look at
  Forms,      \* those whose save first checks that the uploads are its own
  Callers,    \* requests in progress
  Processes,  \* backend processes, each with its cleanup timer
  Batch,      \* candidates of one cleanup query
  NoAsset,
  MaxFaults   \* bound on failed queries and crashes

ASSUME MediaAssumption ==
  /\ IsFiniteSet(Assets) /\ Records # {}
  /\ Inspected \subseteq Records
  /\ Forms \subseteq Inspected
  /\ NoAsset \notin Assets
  /\ Batch \in Nat \ {0}
  /\ MaxFaults \in Nat

VARIABLES
  file,     \* keys on disk
  row,      \* keys with an inventory row
  aged,     \* rows older than the grace period
  refs,     \* what each record holds
  known,    \* keys ever uploaded
  saved,    \* keys a record has ever held
  pc,       \* where each caller is
  record,   \* the record it saves
  asset,    \* the upload it is about
  replaced, \* the upload the record held before
  up,       \* processes that run
  stage,    \* where the cleanup of each process is
  forced,   \* an administrator asked for it, and gets its errors
  batch,    \* keys it still has to delete
  same,     \* those of them whose row is still the one it selected
  full,     \* the query returned as many rows as it may
  target,   \* the key at hand
  listing,  \* files a starting process has listed and not yet inventoried
  faults

diskVars == <<file, row, aged, refs, known, saved>>
callVars == <<pc, record, asset, replaced>>
cleanVars == <<up, stage, forced, batch, full, target>>
vars == <<diskVars, callVars, cleanVars, same, listing, faults>>

TypeOK ==
  /\ file \subseteq Assets /\ row \subseteq Assets /\ aged \subseteq row
  /\ refs \in [Records -> Assets \cup {NoAsset}]
  /\ known \subseteq Assets /\ saved \subseteq known
  /\ pc \in [Callers -> {"idle", "inventory", "commit", "restore", "lookup",
                          "unlink", "forget"}]
  /\ record \in [Callers -> Records]
  /\ asset \in [Callers -> Assets \cup {NoAsset}]
  /\ replaced \in [Callers -> Assets \cup {NoAsset}]
  /\ up \subseteq Processes
  /\ stage \in [Processes -> {"idle", "select", "next", "unlink", "forget"}]
  /\ forced \in [Processes -> BOOLEAN]
  /\ batch \in [Processes -> SUBSET Assets]
  /\ same \in [Processes -> SUBSET Assets]
  /\ full \in [Processes -> BOOLEAN]
  /\ target \in [Processes -> Assets \cup {NoAsset}]
  /\ listing \in [Processes -> SUBSET Assets]
  /\ faults \in Nat

SomeRecord == CHOOSE r \in Records : TRUE

Init ==
  /\ file = {} /\ row = {} /\ aged = {}
  /\ refs = [r \in Records |-> NoAsset]
  /\ known = {} /\ saved = {}
  /\ pc = [c \in Callers |-> "idle"]
  /\ record = [c \in Callers |-> SomeRecord]
  /\ asset = [c \in Callers |-> NoAsset]
  /\ replaced = [c \in Callers |-> NoAsset]
  /\ up = Processes
  /\ stage = [p \in Processes |-> "idle"]
  /\ forced = [p \in Processes |-> FALSE]
  /\ batch = [p \in Processes |-> {}]
  /\ same = [p \in Processes |-> {}]
  /\ full = [p \in Processes |-> FALSE]
  /\ target = [p \in Processes |-> NoAsset]
  /\ listing = [p \in Processes |-> {}]
  /\ faults = 0

-----------------------------------------------------------------------------
(* The two queries *)

\* Does a record the queries look at hold this upload?
Referenced(a) == \E r \in Inspected : refs[r] = a

UnreferencedWithFile == {a \in aged \cap file : ~Referenced(a)}
UnreferencedOfAnyAge == {a \in row : ~Referenced(a)}
\* Candidates of a cleanup.
Unreferenced == {a \in aged : ~Referenced(a)}

-----------------------------------------------------------------------------
(* Steps of a caller *)

Goto(c, p) == pc' = [pc EXCEPT ![c] = p] /\ UNCHANGED <<record, asset, replaced>>

Enter(c, p, r, new, old) ==
  /\ pc[c] = "idle"
  /\ pc' = [pc EXCEPT ![c] = p]
  /\ record' = [record EXCEPT ![c] = r]
  /\ asset' = [asset EXCEPT ![c] = new]
  /\ replaced' = [replaced EXCEPT ![c] = old]

Return(c) ==
  /\ pc' = [pc EXCEPT ![c] = "idle"]
  /\ record' = [record EXCEPT ![c] = SomeRecord]
  /\ asset' = [asset EXCEPT ![c] = NoAsset]
  /\ replaced' = [replaced EXCEPT ![c] = NoAsset]

Sweep(c) == IF replaced[c] = NoAsset THEN Return(c) ELSE Goto(c, "lookup")

Fault == faults < MaxFaults /\ faults' = faults + 1

\* The row goes, if it is there; no cleanup has it as the row it selected.
DropRow(a) ==
  /\ row' = row \ {a} /\ aged' = aged \ {a}
  /\ same' = [p \in Processes |-> same[p] \ {a}]

-----------------------------------------------------------------------------
(* Uploading *)

\* uploadImage writes the file under a new key,
Upload(c, a) ==
  /\ a \notin known
  /\ Enter(c, "inventory", SomeRecord, a, NoAsset)
  /\ file' = file \cup {a}
  /\ known' = known \cup {a}
  /\ UNCHANGED <<row, aged, refs, saved, cleanVars, same, listing, faults>>

\* and then its row, unless that fails, which is only logged.  A row that is
\* there keeps its id and its created_at.
RecordAsset(c) ==
  /\ pc[c] = "inventory"
  /\ \/ row' = row \cup {asset[c]} /\ UNCHANGED faults
     \/ Fault /\ UNCHANGED row
  /\ Sweep(c)
  /\ UNCHANGED <<file, aged, refs, known, saved, cleanVars, same, listing>>

-----------------------------------------------------------------------------
(* Records that hold uploads *)

\* A request to put an upload in a record, or to empty or delete the record.
\* It has read what the record held.  (The service of the forms deletes
\* nothing itself.)
Save(c, r, a) ==
  /\ a = NoAsset \/ a \in known
  /\ a # refs[r]
  /\ r \in Forms => a = NoAsset \/ a \in row
  /\ Enter(c, "commit", r, a, IF r \in Forms THEN NoAsset ELSE refs[r])
  /\ UNCHANGED <<diskVars, cleanVars, same, listing, faults>>

Commit(c) ==
  /\ pc[c] = "commit"
  /\ refs' = [refs EXCEPT ![record[c]] = asset[c]]
  /\ saved' = saved \cup ({asset[c]} \ {NoAsset})
  /\ Sweep(c)
  /\ UNCHANGED <<file, row, aged, known, cleanVars, same, listing, faults>>

\* An import of pages commits them, then restores the files they hold,
Import(c, r, a) ==
  /\ a \in known /\ r \in Inspected \ Forms
  /\ Enter(c, "restore", r, a, refs[r])
  /\ refs' = [refs EXCEPT ![r] = a]
  /\ saved' = saved \cup {a}
  /\ UNCHANGED <<file, row, aged, known, cleanVars, same, listing, faults>>

\* restoreUploadedAsset: the file and then the row, as in an upload.
Restore(c) ==
  /\ pc[c] = "restore"
  /\ file' = file \cup {asset[c]}
  /\ Goto(c, "inventory")
  /\ UNCHANGED <<row, aged, refs, known, saved, cleanVars, same, listing, faults>>

-----------------------------------------------------------------------------
(* Deleting what was replaced: deleteUnreferencedFromValues, deleteImage *)

After(c) == IF replaced[c] \in file THEN "unlink" ELSE "forget"

Lookup(c) ==
  /\ pc[c] = "lookup"
  /\ IF Referenced(replaced[c]) THEN Return(c) ELSE Goto(c, After(c))
  /\ UNCHANGED <<diskVars, cleanVars, same, listing, faults>>

\* If somebody else was faster the error is logged, and the row stays.
Unlink(c) ==
  /\ pc[c] = "unlink"
  /\ IF replaced[c] \in file
       THEN file' = file \ {replaced[c]} /\ Goto(c, "forget")
       ELSE Return(c) /\ UNCHANGED file
  /\ UNCHANGED <<row, aged, refs, known, saved, cleanVars, same, listing, faults>>

Forget(c) ==
  /\ pc[c] = "forget"
  /\ \/ DropRow(replaced[c]) /\ UNCHANGED faults
     \/ Fault /\ UNCHANGED <<row, aged, same>>
  /\ Return(c)
  /\ UNCHANGED <<file, refs, known, saved, cleanVars, listing>>

\* The process of a request dies.
Abandon(c) ==
  /\ pc[c] # "idle" /\ Fault
  /\ Return(c)
  /\ UNCHANGED <<diskVars, cleanVars, same, listing>>

-----------------------------------------------------------------------------
(* Cleanup: cleanupUnusedAssets *)

Stage(p, s) == stage' = [stage EXCEPT ![p] = s]

Finish(p) ==
  /\ Stage(p, "idle")
  /\ forced' = [forced EXCEPT ![p] = FALSE]
  /\ batch' = [batch EXCEPT ![p] = {}]
  /\ same' = [same EXCEPT ![p] = {}]
  /\ full' = [full EXCEPT ![p] = FALSE]
  /\ target' = [target EXCEPT ![p] = NoAsset]

\* A batch of candidates, oldest first (the order is left open).  While a
\* cleanup runs, its process starts no other.
Select(p) ==
  /\ p \in up /\ stage[p] \in {"idle", "select"}
  /\ \E picked \in SUBSET Unreferenced :
       /\ picked # {}
       /\ Cardinality(picked) <= Batch
       /\ Cardinality(picked) = Batch \/ picked = Unreferenced
       /\ batch' = [batch EXCEPT ![p] = picked]
       /\ same' = [same EXCEPT ![p] = picked]
       /\ full' = [full EXCEPT ![p] = Cardinality(picked) = Batch]
  /\ \E f \in BOOLEAN :
       /\ stage[p] = "select" => f = forced[p]
       /\ forced' = [forced EXCEPT ![p] = f]
  /\ Stage(p, "next")
  /\ UNCHANGED <<diskVars, callVars, up, target, listing, faults>>

\* The last query of a cleanup finds nothing more.
Exhausted(p) ==
  /\ stage[p] = "select" /\ Unreferenced = {}
  /\ Finish(p)
  /\ UNCHANGED <<diskVars, callVars, up, listing, faults>>

\* The files of the batch are deleted one by one.
Pick(p) ==
  /\ stage[p] = "next"
  /\ \/ /\ batch[p] = {} /\ full[p]
        /\ Stage(p, "select")
        /\ UNCHANGED <<forced, batch, same, full, target>>
     \/ batch[p] = {} /\ ~full[p] /\ Finish(p)
     \/ /\ \E a \in batch[p] :
             /\ target' = [target EXCEPT ![p] = a]
             /\ Stage(p, IF a \in file THEN "unlink" ELSE "forget")
        /\ UNCHANGED <<forced, batch, same, full>>
  /\ UNCHANGED <<diskVars, callVars, up, listing, faults>>

\* An error ends the cleanup.  Nothing catches it if the timer began it: the
\* process dies of an unhandled rejection.
Throw(p) ==
  /\ Finish(p)
  /\ IF forced[p] THEN UNCHANGED <<up, listing>>
     ELSE up' = up \ {p} /\ listing' = [listing EXCEPT ![p] = {}]

CleanUnlink(p) ==
  /\ stage[p] = "unlink"
  /\ IF target[p] \in file
       THEN /\ file' = file \ {target[p]}
            /\ Stage(p, "forget")
            /\ UNCHANGED <<up, forced, batch, same, full, target, listing>>
       ELSE Throw(p) /\ UNCHANGED file
  /\ UNCHANGED <<row, aged, refs, known, saved, callVars, faults>>

\* The row is deleted by its id.
CleanForget(p) ==
  LET a == target[p] IN
  /\ stage[p] = "forget"
  /\ \/ /\ IF a \in same[p] THEN DropRow(a) ELSE UNCHANGED <<row, aged, same>>
        /\ batch' = [batch EXCEPT ![p] = @ \ {a}]
        /\ target' = [target EXCEPT ![p] = NoAsset]
        /\ Stage(p, "next")
        /\ UNCHANGED <<up, forced, full, listing, faults>>
     \/ Fault /\ Throw(p) /\ UNCHANGED <<row, aged>>
  /\ UNCHANGED <<file, refs, known, saved, callVars>>

-----------------------------------------------------------------------------
(* Processes start and stop: reconcileExistingAssets *)

Crash(p) ==
  /\ p \in up /\ Fault
  /\ Finish(p) /\ up' = up \ {p}
  /\ listing' = [listing EXCEPT ![p] = {}]
  /\ UNCHANGED <<diskVars, callVars>>

\* A starting process lists the upload directory,
Start(p) ==
  /\ p \notin up
  /\ up' = up \cup {p}
  /\ listing' = [listing EXCEPT ![p] = file]
  /\ UNCHANGED <<diskVars, callVars, stage, forced, batch, full, target, same,
                 faults>>

\* and adds the rows that are missing; if that fails it only says so.
Inventory(p) ==
  /\ listing[p] # {}
  /\ \/ row' = row \cup listing[p] /\ UNCHANGED faults
     \/ Fault /\ UNCHANGED row
  /\ listing' = [listing EXCEPT ![p] = {}]
  /\ UNCHANGED <<file, aged, refs, known, saved, callVars, cleanVars, same>>

\* The grace period of an upload is over.
Age(a) ==
  /\ a \in row \ aged
  /\ aged' = aged \cup {a}
  /\ UNCHANGED <<file, row, refs, known, saved, callVars, cleanVars, same,
                 listing, faults>>

-----------------------------------------------------------------------------
Clean(p) == Select(p) \/ Exhausted(p) \/ Pick(p) \/ CleanUnlink(p) \/ CleanForget(p)

Next ==
  \/ \E c \in Callers, a \in Assets : Upload(c, a)
  \/ \E c \in Callers, r \in Records, a \in Assets \cup {NoAsset} : Save(c, r, a)
  \/ \E c \in Callers, r \in Records, a \in Assets : Import(c, r, a)
  \/ \E c \in Callers :
       \/ RecordAsset(c) \/ Commit(c) \/ Restore(c)
       \/ Lookup(c) \/ Unlink(c) \/ Forget(c) \/ Abandon(c)
  \/ \E p \in Processes : Clean(p) \/ Crash(p) \/ Start(p) \/ Inventory(p)
  \/ \E a \in Assets : Age(a)

Spec == Init /\ [][Next]_vars

\* Cleanup timers fire and cleanups go on, processes are restarted and uploads
\* grow old.
Fairness ==
  /\ \A p \in Processes : WF_vars(Clean(p)) /\ WF_vars(Start(p))
  /\ \A a \in Assets : WF_vars(Age(a))

FairSpec == Spec /\ Fairness

-----------------------------------------------------------------------------
(* Properties *)

\* A new upload is not deleted before its grace period is over, unless it has
\* been saved in a record: not by a cleanup that began earlier, nor after its
\* row was lost and a restarting process inventoried the file again
\* (cleanupUnusedAssets, reconcileExistingAssets).
NewUploadSurvives ==
  [][\A a \in file \ saved : a \in file' \/ a \in aged]_vars

\* An upload in the inventory that no record holds is eventually removed from
\* it or used again: an error half-way through a batch, a file that was gone
\* already, a crash or a competing deletion never stops the cleanup for good
\* (cleanupUnusedAssets and its cleanupRunning).
UnusedIsCollected ==
  \A a \in Assets : a \in row ~> a \notin row \/ Referenced(a)

=============================================================================
