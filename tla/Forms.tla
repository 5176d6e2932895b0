--------------------------------- MODULE Forms ---------------------------------
(***************************************************************************)
(* The forms of one owner: how editors change them and how visitors answer *)
(* them (backend/src/forms/forms.service.ts).                              *)
(*                                                                         *)
(* A save reads the form, validates the draft by the status it read, takes *)
(* a connection, waits for the owner's advisory lock and then writes, if   *)
(* revision and status are still the ones it knows.  Looking why they are  *)
(* not needs a second connection.  A visitor loads a form, answers it under *)
(* one request id and sends the request again while no answer has come.    *)
(*                                                                         *)
(* A title is told apart by the slug formed from it alone, so a title is   *)
(* an address here.  What the analytics of a response are is in            *)
(* PageAnalytics.                                                          *)
(***************************************************************************)
EXTENDS Integers, FiniteSets

CONSTANTS
  FormIds,      \* ids of rows, never used twice
  Addresses,    \* slugs
  Definitions,  \* what can be saved
  Complete,     \* what validateDefinition(_, true) lets through
  Editors,      \* open editors of the dashboard
  Pages,        \* public pages in visitors' browsers, one request id each
  Nobody,       \* no editor holds the lock
  Nothing,      \* no form, address or definition
  Pool,         \* connections of the process (DB_POOL_MAX)
  MaxRevision   \* bound on the saves of one form

ASSUME FormsAssumption ==
  /\ IsFiniteSet(Editors) /\ Nobody \notin Editors
  /\ Complete \subseteq Definitions
  /\ Nothing \notin FormIds \cup Addresses \cup Definitions
  /\ Pool \in Nat \ {0}
  /\ MaxRevision \in Nat \ {0}

VARIABLES
  status,      \* of each form: "none" before its row, "active", "paused",
               \* and "deleted" after it
  address,     \* its slug, in Addresses, or Nothing
  definition,  \* its questions, texts and buttons, in Definitions, or Nothing
  revision,    \* how often it was saved, in 0..MaxRevision
  stored,      \* the responses of each page's request: form and questions
  lock,        \* the editor that holds forms:<owner>, or Nobody
  step,        \* where each editor is: "idle", "editing", "connect", "lock",
               \* "write", "confirm"
  draft,       \* what it is about to save, and what it knows of the form
  page,        \* the form as the visitor sees it, or Nothing
  told         \* the last answer to the visitor's request: "nothing",
               \* "lost", "stored", "refused"

rowVars == <<status, address, definition, revision>>
editVars == <<lock, step, draft>>
pageVars == <<page, told>>
formsVars == <<rowVars, stored, editVars, pageVars>>

Blank == [form |-> Nothing, address |-> Nothing, definition |-> Nothing,
          revision |-> 0, status |-> "paused"]

FormsInit ==
  /\ status = [f \in FormIds |-> "none"]
  /\ address = [f \in FormIds |-> Nothing]
  /\ definition = [f \in FormIds |-> Nothing]
  /\ revision = [f \in FormIds |-> 0]
  /\ stored = [p \in Pages |-> {}]
  /\ lock = Nobody
  /\ step = [e \in Editors |-> "idle"]
  /\ draft = [e \in Editors |-> Blank]
  /\ page = [p \in Pages |-> Nothing]
  /\ told = [p \in Pages |-> "nothing"]

-----------------------------------------------------------------------------
(* Rows and connections *)

Exists(f) == status[f] \in {"active", "paused"}
Holding == {e \in Editors : step[e] \in {"lock", "write", "confirm"}}
Connection == Cardinality(Holding) < Pool

Put(f, s, a, d, n) ==
  /\ status' = [status EXCEPT ![f] = s]
  /\ address' = [address EXCEPT ![f] = a]
  /\ definition' = [definition EXCEPT ![f] = d]
  /\ revision' = [revision EXCEPT ![f] = n]

MoveTo(e, p) ==
  /\ step' = [step EXCEPT ![e] = p]
  /\ UNCHANGED draft

\* The end of a call; the end of its transaction frees the lock.
EndCall(e) ==
  /\ step' = [step EXCEPT ![e] = "idle"]
  /\ draft' = [draft EXCEPT ![e] = Blank]
  /\ lock' = IF lock = e THEN Nobody ELSE lock

-----------------------------------------------------------------------------
(* Editing *)

Open(e, f) ==
  /\ step[e] = "idle" /\ Connection /\ Exists(f)
  /\ step' = [step EXCEPT ![e] = "editing"]
  /\ draft' = [draft EXCEPT ![e].form = f, ![e].revision = revision[f]]
  /\ UNCHANGED <<rowVars, stored, lock, pageVars>>

\* A draft that is not complete may be saved to a paused form only; the
\* editor keeps one that is refused.
SaveForm(e, a, d) ==
  LET f == draft[e].form IN
  /\ step[e] = "editing" /\ Connection
  /\ draft[e].revision < MaxRevision
  /\ IF ~Exists(f)
       THEN EndCall(e)
       ELSE /\ status[f] = "active" => d \in Complete
            /\ step' = [step EXCEPT ![e] = "connect"]
            /\ draft' = [draft EXCEPT ![e] =
                 [@ EXCEPT !.address = a, !.definition = d, !.status = status[f]]]
            /\ UNCHANGED lock
  /\ UNCHANGED <<rowVars, stored, pageVars>>

\* Bound: there is an id for every form that is being created.
FreshId ==
  Cardinality({e \in Editors : step[e] \notin {"idle", "editing"}
                              /\ draft[e].form = Nothing})
    < Cardinality({f \in FormIds : status[f] = "none"})

\* A form is born active when it is complete.
Create(e, a, d) ==
  /\ step[e] = "idle" /\ FreshId
  /\ step' = [step EXCEPT ![e] = "connect"]
  /\ draft' = [draft EXCEPT ![e] =
       [Blank EXCEPT !.address = a, !.definition = d,
                     !.status = IF d \in Complete THEN "active" ELSE "paused"]]
  /\ UNCHANGED <<rowVars, stored, lock, pageVars>>

\* A copy is created from what was read of another form, under another title.
Duplicate(e, f, a) ==
  /\ Connection /\ Exists(f)
  /\ Create(e, a, definition[f])

Connect(e) ==
  /\ step[e] = "connect" /\ Connection
  /\ MoveTo(e, "lock")
  /\ UNCHANGED <<rowVars, stored, lock, pageVars>>

TakeLock(e) ==
  /\ step[e] = "lock" /\ lock = Nobody
  /\ lock' = e
  /\ MoveTo(e, "write")
  /\ UNCHANGED <<rowVars, stored, pageVars>>

Reserved(e) ==
  \E f \in FormIds \ {draft[e].form} :
    Exists(f) /\ address[f] = draft[e].address

OnlyRevision(e) == revision[draft[e].form] = draft[e].revision
Unchanged(e) ==
  /\ revision[draft[e].form] = draft[e].revision
  /\ status[draft[e].form] = draft[e].status

\* The look for the title and the statement that writes: nothing but a
\* deletion can change the first between them while the lock is held.
Write(e) ==
  LET d == draft[e] IN
  /\ step[e] = "write"
  /\ IF Reserved(e)
       THEN EndCall(e) /\ UNCHANGED rowVars
       ELSE \/ /\ d.form = Nothing
               /\ \E f \in FormIds :
                    /\ status[f] = "none"
                    /\ Put(f, d.status, d.address, d.definition, 1)
               /\ EndCall(e)
            \/ /\ d.form # Nothing /\ Unchanged(e)
               /\ Put(d.form, status[d.form], d.address, d.definition, d.revision + 1)
               /\ EndCall(e)
            \/ /\ d.form # Nothing /\ ~Unchanged(e)
               /\ MoveTo(e, "confirm")
               /\ UNCHANGED <<rowVars, lock>>
  /\ UNCHANGED <<stored, pageVars>>

\* Is the form gone, or was it changed?  The question is asked on another
\* connection, inside the transaction; either answer ends it.
Confirm(e) ==
  /\ step[e] = "confirm" /\ Connection
  /\ EndCall(e)
  /\ UNCHANGED <<rowVars, stored, pageVars>>

\* A wait for a connection ends after 10 s, one for the lock after 30 s.
Patient(e) == FALSE
TimesOut(e) == step[e] \in {"connect", "lock", "confirm"}

GiveUp(e) ==
  /\ TimesOut(e)
  /\ EndCall(e)
  /\ UNCHANGED <<rowVars, stored, pageVars>>

-----------------------------------------------------------------------------
(* What an owner does with one row, in one statement or under its lock *)

SetStatus(f, s) ==
  /\ Connection /\ Exists(f)
  /\ s = "active" => definition[f] \in Complete
  /\ status' = [status EXCEPT ![f] = s]
  /\ UNCHANGED <<address, definition, revision, stored, editVars, pageVars>>

WithoutResponses(f) ==
  [p \in Pages |-> {r \in stored[p] : r.form # f}]

DeleteSubmissions(f) ==
  /\ Connection /\ Exists(f)
  /\ stored' = WithoutResponses(f)
  /\ UNCHANGED <<rowVars, editVars, pageVars>>

Delete(f) ==
  /\ Connection /\ Exists(f)
  /\ Put(f, "deleted", Nothing, Nothing, 0)
  /\ stored' = WithoutResponses(f)
  /\ UNCHANGED <<editVars, pageVars>>

-----------------------------------------------------------------------------
(* Visitors *)

Published(f, a) == status[f] = "active" /\ address[f] = a

PublicForm(p, f) ==
  /\ Connection /\ page[p] = Nothing /\ status[f] = "active"
  /\ page' = [page EXCEPT ![p] =
       [form |-> f, address |-> address[f], definition |-> definition[f],
        revision |-> revision[f]]]
  /\ UNCHANGED <<rowVars, stored, editVars, told>>

\* Answers may fit other questions than the visitor's: ids are compared, and
\* copies keep them.
Fits(p, f) ==
  {d \in {"yes", "no"} : d = "no" => definition[f] # page[p].definition}

AnyRevision(p, f) == TRUE
SameRevision(p, f) == page[p].revision = revision[f]

ReceiptIfCurrent(p, f) ==
  SameRevision(p, f) /\ \E r \in stored[p] : r.form = f
Receipt(p, f) == \E r \in stored[p] : r.form = f

\* An answer reaches the visitor or is lost on its way.
Answer(p, a) == \E t \in {a, "lost"} : told' = [told EXCEPT ![p] = t]

\* The page sends its request, again and again, until it is told of success.
Submit(p) ==
  /\ Connection /\ page[p] # Nothing /\ told[p] # "stored"
  /\ \/ /\ \A f \in FormIds : ~Published(f, page[p].address)
        /\ Answer(p, "refused")
        /\ UNCHANGED stored
     \/ \E f \in FormIds :
          /\ Published(f, page[p].address)
          /\ \/ /\ Receipt(p, f)
                /\ Answer(p, "stored")
                /\ UNCHANGED stored
             \/ /\ ~Receipt(p, f) /\ SameRevision(p, f) /\ "yes" \in Fits(p, f)
                /\ stored' = [stored EXCEPT ![p] =
                     @ \cup {[form |-> f, definition |-> definition[f]]}]
                /\ Answer(p, "stored")
             \/ /\ ~Receipt(p, f)
                /\ ~SameRevision(p, f) \/ "no" \in Fits(p, f)
                /\ Answer(p, "refused")
                /\ UNCHANGED stored
  /\ UNCHANGED <<rowVars, editVars, page>>

-----------------------------------------------------------------------------
Advance(e) ==
  \/ Connect(e) \/ TakeLock(e) \/ Write(e) \/ Confirm(e) \/ GiveUp(e)

FormsNext ==
  \/ \E e \in Editors :
       \/ \E f \in FormIds : Open(e, f)
       \/ \E a \in Addresses, d \in Definitions : SaveForm(e, a, d) \/ Create(e, a, d)
       \/ \E f \in FormIds, a \in Addresses : Duplicate(e, f, a)
       \/ Advance(e)
  \/ \E f \in FormIds :
       \/ \E s \in {"active", "paused"} : SetStatus(f, s)
       \/ DeleteSubmissions(f) \/ Delete(f)
  \/ \E p \in Pages : Submit(p) \/ \E f \in FormIds : PublicForm(p, f)

FormsSpec == FormsInit /\ [][FormsNext]_formsVars

\* A call that was made goes on; nobody has to make one.
FormsFairSpec == FormsSpec /\ \A e \in Editors : WF_formsVars(Advance(e))

-----------------------------------------------------------------------------
(* What makes the forms correct *)

\* A form visitors can open is complete: a draft validated against the
\* status the form had earlier never reaches a form activated since, and an
\* activation never meets a draft that was let through for a paused form
\* (FormsService.update, status).
ActiveIsComplete ==
  \A f \in FormIds : status[f] = "active" => definition[f] \in Complete

\* A response stored with the form the visitor was shown is stored with the
\* questions the visitor was shown, whatever was saved, paused or renamed in
\* between (FormsService.submit).
AnswersFit ==
  \A p \in Pages : \A r \in stored[p] :
    r.form = page[p].form => r.definition = page[p].definition

\* A request whose response is stored is not refused by a later edit: while
\* its form is active at the page's address, a retry gets the receipt
\* (FormsService.submit).
RetryKeepsReceipt ==
  [][\A p \in Pages :
       told[p] # "refused" /\ told'[p] = "refused" =>
         ~ \E f \in FormIds :
             Published(f, page[p].address) /\ \E r \in stored[p] : r.form = f]_formsVars

\* Every save ends, although a save keeps a connection and the owner's lock
\* while it asks for another connection, and all the others may be kept by
\* saves that wait for the lock (FormsService.update).
EditsEnd ==
  \A e \in Editors :
    step[e] \in {"connect", "lock", "write", "confirm"} ~> step[e] = "idle"

-----------------------------------------------------------------------------
(* Why the forms are correct *)

FormsTypeOK ==
  /\ status \in [FormIds -> {"none", "active", "paused", "deleted"}]
  /\ address \in [FormIds -> Addresses \cup {Nothing}]
  /\ definition \in [FormIds -> Definitions \cup {Nothing}]
  /\ revision \in [FormIds -> Nat]
  /\ stored \in [Pages -> SUBSET [form : FormIds, definition : Definitions]]
  /\ lock \in Editors \cup {Nobody}
  /\ step \in [Editors ->
              {"idle", "editing", "connect", "lock", "write", "confirm"}]
  /\ draft \in [Editors -> [form : FormIds \cup {Nothing},
                            address : Addresses \cup {Nothing},
                            definition : Definitions \cup {Nothing},
                            revision : Nat, status : {"active", "paused"}]]
  /\ page \in [Pages -> {Nothing} \cup [form : FormIds, address : Addresses,
                                        definition : Definitions, revision : Nat]]
  /\ told \in [Pages -> {"nothing", "lost", "stored", "refused"}]

\* No two forms share a title, so a request is about one form.
RowInv ==
  /\ \A f \in FormIds :
       Exists(f) => address[f] \in Addresses /\ definition[f] \in Definitions
  /\ \A f, g \in FormIds :
       Exists(f) /\ Exists(g) /\ address[f] = address[g] => f = g

\* A draft stays as complete as the status it was validated by asks.
DraftInv ==
  \A e \in Editors :
    /\ step[e] = "editing" => draft[e].form \in FormIds
    /\ step[e] \in {"connect", "lock", "write", "confirm"} =>
         /\ draft[e].address \in Addresses /\ draft[e].definition \in Definitions
         /\ draft[e].status = "active" => draft[e].definition \in Complete

\* One save at a time looks for the title, writes and asks what became of
\* the form (FormsService.create, update).
LockInv ==
  \A e \in Editors : lock = e <=> step[e] \in {"write", "confirm"}

\* What a visitor sees has not been saved since, or the form's revision has
\* grown; a form that was deleted never returns.
PageInv ==
  \A p \in Pages :
    IF page[p] = Nothing
      THEN stored[p] = {}
      ELSE /\ status[page[p].form] # "none"
           /\ Exists(page[p].form) =>
                /\ page[p].revision =< revision[page[p].form]
                /\ SameRevision(p, page[p].form) =>
                     page[p].definition = definition[page[p].form]

FormsInv ==
  /\ RowInv /\ DraftInv /\ LockInv /\ PageInv
  /\ ActiveIsComplete /\ AnswersFit
=============================================================================
