----------------------------- MODULE Onboarding -----------------------------
(***************************************************************************)
(* How somebody gets in (backend/src/onboarding/business-onboarding.       *)
(* service.ts): the one-time tickets in Redis (e-mail codes, OAuth states, *)
(* hand-offs), the signing up they lead to, the applications with their    *)
(* review, and the subdomains that applications reserve, businesses have   *)
(* and administrators block (91_subdomain_policy.sql).                     *)
(*                                                                         *)
(* A verification takes the ticket out of Redis, compares, and puts it     *)
(* back after a wrong code: other verifications come in between.  Each     *)
(* person has one application and at most one business of it; the          *)
(* business Shop was there before.                                         *)
(***************************************************************************)
EXTENDS Integers, FiniteSets

CONSTANTS
  Tickets,     \* challenges, states and hand-offs
  Codes,       \* those among them that are e-mail codes
  People,      \* users of the platform
  Joining,     \* tickets of people who sign up
  Person,      \* who signs up with each of those
  Invites,     \* rows of business_signup_invitations
  Names,       \* subdomains
  Shop,        \* another business
  Callers,     \* requests under way
  None,        \* no ticket, person, invitation or name
  Attempts,    \* attemptsLeft of a new code
  Lossy        \* may Redis lose commands?

ASSUME OnboardingAssumption ==
  /\ IsFiniteSet(Tickets) /\ IsFiniteSet(Callers)
  /\ Codes \subseteq Tickets /\ Joining \subseteq Tickets
  /\ Person \in [Joining -> People]
  /\ Shop \notin People
  /\ None \notin Tickets \cup People \cup Invites \cup Names \cup {Shop}
  /\ Attempts \in Nat \ {0}
  /\ Lossy \in BOOLEAN

Businesses == People \cup {Shop}

VARIABLES
  issued,    \* tickets that were issued
  left,      \* attempts a ticket in Redis still has; 0 when it is not there
  expired,   \* tickets whose time is over
  invite,    \* the invitation a ticket signs up with
  open,      \* invitations that can be used
  status,    \* of each person's application
  requested, \* the subdomain each application asks for
  signed,    \* people with a sign-up session
  named,     \* the subdomain of each business
  blocked,   \* platform_blocked_subdomains
  call,      \* what each caller is doing
  guesses,   \* wrong codes compared with each ticket
  granted,   \* how often each ticket let somebody in
  lost,      \* tickets lost in Redis, at another host, or by a sign-in that failed
  joined,    \* how often each invitation was used
  racing     \* people who reserved a name while an edit of Shop had it to write

ticketVars == <<issued, left, expired, invite, guesses, granted, lost>>
nameVars == <<status, requested, named, blocked>>
vars == <<ticketVars, nameVars, open, signed, call, joined, racing>>

Statuses == {"none", "draft", "pending", "changes", "rejected", "approved", "deleted"}
Reserving == {"draft", "pending", "changes", "approved"}
Idle == [at |-> "idle", ticket |-> None, left |-> 0, code |-> "none", name |-> None]

Calls ==
  [at : {"idle", "judge", "putback", "grant", "rename"},
   ticket : Tickets \cup {None}, left : 0..Attempts,
   code : {"none", "right", "wrong", "elsewhere"}, name : Names \cup {None}]

TypeOK ==
  /\ issued \subseteq Tickets /\ expired \subseteq issued /\ lost \subseteq issued
  /\ left \in [Tickets -> 0..Attempts]
  /\ invite \in [Tickets -> Invites \cup {None}]
  /\ open \subseteq Invites
  /\ status \in [People -> Statuses]
  /\ requested \in [People -> Names \cup {None}]
  /\ signed \subseteq People
  /\ named \in [Businesses -> Names \cup {None}]
  /\ blocked \subseteq Names
  /\ call \in [Callers -> Calls]
  /\ guesses \in [Tickets -> Nat] /\ granted \in [Tickets -> Nat]
  /\ joined \in [Invites -> Nat]
  /\ racing \subseteq People

Init ==
  /\ issued = {} /\ expired = {} /\ lost = {}
  /\ left = [t \in Tickets |-> 0]
  /\ invite = [t \in Tickets |-> None]
  /\ open = Invites
  /\ status = [p \in People |-> "none"]
  /\ requested = [p \in People |-> None]
  /\ signed = {}
  /\ named \in {[b \in Businesses |-> IF b = Shop THEN n ELSE None] : n \in Names}
  /\ blocked = {}
  /\ call = [c \in Callers |-> Idle]
  /\ guesses = [t \in Tickets |-> 0]
  /\ granted = [t \in Tickets |-> 0]
  /\ joined = [i \in Invites |-> 0]
  /\ racing = {}

-----------------------------------------------------------------------------
(* Tickets *)

Goto(c, at) == call' = [call EXCEPT ![c].at = at]
Return(c) == call' = [call EXCEPT ![c] = Idle]

\* The answer of redis.set is ignored for codes; a ticket that was not stored
\* is lost.
Issue(t, i) ==
  /\ t \notin issued
  /\ IF t \in Joining THEN i \in open ELSE i = None
  /\ issued' = issued \cup {t}
  /\ invite' = [invite EXCEPT ![t] = i]
  /\ \/ /\ left' = [left EXCEPT ![t] = IF t \in Codes THEN Attempts ELSE 1]
        /\ UNCHANGED lost
     \/ Lossy /\ lost' = lost \cup {t} /\ UNCHANGED left
  /\ UNCHANGED <<expired, guesses, granted, nameVars, open, signed, call, joined,
                 racing>>

\* redis.consume reads and deletes in one command.  It returns nothing past its
\* time; whether a code is past its own is asked later.
Looked(t) == left
Taken(t) == [left EXCEPT ![t] = 0]

Verify(c, t, code) ==
  /\ call[c].at = "idle" /\ t \in issued
  /\ code = "wrong" => t \in Codes
  /\ code = "elsewhere" => t \notin Joining
  /\ left[t] > 0 /\ (t \in expired => t \in Codes)
  /\ left' = Taken(t)
  /\ \/ /\ call' = [call EXCEPT ![c] =
             [at |-> "judge", ticket |-> t, left |-> left[t], code |-> code,
              name |-> None]]
        /\ UNCHANGED lost
     \/ Lossy /\ lost' = lost \cup {t} /\ UNCHANGED call
  /\ UNCHANGED <<issued, expired, invite, guesses, granted, nameVars, open, signed,
                 joined, racing>>

OneMore(c) == call[c].left > 2
MayRetry(c) == call[c].left > 1

\* Only a code's own time is compared with the clock.
Judge(c) ==
  LET t == call[c].ticket IN
  /\ call[c].at = "judge"
  /\ IF t \in expired \cap Codes THEN Return(c) /\ UNCHANGED guesses
     ELSE IF call[c].code = "right" THEN Goto(c, "grant") /\ UNCHANGED guesses
     ELSE IF call[c].code = "elsewhere" THEN Return(c) /\ UNCHANGED guesses
     ELSE /\ guesses' = [guesses EXCEPT ![t] = @ + 1]
          /\ IF MayRetry(c) THEN Goto(c, "putback") ELSE Return(c)
  /\ lost' = IF call[c].code = "elsewhere" THEN lost \cup {t} ELSE lost
  /\ UNCHANGED <<issued, left, expired, invite, granted, nameVars, open,
                 signed, joined, racing>>

Remaining(c) == call[c].left - 1

PutBack(c) ==
  LET t == call[c].ticket IN
  /\ call[c].at = "putback"
  /\ \/ left' = [left EXCEPT ![t] = Remaining(c)] /\ UNCHANGED lost
     \/ Lossy /\ lost' = lost \cup {t} /\ UNCHANGED left
  /\ Return(c)
  /\ UNCHANGED <<issued, expired, invite, guesses, granted, nameVars, open, signed,
                 joined, racing>>

Expire(t) ==
  /\ t \in issued \ expired
  /\ expired' = expired \cup {t}
  /\ UNCHANGED <<issued, left, invite, guesses, granted, lost, nameVars, open,
                 signed, call, joined, racing>>

\* Redis drops what has expired.
DropTicket(t) ==
  /\ t \in expired /\ left[t] > 0
  /\ left' = [left EXCEPT ![t] = 0]
  /\ UNCHANGED <<issued, expired, invite, guesses, granted, lost, nameVars, open,
                 signed, call, joined, racing>>

\* A login ticket makes a session; the insert may fail.
Grant(c) ==
  LET t == call[c].ticket IN
  /\ call[c].at = "grant" /\ t \notin Joining
  /\ \/ granted' = [granted EXCEPT ![t] = @ + 1] /\ UNCHANGED lost
     \/ UNCHANGED granted /\ lost' = lost \cup {t}
  /\ Return(c)
  /\ UNCHANGED <<issued, left, expired, invite, guesses, nameVars, open,
                 signed, joined, racing>>

-----------------------------------------------------------------------------
(* Subdomains: the unique indexes and the trigger *)

Holds(p, n) == status[p] \in Reserving /\ requested[p] = n
Assigned(n) == {b \in Businesses : named[b] = n}

Unblocked(n) == TRUE
NotBlocked(n) == n \notin blocked

\* What an application may reserve ...
Reservable(p, n) ==
  /\ NotBlocked(n)
  /\ Assigned(n) \subseteq {p}
  /\ \A q \in People \ {p} : ~Holds(q, n)

\* ... and a business be given: the trigger asks for no reservations here.
Assignable(b, n) == NotBlocked(n) /\ Assigned(n) \subseteq {b}

-----------------------------------------------------------------------------
(* Signing up and applying *)

\* Rejected and deleted applications start again, without a name.
Reopened(p) == status[p] \in {"none", "rejected", "deleted"}
AsLooked(i) == TRUE
StillOpen(i) == i \in open

\* One transaction: the invitation is locked and looked at again.  The session
\* is stored after it, and whether Redis did is not asked.
SignUp(c) ==
  LET t == call[c].ticket  p == Person[t]  i == invite[t] IN
  /\ call[c].at = "grant" /\ t \in Joining
  /\ \/ /\ StillOpen(i) /\ status[p] # "approved"
        /\ ~Reopened(p) /\ requested[p] # None => Reservable(p, requested[p])
        /\ status' = [status EXCEPT ![p] = IF Reopened(p) THEN "draft" ELSE @]
        /\ requested' = [requested EXCEPT ![p] = IF Reopened(p) THEN None ELSE @]
        /\ open' = open \ {i}
        /\ joined' = [joined EXCEPT ![i] = @ + 1]
        /\ granted' = [granted EXCEPT ![t] = @ + 1]
        /\ signed' = signed \cup {p} \/ (Lossy /\ UNCHANGED signed)
        /\ UNCHANGED lost
     \/ /\ lost' = lost \cup {t}
        /\ UNCHANGED <<status, requested, open, joined, granted, signed>>
  /\ Return(c)
  /\ UNCHANGED <<issued, left, expired, invite, guesses, named, blocked,
                 racing>>

LoseSession(p) ==
  /\ p \in signed
  /\ signed' = signed \ {p}
  /\ UNCHANGED <<ticketVars, nameVars, open, call, joined, racing>>

CloseInvite(i) ==
  /\ i \in open
  /\ open' = open \ {i}
  /\ UNCHANGED <<ticketVars, nameVars, signed, call, joined, racing>>

Fill(p, n) ==
  /\ p \in signed /\ status[p] \in {"draft", "changes"}
  /\ Reservable(p, n)
  /\ status' = [status EXCEPT ![p] = "draft"]
  /\ requested' = [requested EXCEPT ![p] = n]
  /\ racing' = IF \E c \in Callers : call[c].at = "rename" /\ call[c].name = n
               THEN racing \cup {p} ELSE racing \ {p}
  /\ UNCHANGED <<ticketVars, named, blocked, open, signed, call, joined>>

\* The trigger fires for the status, too.
Submit(p) ==
  /\ p \in signed /\ status[p] = "draft" /\ requested[p] # None
  /\ Reservable(p, requested[p])
  /\ status' = [status EXCEPT ![p] = "pending"]
  /\ UNCHANGED <<ticketVars, requested, named, blocked, open, signed, call, joined,
                 racing>>

Decline(p, verdict) ==
  /\ status[p] = "pending" /\ verdict \in {"rejected", "changes"}
  /\ verdict = "changes" => Reservable(p, requested[p])
  /\ status' = [status EXCEPT ![p] = verdict]
  /\ UNCHANGED <<ticketVars, requested, named, blocked, open, signed, call, joined,
                 racing>>

\* One transaction makes the business, its subscription and its owner.
Approve(p) ==
  /\ status[p] = "pending"
  /\ Assignable(p, requested[p])
  /\ named' = [named EXCEPT ![p] = requested[p]]
  /\ status' = [status EXCEPT ![p] = "approved"]
  /\ UNCHANGED <<ticketVars, requested, blocked, open, signed, call, joined,
                 racing>>

-----------------------------------------------------------------------------
(* What administrators do to businesses and names *)

LeftApproved(p) == status[p]
Closed(p) == "deleted"

DeleteBusiness(p) ==
  /\ named[p] # None
  /\ named' = [named EXCEPT ![p] = None]
  /\ status' = [status EXCEPT ![p] = Closed(p)]
  /\ requested' = [requested EXCEPT ![p] = None]
  /\ UNCHANGED <<ticketVars, blocked, open, signed, call, joined, racing>>

Block(n) ==
  /\ n \notin blocked
  /\ Assigned(n) = {} /\ \A p \in People : ~Holds(p, n)
  /\ blocked' = blocked \cup {n}
  /\ UNCHANGED <<ticketVars, status, requested, named, open, signed, call, joined,
                 racing>>

Unblock(n) ==
  /\ n \in blocked
  /\ blocked' = blocked \ {n}
  /\ UNCHANGED <<ticketVars, status, requested, named, open, signed, call, joined,
                 racing>>

\* An administrator edits Shop.  A name that differs from the one read is looked
\* for among businesses, blocks and reservations.  An edit of other fields looks
\* for nothing, and keeps the name it read.
VacantButReserved(n) == Assigned(n) = {} /\ n \notin blocked
Vacant(n) == VacantButReserved(n) /\ \A p \in People : ~Holds(p, n)

StartRename(c, n) ==
  /\ call[c].at = "idle"
  /\ n = named[Shop] \/ Vacant(n)
  /\ call' = [call EXCEPT ![c] = [Idle EXCEPT !.at = "rename", !.name = n]]
  /\ UNCHANGED <<ticketVars, nameVars, open, signed, joined, racing>>

\* Every edit writes its name, one that was only read included, in a transaction
\* later.  The trigger stops only a name that changes and is blocked.
Rename(c) ==
  LET n == call[c].name IN
  /\ call[c].at = "rename"
  /\ named' = [named EXCEPT ![Shop] = IF Assignable(Shop, n) THEN n ELSE @]
  /\ Return(c)
  /\ UNCHANGED <<ticketVars, status, requested, blocked, open, signed, joined, racing>>

-----------------------------------------------------------------------------
Next ==
  \/ \E t \in Tickets :
       \/ \E i \in Invites \cup {None} : Issue(t, i)
       \/ Expire(t) \/ DropTicket(t)
  \/ \E c \in Callers :
       \/ \E t \in Tickets, code \in {"right", "wrong", "elsewhere"} :
            Verify(c, t, code)
       \/ Judge(c) \/ PutBack(c) \/ Grant(c) \/ SignUp(c)
       \/ \E n \in Names : StartRename(c, n)
       \/ Rename(c)
  \/ \E i \in Invites : CloseInvite(i)
  \/ \E p \in People :
       \/ LoseSession(p) \/ Submit(p) \/ Approve(p) \/ DeleteBusiness(p)
       \/ \E n \in Names : Fill(p, n)
       \/ \E verdict \in {"rejected", "changes"} : Decline(p, verdict)
  \/ \E n \in Names : Block(n) \/ Unblock(n)

Spec == Init /\ [][Next]_vars

-----------------------------------------------------------------------------
(* Properties *)

\* A ticket lets somebody in at most once and is compared with at most
\* Attempts wrong codes, however many verifications run at once (docs/
\* security.md: codes "allow five attempts" and "are atomically consumed").  An
\* invitation makes one application, though several people may have been let
\* through with it before one of them signed up.
UsedOnce ==
  /\ \A t \in Tickets : granted[t] <= 1 /\ guesses[t] <= Attempts
  /\ \A i \in Invites : joined[i] <= 1

\* The right code is refused only for a cause: a ticket is gone when its time
\* is over, it has let somebody in or failed to, it was sent to another host, it
\* was guessed at often enough, Redis lost it, or another verification holds it
\* at this moment.
GoneForACause ==
  \A t \in issued : left[t] = 0 =>
    \/ t \in expired \cup lost
    \/ \E c \in Callers : call[c].ticket = t
    \/ t \in Codes /\ guesses[t] = Attempts
    \/ granted[t] = 1

\* No name is in use and blocked, reserved twice or given to two businesses,
\* whatever the order of reservations, reviews, blocks and edits.  (A business
\* and somebody else's reservation: TakenOnlyByOverlap.)
NamesExclusive ==
  \A n \in Names :
    /\ \A a, b \in Assigned(n) : a = b
    /\ \A p, q \in People : Holds(p, n) /\ Holds(q, n) => p = q
    /\ n \in blocked => Assigned(n) = {} /\ \A p \in People : ~Holds(p, n)

\* Shop has a name that an application has reserved only if an edit of Shop that
\* was to write that name was under way when it was reserved (updateBusiness):
\* nobody loses a reservation to an administrator who begins later.  That it can
\* be lost to one under way, the trigger's comment (91_subdomain_policy.sql: the
\* checks "remain authoritative during concurrent writes") does not say.
TakenOnlyByOverlap ==
  \A p \in People, n \in Names : named[Shop] = n /\ Holds(p, n) => p \in racing

\* An application is approved exactly as long as its business is there, so
\* that who lost a business can apply again, and who has one cannot; and
\* nothing is reviewed that asks for no name.
ApprovedHasBusiness ==
  \A p \in People :
    /\ status[p] = "approved" <=> named[p] # None
    /\ status[p] \in {"pending", "approved"} => requested[p] # None
=============================================================================
