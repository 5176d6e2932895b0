-------------------------- MODULE OnboardingProofs --------------------------
(***************************************************************************)
(* Proofs about the onboarding, for any tickets, people, invitations,      *)
(* names and callers, and a Redis that may lose anything.                  *)
(***************************************************************************)
EXTENDS Onboarding, TLAPS

-----------------------------------------------------------------------------
(* Steps by what they concern *)

Ticketing ==
  \/ \E t \in Tickets :
       \/ \E i \in Invites \cup {None} : Issue(t, i)
       \/ Expire(t) \/ DropTicket(t)
  \/ \E c \in Callers :
       \/ \E t \in Tickets, code \in {"right", "wrong", "elsewhere"} :
            Verify(c, t, code)
       \/ Judge(c) \/ PutBack(c) \/ Grant(c)

Renaming ==
  \E c \in Callers : (\E n \in Names : StartRename(c, n)) \/ Rename(c)

Applying ==
  \/ \E i \in Invites : CloseInvite(i)
  \/ \E p \in People :
       \/ LoseSession(p) \/ Submit(p) \/ Approve(p) \/ DeleteBusiness(p)
       \/ \E n \in Names : Fill(p, n)
       \/ \E verdict \in {"rejected", "changes"} : Decline(p, verdict)
  \/ \E n \in Names : Block(n) \/ Unblock(n)

LEMMA NextSplits ==
  ASSUME Next
  PROVE  \/ Ticketing \/ Renaming \/ Applying
         \/ \E c \in Callers : SignUp(c)
BY DEF Next, Ticketing, Renaming, Applying

-----------------------------------------------------------------------------
(* The invariant *)

\* What a verification knows of the ticket it has taken.
HolderInv(c) ==
  LET t == call[c].ticket IN
  IF call[c].at \in {"idle", "rename"} THEN t = None
  ELSE
    /\ t \in issued /\ left[t] = 0 /\ granted[t] = 0
    /\ call[c].left \in 1..Attempts /\ call[c].code # "none"
    /\ call[c].code = "wrong" => t \in Codes
    /\ call[c].at = "putback" => call[c].left > 1 /\ call[c].code = "wrong"
    /\ t \in Codes /\ call[c].at = "judge" => guesses[t] + call[c].left = Attempts
    /\ t \in Codes /\ call[c].at = "putback" =>
         guesses[t] + call[c].left = Attempts + 1

\* At most one verification has a ticket.
OneHolder ==
  \A c, d \in Callers : call[c].ticket = call[d].ticket /\ call[c].ticket # None => c = d

\* A ticket in Redis has let nobody in and has the attempts left that it was
\* not guessed at.
StoredInv(t) ==
  /\ left[t] > 0 => t \in issued /\ granted[t] = 0
  /\ left[t] > 0 /\ t \in Codes => guesses[t] + left[t] = Attempts
  /\ t \notin issued => guesses[t] = 0 /\ granted[t] = 0

\* UsedOnce and GoneForACause, of one ticket.
Used(t) == granted[t] <= 1 /\ guesses[t] <= Attempts

Gone(t) ==
  t \in issued /\ left[t] = 0 =>
    \/ t \in expired \cup lost
    \/ \E c \in Callers : call[c].ticket = t
    \/ t \in Codes /\ guesses[t] = Attempts
    \/ granted[t] = 1

TicketInv ==
  /\ OneHolder
  /\ \A c \in Callers : HolderInv(c)
  /\ \A t \in Tickets : StoredInv(t) /\ Used(t) /\ Gone(t)

\* An open invitation was not used.
InviteInv ==
  \A i \in Invites : joined[i] <= 1 /\ (i \in open => joined[i] = 0)

\* Shop always has a name.  An application that holds the name Shop has, or the
\* one an edit is about to write, reserved it while such an edit was under way.
RenamingInv ==
  /\ named[Shop] \in Names /\ TakenOnlyByOverlap
  /\ \A c \in Callers : call[c].at = "rename" =>
       /\ call[c].name \in Names
       /\ \A p \in People : Holds(p, call[c].name) => p \in racing

NameInv == NamesExclusive /\ ApprovedHasBusiness /\ RenamingInv

-----------------------------------------------------------------------------
(* Types *)

LEMMA IdleType == Idle \in Calls
BY OnboardingAssumption DEF OnboardingAssumption, Idle, Calls

LEMMA InitType == Init => TypeOK
<1> SUFFICES ASSUME Init PROVE TypeOK
  OBVIOUS
<1>1. call \in [Callers -> Calls]
  BY IdleType DEF Init
<1>2. named \in [Businesses -> Names \cup {None}]
  BY DEF Init
<1>3. left \in [Tickets -> 0..Attempts] /\ status \in [People -> Statuses]
  BY OnboardingAssumption DEF OnboardingAssumption, Init, Statuses
<1>4. QED
  BY <1>1, <1>2, <1>3 DEF Init, TypeOK

\* The two ways a call moves on.
LEMMA ReturnType ==
  ASSUME call \in [Callers -> Calls], NEW c \in Callers, Return(c)
  PROVE  call' \in [Callers -> Calls]
BY IdleType DEF Return

LEMMA GotoType ==
  ASSUME call \in [Callers -> Calls], NEW c \in Callers,
         NEW at \in {"judge", "putback", "grant", "rename"}, Goto(c, at)
  PROVE  call' \in [Callers -> Calls]
BY DEF Goto, Calls

LEMMA TicketingType ==
  ASSUME TypeOK, TicketInv, Ticketing
  PROVE  TypeOK'
<1> USE OnboardingAssumption DEF OnboardingAssumption, ticketVars, nameVars
<1>1. ASSUME NEW t \in Tickets, NEW i \in Invites \cup {None}, Issue(t, i)
      PROVE  TypeOK'
  BY <1>1 DEF TypeOK, Issue
<1>2. ASSUME NEW t \in Tickets, Expire(t) \/ DropTicket(t)
      PROVE  TypeOK'
  BY <1>2 DEF TypeOK, Expire, DropTicket
<1>3. ASSUME NEW c \in Callers, NEW t \in Tickets,
             NEW code \in {"right", "wrong", "elsewhere"}, Verify(c, t, code)
      PROVE  TypeOK'
  <2>1. [at |-> "judge", ticket |-> t, left |-> left[t], code |-> code,
         name |-> None] \in Calls
    BY DEF TypeOK, Calls
  <2>2. call' \in [Callers -> Calls]
    BY <1>3, <2>1 DEF TypeOK, Verify
  <2>3. left' \in [Tickets -> 0..Attempts]
    BY <1>3 DEF TypeOK, Verify, Taken
  <2>4. lost' \subseteq issued'
    BY <1>3 DEF TypeOK, Verify
  <2>5. QED
    BY <1>3, <2>2, <2>3, <2>4 DEF TypeOK, Verify
<1>4. ASSUME NEW c \in Callers, Judge(c)
      PROVE  TypeOK'
  <2>1. call' \in [Callers -> Calls]
    BY <1>4, GotoType, ReturnType DEF TypeOK, Judge
  <2>2. guesses' \in [Tickets -> Nat]
    BY <1>4 DEF TypeOK, Judge
  <2>3. call[c].ticket \in issued
    BY <1>4 DEF TicketInv, HolderInv, Judge
  <2>4. QED
    BY <1>4, <2>1, <2>2, <2>3 DEF TypeOK, Judge
<1>5. ASSUME NEW c \in Callers, PutBack(c)
      PROVE  TypeOK'
  <2>1. call' \in [Callers -> Calls]
    BY <1>5, ReturnType DEF TypeOK, PutBack
  <2>2. call[c].ticket \in issued /\ call[c].left \in 1..Attempts
    BY <1>5 DEF TicketInv, HolderInv, PutBack
  <2>3. left' \in [Tickets -> 0..Attempts]
    BY <1>5, <2>2 DEF TypeOK, PutBack, Remaining
  <2>4. QED
    BY <1>5, <2>1, <2>2, <2>3 DEF TypeOK, PutBack
<1>6. ASSUME NEW c \in Callers, Grant(c)
      PROVE  TypeOK'
  <2>1. call' \in [Callers -> Calls]
    BY <1>6, ReturnType DEF TypeOK, Grant
  <2>2. call[c].ticket \in issued
    BY <1>6 DEF TicketInv, HolderInv, Grant
  <2>3. QED
    BY <1>6, <2>1, <2>2 DEF TypeOK, Grant
<1>7. QED
  BY <1>1, <1>2, <1>3, <1>4, <1>5, <1>6 DEF Ticketing

LEMMA RenamingType ==
  ASSUME TypeOK, Renaming
  PROVE  TypeOK'
<1>1. ASSUME NEW c \in Callers, NEW n \in Names, StartRename(c, n)
      PROVE  TypeOK'
  <2>1. [Idle EXCEPT !.at = "rename", !.name = n] \in Calls
    BY IdleType DEF Calls
  <2>2. call' \in [Callers -> Calls]
    BY <1>1, <2>1 DEF TypeOK, StartRename
  <2>3. QED
    BY <1>1, <2>2 DEF TypeOK, StartRename, ticketVars, nameVars
<1>2. ASSUME NEW c \in Callers, Rename(c)
      PROVE  TypeOK'
  <2>1. call' \in [Callers -> Calls]
    BY <1>2, ReturnType DEF TypeOK, Rename
  <2>2. call[c].name \in Names \cup {None}
    BY DEF TypeOK, Calls
  <2>3. named' \in [Businesses -> Names \cup {None}]
    BY <1>2, <2>2 DEF TypeOK, Rename
  <2>4. QED
    BY <1>2, <2>1, <2>3 DEF TypeOK, Rename, ticketVars
<1>3. QED
  BY <1>1, <1>2 DEF Renaming

LEMMA ApplyingType ==
  ASSUME TypeOK, Applying
  PROVE  TypeOK'
<1> USE DEF ticketVars, nameVars, Statuses
<1>1. ASSUME NEW i \in Invites, CloseInvite(i)
      PROVE  TypeOK'
  BY <1>1 DEF TypeOK, CloseInvite
<1>2. ASSUME NEW p \in People, NEW n \in Names, Fill(p, n)
      PROVE  TypeOK'
  BY <1>2 DEF TypeOK, Fill
<1>3. ASSUME NEW p \in People, LoseSession(p) \/ Submit(p) \/ Approve(p)
      PROVE  TypeOK'
  BY <1>3 DEF TypeOK, LoseSession, Submit, Approve
<1>4. ASSUME NEW p \in People, NEW verdict \in {"rejected", "changes"},
             Decline(p, verdict)
      PROVE  TypeOK'
  BY <1>4 DEF TypeOK, Decline
<1>5. ASSUME NEW p \in People, DeleteBusiness(p)
      PROVE  TypeOK'
  BY <1>5 DEF TypeOK, DeleteBusiness, Closed
<1>6. ASSUME NEW n \in Names, Block(n) \/ Unblock(n)
      PROVE  TypeOK'
  BY <1>6 DEF TypeOK, Block, Unblock
<1>7. QED
  BY <1>1, <1>2, <1>3, <1>4, <1>5, <1>6 DEF Applying

LEMMA SignUpType ==
  ASSUME TypeOK, TicketInv, NEW c \in Callers, SignUp(c)
  PROVE  TypeOK'
<1> DEFINE t == call[c].ticket
           p == Person[t]
<1>1. t \in Tickets /\ t \in issued /\ p \in People
  BY OnboardingAssumption DEF OnboardingAssumption, TypeOK, TicketInv, HolderInv, SignUp
<1>2. call' \in [Callers -> Calls]
  BY ReturnType DEF TypeOK, SignUp
<1>3. status' \in [People -> Statuses] /\ requested' \in [People -> Names \cup {None}]
  BY <1>1 DEF TypeOK, SignUp, Statuses
<1>4. granted' \in [Tickets -> Nat] /\ joined' \in [Invites -> Nat]
  BY <1>1 DEF TypeOK, SignUp
<1>5. open' \subseteq Invites /\ signed' \subseteq People /\ lost' \subseteq issued
  BY <1>1 DEF TypeOK, SignUp
<1>6. QED
  BY <1>2, <1>3, <1>4, <1>5 DEF TypeOK, SignUp

-----------------------------------------------------------------------------
(* Tickets *)

\* Another ticket, and who holds it, are left alone.
Kept(s) ==
  /\ left'[s] = left[s] /\ guesses'[s] = guesses[s] /\ granted'[s] = granted[s]
  /\ s \in issued' <=> s \in issued

\* A step of caller c, with ticket t, that nobody else has.
LEMMA OneTicketMoves ==
  ASSUME TypeOK, TicketInv, NEW c \in Callers, NEW t \in Tickets,
         call[c].ticket \in {t, None}, call'[c].ticket \in {t, None},
         \A d \in Callers \ {c} : call'[d] = call[d] /\ call[d].ticket # t,
         \A s \in Tickets \ {t} : Kept(s),
         expired \subseteq expired', lost \subseteq lost',
         HolderInv(c)', StoredInv(t)', Used(t)', Gone(t)'
  PROVE  TicketInv'
<1>1. \A d \in Callers : call[d].ticket \in Tickets \cup {None}
  BY DEF TypeOK, Calls
<1>2. OneHolder'
  BY <1>1 DEF TicketInv, OneHolder
<1>3. ASSUME NEW d \in Callers \ {c}
      PROVE  HolderInv(d)'
  <2>1. HolderInv(d) /\ call'[d] = call[d] /\ call[d].ticket \in (Tickets \ {t}) \cup {None}
    BY <1>1 DEF TicketInv
  <2>2. CASE call[d].at \in {"idle", "rename"}
    BY <2>1, <2>2 DEF HolderInv
  <2>3. CASE call[d].at \notin {"idle", "rename"}
    <3>1. call[d].ticket \in issued /\ call[d].ticket # None
      BY <2>1, <2>3, OnboardingAssumption DEF HolderInv, TypeOK, OnboardingAssumption
    <3>2. Kept(call[d].ticket)
      BY <2>1, <3>1
    <3>3. QED
      BY <2>1, <2>3, <3>2 DEF HolderInv, Kept
  <2>4. QED
    BY <2>2, <2>3
<1>4. ASSUME NEW s \in Tickets \ {t}
      PROVE  StoredInv(s)' /\ Used(s)' /\ Gone(s)'
  <2>1. StoredInv(s) /\ Used(s) /\ Gone(s) /\ Kept(s)
    BY DEF TicketInv
  <2>2. (\E d \in Callers : call[d].ticket = s) => \E d \in Callers : call'[d].ticket = s
    BY OnboardingAssumption DEF OnboardingAssumption
  <2>3. QED
    BY <2>1, <2>2 DEF StoredInv, Used, Gone, Kept
<1>5. QED
  BY <1>2, <1>3, <1>4 DEF TicketInv

\* Moving on and returning.
LEMMA MovesOn ==
  ASSUME TypeOK, NEW c \in Callers, NEW at, Goto(c, at) \/ Return(c)
  PROVE  /\ \A d \in Callers \ {c} : call'[d] = call[d]
         /\ call'[c].ticket \in {call[c].ticket, None}
BY DEF TypeOK, Calls, Goto, Return, Idle

\* What the ticket of a verification is.
LEMMA Holding ==
  ASSUME TypeOK, TicketInv, NEW c \in Callers,
         call[c].at \in {"judge", "putback", "grant"}
  PROVE  /\ call[c].ticket \in issued /\ call[c].ticket \in Tickets
         /\ call[c].ticket # None
         /\ left[call[c].ticket] = 0 /\ granted[call[c].ticket] = 0
         /\ \A d \in Callers \ {c} : call[d].ticket # call[c].ticket
         /\ StoredInv(call[c].ticket) /\ Used(call[c].ticket) /\ HolderInv(c)
BY OnboardingAssumption
   DEF OnboardingAssumption, TypeOK, TicketInv, OneHolder, HolderInv

LEMMA JudgeTicket ==
  ASSUME TypeOK, TicketInv, NEW c \in Callers, Judge(c)
  PROVE  TicketInv'
<1>. PICK t \in Tickets : t = call[c].ticket
  BY Holding DEF Judge
<1>1. /\ t \in issued /\ t # None /\ left[t] = 0 /\ granted[t] = 0
      /\ \A d \in Callers \ {c} : call[d].ticket # t
      /\ StoredInv(t) /\ Used(t) /\ HolderInv(c)
  BY Holding DEF Judge
<1>2. \A s \in Tickets \ {t} : Kept(s)
  BY DEF TypeOK, Judge, Kept
<1>3. /\ \A d \in Callers \ {c} : call'[d] = call[d]
      /\ call'[c].ticket \in {t, None}
  BY MovesOn DEF Judge
<1>4. HolderInv(c)' /\ StoredInv(t)' /\ Used(t)' /\ Gone(t)'
  <2>1. CASE t \in expired \cap Codes
    <3>1. call'[c] = Idle /\ UNCHANGED <<issued, left, granted, guesses, expired>>
      BY <2>1 DEF TypeOK, Judge, Return
    <3>2. QED
      BY <1>1, <2>1, <3>1 DEF Idle, HolderInv, StoredInv, Used, Gone
  <2>2. CASE t \notin expired \cap Codes /\ call[c].code = "right"
    BY <1>1, <2>2
       DEF TypeOK, Calls, Judge, Goto, HolderInv, StoredInv, Used, Gone
  <2>3. CASE t \notin expired \cap Codes /\ call[c].code = "elsewhere"
    <3>1. /\ call'[c] = Idle /\ UNCHANGED <<issued, left, granted, guesses>>
          /\ t \in lost'
      BY <2>3 DEF TypeOK, Judge, Return
    <3>2. QED
      BY <1>1, <3>1 DEF Idle, HolderInv, StoredInv, Used, Gone
  <2>4. CASE t \notin expired \cap Codes /\ call[c].code = "wrong"
    <3>1. /\ t \in Codes /\ guesses[t] + call[c].left = Attempts
          /\ call[c].left \in 1..Attempts /\ guesses[t] \in Nat
          /\ Attempts \in Nat
      BY <1>1, <2>4, OnboardingAssumption DEF OnboardingAssumption, TypeOK, HolderInv, Judge
    <3>2. guesses'[t] = guesses[t] + 1 /\ UNCHANGED <<issued, left, granted, expired>>
      BY <1>1, <2>4 DEF TypeOK, Judge
    <3>3. CASE MayRetry(c)
      <4>1. call'[c] = [call[c] EXCEPT !.at = "putback"] /\ call[c] \in Calls
        BY <2>4, <3>3 DEF TypeOK, Judge, Goto
      <4>2. /\ call'[c].at = "putback" /\ call'[c].ticket = t
            /\ call'[c].left = call[c].left /\ call'[c].code = "wrong"
        BY <4>1, <2>4 DEF Calls
      <4>3. QED
        BY <1>1, <3>1, <3>2, <3>3, <4>2 DEF MayRetry, HolderInv, StoredInv, Used, Gone
    <3>4. CASE ~MayRetry(c)
      <4>1. call'[c] = Idle
        BY <2>4, <3>4 DEF TypeOK, Judge, Return
      <4>2. call[c].left = 1
        BY <3>1, <3>4 DEF MayRetry
      <4>3. QED
        BY <1>1, <3>1, <3>2, <4>1, <4>2 DEF Idle, HolderInv, StoredInv, Used, Gone
    <3>5. QED
      BY <3>3, <3>4
  <2>5. call[c].code \in {"right", "wrong", "elsewhere"}
    BY <1>1 DEF TypeOK, Calls, Judge, HolderInv
  <2>6. QED
    BY <2>1, <2>2, <2>3, <2>4, <2>5
<1>5. expired \subseteq expired' /\ lost \subseteq lost'
  BY DEF Judge
<1>6. QED
  BY <1>1, <1>2, <1>3, <1>4, <1>5, OneTicketMoves

LEMMA PutBackTicket ==
  ASSUME TypeOK, TicketInv, NEW c \in Callers, PutBack(c)
  PROVE  TicketInv'
<1>. PICK t \in Tickets : t = call[c].ticket
  BY Holding DEF PutBack
<1>1. /\ t \in issued /\ t # None /\ left[t] = 0 /\ granted[t] = 0
      /\ \A d \in Callers \ {c} : call[d].ticket # t
      /\ StoredInv(t) /\ Used(t) /\ HolderInv(c)
  BY Holding DEF PutBack
<1>2. \A s \in Tickets \ {t} : Kept(s)
  BY DEF TypeOK, PutBack, Kept
<1>3. /\ \A d \in Callers \ {c} : call'[d] = call[d]
      /\ call'[c].ticket \in {t, None}
  BY MovesOn DEF PutBack
<1>4. HolderInv(c)' /\ StoredInv(t)' /\ Used(t)' /\ Gone(t)'
  <2>1. /\ call'[c] = Idle /\ UNCHANGED <<issued, granted, guesses>>
        /\ \/ left'[t] = call[c].left - 1
           \/ left' = left /\ t \in lost'
    BY DEF TypeOK, PutBack, Return, Remaining
  <2>2. /\ t \in Codes /\ guesses[t] + call[c].left = Attempts + 1
        /\ call[c].left \in 1..Attempts /\ call[c].left > 1
        /\ guesses[t] \in Nat /\ Attempts \in Nat
    BY <1>1, OnboardingAssumption DEF OnboardingAssumption, TypeOK, HolderInv, PutBack
  <2>3. QED
    BY <1>1, <2>1, <2>2 DEF Idle, HolderInv, StoredInv, Used, Gone
<1>5. expired \subseteq expired' /\ lost \subseteq lost'
  BY DEF PutBack
<1>6. QED
  BY <1>1, <1>2, <1>3, <1>4, <1>5, OneTicketMoves

\* A session, a sign-up, or the failure of either.
LEMMA UseTicket ==
  ASSUME TypeOK, TicketInv, NEW c \in Callers, Grant(c) \/ SignUp(c)
  PROVE  TicketInv'
<1>. PICK t \in Tickets : t = call[c].ticket
  BY Holding DEF Grant, SignUp
<1>1. /\ t \in issued /\ t # None /\ left[t] = 0 /\ granted[t] = 0
      /\ \A d \in Callers \ {c} : call[d].ticket # t
      /\ StoredInv(t) /\ Used(t) /\ HolderInv(c)
  BY Holding DEF Grant, SignUp
<1>2. \A s \in Tickets \ {t} : Kept(s)
  BY DEF TypeOK, Grant, SignUp, Kept
<1>3. /\ \A d \in Callers \ {c} : call'[d] = call[d]
      /\ call'[c].ticket \in {t, None}
  BY MovesOn DEF Grant, SignUp
<1>4. HolderInv(c)' /\ StoredInv(t)' /\ Used(t)' /\ Gone(t)'
  <2>1. /\ call'[c] = Idle /\ UNCHANGED <<issued, left, guesses>>
        /\ \/ granted'[t] = 1
           \/ granted' = granted /\ t \in lost'
    BY <1>1 DEF TypeOK, Grant, SignUp, Return
  <2>2. QED
    BY <1>1, <2>1 DEF Idle, HolderInv, StoredInv, Used, Gone
<1>5. expired \subseteq expired' /\ lost \subseteq lost'
  BY DEF Grant, SignUp
<1>6. QED
  BY <1>1, <1>2, <1>3, <1>4, <1>5, OneTicketMoves

LEMMA VerifyTicket ==
  ASSUME TypeOK, TicketInv, NEW c \in Callers, NEW t \in Tickets,
         NEW code \in {"right", "wrong", "elsewhere"}, Verify(c, t, code)
  PROVE  TicketInv'
<1>1. /\ t \in issued /\ left[t] \in 1..Attempts /\ left[t] > 0
      /\ granted[t] = 0 /\ StoredInv(t) /\ Used(t) /\ t # None
  BY OnboardingAssumption
     DEF OnboardingAssumption, TypeOK, TicketInv, StoredInv, Verify
<1>2. \A d \in Callers : call[d].ticket # t
  BY <1>1 DEF TicketInv, HolderInv
<1>3. call[c].ticket = None /\ HolderInv(c)
  BY DEF TicketInv, HolderInv, Verify
<1>4. /\ \A s \in Tickets \ {t} : Kept(s)
      /\ left'[t] = 0 /\ UNCHANGED <<issued, granted, guesses>>
  BY DEF TypeOK, Verify, Kept, Taken
<1>5. \/ /\ call' = [call EXCEPT ![c] =
              [at |-> "judge", ticket |-> t, left |-> left[t], code |-> code,
               name |-> None]]
         /\ lost' = lost
      \/ call' = call /\ t \in lost' /\ lost \subseteq lost'
  BY DEF Verify
<1>6. \A d \in Callers \ {c} : call'[d] = call[d]
  BY <1>5 DEF TypeOK
<1>7. HolderInv(c)' /\ StoredInv(t)' /\ Used(t)' /\ Gone(t)'
        /\ call'[c].ticket \in {t, None}
  <2>1. CASE call' = call /\ t \in lost'
    BY <1>1, <1>3, <1>4, <2>1, OnboardingAssumption
       DEF OnboardingAssumption, HolderInv, StoredInv, Used, Gone, Verify
  <2>2. CASE call' = [call EXCEPT ![c] =
                [at |-> "judge", ticket |-> t, left |-> left[t], code |-> code,
                 name |-> None]]
    <3>1. call'[c] = [at |-> "judge", ticket |-> t, left |-> left[t], code |-> code,
                      name |-> None]
      BY <2>2 DEF TypeOK
    <3>2. /\ call'[c].at = "judge" /\ call'[c].ticket = t
          /\ call'[c].left = left[t] /\ call'[c].code = code
      BY <3>1
    <3>3. code = "wrong" => t \in Codes
      BY DEF Verify
    <3>4. QED
      BY <1>1, <1>4, <3>2, <3>3 DEF HolderInv, StoredInv, Used, Gone
  <2>3. QED
    BY <1>5, <2>1, <2>2
<1>8. expired \subseteq expired' /\ lost \subseteq lost'
  BY <1>5 DEF Verify
<1>9. QED
  BY <1>2, <1>3, <1>4, <1>6, <1>7, <1>8, OneTicketMoves

\* A ticket nobody has, while no verification moves.
LEMMA UnheldTicketMoves ==
  ASSUME TypeOK, TicketInv, NEW t \in Tickets, call' = call,
         \A d \in Callers : call[d].ticket # t,
         \A s \in Tickets \ {t} : Kept(s),
         expired \subseteq expired', lost \subseteq lost',
         StoredInv(t)', Used(t)', Gone(t)'
  PROVE  TicketInv'
<1>1. ASSUME NEW c \in Callers
      PROVE  HolderInv(c)'
  <2>1. HolderInv(c) /\ call[c].ticket \in (Tickets \ {t}) \cup {None}
    BY DEF TicketInv, TypeOK, Calls
  <2>2. call[c].at \notin {"idle", "rename"} => call[c].ticket \in Tickets \ {t}
    BY <2>1, OnboardingAssumption DEF OnboardingAssumption, HolderInv, TypeOK
  <2>3. QED
    BY <2>1, <2>2 DEF HolderInv, Kept
<1>2. ASSUME NEW s \in Tickets \ {t}
      PROVE  StoredInv(s)' /\ Used(s)' /\ Gone(s)'
  BY DEF TicketInv, StoredInv, Used, Gone, Kept
<1>3. QED
  BY <1>1, <1>2 DEF TicketInv, OneHolder

LEMMA IssueTicket ==
  ASSUME TypeOK, TicketInv, NEW t \in Tickets, NEW i, Issue(t, i)
  PROVE  TicketInv'
<1>1. /\ t \notin issued /\ left[t] = 0 /\ granted[t] = 0 /\ guesses[t] = 0
      /\ t # None /\ Attempts \in Nat \ {0}
  BY OnboardingAssumption
     DEF OnboardingAssumption, TypeOK, TicketInv, StoredInv, Issue
<1>2. \A d \in Callers : call[d].ticket # t
  BY <1>1 DEF TicketInv, HolderInv
<1>3. /\ \A s \in Tickets \ {t} : Kept(s)
      /\ call' = call /\ expired' = expired /\ lost \subseteq lost'
  BY DEF TypeOK, Issue, Kept
<1>4. /\ t \in issued' /\ UNCHANGED <<granted, guesses>>
      /\ \/ left'[t] = IF t \in Codes THEN Attempts ELSE 1
         \/ left' = left /\ t \in lost'
  BY DEF TypeOK, Issue
<1>5. StoredInv(t)' /\ Used(t)' /\ Gone(t)'
  BY <1>1, <1>4 DEF StoredInv, Used, Gone
<1>6. QED
  BY <1>2, <1>3, <1>5, UnheldTicketMoves

LEMMA DropTicketKeeps ==
  ASSUME TypeOK, TicketInv, NEW t \in Tickets, DropTicket(t)
  PROVE  TicketInv'
<1>1. left[t] \in 1..Attempts /\ t \in expired /\ StoredInv(t) /\ Used(t)
  BY OnboardingAssumption DEF OnboardingAssumption, TypeOK, TicketInv, DropTicket
<1>2. \A d \in Callers : call[d].ticket # t
  BY <1>1, OnboardingAssumption
     DEF OnboardingAssumption, TicketInv, HolderInv, TypeOK, Calls
<1>3. /\ \A s \in Tickets \ {t} : Kept(s)
      /\ left'[t] = 0
      /\ UNCHANGED <<call, expired, lost, issued, granted, guesses>>
  BY DEF TypeOK, DropTicket, Kept
<1>4. StoredInv(t)' /\ Used(t)' /\ Gone(t)'
  BY <1>1, <1>3 DEF StoredInv, Used, Gone
<1>5. QED
  BY <1>2, <1>3, <1>4, UnheldTicketMoves

\* Time, applications and names touch no ticket.
LEMMA StillTickets ==
  ASSUME TicketInv, expired \subseteq expired',
         UNCHANGED <<issued, left, guesses, granted, lost, call>>
  PROVE  TicketInv'
BY DEF TicketInv, OneHolder, HolderInv, StoredInv, Used, Gone

LEMMA RenamingTicket ==
  ASSUME TypeOK, TicketInv, NEW c \in Callers,
         (\E n \in Names : StartRename(c, n)) \/ Rename(c)
  PROVE  TicketInv'
<1>1. /\ \A d \in Callers \ {c} : call'[d] = call[d]
      /\ call[c].ticket = None
      /\ call'[c].ticket = None /\ call'[c].at \in {"idle", "rename"}
  <2>1. call[c].ticket = None
    BY DEF TicketInv, HolderInv, StartRename, Rename
  <2>2. ASSUME NEW n \in Names, StartRename(c, n)
        PROVE  /\ \A d \in Callers \ {c} : call'[d] = call[d]
               /\ call'[c].ticket = None /\ call'[c].at = "rename"
    BY <2>2 DEF TypeOK, StartRename, Idle
  <2>3. ASSUME Rename(c)
        PROVE  /\ \A d \in Callers \ {c} : call'[d] = call[d]
               /\ call'[c].ticket = None /\ call'[c].at = "idle"
    BY <2>3 DEF TypeOK, Rename, Return, Idle
  <2>4. QED
    BY <2>1, <2>2, <2>3
<1>2. UNCHANGED ticketVars
  BY DEF StartRename, Rename
<1>3. OneHolder'
  BY <1>1 DEF TicketInv, OneHolder
<1>4. \A d \in Callers : HolderInv(d)'
  BY <1>1, <1>2 DEF TicketInv, HolderInv, ticketVars
<1>5. ASSUME NEW t \in Tickets
      PROVE  StoredInv(t)' /\ Used(t)' /\ Gone(t)'
  <2>1. (\E d \in Callers : call[d].ticket = t) => \E d \in Callers : call'[d].ticket = t
    BY <1>1, OnboardingAssumption DEF OnboardingAssumption
  <2>2. QED
    BY <1>2, <2>1 DEF TicketInv, StoredInv, Used, Gone, ticketVars
<1>6. QED
  BY <1>3, <1>4, <1>5 DEF TicketInv

LEMMA NextTicket ==
  ASSUME TypeOK, TicketInv, Next
  PROVE  TicketInv'
<1>1. ASSUME Ticketing
      PROVE  TicketInv'
  <2>1. ASSUME NEW t \in Tickets, Expire(t)
        PROVE  TicketInv'
    BY <2>1, StillTickets DEF Expire
  <2>2. QED
    BY <1>1, <2>1, IssueTicket, DropTicketKeeps, VerifyTicket, JudgeTicket,
       PutBackTicket, UseTicket DEF Ticketing
<1>2. ASSUME Renaming
      PROVE  TicketInv'
  BY <1>2, RenamingTicket DEF Renaming
<1>3. ASSUME Applying
      PROVE  TicketInv'
  <2>1. UNCHANGED <<ticketVars, call>>
    BY <1>3 DEF Applying, CloseInvite, LoseSession, Submit, Approve, DeleteBusiness,
                Fill, Decline, Block, Unblock
  <2>2. QED
    BY <2>1, StillTickets DEF ticketVars
<1>4. QED
  BY <1>1, <1>2, <1>3, UseTicket, NextSplits

-----------------------------------------------------------------------------
(* Invitations *)

LEMMA NextInvite ==
  ASSUME TypeOK, TicketInv, InviteInv, Next
  PROVE  InviteInv'
<1>1. ASSUME NEW i \in Invites, CloseInvite(i)
      PROVE  InviteInv'
  BY <1>1 DEF InviteInv, CloseInvite
<1>2. ASSUME NEW c \in Callers, SignUp(c)
      PROVE  InviteInv'
  <2>1. CASE UNCHANGED <<open, joined>>
    BY <2>1 DEF InviteInv
  <2>2. CASE ~UNCHANGED <<open, joined>>
    <3>1. PICK i : /\ StillOpen(i) /\ open' = open \ {i}
                   /\ joined' = [joined EXCEPT ![i] = @ + 1]
      BY <1>2, <2>2 DEF SignUp
    <3>2. i \in Invites /\ joined[i] = 0
      BY <3>1 DEF TypeOK, StillOpen, InviteInv
    <3>3. QED
      BY <3>1, <3>2 DEF TypeOK, InviteInv
  <2>3. QED
    BY <2>1, <2>2
<1>3. ASSUME UNCHANGED <<open, joined>>
      PROVE  InviteInv'
  BY <1>3 DEF InviteInv
<1>4. Ticketing \/ Renaming => UNCHANGED <<open, joined>>
  BY DEF Ticketing, Renaming, Issue, Expire, DropTicket, Verify, Judge, PutBack, Grant,
         StartRename, Rename
<1>5. Applying => UNCHANGED <<open, joined>> \/ \E i \in Invites : CloseInvite(i)
  BY DEF Applying, LoseSession, Submit, Approve, DeleteBusiness, Fill, Decline, Block,
         Unblock
<1>6. QED
  BY <1>1, <1>2, <1>3, <1>4, <1>5, NextSplits

-----------------------------------------------------------------------------
(* Names *)

\* Tickets that move to another state than renaming change no name.
LEMMA TicketingName ==
  ASSUME TypeOK, NameInv, Ticketing
  PROVE  NameInv'
<1>1. UNCHANGED <<status, requested, named, blocked, racing>>
  BY DEF Ticketing, Issue, Expire, DropTicket, Verify, Judge, PutBack, Grant, nameVars
<1>2. ASSUME NEW c \in Callers
      PROVE  call'[c].at = "rename" => call'[c] = call[c]
  BY DEF TypeOK, Calls, Ticketing, Issue, Expire, DropTicket, Verify, Judge, PutBack,
         Grant, Goto, Return, Idle
<1>3. RenamingInv'
  BY <1>1, <1>2 DEF NameInv, RenamingInv, TakenOnlyByOverlap, Holds
<1>4. QED
  BY <1>1, <1>3 DEF NameInv, NamesExclusive, ApprovedHasBusiness, Holds, Assigned

LEMMA RenamingName ==
  ASSUME TypeOK, NameInv, Renaming
  PROVE  NameInv'
<1>1. ASSUME NEW c \in Callers, NEW n \in Names, StartRename(c, n)
      PROVE  NameInv'
  <2>1. UNCHANGED <<status, requested, named, blocked, racing>>
    BY <1>1 DEF StartRename, nameVars
  <2>2. /\ call'[c].name = n
        /\ \A d \in Callers \ {c} : call'[d] = call[d]
    BY <1>1 DEF TypeOK, StartRename, Idle
  <2>3. \A p \in People, m \in Names : Holds(p, m)' <=> Holds(p, m)
    BY <2>1 DEF Holds
  <2>4. RenamingInv'
    <3>1. \A p \in People : Holds(p, n) => p \in racing
      BY <1>1 DEF StartRename, Vacant, NameInv, RenamingInv, TakenOnlyByOverlap
    <3>2. QED
      BY <2>1, <2>2, <2>3, <3>1 DEF NameInv, RenamingInv, TakenOnlyByOverlap
  <2>5. QED
    BY <2>1, <2>3, <2>4 DEF NameInv, NamesExclusive, ApprovedHasBusiness, Assigned
<1>2. ASSUME NEW c \in Callers, Rename(c)
      PROVE  NameInv'
  <2>1. UNCHANGED <<status, requested, blocked, racing>>
    BY <1>2 DEF Rename
  <2>2. \A p \in People : named'[p] = named[p]
    BY <1>2, OnboardingAssumption DEF OnboardingAssumption, TypeOK, Businesses, Rename
  <2>3. ApprovedHasBusiness'
    BY <2>1, <2>2 DEF NameInv, ApprovedHasBusiness
  <2>4. RenamingInv'
    <3>1. \A p \in People, m \in Names : Holds(p, m)' <=> Holds(p, m)
      BY <2>1 DEF Holds
    <3>2. named'[Shop] \in {named[Shop], call[c].name}
      BY <1>2 DEF TypeOK, Businesses, Rename
    <3>3. \A d \in Callers : call'[d].at = "rename" => call'[d] = call[d]
      BY <1>2 DEF TypeOK, Rename, Return, Idle
    <3>4. call[c].at = "rename"
      BY <1>2 DEF Rename
    <3>5. QED
      BY <2>1, <3>1, <3>2, <3>3, <3>4 DEF NameInv, RenamingInv, TakenOnlyByOverlap
  <2>5. NamesExclusive'
    <3>1. CASE ~Assignable(Shop, call[c].name)
      <4>1. \A b \in Businesses : named'[b] = named[b]
        BY <1>2, <3>1 DEF TypeOK, Rename
      <4>2. QED
        BY <2>1, <4>1 DEF NameInv, NamesExclusive, Holds, Assigned
    <3>2. CASE Assignable(Shop, call[c].name)
      <4>. PICK n \in Names : n = call[c].name
        BY <1>2 DEF NameInv, RenamingInv, Rename
      <4>1. \A b \in Businesses : named'[b] = IF b = Shop THEN n ELSE named[b]
        BY <1>2, <3>2 DEF TypeOK, Rename
      <4>2. QED
        BY <2>1, <3>2, <4>1
           DEF NameInv, NamesExclusive, Assignable, NotBlocked, Assigned, Holds
    <3>3. QED
      BY <3>1, <3>2
  <2>6. QED
    BY <2>3, <2>4, <2>5 DEF NameInv
<1>3. QED
  BY <1>1, <1>2 DEF Renaming

\* What an application may hold after a step: what it held, or nothing, or a
\* name it may reserve, remembered if an edit is about to write that name.
LEMMA HoldingKeeps ==
  ASSUME TypeOK, NameInv, NEW p \in People,
         UNCHANGED <<named, blocked, call>>,
         \A q \in People \ {p} : /\ status'[q] = status[q] /\ requested'[q] = requested[q]
                                 /\ q \in racing => q \in racing',
         \A n \in Names : Holds(p, n)' =>
           \/ Holds(p, n) /\ (p \in racing => p \in racing')
           \/ /\ Reservable(p, n)
              /\ (\E c \in Callers : call[c].at = "rename" /\ call[c].name = n)
                   => p \in racing',
         status'[p] = "approved" <=> status[p] = "approved",
         status'[p] \in {"pending", "approved"} => requested'[p] # None
  PROVE  NameInv'
<1>1. \A q \in People \ {p}, n \in Names : Holds(q, n)' <=> Holds(q, n)
  BY DEF Holds
<1>2. NamesExclusive'
  BY <1>1 DEF NameInv, NamesExclusive, Reservable, NotBlocked, Assigned
<1>3. ApprovedHasBusiness'
  BY DEF NameInv, ApprovedHasBusiness
<1>4. Shop \in Businesses /\ Shop # p
  BY OnboardingAssumption DEF OnboardingAssumption, Businesses
<1>5. TakenOnlyByOverlap'
  <2> SUFFICES ASSUME NEW q \in People, NEW n \in Names, named[Shop] = n, Holds(q, n)'
               PROVE  q \in racing'
    BY DEF TakenOnlyByOverlap
  <2>1. Holds(q, n) => q \in racing
    BY DEF NameInv, RenamingInv, TakenOnlyByOverlap
  <2>2. CASE q # p
    BY <1>1, <2>1, <2>2
  <2>3. CASE q = p
    <3>1. ~Reservable(p, n)
      BY <1>4 DEF Reservable, Assigned
    <3>2. QED
      BY <2>1, <2>3, <3>1
  <2>4. QED
    BY <2>2, <2>3
<1>6. RenamingInv'
  BY <1>1, <1>5 DEF NameInv, RenamingInv
<1>7. QED
  BY <1>2, <1>3, <1>6 DEF NameInv

LEMMA ApplyingName ==
  ASSUME TypeOK, NameInv, Applying
  PROVE  NameInv'
<1>1. ASSUME NEW p \in People, NEW n \in Names, Fill(p, n)
      PROVE  NameInv'
  <2>1. \A q \in People \ {p} : status'[q] = status[q] /\ requested'[q] = requested[q]
    BY <1>1 DEF TypeOK, Fill
  <2>2. status[p] \in {"draft", "changes"} /\ status'[p] = "draft" /\ requested'[p] = n
    BY <1>1 DEF TypeOK, Fill
  <2>3. /\ \A q \in People \ {p} : q \in racing => q \in racing'
        /\ (\E c \in Callers : call[c].at = "rename" /\ call[c].name = n)
             => p \in racing'
    BY <1>1 DEF Fill
  <2>4. \A m \in Names : Holds(p, m)' => m = n
    BY <2>2 DEF Holds
  <2>5. n # None
    BY OnboardingAssumption DEF OnboardingAssumption
  <2>6. Reservable(p, n) /\ UNCHANGED <<named, blocked, call>>
    BY <1>1 DEF Fill
  <2>7. QED
    BY <2>1, <2>2, <2>3, <2>4, <2>5, <2>6, HoldingKeeps
<1>2. ASSUME NEW p \in People, Submit(p)
      PROVE  NameInv'
  <2>1. \A q \in People \ {p} : status'[q] = status[q]
    BY <1>2 DEF TypeOK, Submit
  <2>2. status[p] = "draft" /\ status'[p] = "pending" /\ requested[p] # None
    BY <1>2 DEF TypeOK, Submit
  <2>3. QED
    BY <1>2, <2>1, <2>2, HoldingKeeps DEF Submit, Holds, Reserving
<1>3. ASSUME NEW p \in People, NEW verdict \in {"rejected", "changes"},
             Decline(p, verdict)
      PROVE  NameInv'
  <2>1. \A q \in People \ {p} : status'[q] = status[q]
    BY <1>3 DEF TypeOK, Decline
  <2>2. status[p] = "pending" /\ status'[p] = verdict
    BY <1>3 DEF TypeOK, Decline
  <2>3. QED
    BY <1>3, <2>1, <2>2, HoldingKeeps DEF Decline, Holds, Reserving
<1>4. ASSUME NEW p \in People, Approve(p)
      PROVE  NameInv'
  <2>1. /\ requested[p] \in Names /\ p \in Businesses
        /\ \A q \in People : status'[q] = IF q = p THEN "approved" ELSE status[q]
        /\ \A b \in Businesses : named'[b] = IF b = p THEN requested[p] ELSE named[b]
    BY <1>4 DEF TypeOK, NameInv, ApprovedHasBusiness, Approve, Businesses
  <2>2. status[p] = "pending" /\ UNCHANGED <<requested, blocked, call, racing>>
    BY <1>4 DEF Approve
  <2>3. \A q \in People, n \in Names : Holds(q, n)' <=> Holds(q, n)
    BY <2>1, <2>2 DEF Holds, Reserving
  <2>4. NamesExclusive'
    BY <1>4, <2>1, <2>2, <2>3
       DEF Approve, NameInv, NamesExclusive, Assignable, NotBlocked, Assigned
  <2>5. ApprovedHasBusiness'
    BY <2>1, <2>2, OnboardingAssumption
       DEF OnboardingAssumption, NameInv, ApprovedHasBusiness, Businesses
  <2>6. RenamingInv'
    BY <2>1, <2>2, <2>3, OnboardingAssumption
       DEF OnboardingAssumption, Businesses, NameInv, RenamingInv, TakenOnlyByOverlap
  <2>7. QED
    BY <2>4, <2>5, <2>6 DEF NameInv
<1>5. ASSUME NEW p \in People, DeleteBusiness(p)
      PROVE  NameInv'
  <2>1. /\ \A q \in People :
             /\ status'[q] = IF q = p THEN "deleted" ELSE status[q]
             /\ requested'[q] = IF q = p THEN None ELSE requested[q]
        /\ \A b \in Businesses : named'[b] = IF b = p THEN None ELSE named[b]
        /\ UNCHANGED <<blocked, call, racing>>
    BY <1>5 DEF TypeOK, DeleteBusiness, Closed
  <2>2. \A q \in People, n \in Names : Holds(q, n)' => Holds(q, n)
    BY <2>1 DEF Holds, Reserving
  <2>3. \A n \in Names : Assigned(n)' \subseteq Assigned(n)
    BY <2>1, OnboardingAssumption DEF OnboardingAssumption, Assigned
  <2>4. NamesExclusive'
    BY <2>1, <2>2, <2>3 DEF NameInv, NamesExclusive
  <2>5. ApprovedHasBusiness'
    BY <2>1 DEF NameInv, ApprovedHasBusiness, Businesses
  <2>6. RenamingInv'
    BY <2>1, <2>2, OnboardingAssumption
       DEF OnboardingAssumption, Businesses, NameInv, RenamingInv, TakenOnlyByOverlap
  <2>7. QED
    BY <2>4, <2>5, <2>6 DEF NameInv
<1>6. ASSUME NEW n \in Names, Block(n) \/ Unblock(n)
      PROVE  NameInv'
  BY <1>6
     DEF Block, Unblock, NameInv, NamesExclusive, ApprovedHasBusiness, RenamingInv,
         TakenOnlyByOverlap, Assigned, Holds
<1>7. ASSUME UNCHANGED <<nameVars, call, racing>>
      PROVE  NameInv'
  BY <1>7 DEF NameInv, NamesExclusive, ApprovedHasBusiness, RenamingInv,
              TakenOnlyByOverlap, Assigned, Holds, nameVars
<1>8. (\E i \in Invites : CloseInvite(i)) \/ (\E p \in People : LoseSession(p)) =>
        UNCHANGED <<nameVars, call, racing>>
  BY DEF CloseInvite, LoseSession
<1>9. QED
  BY <1>1, <1>2, <1>3, <1>4, <1>5, <1>6, <1>7, <1>8 DEF Applying

LEMMA SignUpName ==
  ASSUME TypeOK, TicketInv, NameInv, NEW c \in Callers, SignUp(c)
  PROVE  NameInv'
<1>1. call[c].ticket \in Joining
  BY DEF SignUp
<1>. PICK p \in People : p = Person[call[c].ticket]
  BY <1>1, OnboardingAssumption DEF OnboardingAssumption
<1>2. /\ \A d \in Callers : call'[d].at = "rename" => call'[d] = call[d]
      /\ UNCHANGED <<named, blocked, racing>>
  BY DEF TypeOK, SignUp, Return, Idle
<1>3. \A q \in People :
        \/ status'[q] = status[q] /\ requested'[q] = requested[q]
        \/ /\ status[q] \in {"none", "rejected", "deleted"}
           /\ status'[q] = "draft" /\ requested'[q] = None
  BY DEF TypeOK, SignUp, Reopened
<1>4. \A q \in People, n \in Names : Holds(q, n)' => Holds(q, n)
  BY <1>3, OnboardingAssumption DEF OnboardingAssumption, Holds
<1>5. NamesExclusive'
  BY <1>2, <1>4 DEF NameInv, NamesExclusive, Assigned
<1>6. ApprovedHasBusiness'
  BY <1>2, <1>3 DEF NameInv, ApprovedHasBusiness
<1>7. RenamingInv'
  BY <1>2, <1>4 DEF NameInv, RenamingInv, TakenOnlyByOverlap
<1>8. QED
  BY <1>5, <1>6, <1>7 DEF NameInv

-----------------------------------------------------------------------------
(* Theorems *)

OnboardingInv == TypeOK /\ TicketInv /\ InviteInv /\ NameInv

LEMMA InitInv == Init => OnboardingInv
<1> SUFFICES ASSUME Init PROVE OnboardingInv
  OBVIOUS
<1>1. TypeOK
  BY InitType
<1>2. TicketInv
  BY OnboardingAssumption
     DEF OnboardingAssumption, Init, Idle, TicketInv, OneHolder, HolderInv, StoredInv,
         Used, Gone
<1>3. InviteInv
  BY DEF Init, InviteInv
<1>4. NameInv
  <2>1. NamesExclusive
    BY OnboardingAssumption
       DEF OnboardingAssumption, Init, NamesExclusive, Assigned, Holds, Reserving
  <2>2. ApprovedHasBusiness
    BY OnboardingAssumption
       DEF OnboardingAssumption, Init, ApprovedHasBusiness, Businesses
  <2>3. RenamingInv
    BY DEF Init, RenamingInv, TakenOnlyByOverlap, Idle, Businesses, Holds, Reserving
  <2>4. QED
    BY <2>1, <2>2, <2>3 DEF NameInv
<1>5. QED
  BY <1>1, <1>2, <1>3, <1>4 DEF OnboardingInv

LEMMA NextInv == OnboardingInv /\ [Next]_vars => OnboardingInv'
<1> SUFFICES ASSUME OnboardingInv, [Next]_vars PROVE OnboardingInv'
  OBVIOUS
<1>1. ASSUME Next
      PROVE  OnboardingInv'
  <2>1. TypeOK'
    BY <1>1, NextSplits, TicketingType, RenamingType, ApplyingType, SignUpType
       DEF OnboardingInv
  <2>2. TicketInv'
    BY <1>1, NextTicket DEF OnboardingInv
  <2>3. InviteInv'
    BY <1>1, NextInvite DEF OnboardingInv
  <2>4. NameInv'
    BY <1>1, NextSplits, TicketingName, RenamingName, ApplyingName, SignUpName
       DEF OnboardingInv
  <2>5. QED
    BY <2>1, <2>2, <2>3, <2>4 DEF OnboardingInv
<1>2. ASSUME UNCHANGED vars
      PROVE  OnboardingInv'
  <2>1. TypeOK'
    BY <1>2 DEF OnboardingInv, TypeOK, vars, ticketVars, nameVars
  <2>2. TicketInv'
    BY <1>2, StillTickets DEF OnboardingInv, vars, ticketVars
  <2>3. InviteInv'
    BY <1>2 DEF OnboardingInv, InviteInv, vars
  <2>4. NameInv'
    BY <1>2 DEF OnboardingInv, NameInv, NamesExclusive, ApprovedHasBusiness, RenamingInv,
                TakenOnlyByOverlap, Assigned, Holds, vars, nameVars
  <2>5. QED
    BY <2>1, <2>2, <2>3, <2>4 DEF OnboardingInv
<1>3. QED
  BY <1>1, <1>2

\* Every variable keeps its type, every ticket and name its invariant.
THEOREM OnboardingInvariant == Spec => []OnboardingInv
BY InitInv, NextInv, PTL DEF Spec

\* The state of the onboarding keeps its types (business-onboarding.service.ts).
THEOREM TypeCorrect == Spec => []TypeOK
<1>1. OnboardingInv => TypeOK
  BY DEF OnboardingInv
<1>2. QED
  BY <1>1, OnboardingInvariant, PTL

\* However many verifications run at once, a ticket lets in once and is guessed
\* at no oftener than its attempts (consume, compare, put back), and an
\* invitation makes one application (finishEmailSignupIdentity).
THEOREM TicketsAreUsedOnce == Spec => []UsedOnce
<1>1. OnboardingInv => UsedOnce
  BY DEF OnboardingInv, TicketInv, InviteInv, Used, UsedOnce
<1>2. QED
  BY <1>1, OnboardingInvariant, PTL

\* A ticket that is not in Redis is gone for one of the listed causes
\* (verifyBusinessEmailCode and its siblings).
THEOREM TicketsGoForACause == Spec => []GoneForACause
<1>1. OnboardingInv => GoneForACause
  BY DEF OnboardingInv, TypeOK, TicketInv, Gone, GoneForACause
<1>2. QED
  BY <1>1, OnboardingInvariant, PTL

\* Nobody shares a subdomain (91_subdomain_policy.sql).
THEOREM NamesAreExclusive == Spec => []NamesExclusive
<1>1. OnboardingInv => NamesExclusive
  BY DEF OnboardingInv, NameInv
<1>2. QED
  BY <1>1, OnboardingInvariant, PTL

\* Approved applications and businesses come and go together
\* (provisionApplication, deleteBusiness).
THEOREM ApplicationsMatchBusinesses == Spec => []ApprovedHasBusiness
<1>1. OnboardingInv => ApprovedHasBusiness
  BY DEF OnboardingInv, NameInv
<1>2. QED
  BY <1>1, OnboardingInvariant, PTL

\* An administrator's edit takes a reserved name only if it was under way when
\* the name was reserved, whether it looked for the name or only read it
\* (updateBusiness).
THEOREM ReservationsAreTakenByOverlap == Spec => []TakenOnlyByOverlap
<1>1. OnboardingInv => TakenOnlyByOverlap
  BY DEF OnboardingInv, NameInv, RenamingInv
<1>2. QED
  BY <1>1, OnboardingInvariant, PTL
=============================================================================
