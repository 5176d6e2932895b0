---------------------------- MODULE MCOnboarding ----------------------------
(***************************************************************************)
(* Small instances of the onboarding.                                      *)
(***************************************************************************)
EXTENDS Onboarding, TLC

CONSTANTS login, join1, join2, u1, u2

PersonOf == join1 :> u1 @@ join2 :> u2

OnTickets == {c \in Callers : call[c].ticket # None}

\* Two stories in one run: tickets and invitations used by two callers at a
\* time, and names wanted by two people and an administrator.
OneStory ==
  \/ /\ \A p \in People : requested[p] = None /\ named[p] = None
     /\ \A c \in Callers : call[c].at # "rename"
     /\ blocked = {}
  \/ /\ login \notin issued /\ expired = {} /\ lost = {}
     /\ \A t \in Tickets : guesses[t] = 0
     /\ Cardinality(OnTickets) <= 1
=============================================================================
