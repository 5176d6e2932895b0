----------------------------- MODULE MCLinktrees -----------------------------
(***************************************************************************)
(* Small instances of the link pages.                                      *)
(***************************************************************************)
EXTENDS Linktrees, TLC

CONSTANTS p1, p2, u1, u2, s1, visitor, editor

UidOfPage == p1 :> u1 @@ p2 :> u2

Visiting(c) == call[c].at \in {"get", "live", "slug", "uid", "store"}
Creating(c) == call[c].at \in {"lock", "count", "insert", "default"}

\* Two stories in one run: pages created by two callers at a time, and one
\* visitor of two contested addresses beside one editor.
OneStory ==
  \/ /\ \A c \in Callers : Creating(c) \/ call[c] = Idle
     /\ inactive = {} /\ archived = {}
     /\ \A a \in Addresses : cache[a] = None
     /\ \A p \in Pages : slug[p] # None => p \in kept
  \/ /\ Visiting(visitor) \/ call[visitor] = Idle
     /\ call[visitor].addr # u1
     /\ ~Visiting(editor) /\ ~Creating(editor)
     /\ default \subseteq {p2} /\ inactive \cup archived \subseteq {p1}
     /\ body[p1] + body[p2] <= 1
=============================================================================
