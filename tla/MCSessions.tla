----------------------------- MODULE MCSessions -----------------------------
(***************************************************************************)
(* Small instances of the sessions: whose session each token will be.      *)
(***************************************************************************)
EXTENDS Sessions, TLC

CONSTANTS o1, o2, b1, a1

KindOf(t) ==
  IF t \in {o1, o2} THEN "owner" ELSE IF t = b1 THEN "borrowed" ELSE "admin"
KindOfToken == [t \in Tokens |-> KindOf(t)]

Touched(t) == row[t] # "unborn" \/ \E c \in Callers : token[c] = t

\* Two stories in one run.  Either only the borrowed token is used, in every
\* way; or owners and the administrator sign in, sign out and are revoked,
\* with no request and no change of the business.  Which tokens a business's
\* set in Redis holds matters only to changes: there it stays empty.
OneStory ==
  \/ \A t \in Tokens \ {b1} : ~Touched(t)
  \/ /\ ~Touched(b1)
     /\ \A c \in Callers : call[c] \notin {"get", "change"}
     /\ name + address = 0 /\ active
     /\ tracker = NoToken

OwnerSymmetry ==
  Permutations(Callers) \cup Permutations({t \in Tokens : Kind[t] = "owner"})
=============================================================================
