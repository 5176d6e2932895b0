--------------------------- MODULE MCCustomDomains ---------------------------
(***************************************************************************)
(* Small instances of the custom domains.                                  *)
(***************************************************************************)
EXTENDS CustomDomains, TLC

CONSTANTS k1, k2, p1, p2, b1, b2

\* Two stories in one run: one row looked after by two processes that may die,
\* and two claims of one hostname in the hands of one process.
OneStory ==
  /\ status[k1] \in {"absent", "removed"} \/ owner[k1] = b1
  /\ \/ status[k2] = "absent" /\ b2 \in active
     \/ /\ active = Businesses /\ outages = 0 /\ queue[p2] = {}
        /\ \A c \in Callers : server[c] # p2
=============================================================================
