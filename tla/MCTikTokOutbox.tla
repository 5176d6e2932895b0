--------------------------- MODULE MCTikTokOutbox ---------------------------
(***************************************************************************)
(* Small instances of the outbox: all rows go to one destination.          *)
(***************************************************************************)
EXTENDS TikTokOutbox

CONSTANTS r1, r2, d1

OneDestination == [r \in Rows |-> d1]

\* Three stories in one run: nothing fails but requests, a process dies or
\* fails, or one row is retried by hand.  In the last two no row waits for
\* another retry than that.
OneStory ==
  \/ faults = 0 /\ \A r \in Rows : reopened[r] = 0
  \/ /\ faults = 0 \/ \A r \in Rows : reopened[r] = 0
     /\ \A r \in Rows : status[r] = "retry_scheduled" => attempts[r] = 0
     /\ \A r, s \in Rows : reopened[r] > 0 /\ reopened[s] > 0 => r = s
=============================================================================
