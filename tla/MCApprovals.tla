----------------------------- MODULE MCApprovals -----------------------------
(***************************************************************************)
(* Small instances of the approvals.                                       *)
(***************************************************************************)
EXTENDS Approvals, TLC

CONSTANTS r1, r2

\* Three stories in one run: everything that can happen to one request while
\* the plan changes, or while an emergency deny begins, and two callers who
\* queue the same change before anybody reviews it.
OneStory ==
  /\ version = 0 \/ alarms = 0
  /\ \/ status[r2] = "none"
     \/ /\ \A c \in Callers : job[c] \in {"none", "mutate"}
        /\ \A r \in Requests : status[r] = "pending"
        /\ version = 0 /\ alarms = 0
=============================================================================
