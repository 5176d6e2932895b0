---------------------------- MODULE EventDelivery ----------------------------
(***************************************************************************)
(* What the outbox promises for each event it queues: the event is         *)
(* delivered, given up or cancelled, once, and only a manual retry queues  *)
(* it again.  The exception is an event whose delivery has overrun its     *)
(* time: until all who were at it are done, it may be settled again, or    *)
(* queued again.  Nothing is said of workers, leases, attempts or clocks.  *)
(***************************************************************************)
CONSTANT Rows

VARIABLES
  phase,  \* where each event is
  late    \* events whose delivery has overrun its time

Phases == {"absent", "queued", "delivered", "failed", "cancelled", "deleted"}

PhaseOK ==
  /\ phase \in [Rows -> Phases]
  /\ late \subseteq Rows

Init ==
  /\ phase = [r \in Rows |-> "absent"]
  /\ late = {}

\* Some rows, all in a phase of `from`, move to phase `to` in one step.
Move(rows, from, to) ==
  /\ \A r \in rows : phase[r] \in from
  /\ phase' = [r \in Rows |-> IF r \in rows THEN to ELSE phase[r]]
  /\ UNCHANGED late

Queue(rows) == Move(rows, {"absent"}, "queued")
Cancel(rows) == Move(rows, {"queued"}, "cancelled")
Reopen(rows) == Move(rows, {"failed"}, "queued")
Delete(rows) == Move(rows, Phases \ {"absent", "deleted"}, "deleted")

\* Deliveries run out of time.
Overrun(rows) ==
  /\ \A r \in rows : phase[r] = "queued"
  /\ late' = late \cup rows
  /\ UNCHANGED phase

\* Deliveries end, each in its own way; some may be late no longer.
Settle(rows) ==
  /\ \A r \in rows : phase[r] = "queued" \/ (r \in late /\ phase[r] # "deleted")
  /\ \E result \in [rows -> {"delivered", "failed", "queued"}] :
       phase' = [r \in Rows |-> IF r \in rows THEN result[r] ELSE phase[r]]
  /\ late' \in SUBSET late

Next == \E rows \in SUBSET Rows :
  \/ Queue(rows) \/ Cancel(rows) \/ Reopen(rows) \/ Delete(rows)
  \/ Overrun(rows) \/ Settle(rows)

Spec == Init /\ [][Next]_<<phase, late>>
=============================================================================
