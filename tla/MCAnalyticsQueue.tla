--------------------------- MODULE MCAnalyticsQueue --------------------------
(***************************************************************************)
(* Small instances of the event queue.                                     *)
(***************************************************************************)
EXTENDS AnalyticsQueue, TLC

\* What Without stands for, on every short queue.
ASSUME WithoutFilters ==
  \A q \in UNION {[1 .. n -> ClientEvents] : n \in 0 .. 4}, some \in SUBSET ClientEvents :
    Without(q, some) = SelectSeq(q, LAMBDA e : e \notin some)
=============================================================================
