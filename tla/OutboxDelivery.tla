--------------------------- MODULE OutboxDelivery ---------------------------
(***************************************************************************)
(* What the transactional outbox promises, without the mechanism: an       *)
(* event that a transaction recorded is handed to the queue at least once, *)
(* is acknowledged (marked processed) only after that, and is never handed *)
(* over again once it has been acknowledged.                               *)
(***************************************************************************)
CONSTANT Events

VARIABLES recorded, delivered, acked   \* sets of events

deliveryVars == <<recorded, delivered, acked>>

DeliveryInit ==
    /\ recorded = {}
    /\ delivered = {}
    /\ acked = {}

\* The writer's transaction, which includes the outbox row, commits.
Record(e) ==
    /\ e \notin recorded
    /\ recorded' = recorded \cup {e}
    /\ UNCHANGED <<delivered, acked>>

\* The event reaches the queue, for the first time or again.
Deliver(e) ==
    /\ e \in recorded \ acked
    /\ delivered' = delivered \cup {e}
    /\ UNCHANGED <<recorded, acked>>

\* The event is marked processed.
Ack(e) ==
    /\ e \in delivered \ acked
    /\ acked' = acked \cup {e}
    /\ UNCHANGED <<recorded, delivered>>

DeliveryNext == \E e \in Events : Record(e) \/ Deliver(e) \/ Ack(e)

DeliverySpec == DeliveryInit /\ [][DeliveryNext]_deliveryVars

\* What users of the outbox need in order to make progress: every event that
\* is recorded is delivered in the end.  The specification does not promise
\* it; module Outbox shows on which condition it holds.
Delivers == \A e \in Events : (e \in recorded) ~> (e \in delivered)
=============================================================================
