--------------------------- MODULE OrderLifecycle ---------------------------
(***************************************************************************)
(* The status machine every order operation goes through                   *)
(* (src/src/domain/order-transitions.ts) and the status sets the other     *)
(* domain functions branch on.  Pure operators: no state of its own.       *)
(***************************************************************************)

\* Open statuses, in the order a normal order visits them.
Live == {"NEW", "CONFIRMED", "PICKING", "READY", "OUT_FOR_DELIVERY"}

\* completedOrderStatuses: the order's items, date and price are locked.
Closed == {"PICKED_UP", "DELIVERED", "CUSTOMER_DECLINED", "CANCELLED",
           "CANCELLED_BY_CUSTOMER", "REJECTED", "NO_SHOW", "REFUNDED"}

Status == Live \cup Closed

Method == {"PICKUP", "DELIVERY"}

\* TRANSITIONS: where each status may go.
Transitions ==
  [NEW              |-> {"CONFIRMED", "CUSTOMER_DECLINED", "CANCELLED"},
   CONFIRMED        |-> {"PICKING", "CANCELLED", "CANCELLED_BY_CUSTOMER"},
   PICKING          |-> {"READY", "CANCELLED", "CANCELLED_BY_CUSTOMER"},
   READY            |-> {"PICKED_UP", "OUT_FOR_DELIVERY", "CANCELLED",
                         "CANCELLED_BY_CUSTOMER", "REJECTED", "NO_SHOW"},
   OUT_FOR_DELIVERY |-> {"DELIVERED", "CANCELLED_BY_CUSTOMER", "REJECTED",
                         "NO_SHOW"},
   PICKED_UP        |-> {"REFUNDED"},
   DELIVERED        |-> {"REFUNDED"},
   CUSTOMER_DECLINED     |-> {},
   CANCELLED             |-> {},
   CANCELLED_BY_CUSTOMER |-> {},
   REJECTED              |-> {},
   NO_SHOW               |-> {},
   REFUNDED              |-> {}]

\* HANDOVER_STATUSES: blocked while the order's total is unresolved.
HandoverStatuses == {"PICKED_UP", "OUT_FOR_DELIVERY"}

\* getLegalOrderTransitions together with the method checks transitionOrder
\* repeats: the statuses an order of this method, with its total resolved or
\* not, can be moved to.
LegalTransitions(status, method, resolved) ==
  {to \in Transitions[status] :
     /\ to = "PICKED_UP" => method = "PICKUP"
     /\ to \in {"OUT_FOR_DELIVERY", "DELIVERED"} => method = "DELIVERY"
     /\ to \in HandoverStatuses => resolved}

\* The transitions of transitionOrder that give the reserved volume back.
ReleasingStatuses == {"CUSTOMER_DECLINED", "CANCELLED", "CANCELLED_BY_CUSTOMER"}

ReleasesCapacity(from, to) ==
  to \in ReleasingStatuses /\ from \in {"NEW", "CONFIRMED"}

\* Mutants of DeletionReleases: prepared orders are forgotten; completed ones
\* are given back too.
DeletionForgetsPrepared == {"NEW", "CONFIRMED"}
DeletionReleasesCompleted == {"NEW", "CONFIRMED", "PICKING", "READY", "PICKED_UP"}

\* The statuses in which deleting the order gives its volume back.
DeletionReleases == {"NEW", "CONFIRMED", "PICKING", "READY"}
=============================================================================
