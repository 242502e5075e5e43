---------------------------- MODULE OrderStates ----------------------------
(***************************************************************************)
(* The order lifecycle state machine of crates/domain/src/order.rs: the    *)
(* states, the terminal ones, and the moves validate_order_transition      *)
(* allows.  A move out of no order at all (None) is always allowed.        *)
(***************************************************************************)

CONSTANTS
    Orders, \* order ids
    Absent  \* None: no row, no explicit key, no message

States == {"pending", "live", "partially_filled", "filled", "canceled", "expired"}

Terminal == {"filled", "canceled", "expired"}

\* The states the code lets a non-terminal order move to (the match in
\* validate_order_transition).  It may enter again every state it is in, also
\* `pending` and `live`, which docs/operations/order-lifecycle-handling.md does not
\* list.
Successors ==
    [s \in States |->
        CASE s = "pending"          -> {"pending", "live", "canceled", "expired"}
          [] s = "live"             -> {"live", "partially_filled"} \cup Terminal
          [] s = "partially_filled" -> {"partially_filled"} \cup Terminal
          [] OTHER                  -> {}]

MayMove(from, to) == to \in Successors[from]

\* The canonical state a user-channel status stands for
\* (map_user_stream_event_state).
VenueStatuses == {"placement", "update", "matched", "mined", "confirmed", "cancellation"}

VenueState ==
    [v \in VenueStatuses |->
        CASE v \in {"placement", "update"} -> "live"
          [] v = "matched"                 -> "partially_filled"
          [] v \in {"mined", "confirmed"}  -> "filled"
          [] v = "cancellation"            -> "canceled"]
=============================================================================
