---------------------------- MODULE UserMessages ----------------------------
(***************************************************************************)
(* What the venue's user channel says of orders, and what the execution    *)
(* engine keeps of it (services/execution-engine/src/ingestion/            *)
(* user_stream.rs, crates/persistence/src/postgres/user_stream.rs).        *)
(***************************************************************************)
EXTENDS OrderStates, Naturals

CONSTANTS
    Messages,      \* the messages the venue may send
    KeyRank,       \* lexical rank of a message's idempotency key
    MaxReconnects  \* EXECUTION_USER_STREAM max_reconnect_attempts

\* A message is about an order; id is the order's or the trade's, status what
\* it says happened, offset its millisecond timestamp.
Message == [order: Orders, kind: {"order", "trade"}, id: STRING,
            offset: Nat, status: VenueStatuses]

\* The key spells out kind, id, offset and status, so it identifies a message.
ASSUME MessagesAssumption ==
    /\ Messages \subseteq Message
    /\ KeyRank \in [Messages -> Nat]
    /\ \A m, n \in Messages : KeyRank[m] = KeyRank[n] => m = n
    /\ MaxReconnects \in Nat

Cursors == [offset : Nat, key : Nat]

AuthRows == [state : {"authenticated", "auth_expired"}, block : BOOLEAN]

ASSUME NoMessageAssumption == Absent \notin Messages \cup Cursors \cup AuthRows
=============================================================================
