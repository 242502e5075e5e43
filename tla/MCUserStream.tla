---------------------------- MODULE MCUserStream ----------------------------
(***************************************************************************)
(* A small instance of UserStream for TLC.                                 *)
(***************************************************************************)
EXTENDS UserStream

CONSTANTS o1, o2

\* Listed by idempotency key: "order::..." sorts before "trade::...", then
\* offsets, then statuses.
ByKey == <<
    [order |-> o1, kind |-> "order", id |-> "1", offset |-> 1, status |-> "placement"],
    [order |-> o1, kind |-> "order", id |-> "1", offset |-> 2, status |-> "cancellation"],
    [order |-> o1, kind |-> "order", id |-> "1", offset |-> 2, status |-> "update"],
    [order |-> o2, kind |-> "order", id |-> "2", offset |-> 1, status |-> "placement"],
    [order |-> o1, kind |-> "trade", id |-> "t", offset |-> 2, status |-> "matched"]>>

MCMessages == Range(ByKey)
MCKeyRank == [m \in MCMessages |-> CHOOSE i \in DOMAIN ByKey : ByKey[i] = m]
=============================================================================
