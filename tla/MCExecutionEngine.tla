------------------------- MODULE MCExecutionEngine -------------------------
(***************************************************************************)
(* The instance of MCOrderLifecycle with two parts more: the user stream   *)
(* handing events to the order lifecycle while another caller submits and  *)
(* cancels, and the user stream alone, over an order lifecycle of single   *)
(* steps, with more messages and reconnects.                               *)
(***************************************************************************)
EXTENDS ExecutionEngine, MCOrderLifecycle

\* Listed by idempotency key: "order::..." sorts before "trade::...", then
\* offsets, then statuses.
ByKey == <<
    [order |-> o1, kind |-> "order", id |-> "1", offset |-> 1, status |-> "placement"],
    [order |-> o1, kind |-> "order", id |-> "1", offset |-> 2, status |-> "cancellation"],
    [order |-> o1, kind |-> "order", id |-> "1", offset |-> 2, status |-> "update"],
    [order |-> o2, kind |-> "order", id |-> "2", offset |-> 1, status |-> "placement"],
    [order |-> o1, kind |-> "trade", id |-> "t", offset |-> 2, status |-> "matched"]>>

MCMessages == {ByKey[i] : i \in DOMAIN ByKey}
MCKeyRank == [m \in MCMessages |-> CHOOSE i \in DOMAIN ByKey : ByKey[i] = m]
MCVenueKey == [m \in MCMessages |-> <<"e1", "e2", "e3", "e4", "e5">>[MCKeyRank[m]]]
MCVenueMarket == [m \in MCMessages |-> m1]
MCEngineKeys == MCRawKeys \cup {"e1", "e2", "e3", "e4", "e5"}
MCEngineFold == [k \in MCEngineKeys |-> IF k \in MCRawKeys THEN MCFold[k] ELSE k]

\* Of one order, no two with the same id and offset.
StreamMessages == {ByKey[i] : i \in {1, 2, 5}}

\* A submit and a cancel, after the first event was observed.
StreamRequests == {SubmitCall(o1, "k1", "limit", 2), CancelCall(o1, "k2", "limit", 2)}

MCEngineRequests == AllRequests \cup StreamRequests \cup {VenueRequest(m) : m \in MCMessages}

-----------------------------------------------------------------------------
MCEngineInit ==
    /\ EngineInit
    /\ MCInit \/ (part \in {"stream", "loop"} /\ safetyMode = "normal")

\* At most one reconnect in a row.
InStream ==
    /\ part = "stream"
    /\ EngineNext
    /\ safetyMode' = "normal"
    /\ current' \in StreamMessages \cup {Absent}
    /\ attempts' <= 1
    /\ \A s \in Sessions \ {Stream} : call'[s] \in StreamRequests \cup {Absent}
    /\ UNCHANGED part

InLoop == part = "loop" /\ U!Next /\ UNCHANGED <<vars, part>>

MCEngineNext ==
    \/ part \notin {"stream", "loop"} /\ MCNext /\ UNCHANGED <<streamVars, lifecycle>>
    \/ InStream
    \/ InLoop

MCEngineSpec ==
    /\ MCEngineInit /\ [][MCEngineNext]_<<engineVars, part>>
    /\ \A s \in Sessions : SF_vars(part = "batches" /\ Progress(s))
    /\ WF_U!vars(part = "loop" /\ U!Progress)
-----------------------------------------------------------------------------
(* The properties of UserStream, which its loop has in both parts.         *)

\* The loop's tables and memory are well formed.
LoopTypeOK == U!TypeOK

\* Events are stored and handed over once, in order, whatever the channel does.
EachEventOnceInOrder == U!EachEventOnceInOrder

\* What the loop remembers of the block is what a restart would read back.
MemoryMatchesBlock == U!MemoryMatchesBlock

\* The block is lifted only after the stream was authenticated again and an event
\* stored.
UnblocksAfterRecoveryEvent == U!UnblocksAfterRecoveryEvent

\* The reconnect count does not stay above zero for ever.
FlappingEnds == part = "loop" => U!FlappingEnds
=============================================================================
