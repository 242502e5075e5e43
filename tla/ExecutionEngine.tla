-------------------------- MODULE ExecutionEngine --------------------------
(***************************************************************************)
(* The execution engine's user stream on top of its order lifecycle, as    *)
(* services/execution-engine/src/main.rs wires them: the loop of UserStream*)
(* stores an event, then calls apply_user_stream_event and waits, while    *)
(* that call runs its transaction in a session of OrderLifecycle next to   *)
(* the sessions of other callers.  An error of the call ends the loop, and *)
(* with it the process.                                                    *)
(***************************************************************************)
EXTENDS OrderLifecycle, UserMessages

CONSTANTS
    VenueKey,    \* the idempotency key of a message
    VenueMarket, \* the market it names
    Stream       \* the session that serves the loop

VARIABLES
    events, cursor, auth, handed, loop, memory, attempts, current, fresh, \* as in UserStream
    lifecycle   \* what the loop knows of the orders: the states in their rows

streamTables == <<events, cursor, auth, handed, fresh>>
streamVars == <<events, cursor, auth, handed, loop, memory, attempts, current, fresh>>
engineVars == <<vars, streamVars, lifecycle>>

U == INSTANCE UserStream WITH pc <- loop

Lifecycle == [o \in Orders |-> StateOf(o)]

\* The call the loop makes for message m.
VenueRequest(m) ==
    [kind |-> "venue",
     items |-> <<[order |-> m.order, raw |-> VenueKey[m], mode |-> "limit"]>>,
     batch |-> VenueKey[m], market |-> VenueMarket[m],
     at |-> m.offset, status |-> m.status]

EventKey(m) == <<"raw", VenueKey[m], 0>>

\* The calls of everybody else.
CallerRequests == {r \in Requests : r.kind # "venue"}

\* The keys of messages are normalised, name their message, and are nobody else's.
ASSUME EngineAssumption ==
    /\ VenueKey \in [Messages -> RawKeys \ {Blank}]
    /\ \A m, n \in Messages : VenueKey[m] = VenueKey[n] => m = n
    /\ \A m \in Messages : Fold[VenueKey[m]] = VenueKey[m] /\ VenueRequest(m) \in Requests
    /\ \A r \in CallerRequests, m \in Messages : \A i \in 1..Len(r.items) :
           KeyOf(r, r.items[i]) # EventKey(m)
    /\ Stream \in Sessions

EngineInit ==
    /\ Init
    /\ U!Init

-----------------------------------------------------------------------------
\* The loop by itself: everything but handing an event over.
LoopStep ==
    /\ UNCHANGED vars
    /\ \/ U!Start
       \/ U!Connect \/ U!Authenticate \/ U!Subscribe
       \/ \E m \in Messages : U!Receive(m)
       \/ U!IgnoreMessage \/ U!StoreEvent \/ U!CollidingEventHalts
       \/ U!ClearBlock
       \/ U!LoseStream
       \/ U!Halt /\ pc[Stream] = "idle"

\* The port is called with the stored event.
CallLifecycle ==
    /\ loop = "apply"
    /\ ApplyVenueEvent(Stream, VenueRequest(current))
    /\ UNCHANGED streamVars

\* The call goes on.
Statement ==
    /\ Progress(Stream)
    /\ pc'[Stream] # "idle"
    /\ UNCHANGED streamVars

Told(outcomes) == \E a \in answers'[Stream] : a.outcome \in outcomes

IgnoresErrors ==    \* mutant
    /\ Progress(Stream)
    /\ pc'[Stream] = "idle"
    /\ U!HandOver /\ U!Continue

\* It returns an outcome, rejections and duplicates included.
CallReturns ==
    /\ Progress(Stream)
    /\ Told({"applied", "duplicate", "already_terminal", "rejected"})
    /\ U!HandOver /\ U!Continue

\* It returns an error, which the loop returns too.
CallFails ==
    /\ Progress(Stream) \/ StatementFails(Stream)
    /\ Told({"retryable", "hard"})
    /\ U!Down
    /\ UNCHANGED streamTables

\* The order has moved, but the call returns an error.
CallReplyLost ==
    /\ CommitReplyLost(Stream)
    /\ U!HandOver /\ U!Down

\* The process ends with the call under way.
EngineCrash ==
    /\ Crash(Stream)
    /\ U!Down
    /\ UNCHANGED streamTables

\* Somebody else's call.
OtherSession(s) ==
    /\ \/ \E r \in CallerRequests : Submit(s, r) \/ Cancel(s, r)
       \/ Progress(s)
       \/ Fault(s)
    /\ UNCHANGED streamVars

EngineStep ==
    \/ CallLifecycle \/ Statement
    \/ CallReturns \/ CallFails \/ CallReplyLost \/ EngineCrash
    \/ \E s \in Sessions \ {Stream} : OtherSession(s)
    \/ ChangeSafetyMode /\ UNCHANGED streamVars

EngineNext == LoopStep \/ (EngineStep /\ lifecycle' = Lifecycle')

EngineSpec == EngineInit /\ [][EngineNext]_engineVars
-----------------------------------------------------------------------------
(* Properties.                                                             *)

\* To the loop the order lifecycle is one step: whatever its transactions,
\* other callers and their failures do, an event that is handed over moves its
\* order as the state machine says, and a call that fails has moved nothing.
LifecycleLooksAtomic == U!Spec

\* The venue's transitions in an order's history are those of events about that
\* order which were handed over, in the order of the events, whatever is repeated,
\* late, lost or retried, and whoever else writes the order in between.
VenueEntriesFollowTheStream ==
    \A o \in Orders : \A i \in 1..Len(transitions[o]), m \in Messages :
        LET h == transitions[o]
        IN h[i].key = EventKey(m) =>
            /\ m.order = o /\ h[i].to = VenueState[m.status]
            /\ \E k \in 1..Len(handed[o]) : handed[o][k] = m
            /\ \A j \in 1..(i - 1), n \in Messages :
                   h[j].key = EventKey(n) => U!Before(n, m)
=============================================================================
