----------------------------- MODULE UserStream -----------------------------
(***************************************************************************)
(* The execution engine's authenticated user stream                        *)
(* (services/execution-engine/src/ingestion/user_stream.rs over            *)
(* crates/persistence/src/postgres/user_stream.rs): one loop that connects *)
(* to the venue's user channel, stores each order or trade message at most *)
(* once and in order per partition, hands it to the order lifecycle, and   *)
(* keeps a durable block on new intents from the loss of a stream until    *)
(* the first event stored after it is authenticated again.                 *)
(*                                                                         *)
(* The channel promises nothing: a message of Messages may arrive at any   *)
(* time, late, again, or never.  Any error that is not a stream error ends *)
(* the loop, and with it the process, which may be started again.          *)
(***************************************************************************)
EXTENDS UserMessages, Sequences, Functions

VARIABLES
    events,    \* table user_stream_events, per partition in insertion order
    cursor,    \* table order_event_offsets, the row of each partition
    auth,      \* the same table's row for the authentication state
    lifecycle, \* the state of each order in table orders
    handed,    \* history: the events the order lifecycle has been given
    pc,        \* where the loop is
    memory,    \* block_new_intents and recovery_pending_first_event
    attempts,  \* reconnect_attempts
    current,   \* the message being processed
    fresh      \* history: an event was stored since the block was last set

tables == <<events, cursor, auth, lifecycle, handed, fresh>>
vars == <<events, cursor, auth, lifecycle, handed, pc, memory, attempts, current, fresh>>

Connecting == {"connect", "authenticate", "subscribe"}
Processing == {"store", "apply", "recover"}

Unblocked == [block |-> FALSE, pending |-> FALSE]

Init ==
    /\ events = [o \in Orders |-> << >>]
    /\ cursor = [o \in Orders |-> Absent]
    /\ auth = Absent
    /\ lifecycle = [o \in Orders |-> "none"]
    /\ handed = [o \in Orders |-> << >>]
    /\ pc = "down"
    /\ memory = Unblocked
    /\ attempts = 0
    /\ current = Absent
    /\ fresh = FALSE

-----------------------------------------------------------------------------
(* Connecting.                                                             *)

\* The memory that goes with a state and a block, as written or as read back.
MemoryOf(state, block) ==
    [block |-> block, pending |-> state = "authenticated" /\ block]

Unhydrated == Unblocked    \* mutant

Hydrated == IF auth = Absent THEN Unblocked ELSE MemoryOf(auth.state, auth.block)

\* The process starts: hydrate_auth_state_from_store.
Start ==
    /\ pc = "down"
    /\ pc' = "connect"
    /\ memory' = Hydrated
    /\ UNCHANGED <<tables, attempts, current>>

\* persist_auth_transition_state: the row, then the memory.
SetAuth(state, block) ==
    /\ auth' = [state |-> state, block |-> block]
    /\ memory' = MemoryOf(state, block)
    /\ fresh' = (fresh /\ ~block)

Connect ==
    /\ pc = "connect"
    /\ pc' = "authenticate"
    /\ UNCHANGED <<tables, memory, attempts, current>>

Authenticate ==
    /\ pc = "authenticate"
    /\ IF memory.block THEN SetAuth("authenticated", TRUE)
       ELSE UNCHANGED <<auth, memory, fresh>>
    /\ pc' = "subscribe"
    /\ UNCHANGED <<events, cursor, lifecycle, handed, attempts, current>>

Subscribe ==
    /\ pc = "subscribe"
    /\ pc' = "stream"
    /\ UNCHANGED <<tables, memory, attempts, current>>

\* The loop returns an error: main panics and the memory is gone.
Down ==
    /\ pc' = "down"
    /\ memory' = Unblocked
    /\ attempts' = 0
    /\ current' = Absent

Saturated == IF attempts < MaxReconnects THEN attempts + 1 ELSE attempts    \* mutant

NextAttempts == attempts + 1

\* The client, its authentication or a subscription fails, or a stream fails or
\* ends: block, then reconnect, or give up.
LoseStream ==
    /\ pc \in Connecting \cup {"stream"}
    /\ auth' = [state |-> "auth_expired", block |-> TRUE]
    /\ fresh' = FALSE
    /\ IF NextAttempts > MaxReconnects
       THEN Down
       ELSE /\ pc' = "connect"
            /\ memory' = MemoryOf("auth_expired", TRUE)
            /\ attempts' = NextAttempts
            /\ UNCHANGED current
    /\ UNCHANGED <<events, cursor, lifecycle, handed>>

\* A statement fails, a message has no usable timestamp or status, the order
\* lifecycle refuses an event with an error, another loop of the process ends, or
\* the process is killed.  A commit of this loop whose reply is lost is the step
\* it ends, followed by this one.
Halt ==
    /\ pc # "down"
    /\ Down
    /\ UNCHANGED tables

-----------------------------------------------------------------------------
(* Processing a message.                                                   *)

EventId(m) == <<m.kind, m.id, m.offset>>

StoredIds == {EventId(m) : m \in UNION {Range(events[o]) : o \in Orders}}

AnyOtherKey(m, c) == m.offset >= c.offset /\ KeyRank[m] # c.key    \* mutant: no tie-break

\* evaluate_user_stream_ordering: offsets decide, then keys.
ComesAfter(m, c) ==
    m.offset > c.offset \/ (m.offset = c.offset /\ KeyRank[m] > c.key)

Ordering(m) ==
    LET c == cursor[m.order]
    IN IF c = Absent \/ ComesAfter(m, c) THEN "accept"
       ELSE IF m.offset = c.offset /\ KeyRank[m] = c.key THEN "duplicate"
       ELSE "out_of_order"

Receive(m) ==
    /\ pc = "stream"
    /\ pc' = "store"
    /\ current' = m
    /\ UNCHANGED <<tables, memory, attempts>>

KeepsMessage == pc' = "stream" /\ attempts' = 0 /\ UNCHANGED current    \* mutant

\* A processed message, whatever became of it, ends a series of reconnects.
NextMessage ==
    /\ pc' = "stream"
    /\ attempts' = 0
    /\ current' = Absent

DuplicatesRecoverToo ==    \* mutant
    /\ pc = "store" /\ Ordering(current) # "accept"
    /\ NextMessage
    /\ IF memory.pending THEN SetAuth("authenticated", FALSE)
       ELSE UNCHANGED <<auth, memory, fresh>>
    /\ UNCHANGED <<events, cursor, lifecycle, handed>>

IgnoreMessage ==
    /\ pc = "store" /\ Ordering(current) # "accept"
    /\ NextMessage
    /\ UNCHANGED <<tables, memory>>

\* One transaction: insert the event, move the cursor of its partition.
StoreEvent ==
    LET o == current.order
    IN /\ pc = "store" /\ Ordering(current) = "accept"
       /\ EventId(current) \notin StoredIds
       /\ events' = [events EXCEPT ![o] = Append(@, current)]
       /\ cursor' = [cursor EXCEPT ![o] =
                        [offset |-> current.offset, key |-> KeyRank[current]]]
       /\ fresh' = TRUE
       /\ pc' = "apply"
       /\ UNCHANGED <<auth, lifecycle, handed, memory, attempts, current>>

\* The primary key of the events leaves out the status: an accepted message of
\* the same kind, id and offset as a stored one fails the insert.
CollidingEventHalts ==
    /\ pc = "store" /\ Ordering(current) = "accept"
    /\ EventId(current) \in StoredIds
    /\ Down
    /\ UNCHANGED tables

\* apply_user_stream_event: a first event creates its order, a legal move is
\* made, and what the lifecycle rejects is not an error here.
MovesTo(from, to) == IF from = "none" \/ MayMove(from, to) THEN to ELSE from

MoveOrder ==
    lifecycle' = [lifecycle EXCEPT ![current.order] =
                     MovesTo(@, VenueState[current.status])]

\* The order lifecycle has taken the event.
HandOver ==
    /\ handed' = [handed EXCEPT ![current.order] = Append(@, current)]
    /\ UNCHANGED <<events, cursor, auth, fresh>>

\* The order lifecycle has answered.
Continue ==
    /\ IF memory.pending
       THEN pc' = "recover" /\ UNCHANGED <<attempts, current>>
       ELSE NextMessage
    /\ UNCHANGED memory

ApplyToOrder == pc = "apply" /\ MoveOrder /\ HandOver /\ Continue

\* The order has moved, and the answer that it has is an error or never comes.
ApplyReplyLost == pc = "apply" /\ MoveOrder /\ HandOver /\ Down

\* The first event stored since the stream was authenticated again.
ClearBlock ==
    /\ pc = "recover"
    /\ SetAuth("authenticated", FALSE)
    /\ NextMessage
    /\ UNCHANGED <<events, cursor, lifecycle, handed>>

-----------------------------------------------------------------------------
\* Another session of the order lifecycle submits or cancels an order.
OrderCommand(o, to) ==
    /\ lifecycle' = [lifecycle EXCEPT ![o] = MovesTo(@, to)]
    /\ UNCHANGED <<events, cursor, auth, handed, pc, memory, attempts, current, fresh>>

\* What the loop does by itself.
Progress ==
    \/ Connect
    \/ Authenticate
    \/ Subscribe
    \/ IgnoreMessage
    \/ StoreEvent
    \/ CollidingEventHalts
    \/ ApplyToOrder
    \/ ClearBlock

Next ==
    \/ Start
    \/ Progress
    \/ \E m \in Messages : Receive(m)
    \/ LoseStream
    \/ ApplyReplyLost
    \/ Halt
    \/ \E o \in Orders, to \in {"pending", "canceled"} : OrderCommand(o, to)

Spec == Init /\ [][Next]_vars

\* The tokio runtime polls the loop and the database answers.  Messages, failures
\* and restarts are not fair.
FairSpec == Spec /\ WF_vars(Progress)
-----------------------------------------------------------------------------
(* Properties.                                                             *)

Blocked == auth # Absent /\ auth.block

TypeOK ==
    /\ events \in [Orders -> Seq(Messages)]
    /\ cursor \in [Orders -> Cursors \cup {Absent}]
    /\ auth \in AuthRows \cup {Absent}
    /\ lifecycle \in [Orders -> States \cup {"none"}]
    /\ handed \in [Orders -> Seq(Messages)]
    /\ pc \in {"down", "stream"} \cup Connecting \cup Processing
    /\ memory \in [block : BOOLEAN, pending : BOOLEAN]
    /\ attempts \in 0..MaxReconnects
    /\ current \in Messages \cup {Absent}
    /\ fresh \in BOOLEAN
    /\ pc \in Processing <=> current # Absent

Before(m, n) ==
    m.offset < n.offset \/ (m.offset = n.offset /\ KeyRank[m] < KeyRank[n])

Increasing(s) == \A i, j \in DOMAIN s : i < j => Before(s[i], s[j])

\* Per partition, whatever the channel repeats or reorders and wherever the
\* process halts: events are stored in strictly increasing order of offset and
\* key, the cursor is the last one stored, and the order lifecycle is given
\* stored events only, each at most once and in the same order.
EachEventOnceInOrder ==
    \A o \in Orders :
        LET s == events[o]
        IN /\ Increasing(s) /\ Increasing(handed[o])
           /\ Range(handed[o]) \subseteq Range(s)
           /\ cursor[o] = IF s = << >> THEN Absent
                          ELSE [offset |-> s[Len(s)].offset, key |-> KeyRank[s[Len(s)]]]

\* While the loop runs its memory is what a restart would read back, and once it
\* has lost a stream the block is set, durably, until a message is processed.
MemoryMatchesBlock ==
    pc # "down" =>
        /\ memory.block <=> Blocked
        /\ memory.pending <=> Blocked /\ auth.state = "authenticated"
        /\ attempts > 0 => Blocked

\* The block is cleared only after the stream was authenticated again and an
\* event, not a repeated or late one, was stored since, restarts included.
UnblocksAfterRecoveryEvent ==
    [][Blocked /\ ~Blocked' => auth.state = "authenticated" /\ fresh]_vars

\* A channel that keeps failing makes the loop give up unless messages come
\* through: the reconnect count does not stay above zero for ever.
FlappingEnds == []<><<LoseStream>>_vars => []<>(attempts = 0)

\* crates/domain/src/risk.rs, the tie-break test: a "lexically larger key should
\* win equal-offset tie-break".  An event that wins its tie can be stored.
TieWinnersAreStored ==
    pc = "store" /\ Ordering(current) = "accept" => EventId(current) \notin StoredIds

\* Story 2.3: "duplicates are ignored and order state remains idempotent and
\* consistent".  An event ignored as a duplicate has reached the order lifecycle.
DuplicatesWereApplied ==
    pc = "store" /\ Ordering(current) = "duplicate" =>
        current \in Range(handed[current.order])
=============================================================================
