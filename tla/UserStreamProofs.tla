-------------------------- MODULE UserStreamProofs --------------------------
(***************************************************************************)
(* Proofs about UserStream for every set of orders and messages, every     *)
(* order of their keys and every reconnect limit.                          *)
(***************************************************************************)
EXTENDS UserStream, SequenceTheorems, TLAPS

USE MessagesAssumption, NoMessageAssumption

-----------------------------------------------------------------------------
(* Type correctness.                                                       *)

\* Applying an event leaves an order in one of its states.
LEMMA MovesToTyped ==
    ASSUME NEW from \in States \cup {"none"}, NEW to \in States
    PROVE  MovesTo(from, to) \in States \cup {"none"}
BY DEF MovesTo

\* A message status stands for an order state.
LEMMA VenueStateTyped ==
    ASSUME NEW m \in Messages
    PROVE  m.order \in Orders /\ m.offset \in Nat /\ VenueState[m.status] \in States
<1>1. m \in Message OBVIOUS
<1> QED BY <1>1 DEF Message, VenueStatuses, VenueState, States

\* What hydration and a write of the block leave in memory is well formed.
LEMMA MemoryTyped ==
    ASSUME NEW state, NEW block \in BOOLEAN
    PROVE  MemoryOf(state, block) \in [block : BOOLEAN, pending : BOOLEAN]
BY Zenon DEF MemoryOf

\* A write of the authentication row keeps the types.
LEMMA SetAuthTyped ==
    ASSUME NEW state \in {"authenticated", "auth_expired"}, NEW block \in BOOLEAN,
           SetAuth(state, block)
    PROVE  /\ auth' \in AuthRows
           /\ memory' \in [block : BOOLEAN, pending : BOOLEAN]
           /\ fresh' \in BOOLEAN
BY Zenon DEF SetAuth, MemoryOf, AuthRows

\* Every step keeps the types.
LEMMA TypeStep ==
    ASSUME TypeOK, [Next]_vars
    PROVE  TypeOK'
<1> USE DEF TypeOK, Connecting, Processing, Unblocked, tables
<1>1. CASE Start
  <2>1. Hydrated \in [block : BOOLEAN, pending : BOOLEAN]
    BY DEF Hydrated, MemoryOf, AuthRows
  <2> QED BY <1>1, <2>1 DEF Start
<1>2. CASE Connect BY <1>2 DEF Connect
<1>3. CASE Authenticate
  <2>1. /\ auth' \in AuthRows \cup {Absent} /\ fresh' \in BOOLEAN
        /\ memory' \in [block : BOOLEAN, pending : BOOLEAN]
    BY <1>3, SetAuthTyped, Zenon DEF Authenticate
  <2> QED BY <1>3, <2>1 DEF Authenticate
<1>4. CASE Subscribe BY <1>4 DEF Subscribe
<1>5. CASE IgnoreMessage BY <1>5 DEF IgnoreMessage, NextMessage
<1>6. CASE StoreEvent
  <2>1. current \in Messages /\ current.order \in Orders /\ current.offset \in Nat
    BY <1>6, VenueStateTyped DEF StoreEvent
  <2>2. [offset |-> current.offset, key |-> KeyRank[current]] \in Cursors
    BY <2>1 DEF Cursors
  <2>3. events' \in [Orders -> Seq(Messages)]
    BY <1>6, <2>1, AppendProperties DEF StoreEvent
  <2> QED BY <1>6, <2>1, <2>2, <2>3 DEF StoreEvent
<1>7. CASE CollidingEventHalts BY <1>7 DEF CollidingEventHalts, Down
<1>8. CASE ApplyToOrder \/ ApplyReplyLost
  <2>1. /\ current \in Messages /\ current.order \in Orders /\ MoveOrder
        /\ handed' = [handed EXCEPT ![current.order] = Append(@, current)]
        /\ UNCHANGED <<events, cursor, auth, fresh>>
    BY <1>8, VenueStateTyped DEF ApplyToOrder, ApplyReplyLost, HandOver
  <2>2. handed' \in [Orders -> Seq(Messages)] BY <2>1, AppendProperties
  <2>3. lifecycle' \in [Orders -> States \cup {"none"}]
    BY <2>1, MovesToTyped, VenueStateTyped DEF MoveOrder
  <2>4. CASE ApplyToOrder
    BY <2>4, <2>1, <2>2, <2>3 DEF ApplyToOrder, Continue, NextMessage
  <2>5. CASE ApplyReplyLost
    BY <2>5, <2>1, <2>2, <2>3 DEF ApplyReplyLost, Down
  <2> QED BY <1>8, <2>4, <2>5
<1>9. CASE ClearBlock
  <2>1. /\ auth' \in AuthRows /\ fresh' \in BOOLEAN
        /\ memory' \in [block : BOOLEAN, pending : BOOLEAN]
    BY <1>9, SetAuthTyped, Zenon DEF ClearBlock
  <2> QED BY <1>9, <2>1 DEF ClearBlock, NextMessage
<1>10. CASE \E m \in Messages : Receive(m) BY <1>10 DEF Receive
<1>11. CASE LoseStream
  <2>1. /\ auth' = [state |-> "auth_expired", block |-> TRUE] /\ fresh' = FALSE
        /\ UNCHANGED <<events, cursor, lifecycle, handed>>
        /\ pc \in {"connect", "authenticate", "subscribe", "stream"}
    BY <1>11 DEF LoseStream
  <2>2. auth' \in AuthRows BY <2>1 DEF AuthRows
  <2>3. CASE Down
    <3>1. memory' \in [block : BOOLEAN, pending : BOOLEAN] BY <2>3, Zenon DEF Down
    <3>2. pc' = "down" /\ current' = Absent BY <2>3 DEF Down
    <3>3. attempts' \in 0..MaxReconnects BY <2>3 DEF Down
    <3> QED BY <2>1, <2>2, <3>1, <3>2, <3>3
  <2>4. CASE /\ pc' = "connect" /\ ~(NextAttempts > MaxReconnects)
             /\ memory' = MemoryOf("auth_expired", TRUE) /\ attempts' = NextAttempts
             /\ current' = current
    <3>1. attempts' \in 0..MaxReconnects BY <2>4 DEF NextAttempts
    <3>2. memory' \in [block : BOOLEAN, pending : BOOLEAN] BY <2>4, MemoryTyped, Zenon
    <3> QED BY <2>1, <2>2, <2>4, <3>1, <3>2
  <2> QED BY <1>11, <2>3, <2>4, Zenon DEF LoseStream
<1>12. CASE Halt BY <1>12 DEF Halt, Down
<1>13. CASE \E o \in Orders, to \in {"pending", "canceled"} : OrderCommand(o, to)
  <2>1. PICK o \in Orders, to \in {"pending", "canceled"} : OrderCommand(o, to) BY <1>13
  <2>2. MovesTo(lifecycle[o], to) \in States \cup {"none"} BY MovesToTyped DEF States
  <2> QED BY <2>1, <2>2 DEF OrderCommand
<1>14. CASE UNCHANGED vars BY <1>14 DEF vars
<1> QED BY <1>1, <1>2, <1>3, <1>4, <1>5, <1>6, <1>7, <1>8, <1>9, <1>10, <1>11, <1>12,
           <1>13, <1>14 DEF Next, Progress

\* The loop starts well typed.
LEMMA TypeInit == Init => TypeOK
<1> SUFFICES ASSUME Init PROVE TypeOK OBVIOUS
<1>1. events \in [Orders -> Seq(Messages)] /\ handed \in [Orders -> Seq(Messages)]
  BY EmptySeq DEF Init
<1>2. cursor \in [Orders -> Cursors \cup {Absent}] /\ lifecycle \in [Orders -> States \cup {"none"}]
  BY DEF Init
<1>3. memory \in [block : BOOLEAN, pending : BOOLEAN] BY DEF Init, Unblocked
<1>4. attempts \in 0..MaxReconnects BY DEF Init
<1>5. current = Absent /\ auth = Absent /\ pc = "down" /\ fresh = FALSE BY DEF Init
<1> QED BY <1>1, <1>2, <1>3, <1>4, <1>5 DEF TypeOK, Processing, Connecting

\* The tables and the loop's variables keep their types in every run.
THEOREM StreamTypeInvariant == Spec => []TypeOK
<1> QED BY TypeInit, TypeStep, PTL DEF Spec

-----------------------------------------------------------------------------
(* The block on new intents.                                               *)

\* MemoryMatchesBlock is not inductive: that the block may be cleared is decided
\* when the recovery event is stored, steps before it is.
RecoveryIsJustified ==
    /\ pc \in {"apply", "recover"} => fresh
    /\ pc = "recover" => memory.pending
    /\ pc = "down" => attempts = 0

BlockInv == TypeOK /\ MemoryMatchesBlock /\ RecoveryIsJustified

\* The block in force after a write of the authentication row.
LEMMA AuthWritten ==
    ASSUME NEW state \in {"authenticated", "auth_expired"}, NEW block \in BOOLEAN,
           auth' = [state |-> state, block |-> block]
    PROVE  (Blocked' <=> block) /\ auth'.state = state
<1>1. auth' \in AuthRows BY Zenon DEF AuthRows
<1>2. auth' # Absent BY <1>1
<1> QED BY <1>2, Zenon DEF Blocked

\* The memory after a write of the authentication row.
LEMMA MemoryWritten ==
    ASSUME NEW state, NEW block \in BOOLEAN
    PROVE  /\ MemoryOf(state, block).block <=> block
           /\ MemoryOf(state, block).pending <=> state = "authenticated" /\ block
BY Zenon DEF MemoryOf

\* Nothing is blocked at first.
LEMMA BlockInit == Init => BlockInv
<1> SUFFICES ASSUME Init PROVE BlockInv OBVIOUS
<1>1. TypeOK BY TypeInit
<1> QED BY <1>1 DEF BlockInv, Init, MemoryMatchesBlock, RecoveryIsJustified

\* Every step keeps the memory and the durable block in agreement.
LEMMA BlockStep ==
    ASSUME BlockInv, [Next]_vars
    PROVE  BlockInv'
<1>0. TypeOK /\ TypeOK' BY TypeStep DEF BlockInv
<1> USE <1>0 DEF BlockInv, MemoryMatchesBlock, RecoveryIsJustified, tables
<1>1. CASE Start
  <2>1. CASE auth = Absent BY <1>1, <2>1 DEF Start, Hydrated, Unblocked, Blocked, TypeOK
  <2>2. CASE auth # Absent
    <3>1. auth.block \in BOOLEAN BY <2>2 DEF TypeOK, AuthRows
    <3>2. memory' = MemoryOf(auth.state, auth.block) BY <1>1, <2>2 DEF Start, Hydrated
    <3>3. /\ memory'.block <=> auth.block
          /\ memory'.pending <=> auth.state = "authenticated" /\ auth.block
      BY <3>1, <3>2, MemoryWritten, Zenon
    <3>4. auth' = auth /\ attempts' = attempts /\ pc' = "connect" /\ pc = "down"
      BY <1>1 DEF Start
    <3> QED BY <2>2, <3>3, <3>4 DEF Blocked
  <2> QED BY <2>1, <2>2
<1>2. CASE Connect BY <1>2 DEF Connect, Blocked
<1>3. CASE Authenticate
  <2>1. CASE memory.block
    <3>1. /\ auth' = [state |-> "authenticated", block |-> TRUE]
          /\ memory' = MemoryOf("authenticated", TRUE) /\ pc' = "subscribe"
      BY <1>3, <2>1 DEF Authenticate, SetAuth
    <3> QED BY <3>1, AuthWritten, MemoryWritten, Zenon
  <2>2. CASE ~memory.block BY <1>3, <2>2 DEF Authenticate, Blocked
  <2> QED BY <2>1, <2>2
<1>4. CASE Subscribe BY <1>4 DEF Subscribe, Blocked
<1>5. CASE IgnoreMessage BY <1>5 DEF IgnoreMessage, NextMessage, Blocked
<1>6. CASE StoreEvent BY <1>6 DEF StoreEvent, Blocked
<1>7. CASE CollidingEventHalts BY <1>7 DEF CollidingEventHalts, Down
<1>8. CASE ApplyToOrder BY <1>8 DEF ApplyToOrder, HandOver, Continue, NextMessage, Blocked
<1>9. CASE ClearBlock
  <2>1. /\ auth' = [state |-> "authenticated", block |-> FALSE] /\ attempts' = 0
        /\ memory' = MemoryOf("authenticated", FALSE) /\ pc' = "stream"
    BY <1>9 DEF ClearBlock, SetAuth, NextMessage
  <2>2. ~Blocked' /\ ~memory'.block /\ ~memory'.pending
    BY <2>1, AuthWritten, MemoryWritten, Zenon
  <2>3. pc' = "stream" /\ attempts' = 0 BY <2>1
  <2> QED BY <2>2, <2>3
<1>10. CASE \E m \in Messages : Receive(m) BY <1>10 DEF Receive, Blocked
<1>11. CASE LoseStream
  <2>1. Blocked' /\ auth'.state = "auth_expired"
    BY <1>11, AuthWritten, Zenon DEF LoseStream
  <2>2. CASE pc' = "down"
    <3>1. attempts' = 0 BY <1>11, <2>2 DEF LoseStream, Down
    <3> QED BY <2>2, <3>1
  <2>3. CASE pc' # "down"
    <3>1. pc' = "connect" /\ memory' = MemoryOf("auth_expired", TRUE)
      BY <1>11, <2>3 DEF LoseStream, Down
    <3>2. /\ memory'.block
          /\ memory'.pending <=> "auth_expired" = "authenticated" /\ TRUE
      BY <3>1, MemoryWritten, Zenon
    <3> QED BY <2>1, <3>1, <3>2
  <2> QED BY <2>2, <2>3
<1>12. CASE Halt \/ ApplyReplyLost BY <1>12 DEF Halt, ApplyReplyLost, Down
<1>13. CASE \E o \in Orders, to \in {"pending", "canceled"} : OrderCommand(o, to)
  BY <1>13 DEF OrderCommand, Blocked
<1>14. CASE UNCHANGED vars BY <1>14 DEF vars, Blocked
<1> QED BY <1>1, <1>2, <1>3, <1>4, <1>5, <1>6, <1>7, <1>8, <1>9, <1>10, <1>11, <1>12,
           <1>13, <1>14 DEF Next, Progress

\* The running loop's memory is the durable block, and a lost stream is blocked.
THEOREM BlockIsDurable == Spec => []MemoryMatchesBlock
<1>1. BlockInv => MemoryMatchesBlock BY DEF BlockInv
<1> QED BY <1>1, BlockInit, BlockStep, PTL DEF Spec

\* Only ClearBlock clears the block.
LEMMA BlockClears ==
    ASSUME BlockInv, [Next]_vars, Blocked, ~Blocked'
    PROVE  auth.state = "authenticated" /\ fresh
<1> USE DEF tables
<1>1. CASE UNCHANGED auth BY <1>1 DEF Blocked
<1>2. CASE Authenticate
  <2>1. auth' = [state |-> "authenticated", block |-> TRUE] \/ UNCHANGED auth
    BY <1>2 DEF Authenticate, SetAuth
  <2> QED BY <1>1, <2>1, AuthWritten, Zenon
<1>3. CASE ClearBlock
  BY <1>3 DEF ClearBlock, BlockInv, MemoryMatchesBlock, RecoveryIsJustified
<1>4. CASE LoseStream BY <1>4, AuthWritten, Zenon DEF LoseStream
<1> QED BY <1>1, <1>2, <1>3, <1>4 DEF Next, Progress, Start, Connect, Subscribe, IgnoreMessage,
           StoreEvent, CollidingEventHalts, ApplyToOrder, ApplyReplyLost, HandOver, Receive,
           Halt, OrderCommand, vars

\* The block is cleared only by an event stored since it was last set.
THEOREM RecoveryNeedsAnEvent == Spec => UnblocksAfterRecoveryEvent
<1>1. BlockInv /\ [Next]_vars =>
          [Blocked /\ ~Blocked' => auth.state = "authenticated" /\ fresh]_vars
  BY BlockClears
<1> QED BY <1>1, BlockInit, BlockStep, PTL DEF Spec, UnblocksAfterRecoveryEvent

-----------------------------------------------------------------------------
(* Ordering.                                                               *)

\* Offsets, then keys, order the messages.
LEMMA BeforeTransitive ==
    ASSUME NEW l \in Messages, NEW m \in Messages, NEW n \in Messages,
           Before(l, m), Before(m, n)
    PROVE  Before(l, n)
<1>1. /\ l.offset \in Nat /\ m.offset \in Nat /\ n.offset \in Nat
      /\ KeyRank[l] \in Nat /\ KeyRank[m] \in Nat /\ KeyRank[n] \in Nat
  BY VenueStateTyped
<1> QED BY <1>1 DEF Before

\* Appending a message that comes after the whole sequence keeps it increasing.
LEMMA AppendIncreasing ==
    ASSUME NEW s \in Seq(Messages), Increasing(s), NEW m \in Messages,
           \A i \in DOMAIN s : Before(s[i], m)
    PROVE  Increasing(Append(s, m)) /\ Range(Append(s, m)) = Range(s) \cup {m}
<1>1. /\ Len(s) \in Nat /\ DOMAIN s = 1..Len(s)
      /\ DOMAIN Append(s, m) = 1..(Len(s) + 1)
      /\ \A i \in 1..Len(s) : Append(s, m)[i] = s[i]
      /\ Append(s, m)[Len(s) + 1] = m
  BY AppendProperties, LenProperties
<1>2. Increasing(Append(s, m)) BY <1>1 DEF Increasing
<1>3. Range(Append(s, m)) = Range(s) \cup {m} BY <1>1 DEF Range
<1> QED BY <1>2, <1>3

\* What is stored in a partition is behind its cursor, and what has been handed
\* over is behind the event that is about to be.
PartitionInv(o) ==
    /\ Increasing(events[o]) /\ Increasing(handed[o])
    /\ Range(handed[o]) \subseteq Range(events[o])
    /\ cursor[o] = IF events[o] = << >> THEN Absent
                   ELSE [offset |-> events[o][Len(events[o])].offset,
                         key |-> KeyRank[events[o][Len(events[o])]]]

HandoverInv ==
    pc = "apply" =>
        /\ current \in Range(events[current.order])
        /\ \A i \in DOMAIN handed[current.order] : Before(handed[current.order][i], current)

OrderInv == TypeOK /\ (\A o \in Orders : PartitionInv(o)) /\ HandoverInv

\* A message that is accepted comes after everything stored in its partition.
LEMMA AcceptedIsLast ==
    ASSUME OrderInv, NEW m \in Messages, Ordering(m) = "accept"
    PROVE  \A i \in DOMAIN events[m.order] : Before(events[m.order][i], m)
<1> DEFINE s == events[m.order]
<1>1. m.order \in Orders /\ m.offset \in Nat /\ KeyRank[m] \in Nat BY VenueStateTyped
<1>2. s \in Seq(Messages) /\ PartitionInv(m.order) BY <1>1 DEF OrderInv, TypeOK
<1>3. CASE s = << >>
  <2>1. DOMAIN s = {} BY <1>3
  <2> QED BY <2>1
<1>4. CASE s # << >>
  <2> DEFINE last == s[Len(s)]
  <2>1. /\ Len(s) \in Nat \ {0} /\ DOMAIN s = 1..Len(s) /\ last \in Messages
    BY <1>2, <1>4, LenProperties, EmptySeq
  <2>2. last.offset \in Nat /\ KeyRank[last] \in Nat BY <2>1, VenueStateTyped
  <2>3. cursor[m.order] = [offset |-> last.offset, key |-> KeyRank[last]]
    BY <1>2, <1>4 DEF PartitionInv
  <2>4. cursor[m.order] # Absent BY <2>2, <2>3 DEF Cursors
  <2>5. Before(last, m)
    <3>1. cursor[m.order].offset = last.offset /\ cursor[m.order].key = KeyRank[last] BY <2>3
    <3>2. ComesAfter(m, cursor[m.order]) BY <2>4 DEF Ordering
    <3> QED BY <1>1, <2>2, <3>1, <3>2 DEF Before, ComesAfter
  <2>6. ASSUME NEW i \in DOMAIN s PROVE Before(s[i], m)
    <3>1. s[i] \in Messages BY <1>2, <2>1
    <3>2. CASE i = Len(s) BY <2>5, <3>2
    <3>3. CASE i # Len(s)
      <4>1. Before(s[i], last) BY <1>2, <2>1, <3>3 DEF PartitionInv, Increasing
      <4> QED BY <2>1, <2>5, <3>1, <4>1, BeforeTransitive
    <3> QED BY <3>2, <3>3
  <2> QED BY <2>6
<1> QED BY <1>3, <1>4

\* No event is stored at first.
LEMMA OrderInit == Init => OrderInv
<1> SUFFICES ASSUME Init PROVE OrderInv OBVIOUS
<1>1. TypeOK BY TypeInit
<1>2. ASSUME NEW o \in Orders PROVE PartitionInv(o)
  <2>1. events[o] = << >> /\ handed[o] = << >> /\ cursor[o] = Absent BY DEF Init
  <2> QED BY <2>1 DEF PartitionInv, Increasing, Range
<1>3. pc # "apply" BY DEF Init
<1> QED BY <1>1, <1>2, <1>3 DEF OrderInv, HandoverInv

\* A step that does not write the tables involved and does not enter "apply".
LEMMA OrderUntouched ==
    ASSUME OrderInv, TypeOK', UNCHANGED <<events, cursor, handed>>, pc' # "apply"
    PROVE  OrderInv'
BY DEF OrderInv, PartitionInv, HandoverInv

\* Storing an event keeps its partition in order and the cursor on its end.
LEMMA StoreKeepsOrder ==
    ASSUME OrderInv, TypeOK', StoreEvent
    PROVE  OrderInv'
<1>0. current \in Messages /\ current.order \in Orders
  BY VenueStateTyped DEF OrderInv, TypeOK, StoreEvent, ApplyToOrder, ApplyReplyLost,
         Processing
<1> PICK o \in Orders : o = current.order BY <1>0
<1>1. /\ current \in Messages /\ o = current.order /\ Ordering(current) = "accept"
      /\ events' = [events EXCEPT ![o] = Append(@, current)]
      /\ cursor' = [cursor EXCEPT ![o] = [offset |-> current.offset, key |-> KeyRank[current]]]
      /\ UNCHANGED <<handed, current>>
  BY <1>0 DEF StoreEvent
<1>2. /\ events[o] \in Seq(Messages) /\ handed[o] \in Seq(Messages)
      /\ events \in [Orders -> Seq(Messages)] /\ cursor \in [Orders -> Cursors \cup {Absent}]
      /\ PartitionInv(o)
  BY <1>1 DEF OrderInv, TypeOK
<1>3. \A i \in DOMAIN events[o] : Before(events[o][i], current) BY <1>1, AcceptedIsLast
<1>4. events'[o] = Append(events[o], current) BY <1>1, <1>2
<1>5. Increasing(events'[o]) /\ Range(events'[o]) = Range(events[o]) \cup {current}
  BY <1>1, <1>2, <1>3, <1>4, AppendIncreasing DEF PartitionInv
<1>6. events'[o] # << >> /\ events'[o][Len(events'[o])] = current
  <2> DEFINE s == events[o]
  <2>1. s \in Seq(Messages) /\ current \in Messages BY <1>1, <1>2
  <2> HIDE DEF s
  <2>2. /\ Append(s, current) # << >>
        /\ Append(s, current)[Len(Append(s, current))] = current
    BY <2>1, AppendProperties, LenProperties
  <2> QED BY <1>4, <2>2 DEF s
<1>7. PartitionInv(o)'
  <2>1. cursor'[o] = [offset |-> current.offset, key |-> KeyRank[current]] BY <1>1, <1>2
  <2> QED BY <1>1, <1>2, <1>5, <1>6, <2>1 DEF PartitionInv
<1>8. ASSUME NEW p \in Orders, p # o PROVE PartitionInv(p)'
  <2>1. events'[p] = events[p] /\ cursor'[p] = cursor[p] BY <1>1, <1>2, <1>8
  <2> QED BY <1>1, <1>8, <2>1 DEF OrderInv, PartitionInv
<1>9. HandoverInv'
  <2>1. \A i \in DOMAIN handed[o] : Before(handed[o][i], current)
    <3>1. ASSUME NEW i \in DOMAIN handed[o]
          PROVE  \E j \in DOMAIN events[o] : events[o][j] = handed[o][i]
      <4>1. handed[o][i] \in Range(events[o]) BY <1>2 DEF PartitionInv, Range
      <4> QED BY <4>1 DEF Range
    <3> QED BY <1>3, <3>1
  <2> QED BY <1>1, <1>5, <2>1 DEF HandoverInv
<1>10. \A p \in Orders : PartitionInv(p)' BY <1>7, <1>8
<1> QED BY <1>9, <1>10 DEF OrderInv

\* Handing over the event just stored keeps the hand-over in order.
LEMMA ApplyKeepsOrder ==
    ASSUME OrderInv, TypeOK', ApplyToOrder \/ ApplyReplyLost
    PROVE  OrderInv'
<1>0. current \in Messages /\ current.order \in Orders
  BY VenueStateTyped DEF OrderInv, TypeOK, StoreEvent, ApplyToOrder, ApplyReplyLost,
         Processing
<1> PICK o \in Orders : o = current.order BY <1>0
<1>1. /\ current \in Messages /\ o = current.order /\ pc = "apply"
      /\ handed' = [handed EXCEPT ![o] = Append(@, current)]
      /\ UNCHANGED <<events, cursor>>
  BY <1>0 DEF ApplyToOrder, ApplyReplyLost, HandOver
<1>2. handed \in [Orders -> Seq(Messages)] /\ handed[o] \in Seq(Messages) /\ PartitionInv(o)
  BY <1>1 DEF OrderInv, TypeOK
<1>3. /\ current \in Range(events[o])
      /\ \A i \in DOMAIN handed[o] : Before(handed[o][i], current)
  BY <1>1 DEF OrderInv, HandoverInv
<1>4. handed'[o] = Append(handed[o], current) BY <1>1, <1>2
<1>5. Increasing(handed'[o]) /\ Range(handed'[o]) = Range(handed[o]) \cup {current}
  BY <1>1, <1>2, <1>3, <1>4, AppendIncreasing DEF PartitionInv
<1>6. PartitionInv(o)'
  <2>1. events'[o] = events[o] /\ cursor'[o] = cursor[o] BY <1>1
  <2> QED BY <1>1, <1>2, <1>3, <1>5, <2>1 DEF PartitionInv
<1>7. ASSUME NEW p \in Orders, p # o PROVE PartitionInv(p)'
  <2>1. handed'[p] = handed[p] BY <1>1, <1>2, <1>7
  <2> QED BY <1>1, <1>7, <2>1 DEF OrderInv, PartitionInv
<1>8. HandoverInv'
  BY DEF ApplyToOrder, ApplyReplyLost, Continue, NextMessage, Down, HandoverInv
<1>9. \A p \in Orders : PartitionInv(p)' BY <1>6, <1>7
<1> QED BY <1>8, <1>9 DEF OrderInv

\* Every step keeps events stored and handed over in order.
LEMMA OrderStep ==
    ASSUME OrderInv, [Next]_vars
    PROVE  OrderInv'
<1>0. TypeOK' BY TypeStep DEF OrderInv
<1>1. CASE StoreEvent BY <1>0, <1>1, StoreKeepsOrder
<1>2. CASE ApplyToOrder \/ ApplyReplyLost BY <1>0, <1>2, ApplyKeepsOrder
<1>3. CASE UNCHANGED vars BY <1>0, <1>3 DEF vars, OrderInv, PartitionInv, HandoverInv
<1>4. CASE \E o \in Orders, to \in {"pending", "canceled"} : OrderCommand(o, to)
  BY <1>0, <1>4 DEF OrderCommand, OrderInv, PartitionInv, HandoverInv
<1>5. CASE Start BY <1>0, <1>5, OrderUntouched DEF Start, tables
<1>6. CASE Connect BY <1>0, <1>6, OrderUntouched DEF Connect, tables
<1>7. CASE Authenticate BY <1>0, <1>7, OrderUntouched DEF Authenticate
<1>8. CASE Subscribe BY <1>0, <1>8, OrderUntouched DEF Subscribe, tables
<1>9. CASE IgnoreMessage BY <1>0, <1>9, OrderUntouched DEF IgnoreMessage, NextMessage, tables
<1>10. CASE CollidingEventHalts BY <1>0, <1>10, OrderUntouched DEF CollidingEventHalts, Down, tables
<1>11. CASE ClearBlock BY <1>0, <1>11, OrderUntouched DEF ClearBlock, NextMessage
<1>12. CASE \E m \in Messages : Receive(m) BY <1>0, <1>12, OrderUntouched DEF Receive, tables
<1>13. CASE LoseStream BY <1>0, <1>13, OrderUntouched DEF LoseStream, Down
<1>14. CASE Halt BY <1>0, <1>14, OrderUntouched DEF Halt, Down, tables
<1> QED BY <1>1, <1>2, <1>3, <1>4, <1>5, <1>6, <1>7, <1>8, <1>9, <1>10, <1>11, <1>12,
           <1>13, <1>14 DEF Next, Progress

\* Events are stored and handed over in order and at most once.
THEOREM EventsKeepOrder == Spec => []EachEventOnceInOrder
<1>1. OrderInv => EachEventOnceInOrder BY DEF OrderInv, PartitionInv, EachEventOnceInOrder
<1> QED BY <1>1, OrderInit, OrderStep, PTL DEF Spec
=============================================================================
