------------------------ MODULE ExecutionEngineProofs ------------------------
(***************************************************************************)
(* Proofs about ExecutionEngine: the engine implements the order lifecycle,*)
(* and to its user stream that lifecycle is the atomic step UserStream     *)
(* takes it for, so that the theorems of both hold of the engine.          *)
(***************************************************************************)
EXTENDS ExecutionEngine, OrderLifecycleProofs

\* The loop of UserStream with what is proved of it.
P == INSTANCE UserStreamProofs WITH pc <- loop

-----------------------------------------------------------------------------
(* Both instances of UserStream say the same.                              *)

LEMMA SameNext == U!Next <=> P!Next
<1>1. U!VenueState = P!VenueState
  BY DEF U!VenueState, P!VenueState, U!VenueStatuses, P!VenueStatuses
<1>2. \A from, to : U!MovesTo(from, to) = P!MovesTo(from, to)
  BY <1>1 DEF U!MovesTo, P!MovesTo, U!MayMove, P!MayMove, U!Successors, P!Successors,
       U!States, P!States, U!Terminal, P!Terminal
<1>3. U!Start <=> P!Start
  BY DEF U!Start, P!Start, U!tables, P!tables, U!Hydrated, P!Hydrated, U!MemoryOf,
     P!MemoryOf, U!Unblocked, P!Unblocked
<1>4. U!Connect <=> P!Connect BY DEF U!Connect, P!Connect, U!tables, P!tables
<1>5. U!Authenticate <=> P!Authenticate
  BY DEF U!Authenticate, P!Authenticate, U!SetAuth, P!SetAuth, U!MemoryOf, P!MemoryOf
<1>6. U!Subscribe <=> P!Subscribe BY DEF U!Subscribe, P!Subscribe, U!tables, P!tables
<1>7. U!IgnoreMessage <=> P!IgnoreMessage
  BY DEF U!IgnoreMessage, P!IgnoreMessage, U!tables, P!tables, U!NextMessage,
     P!NextMessage, U!Ordering, P!Ordering, U!ComesAfter, P!ComesAfter
<1>8. U!StoreEvent <=> P!StoreEvent
  BY DEF U!StoreEvent, P!StoreEvent, U!Ordering, P!Ordering, U!ComesAfter, P!ComesAfter,
     U!EventId, P!EventId, U!StoredIds, P!StoredIds, U!Range, P!Range
<1>9. U!CollidingEventHalts <=> P!CollidingEventHalts
  BY DEF U!CollidingEventHalts, P!CollidingEventHalts, U!Ordering, P!Ordering,
     U!ComesAfter, P!ComesAfter, U!EventId, P!EventId, U!StoredIds, P!StoredIds,
     U!Range, P!Range, U!Down, P!Down, U!tables, P!tables, U!Unblocked, P!Unblocked
<1>10. U!ClearBlock <=> P!ClearBlock
  BY DEF U!ClearBlock, P!ClearBlock, U!SetAuth, P!SetAuth, U!MemoryOf, P!MemoryOf,
     U!NextMessage, P!NextMessage
<1>11. \A m : U!Receive(m) <=> P!Receive(m) BY DEF U!Receive, P!Receive, U!tables, P!tables
<1>12. U!LoseStream <=> P!LoseStream
  BY DEF U!LoseStream, P!LoseStream, U!Down, P!Down, U!Unblocked, P!Unblocked,
     U!MemoryOf, P!MemoryOf, U!NextAttempts, P!NextAttempts, U!Connecting, P!Connecting
<1>13. U!Halt <=> P!Halt
  BY DEF U!Halt, P!Halt, U!Down, P!Down, U!Unblocked, P!Unblocked, U!tables, P!tables
<1>14. U!MoveOrder <=> P!MoveOrder BY <1>1, <1>2 DEF U!MoveOrder, P!MoveOrder
<1>15. U!ApplyToOrder <=> P!ApplyToOrder
  BY <1>14 DEF U!ApplyToOrder, P!ApplyToOrder, U!HandOver, P!HandOver, U!Continue,
     P!Continue, U!NextMessage, P!NextMessage
<1>16. U!ApplyReplyLost <=> P!ApplyReplyLost
  BY <1>14 DEF U!ApplyReplyLost, P!ApplyReplyLost, U!HandOver, P!HandOver, U!Down,
     P!Down, U!Unblocked, P!Unblocked
<1>17. \A o, to : U!OrderCommand(o, to) <=> P!OrderCommand(o, to)
  BY <1>2 DEF U!OrderCommand, P!OrderCommand
<1> QED
  BY <1>3, <1>4, <1>5, <1>6, <1>7, <1>8, <1>9, <1>10, <1>11, <1>12, <1>13, <1>15,
     <1>16, <1>17 DEF U!Next, P!Next, U!Progress, P!Progress

\* They start alike, in the same variables.
LEMMA SameStart == (U!Init <=> P!Init) /\ U!vars = P!vars
BY DEF U!Init, P!Init, U!Unblocked, P!Unblocked, U!vars, P!vars

\* UserStream's assumptions are the engine's.
LEMMA StreamAssumptions == P!MessagesAssumption /\ P!NoMessageAssumption
<1>1. Message = P!Message BY DEF Message, P!Message, VenueStatuses, P!VenueStatuses
<1>2. Cursors = P!Cursors /\ AuthRows = P!AuthRows
  BY DEF Cursors, P!Cursors, AuthRows, P!AuthRows
<1> QED BY <1>1, <1>2, MessagesAssumption, NoMessageAssumption
        DEF P!MessagesAssumption, P!NoMessageAssumption

\* The loop moves orders as the order lifecycle does.
LEMMA SameMoves ==
    /\ U!VenueState = VenueState
    /\ \A from, to : U!MovesTo(from, to) = IF from = "none" \/ MayMove(from, to) THEN to ELSE from
<1>1. U!VenueState = VenueState
  BY DEF U!VenueState, VenueState, U!VenueStatuses, VenueStatuses
<1>2. U!Successors = Successors
  BY DEF U!Successors, Successors, U!States, States, U!Terminal, Terminal
<1> QED BY <1>1, <1>2 DEF U!MovesTo, U!MayMove, MayMove

-----------------------------------------------------------------------------
(* The loop and its session.                                               *)

\* While the loop's call runs, the loop waits for it with the event the call is
\* about, and nothing has been answered yet.
StreamInv ==
    pc[Stream] # "idle" =>
        /\ loop = "apply" /\ pc[Stream] # "adjudicate"
        /\ answers[Stream] = {} /\ Len(queue[Stream]) = 1
        /\ Current(Stream).order = current.order
        /\ Current(Stream).key = EventKey(current)
        /\ Current(Stream).to = VenueState[current.status]

\* A command of other callers submits or cancels, under a key of theirs.
CallersCommand(c) ==
    c.to \in {"pending", "canceled"} /\ \A m \in Messages : c.key # EventKey(m)

CallersInv ==
    \A s \in Sessions \ {Stream} : \A i \in 1..Len(queue[s]) : CallersCommand(queue[s][i])

EngineInv ==
    /\ Inv /\ P!OrderInv /\ lifecycle = Lifecycle
    /\ StreamInv /\ CallersInv /\ VenueEntriesFollowTheStream

\* The message the loop is about to apply.
LEMMA CurrentMessage ==
    ASSUME EngineInv, loop = "apply"
    PROVE  /\ current \in Messages /\ current.order \in Orders
           /\ current.status \in VenueStatuses /\ current.offset \in Nat
           /\ VenueRequest(current) \in Requests
<1>1. current \in Messages
  BY StreamAssumptions DEF EngineInv, P!OrderInv, P!TypeOK, P!Processing, P!NoMessageAssumption
<1>2. current \in Message BY <1>1, MessagesAssumption
<1> QED BY <1>1, <1>2, EngineAssumption DEF Message

\* The command the loop's call runs.
LEMMA VenueCommand ==
    ASSUME NEW m \in Messages
    PROVE  LET q == CommandsOf(VenueRequest(m)) IN
           /\ Len(q) = 1 /\ q[1] \in Commands
           /\ q[1].order = m.order /\ q[1].key = EventKey(m) /\ q[1].to = VenueState[m.status]
<1> DEFINE r == VenueRequest(m)
           i == [order |-> m.order, raw |-> VenueKey[m], mode |-> "limit"]
<1>1. r \in Requests /\ VenueKey[m] # Absent /\ Fold[VenueKey[m]] = VenueKey[m]
  BY EngineAssumption, ConstantsAssumption
<1>2. /\ r.kind = "venue" /\ r.items = <<i>> /\ Len(r.items) = 1 /\ r.items[1] = i
      /\ r.status = m.status
  BY DEF VenueRequest
<1>3. KeyOf(r, i) = EventKey(m) BY <1>1, <1>2 DEF KeyOf, EventKey
<1>4. TargetOf(r) = VenueState[m.status] BY <1>2 DEF TargetOf
<1>5. Len(CommandsOf(r)) = 1 /\ CommandsOf(r)[1] = CommandOf(r, i) BY <1>2 DEF CommandsOf
<1>6. CommandsOf(r)[1] \in Commands
  <2>1. 1 \in 1..Len(r.items) BY <1>2
  <2> QED BY <1>1, <1>2, <1>5, <2>1, CommandTyped
<1> QED BY <1>3, <1>4, <1>5, <1>6 DEF CommandOf

\* Only a commit writes, and it answers.
LEMMA OnlyCommitsOfASession ==
    ASSUME NEW s, Progress(s) \/ Fault(s)
    PROVE  UNCHANGED dbVars \/ Commit(s) \/ CommitReplyLost(s)
BY DEF Progress, AdjudicationAllows, AdjudicationDenies, BlankOrderEndsCall, RefuseBlankKey,
       LockOrder, Decide, AnswerDuplicate, RefuseDuplicateOfMissing, AnswerTerminal,
       AnswerRejected, RefuseProjection, AcceptTransition, WriteOrder, LosesInsertRace,
       Fault, StatementFails, Crash, dbVars

\* A session that does something for its call is in one.
LEMMA BusySession ==
    ASSUME NEW s, Progress(s) \/ Fault(s)
    PROVE  pc[s] # "idle"
BY DEF Progress, AdjudicationAllows, AdjudicationDenies, BlankOrderEndsCall, RefuseBlankKey,
       LockOrder, Decide, AnswerDuplicate, RefuseDuplicateOfMissing, AnswerTerminal,
       AnswerRejected, RefuseProjection, AcceptTransition, WriteOrder, LosesInsertRace,
       Commit, Fault, StatementFails, CommitReplyLost, Crash, InTransaction

\* A session leaves the others alone.
LEMMA OthersUntouched ==
    ASSUME Inv, NEW s \in Sessions, NEW t \in Sessions \ {s}, Start(s) \/ Progress(s) \/ Fault(s)
    PROVE  pc'[t] = pc[t] /\ queue'[t] = queue[t] /\ answers'[t] = answers[t]
<1> USE DEF Inv, TypeOK, SessionsOK
<1>1. ASSUME NEW r, NEW first, NEW q, Begin(s, r, first, q)
      PROVE  pc'[t] = pc[t] /\ queue'[t] = queue[t] /\ answers'[t] = answers[t]
  BY <1>1 DEF Begin
<1>2. ASSUME NEW outcome, NEW to, Answer(s, outcome, to)
      PROVE  pc'[t] = pc[t] /\ queue'[t] = queue[t] /\ answers'[t] = answers[t]
  BY <1>2 DEF Answer, Finish
<1>3. CASE Start(s) BY <1>1, <1>3 DEF Start, Submit, Cancel, ApplyVenueEvent
<1>4. CASE RefuseBlankKey(s) \/ AnswerDuplicate(s) \/ RefuseDuplicateOfMissing(s)
           \/ AnswerTerminal(s) \/ AnswerRejected(s) \/ RefuseProjection(s)
           \/ LosesInsertRace(s) \/ Commit(s) \/ StatementFails(s) \/ CommitReplyLost(s)
  BY <1>2, <1>4 DEF RefuseBlankKey, AnswerDuplicate, RefuseDuplicateOfMissing,
       AnswerTerminal,
     AnswerRejected, RefuseProjection, LosesInsertRace, Commit, StatementFails, CommitReplyLost
<1>5. CASE AdjudicationAllows(s) \/ AdjudicationDenies(s) \/ BlankOrderEndsCall(s)
           \/ LockOrder(s) \/ AcceptTransition(s) \/ WriteOrder(s) \/ Crash(s)
  BY <1>5 DEF AdjudicationAllows, AdjudicationDenies, BlankOrderEndsCall, LockOrder,
     AcceptTransition, WriteOrder, Crash, Finish
<1> QED BY <1>3, <1>4, <1>5 DEF Progress, Decide, Fault

\* A session runs the commands it has.
LEMMA QueueShrinks ==
    ASSUME Inv, NEW s \in Sessions, Progress(s) \/ Fault(s), NEW i \in 1..Len(queue'[s])
    PROVE  \E j \in 1..Len(queue[s]) : queue'[s][i] = queue[s][j]
<1>0. /\ queue \in [Sessions -> Seq(Commands)]
      /\ queue[s] \in Seq(Commands) /\ queue[s] # << >>
  BY BusySession DEF Inv, TypeOK, SessionsOK
<1>1. CASE queue' = queue BY <1>1
<1>2. CASE Finish(s)
  <2>1. queue'[s] = << >> BY <1>0, <1>2 DEF Finish
  <2> QED BY <2>1, EmptySeq
<1>3. CASE queue' = [queue EXCEPT ![s] = Tail(@)]
  <2>1. PICK q \in Seq(Commands) : q = queue[s] BY <1>0
  <2>2. queue'[s] = Tail(q) BY <1>0, <1>3, <2>1
  <2>3. PICK n \in Nat : n = Len(q) BY <2>1, LenProperties
  <2>4. Len(Tail(q)) = n - 1 /\ \A k \in 1..(n - 1) : Tail(q)[k] = q[k + 1]
    BY <1>0, <2>1, <2>3, HeadTailProperties
  <2>5. i \in 1..(n - 1) /\ i + 1 \in 1..n BY <2>2, <2>3, <2>4
  <2> QED BY <2>1, <2>2, <2>3, <2>4, <2>5
<1>4. ASSUME NEW outcome, NEW to, Answer(s, outcome, to)
      PROVE  Finish(s) \/ queue' = [queue EXCEPT ![s] = Tail(@)]
  BY <1>4 DEF Answer
<1>5. CASE RefuseBlankKey(s) \/ AnswerDuplicate(s) \/ RefuseDuplicateOfMissing(s)
           \/ AnswerTerminal(s) \/ AnswerRejected(s) \/ RefuseProjection(s)
           \/ LosesInsertRace(s) \/ Commit(s) \/ StatementFails(s) \/ CommitReplyLost(s)
  BY <1>2, <1>3, <1>4, <1>5 DEF RefuseBlankKey, AnswerDuplicate, RefuseDuplicateOfMissing,
     AnswerTerminal, AnswerRejected, RefuseProjection, LosesInsertRace, Commit,
     StatementFails, CommitReplyLost
<1>6. CASE AdjudicationAllows(s) \/ AdjudicationDenies(s) \/ BlankOrderEndsCall(s)
           \/ LockOrder(s) \/ AcceptTransition(s) \/ WriteOrder(s) \/ Crash(s)
  BY <1>1, <1>2, <1>6 DEF AdjudicationAllows, AdjudicationDenies, BlankOrderEndsCall,
     LockOrder, AcceptTransition, WriteOrder, Crash
<1> QED BY <1>5, <1>6 DEF Progress, Decide, Fault

\* An answer ends the loop's call, and is all it is told.
LEMMA StreamAnswer ==
    ASSUME Inv, StreamInv, pc[Stream] # "idle", NEW outcome, NEW to,
           Answer(Stream, outcome, to)
    PROVE  pc'[Stream] = "idle" /\ \A outcomes : Told(outcomes) <=> outcome \in outcomes
<1>1. Stream \in Sessions /\ LastCommand(Stream)
  BY EngineAssumption DEF StreamInv, LastCommand
<1>2. pc'[Stream] = "idle" BY <1>1 DEF Answer, Finish, Inv, TypeOK, SessionsOK
<1>3. PICK a : a = [order |-> Current(Stream).order, key |-> Current(Stream).key,
                    kind |-> call[Stream].kind, outcome |-> outcome, to |-> to]
  OBVIOUS
<1>4. answers'[Stream] = {a}
  BY <1>1, <1>3 DEF Answer, StreamInv, Inv, TypeOK, SessionsOK
<1>5. a.outcome = outcome BY <1>3
<1> QED BY <1>2, <1>4, <1>5 DEF Told

-----------------------------------------------------------------------------
(* Steps of the engine, as the order lifecycle and as the loop see them.   *)

\* The engine takes steps of the order lifecycle only.
LEMMA EngineStepsLifecycle ==
    ASSUME EngineInv, [EngineNext]_engineVars
    PROVE  [Next]_vars
<1>1. Stream \in Sessions BY EngineAssumption
<1>2. CASE CallLifecycle
  <2>1. VenueRequest(current) \in Requests BY <1>2, CurrentMessage DEF CallLifecycle
  <2> QED BY <1>1, <1>2, <2>1 DEF CallLifecycle, Next, Start
<1>3. CASE Statement \/ CallReturns BY <1>1, <1>3 DEF Statement, CallReturns, Next
<1>4. CASE CallFails \/ CallReplyLost \/ EngineCrash
  BY <1>1, <1>4 DEF CallFails, CallReplyLost, EngineCrash, Next, Fault
<1>5. CASE \E s \in Sessions \ {Stream} : OtherSession(s)
  BY <1>5 DEF OtherSession, CallerRequests, Next, Start
<1>6. CASE LoopStep \/ ChangeSafetyMode \/ UNCHANGED engineVars
  BY <1>6 DEF LoopStep, Next, engineVars
<1> QED BY <1>2, <1>3, <1>4, <1>5, <1>6 DEF EngineNext, EngineStep

\* A commit moves its order as the state machine says.
LEMMA CommitMoves ==
    ASSUME Inv, lifecycle = Lifecycle, lifecycle' = Lifecycle',
           NEW s \in Sessions, pc[s] = "commit", Apply(s)
    PROVE  lifecycle' = [lifecycle EXCEPT ![Current(s).order] = U!MovesTo(@, Current(s).to)]
<1> PICK o : o = Current(s).order OBVIOUS
<1>1. /\ o \in Orders /\ orders'[o] = NextRow(s)
      /\ \A p \in Orders \ {o} : orders'[p] = orders[p]
  BY CommitSituation, CommittedHistory
<1>2. NextRow(s) # Absent /\ NextRow(s).state = Current(s).to
  BY NextRowTyped, AbsentAssumption DEF Inv, InTransaction, NextRow
<1>3. \/ orders[o] = Absent
      \/ orders[o] = seen[s] /\ seen[s] # Absent /\ MayMove(seen[s].state, Current(s).to)
  BY CommitSituation
<1>4. lifecycle'[o] = U!MovesTo(lifecycle[o], Current(s).to)
  BY <1>1, <1>2, <1>3, SameMoves DEF Lifecycle, StateOf
<1>5. \A p \in Orders \ {o} : lifecycle'[p] = lifecycle[p] BY <1>1 DEF Lifecycle, StateOf
<1> QED BY <1>1, <1>4, <1>5 DEF Lifecycle

\* Without a commit no order moves.
LEMMA NobodyMoves ==
    ASSUME lifecycle = Lifecycle, lifecycle' = Lifecycle', UNCHANGED dbVars
    PROVE  lifecycle' = lifecycle
BY DEF Lifecycle, StateOf, dbVars

\* An answer, whichever it is, means that the event has had its effect.
LEMMA ReturnsMeanMoved ==
    ASSUME EngineInv, CallReturns, lifecycle' = Lifecycle'
    PROVE  loop = "apply" /\ U!MoveOrder
<1>0. Stream \in Sessions /\ Progress(Stream) /\ pc[Stream] # "idle"
  BY EngineAssumption, BusySession DEF CallReturns
<1> PICK c : c = Current(Stream) OBVIOUS
<1>1. /\ loop = "apply" /\ pc[Stream] # "adjudicate" /\ answers[Stream] = {}
      /\ c.order = current.order /\ c.key = EventKey(current)
      /\ c.to = VenueState[current.status]
  BY <1>0 DEF EngineInv, StreamInv
<1>2. current \in Messages /\ current.order \in Orders BY <1>1, CurrentMessage
<1>3. Told({"applied", "duplicate", "already_terminal", "rejected"}) BY DEF CallReturns
<1>4. ASSUME answers'[Stream] = {} PROVE FALSE BY <1>3, <1>4 DEF Told
<1>5. ASSUME NEW to, Answer(Stream, "hard", to) \/ Answer(Stream, "retryable", to) PROVE FALSE
  <2>1. Told({"applied", "duplicate", "already_terminal", "rejected"})
            => \/ "hard" \in {"applied", "duplicate", "already_terminal", "rejected"}
               \/ "retryable" \in {"applied", "duplicate", "already_terminal", "rejected"}
    BY <1>0, <1>5, StreamAnswer DEF EngineInv
  <2> QED BY <1>3, <2>1
<1>6. ASSUME UNCHANGED dbVars, seen[Stream] # Absent, pc[Stream] = "check",
             seen[Stream].state \in Terminal \/ ~MayMove(seen[Stream].state, c.to)
      PROVE  U!MoveOrder
  <2>1. orders[current.order] = seen[Stream] /\ seen[Stream].state \in States
    BY <1>0, <1>1, <1>6 DEF EngineInv, Inv, DecisionsStillHold, InTransaction, TypeOK,
       SessionsOK, Rows
  <2>2. lifecycle[current.order] = seen[Stream].state /\ seen[Stream].state # "none"
    BY <1>2, <1>6, <2>1 DEF EngineInv, Lifecycle, StateOf, States
  <2>3. ~MayMove(seen[Stream].state, c.to) BY <1>6, <2>1, TerminalHasNoSuccessor
  <2>4. U!MovesTo(lifecycle[current.order], c.to) = lifecycle[current.order]
    BY <2>2, <2>3, SameMoves
  <2>5. lifecycle' = lifecycle BY <1>6, NobodyMoves DEF EngineInv
  <2>6. lifecycle = [o \in Orders |-> lifecycle[o]] BY DEF EngineInv, Lifecycle
  <2> QED BY <1>1, <2>4, <2>5, <2>6, SameMoves DEF U!MoveOrder
<1>7. CASE AnswerDuplicate(Stream)
  <2>1. PICK i \in 1..Len(transitions[current.order]) :
            transitions[current.order][i].key = EventKey(current)
    BY <1>1, <1>7 DEF AnswerDuplicate, IsDuplicate, KeyRecorded
  <2>2. PICK k \in 1..Len(handed[current.order]) : handed[current.order][k] = current
    BY <1>2, <2>1 DEF EngineInv, VenueEntriesFollowTheStream
  <2>3. k \in DOMAIN handed[current.order]
    BY <1>2, <2>2, LenProperties DEF EngineInv, P!OrderInv, P!TypeOK
  <2>4. P!Before(current, current)
    BY <1>1, <2>2, <2>3 DEF EngineInv, P!OrderInv, P!HandoverInv
  <2>5. current.offset \in Nat /\ KeyRank[current] \in Nat
    BY <1>1, <1>2, CurrentMessage, EngineAssumption, MessagesAssumption
  <2> QED BY <2>4, <2>5 DEF P!Before
<1>8. CASE AnswerTerminal(Stream) BY <1>1, <1>6, <1>8 DEF AnswerTerminal
<1>9. CASE AnswerRejected(Stream) BY <1>1, <1>6, <1>9 DEF AnswerRejected
<1>10. CASE Commit(Stream)
  <2>1. lifecycle' = [lifecycle EXCEPT ![c.order] = U!MovesTo(@, c.to)]
    BY <1>0, <1>10, CommitMoves DEF Commit, EngineInv
  <2> QED BY <1>1, <2>1, SameMoves DEF U!MoveOrder
<1>11. CASE RefuseBlankKey(Stream) \/ RefuseDuplicateOfMissing(Stream)
            \/ RefuseProjection(Stream) \/ LosesInsertRace(Stream)
  BY <1>5, <1>11 DEF RefuseBlankKey, RefuseDuplicateOfMissing, RefuseProjection,
     LosesInsertRace
<1>12. CASE AdjudicationAllows(Stream) \/ AdjudicationDenies(Stream)
  BY <1>1, <1>12 DEF AdjudicationAllows, AdjudicationDenies
<1>13. CASE BlankOrderEndsCall(Stream)
  BY <1>0, <1>4, <1>13 DEF BlankOrderEndsCall, EngineInv, Inv, TypeOK, SessionsOK
<1>14. CASE LockOrder(Stream) \/ AcceptTransition(Stream) \/ WriteOrder(Stream)
  BY <1>1, <1>4, <1>14 DEF LockOrder, AcceptTransition, WriteOrder
<1> QED BY <1>0, <1>1, <1>7, <1>8, <1>9, <1>10, <1>11, <1>12, <1>13, <1>14
        DEF Progress, Decide

\* While the loop waits for its call it is where that call started.
LEMMA LoopWaits ==
    ASSUME EngineInv, Progress(Stream) \/ Fault(Stream)
    PROVE  Stream \in Sessions /\ pc[Stream] # "idle" /\ loop = "apply"
BY EngineAssumption, BusySession DEF EngineInv, StreamInv

\* A call that returns an error has written nothing, except when its commit was
\* not acknowledged.
LEMMA ErrorsMeanUnmoved ==
    ASSUME EngineInv, CallFails
    PROVE  UNCHANGED dbVars
<1>1. pc[Stream] # "idle" /\ Stream \in Sessions
  BY LoopWaits DEF CallFails, Fault
<1>2. CASE Commit(Stream)
  <2>1. Told({"retryable", "hard"}) => "applied" \in {"retryable", "hard"}
    BY <1>1, <1>2, StreamAnswer DEF EngineInv, Commit
  <2> QED BY <2>1 DEF CallFails
<1>3. CASE Progress(Stream) /\ ~Commit(Stream)
  BY <1>3 DEF Progress, AdjudicationAllows, AdjudicationDenies, BlankOrderEndsCall,
     RefuseBlankKey, LockOrder, Decide, AnswerDuplicate, RefuseDuplicateOfMissing,
     AnswerTerminal, AnswerRejected, RefuseProjection, AcceptTransition, WriteOrder,
     LosesInsertRace, dbVars
<1>4. CASE StatementFails(Stream) BY <1>4 DEF StatementFails
<1> QED BY <1>2, <1>3, <1>4 DEF CallFails

\* A statement before the last writes nothing that others see.
LEMMA StatementsWriteNothing ==
    ASSUME EngineInv, Statement
    PROVE  UNCHANGED dbVars
<1>1. pc[Stream] # "idle" BY LoopWaits DEF Statement
<1>2. CASE Commit(Stream)
  BY <1>1, <1>2, StreamAnswer DEF EngineInv, Commit, Statement
<1>3. CASE ~Commit(Stream)
  BY <1>3 DEF Statement, Progress, AdjudicationAllows, AdjudicationDenies,
     BlankOrderEndsCall, RefuseBlankKey, LockOrder, Decide, AnswerDuplicate,
     RefuseDuplicateOfMissing, AnswerTerminal, AnswerRejected, RefuseProjection,
     AcceptTransition, WriteOrder, LosesInsertRace, dbVars
<1> QED BY <1>2, <1>3

\* To the loop, every step of the engine is a step of its own, a step of a caller,
\* or nothing.
LEMMA LoopSeesAtomicCalls ==
    ASSUME EngineInv, [EngineNext]_engineVars
    PROVE  [U!Next]_U!vars
<1> USE DEF U!vars, U!tables, streamVars, streamTables
<1>1. CASE LoopStep BY <1>1 DEF LoopStep, U!Next, U!Progress
<1>2. CASE UNCHANGED engineVars BY <1>2 DEF engineVars
<1>3. SUFFICES ASSUME EngineStep, lifecycle' = Lifecycle' PROVE [U!Next]_U!vars
  BY <1>1, <1>2 DEF EngineNext
<1>4. ASSUME UNCHANGED streamVars, UNCHANGED dbVars PROVE [U!Next]_U!vars
  BY <1>3, <1>4, NobodyMoves DEF EngineInv
<1>5. CASE CallLifecycle
  BY <1>4, <1>5 DEF CallLifecycle, ApplyVenueEvent, Begin, dbVars
<1>6. CASE Statement BY <1>4, <1>6, StatementsWriteNothing DEF Statement
<1>7. CASE CallReturns
  BY <1>3, <1>7, ReturnsMeanMoved DEF CallReturns, U!ApplyToOrder, U!Next, U!Progress
<1>8. CASE CallFails
  <2>1. lifecycle' = lifecycle BY <1>3, <1>8, ErrorsMeanUnmoved, NobodyMoves DEF EngineInv
  <2>2. loop = "apply" BY <1>8, LoopWaits DEF CallFails, Fault
  <2> QED BY <1>8, <2>1, <2>2 DEF CallFails, U!Halt, U!Next
<1>9. CASE CallReplyLost
  <2>1. Stream \in Sessions /\ loop = "apply" /\ pc[Stream] # "idle"
    BY <1>9, LoopWaits DEF CallReplyLost, Fault
  <2>2. pc[Stream] = "commit" /\ Apply(Stream)
    BY <1>9 DEF CallReplyLost, CommitReplyLost
  <2>3. /\ Current(Stream).order = current.order
        /\ Current(Stream).to = U!VenueState[current.status]
    BY <2>1, SameMoves DEF EngineInv, StreamInv
  <2>4. U!MoveOrder BY <1>3, <2>1, <2>2, <2>3, CommitMoves DEF EngineInv, U!MoveOrder
  <2> QED BY <1>9, <2>1, <2>4 DEF CallReplyLost, U!ApplyReplyLost, U!Next
<1>10. CASE EngineCrash
  <2>1. lifecycle' = lifecycle
    BY <1>3, <1>10, NobodyMoves DEF EngineCrash, Crash, EngineInv, dbVars
  <2>2. loop = "apply" BY <1>10, LoopWaits DEF EngineCrash, Fault
  <2> QED BY <1>10, <2>1, <2>2 DEF EngineCrash, U!Halt, U!Next
<1>11. ASSUME NEW s \in Sessions \ {Stream}, OtherSession(s) PROVE [U!Next]_U!vars
  <2>1. CASE UNCHANGED dbVars BY <1>4, <1>11, <2>1 DEF OtherSession
  <2>2. CASE ~UNCHANGED dbVars
    <3>1. Progress(s) \/ Fault(s)
      BY <1>11, <2>2 DEF OtherSession, Submit, Cancel, Begin, dbVars
    <3>2. pc[s] = "commit" /\ Apply(s)
      BY <2>2, <3>1, OnlyCommitsOfASession DEF Commit, CommitReplyLost
    <3>3. PICK c : c = Current(s) OBVIOUS
    <3>4. c.order \in Orders BY <3>2, <3>3, CommitSituation DEF EngineInv
    <3>5. c.to \in {"pending", "canceled"}
      <4>1. queue[s] \in Seq(Commands) /\ queue[s] # << >>
        BY <3>2 DEF EngineInv, Inv, TypeOK, SessionsOK
      <4>2. 1 \in 1..Len(queue[s]) /\ c = queue[s][1]
        BY <3>3, <4>1, EmptySeq, LenProperties, HeadTailProperties DEF Current
      <4> QED BY <4>2 DEF EngineInv, CallersInv, CallersCommand
    <3>6. lifecycle' = [lifecycle EXCEPT ![c.order] = U!MovesTo(@, c.to)]
      BY <1>3, <3>2, <3>3, CommitMoves DEF EngineInv
    <3>7. U!OrderCommand(c.order, c.to) BY <1>11, <3>6 DEF OtherSession, U!OrderCommand
    <3> QED BY <3>4, <3>5, <3>7 DEF U!Next
  <2> QED BY <2>1, <2>2
<1>12. CASE ChangeSafetyMode /\ UNCHANGED streamVars
  BY <1>4, <1>12 DEF ChangeSafetyMode, dbVars
<1> QED BY <1>3, <1>5, <1>6, <1>7, <1>8, <1>9, <1>10, <1>11, <1>12 DEF EngineStep

-----------------------------------------------------------------------------
(* The invariant is inductive.                                             *)

\* The loop and its session keep waiting for each other.
LEMMA NextKeepsStream ==
    ASSUME EngineInv, [EngineNext]_engineVars
    PROVE  StreamInv'
<1>0. Stream \in Sessions BY EngineAssumption
<1> USE DEF EngineInv
<1>1. CASE LoopStep
  <2>1. pc' = pc /\ queue' = queue /\ answers' = answers BY <1>1 DEF LoopStep, vars
  <2>2. ASSUME pc[Stream] # "idle" PROVE FALSE
    BY <1>1, <2>2 DEF StreamInv, LoopStep, U!Start, U!Connect, U!Authenticate, U!Subscribe,
       U!Receive, U!IgnoreMessage, U!StoreEvent, U!CollidingEventHalts, U!ClearBlock,
       U!LoseStream, U!Connecting
  <2> QED BY <2>1, <2>2 DEF StreamInv
<1>2. CASE CallLifecycle
  <2>1. current \in Messages /\ loop = "apply" BY <1>2, CurrentMessage DEF CallLifecycle
  <2>2. PICK q, mode : /\ Begin(Stream, VenueRequest(current), "load", q)
                       /\ q = <<[CommandsOf(VenueRequest(current))[1] EXCEPT !.mode = mode]>>
    BY <1>2 DEF CallLifecycle, ApplyVenueEvent
  <2>3. PICK c \in Commands : /\ c = CommandsOf(VenueRequest(current))[1]
                              /\ c.order = current.order /\ c.key = EventKey(current)
                              /\ c.to = VenueState[current.status]
    BY <2>1, VenueCommand
  <2>4. PICK d : d = [c EXCEPT !.mode = mode] OBVIOUS
  <2>5. d.order = c.order /\ d.key = c.key /\ d.to = c.to BY <2>4 DEF Commands
  <2>6. q = <<d>> /\ Len(q) = 1 /\ Head(q) = d BY <2>2, <2>3, <2>4
  <2>7. /\ pc'[Stream] = "load" /\ queue'[Stream] = q /\ answers'[Stream] = {}
        /\ loop' = loop /\ current' = current
    BY <1>0, <1>2, <2>2 DEF Begin, Inv, TypeOK, SessionsOK, CallLifecycle, streamVars
  <2>8. Current(Stream)' = d BY <2>6, <2>7 DEF Current
  <2> QED BY <2>1, <2>3, <2>5, <2>6, <2>7, <2>8 DEF StreamInv, EventKey
<1>3. CASE Statement
  <2>1. /\ pc[Stream] # "idle" /\ Progress(Stream) /\ pc'[Stream] # "idle"
        /\ loop' = loop /\ current' = current
    BY <1>3, LoopWaits DEF Statement, streamVars
  <2>2. ~\E outcome, to : Answer(Stream, outcome, to) BY <2>1, StreamAnswer
  <2>3. ~Finish(Stream) BY <1>0, <2>1 DEF Finish, Inv, TypeOK, SessionsOK
  <2>4. \/ LockOrder(Stream) \/ AcceptTransition(Stream) \/ WriteOrder(Stream)
        \/ AdjudicationAllows(Stream)
    BY <2>1, <2>2, <2>3 DEF Progress, AdjudicationDenies, BlankOrderEndsCall,
         RefuseBlankKey,
       Decide, AnswerDuplicate, RefuseDuplicateOfMissing, AnswerTerminal, AnswerRejected,
       RefuseProjection, LosesInsertRace, Commit
  <2>5. ~AdjudicationAllows(Stream) BY <2>1 DEF StreamInv, AdjudicationAllows
  <2>6. /\ queue' = queue /\ answers' = answers /\ pc'[Stream] # "adjudicate"
    BY <1>0, <2>4, <2>5 DEF LockOrder, AcceptTransition, WriteOrder, Inv, TypeOK, SessionsOK
  <2> QED BY <2>1, <2>6 DEF StreamInv, Current, EventKey
<1>4. CASE CallReturns \/ CallFails
  <2>1. pc[Stream] # "idle" /\ (Progress(Stream) \/ StatementFails(Stream))
    BY <1>4, LoopWaits DEF CallReturns, CallFails, Fault
  <2>2. answers'[Stream] # {} BY <1>4 DEF CallReturns, CallFails, Told
  <2>3. answers[Stream] = {} BY <2>1 DEF StreamInv
  <2>4. \/ Finish(Stream)
        \/ \E outcome, to : Answer(Stream, outcome, to)
    BY <1>0, <2>1, <2>2, <2>3 DEF Progress, AdjudicationAllows, AdjudicationDenies,
       BlankOrderEndsCall, RefuseBlankKey, LockOrder, Decide, AnswerDuplicate,
       RefuseDuplicateOfMissing, AnswerTerminal, AnswerRejected, RefuseProjection,
       AcceptTransition, WriteOrder, LosesInsertRace, Commit, StatementFails
  <2>5. pc'[Stream] = "idle"
    BY <1>0, <2>1, <2>4, StreamAnswer DEF Finish, Inv, TypeOK, SessionsOK
  <2> QED BY <2>5 DEF StreamInv
<1>5. CASE CallReplyLost
  <2>1. pc'[Stream] = "idle"
    BY <1>5, LoopWaits, StreamAnswer DEF CallReplyLost, CommitReplyLost, Fault
  <2> QED BY <2>1 DEF StreamInv
<1>6. CASE EngineCrash
  <2>1. pc'[Stream] = "idle"
    BY <1>0, <1>6 DEF EngineCrash, Crash, Finish, Inv, TypeOK, SessionsOK
  <2> QED BY <2>1 DEF StreamInv
<1>7. ASSUME pc'[Stream] = pc[Stream], queue'[Stream] = queue[Stream],
             answers'[Stream] = answers[Stream], UNCHANGED streamVars
      PROVE  StreamInv'
  BY <1>7 DEF StreamInv, Current, EventKey, streamVars
<1>8. CASE \E s \in Sessions \ {Stream} : OtherSession(s)
  <2>1. PICK s \in Sessions \ {Stream} : OtherSession(s) BY <1>8
  <2>2. Start(s) \/ Progress(s) \/ Fault(s) BY <2>1 DEF OtherSession, CallerRequests, Start
  <2> QED BY <1>0, <1>7, <2>1, <2>2, OthersUntouched DEF OtherSession
<1>9. CASE (ChangeSafetyMode /\ UNCHANGED streamVars) \/ UNCHANGED engineVars
  BY <1>7, <1>9 DEF ChangeSafetyMode, engineVars, vars
<1> QED BY <1>1, <1>2, <1>3, <1>4, <1>5, <1>6, <1>8, <1>9 DEF EngineNext, EngineStep

\* What another caller asks for is a submit or a cancel under a key of its own.
LEMMA CallersAsk ==
    ASSUME NEW r \in CallerRequests, NEW i \in 1..Len(CommandsOf(r))
    PROVE  CallersCommand(CommandsOf(r)[i])
<1>1. r \in Requests /\ r.kind # "venue" BY DEF CallerRequests
<1>2. r \in Request BY <1>1, ConstantsAssumption
<1>3. Len(r.items) \in Nat BY <1>2, LenProperties DEF Request
<1>4. i \in 1..Len(r.items) /\ CommandsOf(r)[i] = CommandOf(r, r.items[i])
  BY <1>3 DEF CommandsOf
<1>5. \A m \in Messages : KeyOf(r, r.items[i]) # EventKey(m) BY <1>4, EngineAssumption
<1>6. TargetOf(r) \in {"pending", "canceled"} BY <1>1 DEF TargetOf
<1> QED BY <1>4, <1>5, <1>6 DEF CallersCommand, CommandOf

\* The other sessions only ever run such commands.
LEMMA NextKeepsCallers ==
    ASSUME EngineInv, [EngineNext]_engineVars
    PROVE  CallersInv'
<1> USE DEF EngineInv
<1>1. CASE UNCHANGED queue
  BY <1>1 DEF CallersInv, CallersCommand, EventKey
<1>2. ASSUME NEW s \in Sessions \ {Stream},
             \A t \in Sessions \ {s} : queue'[t] = queue[t],
             \A i \in 1..Len(queue'[s]) : CallersCommand(queue'[s][i])
      PROVE  CallersInv'
  <2>1. ASSUME NEW t \in Sessions \ {Stream}, NEW i \in 1..Len(queue'[t])
        PROVE  CallersCommand(queue'[t][i])
    <3>1. CASE t = s BY <1>2, <2>1, <3>1
    <3>2. CASE t # s
      <4>1. queue'[t] = queue[t] BY <1>2, <3>2
      <4> QED BY <2>1, <4>1 DEF CallersInv
    <3> QED BY <3>1, <3>2
  <2> QED BY <2>1 DEF CallersInv, CallersCommand, EventKey
<1>3. ASSUME Start(Stream) \/ Progress(Stream) \/ Fault(Stream) PROVE CallersInv'
  <2>1. \A t \in Sessions \ {Stream} : queue'[t] = queue[t]
    BY <1>3, OthersUntouched, EngineAssumption
  <2>2. ASSUME NEW t \in Sessions \ {Stream}, NEW i \in 1..Len(queue'[t])
        PROVE  CallersCommand(queue'[t][i])
    BY <2>1, <2>2 DEF CallersInv
  <2> QED BY <2>2 DEF CallersInv, CallersCommand, EventKey
<1>4. ASSUME NEW s \in Sessions \ {Stream}, OtherSession(s) PROVE CallersInv'
  <2>1. Start(s) \/ Progress(s) \/ Fault(s) BY <1>4 DEF OtherSession, CallerRequests, Start
  <2>2. \A t \in Sessions \ {s} : queue'[t] = queue[t] BY <2>1, OthersUntouched
  <2>3. CASE Progress(s) \/ Fault(s)
    <3>1. ASSUME NEW i \in 1..Len(queue'[s]) PROVE CallersCommand(queue'[s][i])
      <4>1. PICK j \in 1..Len(queue[s]) : queue'[s][i] = queue[s][j]
        BY <2>3, <3>1, QueueShrinks
      <4> QED BY <4>1 DEF CallersInv
    <3> QED BY <1>2, <2>2, <3>1
  <2>4. CASE \E r \in CallerRequests : Submit(s, r) \/ Cancel(s, r)
    <3>1. PICK r \in CallerRequests : \E first : Begin(s, r, first, CommandsOf(r))
      BY <2>4 DEF Submit, Cancel
    <3>2. queue'[s] = CommandsOf(r) BY <3>1 DEF Begin, Inv, TypeOK, SessionsOK
    <3>3. \A i \in 1..Len(queue'[s]) : CallersCommand(queue'[s][i]) BY <3>2, CallersAsk
    <3> QED BY <1>2, <2>2, <3>3
  <2> QED BY <1>4, <2>3, <2>4 DEF OtherSession
<1>5. CASE CallLifecycle
  <2>1. VenueRequest(current) \in Requests BY <1>5, CurrentMessage DEF CallLifecycle
  <2> QED BY <1>3, <1>5, <2>1 DEF CallLifecycle, Start
<1>6. CASE Statement \/ CallReturns \/ CallFails \/ CallReplyLost \/ EngineCrash
  BY <1>3, <1>6 DEF Statement, CallReturns, CallFails, CallReplyLost, EngineCrash, Fault
<1>7. CASE LoopStep \/ (ChangeSafetyMode /\ UNCHANGED streamVars) \/ UNCHANGED engineVars
  BY <1>1, <1>7 DEF LoopStep, ChangeSafetyMode, engineVars, vars
<1> QED BY <1>4, <1>5, <1>6, <1>7 DEF EngineNext, EngineStep

\* What is said of the loop's variables of a history that nobody writes stays
\* true: nothing that was handed over is forgotten.
LEMMA HandedIsKept ==
    ASSUME EngineInv, [U!Next]_U!vars, NEW o \in Orders, NEW k \in 1..Len(handed[o])
    PROVE  k \in 1..Len(handed'[o]) /\ handed'[o][k] = handed[o][k]
<1>1. handed \in [Orders -> Seq(Messages)] BY DEF EngineInv, P!OrderInv, P!TypeOK
<1>2. CASE UNCHANGED handed BY <1>2
<1>3. CASE U!HandOver /\ loop = "apply"
  <2>1. current \in Messages /\ current.order \in Orders BY <1>3, CurrentMessage
  <2>2. handed' = [handed EXCEPT ![current.order] = Append(@, current)]
    BY <1>3 DEF U!HandOver
  <2>3. CASE o = current.order
    <3>1. PICK q \in Seq(Messages) : q = handed[o] BY <1>1
    <3>2. handed'[o] = Append(q, current) BY <1>1, <2>2, <2>3, <3>1
    <3>3. Len(q) \in Nat /\ Len(Append(q, current)) = Len(q) + 1
          /\ \A i \in 1..Len(q) : Append(q, current)[i] = q[i]
      BY <2>1, <3>1, AppendProperties, LenProperties
    <3> QED BY <3>1, <3>2, <3>3
  <2>4. CASE o # current.order BY <1>1, <2>2, <2>4
  <2> QED BY <2>3, <2>4
<1>4. CASE U!vars' = U!vars BY <1>2, <1>4 DEF U!vars
<1> QED BY <1>2, <1>3, <1>4 DEF U!Next, U!Progress, U!Start, U!Connect, U!Authenticate,
           U!Subscribe, U!Receive, U!IgnoreMessage, U!StoreEvent, U!CollidingEventHalts,
           U!ApplyToOrder, U!ApplyReplyLost, U!ClearBlock, U!LoseStream, U!Halt,
           U!OrderCommand, U!tables

\* What an entry with a venue's key tells.
EntryFollows(o, i) ==
    \A m \in Messages :
        transitions[o][i].key = EventKey(m) =>
            /\ m.order = o /\ transitions[o][i].to = VenueState[m.status]
            /\ \E k \in 1..Len(handed[o]) : handed[o][k] = m
            /\ \A j \in 1..(i - 1), n \in Messages :
                   transitions[o][j].key = EventKey(n) => U!Before(n, m)

\* An entry that was there before keeps telling it.
LEMMA EntryKept ==
    ASSUME EngineInv, [U!Next]_U!vars, NEW o \in Orders, NEW i \in 1..Len(transitions[o]),
           \A j \in 1..i : transitions'[o][j] = transitions[o][j]
    PROVE  EntryFollows(o, i)'
<1>1. EntryFollows(o, i)
  BY DEF EngineInv, VenueEntriesFollowTheStream, EntryFollows
<1>2. Len(transitions[o]) \in Nat BY LenProperties DEF EngineInv, Inv, TypeOK, TablesOK
<1>3. i \in 1..i /\ \A j \in 1..(i - 1) : j \in 1..i BY <1>2
<1>4. ASSUME NEW m \in Messages, transitions'[o][i].key = EventKey(m)
      PROVE  /\ m.order = o /\ transitions'[o][i].to = VenueState[m.status]
             /\ \E k \in 1..Len(handed'[o]) : handed'[o][k] = m
             /\ \A j \in 1..(i - 1), n \in Messages :
                    transitions'[o][j].key = EventKey(n) => U!Before(n, m)
  <2>1. /\ m.order = o /\ transitions[o][i].to = VenueState[m.status]
        /\ \E k \in 1..Len(handed[o]) : handed[o][k] = m
        /\ \A j \in 1..(i - 1), n \in Messages :
               transitions[o][j].key = EventKey(n) => U!Before(n, m)
    BY <1>1, <1>3, <1>4 DEF EntryFollows
  <2>2. \E k \in 1..Len(handed'[o]) : handed'[o][k] = m BY <2>1, HandedIsKept
  <2> QED BY <1>3, <2>1, <2>2
<1> QED BY <1>4 DEF EntryFollows, EventKey, U!Before

\* The entry a commit adds: the loop's tells of the event it hands over, which
\* comes after those handed over before; the others' have keys of their own.
LEMMA NewEntryFollows ==
    ASSUME EngineInv, [EngineNext]_engineVars, NEW s \in Sessions, pc[s] = "commit",
           Apply(s), NEW o, o = Current(s).order, s # Stream \/ (U!HandOver /\ loop = "apply"),
           NEW n \in Nat, n = Len(transitions[o])
    PROVE  EntryFollows(o, n + 1)'
<1>1. /\ Len(transitions'[o]) = n + 1
      /\ transitions'[o][n + 1] = NextTransition(s)
      /\ \A i \in 1..n : transitions'[o][i] = transitions[o][i]
      /\ o \in Orders
  BY CommitSituation, CommittedHistory DEF EngineInv
<1>2. NextTransition(s).key = Current(s).key /\ NextTransition(s).to = Current(s).to
  BY DEF NextTransition
<1>3. CASE s # Stream
  <2>1. queue[s] \in Seq(Commands) /\ queue[s] # << >>
    BY DEF EngineInv, Inv, TypeOK, SessionsOK
  <2>2. 1 \in 1..Len(queue[s]) /\ Current(s) = queue[s][1]
    BY <2>1, EmptySeq, LenProperties, HeadTailProperties DEF Current
  <2>3. \A m \in Messages : Current(s).key # EventKey(m)
    BY <1>3, <2>2 DEF EngineInv, CallersInv, CallersCommand
  <2> QED BY <1>1, <1>2, <2>3 DEF EntryFollows, EventKey
<1>4. CASE s = Stream
  <2>1. /\ current \in Messages /\ loop = "apply" /\ o = current.order
        /\ Current(s).key = EventKey(current) /\ Current(s).to = VenueState[current.status]
    BY <1>4, CurrentMessage DEF EngineInv, StreamInv
  <2>2. PICK q \in Seq(Messages) : q = handed[o]
    BY <1>1 DEF EngineInv, P!OrderInv, P!TypeOK
  <2>3. handed'[o] = Append(q, current)
    BY <1>1, <1>4, <2>1, <2>2 DEF U!HandOver, EngineInv, P!OrderInv, P!TypeOK
  <2>4. Len(q) + 1 \in 1..Len(handed'[o]) /\ handed'[o][Len(q) + 1] = current
    BY <2>1, <2>2, <2>3, AppendProperties, LenProperties
  <2>5. \A k \in 1..Len(q) : U!Before(q[k], current)
    <3>1. DOMAIN q = 1..Len(q) BY <2>2, LenProperties
    <3> QED BY <2>1, <2>2, <3>1
            DEF EngineInv, P!OrderInv, P!HandoverInv, P!Before, U!Before
  <2>6. ASSUME NEW m \in Messages, EventKey(current) = EventKey(m) PROVE m = current
    BY <2>1, <2>6, EngineAssumption DEF EventKey
  <2>7. ASSUME NEW j \in 1..n, NEW l \in Messages, transitions'[o][j].key = EventKey(l)
        PROVE  U!Before(l, current)
    <3>1. transitions[o][j].key = EventKey(l) /\ j \in 1..Len(transitions[o])
      BY <1>1, <2>7
    <3>2. \E k \in 1..Len(handed[o]) : handed[o][k] = l
      BY <1>1, <3>1 DEF EngineInv, VenueEntriesFollowTheStream
    <3> QED BY <2>2, <2>5, <3>2
  <2>8. (n + 1) - 1 = n OBVIOUS
  <2> HIDE DEF EventKey
  <2>9. ASSUME NEW m \in Messages, transitions'[o][n + 1].key = EventKey(m)
        PROVE  /\ m.order = o /\ transitions'[o][n + 1].to = VenueState[m.status]
               /\ \E k \in 1..Len(handed'[o]) : handed'[o][k] = m
               /\ \A j \in 1..((n + 1) - 1), l \in Messages :
                      transitions'[o][j].key = EventKey(l) => U!Before(l, m)
    <3>1. m = current BY <1>1, <1>2, <2>1, <2>6, <2>9
    <3>2. \E k \in 1..Len(handed'[o]) : handed'[o][k] = m BY <2>4, <3>1
    <3>3. m.order = o /\ transitions'[o][n + 1].to = VenueState[m.status]
      BY <1>1, <1>2, <2>1, <3>1
    <3> QED BY <2>7, <2>8, <3>1, <3>2, <3>3
  <2> QED BY <2>9 DEF EntryFollows, EventKey, U!Before
<1> QED BY <1>3, <1>4

\* The venue's entries keep following the stream.
LEMMA NextKeepsEntries ==
    ASSUME EngineInv, [EngineNext]_engineVars
    PROVE  VenueEntriesFollowTheStream'
<1>0. [Next]_vars /\ [U!Next]_U!vars BY EngineStepsLifecycle, LoopSeesAtomicCalls
<1>1. SUFFICES ASSUME NEW o \in Orders, NEW i \in 1..Len(transitions'[o])
               PROVE  EntryFollows(o, i)'
  BY DEF VenueEntriesFollowTheStream, EntryFollows
<1>2. CASE transitions'[o] = transitions[o] BY <1>0, <1>1, <1>2, EntryKept
<1>3. ASSUME NEW s \in Sessions, pc[s] = "commit", Apply(s), o = Current(s).order,
             s # Stream \/ (U!HandOver /\ loop = "apply")
      PROVE  EntryFollows(o, i)'
  <2>1. PICK n \in Nat : n = Len(transitions[o])
    BY <1>3, CommitSituation, LenProperties DEF EngineInv
  <2>2. Len(transitions'[o]) = n + 1 /\ \A j \in 1..n : transitions'[o][j] = transitions[o][j]
    BY <1>3, <2>1, CommittedHistory DEF EngineInv
  <2>3. CASE i = n + 1 BY <1>3, <2>1, <2>3, NewEntryFollows
  <2>4. CASE i # n + 1
    <3>1. i \in 1..Len(transitions[o]) /\ \A j \in 1..i : j \in 1..n BY <2>1, <2>2, <2>4
    <3> QED BY <1>0, <2>2, <3>1, EntryKept
  <2> QED BY <2>3, <2>4
<1>4. ASSUME NEW s \in Sessions, pc[s] = "commit", Apply(s), o # Current(s).order
      PROVE  EntryFollows(o, i)'
  BY <1>2, <1>4, CommittedHistory DEF EngineInv
<1>5. CASE UNCHANGED dbVars BY <1>2, <1>5 DEF dbVars
<1>6. ASSUME NEW s \in Sessions \ {Stream}, OtherSession(s) PROVE EntryFollows(o, i)'
  <2>1. UNCHANGED dbVars \/ (pc[s] = "commit" /\ Apply(s))
    BY <1>6, OnlyCommitsOfASession
       DEF OtherSession, Submit, Cancel, Begin, dbVars, Commit, CommitReplyLost
  <2> QED BY <1>3, <1>4, <1>5, <2>1
<1>7. CASE CallReturns \/ CallReplyLost
  <2>1. Stream \in Sessions /\ loop = "apply" /\ U!HandOver
    BY <1>7, LoopWaits DEF CallReturns, CallReplyLost, Fault
  <2>2. UNCHANGED dbVars \/ (pc[Stream] = "commit" /\ Apply(Stream))
    BY <1>7, OnlyCommitsOfASession DEF CallReturns, CallReplyLost, Fault, Commit,
         CommitReplyLost
  <2> QED BY <1>3, <1>4, <1>5, <2>1, <2>2
<1>8. CASE Statement \/ CallFails
  BY <1>5, <1>8, StatementsWriteNothing, ErrorsMeanUnmoved
<1>9. CASE LoopStep \/ CallLifecycle \/ EngineCrash \/ UNCHANGED engineVars
           \/ (ChangeSafetyMode /\ UNCHANGED streamVars)
  BY <1>5, <1>9 DEF LoopStep, CallLifecycle, ApplyVenueEvent, Begin, EngineCrash, Crash,
     ChangeSafetyMode, engineVars, vars, dbVars
<1> QED BY <1>6, <1>7, <1>8, <1>9 DEF EngineNext, EngineStep

\* The engine starts with empty tables and the loop down.
LEMMA EngineInitEstablishesInv == EngineInit => EngineInv
<1> SUFFICES ASSUME EngineInit PROVE EngineInv OBVIOUS
<1>1. Inv BY InitEstablishesInv DEF EngineInit
<1>2. P!OrderInv BY SameStart, StreamAssumptions, P!OrderInit DEF EngineInit
<1>3. lifecycle = Lifecycle BY DEF EngineInit, Init, U!Init, Lifecycle, StateOf
<1>4. StreamInv BY EngineAssumption DEF EngineInit, Init, StreamInv
<1>5. CallersInv BY EmptySeq DEF EngineInit, Init, CallersInv
<1>6. VenueEntriesFollowTheStream
  BY EmptySeq DEF EngineInit, Init, VenueEntriesFollowTheStream
<1> QED BY <1>1, <1>2, <1>3, <1>4, <1>5, <1>6 DEF EngineInv

\* Every step of the engine keeps its invariant.
LEMMA NextKeepsEngineInv ==
    ASSUME EngineInv, [EngineNext]_engineVars
    PROVE  EngineInv'
<1>1. Inv'
  <2>1. Inv /\ [Next]_vars BY EngineStepsLifecycle DEF EngineInv
  <2>2. TypeOK' BY <2>1, NextKeepsTypes DEF Inv
  <2> QED BY <2>1, <2>2, NextKeepsInv
<1>2. P!OrderInv'
  <2>1. [P!Next]_P!vars BY LoopSeesAtomicCalls, SameNext DEF U!vars, P!vars
  <2> QED BY <2>1, StreamAssumptions, P!OrderStep DEF EngineInv
<1>3. lifecycle' = Lifecycle'
  <2>1. CASE LoopStep
    <3>1. lifecycle' = lifecycle
      BY <2>1 DEF LoopStep, U!Start, U!Connect, U!Authenticate, U!Subscribe, U!Receive,
         U!IgnoreMessage, U!StoreEvent, U!CollidingEventHalts, U!ClearBlock, U!LoseStream,
         U!Halt, U!tables
    <3> QED BY <2>1, <3>1 DEF EngineInv, LoopStep, vars, Lifecycle, StateOf
  <2>2. CASE UNCHANGED engineVars
    BY <2>2 DEF EngineInv, engineVars, vars, Lifecycle, StateOf
  <2> QED BY <2>1, <2>2 DEF EngineNext
<1> QED
  BY <1>1, <1>2, <1>3, NextKeepsStream, NextKeepsCallers, NextKeepsEntries DEF EngineInv

\* So it holds in every run.
LEMMA EngineInvIsInvariant == EngineSpec => []EngineInv
<1> QED BY EngineInitEstablishesInv, NextKeepsEngineInv, PTL DEF EngineSpec

-----------------------------------------------------------------------------
(* The engine.                                                             *)

\* With its user stream the engine is the order lifecycle still: what is proved of
\* that for any callers' requests holds of the venue's events among them.
THEOREM EngineImplementsLifecycle == EngineSpec => Spec
<1>1. EngineInit => Init BY DEF EngineInit
<1>2. EngineInv /\ [EngineNext]_engineVars => [Next]_vars BY EngineStepsLifecycle
<1> QED BY <1>1, <1>2, EngineInvIsInvariant, PTL DEF EngineSpec, Spec

\* In the engine no key is applied twice, and row and history agree.
COROLLARY EngineTablesStayConsistent == EngineSpec => []TablesConsistent
BY EngineImplementsLifecycle, TablesStayConsistent, PTL

\* For every set of sessions, requests and messages: to the loop of the user stream
\* a call of the order lifecycle is the one step UserStream takes it for.
THEOREM TheLoopSeesAtomicCalls == EngineSpec => LifecycleLooksAtomic
<1>1. EngineInit => U!Init BY DEF EngineInit
<1>2. EngineInv /\ [EngineNext]_engineVars => [U!Next]_U!vars BY LoopSeesAtomicCalls
<1> QED
  BY <1>1, <1>2, EngineInvIsInvariant, PTL DEF EngineSpec, LifecycleLooksAtomic, U!Spec

\* The venue's entries in the ledger are events handed over, in their order.
THEOREM EventsReachTheLedgerInOrder == EngineSpec => []VenueEntriesFollowTheStream
<1>1. EngineInv => VenueEntriesFollowTheStream BY DEF EngineInv
<1> QED BY <1>1, EngineInvIsInvariant, PTL

\* What is proved of the loop alone is so of the engine: each event is stored and
\* handed over once and in order, the block outlives every restart, and it is cleared
\* by an event stored after the stream was authenticated again.
COROLLARY TheStreamKeepsItsPromises ==
    EngineSpec => /\ [](P!EachEventOnceInOrder /\ P!MemoryMatchesBlock)
                  /\ P!UnblocksAfterRecoveryEvent
<1>1. EngineSpec => P!Spec
  <2>1. U!Init => P!Init BY SameStart
  <2>2. [U!Next]_U!vars => [P!Next]_P!vars BY SameNext DEF U!vars, P!vars
  <2> QED BY <2>1, <2>2, TheLoopSeesAtomicCalls, PTL DEF LifecycleLooksAtomic, U!Spec, P!Spec
<1>2. P!Spec => []P!EachEventOnceInOrder BY P!EventsKeepOrder, StreamAssumptions
<1>3. P!Spec => []P!MemoryMatchesBlock BY P!BlockIsDurable, StreamAssumptions
<1>4. P!Spec => P!UnblocksAfterRecoveryEvent BY P!RecoveryNeedsAnEvent, StreamAssumptions
<1> QED BY <1>1, <1>2, <1>3, <1>4, PTL
=============================================================================
