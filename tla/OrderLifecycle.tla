--------------------------- MODULE OrderLifecycle ---------------------------
(***************************************************************************)
(* The execution engine's order lifecycle: OrderLifecycleRuntime           *)
(* (services/execution-engine/src/orders/mod.rs) over                      *)
(* persist_order_transition (crates/persistence/src/postgres/orders.rs).   *)
(*                                                                         *)
(* Several sessions (concurrent calls of the runtime, in one or more       *)
(* processes) issue submits, cancels, batch cancels and venue updates.     *)
(* Each command runs one READ COMMITTED transaction, statement by          *)
(* statement: SELECT the order FOR UPDATE (which locks the row only when   *)
(* there is one), SELECT the transition with the command's key, decide,    *)
(* write the order and its transition, commit.  Statements of different    *)
(* sessions interleave; any of them may fail, the reply to a commit may be *)
(* lost, and a session may crash at any point.                             *)
(***************************************************************************)
EXTENDS OrderStates, Naturals, Sequences

CONSTANTS
    Markets,    \* market ids
    Times,      \* requested_at / observed_at timestamps, a set of naturals
    RawKeys,    \* idempotency keys as callers spell them
    Fold,       \* the spelling after trim().to_ascii_lowercase()
    Blank,      \* the empty string, as a key or an order id
    Sessions,   \* concurrent calls of the runtime
    Requests,   \* the calls the callers may make
    SafetyModes \* what the emergency mode port may answer

Modes == {"limit", "reduce_only"}
Kinds == {"submit", "cancel", "batch", "cancel_all", "venue"}

Items == [order: Orders \cup {Blank}, raw: RawKeys \cup {Absent}, mode: Modes]

Request == [kind: Kinds, items: Seq(Items), batch: RawKeys,
            market: Markets, at: Times, status: VenueStatuses]

ASSUME ConstantsAssumption ==
    /\ Blank \notin Orders
    /\ Absent \notin RawKeys
    /\ Times \subseteq Nat
    /\ Fold \in [RawKeys -> RawKeys]
    /\ Requests \subseteq Request
    /\ \A r \in Requests :
        /\ r.items # << >>
        /\ r.kind \in {"submit", "cancel", "venue"} =>
              Len(r.items) = 1 /\ r.items[1].raw # Absent
        /\ r.kind = "cancel_all" =>
              \A i \in 1..Len(r.items) : r.items[i].raw = Absent
    /\ SafetyModes # {}
    /\ SafetyModes \subseteq {"none", "normal", "paused", "reduce_only"}

VARIABLES
    orders,      \* table orders: order id -> row or Absent
    transitions, \* table order_state_transitions, per order in sequence order
    safetyMode,  \* current effective emergency mode ("none": no row)
    pc,          \* where each session is
    call,        \* the call a session is serving
    queue,       \* its commands still to run, the current one first
    seen,        \* row the transaction read FOR UPDATE
    answers      \* what the session's caller has been told so far

dbVars == <<orders, transitions>>
vars == <<orders, transitions, safetyMode, pc, call, queue, seen, answers>>

Keys == {"submit", "cancel", "batch-cancel", "emergency-cancel-all", "raw"}
            \X RawKeys \X (Times \cup {0})

Commands == [order: Orders \cup {Blank}, market: Markets, mode: Modes,
             to: States, key: Keys, at: Times]

Rows == [market: Markets, mode: Modes, state: States, seq: Nat,
         cancelKey: Keys \cup {Absent}, created: Times, updated: Times]

ASSUME AbsentAssumption == Absent \notin Rows

Transition == [from: States \cup {"none"}, to: States, key: Keys,
               market: Markets, mode: Modes, at: Times, seq: Nat]

-----------------------------------------------------------------------------
(* Commands.                                                               *)

\* A caller's key, or the default of its kind when it is blank.
KeyOr(default, raw) ==
    IF Fold[raw] = Blank THEN <<default, Blank, 0>> ELSE <<"raw", Fold[raw], 0>>

KeyOf(r, item) ==
    IF r.kind \in {"submit", "cancel"} THEN KeyOr(r.kind, item.raw)
    ELSE IF item.raw # Absent THEN <<"raw", Fold[item.raw], 0>>
    ELSE IF r.kind = "batch" THEN <<"batch-cancel", Fold[r.batch], 0>>
    ELSE <<"emergency-cancel-all", Fold[r.batch], r.at>>

TargetOf(r) ==
    CASE r.kind = "submit" -> "pending"
      [] r.kind = "venue"  -> VenueState[r.status]
      [] OTHER             -> "canceled"

CommandOf(r, item) ==
    [order |-> item.order, market |-> r.market, mode |-> item.mode,
     to |-> TargetOf(r), key |-> KeyOf(r, item), at |-> r.at]

CommandsOf(r) == [i \in 1..Len(r.items) |-> CommandOf(r, r.items[i])]

Current(s) == Head(queue[s])

StateOf(o) == IF orders[o] = Absent THEN "none" ELSE orders[o].state

\* A session owns the row it read FOR UPDATE until its transaction ends.
InTransaction == {"check", "write", "commit"}

HoldsNothing(s, o) == FALSE    \* mutant: a plain SELECT

HoldsUntilCallEnds(s, o) ==    \* mutant: one transaction for a whole batch
    /\ pc[s] # "idle"
    /\ \E i \in 1..Len(call[s].items) :
        /\ call[s].items[i].order = o
        /\ i <= Len(call[s].items) - Len(queue[s])
                + IF pc[s] \in InTransaction THEN 1 ELSE 0

Holds(s, o) ==
    pc[s] \in InTransaction /\ seen[s] # Absent /\ Current(s).order = o

\* An uncommitted INSERT of a new order, which the primary key makes others
\* wait for although they cannot see it.
Inserting(s, o) ==
    pc[s] = "commit" /\ seen[s] = Absent /\ Current(s).order = o

\* enforce_emergency_mode_for_submit; no effective mode denies.
Admits(mode, orderMode) ==
    mode = "normal" \/ (mode = "reduce_only" /\ orderMode = "reduce_only")

-----------------------------------------------------------------------------
(* Starting a call.                                                        *)

Init ==
    /\ orders = [o \in Orders |-> Absent]
    /\ transitions = [o \in Orders |-> << >>]
    /\ safetyMode \in SafetyModes
    /\ pc = [s \in Sessions |-> "idle"]
    /\ call = [s \in Sessions |-> Absent]
    /\ queue = [s \in Sessions |-> << >>]
    /\ seen = [s \in Sessions |-> Absent]
    /\ answers = [s \in Sessions |-> {}]

\* The emergency mode is changed by the governance service at any time.
ChangeSafetyMode ==
    /\ safetyMode' \in SafetyModes \ {safetyMode}
    /\ UNCHANGED <<orders, transitions, pc, call, queue, seen, answers>>

\* Begin serving r at step `first` with `commands`.
Begin(s, r, first, commands) ==
    /\ pc[s] = "idle"
    /\ pc' = [pc EXCEPT ![s] = first]
    /\ call' = [call EXCEPT ![s] = r]
    /\ queue' = [queue EXCEPT ![s] = commands]
    /\ answers' = [answers EXCEPT ![s] = {}]
    /\ UNCHANGED <<orders, transitions, safetyMode, seen>>

\* submit_order: the emergency mode is read first, in a statement of its own.
Submit(s, r) ==
    /\ r.kind = "submit"
    /\ Admits(safetyMode, r.items[1].mode)
    /\ Begin(s, r, "adjudicate", CommandsOf(r))

\* cancel_order, batch_cancel and cancel_all_orders run no gate.
Cancel(s, r) ==
    /\ r.kind \in {"cancel", "batch", "cancel_all"}
    /\ Begin(s, r, "load", CommandsOf(r))

\* apply_user_stream_event: the mode of the command is the one of the order as
\* read before the transaction, `limit` for an order not known yet.
ApplyVenueEvent(s, r) ==
    LET c == CommandsOf(r)[1]
        mode == IF c.order \in Orders /\ orders[c.order] # Absent
                THEN orders[c.order].mode ELSE "limit"
    IN /\ r.kind = "venue"
       /\ c.order # Blank
       /\ Begin(s, r, "load", <<[c EXCEPT !.mode = mode]>>)

\* adjudicate_submit_order_request.  A port error, a timeout, a deny, an allow
\* above the size cap and an allow without the pass reason code all deny the
\* submit; only what is left goes on to persistence.
Decisions == [allowed: BOOLEAN, withinCap: BOOLEAN, passCode: BOOLEAN]

Passes(d) == d.allowed /\ d.withinCap /\ d.passCode

AdjudicationAllows(s) ==
    /\ pc[s] = "adjudicate"
    /\ \E d \in Decisions : Passes(d)
    /\ pc' = [pc EXCEPT ![s] = "load"]
    /\ UNCHANGED <<orders, transitions, safetyMode, call, queue, seen, answers>>

-----------------------------------------------------------------------------
(* Ending a call, or one command of a batch.                               *)

Finish(s) ==
    /\ pc' = [pc EXCEPT ![s] = "idle"]
    /\ call' = [call EXCEPT ![s] = Absent]
    /\ queue' = [queue EXCEPT ![s] = << >>]
    /\ seen' = [seen EXCEPT ![s] = Absent]

NoCommandLeft(s) == queue[s] = << >>    \* mutant: off by one

LastCommand(s) == Len(queue[s]) = 1

\* Tell the caller the outcome of the current command and take the next one
\* of a batch.  `to` is the state the reply carries.
Answer(s, outcome, to) ==
    /\ answers' = [answers EXCEPT ![s] = @ \cup
           {[order |-> Current(s).order, key |-> Current(s).key, kind |-> call[s].kind,
             outcome |-> outcome, to |-> to]}]
    /\ IF LastCommand(s)
       THEN Finish(s)
       ELSE /\ pc' = [pc EXCEPT ![s] = "load"]
            /\ queue' = [queue EXCEPT ![s] = Tail(@)]
            /\ seen' = [seen EXCEPT ![s] = Absent]
            /\ UNCHANGED call
    /\ UNCHANGED safetyMode

AdjudicationDenies(s) ==
    /\ pc[s] = "adjudicate"
    /\ \E d \in Decisions : ~Passes(d)
    /\ Finish(s)
    /\ UNCHANGED <<orders, transitions, safetyMode, answers>>

\* A blank order id is an error of the whole call: in a batch it also drops the
\* report on the orders before it, which stay canceled.
BlankOrderEndsCall(s) ==
    /\ pc[s] = "load" /\ Current(s).order = Blank
    /\ Finish(s)
    /\ answers' = [answers EXCEPT ![s] = {}]
    /\ UNCHANGED <<orders, transitions, safetyMode>>

\* A statement fails (pool, connection, server): the transaction rolls back and
\* the caller is told to retry.
StatementFails(s) ==
    /\ pc[s] \in {"load"} \cup InTransaction
    /\ Current(s).order # Blank
    /\ Answer(s, "retryable", "none")
    /\ UNCHANGED dbVars

\* The process dies: open transactions roll back, nobody is told anything.
Crash(s) ==
    /\ pc[s] # "idle"
    /\ Finish(s)
    /\ answers' = [answers EXCEPT ![s] = {}]
    /\ UNCHANGED <<orders, transitions, safetyMode>>

-----------------------------------------------------------------------------
(* persist_with_telemetry and persist_order_transition.                    *)

\* validate_transition_command refuses a blank key before the transaction.
RefuseBlankKey(s) ==
    /\ pc[s] = "load"
    /\ Current(s).order # Blank
    /\ Current(s).key = <<"raw", Blank, 0>>
    /\ Answer(s, "hard", "none")
    /\ UNCHANGED dbVars

\* SELECT ... FOR UPDATE waits for the row's owner, then reads the row as
\* committed; there is no row to lock for an order not created yet.  (The read
\* of the order persist_with_telemetry makes before it only feeds from_state of
\* the reply and of the telemetry, and is left out.)
LockOrder(s) ==
    /\ pc[s] = "load"
    /\ Current(s).order # Blank
    /\ Current(s).key # <<"raw", Blank, 0>>
    /\ \A t \in Sessions \ {s} : ~Holds(t, Current(s).order)
    /\ seen' = [seen EXCEPT ![s] = orders[Current(s).order]]
    /\ pc' = [pc EXCEPT ![s] = "check"]
    /\ UNCHANGED <<orders, transitions, safetyMode, call, queue, answers>>

\* SELECT by idempotency key, a statement with a snapshot of its own.
KeyRecorded(o, key) == \E i \in 1..Len(transitions[o]) : transitions[o][i].key = key

\* Mutant: only the key that created the order is compared.
DuplicatesCreation(s) ==
    transitions[Current(s).order] # << >>
        /\ transitions[Current(s).order][1].key = Current(s).key

IsDuplicate(s) == KeyRecorded(Current(s).order, Current(s).key)

AnswerDuplicate(s) ==
    /\ pc[s] = "check" /\ IsDuplicate(s)
    /\ seen[s] # Absent
    /\ Answer(s, "duplicate", seen[s].state)
    /\ UNCHANGED dbVars

\* The order was created by another session between the two SELECTs.
RefuseDuplicateOfMissing(s) ==
    /\ pc[s] = "check" /\ IsDuplicate(s)
    /\ seen[s] = Absent
    /\ Answer(s, "hard", "none")
    /\ UNCHANGED dbVars

AnswerTerminal(s) ==
    /\ pc[s] = "check" /\ ~IsDuplicate(s)
    /\ seen[s] # Absent /\ seen[s].state \in Terminal
    /\ Answer(s, "already_terminal", seen[s].state)
    /\ UNCHANGED dbVars

AnswerRejected(s) ==
    /\ pc[s] = "check" /\ ~IsDuplicate(s)
    /\ seen[s] # Absent /\ seen[s].state \notin Terminal
    /\ ~MayMove(seen[s].state, Current(s).to)
    /\ Answer(s, "rejected", seen[s].state)
    /\ UNCHANGED dbVars

\* project_follow_up_transition and validate_order_record: the command must be
\* for the order's market and mode, and not before its creation.
ProjectsAnyMode(row, c) == c.market = row.market /\ c.at >= row.created    \* mutant

Projects(row, c) ==
    c.market = row.market /\ c.mode = row.mode /\ c.at >= row.created

AnythingButPending(s) ==    \* mutant: no transition table
    seen[s] # Absent => seen[s].state \notin Terminal /\ Current(s).to # "pending"

MovesOn(s) ==
    seen[s] # Absent => MayMove(seen[s].state, Current(s).to)

RefuseProjection(s) ==
    /\ pc[s] = "check" /\ ~IsDuplicate(s) /\ MovesOn(s)
    /\ seen[s] # Absent /\ ~Projects(seen[s], Current(s))
    /\ Answer(s, "hard", "none")
    /\ UNCHANGED dbVars

AcceptTransition(s) ==
    /\ pc[s] = "check" /\ ~IsDuplicate(s) /\ MovesOn(s)
    /\ seen[s] # Absent => Projects(seen[s], Current(s))
    /\ pc' = [pc EXCEPT ![s] = "write"]
    /\ UNCHANGED <<orders, transitions, safetyMode, call, queue, seen, answers>>

\* project_initial_transition and project_follow_up_transition.
KeptCancelKey(s) == IF seen[s] = Absent THEN Absent ELSE seen[s].cancelKey    \* mutant

NextCancelKey(s) ==
    IF Current(s).to = "canceled" THEN Current(s).key
    ELSE IF seen[s] = Absent THEN Absent ELSE seen[s].cancelKey

NextSeq(s) == IF seen[s] = Absent THEN 1 ELSE seen[s].seq + 1

NextRow(s) ==
    LET c == Current(s)
    IN [market |-> c.market, mode |-> c.mode, state |-> c.to, seq |-> NextSeq(s),
        cancelKey |-> NextCancelKey(s),
        created |-> IF seen[s] = Absent THEN c.at ELSE seen[s].created,
        updated |-> c.at]

\* Mutant: the creating transition takes the default submission key.
DefaultKeyTransition(s) ==
    LET c == Current(s)
    IN [from |-> IF seen[s] = Absent THEN "none" ELSE seen[s].state, to |-> c.to,
        key |-> IF seen[s] = Absent THEN <<"submit", Blank, 0>> ELSE c.key,
        market |-> c.market, mode |-> c.mode, at |-> c.at, seq |-> NextSeq(s)]

NextTransition(s) ==
    LET c == Current(s)
    IN [from |-> IF seen[s] = Absent THEN "none" ELSE seen[s].state, to |-> c.to,
        key |-> c.key, market |-> c.market, mode |-> c.mode, at |-> c.at,
        seq |-> NextSeq(s)]

\* The INSERT of an order waits for an uncommitted INSERT of the same order and
\* fails on the primary key once that one is committed.  What is written stays
\* invisible to others until the commit.
WriteOrder(s) ==
    /\ pc[s] = "write"
    /\ \/ seen[s] # Absent
       \/ /\ \A t \in Sessions \ {s} : ~Inserting(t, Current(s).order)
          /\ orders[Current(s).order] = Absent
    /\ pc' = [pc EXCEPT ![s] = "commit"]
    /\ UNCHANGED <<orders, transitions, safetyMode, call, queue, seen, answers>>

LosesInsertRace(s) ==
    /\ pc[s] = "write" /\ seen[s] = Absent
    /\ orders[Current(s).order] # Absent
    /\ Answer(s, "retryable", "none")
    /\ UNCHANGED dbVars

Apply(s) ==
    LET o == Current(s).order
    IN /\ orders' = [orders EXCEPT ![o] = NextRow(s)]
       /\ transitions' = [transitions EXCEPT ![o] = Append(@, NextTransition(s))]

Commit(s) ==
    /\ pc[s] = "commit"
    /\ Apply(s)
    /\ Answer(s, "applied", Current(s).to)

\* The commit took effect but its reply is lost: the caller sees a failure.
CommitReplyLost(s) ==
    /\ pc[s] = "commit"
    /\ Apply(s)
    /\ Answer(s, "retryable", "none")

\* How batch_cancel reports the outcome of one order.
TerminalIsCanceled(outcome) ==    \* mutant
    CASE outcome \in {"applied", "duplicate", "already_terminal"} -> "canceled"
      [] outcome = "retryable" -> "retryable_failure"
      [] OTHER -> "hard_failure"

BatchOutcome(outcome) ==
    CASE outcome \in {"applied", "duplicate"} -> "canceled"
      [] outcome = "already_terminal"         -> "already_terminal"
      [] outcome = "retryable"                -> "retryable_failure"
      [] OTHER                                -> "hard_failure"

-----------------------------------------------------------------------------
Decide(s) ==
    \/ AnswerDuplicate(s)
    \/ RefuseDuplicateOfMissing(s)
    \/ AnswerTerminal(s)
    \/ AnswerRejected(s)
    \/ RefuseProjection(s)
    \/ AcceptTransition(s)

\* What a session does once it has started, with the database answering.
Progress(s) ==
    \/ AdjudicationAllows(s)
    \/ AdjudicationDenies(s)
    \/ BlankOrderEndsCall(s)
    \/ RefuseBlankKey(s)
    \/ LockOrder(s)
    \/ Decide(s)
    \/ WriteOrder(s)
    \/ LosesInsertRace(s)
    \/ Commit(s)

Fault(s) ==
    \/ StatementFails(s)
    \/ CommitReplyLost(s)
    \/ Crash(s)

Start(s) == \E r \in Requests : Submit(s, r) \/ Cancel(s, r) \/ ApplyVenueEvent(s, r)

Next ==
    \/ \E s \in Sessions : Start(s) \/ Progress(s) \/ Fault(s)
    \/ ChangeSafetyMode

Spec == Init /\ [][Next]_vars

\* A started call keeps running (the tokio runtime polls it), and a statement
\* that waits for another transaction is served after it ends: PostgreSQL queues
\* lock waiters, hence strong fairness.  Callers and faults are not fair.
FairSpec == Spec /\ \A s \in Sessions : SF_vars(Progress(s))
-----------------------------------------------------------------------------
(* Properties.                                                             *)

Answers == [order: Orders, key: Keys, kind: Kinds,
            to: States \cup {"none"},
            outcome: {"applied", "duplicate", "already_terminal", "rejected",
                      "retryable", "hard"}]

TablesOK ==
    /\ orders \in [Orders -> Rows \cup {Absent}]
    /\ transitions \in [Orders -> Seq(Transition)]
    /\ safetyMode \in SafetyModes

SessionsOK ==
    /\ pc \in [Sessions -> {"idle", "adjudicate", "load"} \cup InTransaction]
    /\ call \in [Sessions -> Requests \cup {Absent}]
    /\ queue \in [Sessions -> Seq(Commands)]
    /\ seen \in [Sessions -> Rows \cup {Absent}]
    /\ answers \in [Sessions -> SUBSET Answers]
    /\ \A s \in Sessions : pc[s] # "idle" => call[s] \in Requests /\ queue[s] # << >>
    /\ \A s \in Sessions : pc[s] \in InTransaction => Current(s).order \in Orders

\* The tables hold well-formed rows, a session in a call has a current command,
\* and a session in a transaction works on an order.
TypeOK == TablesOK /\ SessionsOK

\* The orders row is always the summary of the order's history: the state,
\* sequence, times and keys the two writes of a transaction leave agree, for
\* any interleaving of transactions, lost replies and crashes.
ProjectionMatchesLedger ==
    \A o \in Orders :
        LET row == orders[o]
            h == transitions[o]
            last == h[Len(h)]
        IN IF row = Absent THEN h = << >>
           ELSE /\ h # << >>
                /\ row.state = last.to /\ row.seq = Len(h) /\ row.updated = last.at
                /\ row.created = h[1].at /\ row.updated >= row.created
                /\ row.cancelKey = (IF last.to = "canceled" THEN last.key ELSE Absent)

\* Replaying an order's history gives a run of the state machine of order.rs:
\* contiguous sequence numbers, each entry leaving the state the previous one
\* entered by a move that the code allows, in the order's own market and mode.
\* The code also allows to enter `pending` and `live` again, which the operations
\* guide does not: see FollowsTheGuardrails.
LegalHistory ==
    \A o \in Orders :
        LET h == transitions[o]
        IN \A i \in 1..Len(h) :
            /\ h[i].seq = i
            /\ h[i].market = orders[o].market /\ h[i].mode = orders[o].mode
            /\ IF i = 1 THEN h[i].from = "none"
               ELSE h[i].from = h[i - 1].to /\ MayMove(h[i].from, h[i].to)

\* A key is applied to an order at most once, whatever retries, lost replies
\* and concurrent callers do.
KeysUnique ==
    \A o \in Orders : \A i, j \in 1..Len(transitions[o]) :
        transitions[o][i].key = transitions[o][j].key => i = j

\* Each order's row and its history agree, and the history is a run of the state
\* machine of order.rs, repeats of a state included, in which every key acts once.
TablesConsistent == ProjectionMatchesLedger /\ LegalHistory /\ KeysUnique

\* What a transaction has decided on stays true until it commits: the row it
\* read is the current row and no one else's, the key it checked is still free,
\* the move still allowed, and no one else is creating the order it creates.
DecisionsStillHold ==
    \A s \in Sessions : pc[s] \in InTransaction =>
        LET c == Current(s)
        IN /\ seen[s] # Absent =>
                /\ orders[c.order] = seen[s]
                /\ \A t \in Sessions \ {s} : ~Holds(t, c.order)
           /\ pc[s] # "check" /\ seen[s] # Absent =>
                /\ ~KeyRecorded(c.order, c.key)
                /\ MayMove(seen[s].state, c.to) /\ Projects(seen[s], c)
           /\ pc[s] = "commit" /\ seen[s] = Absent =>
                /\ orders[c.order] = Absent
                /\ \A t \in Sessions \ {s} : ~Inserting(t, c.order)

\* A caller told `applied` or `duplicate` can rely on the key being recorded,
\* one told `already_terminal` on the order resting in the state reported.
AnswersHold ==
    \A s \in Sessions : \A a \in answers[s] :
        /\ a.outcome \in {"applied", "duplicate"} => KeyRecorded(a.order, a.key)
        /\ a.outcome = "already_terminal" =>
              StateOf(a.order) = a.to /\ a.to \in Terminal

\* A batch report is true: an order reported canceled is canceled, one reported
\* already terminal is terminal.  (For keys no caller uses for another purpose:
\* a duplicate is reported canceled whatever its key was used for.)
CancelKeyOnly(o, key) ==
    \A r \in Requests : TargetOf(r) # "canceled" =>
        \A i \in 1..Len(r.items) : r.items[i].order = o => KeyOf(r, r.items[i]) # key

BatchReportsAreTrue ==
    \A s \in Sessions : \A a \in answers[s] :
        a.kind \in {"batch", "cancel_all"} /\ CancelKeyOnly(a.order, a.key) =>
            /\ BatchOutcome(a.outcome) = "canceled" => StateOf(a.order) = "canceled"
            /\ BatchOutcome(a.outcome) = "already_terminal" => StateOf(a.order) \in Terminal

\* What callers are told, of single commands and in batch reports, stays true.
AnswersAreTrue == AnswersHold /\ BatchReportsAreTrue

\* Filled, canceled and expired orders are never touched again, not even by a
\* session that read them before they became terminal.
TerminalIsFinal ==
    [][\A o \in Orders : StateOf(o) \in Terminal =>
            orders'[o] = orders[o] /\ transitions'[o] = transitions[o]]_vars

\* The histories are an OrderLedger.
Ledger == INSTANCE OrderLedger WITH ledger <- transitions

LedgerSpec == Ledger!Spec

\* docs/operations/order-lifecycle-handling.md: "Deterministic transition
\* guardrails: 1. `pending -> live|canceled|expired` 2. `live ->
\* partially_filled|filled|canceled|expired` 3. `partially_filled ->
\* partially_filled|filled|canceled|expired`".  Every move of a history is one of
\* these, so of all states only `partially_filled` is ever entered again.
Guardrails ==
    [pending          |-> {"live", "canceled", "expired"},
     live             |-> {"partially_filled"} \cup Terminal,
     partially_filled |-> {"partially_filled"} \cup Terminal]

FollowsTheGuardrails ==
    \A o \in Orders : \A i \in 2..Len(transitions[o]) :
        LET e == transitions[o][i]
        IN e.from \in DOMAIN Guardrails /\ e.to \in Guardrails[e.from]

\* docs/operations/emergency-safe-state-controls.md: "Pause trading. Effect:
\* blocks new submissions."  No order is created by a submit while paused.
PauseBlocksSubmits ==
    [][\A o \in Orders :
            safetyMode = "paused" /\ StateOf(o) = "none" => StateOf(o)' # "pending"]_vars

\* docs/operations/order-lifecycle-handling.md: retries that reuse the keys of a
\* batch "preserve deterministic per-order outcomes".  No command is reported as
\* a hard failure when its key is already applied.
RetryIsNotRefused ==
    [][\A s \in Sessions : \A a \in answers'[s] \ answers[s] :
            KeyRecorded(a.order, a.key) => a.outcome # "hard"]_vars

\* Every call ends: no set of sessions waits for each other, however batches
\* order their orders, and no lock outlives its transaction.
EveryCallEnds == \A s \in Sessions : pc[s] # "idle" ~> pc[s] = "idle"
=============================================================================
