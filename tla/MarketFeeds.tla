----------------------------- MODULE MarketFeeds -----------------------------
(***************************************************************************)
(* The market stream (services/execution-engine/src/ingestion/mod.rs over  *)
(* crates/persistence/src/postgres/market_stream.rs) in one process with   *)
(* the freshness gate it feeds (main.rs): a loop that connects to the      *)
(* venue's market channel, stores each order book it receives as a tick or *)
(* puts it in quarantine, tells the gate how recent the tick is, and       *)
(* writes a health row when its own state of health changes.               *)
(*                                                                         *)
(* The channel may deliver a book late, out of order or again, as it does  *)
(* after a reconnection.  The user stream is the environment's here: an    *)
(* update of it is RecordUpdate of FreshnessGate.                          *)
(***************************************************************************)
EXTENDS FreshnessGate, FiniteSets

CONSTANTS
    Assets,           \* the subscribed asset ids
    UserLags,         \* how old the user stream's updates may be
    HeartbeatTimeout, \* heartbeat_timeout_seconds
    BacklogDegraded,  \* MARKET_STREAM_BACKLOG_DEGRADED_SECONDS
    BacklogSustained, \* MARKET_STREAM_BACKLOG_SUSTAINED_DURATION_SECONDS
    MaxReconnects,    \* max_reconnect_attempts
    MaxTicks,         \* bound on the ticks the channel delivers
    MaxLosses         \* bound on the health rows of lost streams

ASSUME MarketAssumption ==
    /\ UserLags \subseteq Lags
    /\ {HeartbeatTimeout, BacklogDegraded, BacklogSustained, MaxReconnects} \subseteq Nat

VARIABLES
    loop,     \* where the market loop is
    attempts, \* reconnect_attempts
    memory,   \* IngestionRuntimeState
    ticks,    \* table market_ticks, the accepted rows
    pending,  \* the health row to be written
    health    \* table market_stream_health, in insertion order

marketVars == <<loop, attempts, memory, ticks, pending, health>>
feedVars == <<gateVars, marketVars>>

\* A tick's id spells out its asset and the venue's timestamp.
Ticks == [asset : Assets, at : Times]

\* health_status with the reason of each, and the observed_at_utc of the row.
Reasons == {"healthy", "backlog_exceeded", "backlog_sustained_exceeded",
            "heartbeat_timeout", "disconnected"}
HealthRows == [reason : Reasons, at : Times]
Degraded(row) == row.reason # "healthy"

\* IngestionRuntimeState::default: nothing seen since the process started.
Fresh == [observed |-> Missing, ingested |-> Missing, sustained |-> 0,
          above |-> FALSE, signature |-> Missing]

MarketInit ==
    /\ loop = "connect"
    /\ attempts = 0
    /\ memory = Fresh
    /\ ticks = {}
    /\ pending = Missing
    /\ health = << >>

FeedInit == GateInit /\ MarketInit

-----------------------------------------------------------------------------
(* What a stored tick does to the loop's memory.                           *)

\* update_runtime_state: seconds between this update and the one before.
Gap(from, to) == IF from = Missing \/ to < from THEN 0 ELSE to - from

\* A backlog lasts from the second tick above the threshold on.
Sustained(lag) ==
    IF lag > BacklogDegraded /\ memory.above
    THEN memory.sustained + Gap(memory.ingested, now)
    ELSE 0

\* assess_market_stream_health; a warning is healthy.
Assess(lag, sustained, gap) ==
    CASE gap > HeartbeatTimeout -> "heartbeat_timeout"
      [] gap <= HeartbeatTimeout /\ lag > BacklogDegraded ->
             IF sustained > BacklogSustained THEN "backlog_sustained_exceeded"
             ELSE "backlog_exceeded"
      [] gap <= HeartbeatTimeout /\ lag <= BacklogDegraded -> "healthy"

AssessmentOf(at) == Assess(now - at, Sustained(now - at), Gap(memory.observed, at))

Remembered(at) ==
    [memory EXCEPT !.observed = at, !.ingested = now, !.sustained = Sustained(now - at),
                   !.above = now - at > BacklogDegraded]

-----------------------------------------------------------------------------
(* The loop.                                                               *)

Running == gate # "down"

\* main starts the loops together.
Start ==
    /\ GateStart
    /\ UNCHANGED marketVars

\* main ends with the first loop that returns: a query of either failed, or
\* the gate's write was committed without its knowing.
Stop == loop' = "connect" /\ attempts' = 0 /\ memory' = Fresh /\ pending' = Missing

Crash == (GateCrash \/ PersistReplyLost) /\ Stop /\ UNCHANGED <<ticks, health>>

Subscribe ==
    /\ Running
    /\ loop = "connect"
    /\ loop' = "stream"
    /\ UNCHANGED <<gateVars, attempts, memory, ticks, pending, health>>

AnyTime(tick) == TRUE    \* mutant

\* book_update_to_tick: the venue's timestamp may not be ahead of the clock.
Acceptable(tick) == tick.at <= now

Insertable(tick) == tick \notin ticks

\* process_orderbook_event: the tick is stored, the gate told, the memory
\* updated; a health row follows when the assessment is a new one.
AcceptTick(tick) ==
    /\ Running
    /\ loop = "stream"
    /\ Acceptable(tick)
    /\ Insertable(tick)
    /\ ticks' = ticks \cup {tick}
    /\ signals' = [signals EXCEPT !["market"] = tick.at]
    /\ memory' = Remembered(tick.at)
    /\ IF memory.signature = AssessmentOf(tick.at)
       THEN /\ attempts' = 0
            /\ UNCHANGED <<loop, pending>>
       ELSE /\ loop' = "health"
            /\ pending' = [reason |-> AssessmentOf(tick.at), at |-> tick.at]
            /\ UNCHANGED attempts
    /\ UNCHANGED <<now, gate, state, sampled, outcome, log, health>>

WriteHealthOnly ==    \* mutant
    /\ Running
    /\ loop = "health"
    /\ health' = Append(health, pending)
    /\ pending' = Missing
    /\ loop' = "stream"
    /\ attempts' = 0
    /\ UNCHANGED <<gateVars, ticks, memory>>

\* persist_health_transition: the row, then the signature.
WriteHealth ==
    /\ Running
    /\ loop = "health"
    /\ health' = Append(health, pending)
    /\ memory' = [memory EXCEPT !.signature = pending.reason]
    /\ pending' = Missing
    /\ loop' = "stream"
    /\ attempts' = 0
    /\ UNCHANGED <<gateVars, ticks>>

\* A tick already stored violates the table's key, and the error ends the loop.
RepeatedTickHalts(tick) ==
    /\ Running
    /\ loop = "stream"
    /\ Acceptable(tick)
    /\ tick \in ticks
    /\ GateCrash
    /\ Stop
    /\ UNCHANGED <<ticks, health>>

\* quarantine_book_event: nothing but the evidence, and the channel counts as up.
Quarantine ==
    /\ Running
    /\ loop = "stream"
    /\ attempts' = 0
    /\ UNCHANGED <<gateVars, loop, memory, ticks, pending, health>>

LossRowOfLastTick ==    \* mutant
    [reason |-> "disconnected", at |-> IF memory.observed = Missing THEN now ELSE memory.observed]

LossRow == [reason |-> "disconnected", at |-> now]

GivesUpLate == attempts > MaxReconnects    \* mutant

GivesUp == attempts + 1 > MaxReconnects

\* record_stream_disconnect: the row and the signature, then another attempt
\* or the end of the loop.
LoseStream ==
    /\ Running
    /\ loop \in {"connect", "stream"}
    /\ Len(SelectSeq(health, LAMBDA row : row.reason = "disconnected")) < MaxLosses
    /\ health' = Append(health, LossRow)
    /\ IF GivesUp
       THEN GateCrash /\ Stop
       ELSE /\ memory' = [memory EXCEPT !.signature = "disconnected"]
            /\ attempts' = attempts + 1
            /\ loop' = "connect"
            /\ UNCHANGED <<gateVars, pending>>
    /\ UNCHANGED ticks

MarketStep ==
    \/ Subscribe \/ WriteHealth \/ Quarantine \/ LoseStream
    \/ \E tick \in Ticks :
          \/ now - tick.at \in Lags \cup {-1}
             /\ Cardinality(ticks) < MaxTicks
             /\ AcceptTick(tick)
          \/ RepeatedTickHalts(tick)

GateAlone ==
    /\ \/ Hydrate \/ EvaluateBreach \/ EvaluateRecovery \/ EvaluateSafe \/ Persist
       \/ TimePasses
       \/ \E at \in Times : now - at \in UserLags /\ RecordUpdate("user", at)
    /\ UNCHANGED marketVars

FeedNext == Start \/ Crash \/ GateAlone \/ MarketStep

FeedSpec == FeedInit /\ [][FeedNext]_feedVars

-----------------------------------------------------------------------------
(* Properties.                                                             *)

FeedTypeOK ==
    /\ GateTypeOK
    /\ loop \in {"connect", "stream", "health"}
    /\ attempts \in 0..MaxReconnects
    /\ memory \in [observed : MaybeTime, ingested : MaybeTime, sustained : Nat,
                   above : BOOLEAN, signature : Reasons \cup {Missing}]
    /\ ticks \subseteq Ticks
    /\ pending \in HealthRows \cup {Missing}
    /\ health \in Seq(HealthRows)
    /\ loop = "health" => pending \in HealthRows

\* LOAD_LATEST_MARKET_STREAM_HEALTH_SQL: the latest observed_at_utc, and of
\* equal ones the least id, which spells out degraded, disconnected or healthy.
Rank(row) ==
    CASE row.reason = "healthy" -> 3
      [] row.reason = "disconnected" -> 2
      [] row.reason \notin {"healthy", "disconnected"} -> 1

Precedes(r, s) == r.at > s.at \/ (r.at = s.at /\ Rank(r) <= Rank(s))

LatestHealth == CHOOSE r \in {health[i] : i \in DOMAIN health} :
                    \A i \in DOMAIN health : Precedes(r, health[i])

\* From the loss of the market channel until a message is processed again,
\* whatever timestamps earlier ticks left in the table, the row its readers
\* take as the latest is a degraded one.
LossIsVisible == attempts > 0 => health # << >> /\ Degraded(LatestHealth)

\* A health row is skipped only when the table already ends with it: what the
\* running loop remembers having written is the last row.
MemoryMatchesHealth ==
    memory.signature # Missing =>
        health # << >> /\ Last(health).reason = memory.signature

\* What the process keeps in memory of its tables is what they end with: the
\* pause its gate is in, and the health it wrote last.
MemoryMatchesTables == TableTellsThePause /\ MemoryMatchesHealth

\* Whatever the market stream does, and whichever of the loops ends, the gate
\* takes only steps of its own specification.
FeedsTheGate == [][GateNext]_gateVars
=============================================================================
