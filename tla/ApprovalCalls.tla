---------------------------- MODULE ApprovalCalls ----------------------------
(***************************************************************************)
(* What the approval service is asked, and the rows it keeps               *)
(* (services/governance-service/src/approvals/mod.rs,                      *)
(* crates/persistence/src/postgres/approvals.rs).                          *)
(***************************************************************************)
EXTENDS Integers, FiniteSets

CONSTANTS
    Requests,           \* request ids
    CriticalActions,    \* what needs an approval
    Actors,             \* canonical actor ids
    Sessions,           \* concurrent calls
    Calls,              \* what the calls may ask for
    MaxRequestsPerHour, \* MAX_REQUESTS_PER_HOUR
    Hour,               \* one hour, in ticks
    LastTick,           \* bound of the clock
    Absent              \* None: no row, no call, no reference

Time == 0 .. LastTick

Statuses == {"pending", "approved", "rejected", "expired"}

\* A call names a request and the action it is for; expires matters to submits.
Call == [op: {"submit", "approve", "reject", "execute"}, request: Requests,
         action: CriticalActions, actor: Actors, expires: Nat]

\* The approval reference: besides who voted and when, it spells out columns of
\* the request that never change.
Reference == [approver: Actors, at: Time]

Row == [action: CriticalActions, proposer: Actors, status: Statuses,
        reference: Reference \cup {Absent}, created: Time, expires: Nat]

Vote == [actor: Actors, decision: {"approve", "reject"}, at: Time]

\* What a call reads once it has the lock: the request, its votes, and the
\* requests the caller made in the last hour.
Snapshot == [row: Row \cup {Absent}, votes: SUBSET Vote, recent: SUBSET Requests]

ASSUME CallsAssumption ==
    /\ Calls \subseteq Call
    /\ IsFiniteSet(Requests)
    /\ LastTick \in Nat /\ Hour \in Nat /\ MaxRequestsPerHour \in Nat

ASSUME NoneAssumption == Absent \notin Call \cup Reference \cup Row \cup Snapshot
=============================================================================
