------------------------------ MODULE Approvals ------------------------------
(***************************************************************************)
(* Dual approval of critical actions                                       *)
(* (services/governance-service/src/approvals/mod.rs over                  *)
(* crates/persistence/src/postgres/approvals.rs): a proposer's request, a  *)
(* distinct actor's vote, the execution gate.                              *)
(*                                                                         *)
(* Each HTTP call reads the time first and then takes a lock that is       *)
(* shared by the process and held to the end of the call.  A call's reads  *)
(* and writes are separate auto-committed statements, any of which may     *)
(* fail or commit without its caller learning of it, and the process may   *)
(* die between them.                                                       *)
(***************************************************************************)
EXTENDS ApprovalCalls

VARIABLES
    requests, \* table approval_requests
    votes,    \* table approval_votes
    clock,    \* the time
    pc,       \* where each call is; "locked" and "update" hold the lock
    call,     \* the call each session serves
    now,      \* the time it captured on arrival
    seen,     \* what it has read
    allowed   \* history: the allow answers given

vars == <<requests, votes, clock, pc, call, now, seen, allowed>>

Init ==
    /\ requests = [r \in Requests |-> Absent]
    /\ votes = [r \in Requests |-> {}]
    /\ clock = 0
    /\ pc = [s \in Sessions |-> "idle"]
    /\ call = [s \in Sessions |-> Absent]
    /\ now = [s \in Sessions |-> 0]
    /\ seen = [s \in Sessions |-> Absent]
    /\ allowed = {}

-----------------------------------------------------------------------------
(* Arrival and the lock.                                                   *)

Tick ==
    /\ clock < LastTick
    /\ clock' = clock + 1
    /\ UNCHANGED <<requests, votes, pc, call, now, seen, allowed>>

\* The route authorises the actor; the decision's timestamp becomes now_utc.
Begin(s) ==
    /\ pc[s] = "idle"
    /\ pc' = [pc EXCEPT ![s] = "waiting"]
    /\ \E c \in Calls : call' = [call EXCEPT ![s] = c]
    /\ now' = [now EXCEPT ![s] = clock]
    /\ UNCHANGED <<requests, votes, clock, seen, allowed>>

Holding == {"locked", "update"}

NoLock == TRUE    \* mutant

LockFree == \A s \in Sessions : pc[s] \notin Holding

MadeAfterTheHour(actor, t) ==    \* mutant
    {r \in Requests : /\ requests[r] # Absent
                      /\ requests[r].proposer = actor
                      /\ requests[r].created + Hour > t}

\* count_actor_requests_since, as the set that is counted.
MadeWithinTheHour(actor, t) ==
    {r \in Requests : /\ requests[r] # Absent
                      /\ requests[r].proposer = actor
                      /\ requests[r].created + Hour >= t}

\* The call gets the lock and reads.  Nothing it reads later under the lock can
\* differ from what it could read here.
Enter(s) ==
    /\ pc[s] = "waiting"
    /\ LockFree
    /\ pc' = [pc EXCEPT ![s] = "locked"]
    /\ seen' = [seen EXCEPT ![s] =
           [row |-> requests[call[s].request],
            votes |-> votes[call[s].request],
            recent |-> MadeWithinTheHour(call[s].actor, now[s])]]
    /\ UNCHANGED <<requests, votes, clock, call, now, allowed>>

\* The call has the lock and is one of ops.
Serving(s, ops) == pc[s] = "locked" /\ call[s].op \in ops

\* The call answers and drops the lock.
Return(s) ==
    /\ pc' = [pc EXCEPT ![s] = "idle"]
    /\ call' = [call EXCEPT ![s] = Absent]
    /\ now' = [now EXCEPT ![s] = 0]
    /\ seen' = [seen EXCEPT ![s] = Absent]

-----------------------------------------------------------------------------
(* submit_request.                                                         *)

\* Why a submit creates nothing: its window is over, the id is taken (by the
\* look-up or by the primary key), or its proposer has made too many requests.
SubmitRefused(s) ==
    \/ now[s] >= call[s].expires
    \/ {seen[s].row, requests[call[s].request]} # {Absent}
    \/ Cardinality(seen[s].recent) >= MaxRequestsPerHour

DenySubmit(s) ==
    /\ Serving(s, {"submit"})
    /\ SubmitRefused(s)
    /\ Return(s)
    /\ UNCHANGED <<requests, votes, clock, allowed>>

CreateRequest(s) ==
    /\ Serving(s, {"submit"})
    /\ ~SubmitRefused(s)
    /\ requests' = [requests EXCEPT ![call[s].request] =
           [action |-> call[s].action, proposer |-> call[s].actor,
            status |-> "pending", reference |-> Absent,
            created |-> now[s], expires |-> call[s].expires]]
    /\ Return(s)
    /\ UNCHANGED <<votes, clock, allowed>>

-----------------------------------------------------------------------------
(* What voting and executing have in common.                               *)

\* There is such a request, and it is for the action the call names.
Usable(s) == seen[s].row # Absent /\ seen[s].row.action = call[s].action

DenyUnusable(s) ==
    /\ Serving(s, {"approve", "reject", "execute"})
    /\ ~Usable(s)
    /\ Return(s)
    /\ UNCHANGED <<requests, votes, clock, allowed>>

WindowOpen(s) == now[s] <= seen[s].row.expires    \* mutant

\* approval_window_expired is false.
InWindow(s) == now[s] < seen[s].row.expires

StatusOnly(r, status, reference) ==    \* mutant
    requests' = [requests EXCEPT ![r].status = status]

\* update_approval_request: by id, whatever the status is by then.
SetStatus(r, status, reference) ==
    requests' = [requests EXCEPT ![r].status = status, ![r].reference = reference]

\* Whatever its status was, a request found past its window becomes expired.
Expire(s) ==
    /\ Serving(s, {"approve", "reject", "execute"})
    /\ Usable(s) /\ ~InWindow(s)
    /\ SetStatus(call[s].request, "expired", Absent)
    /\ Return(s)
    /\ UNCHANGED <<votes, clock, allowed>>

\* The call is about a live request, which it found with one of statuses.
Finds(s, ops, statuses) ==
    Serving(s, ops) /\ Usable(s) /\ InWindow(s) /\ seen[s].row.status \in statuses

\* The UPDATE to approved commits; its call answers allow if it learns of that.
Approve(s, reference) ==
    /\ SetStatus(call[s].request, "approved", reference)
    /\ \/ allowed' = allowed \cup {[request |-> call[s].request,
                                    reference |-> reference, at |-> now[s]]}
       \/ UNCHANGED allowed
    /\ Return(s)
    /\ UNCHANGED <<votes, clock>>

\* The UPDATE to rejected commits.
Reject(s) ==
    /\ SetStatus(call[s].request, "rejected", Absent)
    /\ Return(s)
    /\ UNCHANGED <<votes, clock, allowed>>

-----------------------------------------------------------------------------
(* record_vote.                                                            *)

Voters(ballots) == {v.actor : v \in ballots}

RefusedIgnoringStatus(s) ==    \* mutant
    call[s].actor \in Voters(seen[s].votes) \cup {seen[s].row.proposer}

RefusedIgnoringProposer(s) ==    \* mutant
    \/ call[s].actor \in Voters(seen[s].votes) \cup Voters(votes[call[s].request])
    \/ seen[s].row.status # "pending"

\* The voter has voted (by the look-up or by the primary key), the request is no
\* longer pending, or the voter proposed it.
VoteRefused(s) ==
    \/ call[s].actor \in Voters(seen[s].votes) \cup Voters(votes[call[s].request])
    \/ seen[s].row.status # "pending"
    \/ seen[s].row.proposer = call[s].actor

RefuseVote(s) ==
    /\ Finds(s, {"approve", "reject"}, Statuses)
    /\ VoteRefused(s)
    /\ Return(s)
    /\ UNCHANGED <<requests, votes, clock, allowed>>

\* The INSERT of the vote; the call goes on to update the request.
RecordVote(s) ==
    /\ Finds(s, {"approve", "reject"}, Statuses)
    /\ ~VoteRefused(s)
    /\ votes' = [votes EXCEPT ![call[s].request] = @ \cup
           {[actor |-> call[s].actor, decision |-> call[s].op, at |-> now[s]]}]
    /\ pc' = [pc EXCEPT ![s] = "update"]
    /\ UNCHANGED <<requests, clock, call, now, seen, allowed>>

ApproveByVote(s) ==
    /\ pc[s] = "update" /\ call[s].op = "approve"
    /\ Approve(s, [approver |-> call[s].actor, at |-> now[s]])

RejectByVote(s) ==
    /\ pc[s] = "update" /\ call[s].op = "reject"
    /\ Reject(s)

-----------------------------------------------------------------------------
(* evaluate_execution.                                                     *)

\* A recorded approval is honoured with the reference it was given.
AllowApproved(s) ==
    /\ Finds(s, {"execute"}, {"approved"})
    /\ seen[s].row.reference # Absent
    /\ allowed' = allowed \cup {[request |-> call[s].request,
                                 reference |-> seen[s].row.reference, at |-> now[s]]}
    /\ Return(s)
    /\ UNCHANGED <<requests, votes, clock>>

\* The votes of one decision that count: those of others than the proposer.
Distinct(s, decision) ==
    {v \in seen[s].votes : v.decision = decision /\ v.actor # seen[s].row.proposer}

\* A pending request with votes is one whose vote was recorded and whose update
\* was not: its decision is made up for.
RejectPending(s) ==
    /\ Finds(s, {"execute"}, {"pending"})
    /\ Distinct(s, "reject") # {}
    /\ Reject(s)

\* The earliest vote is the one referred to.
ApprovePending(s) ==
    /\ Finds(s, {"execute"}, {"pending"})
    /\ Distinct(s, "reject") = {}
    /\ \E v \in Distinct(s, "approve") :
           /\ \A w \in Distinct(s, "approve") : v.at <= w.at
           /\ Approve(s, [approver |-> v.actor, at |-> v.at])

DenyPending(s) ==
    /\ Finds(s, {"execute"}, {"pending"})
    /\ Distinct(s, "reject") = {} /\ Distinct(s, "approve") = {}
    /\ Return(s)
    /\ UNCHANGED <<requests, votes, clock, allowed>>

DenyClosed(s) ==
    /\ Finds(s, {"execute"}, {"approved", "rejected", "expired"})
    /\ seen[s].row.reference = Absent
    /\ Return(s)
    /\ UNCHANGED <<requests, votes, clock, allowed>>

-----------------------------------------------------------------------------
(* Failures.                                                               *)

\* A statement fails, or it was the INSERT of a vote and its reply was lost: the
\* call returns the error.
StatementFails(s) ==
    /\ pc[s] \in Holding
    /\ Return(s)
    /\ UNCHANGED <<requests, votes, clock, allowed>>

\* The process dies: its calls and the lock are gone, the tables stay.
Crash ==
    /\ \E s \in Sessions : pc[s] # "idle"
    /\ pc' = [s \in Sessions |-> "idle"]
    /\ call' = [s \in Sessions |-> Absent]
    /\ now' = [s \in Sessions |-> 0]
    /\ seen' = [s \in Sessions |-> Absent]
    /\ UNCHANGED <<requests, votes, clock, allowed>>

Serve(s) ==
    \/ DenySubmit(s) \/ CreateRequest(s)
    \/ DenyUnusable(s) \/ Expire(s)
    \/ RefuseVote(s) \/ RecordVote(s) \/ ApproveByVote(s) \/ RejectByVote(s)
    \/ AllowApproved(s) \/ RejectPending(s) \/ ApprovePending(s)
    \/ DenyPending(s) \/ DenyClosed(s)

Next ==
    \/ Tick \/ Crash
    \/ \E s \in Sessions : Begin(s) \/ Enter(s) \/ Serve(s) \/ StatementFails(s)

Spec == Init /\ [][Next]_vars

-----------------------------------------------------------------------------
(* Properties.                                                             *)

\* Every variable has its type, a request has a reference exactly while approved
\* (the table's CHECK), and a call has read exactly while it holds the lock.
TypeOK ==
    /\ requests \in [Requests -> Row \cup {Absent}]
    /\ votes \in [Requests -> SUBSET Vote]
    /\ clock \in Time
    /\ pc \in [Sessions -> {"idle", "waiting"} \cup Holding]
    /\ call \in [Sessions -> Call \cup {Absent}]
    /\ now \in [Sessions -> Time]
    /\ seen \in [Sessions -> Snapshot \cup {Absent}]
    /\ allowed \subseteq [request: Requests, reference: Reference, at: Time]
    /\ \A r \in Requests : requests[r] # Absent =>
           (requests[r].status = "approved" <=> requests[r].reference # Absent)
    /\ \A s \in Sessions : /\ pc[s] = "idle" <=> call[s] = Absent
                           /\ pc[s] \in Holding <=> seen[s] # Absent

\* The requests that a proposer made in the hour from t on.
MadeIn(a, t) ==
    {r \in Requests : /\ requests[r] # Absent
                      /\ requests[r].proposer = a
                      /\ requests[r].created \in t .. t + Hour}

\* No proposer has more than the permitted number of requests within an hour,
\* wherever the hour starts and in whatever order the calls got the lock.
RateLimit ==
    \A a \in Actors, t \in Time : Cardinality(MadeIn(a, t)) <= MaxRequestsPerHour

\* Every allow answer for a request, by a vote or by the execution gate, before
\* or after a failure, carries the same reference.
OneReference ==
    \A a, b \in allowed : a.request = b.request => a.reference = b.reference

\* An allow answer refers to a recorded approve vote of an actor other than the
\* proposer, and both vote and answer are within the request's window.
AllowsAreBacked ==
    \A a \in allowed :
        /\ requests[a.request] # Absent
        /\ {a.at, a.reference.at} \subseteq 0 .. requests[a.request].expires - 1
        /\ a.reference.approver # requests[a.request].proposer
        /\ [actor |-> a.reference.approver, decision |-> "approve", at |-> a.reference.at]
               \in votes[a.request]

AskedFor == {"action", "proposer", "created", "expires"}

\* The request is left alone, expires, or is decided; what was asked for stays.
DecisionStands(r) ==
    requests[r]' # requests[r] =>
        /\ requests[r]' # Absent
        /\ \/ requests[r]'.status = "expired"
           \/ requests[r].status = "pending" /\ requests[r]'.status \in {"approved", "rejected"}
        /\ \A field \in AskedFor : requests[r]'[field] = requests[r][field]

\* A decision is made once: a request leaves pending for good, then changes only
\* by expiring, and what was asked for never changes.
DecidedRequestsRest ==
    [][\A r \in Requests : requests[r] # Absent => DecisionStands(r)]_vars

\* Locked, read and written in several statements, failing and dying between any
\* two of them, the calls do what DualControl does in single steps: nobody who
\* reads the tables or is answered can tell the difference.
Dual == INSTANCE DualControl

CallsLookAtomic == Dual!Spec

\* docs/governance/rbac-role-model.md: a distinct approver records an approve or
\* reject vote and "rejected requests transition to `rejected`".  A request with a
\* reject vote of a distinct actor is not approved.
RejectVetoes ==
    \A r \in Requests : requests[r] # Absent /\ requests[r].status = "approved" =>
        \A v \in votes[r] : v.decision = "reject" => v.actor = requests[r].proposer
=============================================================================
