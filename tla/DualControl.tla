----------------------------- MODULE DualControl -----------------------------
(***************************************************************************)
(* What the approval service promises its callers and the readers of its   *)
(* tables: approval_requests, approval_votes and the answers of the        *)
(* execution gate, as if every call took effect at once, each vote and     *)
(* each decision a step of its own, with nothing to lock, to fail or to    *)
(* forget.  A call acts at the time it arrived.                            *)
(***************************************************************************)
EXTENDS Integers, FiniteSets

CONSTANTS
    Requests,           \* request ids
    Calls,              \* what may be asked
    MaxRequestsPerHour, \* how many requests of one proposer an hour may have
    Hour,
    Absent              \* no request, no reference

VARIABLES
    requests, \* table approval_requests
    votes,    \* table approval_votes
    clock,    \* the time
    allowed   \* the allow answers given

dualVars == <<requests, votes, clock, allowed>>

Init ==
    /\ requests = [r \in Requests |-> Absent]
    /\ votes = [r \in Requests |-> {}]
    /\ clock = 0
    /\ allowed = {}

Tick == clock' = clock + 1 /\ UNCHANGED <<requests, votes, allowed>>

\* The requests of the last hour that a proposer's new request has to share.
Recent(c, at) ==
    {r \in Requests : /\ requests[r] # Absent
                      /\ requests[r].proposer = c.actor
                      /\ requests[r].created + Hour >= at}

Propose(c, at) ==
    /\ c.op = "submit"
    /\ requests[c.request] = Absent
    /\ at < c.expires
    /\ Cardinality(Recent(c, at)) < MaxRequestsPerHour
    /\ requests' = [requests EXCEPT ![c.request] =
           [action |-> c.action, proposer |-> c.actor, status |-> "pending",
            reference |-> Absent, created |-> at, expires |-> c.expires]]
    /\ UNCHANGED <<votes, clock, allowed>>

\* The request a call is about, and whether it is still in its window.
Concerns(c) == requests[c.request] # Absent /\ requests[c.request].action = c.action
InTime(c, at) == at < requests[c.request].expires
Has(c, status) == requests[c.request].status = status

\* Somebody else than the proposer votes, once, on a pending request.
Vote(c, at) ==
    /\ c.op \in {"approve", "reject"}
    /\ Concerns(c) /\ InTime(c, at) /\ Has(c, "pending")
    /\ c.actor # requests[c.request].proposer
    /\ \A v \in votes[c.request] : v.actor # c.actor
    /\ votes' = [votes EXCEPT ![c.request] = @ \cup
           {[actor |-> c.actor, decision |-> c.op, at |-> at]}]
    /\ UNCHANGED <<requests, clock, allowed>>

Conclude(c, status, reference) ==
    requests' = [requests EXCEPT ![c.request].status = status,
                                 ![c.request].reference = reference]

Answer(c, reference, at) ==
    allowed' = allowed \cup {[request |-> c.request, reference |-> reference, at |-> at]}

\* A pending request is decided by a vote: the caller's own, or for the execution
\* gate a reject vote if there is one, and else the first of the approving votes.
\* The caller may be left without the answer.
Approve(c, at) ==
    /\ Concerns(c) /\ InTime(c, at) /\ Has(c, "pending")
    /\ \E v \in votes[c.request] :
          /\ v.decision = "approve"
          /\ \/ c.op = "approve" /\ v.actor = c.actor /\ v.at = at
             \/ /\ c.op = "execute"
                /\ \A w \in votes[c.request] : w.decision # "reject" /\ v.at <= w.at
          /\ Conclude(c, "approved", [approver |-> v.actor, at |-> v.at])
          /\ Answer(c, [approver |-> v.actor, at |-> v.at], at) \/ UNCHANGED allowed
    /\ UNCHANGED <<votes, clock>>

Reject(c, at) ==
    /\ Concerns(c) /\ InTime(c, at) /\ Has(c, "pending")
    /\ \E v \in votes[c.request] :
          /\ v.decision = "reject"
          /\ c.op = "execute" \/ (c.op = "reject" /\ v.actor = c.actor /\ v.at = at)
    /\ Conclude(c, "rejected", Absent)
    /\ UNCHANGED <<votes, clock, allowed>>

\* An approved request is executed, with the reference it was given.
Allow(c, at) ==
    /\ c.op = "execute"
    /\ Concerns(c) /\ InTime(c, at) /\ Has(c, "approved")
    /\ Answer(c, requests[c.request].reference, at)
    /\ UNCHANGED <<requests, votes, clock>>

\* A request that is found past its window expires, decided or not.
Expire(c, at) ==
    /\ c.op # "submit"
    /\ Concerns(c) /\ ~InTime(c, at)
    /\ Conclude(c, "expired", Absent)
    /\ UNCHANGED <<votes, clock, allowed>>

\* The first conjunct is there for TLC to try first.
Next ==
    /\ dualVars' # dualVars
    /\ \/ Tick
       \/ \E c \in Calls, at \in 0 .. clock :
             \/ Propose(c, at) \/ Vote(c, at)
             \/ Approve(c, at) \/ Reject(c, at) \/ Allow(c, at) \/ Expire(c, at)

Spec == Init /\ [][Next]_dualVars
=============================================================================
