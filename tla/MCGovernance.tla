---------------------------- MODULE MCGovernance ----------------------------
(***************************************************************************)
(* The instance of MCRiskEngine with two parts more, about dual approval:  *)
(* votes and executions over one request, and submits of several.          *)
(***************************************************************************)
EXTENDS MCRiskEngine, ApprovalCalls, TLC

CONSTANTS q1, q2, q3, override, increase, ann, bob, cid, k1, k2

VARIABLES requests, votes, ticks, pc, call, now, seen, allowed \* as in Approvals

approvalVars == <<requests, votes, ticks, pc, call, now, seen, allowed>>

A == INSTANCE Approvals WITH clock <- ticks

\* ann proposes q1 in time; everybody may vote, one of the gate's callers names
\* another action.
VotingCalls ==
    {[op |-> "submit", request |-> q1, action |-> override, actor |-> ann, expires |-> 2]}
    \cup [op: {"approve", "reject"}, request: {q1}, action: {override}, actor: Actors, expires: {0}]
    \cup [op: {"execute"}, request: {q1}, action: CriticalActions, actor: {ann}, expires: {0}]

\* Submits by several proposers, all but one with a window that is soon over.
SubmitCalls ==
    [op: {"submit"}, request: Requests, action: {override}, actor: {ann}, expires: {9}]
    \cup [op: {"submit"}, request: {q1}, action: {override}, actor: {bob, cid}, expires: {1}]

AllCalls == VotingCalls \cup SubmitCalls

PartCalls == IF part = "voting" THEN VotingCalls ELSE SubmitCalls

\* Sessions do the same, and so do ann's colleagues.
Symmetry == Permutations(Sessions) \cup Permutations({bob, cid})

-----------------------------------------------------------------------------
InApprovals == part \in {"voting", "submits"}

GovernanceInit ==
    /\ A!Init
    /\ MCInit \/ (InApprovals /\ Init)

ApprovalStep ==
    /\ InApprovals
    /\ A!Next
    /\ \A s \in Sessions : call'[s] \in PartCalls \cup {Absent}
    /\ UNCHANGED MCVars

GovernanceNext ==
    \/ MCNext /\ UNCHANGED approvalVars
    \/ ApprovalStep

GovernanceSpec == GovernanceInit /\ [][GovernanceNext]_<<MCVars, approvalVars>>

\* The first of the two parts by itself.
VotingSpec ==
    GovernanceInit /\ part = "voting" /\ [][ApprovalStep]_<<MCVars, approvalVars>>

-----------------------------------------------------------------------------
(* The properties of Approvals.                                            *)

\* The approval service's tables and calls are well formed.
ApprovalsTypeOK == A!TypeOK

\* Every allow answer for a request carries the same reference.
OneReference == A!OneReference

\* An allow answer refers to another actor's vote within the request's window.
AllowsAreBacked == A!AllowsAreBacked

\* No proposer makes more than the permitted number of requests within an hour.
RateLimit == A!RateLimit

\* Calls of several statements, failing and dying, look like single steps.
CallsLookAtomic == A!CallsLookAtomic

\* docs/governance/rbac-role-model.md: a distinct approver records an approve or
\* reject vote and "rejected requests transition to `rejected`".
RejectVetoes == A!RejectVetoes
=============================================================================
