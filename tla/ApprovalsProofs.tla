--------------------------- MODULE ApprovalsProofs ---------------------------
(***************************************************************************)
(* Proofs about Approvals for every set of requests, actors, concurrent    *)
(* calls, every rate limit and every window.                               *)
(***************************************************************************)
EXTENDS Approvals, FiniteSetTheorems, TLAPS

USE CallsAssumption, NoneAssumption

-----------------------------------------------------------------------------
(* Type correctness.                                                       *)

\* The part of TypeOK that is about the calls.
CallsTyped ==
    /\ pc \in [Sessions -> {"idle", "waiting"} \cup Holding]
    /\ call \in [Sessions -> Call \cup {Absent}]
    /\ now \in [Sessions -> Time]
    /\ seen \in [Sessions -> Snapshot \cup {Absent}]
    /\ \A s \in Sessions : /\ pc[s] = "idle" <=> call[s] = Absent
                           /\ pc[s] \in Holding <=> seen[s] # Absent

\* The part of TypeOK that is about the tables and the answers.
TablesTyped ==
    /\ requests \in [Requests -> Row \cup {Absent}]
    /\ votes \in [Requests -> SUBSET Vote]
    /\ clock \in Time
    /\ allowed \subseteq [request: Requests, reference: Reference, at: Time]
    /\ \A r \in Requests : requests[r] # Absent =>
           (requests[r].status = "approved" <=> requests[r].reference # Absent)

\* The two parts are the whole.
LEMMA TypeParts == TypeOK <=> CallsTyped /\ TablesTyped
BY DEF TypeOK, CallsTyped, TablesTyped

\* The clock starts at a time.
LEMMA ZeroIsATime == 0 \in Time
BY DEF Time

\* A call that returns leaves the calls typed.
LEMMA ReturnTyped ==
    ASSUME CallsTyped, NEW s \in Sessions, Return(s)
    PROVE  CallsTyped'
BY ZeroIsATime DEF CallsTyped, Return, Holding

\* A call that holds the lock is a call, and has a snapshot.
LEMMA HolderTyped ==
    ASSUME TypeOK, NEW s \in Sessions, pc[s] \in Holding
    PROVE  /\ call[s] \in Call /\ seen[s] \in Snapshot /\ now[s] \in Time
           /\ call[s].request \in Requests /\ call[s].actor \in Actors
           /\ call[s].action \in CriticalActions /\ call[s].expires \in Nat
           /\ seen[s].row \in Row \cup {Absent} /\ seen[s].votes \in SUBSET Vote
BY DEF TypeOK, Holding, Call, Snapshot

\* A status and the reference that goes with it keep a table of requests typed,
\* if there is such a request.
LEMMA SetStatusTyped ==
    ASSUME TablesTyped, NEW r \in Requests, requests[r] # Absent,
           NEW status \in Statuses, NEW reference \in Reference \cup {Absent},
           status = "approved" <=> reference # Absent,
           SetStatus(r, status, reference)
    PROVE  /\ requests' \in [Requests -> Row \cup {Absent}]
           /\ \A q \in Requests : requests'[q] # Absent =>
                  (requests'[q].status = "approved" <=> requests'[q].reference # Absent)
           /\ \A q \in Requests : q # r => requests'[q] = requests[q]
           /\ requests'[r] \in Row
           /\ requests'[r].status = status
           /\ requests'[r].reference = reference
           /\ requests'[r].action = requests[r].action
           /\ requests'[r].proposer = requests[r].proposer
           /\ requests'[r].created = requests[r].created
           /\ requests'[r].expires = requests[r].expires
BY DEF TablesTyped, SetStatus, Row

-----------------------------------------------------------------------------
(* The inductive invariant.                                                *)

\* At most one call holds the lock, so what it has read is still so.
Mutex == \A s, t \in Sessions : pc[s] \in Holding /\ pc[t] \in Holding => s = t

SeenIsCurrent ==
    \A s \in Sessions :
        /\ pc[s] \in Holding => seen[s].row = requests[call[s].request]
        /\ pc[s] = "locked" => seen[s].votes = votes[call[s].request]

\* A voter that is about to update the request has voted, and was entitled to.
VoterIsEntitled ==
    \A s \in Sessions : pc[s] = "update" =>
        /\ call[s].op \in {"approve", "reject"}
        /\ seen[s].row # Absent
        /\ seen[s].row.status = "pending"
        /\ InWindow(s)
        /\ [actor |-> call[s].actor, decision |-> call[s].op, at |-> now[s]]
               \in votes[call[s].request]

LockInv == TypeOK /\ Mutex /\ SeenIsCurrent /\ VoterIsEntitled

\* The approve vote that a reference refers to.
VoteOf(reference) ==
    [actor |-> reference.approver, decision |-> "approve", at |-> reference.at]

\* Votes are about requests, by others than their proposers, within their windows.
VotesCount ==
    \A r \in Requests : \A v \in votes[r] :
        /\ requests[r] # Absent
        /\ v.actor # requests[r].proposer
        /\ v.at < requests[r].expires

\* An approved request refers to a recorded vote.
ReferencesAreVotes ==
    \A r \in Requests : requests[r] # Absent /\ requests[r].status = "approved" =>
        VoteOf(requests[r].reference) \in votes[r]

\* What an answer allowed is approved, with the reference answered, until it
\* expires.
Agrees(a) ==
    /\ requests[a.request] # Absent
    /\ a.at < requests[a.request].expires
    /\ VoteOf(a.reference) \in votes[a.request]
    /\ requests[a.request].status \in {"approved", "expired"}
    /\ requests[a.request].status = "approved" =>
           requests[a.request].reference = a.reference

AnswersAgree == \A a \in allowed : Agrees(a)

RecordInv == VotesCount /\ ReferencesAreVotes /\ AnswersAgree /\ OneReference

Inv == LockInv /\ RecordInv

-----------------------------------------------------------------------------
(* The lock: nobody changes what its holder has read.                      *)

\* When the holder returns nobody holds the lock, whatever it did to the tables.
LEMMA ReturnKeepsLock ==
    ASSUME LockInv, NEW s \in Sessions, pc[s] \in Holding, Return(s), TablesTyped'
    PROVE  LockInv'
<1>1. TypeOK'
  BY ReturnTyped, TypeParts DEF LockInv, CallsTyped, TablesTyped, TypeOK
<1>2. \A t \in Sessions : pc'[t] \notin Holding
  BY DEF LockInv, Mutex, Return, TypeOK, Holding
<1> QED BY <1>1, <1>2 DEF LockInv, Mutex, SeenIsCurrent, VoterIsEntitled, Holding

\* Deciding changes the tables within their types.
LEMMA DecideTyped ==
    ASSUME LockInv, NEW s \in Sessions, pc[s] \in Holding, seen[s].row # Absent,
           NEW status \in Statuses, NEW reference \in Reference \cup {Absent},
           status = "approved" <=> reference # Absent,
           SetStatus(call[s].request, status, reference),
           UNCHANGED <<votes, clock>>,
           allowed' \subseteq [request: Requests, reference: Reference, at: Time]
    PROVE  TablesTyped'
<1>1. call[s].request \in Requests /\ TablesTyped
  BY HolderTyped, TypeParts DEF LockInv
<1>2. requests[call[s].request] # Absent
  BY DEF LockInv, SeenIsCurrent
<1>3. /\ requests' \in [Requests -> Row \cup {Absent}]
      /\ \A q \in Requests : requests'[q] # Absent =>
             (requests'[q].status = "approved" <=> requests'[q].reference # Absent)
  BY <1>1, <1>2, SetStatusTyped
<1> QED BY <1>1, <1>3 DEF TablesTyped

\* Approving for a reference does.
LEMMA ApproveTyped ==
    ASSUME LockInv, NEW s \in Sessions, pc[s] \in Holding, seen[s].row # Absent,
           NEW reference \in Reference, Approve(s, reference)
    PROVE  TablesTyped'
<1>1. call[s].request \in Requests /\ now[s] \in Time /\ TablesTyped
  BY HolderTyped, TypeParts DEF LockInv
<1>2. reference # Absent /\ "approved" \in Statuses
  BY DEF Statuses
<1>3. allowed' \subseteq [request: Requests, reference: Reference, at: Time]
  BY <1>1 DEF Approve, TablesTyped
<1> QED BY <1>2, <1>3, DecideTyped DEF Approve

\* Rejecting does.
LEMMA RejectTyped ==
    ASSUME LockInv, NEW s \in Sessions, pc[s] \in Holding, seen[s].row # Absent, Reject(s)
    PROVE  TablesTyped'
<1>1. allowed \subseteq [request: Requests, reference: Reference, at: Time]
  BY DEF LockInv, TypeOK
<1>2. "rejected" \in Statuses
  BY DEF Statuses
<1> QED BY <1>1, <1>2, DecideTyped DEF Reject

\* Steps that do not touch the tables keep them typed.
LEMMA TablesUntouched ==
    ASSUME TypeOK, UNCHANGED <<requests, votes, clock, allowed>>
    PROVE  TablesTyped'
BY DEF TypeOK, TablesTyped

\* A call the lock holder serves has found the request it was looking for.
LEMMA FoundTyped ==
    ASSUME LockInv, NEW s \in Sessions, pc[s] \in Holding, seen[s].row # Absent
    PROVE  /\ seen[s].row \in Row /\ seen[s].row = requests[call[s].request]
           /\ call[s].request \in Requests /\ now[s] \in Time
BY HolderTyped DEF LockInv, SeenIsCurrent

\* What each action of the lock holder writes has its type.
LEMMA ServeTyped ==
    ASSUME LockInv, NEW s \in Sessions, pc[s] \in Holding, Serve(s)
    PROVE  TablesTyped'
<1> USE DEF LockInv
<1>0. /\ call[s].request \in Requests /\ call[s].actor \in Actors /\ now[s] \in Time
      /\ call[s].action \in CriticalActions /\ call[s].expires \in Nat /\ call[s] \in Call
      /\ seen[s] \in Snapshot /\ seen[s].votes \in SUBSET Vote
  BY HolderTyped
<1>1. CASE DenySubmit(s) BY <1>1, TablesUntouched DEF DenySubmit
<1>2. CASE CreateRequest(s)
  <2> DEFINE new == [action |-> call[s].action, proposer |-> call[s].actor,
                     status |-> "pending", reference |-> Absent,
                     created |-> now[s], expires |-> call[s].expires]
  <2>1. new \in Row /\ new.status = "pending" /\ new.reference = Absent
    BY <1>0 DEF Row, Statuses
  <2>2. requests' = [requests EXCEPT ![call[s].request] = new]
    BY <1>2 DEF CreateRequest
  <2> HIDE DEF new
  <2>3. TablesTyped /\ UNCHANGED <<votes, clock, allowed>>
    BY <1>2, TypeParts DEF CreateRequest
  <2> QED BY <1>0, <2>1, <2>2, <2>3 DEF TablesTyped
<1>3. CASE DenyUnusable(s) BY <1>3, TablesUntouched DEF DenyUnusable
<1>4. CASE Expire(s)
  <2>1. allowed \subseteq [request: Requests, reference: Reference, at: Time]
    BY DEF TypeOK
  <2>2. "expired" \in Statuses
    BY DEF Statuses
  <2> QED BY <1>4, <2>1, <2>2, DecideTyped DEF Expire, Usable
<1>5. CASE RefuseVote(s) BY <1>5, TablesUntouched DEF RefuseVote
<1>6. CASE RecordVote(s)
  <2>1. call[s].op \in {"approve", "reject"}
    BY <1>6 DEF RecordVote, Finds, Serving
  <2>2. [actor |-> call[s].actor, decision |-> call[s].op, at |-> now[s]] \in Vote
    BY <1>0, <2>1 DEF Vote
  <2>3. TablesTyped /\ UNCHANGED <<requests, clock, allowed>>
    BY <1>6, TypeParts DEF RecordVote
  <2>4. votes' \in [Requests -> SUBSET Vote]
    BY <1>0, <1>6, <2>2, <2>3 DEF RecordVote, TablesTyped
  <2> QED BY <2>3, <2>4 DEF TablesTyped
<1>7. CASE ApproveByVote(s)
  <2>1. [approver |-> call[s].actor, at |-> now[s]] \in Reference
    BY <1>0 DEF Reference
  <2> QED BY <1>7, <2>1, ApproveTyped DEF ApproveByVote, VoterIsEntitled
<1>8. CASE RejectByVote(s) BY <1>8, RejectTyped DEF RejectByVote, VoterIsEntitled
<1>9. CASE AllowApproved(s)
  <2>1. seen[s].row \in Row /\ seen[s].row.reference \in Reference
    BY <1>9, FoundTyped DEF AllowApproved, Finds, Usable, Row
  <2> QED BY <1>0, <1>9, <2>1 DEF AllowApproved, TypeOK, TablesTyped
<1>10. CASE RejectPending(s) BY <1>10, RejectTyped DEF RejectPending, Finds, Usable
<1>11. CASE ApprovePending(s)
  <2>1. PICK v \in Distinct(s, "approve") : Approve(s, [approver |-> v.actor, at |-> v.at])
    BY <1>11 DEF ApprovePending
  <2>2. [approver |-> v.actor, at |-> v.at] \in Reference
    BY <1>0 DEF Distinct, Vote, Reference
  <2> QED BY <1>11, <2>1, <2>2, ApproveTyped DEF ApprovePending, Finds, Usable
<1>12. CASE DenyPending(s) BY <1>12, TablesUntouched DEF DenyPending
<1>13. CASE DenyClosed(s) BY <1>13, TablesUntouched DEF DenyClosed
<1> QED BY <1>1, <1>2, <1>3, <1>4, <1>5, <1>6, <1>7, <1>8, <1>9, <1>10, <1>11,
           <1>12, <1>13 DEF Serve

\* Every step of the lock holder but the INSERT of a vote ends its call.
LEMMA ServeReturns ==
    ASSUME NEW s \in Sessions, Serve(s)
    PROVE  /\ pc[s] \in Holding
           /\ RecordVote(s) \/ Return(s)
BY DEF Serve, DenySubmit, CreateRequest, DenyUnusable, Expire, RefuseVote, RecordVote,
       ApproveByVote, RejectByVote, AllowApproved, RejectPending, ApprovePending,
       DenyPending, DenyClosed, Approve, Reject, Finds, Serving, Holding

\* A recorded vote is in order, and the lock is still its voter's.
LEMMA RecordVoteKeepsLock ==
    ASSUME LockInv, NEW s \in Sessions, RecordVote(s), TablesTyped'
    PROVE  LockInv'
<1>1. /\ pc[s] = "locked" /\ pc[s] \in Holding
      /\ call[s].op \in {"approve", "reject"}
      /\ Usable(s) /\ InWindow(s) /\ ~VoteRefused(s)
  BY DEF RecordVote, Finds, Serving, Holding
<1>2. /\ pc' = [pc EXCEPT ![s] = "update"]
      /\ UNCHANGED <<requests, clock, call, now, seen, allowed>>
  BY DEF RecordVote
<1>3. \A t \in Sessions : t # s => pc[t] \notin Holding /\ pc'[t] = pc[t]
  BY <1>1, <1>2 DEF LockInv, Mutex, TypeOK
<1>4. pc'[s] = "update" /\ call[s].request \in Requests
  BY <1>1, <1>2, HolderTyped DEF LockInv, TypeOK
<1>5. TypeOK'
  <2>1. CallsTyped'
    BY <1>1, <1>2, <1>3, <1>4, TypeParts DEF LockInv, CallsTyped, Holding
  <2> QED BY <2>1, TypeParts DEF CallsTyped, TablesTyped, TypeOK
<1>6. Mutex'
  BY <1>3, <1>4 DEF Mutex
<1>7. SeenIsCurrent'
  BY <1>1, <1>2, <1>3, <1>4 DEF LockInv, SeenIsCurrent, Holding
<1>8. VoterIsEntitled'
  <2>1. [actor |-> call[s].actor, decision |-> call[s].op, at |-> now[s]]
            \in votes'[call[s].request]
    BY <1>4 DEF RecordVote, LockInv, TypeOK
  <2>2. \A t \in Sessions : pc'[t] = "update" => t = s
    BY <1>3 DEF Holding
  <2>3. seen[s].row # Absent /\ seen[s].row.status = "pending"
    BY <1>1 DEF Usable, VoteRefused
  <2> QED BY <1>1, <1>2, <2>1, <2>2, <2>3 DEF VoterIsEntitled, InWindow
<1> QED BY <1>5, <1>6, <1>7, <1>8 DEF LockInv

\* Every step keeps the part of the invariant that is about the lock.
LEMMA LockStep ==
    ASSUME LockInv, [Next]_vars
    PROVE  LockInv'
<1>1. CASE Tick
  <2>1. clock' \in Time
    BY <1>1 DEF LockInv, TypeOK, Tick, Time
  <2> QED BY <1>1, <2>1 DEF Tick, LockInv, TypeOK, Mutex, SeenIsCurrent,
             VoterIsEntitled, InWindow
<1>2. CASE Crash
  <2>1. CallsTyped' /\ TablesTyped'
    BY <1>2, ZeroIsATime, TypeParts, TablesUntouched
    DEF LockInv, Crash, CallsTyped, Holding
  <2>2. \A s \in Sessions : pc'[s] = "idle"
    BY <1>2 DEF Crash
  <2>3. TypeOK'
    BY <2>1 DEF TypeOK, CallsTyped, TablesTyped
  <2> QED BY <2>2, <2>3 DEF LockInv, Mutex, SeenIsCurrent, VoterIsEntitled, Holding
<1>3. ASSUME NEW s \in Sessions, Begin(s)
      PROVE  LockInv'
  <2>1. PICK c \in Calls : call' = [call EXCEPT ![s] = c]
    BY <1>3 DEF Begin
  <2>2. c \in Call /\ c # Absent
    OBVIOUS
  <2>3. /\ pc[s] = "idle" /\ pc' = [pc EXCEPT ![s] = "waiting"]
        /\ now' = [now EXCEPT ![s] = clock]
        /\ UNCHANGED <<requests, votes, clock, seen, allowed>>
    BY <1>3 DEF Begin
  <2>4. TypeOK'
    BY <2>1, <2>2, <2>3 DEF LockInv, TypeOK, Holding
  <2>5. \A t \in Sessions : pc'[t] \in Holding =>
            /\ pc[t] \in Holding /\ pc'[t] = pc[t]
            /\ call'[t] = call[t] /\ now'[t] = now[t]
    BY <2>1, <2>3 DEF LockInv, TypeOK, Holding
  <2>6. Mutex' /\ SeenIsCurrent'
    BY <2>3, <2>5 DEF LockInv, Mutex, SeenIsCurrent, Holding
  <2>7. VoterIsEntitled'
    BY <2>3, <2>5 DEF LockInv, VoterIsEntitled, InWindow, Holding
  <2> QED BY <2>4, <2>6, <2>7 DEF LockInv
<1>4. ASSUME NEW s \in Sessions, Enter(s)
      PROVE  LockInv'
  <2> DEFINE snapshot == [row |-> requests[call[s].request],
                          votes |-> votes[call[s].request],
                          recent |-> MadeWithinTheHour(call[s].actor, now[s])]
  <2>1. /\ pc[s] = "waiting" /\ pc' = [pc EXCEPT ![s] = "locked"]
        /\ seen' = [seen EXCEPT ![s] = snapshot]
        /\ UNCHANGED <<requests, votes, clock, call, now, allowed>>
    BY <1>4 DEF Enter
  <2>2. \A t \in Sessions : pc[t] \notin Holding
    BY <1>4 DEF Enter, LockFree
  <2>3. call[s] \in Call /\ call[s].request \in Requests
    BY <2>1 DEF LockInv, TypeOK, Call
  <2>4. snapshot \in Snapshot
    <3>1. snapshot.row \in Row \cup {Absent} /\ snapshot.votes \in SUBSET Vote
      BY <2>3 DEF LockInv, TypeOK
    <3>2. snapshot.recent \in SUBSET Requests
      BY DEF MadeWithinTheHour
    <3> QED BY <3>1, <3>2 DEF Snapshot
  <2>5. snapshot.row = requests[call[s].request] /\ snapshot.votes = votes[call[s].request]
    OBVIOUS
  <2> HIDE DEF snapshot
  <2>6. \A t \in Sessions : pc'[t] \in Holding => t = s
    BY <2>1, <2>2 DEF LockInv, TypeOK
  <2>7. pc'[s] = "locked" /\ seen'[s] = snapshot
    BY <2>1 DEF LockInv, TypeOK
  <2>8. TypeOK'
    BY <2>1, <2>4 DEF LockInv, TypeOK, Holding
  <2>9. Mutex' /\ SeenIsCurrent'
    BY <2>1, <2>5, <2>6, <2>7 DEF Mutex, SeenIsCurrent, Holding
  <2>10. VoterIsEntitled'
    BY <2>6, <2>7 DEF VoterIsEntitled, Holding
  <2> QED BY <2>8, <2>9, <2>10 DEF LockInv
<1>5. ASSUME NEW s \in Sessions, Serve(s)
      PROVE  LockInv'
  BY <1>5, ServeReturns, ServeTyped, RecordVoteKeepsLock, ReturnKeepsLock
<1>6. ASSUME NEW s \in Sessions, StatementFails(s)
      PROVE  LockInv'
  BY <1>6, TablesUntouched, ReturnKeepsLock DEF StatementFails, LockInv
<1>7. CASE UNCHANGED vars
  BY <1>7 DEF vars, LockInv, TypeOK, Mutex, SeenIsCurrent, VoterIsEntitled, InWindow
<1> QED BY <1>1, <1>2, <1>3, <1>4, <1>5, <1>6, <1>7 DEF Next

-----------------------------------------------------------------------------
(* The records.                                                            *)

\* Creating a request disturbs no record: it had none.
LEMMA CreateKeepsRecords ==
    ASSUME LockInv, RecordInv, NEW s \in Sessions, CreateRequest(s)
    PROVE  RecordInv'
<1>1. requests[call[s].request] = Absent
  BY DEF CreateRequest, SubmitRefused
<1>2. call[s].request \in Requests
  BY HolderTyped DEF CreateRequest, Serving, Holding, LockInv
<1>3. UNCHANGED <<votes, allowed>>
  BY DEF CreateRequest
<1>4. \A r \in Requests : r # call[s].request => requests'[r] = requests[r]
  BY <1>2 DEF CreateRequest, LockInv, TypeOK
<1>5. requests'[call[s].request].status = "pending"
  BY <1>2 DEF CreateRequest, LockInv, TypeOK
<1>6. votes[call[s].request] = {}
  BY <1>1, <1>2 DEF RecordInv, VotesCount, LockInv, TypeOK
<1>7. \A a \in allowed : a.request \in Requests /\ a.request # call[s].request
  BY <1>1 DEF RecordInv, AnswersAgree, Agrees, LockInv, TypeOK
<1>8. VotesCount'
  BY <1>3, <1>4, <1>6 DEF RecordInv, VotesCount
<1>9. ReferencesAreVotes'
  BY <1>3, <1>4, <1>5, Zenon DEF RecordInv, ReferencesAreVotes
<1>10. AnswersAgree' /\ OneReference'
  BY <1>3, <1>4, <1>7 DEF RecordInv, AnswersAgree, Agrees, OneReference
<1> QED BY <1>8, <1>9, <1>10 DEF RecordInv

\* Recording a vote adds one that counts.
LEMMA RecordVoteKeepsRecords ==
    ASSUME LockInv, RecordInv, NEW s \in Sessions, RecordVote(s)
    PROVE  RecordInv'
<1> DEFINE r0 == call[s].request
           new == [actor |-> call[s].actor, decision |-> call[s].op, at |-> now[s]]
<1>1. /\ pc[s] \in Holding /\ seen[s].row # Absent
      /\ now[s] < seen[s].row.expires /\ seen[s].row.proposer # call[s].actor
  BY DEF RecordVote, Finds, Serving, Holding, Usable, InWindow, VoteRefused
<1>2. /\ r0 \in Requests /\ requests[r0] # Absent
      /\ now[s] < requests[r0].expires /\ requests[r0].proposer # call[s].actor
  BY <1>1, FoundTyped
<1>3. votes' = [votes EXCEPT ![r0] = @ \cup {new}] /\ UNCHANGED <<requests, allowed>>
  BY DEF RecordVote
<1>4. new.actor = call[s].actor /\ new.at = now[s]
  OBVIOUS
<1> HIDE DEF r0, new
<1>5. /\ \A r \in Requests : r # r0 => votes'[r] = votes[r]
      /\ votes'[r0] = votes[r0] \cup {new}
  BY <1>2, <1>3 DEF LockInv, TypeOK
<1>6. VotesCount'
  BY <1>2, <1>3, <1>4, <1>5 DEF RecordInv, VotesCount
<1>7. \A r \in Requests : votes[r] \subseteq votes'[r]
  BY <1>5
<1>8. ReferencesAreVotes'
  BY <1>3, <1>7 DEF RecordInv, ReferencesAreVotes
<1>9. AnswersAgree' /\ OneReference'
  BY <1>3, <1>7 DEF RecordInv, AnswersAgree, Agrees, OneReference, LockInv, TypeOK
<1> QED BY <1>6, <1>8, <1>9 DEF RecordInv

\* A decision, or an expiry, takes nothing back that was answered.
LEMMA StatusKeepsRecords ==
    ASSUME LockInv, RecordInv, NEW r \in Requests, requests[r] # Absent,
           NEW status \in Statuses, NEW reference \in Reference \cup {Absent},
           status = "approved" <=> reference # Absent,
           SetStatus(r, status, reference),
           status = "expired" \/ requests[r].status = "pending",
           status = "approved" => VoteOf(reference) \in votes[r],
           UNCHANGED votes
    PROVE  /\ VotesCount' /\ ReferencesAreVotes'
           /\ \A a \in allowed : Agrees(a)'
           /\ requests'[r] # Absent /\ requests'[r].status = status
           /\ requests'[r].reference = reference
           /\ requests'[r].expires = requests[r].expires
<1>1. TablesTyped
  BY TypeParts DEF LockInv
<1>2. /\ \A q \in Requests : q # r => requests'[q] = requests[q]
      /\ requests'[r] \in Row /\ requests'[r].status = status
      /\ requests'[r].reference = reference
      /\ requests'[r].proposer = requests[r].proposer
      /\ requests'[r].expires = requests[r].expires
  BY <1>1, SetStatusTyped
<1>3. requests'[r] # Absent
  BY <1>2
<1>4. VotesCount'
  BY <1>2, <1>3 DEF RecordInv, VotesCount
<1>5. ReferencesAreVotes'
  BY <1>2, <1>3 DEF RecordInv, ReferencesAreVotes
<1>6. ASSUME NEW a \in allowed
      PROVE  Agrees(a)'
  <2>1. Agrees(a) /\ a.request \in Requests
    BY DEF RecordInv, AnswersAgree, LockInv, TypeOK
  <2>2. CASE a.request # r
    BY <1>2, <2>1, <2>2 DEF Agrees
  <2>3. CASE a.request = r
    <3>1. status = "expired"
      BY <2>1, <2>3 DEF Agrees
    <3> QED BY <1>2, <1>3, <2>1, <2>3, <3>1 DEF Agrees
  <2> QED BY <2>2, <2>3
<1> QED BY <1>2, <1>3, <1>4, <1>5, <1>6

\* An answer with the reference of the request's other answers, if it has any,
\* leaves the request with one reference.
LEMMA AnswerKeepsReference ==
    ASSUME OneReference, NEW a,
           \A b \in allowed : b.request = a.request => b.reference = a.reference,
           allowed' = allowed \cup {a} \/ UNCHANGED allowed
    PROVE  OneReference'
BY DEF OneReference

\* An approval on the strength of a recorded vote keeps the records.
LEMMA ApproveKeepsRecords ==
    ASSUME LockInv, RecordInv, NEW s \in Sessions, pc[s] \in Holding,
           seen[s].row # Absent, seen[s].row.status = "pending", InWindow(s),
           NEW reference \in Reference, VoteOf(reference) \in votes[call[s].request],
           Approve(s, reference)
    PROVE  RecordInv'
<1> DEFINE r0 == call[s].request
<1>1. /\ r0 \in Requests /\ requests[r0] # Absent
      /\ requests[r0].status = "pending" /\ now[s] < requests[r0].expires
  BY FoundTyped DEF InWindow
<1>2. SetStatus(r0, "approved", reference) /\ UNCHANGED votes
  BY DEF Approve
<1>3. reference # Absent /\ "approved" \in Statuses
  BY DEF Statuses
<1>4. PICK answer :
          /\ answer.request = r0 /\ answer.reference = reference /\ answer.at = now[s]
          /\ allowed' = allowed \cup {answer} \/ allowed' = allowed
  <2> DEFINE new == [request |-> r0, reference |-> reference, at |-> now[s]]
  <2>1. allowed' = allowed \cup {new} \/ allowed' = allowed
    BY DEF Approve
  <2>2. new.request = r0 /\ new.reference = reference /\ new.at = now[s]
    OBVIOUS
  <2> HIDE DEF new
  <2> QED BY <2>1, <2>2
<1> HIDE DEF r0
<1>5. VoteOf(reference) \in votes[r0]
  BY DEF r0
<1>6. /\ VotesCount' /\ ReferencesAreVotes'
      /\ \A a \in allowed : Agrees(a)'
      /\ requests'[r0] # Absent /\ requests'[r0].status = "approved"
      /\ requests'[r0].reference = reference
      /\ requests'[r0].expires = requests[r0].expires
  BY <1>1, <1>2, <1>3, <1>5, StatusKeepsRecords
<1>7. Agrees(answer)'
  BY <1>1, <1>2, <1>4, <1>5, <1>6 DEF Agrees
<1>8. \A b \in allowed : b.request # r0
  BY <1>1 DEF RecordInv, AnswersAgree, Agrees
<1>9. OneReference'
  BY <1>4, <1>8, AnswerKeepsReference DEF RecordInv
<1> QED BY <1>4, <1>6, <1>7, <1>9 DEF RecordInv, AnswersAgree

\* So does a rejection of a pending request.
LEMMA RejectKeepsRecords ==
    ASSUME LockInv, RecordInv, NEW s \in Sessions, pc[s] \in Holding,
           seen[s].row # Absent, seen[s].row.status = "pending", Reject(s)
    PROVE  RecordInv'
<1>1. /\ call[s].request \in Requests /\ requests[call[s].request] # Absent
      /\ requests[call[s].request].status = "pending" /\ "rejected" \in Statuses
  BY FoundTyped DEF Statuses
<1>2. SetStatus(call[s].request, "rejected", Absent) /\ UNCHANGED <<votes, allowed>>
  BY DEF Reject
<1>3. VotesCount' /\ ReferencesAreVotes' /\ \A a \in allowed : Agrees(a)'
  BY <1>1, <1>2, StatusKeepsRecords
<1> QED BY <1>2, <1>3 DEF RecordInv, AnswersAgree, OneReference

\* Every step of the lock holder keeps the records.
LEMMA ServeKeepsRecords ==
    ASSUME LockInv, RecordInv, NEW s \in Sessions, pc[s] \in Holding, Serve(s)
    PROVE  RecordInv'
<1>0. ASSUME UNCHANGED <<requests, votes, allowed>>
      PROVE  RecordInv'
  BY <1>0 DEF RecordInv, VotesCount, ReferencesAreVotes, AnswersAgree, Agrees, OneReference
<1>1. CASE DenySubmit(s) BY <1>0, <1>1 DEF DenySubmit
<1>2. CASE CreateRequest(s) BY <1>2, CreateKeepsRecords
<1>3. CASE DenyUnusable(s) BY <1>0, <1>3 DEF DenyUnusable
<1>4. CASE Expire(s)
  <2>1. seen[s].row # Absent /\ "expired" \in Statuses
    BY <1>4 DEF Expire, Usable, Statuses
  <2>2. call[s].request \in Requests /\ requests[call[s].request] # Absent
    BY <2>1, FoundTyped
  <2>3. SetStatus(call[s].request, "expired", Absent) /\ UNCHANGED <<votes, allowed>>
    BY <1>4 DEF Expire
  <2>4. VotesCount' /\ ReferencesAreVotes' /\ \A a \in allowed : Agrees(a)'
    BY <2>1, <2>2, <2>3, StatusKeepsRecords
  <2> QED BY <2>3, <2>4 DEF RecordInv, AnswersAgree, OneReference
<1>5. CASE RefuseVote(s) BY <1>0, <1>5 DEF RefuseVote
<1>6. CASE RecordVote(s) BY <1>6, RecordVoteKeepsRecords
<1>7. CASE ApproveByVote(s)
  <2> DEFINE reference == [approver |-> call[s].actor, at |-> now[s]]
  <2>1. /\ pc[s] = "update" /\ call[s].op = "approve" /\ Approve(s, reference)
    BY <1>7 DEF ApproveByVote
  <2>2. reference \in Reference
    BY HolderTyped DEF Reference, LockInv
  <2>3. /\ seen[s].row # Absent /\ seen[s].row.status = "pending" /\ InWindow(s)
        /\ VoteOf(reference) \in votes[call[s].request]
    BY <2>1 DEF LockInv, VoterIsEntitled, VoteOf
  <2> QED BY <2>1, <2>2, <2>3, ApproveKeepsRecords
<1>8. CASE RejectByVote(s)
  BY <1>8, RejectKeepsRecords DEF RejectByVote, LockInv, VoterIsEntitled
<1>9. CASE AllowApproved(s)
  <2>1. /\ seen[s].row # Absent /\ seen[s].row.status = "approved"
        /\ now[s] < seen[s].row.expires
    BY <1>9 DEF AllowApproved, Finds, Usable, InWindow
  <2>2. /\ UNCHANGED <<requests, votes>>
        /\ allowed' = allowed \cup {[request |-> call[s].request,
                                     reference |-> seen[s].row.reference, at |-> now[s]]}
    BY <1>9 DEF AllowApproved
  <2>3. PICK answer :
            /\ answer.request = call[s].request /\ answer.reference = seen[s].row.reference
            /\ answer.at = now[s] /\ allowed' = allowed \cup {answer}
    BY <2>2
  <2>4. /\ answer.request \in Requests /\ requests[answer.request] # Absent
        /\ requests[answer.request].status = "approved"
        /\ requests[answer.request].reference = answer.reference
        /\ answer.at < requests[answer.request].expires
    BY <2>1, <2>3, FoundTyped
  <2>5. Agrees(answer)
    BY <2>4 DEF Agrees, RecordInv, ReferencesAreVotes
  <2>6. VotesCount' /\ ReferencesAreVotes'
    BY <2>2 DEF RecordInv, VotesCount, ReferencesAreVotes
  <2>7. AnswersAgree'
    BY <2>2, <2>3, <2>5 DEF RecordInv, AnswersAgree, Agrees
  <2>8. OneReference'
    BY <2>3, <2>4, AnswerKeepsReference DEF RecordInv, AnswersAgree, Agrees
  <2> QED BY <2>6, <2>7, <2>8 DEF RecordInv
<1>10. CASE RejectPending(s)
  BY <1>10, RejectKeepsRecords DEF RejectPending, Finds, Usable
<1>11. CASE ApprovePending(s)
  <2>1. PICK v \in Distinct(s, "approve") : Approve(s, [approver |-> v.actor, at |-> v.at])
    BY <1>11 DEF ApprovePending
  <2> DEFINE reference == [approver |-> v.actor, at |-> v.at]
  <2>2. /\ pc[s] = "locked" /\ seen[s].row # Absent /\ seen[s].row.status = "pending"
        /\ InWindow(s)
    BY <1>11 DEF ApprovePending, Finds, Serving, Usable
  <2>3. v \in votes[call[s].request] /\ v \in Vote /\ v.decision = "approve"
    BY <2>2, HolderTyped DEF Distinct, LockInv, SeenIsCurrent
  <2>4. reference \in Reference /\ VoteOf(reference) = v
    BY <2>3 DEF Reference, Vote, VoteOf
  <2> QED BY <2>1, <2>2, <2>3, <2>4, ApproveKeepsRecords
<1>12. CASE DenyPending(s) BY <1>0, <1>12 DEF DenyPending
<1>13. CASE DenyClosed(s) BY <1>0, <1>13 DEF DenyClosed
<1> QED BY <1>1, <1>2, <1>3, <1>4, <1>5, <1>6, <1>7, <1>8, <1>9, <1>10, <1>11,
           <1>12, <1>13 DEF Serve

\* Inv is an invariant.
LEMMA InvInvariant == Spec => []Inv
<1>1. Init => Inv
  <2> SUFFICES ASSUME Init PROVE Inv
    OBVIOUS
  <2>1. TypeOK
    BY ZeroIsATime DEF Init, TypeOK, Holding
  <2> QED BY <2>1 DEF Init, Inv, LockInv, Mutex, SeenIsCurrent, VoterIsEntitled, Holding,
             RecordInv, VotesCount, ReferencesAreVotes, AnswersAgree, OneReference
<1>2. Inv /\ [Next]_vars => Inv'
  <2> SUFFICES ASSUME Inv, [Next]_vars PROVE Inv'
    OBVIOUS
  <2>1. LockInv'
    BY LockStep DEF Inv
  <2>2. CASE UNCHANGED <<requests, votes, allowed>>
    BY <2>1, <2>2 DEF Inv, RecordInv, VotesCount, ReferencesAreVotes, AnswersAgree,
       Agrees, OneReference
  <2>3. ASSUME NEW s \in Sessions, Serve(s)
        PROVE  Inv'
    BY <2>1, <2>3, ServeReturns, ServeKeepsRecords DEF Inv
  <2> QED BY <2>2, <2>3 DEF Next, Tick, Crash, Begin, Enter, StatementFails, vars
<1> QED BY <1>1, <1>2, PTL DEF Spec

-----------------------------------------------------------------------------
(* Theorems.                                                               *)

\* Every variable keeps its type, an approved request always has its reference,
\* and a call has read exactly while it holds the lock.
THEOREM ApprovalsTypeInvariant == Spec => []TypeOK
<1>1. Inv => TypeOK
  BY DEF Inv, LockInv
<1> QED BY <1>1, InvInvariant, PTL

\* All allow answers for a request carry the same reference, through failed
\* updates, lost replies and restarts.
THEOREM ReferenceIsUnique == Spec => []OneReference
<1>1. Inv => OneReference
  BY DEF Inv, RecordInv
<1> QED BY <1>1, InvInvariant, PTL

\* What is allowed rests on a recorded vote of somebody else than the proposer,
\* vote and answer both within the window.
THEOREM NobodyApprovesAlone == Spec => []AllowsAreBacked
<1>1. Inv => AllowsAreBacked
  <2> SUFFICES ASSUME Inv, NEW a \in allowed
               PROVE  /\ requests[a.request] # Absent
                      /\ {a.at, a.reference.at} \subseteq 0 .. requests[a.request].expires - 1
                      /\ a.reference.approver # requests[a.request].proposer
                      /\ VoteOf(a.reference) \in votes[a.request]
    BY DEF AllowsAreBacked, VoteOf
  <2>1. Agrees(a) /\ a.request \in Requests /\ a.at \in Time /\ a.reference.at \in Time
    BY DEF Inv, RecordInv, AnswersAgree, LockInv, TypeOK, Reference
  <2>2. /\ a.reference.approver # requests[a.request].proposer
        /\ a.reference.at < requests[a.request].expires
    BY <2>1 DEF Agrees, VoteOf, Inv, RecordInv, VotesCount
  <2>3. requests[a.request].expires \in Nat
    BY <2>1 DEF Agrees, Inv, LockInv, TypeOK, Row
  <2> QED BY <2>1, <2>2, <2>3 DEF Agrees, Time
<1> QED BY <1>1, InvInvariant, PTL

\* A decision about a pending request, or an expiry, is all that may happen to it.
LEMMA StatusRests ==
    ASSUME LockInv, NEW q \in Requests, requests[q] # Absent,
           NEW status \in Statuses, NEW reference \in Reference \cup {Absent},
           status = "approved" <=> reference # Absent,
           SetStatus(q, status, reference),
           \/ status = "expired"
           \/ requests[q].status = "pending" /\ status \in {"approved", "rejected"},
           NEW r \in Requests
    PROVE  requests[r] # Absent => DecisionStands(r)
<1>1. TablesTyped
  BY TypeParts DEF LockInv
<1>2. /\ \A p \in Requests : p # q => requests'[p] = requests[p]
      /\ requests'[q] \in Row /\ requests'[q].status = status
      /\ requests'[q].action = requests[q].action
      /\ requests'[q].proposer = requests[q].proposer
      /\ requests'[q].created = requests[q].created
      /\ requests'[q].expires = requests[q].expires
  BY <1>1, SetStatusTyped
<1>3. requests[q] \in Row
  BY <1>1 DEF TablesTyped
<1>4. requests'[q] # Absent
  BY <1>2
<1> QED BY <1>2, <1>4 DEF DecisionStands, AskedFor

\* A step of the lock holder decides a request only while it is pending.
LEMMA ServeRests ==
    ASSUME LockInv, NEW s \in Sessions, pc[s] \in Holding, Serve(s), NEW r \in Requests
    PROVE  requests[r] # Absent => DecisionStands(r)
<1> DEFINE q == call[s].request
<1>0. ASSUME requests' = requests
      PROVE  requests[r] # Absent => DecisionStands(r)
  BY <1>0 DEF DecisionStands
<1>1. CASE CreateRequest(s)
  <2>1. q \in Requests /\ requests[q] = Absent
    BY <1>1, HolderTyped DEF CreateRequest, SubmitRefused, LockInv
  <2>2. \A p \in Requests : p # q => requests'[p] = requests[p]
    BY <1>1, <2>1 DEF CreateRequest, LockInv, TypeOK
  <2> QED BY <2>1, <2>2 DEF DecisionStands
<1>2. ASSUME seen[s].row # Absent
      PROVE  q \in Requests /\ requests[q] # Absent /\ requests[q] = seen[s].row
  BY <1>2, FoundTyped
<1>3. CASE Expire(s)
  <2>1. seen[s].row # Absent /\ SetStatus(q, "expired", Absent) /\ "expired" \in Statuses
    BY <1>3 DEF Expire, Usable, Statuses
  <2> QED BY <1>2, <2>1, StatusRests
<1>4. ASSUME Reject(s), seen[s].row # Absent, seen[s].row.status = "pending"
      PROVE  requests[r] # Absent => DecisionStands(r)
  <2>1. SetStatus(q, "rejected", Absent) /\ "rejected" \in Statuses
    BY <1>4 DEF Reject, Statuses
  <2> QED BY <1>2, <1>4, <2>1, StatusRests
<1>5. ASSUME NEW reference \in Reference, Approve(s, reference),
             seen[s].row # Absent, seen[s].row.status = "pending"
      PROVE  requests[r] # Absent => DecisionStands(r)
  <2>1. SetStatus(q, "approved", reference) /\ "approved" \in Statuses /\ reference # Absent
    BY <1>5 DEF Approve, Statuses
  <2> QED BY <1>2, <1>5, <2>1, StatusRests
<1>6. CASE ApproveByVote(s)
  <2>1. [approver |-> call[s].actor, at |-> now[s]] \in Reference
    BY HolderTyped DEF Reference, LockInv
  <2> QED BY <1>5, <1>6, <2>1 DEF ApproveByVote, LockInv, VoterIsEntitled
<1>7. CASE RejectByVote(s)
  BY <1>4, <1>7 DEF RejectByVote, LockInv, VoterIsEntitled
<1>8. CASE RejectPending(s)
  BY <1>4, <1>8 DEF RejectPending, Finds, Usable
<1>9. CASE ApprovePending(s)
  <2>1. PICK v \in Distinct(s, "approve") : Approve(s, [approver |-> v.actor, at |-> v.at])
    BY <1>9 DEF ApprovePending
  <2>2. [approver |-> v.actor, at |-> v.at] \in Reference
    BY HolderTyped DEF Distinct, Vote, Reference, LockInv
  <2>3. seen[s].row # Absent /\ seen[s].row.status = "pending"
    BY <1>9 DEF ApprovePending, Finds, Usable
  <2> QED BY <1>5, <2>1, <2>2, <2>3
<1> QED BY <1>0, <1>1, <1>3, <1>6, <1>7, <1>8, <1>9
        DEF Serve, DenySubmit, DenyUnusable, RefuseVote, RecordVote, AllowApproved,
            DenyPending, DenyClosed

\* A request is decided at most once, and then changes only by expiring.
THEOREM DecisionsAreFinal == Spec => DecidedRequestsRest
<1>1. Inv /\ [Next]_vars =>
          [\A r \in Requests : requests[r] # Absent => DecisionStands(r)]_vars
  <2> SUFFICES ASSUME Inv, [Next]_vars, NEW r \in Requests
               PROVE  requests[r] # Absent => DecisionStands(r)
    OBVIOUS
  <2>1. CASE UNCHANGED requests
    BY <2>1 DEF DecisionStands
  <2>2. ASSUME NEW s \in Sessions, Serve(s)
        PROVE  requests[r] # Absent => DecisionStands(r)
    BY <2>2, ServeReturns, ServeRests DEF Inv
  <2> QED BY <2>1, <2>2 DEF Next, Tick, Crash, Begin, Enter, StatementFails, vars
<1> QED BY <1>1, InvInvariant, PTL DEF Spec, DecidedRequestsRest

-----------------------------------------------------------------------------
(* The rate limit.                                                         *)

\* While a call holds the lock, what it counted is still what it would count.
CountIsCurrent(s) == seen[s].recent = MadeWithinTheHour(call[s].actor, now[s])

RecentIsCurrent == \A s \in Sessions : pc[s] = "locked" => CountIsCurrent(s)

\* Every step keeps the count of a call that holds the lock current.
LEMMA RecentStep ==
    ASSUME LockInv, RecentIsCurrent, [Next]_vars
    PROVE  RecentIsCurrent'
<1> SUFFICES ASSUME NEW t \in Sessions, pc'[t] = "locked"
             PROVE  CountIsCurrent(t)'
  BY DEF RecentIsCurrent
<1>1. ASSUME pc[t] = "locked", seen'[t] = seen[t], call'[t] = call[t], now'[t] = now[t],
             requests' = requests
      PROVE  CountIsCurrent(t)'
  BY <1>1 DEF RecentIsCurrent, CountIsCurrent, MadeWithinTheHour
<1>2. CASE Tick BY <1>1, <1>2 DEF Tick
<1>3. CASE Crash BY <1>3 DEF Crash
<1>4. ASSUME NEW s \in Sessions, Begin(s)
      PROVE  CountIsCurrent(t)'
  BY <1>1, <1>4 DEF Begin, LockInv, TypeOK
<1>5. ASSUME NEW s \in Sessions, Enter(s)
      PROVE  CountIsCurrent(t)'
  <2>1. CASE t = s
    <3>1. seen'[t].recent = MadeWithinTheHour(call[t].actor, now[t])
      BY <1>5, <2>1 DEF Enter, LockInv, TypeOK
    <3> QED BY <1>5, <3>1 DEF Enter, CountIsCurrent, MadeWithinTheHour
  <2>2. CASE t # s
    BY <1>1, <1>5, <2>2 DEF Enter, LockInv, TypeOK
  <2> QED BY <2>1, <2>2
<1>6. ASSUME NEW s \in Sessions, pc[s] \in Holding
      PROVE  ~Return(s) /\ ~RecordVote(s)
  <2>1. CASE t = s
    BY <1>6, <2>1 DEF Return, RecordVote, LockInv, TypeOK
  <2>2. CASE t # s
    BY <1>6, <2>2 DEF Return, RecordVote, LockInv, TypeOK, Mutex, Holding
  <2> QED BY <2>1, <2>2
<1>7. CASE UNCHANGED vars BY <1>1, <1>7 DEF vars
<1> QED BY <1>2, <1>3, <1>4, <1>5, <1>6, <1>7, ServeReturns DEF Next, StatementFails

\* The requests of an hour are finitely many.
LEMMA MadeInFinite ==
    ASSUME NEW a, NEW t
    PROVE  IsFiniteSet(MadeIn(a, t)) /\ Cardinality(MadeIn(a, t)) \in Nat
BY FS_Subset, FS_CardinalityType DEF MadeIn

\* One more element makes a set larger by one at most.
LEMMA AddOneElement ==
    ASSUME NEW S, IsFiniteSet(S), NEW x
    PROVE  IsFiniteSet(S \cup {x}) /\ Cardinality(S \cup {x}) <= Cardinality(S) + 1
<1>1. Cardinality(S) \in Nat
  BY FS_CardinalityType
<1>2. CASE x \in S
  <2>1. S \cup {x} = S
    BY <1>2
  <2>2. IsFiniteSet(S \cup {x}) /\ Cardinality(S \cup {x}) = Cardinality(S)
    BY <2>1, Zenon
  <2> QED BY <1>1, <2>2
<1>3. CASE x \notin S
  <2>1. IsFiniteSet(S \cup {x}) /\ Cardinality(S \cup {x}) = Cardinality(S) + 1
    BY <1>3, FS_AddElement, Zenon
  <2> QED BY <1>1, <2>1
<1> QED BY <1>2, <1>3

\* Only submits make requests.
LEMMA OnlySubmitsCreate ==
    ASSUME LockInv, NEW s \in Sessions, Serve(s), ~CreateRequest(s),
           NEW a, NEW t
    PROVE  MadeIn(a, t)' = MadeIn(a, t)
<1>1. pc[s] \in Holding
  BY ServeReturns
<1>2. CASE requests' = requests
  BY <1>2 DEF MadeIn
<1>3. ASSUME NEW status \in Statuses, NEW reference \in Reference \cup {Absent},
             status = "approved" <=> reference # Absent,
             seen[s].row # Absent, SetStatus(call[s].request, status, reference)
      PROVE  MadeIn(a, t)' = MadeIn(a, t)
  <2>1. /\ call[s].request \in Requests /\ requests[call[s].request] # Absent
        /\ TablesTyped
    BY <1>1, <1>3, FoundTyped, TypeParts DEF LockInv
  <2>2. \A r \in Requests :
            /\ requests'[r] # Absent <=> requests[r] # Absent
            /\ requests[r] # Absent =>
                   /\ requests'[r].proposer = requests[r].proposer
                   /\ requests'[r].created = requests[r].created
    BY <1>3, <2>1, SetStatusTyped
  <2> QED BY <2>2 DEF MadeIn
<1>4. CASE Expire(s) BY <1>3, <1>4 DEF Expire, Usable, Statuses
<1>5. ASSUME Reject(s), seen[s].row # Absent
      PROVE  MadeIn(a, t)' = MadeIn(a, t)
  BY <1>3, <1>5 DEF Reject, Statuses
<1>6. ASSUME NEW reference \in Reference, Approve(s, reference), seen[s].row # Absent
      PROVE  MadeIn(a, t)' = MadeIn(a, t)
  <2>1. reference # Absent
    OBVIOUS
  <2> QED BY <1>3, <1>6, <2>1 DEF Approve, Statuses
<1>7. CASE ApproveByVote(s)
  <2>1. [approver |-> call[s].actor, at |-> now[s]] \in Reference
    BY <1>1, HolderTyped DEF Reference, LockInv
  <2> QED BY <1>6, <1>7, <2>1 DEF ApproveByVote, LockInv, VoterIsEntitled
<1>8. CASE RejectByVote(s) BY <1>5, <1>8 DEF RejectByVote, LockInv, VoterIsEntitled
<1>9. CASE RejectPending(s) BY <1>5, <1>9 DEF RejectPending, Finds, Usable
<1>10. CASE ApprovePending(s)
  <2>1. PICK v \in Distinct(s, "approve") : Approve(s, [approver |-> v.actor, at |-> v.at])
    BY <1>10 DEF ApprovePending
  <2>2. [approver |-> v.actor, at |-> v.at] \in Reference
    BY <1>1, HolderTyped DEF Distinct, Vote, Reference, LockInv
  <2> QED BY <1>6, <1>10, <2>1, <2>2 DEF ApprovePending, Finds, Usable
<1> QED BY <1>2, <1>4, <1>7, <1>8, <1>9, <1>10
        DEF Serve, DenySubmit, DenyUnusable, RefuseVote, RecordVote, AllowApproved,
            DenyPending, DenyClosed

\* A submit counted every request of any hour that it adds one to: such an hour
\* starts at most an hour before the time the submit captured.
LEMMA CreateKeepsRate ==
    ASSUME LockInv, RecentIsCurrent, RateLimit, NEW s \in Sessions, CreateRequest(s)
    PROVE  RateLimit'
<1> DEFINE q == call[s].request
<1>1. /\ q \in Requests /\ call[s].actor \in Actors /\ now[s] \in Time
      /\ seen[s].recent = MadeWithinTheHour(call[s].actor, now[s])
      /\ pc[s] \in Holding
  BY HolderTyped DEF CreateRequest, Serving, Holding, LockInv, RecentIsCurrent,
     CountIsCurrent
<1>2. Cardinality(seen[s].recent) < MaxRequestsPerHour
  <2>1. seen[s].recent \subseteq Requests
    BY <1>1 DEF MadeWithinTheHour
  <2>2. Cardinality(seen[s].recent) \in Nat
    BY <2>1, FS_Subset, FS_CardinalityType
  <2>3. ~(Cardinality(seen[s].recent) >= MaxRequestsPerHour)
    BY DEF CreateRequest, SubmitRefused
  <2> QED BY <2>2, <2>3
<1>3. /\ \A r \in Requests : r # q => requests'[r] = requests[r]
      /\ requests'[q].proposer = call[s].actor /\ requests'[q].created = now[s]
  BY <1>1 DEF CreateRequest, LockInv, TypeOK
<1> SUFFICES ASSUME NEW a \in Actors, NEW t \in Time
             PROVE  Cardinality(MadeIn(a, t)') <= MaxRequestsPerHour
  BY DEF RateLimit
<1>4. CASE a = call[s].actor /\ now[s] \in t .. t + Hour
  <2>1. MadeIn(a, t) \subseteq seen[s].recent
    <3> SUFFICES ASSUME NEW r \in MadeIn(a, t)
                 PROVE  r \in MadeWithinTheHour(a, now[s])
      BY <1>1, <1>4
    <3>1. /\ r \in Requests /\ requests[r] # Absent /\ requests[r].proposer = a
          /\ requests[r].created \in t .. t + Hour
      BY DEF MadeIn
    <3>2. requests[r].created + Hour >= now[s]
      BY <1>1, <1>4, <3>1 DEF Time
    <3> QED BY <3>1, <3>2 DEF MadeWithinTheHour
  <2>2. IsFiniteSet(seen[s].recent)
    BY <1>1, FS_Subset DEF MadeWithinTheHour
  <2>3. Cardinality(MadeIn(a, t)) <= Cardinality(seen[s].recent)
    BY <2>1, <2>2, FS_Subset
  <2>4. MadeIn(a, t)' \subseteq MadeIn(a, t) \cup {q}
    BY <1>3 DEF MadeIn
  <2>5. /\ IsFiniteSet(MadeIn(a, t) \cup {q})
        /\ Cardinality(MadeIn(a, t) \cup {q}) <= Cardinality(MadeIn(a, t)) + 1
    BY MadeInFinite, AddOneElement
  <2>6. Cardinality(MadeIn(a, t)') <= Cardinality(MadeIn(a, t) \cup {q})
    BY <2>4, <2>5, FS_Subset
  <2>7. /\ Cardinality(MadeIn(a, t)') \in Nat /\ Cardinality(MadeIn(a, t)) \in Nat
        /\ Cardinality(seen[s].recent) \in Nat
        /\ Cardinality(MadeIn(a, t) \cup {q}) \in Nat
    BY <2>2, <2>4, <2>5, MadeInFinite, FS_Subset, FS_CardinalityType
  <2> QED BY <1>2, <2>3, <2>5, <2>6, <2>7
<1>5. CASE ~(a = call[s].actor /\ now[s] \in t .. t + Hour)
  <2>1. MadeIn(a, t)' \subseteq MadeIn(a, t)
    BY <1>3, <1>5 DEF MadeIn
  <2>2. Cardinality(MadeIn(a, t)') <= Cardinality(MadeIn(a, t))
    BY <2>1, MadeInFinite, FS_Subset
  <2>3. Cardinality(MadeIn(a, t)') \in Nat /\ Cardinality(MadeIn(a, t)) \in Nat
    BY <2>1, MadeInFinite, FS_Subset, FS_CardinalityType
  <2> QED BY <2>2, <2>3 DEF RateLimit
<1> QED BY <1>4, <1>5

\* No proposer makes more requests in any hour than permitted, in whatever order
\* concurrent submits captured the time and got the lock.
THEOREM HourlyLimit == Spec => []RateLimit
<1>1. Init => RecentIsCurrent /\ RateLimit
  <2> SUFFICES ASSUME Init PROVE RecentIsCurrent /\ RateLimit
    OBVIOUS
  <2>1. RecentIsCurrent
    BY DEF Init, RecentIsCurrent
  <2>2. \A a, t : MadeIn(a, t) = {}
    BY DEF Init, MadeIn
  <2> QED BY <2>1, <2>2, FS_EmptySet DEF RateLimit
<1>2. Inv /\ RecentIsCurrent /\ RateLimit /\ [Next]_vars => RecentIsCurrent' /\ RateLimit'
  <2> SUFFICES ASSUME Inv, RecentIsCurrent, RateLimit, [Next]_vars
               PROVE  RecentIsCurrent' /\ RateLimit'
    OBVIOUS
  <2>1. RecentIsCurrent'
    BY RecentStep DEF Inv
  <2>2. CASE UNCHANGED requests
    <3>1. \A a, t : MadeIn(a, t)' = MadeIn(a, t)
      BY <2>2 DEF MadeIn
    <3> QED BY <2>1, <3>1 DEF RateLimit
  <2>3. ASSUME NEW s \in Sessions, Serve(s)
        PROVE  RateLimit'
    <3>1. CASE CreateRequest(s)
      BY <3>1, CreateKeepsRate DEF Inv
    <3>2. CASE ~CreateRequest(s)
      <4>1. \A a, t : MadeIn(a, t)' = MadeIn(a, t)
        BY <2>3, <3>2, OnlySubmitsCreate DEF Inv
      <4> QED BY <4>1 DEF RateLimit
    <3> QED BY <3>1, <3>2
  <2> QED BY <2>1, <2>2, <2>3 DEF Next, Tick, Crash, Begin, Enter, StatementFails, vars
<1> QED BY <1>1, <1>2, InvInvariant, PTL DEF Spec

-----------------------------------------------------------------------------
(* The calls look atomic.                                                  *)

\* A call is one of those that may be made, and arrived by now; a voter about to
\* update the request named its action.
CallsInv ==
    \A s \in Sessions :
        /\ call[s] \in Calls \cup {Absent}
        /\ now[s] \in 0 .. clock
        /\ pc[s] = "update" => Usable(s)

DualInv == Inv /\ RecentIsCurrent /\ CallsInv

\* A call that returns leaves nothing to say of it.
LEMMA ReturnKeepsCalls ==
    ASSUME LockInv, CallsInv, NEW s \in Sessions, Return(s), UNCHANGED clock
    PROVE  CallsInv'
<1>1. clock \in Nat BY DEF LockInv, TypeOK, Time
<1>2. ASSUME NEW t \in Sessions
      PROVE  /\ call'[t] \in Calls \cup {Absent} /\ now'[t] \in 0 .. clock
             /\ pc'[t] = "update" => Usable(t)'
  <2>1. CASE t = s BY <1>1, <2>1 DEF LockInv, TypeOK, Return
  <2>2. CASE t # s
    BY <2>2 DEF LockInv, TypeOK, Return, CallsInv, Usable
  <2> QED BY <2>1, <2>2
<1> QED BY <1>2 DEF CallsInv

\* Every step keeps what is known of the calls.
LEMMA CallsStep ==
    ASSUME LockInv, CallsInv, [Next]_vars
    PROVE  CallsInv'
<1> USE DEF CallsInv
<1>1. clock \in Nat BY DEF LockInv, TypeOK, Time
<1>2. CASE Tick BY <1>1, <1>2 DEF Tick, Usable
<1>3. CASE Crash BY <1>1, <1>3 DEF Crash
<1>4. ASSUME NEW s \in Sessions, Begin(s) PROVE CallsInv'
  <2>1. PICK c \in Calls : call' = [call EXCEPT ![s] = c] BY <1>4 DEF Begin
  <2>2. /\ pc' = [pc EXCEPT ![s] = "waiting"] /\ now' = [now EXCEPT ![s] = clock]
        /\ UNCHANGED <<clock, seen>>
    BY <1>4 DEF Begin
  <2>3. \A t \in Sessions :
            /\ call'[t] \in Calls \cup {Absent} /\ now'[t] \in 0 .. clock
            /\ pc'[t] = "update" => pc[t] = "update" /\ call'[t] = call[t]
    BY <1>1, <2>1, <2>2 DEF LockInv, TypeOK
  <2> QED BY <2>2, <2>3 DEF Usable
<1>5. ASSUME NEW s \in Sessions, Enter(s) PROVE CallsInv'
  <2>1. /\ pc' = [pc EXCEPT ![s] = "locked"] /\ UNCHANGED <<clock, call, now>>
        /\ \A t \in Sessions : t # s => seen'[t] = seen[t]
    BY <1>5 DEF Enter, LockInv, TypeOK
  <2>2. \A t \in Sessions : pc'[t] = "update" => t # s /\ pc[t] = "update"
    BY <2>1 DEF LockInv, TypeOK
  <2> QED BY <2>1, <2>2 DEF Usable
<1>6. ASSUME NEW s \in Sessions, RecordVote(s) PROVE CallsInv'
  <2>1. /\ pc' = [pc EXCEPT ![s] = "update"] /\ UNCHANGED <<clock, call, now, seen>>
        /\ Usable(s)
    BY <1>6 DEF RecordVote, Finds
  <2>2. \A t \in Sessions : pc'[t] = "update" => t = s \/ pc[t] = "update"
    BY <2>1 DEF LockInv, TypeOK
  <2> QED BY <2>1, <2>2 DEF Usable
<1>7. ASSUME NEW s \in Sessions, Return(s), UNCHANGED clock PROVE CallsInv'
  BY <1>7, ReturnKeepsCalls
<1>8. ASSUME NEW s \in Sessions, Serve(s) PROVE UNCHANGED clock
  BY <1>8 DEF Serve, DenySubmit, CreateRequest, DenyUnusable, Expire, RefuseVote,
     RecordVote, ApproveByVote, RejectByVote, AllowApproved, RejectPending,
     ApprovePending, DenyPending, DenyClosed, Approve, Reject
<1>9. CASE UNCHANGED vars BY <1>9 DEF vars, Usable
<1> QED BY <1>2, <1>3, <1>4, <1>5, <1>6, <1>7, <1>8, <1>9, ServeReturns
        DEF Next, StatementFails

\* The call that holds the lock is one that may be made, at a time that has come;
\* when it has found its request, it knows the request as it is.
LEMMA HolderConcerns ==
    ASSUME DualInv, NEW s \in Sessions, pc[s] \in Holding
    PROVE  /\ call[s] \in Calls /\ now[s] \in 0 .. clock
           /\ call[s].request \in Requests
           /\ seen[s].row = requests[call[s].request]
           /\ pc[s] = "locked" => seen[s].votes = votes[call[s].request]
           /\ Usable(s) => Dual!Concerns(call[s])
           /\ InWindow(s) <=> Dual!InTime(call[s], now[s])
<1>1. call[s] \in Calls /\ call[s].request \in Requests /\ now[s] \in 0 .. clock
  BY HolderTyped DEF DualInv, CallsInv, Inv, LockInv
<1>2. /\ seen[s].row = requests[call[s].request]
      /\ pc[s] = "locked" => seen[s].votes = votes[call[s].request]
  BY DEF DualInv, Inv, LockInv, SeenIsCurrent
<1> QED BY <1>1, <1>2 DEF Usable, InWindow, Dual!Concerns, Dual!InTime

\* An approval is one of DualControl if its vote is.
LEMMA ApproveMaps ==
    ASSUME DualInv, NEW s \in Sessions, pc[s] \in Holding, Usable(s), InWindow(s),
           seen[s].row.status = "pending",
           NEW v \in votes[call[s].request], v.decision = "approve",
           \/ call[s].op = "approve" /\ v.actor = call[s].actor /\ v.at = now[s]
           \/ /\ call[s].op = "execute"
              /\ \A w \in votes[call[s].request] : w.decision # "reject" /\ v.at <= w.at,
           Approve(s, [approver |-> v.actor, at |-> v.at])
    PROVE  Dual!Approve(call[s], now[s])
<1>1. /\ Dual!Concerns(call[s]) /\ Dual!InTime(call[s], now[s])
      /\ Dual!Has(call[s], "pending")
  BY HolderConcerns DEF Dual!Has
<1>2. /\ Dual!Conclude(call[s], "approved", [approver |-> v.actor, at |-> v.at])
      /\ \/ Dual!Answer(call[s], [approver |-> v.actor, at |-> v.at], now[s])
         \/ UNCHANGED allowed
      /\ UNCHANGED <<votes, clock>>
  BY DEF Approve, SetStatus, Dual!Conclude, Dual!Answer
<1> QED BY <1>1, <1>2 DEF Dual!Approve

\* Of the votes of a request that a call has found, all are by others than its
\* proposer.
LEMMA AllVotesAreDistinct ==
    ASSUME DualInv, NEW s \in Sessions, pc[s] = "locked", Usable(s), NEW decision
    PROVE  Distinct(s, decision) = {v \in votes[call[s].request] : v.decision = decision}
<1>1. /\ seen[s].votes = votes[call[s].request] /\ call[s].request \in Requests
      /\ seen[s].row = requests[call[s].request]
  BY HolderConcerns DEF Holding
<1> QED BY <1>1 DEF Distinct, DualInv, Inv, RecordInv, VotesCount

\* DualControl counts as the service does.
LEMMA SameCardinality == \A S : Dual!Cardinality(S) = Cardinality(S)
BY Zenon DEF Dual!Cardinality, Cardinality

\* What a call does with the lock is an action of DualControl, or nothing that a
\* reader of the tables can see.
LEMMA ServeMaps ==
    ASSUME DualInv, NEW s \in Sessions, Serve(s)
    PROVE  [Dual!Next]_(Dual!dualVars)
<1> DEFINE c == call[s]  q == call[s].request
<1>0. pc[s] \in Holding BY ServeReturns
<1>1. /\ c \in Calls /\ now[s] \in 0 .. clock /\ q \in Requests
      /\ seen[s].row = requests[q]
      /\ Usable(s) => Dual!Concerns(c)
      /\ InWindow(s) <=> Dual!InTime(c, now[s])
      /\ pc[s] = "locked" => seen[s].votes = votes[q]
  BY <1>0, HolderConcerns
<1>2. ASSUME UNCHANGED <<requests, votes, clock, allowed>> PROVE Dual!dualVars' = Dual!dualVars
  BY <1>2 DEF Dual!dualVars
<1>3. CASE DenySubmit(s) \/ DenyUnusable(s) \/ RefuseVote(s) \/ DenyPending(s) \/ DenyClosed(s)
  BY <1>2, <1>3 DEF DenySubmit, DenyUnusable, RefuseVote, DenyPending, DenyClosed
<1>4. CASE CreateRequest(s)
  <2>1. /\ c.op = "submit" /\ requests[q] = Absent /\ pc[s] = "locked"
        /\ ~(now[s] >= c.expires) /\ ~(Cardinality(seen[s].recent) >= MaxRequestsPerHour)
    BY <1>4 DEF CreateRequest, Serving, SubmitRefused
  <2>2. seen[s].recent = Dual!Recent(c, now[s])
    BY <2>1 DEF DualInv, RecentIsCurrent, CountIsCurrent, MadeWithinTheHour, Dual!Recent
  <2>3. Cardinality(seen[s].recent) \in Nat
    BY <2>2, FS_Subset, FS_CardinalityType DEF Dual!Recent
  <2>4. c.expires \in Nat /\ now[s] \in Nat
    BY <1>0, HolderTyped DEF DualInv, Inv, LockInv, Time
  <2>5. now[s] < c.expires /\ Cardinality(Dual!Recent(c, now[s])) < MaxRequestsPerHour
    BY <2>1, <2>2, <2>3, <2>4
  <2>6. Dual!Cardinality(Dual!Recent(c, now[s])) < MaxRequestsPerHour
    BY <2>5, SameCardinality
  <2>7. Dual!Propose(c, now[s])
    BY <1>4, <2>1, <2>5, <2>6 DEF CreateRequest, Dual!Propose
  <2> QED BY <1>1, <2>7 DEF Dual!Next
<1>5. CASE Expire(s)
  <2>1. c.op # "submit" /\ Usable(s) /\ ~InWindow(s)
    BY <1>5 DEF Expire, Serving
  <2>2. Dual!Expire(c, now[s])
    BY <1>1, <1>5, <2>1 DEF Expire, SetStatus, Dual!Expire, Dual!Conclude
  <2> QED BY <1>1, <2>2 DEF Dual!Next
<1>6. CASE RecordVote(s)
  <2>1. /\ c.op \in {"approve", "reject"} /\ Usable(s) /\ InWindow(s)
        /\ ~VoteRefused(s) /\ UNCHANGED <<requests, clock, allowed>>
        /\ votes' = [votes EXCEPT ![q] = @ \cup
               {[actor |-> c.actor, decision |-> c.op, at |-> now[s]]}]
    BY <1>6 DEF RecordVote, Finds, Serving
  <2>2. /\ Dual!Has(c, "pending") /\ c.actor # requests[q].proposer
        /\ \A v \in votes[q] : v.actor # c.actor
    BY <1>1, <2>1 DEF VoteRefused, Voters, Dual!Has
  <2>3. Dual!Vote(c, now[s]) BY <1>1, <2>1, <2>2 DEF Dual!Vote
  <2> QED BY <1>1, <2>3 DEF Dual!Next
<1>7. CASE ApproveByVote(s)
  <2>1. /\ pc[s] = "update" /\ c.op = "approve"
        /\ Approve(s, [approver |-> c.actor, at |-> now[s]])
    BY <1>7 DEF ApproveByVote
  <2>2. PICK v \in votes[q] :
            v = [actor |-> c.actor, decision |-> "approve", at |-> now[s]]
    BY <2>1 DEF DualInv, Inv, LockInv, VoterIsEntitled
  <2>3. v.actor = c.actor /\ v.at = now[s] /\ v.decision = "approve" BY <2>2
  <2>4. Usable(s) /\ InWindow(s) /\ seen[s].row.status = "pending"
    BY <2>1 DEF DualInv, CallsInv, Inv, LockInv, VoterIsEntitled
  <2>5. Dual!Approve(c, now[s]) BY <1>0, <2>1, <2>3, <2>4, ApproveMaps
  <2> QED BY <1>1, <2>5 DEF Dual!Next
<1>8. CASE RejectByVote(s)
  <2>1. pc[s] = "update" /\ c.op = "reject" /\ Reject(s)
    BY <1>8 DEF RejectByVote
  <2>2. PICK v \in votes[q] :
            v = [actor |-> c.actor, decision |-> "reject", at |-> now[s]]
    BY <2>1 DEF DualInv, Inv, LockInv, VoterIsEntitled
  <2>3. Usable(s) /\ InWindow(s) /\ seen[s].row.status = "pending"
    BY <2>1 DEF DualInv, CallsInv, Inv, LockInv, VoterIsEntitled
  <2>4. Dual!Reject(c, now[s])
    BY <1>1, <2>1, <2>2, <2>3 DEF Reject, SetStatus, Dual!Reject, Dual!Conclude, Dual!Has
  <2> QED BY <1>1, <2>4 DEF Dual!Next
<1>9. CASE AllowApproved(s)
  <2>1. /\ c.op = "execute" /\ Usable(s) /\ InWindow(s)
        /\ seen[s].row.status = "approved" /\ UNCHANGED <<requests, votes, clock>>
        /\ allowed' = allowed \cup {[request |-> q, reference |-> seen[s].row.reference,
                                     at |-> now[s]]}
    BY <1>9 DEF AllowApproved, Finds, Serving
  <2>2. Dual!Allow(c, now[s])
    BY <1>1, <2>1 DEF Dual!Allow, Dual!Has, Dual!Answer
  <2> QED BY <1>1, <2>2 DEF Dual!Next
<1>10. CASE RejectPending(s)
  <2>1. /\ pc[s] = "locked" /\ c.op = "execute" /\ Usable(s) /\ InWindow(s)
        /\ seen[s].row.status = "pending" /\ Reject(s)
    BY <1>10 DEF RejectPending, Finds, Serving
  <2>2. PICK v \in votes[q] : v.decision = "reject"
    BY <1>10, <2>1, AllVotesAreDistinct DEF RejectPending
  <2>3. Dual!Reject(c, now[s])
    BY <1>1, <2>1, <2>2 DEF Reject, SetStatus, Dual!Reject, Dual!Conclude, Dual!Has
  <2> QED BY <1>1, <2>3 DEF Dual!Next
<1>11. CASE ApprovePending(s)
  <2>1. /\ pc[s] = "locked" /\ c.op = "execute" /\ Usable(s) /\ InWindow(s)
        /\ seen[s].row.status = "pending"
    BY <1>11 DEF ApprovePending, Finds, Serving
  <2>2. PICK v \in Distinct(s, "approve") :
            /\ \A w \in Distinct(s, "approve") : v.at <= w.at
            /\ Approve(s, [approver |-> v.actor, at |-> v.at])
    BY <1>11 DEF ApprovePending
  <2>3. v \in votes[q] /\ v.decision = "approve"
    BY <2>1, <2>2, AllVotesAreDistinct
  <2>4. \A w \in votes[q] : w.decision # "reject"
    BY <1>11, <2>1, AllVotesAreDistinct DEF ApprovePending
  <2>5. \A w \in votes[q] : w.decision \in {"approve", "reject"}
    BY <1>1 DEF DualInv, Inv, LockInv, TypeOK, Vote
  <2>6. \A w \in votes[q] : w \in Distinct(s, "approve")
    BY <2>1, <2>4, <2>5, AllVotesAreDistinct
  <2>7. \A w \in votes[q] : w.decision # "reject" /\ v.at <= w.at
    BY <2>2, <2>4, <2>6
  <2>8. Dual!Approve(c, now[s]) BY <1>0, <2>1, <2>2, <2>3, <2>7, ApproveMaps
  <2> QED BY <1>1, <2>8 DEF Dual!Next
<1> QED BY <1>3, <1>4, <1>5, <1>6, <1>7, <1>8, <1>9, <1>10, <1>11 DEF Serve

\* Every step of the service is a step of DualControl, or one it does not see.
LEMMA DualStep ==
    ASSUME DualInv, [Next]_vars
    PROVE  [Dual!Next]_(Dual!dualVars)
<1>1. CASE Tick BY <1>1 DEF Tick, Dual!Tick, Dual!Next
<1>2. ASSUME NEW s \in Sessions, Serve(s) PROVE [Dual!Next]_(Dual!dualVars)
  BY <1>2, ServeMaps
<1>3. CASE UNCHANGED <<requests, votes, clock, allowed>> BY <1>3 DEF Dual!dualVars
<1> QED BY <1>1, <1>2, <1>3 DEF Next, Crash, Begin, Enter, StatementFails, vars

\* The invariant that the refinement rests on holds in every run.
LEMMA DualInvariant == Spec => []DualInv
<1>1. Init => RecentIsCurrent /\ CallsInv
  BY DEF Init, RecentIsCurrent, CallsInv
<1>2. Inv /\ RecentIsCurrent /\ CallsInv /\ [Next]_vars => RecentIsCurrent' /\ CallsInv'
  BY RecentStep, CallsStep DEF Inv
<1> QED BY <1>1, <1>2, InvInvariant, PTL DEF Spec, DualInv

\* The approval service implements DualControl: whatever concurrent calls, failed
\* statements, lost replies and restarts do, its tables and answers are those of
\* calls that took effect one at a time and all at once.
THEOREM ApprovalsImplementDualControl == Spec => CallsLookAtomic
<1>1. Init => Dual!Init BY DEF Init, Dual!Init
<1>2. DualInv /\ [Next]_vars => [Dual!Next]_(Dual!dualVars) BY DualStep
<1> QED BY <1>1, <1>2, DualInvariant, PTL DEF Spec, CallsLookAtomic, Dual!Spec
=============================================================================
