------------------------ MODULE OrderLifecycleProofs ------------------------
(***************************************************************************)
(* Proofs about OrderLifecycle for every set of orders, sessions, requests *)
(* and keys.                                                               *)
(***************************************************************************)
EXTENDS OrderLifecycle, SequenceTheorems, TLAPS

USE ConstantsAssumption, AbsentAssumption

-----------------------------------------------------------------------------
(* Type correctness.                                                       *)

\* Every call expands to a non-empty sequence of well-formed commands.
LEMMA KeyTyped ==
    ASSUME NEW r \in Requests, NEW i \in 1..Len(r.items)
    PROVE  KeyOf(r, r.items[i]) \in Keys
<1>1. r \in Request BY DEF Request
<1>2. r.items[i] \in Items BY <1>1 DEF Request
<1>3. CASE r.kind \in {"submit", "cancel", "venue"}
  <2>1. r.items[i].raw \in RawKeys BY <1>2, <1>3 DEF Items
  <2> QED BY <1>1, <1>3, <2>1 DEF KeyOf, KeyOr, Keys, Request
<1>4. CASE r.kind \in {"batch", "cancel_all"}
  <2>1. r.batch \in RawKeys /\ r.at \in Times BY <1>1 DEF Request
  <2>2. r.items[i].raw # Absent => r.items[i].raw \in RawKeys BY <1>2 DEF Items
  <2> QED BY <1>4, <2>1, <2>2 DEF KeyOf, Keys
<1> QED BY <1>1, <1>3, <1>4 DEF Request, Kinds

\* Each item of a call gives a well-formed command.
LEMMA CommandTyped ==
    ASSUME NEW r \in Requests, NEW i \in 1..Len(r.items)
    PROVE  CommandOf(r, r.items[i]) \in Commands
<1>1. r \in Request BY DEF Request
<1>2. r.items[i] \in Items BY <1>1 DEF Request
<1>3. TargetOf(r) \in States BY <1>1 DEF Request, TargetOf, VenueState, VenueStatuses, States
<1> QED BY <1>1, <1>2, <1>3, KeyTyped DEF CommandOf, Commands, Request, Items

\* A call gives a non-empty sequence of well-formed commands.
LEMMA CommandsTyped ==
    ASSUME NEW r \in Requests
    PROVE  CommandsOf(r) \in Seq(Commands) /\ CommandsOf(r) # << >>
<1>1. r \in Request /\ r.items # << >> BY DEF Request
<1>2. Len(r.items) \in Nat \ {0} BY <1>1, EmptySeq, LenProperties DEF Request
<1>3. \A i \in 1..Len(r.items) : CommandOf(r, r.items[i]) \in Commands BY CommandTyped
<1> QED BY <1>2, <1>3 DEF CommandsOf

\* The actions fall into a few shapes.  A session that only moves its pc:
LEMMA StepKeepsTypes ==
    ASSUME SessionsOK, NEW s \in Sessions, NEW p \in {"load"} \cup InTransaction,
           pc[s] # "idle", pc' = [pc EXCEPT ![s] = p],
           p \in InTransaction => Current(s).order \in Orders,
           UNCHANGED <<call, queue, seen, answers>>
    PROVE  SessionsOK'
BY DEF SessionsOK, InTransaction, Current

\* A session that ends its call:
LEMMA FinishKeepsTypes ==
    ASSUME SessionsOK, NEW s \in Sessions, Finish(s),
           NEW A \in SUBSET Answers, answers' = [answers EXCEPT ![s] = A]
    PROVE  SessionsOK'
BY EmptySeq DEF SessionsOK, InTransaction, Current, Finish

\* A session that answers its current command:
LEMMA AnswerKeepsTypes ==
    ASSUME SessionsOK, NEW s \in Sessions, pc[s] # "idle", Current(s).order \in Orders,
           NEW outcome \in {"applied", "duplicate", "already_terminal", "rejected",
                            "retryable", "hard"},
           NEW to \in States \cup {"none"}, Answer(s, outcome, to)
    PROVE  SessionsOK'
<1> DEFINE a == [order |-> Current(s).order, key |-> Current(s).key,
                 kind |-> call[s].kind, outcome |-> outcome, to |-> to]
<1>1. queue[s] \in Seq(Commands) /\ queue[s] # << >> BY DEF SessionsOK
<1>2. Current(s) \in Commands BY <1>1, HeadTailProperties DEF Current
<1>3. call[s] \in Request BY DEF SessionsOK
<1>4. a \in Answers BY <1>2, <1>3 DEF Answers, Commands, Request
<1>5. answers[s] \cup {a} \in SUBSET Answers BY <1>4 DEF SessionsOK
<1>6. answers' = [answers EXCEPT ![s] = answers[s] \cup {a}]
  BY DEF Answer, SessionsOK
<1> HIDE DEF a
<1>7. CASE LastCommand(s) BY <1>5, <1>6, <1>7, FinishKeepsTypes DEF Answer
<1>8. CASE ~LastCommand(s)
  <2>1. Tail(queue[s]) \in Seq(Commands) /\ Tail(queue[s]) # << >>
    <3>1. Tail(queue[s]) \in Seq(Commands) /\ Len(Tail(queue[s])) = Len(queue[s]) - 1
      BY <1>1, HeadTailProperties
    <3>2. Len(queue[s]) # 1 BY <1>8 DEF LastCommand
    <3>3. Len(queue[s]) \in Nat /\ Len(queue[s]) # 0 BY <1>1, EmptySeq, LenProperties
    <3>4. Len(Tail(queue[s])) # 0 BY <3>1, <3>2, <3>3
    <3> QED BY <3>1, <3>4, EmptySeq
  <2>2. queue' = [queue EXCEPT ![s] = Tail(queue[s])] BY <1>8 DEF Answer, SessionsOK
  <2>3. /\ pc' = [pc EXCEPT ![s] = "load"] /\ seen' = [seen EXCEPT ![s] = Absent]
        /\ call' = call
    BY <1>8 DEF Answer
  <2>4. \A t \in Sessions : t # s => Current(t)' = Current(t) /\ pc'[t] = pc[t]
    BY <2>2, <2>3 DEF SessionsOK, Current
  <2> QED BY <1>5, <1>6, <2>1, <2>2, <2>3, <2>4 DEF SessionsOK, InTransaction
<1> QED BY <1>7, <1>8

\* What a commit writes is a well-formed row and a well-formed transition.
LEMMA NextRowTyped ==
    ASSUME TypeOK, NEW s \in Sessions, pc[s] \in InTransaction
    PROVE  /\ NextRow(s) \in Rows
           /\ NextTransition(s) \in Transition
           /\ Current(s) \in Commands
           /\ Current(s).order \in Orders
<1>1. queue[s] \in Seq(Commands) /\ queue[s] # << >> /\ Current(s).order \in Orders
  BY DEF TypeOK, SessionsOK, InTransaction
<1>2. Current(s) \in Commands BY <1>1, HeadTailProperties DEF Current
<1>3. seen[s] # Absent => seen[s] \in Rows BY DEF TypeOK, SessionsOK
<1>4. NextSeq(s) \in Nat BY <1>3 DEF NextSeq, Rows
<1>5. NextCancelKey(s) \in Keys \cup {Absent} BY <1>2, <1>3 DEF NextCancelKey, Rows, Commands
<1>6. NextRow(s) \in Rows BY <1>2, <1>3, <1>4, <1>5 DEF NextRow, Rows, Commands
<1>7. NextTransition(s) \in Transition
  BY <1>2, <1>3, <1>4 DEF NextTransition, Transition, Rows, Commands
<1> QED BY <1>1, <1>2, <1>6, <1>7

\* A commit leaves well-formed tables.
LEMMA ApplyKeepsTypes ==
    ASSUME TypeOK, NEW s \in Sessions, pc[s] = "commit", Apply(s), UNCHANGED safetyMode
    PROVE  TablesOK'
<1>1. /\ NextRow(s) \in Rows /\ NextTransition(s) \in Transition
      /\ Current(s).order \in Orders
  BY NextRowTyped DEF InTransaction
<1>2. transitions[Current(s).order] \in Seq(Transition) BY <1>1 DEF TypeOK, TablesOK
<1>3. Append(transitions[Current(s).order], NextTransition(s)) \in Seq(Transition)
  BY <1>1, <1>2, AppendProperties
<1> QED BY <1>1, <1>3 DEF Apply, TypeOK, TablesOK

\* Every step keeps the tables and the sessions well formed.
LEMMA NextKeepsTypes ==
    ASSUME TypeOK, [Next]_vars
    PROVE  TypeOK'
<1> USE DEF TypeOK
<1>1. ASSUME NEW s \in Sessions, NEW r \in Requests,
             NEW first \in {"adjudicate", "load"}, NEW commands \in Seq(Commands),
             commands # << >>, Begin(s, r, first, commands)
      PROVE  TypeOK'
  BY <1>1 DEF Begin, TablesOK, SessionsOK, InTransaction, Current
<1>2. ASSUME NEW s \in Sessions, Start(s) PROVE TypeOK'
  <2>1. PICK r \in Requests : Submit(s, r) \/ Cancel(s, r) \/ ApplyVenueEvent(s, r)
    BY <1>2 DEF Start
  <2>2. CASE Submit(s, r) BY <1>1, <2>2, CommandsTyped DEF Submit
  <2>3. CASE Cancel(s, r) BY <1>1, <2>3, CommandsTyped DEF Cancel
  <2>4. CASE ApplyVenueEvent(s, r)
    <3> DEFINE c == CommandsOf(r)[1]
               mode == IF c.order \in Orders /\ orders[c.order] # Absent
                       THEN orders[c.order].mode ELSE "limit"
    <3>1. c \in Commands BY CommandsTyped, EmptySeq, LenProperties
    <3>2. mode \in Modes BY DEF TablesOK, Rows, Modes
    <3>3. [c EXCEPT !.mode = mode] \in Commands BY <3>1, <3>2 DEF Commands
    <3>4. Begin(s, r, "load", <<[c EXCEPT !.mode = mode]>>) BY <2>4 DEF ApplyVenueEvent
    <3> HIDE DEF c, mode
    <3> DEFINE q == <<[c EXCEPT !.mode = mode]>>
    <3>5. q \in Seq(Commands) /\ q # << >> BY <3>3
    <3>6. Begin(s, r, "load", q) BY <3>4
    <3> HIDE DEF q
    <3> QED BY <1>1, <3>5, <3>6
  <2> QED BY <2>1, <2>2, <2>3, <2>4
<1>3. ASSUME NEW s \in Sessions, Progress(s) PROVE TypeOK'
  <2> USE <1>3
  <2>0. SessionsOK /\ TablesOK BY DEF TypeOK
  <2>c. ASSUME pc[s] # "idle"
        PROVE  Current(s) \in Commands
    BY <2>c, HeadTailProperties DEF SessionsOK, Current
  <2>a. ASSUME NEW outcome \in {"duplicate", "already_terminal", "rejected",
                                "retryable", "hard"},
               NEW to \in States \cup {"none"}, pc[s] # "idle",
               Current(s).order \in Orders, Answer(s, outcome, to), UNCHANGED dbVars
        PROVE  TypeOK'
    BY <2>0, <2>a, AnswerKeepsTypes DEF TablesOK, Answer, dbVars
  <2>s. ASSUME seen[s] # Absent PROVE seen[s].state \in States
    BY <2>s DEF SessionsOK, Rows
  <2>o. ASSUME pc[s] \in InTransaction PROVE Current(s).order \in Orders
    BY <2>o DEF SessionsOK
  <2>1. CASE AdjudicationAllows(s)
    BY <2>0, <2>1, StepKeepsTypes DEF AdjudicationAllows, TablesOK, InTransaction
  <2>2. CASE AdjudicationDenies(s)
    <3>1. answers' = [answers EXCEPT ![s] = answers[s]] /\ answers[s] \in SUBSET Answers
      BY <2>2 DEF AdjudicationDenies, SessionsOK
    <3> QED BY <2>0, <2>2, <3>1, FinishKeepsTypes DEF AdjudicationDenies, TablesOK
  <2>3. CASE BlankOrderEndsCall(s)
    <3>1. Finish(s) /\ answers' = [answers EXCEPT ![s] = {}] BY <2>3 DEF BlankOrderEndsCall
    <3>2. SessionsOK' BY <2>0, <3>1, FinishKeepsTypes, {} \in SUBSET Answers
    <3> QED BY <3>2, <2>3 DEF BlankOrderEndsCall, TablesOK
  <2>4. CASE RefuseBlankKey(s)
    BY <2>a, <2>c, <2>4 DEF RefuseBlankKey, Commands
  <2>5. CASE LockOrder(s)
    <3>1. Current(s).order \in Orders BY <2>c, <2>5 DEF LockOrder, Commands
    <3>2. orders[Current(s).order] \in Rows \cup {Absent} BY <3>1 DEF TablesOK
    <3> QED BY <3>1, <3>2, <2>0, <2>5 DEF LockOrder, TablesOK, SessionsOK, InTransaction, Current
  <2>6. CASE Decide(s)
    <3>1. pc[s] \in InTransaction /\ pc[s] # "idle"
      BY <2>6 DEF Decide, InTransaction, AnswerDuplicate, RefuseDuplicateOfMissing,
                  AnswerTerminal, AnswerRejected, RefuseProjection, AcceptTransition
    <3>2. CASE AnswerDuplicate(s) BY <2>a, <2>o, <2>s, <3>1, <3>2 DEF AnswerDuplicate
    <3>3. CASE RefuseDuplicateOfMissing(s)
      BY <2>a, <2>o, <3>1, <3>3 DEF RefuseDuplicateOfMissing
    <3>4. CASE AnswerTerminal(s) BY <2>a, <2>o, <2>s, <3>1, <3>4 DEF AnswerTerminal
    <3>5. CASE AnswerRejected(s) BY <2>a, <2>o, <2>s, <3>1, <3>5 DEF AnswerRejected
    <3>6. CASE RefuseProjection(s) BY <2>a, <2>o, <3>1, <3>6 DEF RefuseProjection
    <3>7. CASE AcceptTransition(s)
      BY <2>0, <2>o, <3>1, <3>7, StepKeepsTypes DEF AcceptTransition, TablesOK, InTransaction
    <3> QED BY <2>6, <3>2, <3>3, <3>4, <3>5, <3>6, <3>7 DEF Decide
  <2>7. CASE WriteOrder(s)
    BY <2>0, <2>o, <2>7, StepKeepsTypes DEF WriteOrder, TablesOK, InTransaction
  <2>8. CASE LosesInsertRace(s)
    BY <2>a, <2>o, <2>8 DEF LosesInsertRace, InTransaction
  <2>9. CASE Commit(s)
    <3>1. Current(s).to \in States /\ Current(s).order \in Orders /\ pc[s] = "commit"
      BY <2>9, NextRowTyped DEF Commit, InTransaction, Commands
    <3>2. SessionsOK' BY <2>0, <2>9, <3>1, AnswerKeepsTypes DEF Commit
    <3>3. TablesOK' BY <2>9, <3>1, ApplyKeepsTypes DEF Commit, Answer
    <3> QED BY <3>2, <3>3
  <2> QED BY <2>1, <2>2, <2>3, <2>4, <2>5, <2>6, <2>7, <2>8, <2>9 DEF Progress
<1>4. ASSUME NEW s \in Sessions, Fault(s) PROVE TypeOK'
  <2>1. CASE StatementFails(s)
    <3>1. Current(s) \in Commands /\ pc[s] # "idle"
      BY <2>1, HeadTailProperties DEF StatementFails, SessionsOK, Current, InTransaction
    <3>2. SessionsOK' BY <2>1, <3>1, AnswerKeepsTypes DEF StatementFails, Commands
    <3> QED BY <2>1, <3>2 DEF StatementFails, TablesOK, dbVars, Answer
  <2>2. CASE CommitReplyLost(s)
    <3>1. Current(s).order \in Orders /\ pc[s] = "commit"
      BY <2>2, NextRowTyped DEF CommitReplyLost, InTransaction
    <3>2. SessionsOK' BY <2>2, <3>1, AnswerKeepsTypes DEF CommitReplyLost
    <3>3. TablesOK' BY <2>2, <3>1, ApplyKeepsTypes DEF CommitReplyLost, Answer
    <3> QED BY <3>2, <3>3
  <2>3. CASE Crash(s)
    <3>1. Finish(s) /\ answers' = [answers EXCEPT ![s] = {}] BY <2>3 DEF Crash
    <3>2. SessionsOK' BY <3>1, FinishKeepsTypes, {} \in SUBSET Answers
    <3> QED BY <3>2, <2>3 DEF Crash, TablesOK
  <2> QED BY <1>4, <2>1, <2>2, <2>3 DEF Fault
<1>5. CASE ChangeSafetyMode
  BY <1>5 DEF ChangeSafetyMode, TablesOK, SessionsOK, Current
<1>6. CASE UNCHANGED vars
  BY <1>6 DEF vars, TablesOK, SessionsOK, Current
<1> QED BY <1>2, <1>3, <1>4, <1>5, <1>6 DEF Next

\* The tables and the sessions keep their types: every reply and every write is
\* well formed, and no session is left in a call without a command.
THEOREM TypeInvariant == Spec => []TypeOK
<1>1. Init => TypeOK
  BY EmptySeq DEF Init, TypeOK, TablesOK, SessionsOK, InTransaction
<1>2. TypeOK /\ [Next]_vars => TypeOK' BY NextKeepsTypes
<1> QED BY <1>1, <1>2, PTL DEF Spec

-----------------------------------------------------------------------------
(* The tables stay consistent.  The properties of the tables are inductive *)
(* only together with what transactions in progress have established: a    *)
(* commit relies on the row it read and the key it checked.                *)

Inv == TypeOK /\ TablesConsistent /\ DecisionsStillHold

\* What the state machine says of terminal states.
LEMMA TerminalHasNoSuccessor ==
    ASSUME NEW from \in States, NEW to, MayMove(from, to)
    PROVE  from \notin Terminal /\ from # "canceled"
BY DEF States, MayMove, Successors, Terminal

\* The history of an order and the row it is summarised in, after a commit.
LEMMA CommittedHistory ==
    ASSUME Inv, NEW s \in Sessions, pc[s] = "commit", Apply(s)
    PROVE  LET o == Current(s).order
               h == transitions[o]
           IN /\ orders'[o] = NextRow(s)
              /\ h \in Seq(Transition) /\ transitions'[o] \in Seq(Transition)
              /\ Len(transitions'[o]) = Len(h) + 1
              /\ \A i \in 1..Len(h) : transitions'[o][i] = h[i]
              /\ transitions'[o][Len(h) + 1] = NextTransition(s)
              /\ \A p \in Orders \ {o} :
                    orders'[p] = orders[p] /\ transitions'[p] = transitions[p]
<1>1. /\ NextTransition(s) \in Transition /\ Current(s).order \in Orders
  BY NextRowTyped DEF InTransaction, Inv
<1>2. transitions[Current(s).order] \in Seq(Transition) BY <1>1 DEF Inv, TypeOK, TablesOK
<1>3. /\ orders' = [orders EXCEPT ![Current(s).order] = NextRow(s)]
      /\ transitions' = [transitions EXCEPT ![Current(s).order] =
                            Append(transitions[Current(s).order], NextTransition(s))]
  BY <1>1 DEF Apply, Inv, TypeOK, TablesOK
<1>4. transitions'[Current(s).order] =
          Append(transitions[Current(s).order], NextTransition(s))
  BY <1>1, <1>3 DEF Inv, TypeOK, TablesOK
<1> QED BY <1>1, <1>2, <1>3, <1>4, AppendProperties DEF Inv, TypeOK, TablesOK

\* A session about to commit: either it creates an order that has no history,
\* or it moves the order on from the end of its history.
LEMMA CommitSituation ==
    ASSUME Inv, NEW s \in Sessions, pc[s] = "commit"
    PROVE  LET c == Current(s)
               h == transitions[c.order]
           IN /\ c \in Commands /\ c.order \in Orders
              /\ h \in Seq(Transition)
              /\ \/ seen[s] = Absent /\ orders[c.order] = Absent /\ h = << >> /\ Len(h) = 0
                 \/ /\ seen[s] \in Rows /\ seen[s] # Absent /\ orders[c.order] = seen[s]
                    /\ h # << >> /\ Len(h) \in Nat \ {0}
                    /\ seen[s].seq = Len(h) /\ seen[s].state = h[Len(h)].to
                    /\ seen[s].created = h[1].at
                    /\ seen[s].cancelKey = Absent
                    /\ MayMove(seen[s].state, c.to) /\ Projects(seen[s], c)
                    /\ \A i \in 1..Len(h) : h[i].key # c.key
<1> DEFINE c == Current(s)
           h == transitions[c.order]
<1>1. c \in Commands /\ c.order \in Orders BY NextRowTyped DEF InTransaction, Inv
<1>2. h \in Seq(Transition) BY <1>1 DEF Inv, TypeOK, TablesOK
<1>3. CASE seen[s] = Absent
  <2>1. orders[c.order] = Absent BY <1>3 DEF Inv, DecisionsStillHold, InTransaction
  <2>2. h = << >> BY <1>1, <2>1 DEF Inv, TablesConsistent, ProjectionMatchesLedger
  <2> QED BY <1>1, <1>2, <1>3, <2>1, <2>2, EmptySeq
<1>4. CASE seen[s] # Absent
  <2>1. seen[s] \in Rows BY <1>4 DEF Inv, TypeOK, SessionsOK
  <2>2. /\ orders[c.order] = seen[s] /\ ~KeyRecorded(c.order, c.key)
        /\ MayMove(seen[s].state, c.to) /\ Projects(seen[s], c)
    BY <1>4 DEF Inv, DecisionsStillHold, InTransaction
  <2>3. /\ h # << >> /\ seen[s].seq = Len(h) /\ seen[s].state = h[Len(h)].to
        /\ seen[s].created = h[1].at
        /\ seen[s].cancelKey = (IF h[Len(h)].to = "canceled" THEN h[Len(h)].key ELSE Absent)
    BY <1>1, <1>4, <2>2 DEF Inv, TablesConsistent, ProjectionMatchesLedger
  <2>4. seen[s].state # "canceled" BY <2>1, <2>2, TerminalHasNoSuccessor DEF Rows
  <2>5. Len(h) \in Nat \ {0} BY <1>2, <2>3, EmptySeq
  <2>6. \A i \in 1..Len(h) : h[i].key # c.key BY <2>2 DEF KeyRecorded
  <2> QED BY <1>1, <1>2, <1>4, <2>1, <2>2, <2>3, <2>4, <2>5, <2>6
<1> QED BY <1>3, <1>4

\* A commit leaves each orders row the summary of its history.
LEMMA CommitKeepsProjection ==
    ASSUME Inv, NEW s \in Sessions, pc[s] = "commit", Apply(s)
    PROVE  ProjectionMatchesLedger'
<1> DEFINE c == Current(s)
           h == transitions[c.order]
           g == transitions'[c.order]
<1>1. ASSUME NEW p \in Orders \ {c.order}
      PROVE  orders'[p] = orders[p] /\ transitions'[p] = transitions[p]
  BY CommittedHistory
<1>2. /\ orders'[c.order] = NextRow(s) /\ g \in Seq(Transition)
      /\ Len(g) = Len(h) + 1 /\ g[Len(h) + 1] = NextTransition(s)
      /\ \A i \in 1..Len(h) : g[i] = h[i]
  BY CommittedHistory
<1>3. NextRow(s) # Absent BY NextRowTyped DEF InTransaction, Inv
<1>4. NextRow(s).state = c.to /\ NextRow(s).updated = c.at /\ NextRow(s).seq = NextSeq(s)
      /\ NextRow(s).cancelKey = NextCancelKey(s)
      /\ NextRow(s).created = (IF seen[s] = Absent THEN c.at ELSE seen[s].created)
  BY DEF NextRow
<1>5. NextTransition(s).to = c.to /\ NextTransition(s).at = c.at /\ NextTransition(s).key = c.key
  BY DEF NextTransition
<1>6. Len(h) \in Nat /\ c.at \in Nat
  <2>1. h \in Seq(Transition) /\ c \in Commands BY CommitSituation
  <2> QED BY <2>1, LenProperties DEF Commands
<1>7. NextSeq(s) = Len(h) + 1 BY CommitSituation DEF NextSeq
<1>8. NextCancelKey(s) = (IF c.to = "canceled" THEN c.key ELSE Absent)
  BY CommitSituation DEF NextCancelKey
<1>9. NextRow(s).created = g[1].at /\ c.at >= NextRow(s).created
  <2>1. CASE seen[s] = Absent
    <3>1. Len(h) = 0 BY <2>1, CommitSituation
    <3> QED BY <1>2, <1>4, <1>5, <1>6, <2>1, <3>1
  <2>2. CASE seen[s] # Absent
    <3>1. seen[s].created = h[1].at /\ 1 \in 1..Len(h) /\ c.at >= seen[s].created
      BY <2>2, CommitSituation DEF Projects
    <3> QED BY <1>2, <1>4, <2>2, <3>1
  <2> QED BY <2>1, <2>2
<1>10. g # << >> BY <1>2, <1>6, EmptySeq
<1> HIDE DEF c, h, g
<1>11. ASSUME NEW o \in Orders, o = c.order
       PROVE  LET row == orders'[o]
                  last == transitions'[o][Len(transitions'[o])]
              IN /\ row # Absent /\ transitions'[o] # << >>
                 /\ row.state = last.to /\ row.seq = Len(transitions'[o])
                 /\ row.updated = last.at
                 /\ row.created = transitions'[o][1].at /\ row.updated >= row.created
                 /\ row.cancelKey = (IF last.to = "canceled" THEN last.key ELSE Absent)
  BY <1>2, <1>3, <1>4, <1>5, <1>6, <1>7, <1>8, <1>9, <1>10, <1>11 DEF g
<1> QED BY <1>1, <1>11 DEF Inv, TablesConsistent, ProjectionMatchesLedger, c

\* A commit extends a history by a legal entry under a key not used before.
LEMMA CommitKeepsHistory ==
    ASSUME Inv, NEW s \in Sessions, pc[s] = "commit", Apply(s)
    PROVE  LegalHistory' /\ KeysUnique'
<1> DEFINE c == Current(s)
           h == transitions[c.order]
           g == transitions'[c.order]
           e == NextTransition(s)
<1>1. ASSUME NEW p \in Orders \ {c.order}
      PROVE  orders'[p] = orders[p] /\ transitions'[p] = transitions[p]
  BY CommittedHistory
<1>2. /\ orders'[c.order] = NextRow(s) /\ g \in Seq(Transition)
      /\ Len(g) = Len(h) + 1 /\ g[Len(h) + 1] = e
      /\ \A i \in 1..Len(h) : g[i] = h[i]
  BY CommittedHistory
<1>3. c.order \in Orders /\ h \in Seq(Transition) BY CommitSituation
<1>4. Len(h) \in Nat BY <1>3, LenProperties
<1>5. /\ NextRow(s).market = c.market /\ NextRow(s).mode = c.mode
      /\ e.market = c.market /\ e.mode = c.mode /\ e.key = c.key /\ e.to = c.to
      /\ e.seq = NextSeq(s) /\ e.from = (IF seen[s] = Absent THEN "none" ELSE seen[s].state)
  BY DEF NextRow, NextTransition
<1>6. e.seq = Len(h) + 1 BY <1>5, CommitSituation DEF NextSeq
<1>7. \A i \in 1..Len(h) :
        /\ h[i].seq = i /\ h[i].market = c.market /\ h[i].mode = c.mode
        /\ IF i = 1 THEN h[i].from = "none"
           ELSE h[i].from = h[i - 1].to /\ MayMove(h[i].from, h[i].to)
  <2>1. CASE seen[s] = Absent BY <2>1, CommitSituation
  <2>2. CASE seen[s] # Absent
    <3>1. orders[c.order].market = c.market /\ orders[c.order].mode = c.mode
      BY <2>2, CommitSituation DEF Projects
    <3> QED BY <1>3, <3>1 DEF Inv, TablesConsistent, LegalHistory
  <2> QED BY <2>1, <2>2
<1>8. IF Len(h) = 0 THEN e.from = "none"
      ELSE e.from = h[Len(h)].to /\ MayMove(e.from, e.to)
  BY <1>5, CommitSituation
<1>9. /\ \A i \in 1..Len(h) : h[i].key # c.key
      /\ \A i, j \in 1..Len(h) : h[i].key = h[j].key => i = j
  <2>1. \A i \in 1..Len(h) : h[i].key # c.key BY <1>4, CommitSituation
  <2> QED BY <1>3, <2>1 DEF Inv, TablesConsistent, KeysUnique
<1> HIDE DEF c, h, g, e
<1>10. \A i \in 1..Len(g) :
        /\ g[i].seq = i
        /\ g[i].market = NextRow(s).market /\ g[i].mode = NextRow(s).mode
        /\ IF i = 1 THEN g[i].from = "none"
           ELSE g[i].from = g[i - 1].to /\ MayMove(g[i].from, g[i].to)
  <2> TAKE i \in 1..Len(g)
  <2>1. CASE i \in 1..Len(h)
    <3>1. g[i] = h[i] /\ (i # 1 => g[i - 1] = h[i - 1]) BY <1>2, <1>4, <2>1
    <3> QED BY <1>5, <1>7, <2>1, <3>1
  <2>2. CASE i = Len(h) + 1
    <3>1. g[i] = e /\ (i # 1 => g[i - 1] = h[i - 1] /\ i - 1 = Len(h))
      BY <1>2, <1>4, <2>2
    <3> QED BY <1>4, <1>5, <1>6, <1>8, <2>2, <3>1
  <2> QED BY <1>2, <1>4, <2>1, <2>2
<1>11. \A i, j \in 1..Len(g) : g[i].key = g[j].key => i = j
  BY <1>2, <1>4, <1>5, <1>9
<1>12. LegalHistory'
  <2>1. ASSUME NEW o \in Orders, NEW i \in 1..Len(transitions'[o])
        PROVE  /\ transitions'[o][i].seq = i
               /\ transitions'[o][i].market = orders'[o].market
               /\ transitions'[o][i].mode = orders'[o].mode
               /\ IF i = 1 THEN transitions'[o][i].from = "none"
                  ELSE /\ transitions'[o][i].from = transitions'[o][i - 1].to
                       /\ MayMove(transitions'[o][i].from, transitions'[o][i].to)
    <3>1. CASE o = c.order BY <1>2, <1>10, <3>1 DEF g
    <3>2. CASE o # c.order BY <1>1, <3>2 DEF Inv, TablesConsistent, LegalHistory
    <3> QED BY <3>1, <3>2
  <2> QED BY <2>1 DEF LegalHistory, MayMove
<1>13. KeysUnique'
  BY <1>1, <1>11 DEF Inv, TablesConsistent, KeysUnique, g, c
<1> QED BY <1>12, <1>13

\* Whoever leaves its transaction, or was in none, without touching the tables
\* leaves what the others decided on alone.
LEMMA LeavingKeepsDecisions ==
    ASSUME DecisionsStillHold, NEW s \in Sessions, pc'[s] \notin InTransaction,
           \A t \in Sessions \ {s} :
                pc'[t] = pc[t] /\ queue'[t] = queue[t] /\ seen'[t] = seen[t],
           UNCHANGED dbVars
    PROVE  DecisionsStillHold'
<1>1. ASSUME NEW t \in Sessions \ {s}
      PROVE  /\ Current(t)' = Current(t)
             /\ \A o : Holds(t, o)' = Holds(t, o) /\ Inserting(t, o)' = Inserting(t, o)
  BY DEF Current, Holds, Inserting
<1>2. \A o : ~Holds(s, o)' /\ ~Inserting(s, o)' BY DEF Holds, Inserting, InTransaction
<1>3. \A o, k : KeyRecorded(o, k)' = KeyRecorded(o, k) BY DEF KeyRecorded, dbVars
<1> QED BY <1>1, <1>2, <1>3 DEF DecisionsStillHold, dbVars, Projects

\* Answering a command leaves the decisions of the other sessions alone.
LEMMA AnswerKeepsDecisions ==
    ASSUME SessionsOK, DecisionsStillHold, NEW s \in Sessions, NEW outcome, NEW to,
           Answer(s, outcome, to), UNCHANGED dbVars
    PROVE  DecisionsStillHold'
BY LeavingKeepsDecisions DEF Answer, Finish, SessionsOK, InTransaction

\* So does ending a call.
LEMMA FinishKeepsDecisions ==
    ASSUME SessionsOK, DecisionsStillHold, NEW s \in Sessions, Finish(s), UNCHANGED dbVars
    PROVE  DecisionsStillHold'
BY LeavingKeepsDecisions DEF Finish, SessionsOK, InTransaction

\* A step inside a transaction that only moves the session's pc.
LEMMA SameExceptPc ==
    ASSUME SessionsOK, NEW s \in Sessions, NEW p, pc' = [pc EXCEPT ![s] = p],
           UNCHANGED <<queue, seen, orders, transitions>>
    PROVE  /\ pc'[s] = p
           /\ \A t \in Sessions : Current(t)' = Current(t)
           /\ \A t \in Sessions \ {s} : pc'[t] = pc[t]
           /\ \A t \in Sessions \ {s} : \A o :
                  Holds(t, o)' = Holds(t, o) /\ Inserting(t, o)' = Inserting(t, o)
           /\ \A o, k : KeyRecorded(o, k)' = KeyRecorded(o, k)
BY DEF SessionsOK, Current, Holds, Inserting, KeyRecorded

\* Locking a row: nobody else owns it, and nothing is decided on it yet.
LEMMA LockKeepsDecisions ==
    ASSUME Inv, NEW s \in Sessions, LockOrder(s)
    PROVE  DecisionsStillHold'
<1> DEFINE c == Current(s)
<1>1. /\ pc[s] = "load" /\ pc'[s] = "check" /\ seen'[s] = orders[c.order]
      /\ \A t \in Sessions \ {s} : pc'[t] = pc[t] /\ seen'[t] = seen[t]
      /\ \A t \in Sessions : Current(t)' = Current(t)
      /\ \A t \in Sessions \ {s} : ~Holds(t, c.order)
      /\ orders' = orders /\ transitions' = transitions
  BY DEF LockOrder, Inv, TypeOK, SessionsOK, Current
<1>2. \A t \in Sessions \ {s} : \A o :
          Holds(t, o)' = Holds(t, o) /\ Inserting(t, o)' = Inserting(t, o)
  BY <1>1 DEF Holds, Inserting
<1>3. \A o, k : KeyRecorded(o, k)' = KeyRecorded(o, k) BY <1>1 DEF KeyRecorded
<1>4. ASSUME NEW t \in Sessions \ {s}, pc[t] \in InTransaction, seen[t] # Absent
      PROVE  ~Holds(s, Current(t).order)'
  BY <1>1, <1>4 DEF Holds
<1>5. \A o : ~Inserting(s, o)' BY <1>1 DEF Inserting
<1> QED BY <1>1, <1>2, <1>3, <1>4, <1>5
        DEF Inv, DecisionsStillHold, InTransaction, Projects

\* Accepting a transition: the checks just made are what the session relies on.
LEMMA AcceptKeepsDecisions ==
    ASSUME Inv, NEW s \in Sessions, AcceptTransition(s)
    PROVE  DecisionsStillHold'
<1>1. /\ pc[s] = "check" /\ pc' = [pc EXCEPT ![s] = "write"]
      /\ ~KeyRecorded(Current(s).order, Current(s).key)
      /\ seen[s] # Absent =>
            MayMove(seen[s].state, Current(s).to) /\ Projects(seen[s], Current(s))
      /\ UNCHANGED <<queue, seen, orders, transitions>>
  BY DEF AcceptTransition, IsDuplicate, MovesOn
<1>2. SessionsOK BY DEF Inv, TypeOK
<1>3. /\ pc'[s] = "write"
      /\ \A t \in Sessions : Current(t)' = Current(t)
      /\ \A t \in Sessions \ {s} : pc'[t] = pc[t]
      /\ \A t \in Sessions \ {s} : \A o :
            Holds(t, o)' = Holds(t, o) /\ Inserting(t, o)' = Inserting(t, o)
      /\ \A o, k : KeyRecorded(o, k)' = KeyRecorded(o, k)
  BY <1>1, <1>2, SameExceptPc
<1>4. \A o : Holds(s, o)' = Holds(s, o) /\ ~Inserting(s, o)'
  BY <1>1, <1>3 DEF Holds, Inserting, InTransaction
<1> QED BY <1>1, <1>3, <1>4 DEF Inv, DecisionsStillHold, InTransaction, Projects

\* Writing a new order: nobody else has written it.
LEMMA WriteKeepsDecisions ==
    ASSUME Inv, NEW s \in Sessions, WriteOrder(s)
    PROVE  DecisionsStillHold'
<1>1. /\ pc[s] = "write" /\ pc' = [pc EXCEPT ![s] = "commit"]
      /\ seen[s] = Absent =>
            /\ orders[Current(s).order] = Absent
            /\ \A t \in Sessions \ {s} : ~Inserting(t, Current(s).order)
      /\ UNCHANGED <<queue, seen, orders, transitions>>
  BY DEF WriteOrder
<1>2. SessionsOK BY DEF Inv, TypeOK
<1>3. /\ pc'[s] = "commit"
      /\ \A t \in Sessions : Current(t)' = Current(t)
      /\ \A t \in Sessions \ {s} : pc'[t] = pc[t]
      /\ \A t \in Sessions \ {s} : \A o :
            Holds(t, o)' = Holds(t, o) /\ Inserting(t, o)' = Inserting(t, o)
      /\ \A o, k : KeyRecorded(o, k)' = KeyRecorded(o, k)
  BY <1>1, <1>2, SameExceptPc
<1>4. \A o : Holds(s, o)' = Holds(s, o) BY <1>1, <1>3 DEF Holds, InTransaction
<1>5. ASSUME NEW t \in Sessions \ {s}, pc[t] = "commit", seen[t] = Absent
      PROVE  ~Inserting(s, Current(t).order)'
  <2>1. Inserting(t, Current(t).order) BY <1>5 DEF Inserting
  <2> QED BY <1>1, <1>3, <2>1 DEF Inserting
<1> QED BY <1>1, <1>3, <1>4, <1>5 DEF Inv, DecisionsStillHold, InTransaction, Projects

\* A commit changes one order only, and nobody else has read that order's row
\* or is about to create it.
LEMMA CommitKeepsDecisions ==
    ASSUME Inv, NEW s \in Sessions, pc[s] = "commit", Apply(s),
           NEW outcome, NEW to, Answer(s, outcome, to)
    PROVE  DecisionsStillHold'
<1> DEFINE o == Current(s).order
<1>1. /\ pc'[s] \notin InTransaction
      /\ \A t \in Sessions \ {s} :
            pc'[t] = pc[t] /\ queue'[t] = queue[t] /\ seen'[t] = seen[t]
  BY DEF Answer, Finish, Inv, TypeOK, SessionsOK, InTransaction
<1>2. ASSUME NEW t \in Sessions \ {s}
      PROVE  /\ Current(t)' = Current(t)
             /\ \A p : Holds(t, p)' = Holds(t, p) /\ Inserting(t, p)' = Inserting(t, p)
  BY <1>1 DEF Current, Holds, Inserting
<1>3. \A p : ~Holds(s, p)' /\ ~Inserting(s, p)' BY <1>1 DEF Holds, Inserting, InTransaction
<1>4. ASSUME NEW t \in Sessions \ {s}, pc[t] \in InTransaction, Current(t).order = o,
             seen[t] # Absent
      PROVE  FALSE
  <2>1. Holds(t, o) /\ orders[o] = seen[t] BY <1>4 DEF Holds, Inv, DecisionsStillHold
  <2>2. seen[s] # Absent => \A u \in Sessions \ {s} : ~Holds(u, o)
    BY DEF Inv, DecisionsStillHold, InTransaction
  <2>3. seen[s] = Absent => orders[o] = Absent BY DEF Inv, DecisionsStillHold, InTransaction
  <2> QED BY <1>4, <2>1, <2>2, <2>3
<1>5. ASSUME NEW t \in Sessions \ {s}, pc[t] = "commit", Current(t).order = o,
             seen[t] = Absent
      PROVE  FALSE
  <2>1. Inserting(t, o) /\ orders[o] = Absent
    BY <1>5 DEF Inserting, Inv, DecisionsStillHold, InTransaction
  <2>2. seen[s] = Absent => \A u \in Sessions \ {s} : ~Inserting(u, o)
    BY DEF Inv, DecisionsStillHold, InTransaction
  <2>3. seen[s] # Absent => orders[o] = seen[s] BY DEF Inv, DecisionsStillHold, InTransaction
  <2> QED BY <2>1, <2>2, <2>3
<1>6. \A p \in Orders \ {o} : orders'[p] = orders[p] /\ transitions'[p] = transitions[p]
  BY CommittedHistory
<1>7. ASSUME NEW p \in Orders \ {o}
      PROVE  orders'[p] = orders[p] /\ \A k : KeyRecorded(p, k)' = KeyRecorded(p, k)
  BY <1>6 DEF KeyRecorded
<1>8. \A t \in Sessions : pc[t] \in InTransaction => Current(t).order \in Orders
  BY DEF Inv, TypeOK, SessionsOK
<1> HIDE DEF o
<1> QED BY <1>1, <1>2, <1>3, <1>4, <1>5, <1>7, <1>8
        DEF Inv, DecisionsStillHold, InTransaction, Projects

\* Whatever leaves the tables alone leaves what is said of them alone.
LEMMA TablesUntouched ==
    ASSUME TablesConsistent, UNCHANGED dbVars
    PROVE  TablesConsistent'
BY DEF TablesConsistent, ProjectionMatchesLedger, LegalHistory, KeysUnique, dbVars

\* Every step keeps the inductive invariant.
LEMMA NextKeepsInv ==
    ASSUME Inv, TypeOK', [Next]_vars
    PROVE  Inv'
<1> USE DEF Inv, TypeOK
<1>1. ASSUME NEW s \in Sessions, Start(s) PROVE Inv'
  <2>1. /\ pc'[s] \notin InTransaction
        /\ \A t \in Sessions \ {s} :
              pc'[t] = pc[t] /\ queue'[t] = queue[t] /\ seen'[t] = seen[t]
        /\ UNCHANGED dbVars
    BY <1>1 DEF Start, Submit, Cancel, ApplyVenueEvent, Begin, SessionsOK,
                InTransaction, dbVars
  <2> QED BY <2>1, LeavingKeepsDecisions, TablesUntouched
<1>2. ASSUME NEW s \in Sessions, NEW outcome, NEW to, Answer(s, outcome, to),
             UNCHANGED dbVars
      PROVE  Inv'
  BY <1>2, AnswerKeepsDecisions, TablesUntouched
<1>3. ASSUME NEW s \in Sessions, Finish(s), UNCHANGED dbVars PROVE Inv'
  BY <1>3, FinishKeepsDecisions, TablesUntouched
<1>4. ASSUME NEW s \in Sessions, NEW outcome, NEW to,
             pc[s] = "commit", Apply(s), Answer(s, outcome, to)
      PROVE  Inv'
  BY <1>4, CommitKeepsProjection, CommitKeepsHistory, CommitKeepsDecisions
     DEF TablesConsistent
<1>5. ASSUME NEW s \in Sessions, Progress(s) PROVE Inv'
  <2>1. CASE AdjudicationAllows(s)
    <3>1. /\ pc'[s] \notin InTransaction /\ UNCHANGED dbVars
          /\ \A t \in Sessions \ {s} :
                pc'[t] = pc[t] /\ queue'[t] = queue[t] /\ seen'[t] = seen[t]
      BY <2>1 DEF AdjudicationAllows, SessionsOK, InTransaction, dbVars
    <3> QED BY <3>1, LeavingKeepsDecisions, TablesUntouched
  <2>2. CASE AdjudicationDenies(s) BY <1>3, <2>2 DEF AdjudicationDenies, dbVars
  <2>3. CASE BlankOrderEndsCall(s) BY <1>3, <2>3 DEF BlankOrderEndsCall, dbVars
  <2>4. CASE RefuseBlankKey(s) BY <1>2, <2>4 DEF RefuseBlankKey
  <2>5. CASE LockOrder(s)
    BY <2>5, LockKeepsDecisions, TablesUntouched DEF LockOrder, dbVars
  <2>6. CASE Decide(s)
    <3>1. CASE AnswerDuplicate(s) BY <1>2, <3>1 DEF AnswerDuplicate
    <3>2. CASE RefuseDuplicateOfMissing(s) BY <1>2, <3>2 DEF RefuseDuplicateOfMissing
    <3>3. CASE AnswerTerminal(s) BY <1>2, <3>3 DEF AnswerTerminal
    <3>4. CASE AnswerRejected(s) BY <1>2, <3>4 DEF AnswerRejected
    <3>5. CASE RefuseProjection(s) BY <1>2, <3>5 DEF RefuseProjection
    <3>6. CASE AcceptTransition(s)
      BY <3>6, AcceptKeepsDecisions, TablesUntouched DEF AcceptTransition, dbVars
    <3> QED BY <2>6, <3>1, <3>2, <3>3, <3>4, <3>5, <3>6 DEF Decide
  <2>7. CASE WriteOrder(s)
    BY <2>7, WriteKeepsDecisions, TablesUntouched DEF WriteOrder, dbVars
  <2>8. CASE LosesInsertRace(s) BY <1>2, <2>8 DEF LosesInsertRace
  <2>9. CASE Commit(s) BY <1>4, <2>9 DEF Commit
  <2> QED BY <1>5, <2>1, <2>2, <2>3, <2>4, <2>5, <2>6, <2>7, <2>8, <2>9 DEF Progress
<1>6. ASSUME NEW s \in Sessions, Fault(s) PROVE Inv'
  <2>1. CASE StatementFails(s) BY <1>2, <2>1 DEF StatementFails
  <2>2. CASE CommitReplyLost(s) BY <1>4, <2>2 DEF CommitReplyLost
  <2>3. CASE Crash(s) BY <1>3, <2>3 DEF Crash, dbVars
  <2> QED BY <1>6, <2>1, <2>2, <2>3 DEF Fault
<1>7. CASE ChangeSafetyMode \/ UNCHANGED vars
  <2>1. UNCHANGED <<orders, transitions, pc, queue, seen>>
    BY <1>7 DEF ChangeSafetyMode, vars
  <2>2. DecisionsStillHold'
    BY <2>1 DEF DecisionsStillHold, Current, Holds, Inserting, KeyRecorded, Projects
  <2> QED BY <2>1, <2>2, TablesUntouched DEF dbVars
<1> QED BY <1>1, <1>5, <1>6, <1>7 DEF Next

\* The empty tables satisfy the inductive invariant.
LEMMA InitEstablishesInv == Init => Inv
<1>1. Init => TypeOK
  BY EmptySeq DEF Init, TypeOK, TablesOK, SessionsOK, InTransaction
<1> QED BY <1>1, EmptySeq DEF Init, Inv, TablesConsistent, ProjectionMatchesLedger,
           LegalHistory, KeysUnique, DecisionsStillHold, InTransaction

\* The inductive invariant holds in every run.
LEMMA InvIsInvariant == Spec => []Inv
<1>1. Inv /\ TypeOK' /\ [Next]_vars => Inv' BY NextKeepsInv
<1> QED BY <1>1, InitEstablishesInv, TypeInvariant, PTL DEF Spec

\* For every set of orders, sessions, callers' requests and keys: the order rows
\* summarise their histories, the histories are runs of the state machine, and no
\* key is applied twice.
THEOREM TablesStayConsistent == Spec => []TablesConsistent
<1>1. Inv => TablesConsistent BY DEF Inv
<1> QED BY <1>1, InvIsInvariant, PTL

\* No session ever commits on what has changed since it read it.
THEOREM NoDecisionGoesStale == Spec => []DecisionsStillHold
<1>1. Inv => DecisionsStillHold BY DEF Inv
<1> QED BY <1>1, InvIsInvariant, PTL

-----------------------------------------------------------------------------
(* Terminal orders and the abstract ledger.                                *)

\* Only a commit changes the tables.
LEMMA OnlyCommitsWrite ==
    ASSUME TypeOK, [Next]_vars
    PROVE  \/ UNCHANGED dbVars
           \/ \E s \in Sessions : pc[s] = "commit" /\ Apply(s)
BY DEF Next, Start, Submit, Cancel, ApplyVenueEvent, Begin, Progress, AdjudicationAllows,
       AdjudicationDenies, BlankOrderEndsCall, RefuseBlankKey, LockOrder, Decide,
       AnswerDuplicate, RefuseDuplicateOfMissing, AnswerTerminal, AnswerRejected,
       RefuseProjection, AcceptTransition, WriteOrder, LosesInsertRace, Commit, Fault,
       StatementFails, CommitReplyLost, Crash, ChangeSafetyMode, dbVars, vars

\* A terminal order is never written again.
LEMMA TerminalStep ==
    ASSUME Inv, [Next]_vars, NEW o \in Orders, StateOf(o) \in Terminal
    PROVE  orders'[o] = orders[o] /\ transitions'[o] = transitions[o]
<1>1. CASE UNCHANGED dbVars BY <1>1 DEF dbVars
<1>2. ASSUME NEW s \in Sessions, pc[s] = "commit", Apply(s)
      PROVE  orders'[o] = orders[o] /\ transitions'[o] = transitions[o]
  <2>1. CASE o = Current(s).order
    <3>1. orders[o] # Absent BY DEF StateOf, Terminal
    <3>2. seen[s] \in Rows /\ orders[o] = seen[s] /\ MayMove(seen[s].state, Current(s).to)
      BY <1>2, <2>1, <3>1, CommitSituation
    <3>3. seen[s].state \in States BY <3>2 DEF Rows
    <3>4. StateOf(o) = seen[s].state BY <3>1, <3>2 DEF StateOf
    <3> QED BY <3>2, <3>3, <3>4, TerminalHasNoSuccessor
  <2>2. CASE o # Current(s).order BY <1>2, <2>2, CommittedHistory
  <2> QED BY <2>1, <2>2
<1> QED BY <1>1, <1>2, OnlyCommitsWrite DEF Inv

\* Filled, canceled and expired orders are final, whatever their sessions read.
THEOREM TerminalOrdersAreFinal == Spec => TerminalIsFinal
<1>1. Inv /\ [Next]_vars =>
        [\A o \in Orders : StateOf(o) \in Terminal =>
            orders'[o] = orders[o] /\ transitions'[o] = transitions[o]]_vars
  BY TerminalStep
<1> QED BY <1>1, InvIsInvariant, PTL DEF Spec, TerminalIsFinal

\* The tables refine the abstract ledger.
LEMMA CommitRefines ==
    ASSUME Inv, Inv', NEW s \in Sessions, pc[s] = "commit", Apply(s)
    PROVE  Ledger!Next
<1> DEFINE o == Current(s).order
           h == transitions[o]
           g == transitions'[o]
           e == NextTransition(s)
<1>1. o \in Orders /\ e \in Transition /\ Current(s) \in Commands
  BY NextRowTyped DEF InTransaction, Inv
<1>2. transitions' = [transitions EXCEPT ![o] = Append(h, e)]
  BY <1>1 DEF Apply, Inv, TypeOK, TablesOK
<1>3. /\ Len(g) = Len(h) + 1 /\ g[Len(h) + 1] = e /\ h \in Seq(Transition)
      /\ g = Append(h, e)
  BY <1>1, <1>2, CommittedHistory DEF Inv, TypeOK, TablesOK
<1>4. Len(h) \in Nat BY <1>3, LenProperties
<1>5. g[Len(g)] = e BY <1>3, <1>4
<1>6. e \in Ledger!Entry BY <1>1 DEF Ledger!Entry, Transition, States, Ledger!States
<1>7. CASE seen[s] = Absent
  <2>1. h = << >> BY <1>7, CommitSituation
  <2>2. e.from = "none" /\ e.seq = 1 BY <1>7 DEF NextTransition, NextSeq
  <2>3. Append(h, e) = <<e>> BY <2>1
  <2>4. Ledger!Create(o, e) BY <1>2, <2>1, <2>2, <2>3 DEF Ledger!Create
  <2> QED BY <1>1, <1>3, <1>5, <1>6, <2>4 DEF Ledger!Next
<1>8. CASE seen[s] # Absent
  <2>1. /\ h # << >> /\ Len(h) \in Nat \ {0} /\ seen[s].seq = Len(h)
        /\ seen[s].state = h[Len(h)].to /\ seen[s].created = h[1].at
        /\ orders[o] = seen[s]
        /\ MayMove(seen[s].state, Current(s).to) /\ Projects(seen[s], Current(s))
        /\ \A i \in 1..Len(h) : h[i].key # Current(s).key
    BY <1>8, CommitSituation
  <2>2. /\ e.from = seen[s].state /\ e.to = Current(s).to /\ e.key = Current(s).key
        /\ e.market = Current(s).market /\ e.mode = Current(s).mode
        /\ e.at = Current(s).at /\ e.seq = Len(h) + 1
    BY <1>8, <2>1 DEF NextTransition, NextSeq
  <2>3. h[Len(h)].seq = Len(h) /\ h[1].market = seen[s].market /\ h[1].mode = seen[s].mode
    <3>1. \A i \in 1..Len(h) :
              h[i].seq = i /\ h[i].market = orders[o].market /\ h[i].mode = orders[o].mode
      BY <1>1 DEF Inv, TablesConsistent, LegalHistory
    <3> QED BY <2>1, <3>1
  <2>4. Ledger!MayMove(h[Len(h)].to, e.to)
    BY <2>1, <2>2 DEF MayMove, Ledger!MayMove, Successors, Ledger!Successors,
                      States, Ledger!States, Terminal, Ledger!Terminal
  <2> HIDE DEF o, h, g, e
  <2>5. Ledger!Extend(o, e)
    BY <1>2, <2>1, <2>2, <2>3, <2>4 DEF Ledger!Extend, Projects, h
  <2> QED BY <1>1, <1>3, <1>5, <1>6, <2>5 DEF Ledger!Next, o, g, h
<1> QED BY <1>7, <1>8

\* The order tables implement OrderLedger: readers see an append-only history.
THEOREM TablesImplementLedger == Spec => LedgerSpec
<1>1. Init => Ledger!Init BY DEF Init, Ledger!Init
<1>2. Inv /\ Inv' /\ [Next]_vars => [Ledger!Next]_transitions
  BY OnlyCommitsWrite, CommitRefines DEF Inv, dbVars
<1> QED BY <1>1, <1>2, InvIsInvariant, PTL DEF Spec, LedgerSpec, Ledger!Spec

-----------------------------------------------------------------------------
(* Answers stay true.  A reply tells of a key or of a terminal state, and    *)
(* both last; that a batch report is true needs, besides, that every entry   *)
(* of a history was asked for by some caller under that key.                 *)

\* What a single answer promises.
Good(a) ==
    /\ a.outcome \in {"applied", "duplicate"} => KeyRecorded(a.order, a.key)
    /\ a.outcome = "already_terminal" => StateOf(a.order) = a.to /\ a.to \in Terminal

\* Some caller asked for this state of the order under this key.
Asked(o, key, to) ==
    \E r \in Requests : \E i \in 1..Len(r.items) :
        r.items[i].order = o /\ KeyOf(r, r.items[i]) = key /\ TargetOf(r) = to

CommandsAsked ==
    \A s \in Sessions : \A i \in 1..Len(queue[s]) :
        Asked(queue[s][i].order, queue[s][i].key, queue[s][i].to)

EntriesAsked ==
    \A o \in Orders : \A i \in 1..Len(transitions[o]) :
        Asked(o, transitions[o][i].key, transitions[o][i].to)

AnswersInv == Inv /\ AnswersHold /\ CommandsAsked /\ EntriesAsked

\* What one answer promises is kept by every step.
LEMMA GoodStays ==
    ASSUME Inv, [Next]_vars, NEW a \in Answers, Good(a)
    PROVE  Good(a)'
<1>1. a.order \in Orders BY DEF Answers
<1>2. ASSUME KeyRecorded(a.order, a.key) PROVE KeyRecorded(a.order, a.key)'
  <2>1. CASE UNCHANGED dbVars BY <1>2, <2>1 DEF dbVars, KeyRecorded
  <2>2. ASSUME NEW s \in Sessions, pc[s] = "commit", Apply(s)
        PROVE  KeyRecorded(a.order, a.key)'
    <3>1. PICK i \in 1..Len(transitions[a.order]) : transitions[a.order][i].key = a.key
      BY <1>2 DEF KeyRecorded
    <3>2. CASE a.order = Current(s).order
      <4>1. /\ transitions[a.order] \in Seq(Transition)
            /\ Len(transitions'[a.order]) = Len(transitions[a.order]) + 1
            /\ transitions'[a.order][i] = transitions[a.order][i]
        BY <2>2, <3>2, CommittedHistory
      <4>2. i \in 1..Len(transitions'[a.order]) BY <4>1, LenProperties
      <4> QED BY <3>1, <4>1, <4>2 DEF KeyRecorded
    <3>3. CASE a.order # Current(s).order
      <4>1. transitions'[a.order] = transitions[a.order] BY <1>1, <2>2, <3>3, CommittedHistory
      <4> QED BY <1>2, <4>1 DEF KeyRecorded
    <3> QED BY <3>2, <3>3
  <2> QED BY <2>1, <2>2, OnlyCommitsWrite DEF Inv
<1>3. ASSUME StateOf(a.order) = a.to, a.to \in Terminal
      PROVE  StateOf(a.order)' = a.to
  <2>1. orders'[a.order] = orders[a.order] BY <1>1, <1>3, TerminalStep
  <2> QED BY <1>3, <2>1 DEF StateOf
<1> QED BY <1>2, <1>3 DEF Good

\* A caller may be told what is good by then.
LEMMA AnswersGrow ==
    ASSUME Inv, AnswersHold, [Next]_vars, NEW b, Good(b)',
           \A t \in Sessions : answers'[t] \subseteq answers[t] \cup {b}
    PROVE  AnswersHold'
<1>1. ASSUME NEW t \in Sessions, NEW a \in answers[t] PROVE Good(a)'
  <2>1. a \in Answers /\ Good(a) BY <1>1 DEF Inv, TypeOK, SessionsOK, AnswersHold, Good
  <2> QED BY <2>1, GoodStays
<1>2. ASSUME NEW t \in Sessions, NEW a \in answers'[t] PROVE Good(a)'
  BY <1>1, <1>2
<1> QED BY <1>2 DEF AnswersHold, Good

\* So may a step that tells no caller anything new.
LEMMA AnswersKept ==
    ASSUME Inv, AnswersHold, [Next]_vars,
           \A t \in Sessions : answers'[t] \subseteq answers[t]
    PROVE  AnswersHold'
<1>1. ASSUME NEW t \in Sessions, NEW a \in answers'[t] PROVE Good(a)'
  <2>1. a \in answers[t] BY <1>1
  <2>2. a \in Answers /\ Good(a) BY <2>1 DEF Inv, TypeOK, SessionsOK, AnswersHold, Good
  <2> QED BY <2>2, GoodStays
<1> QED BY <1>1 DEF AnswersHold, Good

\* What a session answers.
LEMMA AnswerAdds ==
    ASSUME Inv, NEW s \in Sessions, NEW outcome, NEW to, Answer(s, outcome, to), NEW b,
           b = [order |-> Current(s).order, key |-> Current(s).key, kind |-> call[s].kind,
                outcome |-> outcome, to |-> to]
    PROVE  \A t \in Sessions : answers'[t] \subseteq answers[t] \cup {b}
<1>1. answers' = [answers EXCEPT ![s] = answers[s] \cup {b}]
  BY DEF Answer, Inv, TypeOK, SessionsOK
<1> QED BY <1>1 DEF Inv, TypeOK, SessionsOK

\* Failures and refusals promise nothing.
LEMMA RefusalKeepsAnswers ==
    ASSUME Inv, AnswersHold, [Next]_vars, NEW s \in Sessions, NEW to,
           NEW outcome \in {"rejected", "retryable", "hard"}, Answer(s, outcome, to)
    PROVE  AnswersHold'
<1>1. PICK b : b = [order |-> Current(s).order, key |-> Current(s).key,
                    kind |-> call[s].kind, outcome |-> outcome, to |-> to]
  OBVIOUS
<1>2. b.outcome \notin {"applied", "duplicate", "already_terminal"} BY <1>1
<1>3. Good(b)' BY <1>2 DEF Good
<1> QED BY <1>1, <1>3, AnswerAdds, AnswersGrow

\* A session that starts, ends or dies tells nothing.
LEMMA SilenceKeepsAnswers ==
    ASSUME Inv, AnswersHold, [Next]_vars, NEW s \in Sessions,
           answers' = [answers EXCEPT ![s] = {}] \/ UNCHANGED answers
    PROVE  AnswersHold'
BY AnswersKept DEF Inv, TypeOK, SessionsOK

\* A duplicate's key is on record.
LEMMA DuplicateKeepsAnswers ==
    ASSUME Inv, AnswersHold, [Next]_vars, NEW s \in Sessions, AnswerDuplicate(s)
    PROVE  AnswersHold'
<1>1. PICK b : b = [order |-> Current(s).order, key |-> Current(s).key,
                    kind |-> call[s].kind, outcome |-> "duplicate", to |-> seen[s].state]
  OBVIOUS
<1>2. KeyRecorded(b.order, b.key) BY <1>1 DEF AnswerDuplicate, IsDuplicate
<1>3. KeyRecorded(b.order, b.key)' BY <1>2 DEF KeyRecorded, AnswerDuplicate, dbVars
<1>4. Good(b)' BY <1>1, <1>3 DEF Good
<1> QED BY <1>1, <1>4, AnswerAdds, AnswersGrow DEF AnswerDuplicate

\* A row read for update is the current one, so the order is terminal as told.
LEMMA TerminalKeepsAnswers ==
    ASSUME Inv, AnswersHold, [Next]_vars, NEW s \in Sessions, AnswerTerminal(s)
    PROVE  AnswersHold'
<1>1. PICK b : b = [order |-> Current(s).order, key |-> Current(s).key,
                    kind |-> call[s].kind, outcome |-> "already_terminal",
                    to |-> seen[s].state]
  OBVIOUS
<1>2. orders[Current(s).order] = seen[s] /\ seen[s] # Absent
  BY DEF AnswerTerminal, Inv, DecisionsStillHold, InTransaction
<1>3. StateOf(b.order) = b.to /\ b.to \in Terminal BY <1>1, <1>2 DEF StateOf, AnswerTerminal
<1>4. StateOf(b.order)' = b.to BY <1>3 DEF StateOf, AnswerTerminal, dbVars
<1>5. Good(b)' BY <1>1, <1>3, <1>4 DEF Good
<1> QED BY <1>1, <1>5, AnswerAdds, AnswersGrow DEF AnswerTerminal

\* A commit records its command's key.
LEMMA CommitKeepsAnswers ==
    ASSUME Inv, AnswersHold, [Next]_vars, NEW s \in Sessions, Commit(s)
    PROVE  AnswersHold'
<1>1. PICK b : b = [order |-> Current(s).order, key |-> Current(s).key,
                    kind |-> call[s].kind, outcome |-> "applied", to |-> Current(s).to]
  OBVIOUS
<1>2. PICK n \in Nat : n = Len(transitions[b.order])
  BY <1>1, CommitSituation, LenProperties DEF Commit
<1>3. Len(transitions'[b.order]) = n + 1 /\ transitions'[b.order][n + 1].key = b.key
  <2>1. b.order = Current(s).order /\ b.key = Current(s).key BY <1>1
  <2>2. /\ Len(transitions'[b.order]) = n + 1
        /\ transitions'[b.order][n + 1] = NextTransition(s)
    BY <1>2, <2>1, CommittedHistory DEF Commit
  <2>3. NextTransition(s).key = b.key BY <2>1 DEF NextTransition
  <2> QED BY <2>2, <2>3
<1>4. KeyRecorded(b.order, b.key)' BY <1>2, <1>3 DEF KeyRecorded
<1>5. Good(b)' BY <1>1, <1>4 DEF Good
<1> QED BY <1>1, <1>5, AnswerAdds, AnswersGrow DEF Commit

\* What callers were told of single commands stays true.
LEMMA NextKeepsAnswers ==
    ASSUME Inv, AnswersHold, [Next]_vars
    PROVE  AnswersHold'
<1>1. ASSUME NEW s \in Sessions, Start(s) PROVE AnswersHold'
  BY <1>1, SilenceKeepsAnswers DEF Start, Submit, Cancel, ApplyVenueEvent, Begin
<1>2. ASSUME NEW s \in Sessions, Progress(s) PROVE AnswersHold'
  <2>1. CASE AnswerDuplicate(s) BY <2>1, DuplicateKeepsAnswers
  <2>2. CASE AnswerTerminal(s) BY <2>2, TerminalKeepsAnswers
  <2>3. CASE Commit(s) BY <2>3, CommitKeepsAnswers
  <2>4. CASE RefuseBlankKey(s) \/ RefuseDuplicateOfMissing(s) \/ RefuseProjection(s)
             \/ LosesInsertRace(s)
    BY <2>4, RefusalKeepsAnswers
    DEF RefuseBlankKey, RefuseDuplicateOfMissing, RefuseProjection, LosesInsertRace
  <2>5. CASE AnswerRejected(s) BY <2>5, RefusalKeepsAnswers DEF AnswerRejected
  <2>6. CASE AdjudicationAllows(s) \/ AdjudicationDenies(s) \/ BlankOrderEndsCall(s)
             \/ LockOrder(s) \/ AcceptTransition(s) \/ WriteOrder(s)
    BY <2>6, SilenceKeepsAnswers DEF AdjudicationAllows, AdjudicationDenies,
       BlankOrderEndsCall, LockOrder, AcceptTransition, WriteOrder
  <2> QED BY <1>2, <2>1, <2>2, <2>3, <2>4, <2>5, <2>6 DEF Progress, Decide
<1>3. ASSUME NEW s \in Sessions, Fault(s) PROVE AnswersHold'
  <2>1. CASE StatementFails(s) \/ CommitReplyLost(s)
    BY <2>1, RefusalKeepsAnswers DEF StatementFails, CommitReplyLost
  <2>2. CASE Crash(s) BY <2>2, SilenceKeepsAnswers DEF Crash
  <2> QED BY <1>3, <2>1, <2>2 DEF Fault
<1>4. CASE ChangeSafetyMode \/ UNCHANGED vars
  BY <1>4, AnswersKept DEF ChangeSafetyMode, vars
<1> QED BY <1>1, <1>2, <1>3, <1>4 DEF Next

\* The commands of a call are what its caller asked for.
LEMMA CallIsAsked ==
    ASSUME NEW r \in Requests, NEW i \in 1..Len(CommandsOf(r))
    PROVE  LET c == CommandsOf(r)[i] IN
           i \in 1..Len(r.items) /\ Asked(c.order, c.key, c.to)
<1>1. r \in Request BY DEF Request
<1>2. Len(r.items) \in Nat BY <1>1, LenProperties DEF Request
<1>3. Len(CommandsOf(r)) = Len(r.items) BY <1>2 DEF CommandsOf
<1>4. CommandsOf(r)[i] = CommandOf(r, r.items[i]) BY <1>2, <1>3 DEF CommandsOf
<1> QED BY <1>3, <1>4 DEF CommandOf, Asked

\* A session that takes up commands that were asked for.
LEMMA BeginKeepsAsked ==
    ASSUME Inv, CommandsAsked, NEW s \in Sessions, NEW q,
           queue' = [queue EXCEPT ![s] = q],
           \A i \in 1..Len(q) : Asked(q[i].order, q[i].key, q[i].to)
    PROVE  CommandsAsked'
<1>1. \A t \in Sessions : queue'[t] = IF t = s THEN q ELSE queue[t]
  BY DEF Inv, TypeOK, SessionsOK
<1>2. ASSUME NEW t \in Sessions, NEW i \in 1..Len(queue'[t])
      PROVE  Asked(queue'[t][i].order, queue'[t][i].key, queue'[t][i].to)
  <2>1. CASE t = s
    <3>1. queue'[t] = q BY <1>1, <2>1
    <3> QED BY <1>2, <3>1
  <2>2. CASE t # s
    <3>1. queue'[t] = queue[t] BY <1>1, <2>2
    <3> QED BY <1>2, <3>1 DEF CommandsAsked
  <2> QED BY <2>1, <2>2
<1> QED BY <1>2 DEF CommandsAsked, Asked

\* A call's end, or the next command of a batch.
LEMMA AnswerKeepsAsked ==
    ASSUME Inv, CommandsAsked, NEW s \in Sessions, pc[s] # "idle",
           \/ Finish(s)
           \/ queue' = [queue EXCEPT ![s] = Tail(queue[s])]
    PROVE  CommandsAsked'
<1>1. queue[s] \in Seq(Commands) /\ queue[s] # << >> BY DEF Inv, TypeOK, SessionsOK
<1>2. CASE Finish(s)
  <2>1. PICK q : q = << >> OBVIOUS
  <2>2. queue' = [queue EXCEPT ![s] = q] /\ 1..Len(q) = {} BY <1>2, <2>1, EmptySeq DEF Finish
  <2> QED BY <2>2, BeginKeepsAsked
<1>3. CASE queue' = [queue EXCEPT ![s] = Tail(queue[s])]
  <2>1. PICK q : q = Tail(queue[s]) OBVIOUS
  <2>2. PICK n \in Nat : n = Len(queue[s]) BY <1>1, LenProperties
  <2>3. Len(q) = n - 1 /\ \A i \in 1..Len(q) : q[i] = queue[s][i + 1]
    BY <1>1, <2>1, <2>2, HeadTailProperties
  <2>4. ASSUME NEW i \in 1..Len(q) PROVE Asked(q[i].order, q[i].key, q[i].to)
    <3>1. i + 1 \in 1..Len(queue[s]) /\ q[i] = queue[s][i + 1] BY <2>2, <2>3
    <3> QED BY <3>1 DEF CommandsAsked
  <2> QED BY <1>3, <2>1, <2>4, BeginKeepsAsked
<1> QED BY <1>2, <1>3

\* Sessions only ever serve what callers asked for.
LEMMA NextKeepsCommandsAsked ==
    ASSUME Inv, CommandsAsked, [Next]_vars
    PROVE  CommandsAsked'
<1>1. ASSUME NEW s \in Sessions, NEW r \in Requests, NEW first,
             Begin(s, r, first, CommandsOf(r))
      PROVE  CommandsAsked'
  <2>1. PICK q : q = CommandsOf(r) OBVIOUS
  <2>2. \A i \in 1..Len(q) : Asked(q[i].order, q[i].key, q[i].to) BY <2>1, CallIsAsked
  <2> QED BY <1>1, <2>1, <2>2, BeginKeepsAsked DEF Begin
<1>2. ASSUME NEW s \in Sessions, NEW r \in Requests, ApplyVenueEvent(s, r)
      PROVE  CommandsAsked'
  <2>1. PICK m, q : queue' = [queue EXCEPT ![s] = q] /\ q = <<[CommandsOf(r)[1] EXCEPT !.mode = m]>>
    BY <1>2 DEF ApplyVenueEvent, Begin
  <2>2. CommandsOf(r) \in Seq(Commands) /\ CommandsOf(r) # << >> BY CommandsTyped
  <2>3. 1 \in 1..Len(CommandsOf(r)) /\ CommandsOf(r)[1] \in Commands
    BY <2>2, EmptySeq, LenProperties
  <2>4. PICK c \in Commands : c = CommandsOf(r)[1] BY <2>3
  <2>5. Asked(c.order, c.key, c.to) BY <2>3, <2>4, CallIsAsked
  <2>6. /\ [c EXCEPT !.mode = m].order = c.order /\ [c EXCEPT !.mode = m].key = c.key
        /\ [c EXCEPT !.mode = m].to = c.to
    BY DEF Commands
  <2>7. Len(q) = 1 /\ q[1] = [c EXCEPT !.mode = m] BY <2>1, <2>4
  <2>8. ASSUME NEW i \in 1..Len(q) PROVE Asked(q[i].order, q[i].key, q[i].to)
    <3>1. i = 1 BY <2>7
    <3>2. q[i].order = c.order /\ q[i].key = c.key /\ q[i].to = c.to BY <2>6, <2>7, <3>1
    <3> QED BY <2>5, <3>2
  <2> QED BY <2>1, <2>8, BeginKeepsAsked
<1>3. ASSUME NEW s \in Sessions, pc[s] # "idle", NEW outcome, NEW to, Answer(s, outcome, to)
      PROVE  CommandsAsked'
  BY <1>3, AnswerKeepsAsked DEF Answer
<1>4. ASSUME UNCHANGED queue PROVE CommandsAsked'
  BY <1>4 DEF CommandsAsked, Asked
<1>5. ASSUME NEW s \in Sessions, Start(s) PROVE CommandsAsked'
  BY <1>1, <1>2, <1>5 DEF Start, Submit, Cancel
<1>6. ASSUME NEW s \in Sessions, Progress(s) PROVE CommandsAsked'
  <2>1. CASE AdjudicationAllows(s) \/ LockOrder(s) \/ AcceptTransition(s) \/ WriteOrder(s)
    BY <1>4, <2>1 DEF AdjudicationAllows, LockOrder, AcceptTransition, WriteOrder
  <2>2. CASE AdjudicationDenies(s) \/ BlankOrderEndsCall(s)
    BY <2>2, AnswerKeepsAsked DEF AdjudicationDenies, BlankOrderEndsCall
  <2>3. CASE RefuseBlankKey(s) \/ LosesInsertRace(s) \/ Commit(s)
    BY <1>3, <2>3 DEF RefuseBlankKey, LosesInsertRace, Commit
  <2>4. CASE AnswerDuplicate(s) \/ RefuseDuplicateOfMissing(s) \/ AnswerTerminal(s)
             \/ AnswerRejected(s) \/ RefuseProjection(s)
    BY <1>3, <2>4 DEF AnswerDuplicate, RefuseDuplicateOfMissing, AnswerTerminal,
       AnswerRejected, RefuseProjection
  <2> QED BY <1>6, <2>1, <2>2, <2>3, <2>4 DEF Progress, Decide
<1>7. ASSUME NEW s \in Sessions, Fault(s) PROVE CommandsAsked'
  <2>1. CASE StatementFails(s) BY <1>3, <2>1 DEF StatementFails, InTransaction
  <2>2. CASE CommitReplyLost(s) BY <1>3, <2>2 DEF CommitReplyLost
  <2>3. CASE Crash(s) BY <2>3, AnswerKeepsAsked DEF Crash
  <2> QED BY <1>7, <2>1, <2>2, <2>3 DEF Fault
<1>8. CASE ChangeSafetyMode \/ UNCHANGED vars BY <1>4, <1>8 DEF ChangeSafetyMode, vars
<1> QED BY <1>5, <1>6, <1>7, <1>8 DEF Next

\* So every entry of a history was asked for under its key.
LEMMA NextKeepsEntriesAsked ==
    ASSUME Inv, CommandsAsked, EntriesAsked, [Next]_vars
    PROVE  EntriesAsked'
<1>1. CASE UNCHANGED dbVars
  <2>1. ASSUME NEW o \in Orders, NEW i \in 1..Len(transitions'[o])
        PROVE  Asked(o, transitions'[o][i].key, transitions'[o][i].to)
    <3>1. transitions'[o] = transitions[o] BY <1>1 DEF dbVars
    <3> QED BY <3>1 DEF EntriesAsked
  <2> QED BY <2>1 DEF EntriesAsked, Asked
<1>2. ASSUME NEW s \in Sessions, pc[s] = "commit", Apply(s) PROVE EntriesAsked'
  <2>1. PICK c : c = Current(s) OBVIOUS
  <2>2. c.order \in Orders BY <1>2, <2>1, CommitSituation
  <2>3. queue[s] \in Seq(Commands) /\ queue[s] # << >>
    BY <1>2 DEF Inv, TypeOK, SessionsOK
  <2>4. 1 \in 1..Len(queue[s]) /\ c = queue[s][1]
    BY <2>1, <2>3, EmptySeq, LenProperties, HeadTailProperties DEF Current
  <2>5. Asked(c.order, c.key, c.to) BY <2>4 DEF CommandsAsked
  <2>6. NextTransition(s).key = c.key /\ NextTransition(s).to = c.to
    BY <2>1 DEF NextTransition
  <2>7. PICK n \in Nat : n = Len(transitions[c.order])
    BY <1>2, <2>1, CommitSituation, LenProperties
  <2>8. /\ Len(transitions'[c.order]) = n + 1
        /\ transitions'[c.order][n + 1] = NextTransition(s)
        /\ \A i \in 1..n : transitions'[c.order][i] = transitions[c.order][i]
        /\ \A p \in Orders \ {c.order} : transitions'[p] = transitions[p]
    BY <1>2, <2>1, <2>7, CommittedHistory
  <2>9. ASSUME NEW o \in Orders, NEW i \in 1..Len(transitions'[o])
        PROVE  Asked(o, transitions'[o][i].key, transitions'[o][i].to)
    <3>1. CASE o # c.order BY <2>8, <3>1 DEF EntriesAsked
    <3>2. CASE o = c.order
      <4>1. CASE i = n + 1 BY <2>5, <2>6, <2>8, <3>2, <4>1
      <4>2. CASE i # n + 1
        <5>1. i \in 1..n BY <2>8, <3>2, <4>2
        <5> QED BY <2>7, <2>8, <3>2, <5>1 DEF EntriesAsked
      <4> QED BY <4>1, <4>2
    <3> QED BY <3>1, <3>2
  <2> QED BY <2>9 DEF EntriesAsked, Asked
<1> QED BY <1>1, <1>2, OnlyCommitsWrite DEF Inv

\* A key that callers only cancel with stands in the history of a canceled order.
LEMMA RecordedCancelIsCanceled ==
    ASSUME Inv, EntriesAsked, NEW o \in Orders, NEW key,
           CancelKeyOnly(o, key), KeyRecorded(o, key)
    PROVE  StateOf(o) = "canceled"
<1> DEFINE h == transitions[o]
<1>1. PICK i \in 1..Len(h) : h[i].key = key BY DEF KeyRecorded
<1>2. h[i].to = "canceled" BY <1>1 DEF EntriesAsked, Asked, CancelKeyOnly
<1>3. h \in Seq(Transition) BY DEF Inv, TypeOK, TablesOK
<1>4. Len(h) \in Nat BY <1>3, LenProperties
<1>5. i = Len(h)
  <2>1. SUFFICES ASSUME i # Len(h) PROVE FALSE OBVIOUS
  <2>2. i + 1 \in 1..Len(h) /\ i + 1 # 1 /\ i + 1 - 1 = i BY <1>1, <1>4, <2>1
  <2>3. h[i + 1].from = h[i].to /\ MayMove(h[i + 1].from, h[i + 1].to)
    BY <2>2 DEF Inv, TablesConsistent, LegalHistory
  <2>4. "canceled" \in States BY DEF States
  <2> QED BY <1>2, <2>3, <2>4, TerminalHasNoSuccessor
<1>6. orders[o] # Absent /\ orders[o].state = h[Len(h)].to
  <2>1. h # << >> BY <1>1, <1>4, EmptySeq
  <2> QED BY <2>1 DEF Inv, TablesConsistent, ProjectionMatchesLedger
<1> QED BY <1>2, <1>5, <1>6 DEF StateOf

\* Callers can rely on what they were told, whatever others did since: an applied
\* key is on record, a terminal state is final, and an order that a batch reports
\* canceled is canceled, however many sessions, orders and requests there are.
THEOREM EveryAnswerIsTrue == Spec => []AnswersAreTrue
<1>1. Init => AnswersInv
  <2>1. Init => AnswersHold BY DEF Init, AnswersHold
  <2>2. Init => CommandsAsked /\ EntriesAsked
    BY EmptySeq DEF Init, CommandsAsked, EntriesAsked
  <2> QED BY <2>1, <2>2, InitEstablishesInv DEF AnswersInv
<1>2. AnswersInv /\ Inv' /\ [Next]_vars => AnswersInv'
  BY NextKeepsAnswers, NextKeepsCommandsAsked, NextKeepsEntriesAsked DEF AnswersInv
<1>3. AnswersInv => AnswersAreTrue
  <2>1. ASSUME AnswersInv, NEW s \in Sessions, NEW a \in answers[s],
               CancelKeyOnly(a.order, a.key)
        PROVE  /\ BatchOutcome(a.outcome) = "canceled" => StateOf(a.order) = "canceled"
               /\ BatchOutcome(a.outcome) = "already_terminal" => StateOf(a.order) \in Terminal
    <3>1. a \in Answers BY <2>1 DEF AnswersInv, Inv, TypeOK, SessionsOK
    <3>2. CASE a.outcome \in {"applied", "duplicate"}
      <4>1. KeyRecorded(a.order, a.key) BY <2>1, <3>2 DEF AnswersInv, AnswersHold
      <4>2. StateOf(a.order) = "canceled"
        BY <2>1, <3>1, <4>1, RecordedCancelIsCanceled DEF AnswersInv, Answers
      <4> QED BY <3>2, <4>2 DEF BatchOutcome
    <3>3. CASE a.outcome = "already_terminal"
      BY <2>1, <3>3 DEF AnswersInv, AnswersHold, BatchOutcome
    <3>4. CASE a.outcome \in {"rejected", "retryable", "hard"} BY <3>4 DEF BatchOutcome
    <3> QED BY <3>1, <3>2, <3>3, <3>4 DEF Answers
  <2> QED BY <2>1 DEF AnswersInv, AnswersAreTrue, BatchReportsAreTrue
<1> QED BY <1>1, <1>2, <1>3, InvIsInvariant, PTL DEF Spec

=============================================================================
