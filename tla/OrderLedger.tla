---------------------------- MODULE OrderLedger ----------------------------
(***************************************************************************)
(* What the order subsystem promises its readers, whatever the processes   *)
(* that write it do: for every order an append-only history of transitions *)
(* in which the first entry creates the order, each later one is a move    *)
(* that order.rs allows from the state the order was in, entering that     *)
(* state again included, no idempotency key is used twice, nothing follows *)
(* a terminal entry, and the order never changes its market or mode, nor   *)
(* moves to a time before its creation.  (The operations guide allows      *)
(* fewer moves; OrderLifecycle!FollowsTheGuardrails has what it says.)     *)
(***************************************************************************)
EXTENDS OrderStates, Naturals, Sequences

CONSTANTS Keys, Markets, Modes, Times

VARIABLE ledger     \* ledger[o] is the history of order o

Entry == [from: States \cup {"none"}, to: States, key: Keys,
          market: Markets, mode: Modes, at: Times, seq: Nat]

Create(o, e) ==
    /\ ledger[o] = << >>
    /\ e.from = "none"
    /\ e.seq = 1
    /\ ledger' = [ledger EXCEPT ![o] = <<e>>]

Extend(o, e) ==
    /\ ledger[o] # << >>
    /\ LET last == ledger[o][Len(ledger[o])]
           first == ledger[o][1]
       IN /\ e.from = last.to
          /\ MayMove(last.to, e.to)
          /\ e.seq = last.seq + 1
          /\ e.market = first.market
          /\ e.mode = first.mode
          /\ e.at >= first.at
    /\ \A i \in 1..Len(ledger[o]) : ledger[o][i].key # e.key
    /\ ledger' = [ledger EXCEPT ![o] = Append(@, e)]

Init == ledger = [o \in Orders |-> << >>]

\* Create and Extend quantify over the entry through what they append, so the
\* specification can be checked with any set of keys and times.
Next ==
    \E o \in Orders :
        /\ Len(ledger'[o]) = Len(ledger[o]) + 1
        /\ LET e == ledger'[o][Len(ledger'[o])]
           IN e \in Entry /\ (Create(o, e) \/ Extend(o, e))

Spec == Init /\ [][Next]_ledger
=============================================================================
