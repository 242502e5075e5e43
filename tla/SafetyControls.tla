--------------------------- MODULE SafetyControls ---------------------------
(***************************************************************************)
(* Emergency containment in the governance service                         *)
(* (services/governance-service/src/safety_controls/mod.rs over            *)
(* crates/persistence/src/postgres/safety_controls.rs): operators and      *)
(* automatic triggers append actions to a table, and the action with the   *)
(* latest effective time says which mode trading is in.                    *)
(*                                                                         *)
(* A request is authorised first, which stamps it with an instant no other *)
(* request has (the clock has nanoseconds); it is executed later, in any   *)
(* order with the others, and what it asks for matters only then.          *)
(***************************************************************************)
EXTENDS Integers

CONSTANTS
    Correlations, \* correlation ids callers send
    MaxTime,      \* bound on the number of authorised requests
    Nothing       \* None: no row, no event, no value

Times == 1..MaxTime

ASSUME ControlsAssumption ==
    /\ MaxTime \in Nat \ {0}
    /\ Nothing \notin Int

VARIABLES
    clock,   \* the instant of the last authorised request
    pending, \* instants of the requests authorised and not yet executed
    actions  \* table safety_control_actions

controlVars == <<clock, pending, actions>>

Commands == {"pause", "reduce_only", "cancel_all"}
Triggers == {"stale_feed", "reconciliation_critical", "control_uncertainty"}

\* A row; its requested, effective and completed times are one instant, its
\* action id is made of the three fields and its dedupe key of the first two.
Actions == [kind : Commands \cup Triggers, corr : Correlations, at : Times]

DedupeKey(a) == <<a.kind, a.corr>>

Mode(a) == IF a.kind = "reduce_only" THEN "reduce_only" ELSE "paused"

\* ORDER BY effective_at_utc DESC LIMIT 1.
LatestOf(rows) == CHOOSE a \in rows : \A b \in rows : b.at <= a.at

CurrentMode == IF actions = {} THEN "none" ELSE Mode(LatestOf(actions))

OfCorrelation(c) == {a \in actions : a.corr = c}

ControlInit == clock = 0 /\ pending = {} /\ actions = {}

-----------------------------------------------------------------------------
(* Requests reach the control API.                                         *)

\* authorize_critical_action: the decision's timestamp becomes the request's.
Authorize ==
    /\ clock < MaxTime
    /\ clock' = clock + 1
    /\ pending' = pending \cup {clock + 1}
    /\ UNCHANGED actions

-----------------------------------------------------------------------------
(* Execution, one at a time under operation_lock.                          *)

\* mutant
AcceptsUnlessLatest(a) ==
    \/ OfCorrelation(a.corr) = {}
    \/ DedupeKey(LatestOf(OfCorrelation(a.corr))) # DedupeKey(a)

\* The unique index on dedupe_key refuses a row whose key is in the table.
Accepts(a) == \A b \in actions : DedupeKey(b) # DedupeKey(a)

Insert(a) == actions' = IF Accepts(a) THEN actions \cup {a} ELSE actions

\* The latest action of the correlation answers its own repeat.
IsRepeat(a) ==
    /\ OfCorrelation(a.corr) # {}
    /\ DedupeKey(LatestOf(OfCorrelation(a.corr))) = DedupeKey(a)

\* execute_manual_control; cancel_all's containment port does nothing here.
Manual(a) ==
    /\ a.kind \in Commands
    /\ pending' = pending \ {a.at}
    /\ IF IsRepeat(a) THEN UNCHANGED actions ELSE Insert(a)
    /\ UNCHANGED clock

\* handle_automatic_trigger does not look for an earlier action.
Automatic(a) ==
    /\ a.kind \in Triggers
    /\ pending' = pending \ {a.at}
    /\ Insert(a)
    /\ UNCHANGED clock

ControlStep ==
    \E a \in Actions : a.at \in pending /\ (Manual(a) \/ Automatic(a))

-----------------------------------------------------------------------------
(* Properties.                                                             *)

\* A command repeated under its correlation id takes effect once, at the time
\* it was first executed, whatever was commanded in between: an old pause or
\* reduce-only sent again never displaces a newer mode.
RetriesTakeEffectOnce ==
    \A a, b \in actions : DedupeKey(a) = DedupeKey(b) => a = b
=============================================================================
