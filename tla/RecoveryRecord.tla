--------------------------- MODULE RecoveryRecord ---------------------------
(***************************************************************************)
(* What controlled recovery promises the readers of recovery_gate_runs and *)
(* restore_rehearsal_runs, the risk engine among them: evaluations, resumes*)
(* and rehearsals that each take effect in one step, on the reconciliation *)
(* runs and the risk limits as they are at that step.                      *)
(***************************************************************************)
EXTENDS Integers

CONSTANTS
    Times,           \* instants of requests, the keys of both tables
    FreshnessEvents, \* what the freshness gate may have been read to say
    Reconciliations, Checksums, Correlations, Artifacts, Signatures, Nothing

VARIABLES
    reconciled, \* the mismatch rate of each reconciliation run
    bundle,     \* checksum of the active risk limits
    runs,       \* table recovery_gate_runs
    rehearsals  \* table restore_rehearsal_runs

recordVars == <<reconciled, bundle, runs, rehearsals>>

Init ==
    /\ reconciled \in [Reconciliations -> {"matched", "mismatched", Nothing}]
    /\ bundle \in Checksums \cup {Nothing}
    /\ runs = [t \in Times |-> Nothing]
    /\ rehearsals = [t \in Times |-> Nothing]

-----------------------------------------------------------------------------
\* A reconciliation ends, once; other limits are activated.
Reconcile(r) ==
    /\ reconciled[r] = Nothing
    /\ \E rate \in {"matched", "mismatched"} : reconciled' = [reconciled EXCEPT ![r] = rate]
    /\ UNCHANGED <<bundle, runs, rehearsals>>

Activate ==
    /\ bundle' \in Checksums
    /\ UNCHANGED <<reconciled, runs, rehearsals>>

\* Evidence that readiness was there.
Ready(e) ==
    /\ e.freshness # Nothing /\ e.freshness.age = "fresh"
    /\ e.rate = "matched"
    /\ e.computed = e.approved

\* A run is written once.  It tells the rate of a reconciliation run, unless that
\* was missing when it was looked for, and the limits that are active now.
Evaluate(k) ==
    /\ runs[k] = Nothing
    /\ bundle # Nothing
    /\ \E event \in FreshnessEvents \cup {Nothing}, c \in Checksums, r \in Reconciliations :
          \E rate \in {reconciled[r], Nothing} :
             LET e == [freshness |-> event, rate |-> rate, approved |-> c, computed |-> bundle]
             IN runs' = [runs EXCEPT ![k] =
                    [status |-> IF Ready(e) THEN "approved" ELSE "blocked",
                     evidence |-> e, resumed |-> Nothing]]
    /\ UNCHANGED <<reconciled, bundle, rehearsals>>

\* Trading is resumed on an approved run, perhaps again; nothing else of the run
\* changes.
Resume(k, at) ==
    /\ runs[k] # Nothing /\ runs[k].status = "approved"
    /\ at >= k
    /\ runs' = [runs EXCEPT ![k].resumed = at]
    /\ UNCHANGED <<reconciled, bundle, rehearsals>>

\* A rehearsal that passes restored what every passed one of the artifact did.
Agrees(artifact, signature) ==
    \A t \in Times :
        /\ rehearsals[t] # Nothing
        /\ rehearsals[t].passed
        /\ rehearsals[t].artifact = artifact
        => rehearsals[t].signature = signature

Rehearse(t) ==
    /\ rehearsals[t] = Nothing
    /\ \E r \in Reconciliations, c \in Correlations, i \in Correlations \cup {Nothing},
          a \in Artifacts, s \in Signatures, passed \in BOOLEAN :
          /\ reconciled[r] # Nothing
          /\ passed => reconciled[r] = "matched" /\ Agrees(a, s)
          /\ rehearsals' = [rehearsals EXCEPT ![t] =
                 [corr |-> c, incident |-> i, artifact |-> a, signature |-> s,
                  passed |-> passed]]
    /\ UNCHANGED <<reconciled, bundle, runs>>

\* The first conjunct is there for TLC to try first.
Next ==
    /\ recordVars' # recordVars
    /\ \/ \E r \in Reconciliations : Reconcile(r)
       \/ Activate
       \/ \E k \in Times : Evaluate(k)
       \/ \E k, at \in Times : Resume(k, at)
       \/ \E t \in Times : Rehearse(t)

Spec == Init /\ [][Next]_recordVars
=============================================================================
