-------------------------- MODULE MCOrderLifecycle --------------------------
(***************************************************************************)
(* A small instance of OrderLifecycle for TLC, in two parts: calls racing   *)
(* for one order, and batches over two.                                    *)
(***************************************************************************)
EXTENDS OrderLifecycle, TLC

CONSTANTS o1, o2, m1, m2, s1, s2

VARIABLE part \* the calls a behaviour is made of

\* Two spellings of k1, so that normalisation matters.
MCRawKeys == {"", "K1", "k1", "k2", "v1", "v2"}
MCFold == [k \in MCRawKeys |-> IF k = "K1" THEN "k1" ELSE k]

Item(o, raw, mode) == [order |-> o, raw |-> raw, mode |-> mode]

Call(kind, items, batch, market, at, status) ==
    [kind |-> kind, items |-> items, batch |-> batch, market |-> market,
     at |-> at, status |-> status]

SubmitCall(o, raw, mode, at) ==
    Call("submit", <<Item(o, raw, mode)>>, "", m1, at, "placement")
CancelCall(o, raw, mode, at) ==
    Call("cancel", <<Item(o, raw, mode)>>, "", m1, at, "placement")
VenueCall(o, raw, at, status) ==
    Call("venue", <<Item(o, raw, "limit")>>, "", m1, at, status)

\* One order: submits under two keys, one of them also in another spelling and
\* mode, cancels with and without a key, venue events that race the submit, the
\* second repeating what the first reported, a call for another market, and a
\* batch for an earlier time than the creation, with a blank order id in it.
RaceRequests ==
    {SubmitCall(o1, "k1", "limit", 1), SubmitCall(o1, "K1", "reduce_only", 1),
     SubmitCall(o1, "k2", "limit", 1),
     CancelCall(o1, "", "limit", 1),
     [CancelCall(o1, "k2", "limit", 1) EXCEPT !.market = m2],
     VenueCall(o1, "v1", 1, "placement"), VenueCall(o1, "v2", 1, "update"),
     VenueCall(o1, "", 1, "update"),
     Call("batch", <<Item(o1, Absent, "limit"), Item("", Absent, "limit")>>,
          "k1", m1, 0, "placement")}

\* Two orders: a cancel-all and a batch that list them in opposite orders (the
\* batch with a key of its own for one order), a reduce-only submit without a
\* key, and a fill of one of the orders.
BatchRequests ==
    {Call("batch", <<Item(o1, "k2", "reduce_only"), Item(o2, Absent, "limit")>>,
          "k1", m1, 1, "placement"),
     Call("cancel_all", <<Item(o2, Absent, "limit"), Item(o1, Absent, "limit")>>,
          "k2", m1, 1, "placement"),
     SubmitCall(o1, "", "reduce_only", 1),
     VenueCall(o1, "v1", 1, "confirmed")}

-----------------------------------------------------------------------------

AllRequests == RaceRequests \cup BatchRequests

PartRequests == IF part = "races" THEN RaceRequests ELSE BatchRequests

PartModes == IF part = "races" THEN {"normal", "paused"} ELSE {"reduce_only"}

MCInit == Init /\ part \in {"races", "batches"} /\ safetyMode \in PartModes

MCNext ==
    /\ Next
    /\ safetyMode' \in PartModes
    /\ \A s \in Sessions : call'[s] \in PartRequests \cup {Absent}
    /\ UNCHANGED part

MCSpec == MCInit /\ [][MCNext]_<<vars, part>>

\* No call of the second part waits for ever on the row locks of another.
EveryBatchEnds == part = "batches" => EveryCallEnds
=============================================================================
