---------------------------- MODULE MCMarketFeeds ----------------------------
(***************************************************************************)
(* A small instance of MarketFeeds for TLC, in two parts: the gate alone,  *)
(* with every order of updates on a long clock, and the gate with the      *)
(* market stream on a short one.                                           *)
(***************************************************************************)
EXTENDS MarketFeeds

CONSTANTS
    a1,
    FeedTime \* bound on the clock of the second part

VARIABLE alone \* which part a behaviour belongs to

MCVars == <<feedVars, alone>>

MCInit == FeedInit /\ alone \in BOOLEAN

GateOnly == alone /\ GateNext /\ UNCHANGED <<marketVars, alone>>

Together == ~alone /\ FeedNext /\ now' <= FeedTime /\ UNCHANGED alone

MCSpec == MCInit /\ [][GateOnly \/ Together]_MCVars
=============================================================================
