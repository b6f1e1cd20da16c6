----------------------------- MODULE MCFanout -----------------------------
(* A small instance of Fanout for TLC.                                     *)
EXTENDS Fanout, TLC

CONSTANTS x, y, s1, a, p1, p2, p3

\* The chat is open in a tab on x.
OnX == [s \in Sockets |-> x]
ToA == [p \in Calls |-> a]

\* A reply of two events and a saved message are published on y, a nudge on x.
ReplyMessageNudge == p1 :> y @@ p2 :> y @@ p3 :> x
TwoAndOneEach == p1 :> 2 @@ p2 :> 1 @@ p3 :> 1
=============================================================================
