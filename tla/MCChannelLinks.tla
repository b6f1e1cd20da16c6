--------------------------- MODULE MCChannelLinks ---------------------------
(* A small instance of ChannelLinks for TLC.                               *)
EXTENDS ChannelLinks, TLC

CONSTANTS u1, c1, c2, k1, k2, d1, d2, d3, d4

\* Both codes are for one account.
OneAccount == [k \in Codes |-> u1]

\* Three messages, the second of them delivered twice.
SecondTwice == d1 :> 1 @@ d2 :> 2 @@ d3 :> 2 @@ d4 :> 3

Alike == Permutations({d2, d3}) \union Permutations({k1, k2}) \union Permutations({c1, c2})
=============================================================================
