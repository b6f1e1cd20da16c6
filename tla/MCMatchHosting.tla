--------------------------- MODULE MCMatchHosting ---------------------------
(* A small instance of MatchHosting for TLC.                               *)
EXTENDS MatchHosting, TLC

CONSTANTS ua, ub, o1, o2, w1, w2

\* Both are introduced.
Intros == << [user |-> ua, kind |-> "intro"], [user |-> ub, kind |-> "intro"] >>

\* One is introduced, and asked how it went.
OneIntro == << [user |-> ua, kind |-> "intro"], [user |-> ua, kind |-> "check_in"] >>

Alike == Permutations({o1, o2}) \union Permutations({w1, w2})
=============================================================================
