---------------------------- MODULE MCProactive ----------------------------
(* A small instance of Proactive for TLC.                                  *)
EXTENDS Proactive, TLC

CONSTANTS web, app, r1, r2, p1, e1, t1

\* Both can be raised in the first hour.
DueTimes == p1 :> 1 @@ e1 :> 1

Alike == Permutations({r1, r2})
=============================================================================
