---------------------------- MODULE MCVibeCard ----------------------------
(* A small instance of VibeCard for TLC.                                   *)
EXTENDS VibeCard, TLC

CONSTANTS humor, tab1, tab2, run1, back1, del1

Alike == Permutations({tab1, tab2})
=============================================================================
