----------------------------- MODULE MCLiveChat -----------------------------
(* Small instances of LiveChat for TLC.                                    *)
EXTENDS LiveChat, TLC

CONSTANTS m1, m2, v1, n1, r1

\* The run stops at the first excuse: no property asks more of a later state.
Unexcused == excuse = {}
=============================================================================
