---------------------------- MODULE MCReplyBurst ----------------------------
(***************************************************************************)
(* Small instances of ReplyBurst: who sends what.                          *)
(***************************************************************************)
EXTENDS ReplyBurst, TLC

CONSTANTS r1, r2, r3, c1, c2, h1, e1

Two == r1 :> c1 @@ r2 :> c2

\* Two messages and a Retry.
TwoAndARetry == Two @@ r3 :> Retry

\* Two messages, the first sent again after a lost connection.
TwoAndAResend == Two @@ r3 :> c1
=============================================================================
