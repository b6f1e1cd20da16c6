---------------------------- MODULE MCMemoryRun ----------------------------
(* Small instances of MemoryRun for TLC.                                   *)
EXTENDS MemoryRun

CONSTANTS a, b, ja, jb, ta, e1

OneChat == {a}
OnlyA == [r \in Runs |-> a]
TwoSaid == [c \in Chats |-> IF c = a THEN 2 ELSE 1]
ThreeSaid == [c \in Chats |-> 3]
OneReply == [c \in Chats |-> IF c = a THEN 1 ELSE 0]
NoReply == [c \in Chats |-> 0]
AB == [r \in Runs |-> IF r = jb THEN b ELSE a]
=============================================================================
