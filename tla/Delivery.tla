------------------------------ MODULE Delivery ------------------------------
(***************************************************************************)
(* What the realtime delivery promises a browser, without saying how.      *)
(*                                                                         *)
(* An event reaches any of the sockets that are in its chat's room, maybe  *)
(* none: the stored chat stays the authority and a browser repairs what it *)
(* missed.  But a socket gets an event only while it is in the room, gets  *)
(* it at most once, and gets the events of one publishing call in order.   *)
(*                                                                         *)
(*   src/src/realtime/contracts.py   "A versioned delivery notification;   *)
(*                                   persistent storage remains            *)
(*                                   authoritative."                       *)
(***************************************************************************)
EXTENDS Naturals, Sequences

CONSTANTS
    Sockets,    \* websocket connections, each used once
    Calls,      \* publishing calls, each of several events in a row
    About       \* About[p]: the chat call p publishes to

VARIABLES
    rooms,      \* rooms[s]: the chats socket s is in; moves as it likes
    published,  \* published[p]: how many events call p has published
    got         \* got[s]: the events pushed to socket s, oldest first

Members(p) == {s \in Sockets : About[p] \in rooms[s]}

\* Socket s may still be given event n of call p.
Takes(s, p, n) == \A i \in DOMAIN got[s] : got[s][i][1] = p => got[s][i][2] < n

Push(p, n, S) == got' = [s \in Sockets |-> IF s \in S THEN Append(got[s], <<p, n>>) ELSE got[s]]

PushSome(p, n) == \E S \in SUBSET {s \in Members(p) : Takes(s, p, n)} : Push(p, n, S)

Init ==
    /\ published = [p \in Calls |-> 0]
    /\ got = [s \in Sockets |-> <<>>]

\* The next event of a call is published, and reaches some of the room at once.
Publish(p) ==
    /\ published' = [published EXCEPT ![p] = @ + 1]
    /\ PushSome(p, published[p] + 1)

\* A published event reaches some of the room later.
Forward(p) ==
    /\ \E n \in 1..published[p] : PushSome(p, n)
    /\ UNCHANGED published

Next == \E p \in Calls : Publish(p) \/ Forward(p)

Spec == Init /\ [][Next]_<<published, got>>
=============================================================================
