------------------------------- MODULE Fanout -------------------------------
(***************************************************************************)
(* Realtime delivery on the server: the socket hub of every instance and   *)
(* the event log that carries events between instances.  What the          *)
(* instances tell one another of who is watching (presence) is left out.   *)
(*                                                                         *)
(*   src/src/realtime/hub.py              sockets, rooms, publish          *)
(*   src/src/realtime/fanout.py           append to the log, read it       *)
(*   src/src/storage/realtime_events.py   the log                          *)
(*   src/src/api/routes/realtime.py       the websocket handler            *)
(*                                                                         *)
(* A process that dies needs no action of its own: its calls take no more  *)
(* steps, its sockets break, and the one that replaces it is a new one.    *)
(* The hub's lock is never held across an await, and send_json only hands  *)
(* a frame to the server's buffer, so reading a room and sending to its    *)
(* sockets is one step.  A database call runs in a thread: its statements  *)
(* are steps of their own.                                                 *)
(***************************************************************************)
EXTENDS Integers, Sequences, SequencesExt

CONSTANTS
    Instances,  \* server processes; a restarted one is a new one (uuid4)
    Sockets,    \* websocket connections, each used once
    Home,       \* Home[s]: the instance that accepts socket s
    Chats,      \* the chats, each one user's
    Calls,      \* publishing calls: a reply, a saved message, a nudge
    From,       \* From[p]: the instance call p runs on
    About,      \* About[p]: the chat call p publishes to
    Sends,      \* Sends[p]: how many events call p publishes
    Limit       \* realtime_events_after's limit

ASSUME FanoutAssumption ==
    /\ Home \in [Sockets -> Instances] /\ From \in [Calls -> Instances]
    /\ About \in [Calls -> Chats] /\ Sends \in [Calls -> Nat]
    /\ Limit \in Nat \ {0}

VARIABLES
    socket,    \* socket[s]: "open", "broken" (gone unnoticed) or "closed"
    rooms,     \* rooms[s]: the chat rooms s is in, in the hub's memory
    got,       \* got[s]: the events pushed to s
    call,      \* call[p]: how far the publishing call p is
    lastId,    \* the log's id sequence: the last id given out
    log,       \* the committed rows of realtime_events
    mark,      \* mark[i]: RealtimeFanout._last_id
    batch,     \* batch[i]: rows read and not yet pushed by i's drain
    \* history, read by the properties only
    waiting    \* waiting[s]: rows committed ahead of s's reader while s was, and
               \* since s has been, connected and in the room

hub == <<socket, rooms>>
publishing == <<call, lastId, log>>
reading == <<mark, batch>>
vars == <<hub, got, waiting, publishing, reading>>

-----------------------------------------------------------------------------
None == -1

Row == [id : Nat, from : Instances, call : Calls, n : Nat]

TypeOK ==
    /\ socket \in [Sockets -> {"open", "broken", "closed"}]
    /\ rooms \in [Sockets -> SUBSET Chats]
    /\ \A s \in Sockets : rooms[s] # {} => socket[s] \in {"open", "broken"}
    /\ \A p \in Calls : /\ call[p].n \in 1..(Sends[p] + 1) /\ call[p].id \in 0..lastId
                        /\ call[p].step \in {"send", "append", "commit"}
    /\ \A r \in log : r \in Row /\ r.id \in 1..lastId
    /\ \A i \in Instances : mark[i] \in None..lastId /\ ToSet(batch[i]) \subseteq log

Init ==
    /\ socket = [s \in Sockets |-> "open"]
    /\ rooms = [s \in Sockets |-> {}]
    /\ got = [s \in Sockets |-> <<>>]
    /\ call = [p \in Calls |-> [n |-> 1, step |-> "send", id |-> 0]]
    /\ lastId = 0 /\ log = {}
    /\ mark = [i \in Instances |-> None]
    /\ batch = [i \in Instances |-> <<>>]
    /\ waiting = [s \in Sockets |-> {}]

-----------------------------------------------------------------------------
(* The hub: sockets and rooms.                                             *)

\* The rooms become r.
Move(r) ==
    /\ rooms' = r
    /\ waiting' = [s \in Sockets |-> {w \in waiting[s] : About[w.call] \in r[s]}]

\* Mutant of Without: the connection goes, its rooms stay.
WithoutNone(S) == rooms

\* Sockets in S leave every room (unregister).
Without(S) == [s \in Sockets |-> IF s \in S THEN {} ELSE rooms[s]]

Subscribe(s, c) ==
    /\ socket[s] = "open" /\ c \notin rooms[s]
    /\ Move([rooms EXCEPT ![s] = @ \union {c}])
    /\ UNCHANGED <<socket, got, publishing, reading>>

Unsubscribe(s, c) ==
    /\ socket[s] = "open" /\ c \in rooms[s]
    /\ Move([rooms EXCEPT ![s] = @ \ {c}])
    /\ UNCHANGED <<socket, got, publishing, reading>>

\* The network goes, or the tab is closed.
Break(s) ==
    /\ socket[s] = "open"
    /\ socket' = [socket EXCEPT ![s] = "broken"]
    /\ waiting' = [waiting EXCEPT ![s] = {}]
    /\ UNCHANGED <<rooms, got, publishing, reading>>

\* WebSocketDisconnect in the handler: unregister.
Disconnect(s) ==
    /\ socket[s] = "broken"
    /\ socket' = [socket EXCEPT ![s] = "closed"]
    /\ Move(Without({s}))
    /\ UNCHANGED <<got, publishing, reading>>

\* publish_local: the event goes to the room's sockets on instance i; one that
\* cannot be sent to is unregistered.
PublishLocal(i, p, n) ==
    LET members == {s \in Sockets : Home[s] = i /\ About[p] \in rooms[s]}
        stale == {s \in members : socket[s] = "broken"} IN
    /\ got' = [s \in Sockets |-> IF s \in members /\ socket[s] = "open"
                                 THEN Append(got[s], <<p, n>>) ELSE got[s]]
    /\ socket' = [s \in Sockets |-> IF s \in stale THEN "closed" ELSE socket[s]]
    /\ Move(Without(stale))

-----------------------------------------------------------------------------
(* RealtimeFanout.publish: append_realtime_event, best effort.             *)

Sending(p, step) == call[p].n <= Sends[p] /\ call[p].step = step

SendLocal(p) ==
    /\ Sending(p, "send")
    /\ PublishLocal(From[p], p, call[p].n)
    /\ call' = [call EXCEPT ![p].step = "append"]
    /\ UNCHANGED <<lastId, log, reading>>

NextEvent(p) == call' = [call EXCEPT ![p] = [n |-> @.n + 1, step |-> "send", id |-> 0]]

\* The INSERT takes the next id of the sequence, before it commits.
TakeId(p) ==
    /\ Sending(p, "append")
    /\ lastId' = lastId + 1
    /\ call' = [call EXCEPT ![p].step = "commit", ![p].id = lastId + 1]
    /\ UNCHANGED <<hub, got, waiting, log, reading>>

\* How far instance i has read, pushed or not.
Reached(i) == IF batch[i] = <<>> THEN mark[i] ELSE Last(batch[i]).id

\* The sockets on other instances a committed row is for, and still ahead of.
Awaited(s, r) == /\ socket[s] = "open" /\ About[r.call] \in rooms[s] /\ Home[s] # r.from
                 /\ Reached(Home[s]) \in 0..(r.id - 1)

CommitRow(p) ==
    LET r == [id |-> call[p].id, from |-> From[p], call |-> p, n |-> call[p].n] IN
    /\ Sending(p, "commit")
    /\ log' = log \union {r}
    /\ waiting' = [s \in Sockets |-> waiting[s] \union (IF Awaited(s, r) THEN {r} ELSE {})]
    /\ NextEvent(p)
    /\ UNCHANGED <<hub, got, lastId, reading>>

\* The append fails, with or without an id: a warning, and the call goes on.
AppendFails(p) ==
    /\ Sending(p, "append") \/ Sending(p, "commit")
    /\ NextEvent(p)
    /\ UNCHANGED <<hub, got, waiting, lastId, log, reading>>

-----------------------------------------------------------------------------
(* RealtimeFanout.drain.                                                   *)

\* The first drain only marks where this instance starts: max(id) of the log.
StartReader(i) ==
    /\ mark[i] = None
    /\ \E m \in {r.id : r \in log} \union {0} :
        /\ \A r \in log : r.id <= m
        /\ mark' = [mark EXCEPT ![i] = m]
    /\ UNCHANGED <<hub, got, waiting, publishing, batch>>

\* Mutants of Unread: the reader takes its own rows too; it takes only the row
\* whose id comes next.
UnreadOfAll(i) == {r \in log : r.id > mark[i]}
UnreadInStep(i) == {r \in log : r.id = mark[i] + 1 /\ r.from # i}

Unread(i) == {r \in log : r.id > mark[i] /\ r.from # i}

\* Mutant of NextBatch: ordered by id, newest first.
NewestBatch(i) ==
    {b \in SeqOf(Unread(i), Limit) :
        /\ Len(b) = Limit \/ ToSet(b) = Unread(i)
        /\ \A j, k \in DOMAIN b : j < k => b[j].id > b[k].id}

\* realtime_events_after: the oldest Limit rows past the mark, in order of id.
NextBatch(i) ==
    {b \in SeqOf(Unread(i), Limit) :
        /\ Len(b) = Limit \/ ToSet(b) = Unread(i)
        /\ \A j, k \in DOMAIN b : j < k => b[j].id < b[k].id
        /\ \A r \in Unread(i) \ ToSet(b) : \A j \in DOMAIN b : b[j].id < r.id}

ReadLog(i) ==
    /\ mark[i] # None /\ batch[i] = <<>> /\ Unread(i) # {}
    /\ \E b \in NextBatch(i) : batch' = [batch EXCEPT ![i] = b]
    /\ UNCHANGED <<hub, got, waiting, publishing, mark>>

PushRow(i) ==
    /\ batch[i] # <<>>
    /\ LET r == Head(batch[i]) IN
       /\ mark' = [mark EXCEPT ![i] = r.id]
       /\ PublishLocal(i, r.call, r.n)
    /\ batch' = [batch EXCEPT ![i] = Tail(@)]
    /\ UNCHANGED publishing

-----------------------------------------------------------------------------
Next ==
    \/ \E s \in Sockets : \/ Break(s) \/ Disconnect(s)
                          \/ \E c \in Chats : Subscribe(s, c) \/ Unsubscribe(s, c)
    \/ \E p \in Calls : SendLocal(p) \/ TakeId(p) \/ CommitRow(p) \/ AppendFails(p)
    \/ \E i \in Instances : StartReader(i) \/ ReadLog(i) \/ PushRow(i)

\* The poll loop runs while the process lives: with LISTEN it is woken, and it
\* polls in any case.  Nobody is obliged to publish, and browsers owe nothing.
Fairness == \A i \in Instances : WF_vars(StartReader(i)) /\ WF_vars(ReadLog(i) \/ PushRow(i))

Spec == Init /\ [][Next]_vars

FairSpec == Spec /\ Fairness

-----------------------------------------------------------------------------
\* What a browser is promised (Delivery), with the events a call has published
\* read off its program counter: no event reaches a socket twice, over the
\* local path and the log, and those of one call arrive in order.
Published == [p \in Calls |-> IF call[p].step = "send" THEN call[p].n - 1 ELSE call[p].n]

Promise == INSTANCE Delivery WITH published <- Published

DeliversAsPromised == Promise!Spec

\* A row committed ahead of a reader's mark is not skipped by it: a socket that
\* was in the room then, and still is, has the event or has it coming.  (A row
\* committed behind the mark is lost to it: ids are given out before commit.)
NothingAheadIsSkipped ==
    \A s \in Sockets : \A r \in waiting[s] :
        <<r.call, r.n>> \in ToSet(got[s]) \/ r.id > mark[Home[s]]

\* Such a row does arrive, while the socket stays.
RowArrives ==
    \A s \in Sockets : \A p \in {q \in Calls : From[q] # Home[s]} : \A n \in 1..Sends[p] :
        (\E r \in waiting[s] : r.call = p /\ r.n = n)
            ~> \/ <<p, n>> \in ToSet(got[s])
               \/ ~ \E r \in waiting[s] : r.call = p /\ r.n = n
=============================================================================
