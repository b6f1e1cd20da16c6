------------------------------ MODULE LiveChat ------------------------------
(***************************************************************************)
(* One chat and one browser tab that shows it: what the server saves and   *)
(* publishes, and how the tab keeps its copy from the events it is pushed, *)
(* the answers to its sends, retries and settings, and the recoveries it   *)
(* asks for.                                                               *)
(*                                                                         *)
(*   src/src/api/chat_service.py              save, commit, publish        *)
(*   src/src/api/routes/conversations.py      the message tail             *)
(*   src/apps/web/src/lib/realtime.ts         sequences and recovery       *)
(*   src/apps/web/src/ui/app/messageQueue.ts  the list on screen           *)
(*   src/apps/web/src/ui/app/pages/ChatPage.tsx                            *)
(*                                                                         *)
(* Between the two is the promise of Delivery: an event reaches the tab    *)
(* only while it is in the chat's room, at most once, those of one         *)
(* publishing call in order, and perhaps not at all.  Positions count from *)
(* 1 (the code's sequence plus one).  A message is its identity; a deleted *)
(* one keeps its place and is not modelled, nor is switching chats.        *)
(***************************************************************************)
EXTENDS Integers, Sequences, FiniteSets, FiniteSetsExt, SequencesExt

CONSTANTS
    Mine,       \* user messages written in this tab (client ids)
    Elsewhere,  \* user messages from another device
    Nudges,     \* messages Omi sends on its own
    Replies     \* Omi's replies

Users == Mine \union Elsewhere
Omis == Nudges \union Replies
Messages == Users \union Omis

\* What the tab asks with a list for an answer: a POST of a message, a PATCH.
Settings == "settings"
Requests == Users \union {Settings}

\* A client id is the tab's own.
ASSUME LiveChatAssumption ==
    Mine \intersect (Elsewhere \union Omis) = {} /\ Settings \notin Users

VARIABLES
    chat,      \* the stored messages, in order
    draft,     \* the message Omi's current draft answers through, or NoDraft
    shifts,    \* how often a reply was saved above a later message
    pending,   \* pending[m]: what the call that saved m has yet to publish
    request,   \* request[m]: the tab's POST of message m; "over" if none is open
    answer,    \* answer[q]: the response of request q, on the way
    retry,     \* the Retry of a saved message: its place in the list it was clicked in
    recovery,  \* the tab's request for the tail
    conn,      \* "down", "open" (connected, not in the room) or "joined"
    connected, \* RealtimeClient.hasConnected
    known,     \* the tab's saved messages
    local,     \* its bubbles still on their way
    lastSeq,   \* lastSequences of the chat
    \* history, read by the properties only
    fresh,     \* the newest shift anything the tab applied had seen
    excuse     \* what has happened that the code does not repair

server == <<chat, draft, shifts>>
posting == <<request, answer, retry>>
connection == <<conn, connected>>
view == <<known, local, lastSeq>>
history == <<fresh, excuse>>
chatVars == <<server, pending, posting, recovery, connection, view, history>>

-----------------------------------------------------------------------------
NoDraft == "none"

Idle == [step |-> "idle", after |-> 0, tail |-> <<>>, shifts |-> 0]
NoAnswer == [list |-> <<>>, shifts |-> 0]
NoRetry == [place |-> 0, list |-> <<>>]

ChatTypeOK ==
    /\ chat \in Seq(Messages) /\ IsInjective(chat)
    /\ draft \in ToSet(chat) \union {NoDraft} /\ shifts \in 0..Cardinality(Replies \intersect ToSet(chat))
    /\ \A m \in Messages : \A e \in ToSet(pending[m]) :
          e.place \in 1..Len(chat) /\ e.message \in ToSet(chat)
    /\ request \in [Users -> {"none", "sent", "saved", "over", "rejected"}]
    /\ \A q \in Requests : ToSet(answer[q].list) \subseteq ToSet(chat)
    /\ retry.place \in 0..Len(retry.list)
    /\ recovery.step \in {"idle", "asked", "answered"}
    /\ conn \in {"down", "open", "joined"} /\ connected \in BOOLEAN
    /\ "guessed" \notin excuse => ToSet(known) \subseteq ToSet(chat)
    /\ ToSet(local) \subseteq Users /\ IsInjective(local)
    /\ "replaced" \notin excuse => ToSet(local) \intersect ToSet(known) = {}
    /\ lastSeq \in 0..Len(chat)

ChatInit ==
    /\ chat = <<>> /\ draft = NoDraft /\ shifts = 0
    /\ pending = [m \in Messages |-> <<>>]
    /\ request = [m \in Users |-> IF m \in Mine THEN "none" ELSE "over"]
    /\ answer = [q \in Requests |-> NoAnswer]
    /\ retry = NoRetry
    /\ recovery = Idle
    /\ conn = "down" /\ connected = FALSE
    /\ known = <<>> /\ local = <<>> /\ lastSeq = 0
    /\ fresh = 0 /\ excuse = {}

-----------------------------------------------------------------------------
(* The server: every change of the chat is one transaction, and publishes. *)

\* The events for places first.. of the chat list; those from `moved` on are
\* of messages the change moved or put above others.
Events(list, first, moved, seen) ==
    [k \in 1..(Len(list) - first + 1) |->
        [place |-> first + k - 1, message |-> list[first + k - 1],
         moved |-> first + k - 1 >= moved, shifts |-> seen]]

\* save_web_message, append_message: at the end.
SaveAtEnd(m) ==
    /\ chat' = Append(chat, m)
    /\ pending' = [pending EXCEPT ![m] = Events(chat', Len(chat'), Len(chat') + 1, shifts)]
    /\ UNCHANGED <<draft, shifts>>

Arrive(m) ==
    /\ m \in Elsewhere \union Nudges /\ m \notin ToSet(chat)
    /\ SaveAtEnd(m)
    /\ UNCHANGED <<posting, recovery, connection, view, history>>

\* The tab's POST reaches save_web_message; the same client id is saved once.
\* A request the tab has given up on may still arrive.
Save(m) ==
    /\ \/ request[m] = "sent"
       \/ request[m] = "over" /\ m \in Mine \ ToSet(chat)
    /\ IF m \in ToSet(chat) THEN UNCHANGED <<server, pending>> ELSE SaveAtEnd(m)
    /\ request' = [request EXCEPT ![m] = IF @ = "sent" THEN "saved" ELSE @]
    /\ UNCHANGED <<answer, retry, recovery, connection, view, history>>

\* The replier drafts, or drafts again, an answer to everything so far.
Draft ==
    /\ chat # <<>> /\ Last(chat) \in Users /\ Last(chat) # draft
    /\ Replies \ ToSet(chat) # {}
    /\ draft' = Last(chat)
    /\ UNCHANGED <<chat, shifts, pending, posting, recovery, connection, view, history>>

\* The place of a reply to the message at i: below Omi's own messages.
Below(i) == Min({k \in (i + 1)..(Len(chat) + 1) : k = Len(chat) + 1 \/ chat[k] \in Users})

\* Mutant of FirstUnanswered: only the new end of the chat is published.
NewEnd(i) == Len(chat) + 1

\* The first of the unanswered messages that end at i (_mark_answered): events
\* are published from there, so the tab also sees them marked read.
FirstUnanswered(i) == Min({k \in 1..i : \A j \in k..i : chat[j] \in Users})

\* commit_reply
Commit(r) ==
    /\ draft # NoDraft /\ r \in Replies /\ r \notin ToSet(chat)
    /\ LET i == CHOOSE k \in DOMAIN chat : chat[k] = draft
           start == Below(i) IN
       /\ chat' = InsertAt(chat, start, r)
       /\ shifts' = IF start <= Len(chat) THEN shifts + 1 ELSE shifts
       /\ pending' = [pending EXCEPT ![r] =
              Events(chat', FirstUnanswered(i),
                     IF start <= Len(chat) THEN start ELSE Len(chat) + 2, shifts')]
    /\ draft' = NoDraft
    /\ UNCHANGED <<posting, recovery, connection, view, history>>

-----------------------------------------------------------------------------
(* The list on screen.                                                     *)

\* Mutant of OnTheirWay: a bubble that has landed stays.
AllOfThem(arrived) == local

\* Mutant of OnTheirWay: whatever arrives clears every bubble.
NoneOfThem(arrived) == <<>>

\* stillOnTheirWay: the bubbles that have not arrived.
OnTheirWay(arrived) ==
    LET left[k \in 0..Len(local)] ==
            IF k = 0 THEN <<>>
            ELSE IF local[k] \in arrived THEN left[k - 1] ELSE Append(left[k - 1], local[k])
    IN left[Len(local)]

\* applyMessageAt: list with message m at place i; too far ahead is dropped.
At(list, i, m) ==
    IF i > Len(list) + 1 THEN list
    ELSE IF i = Len(list) + 1 THEN Append(list, m) ELSE [list EXCEPT ![i] = m]

\* The recovered tail laid over the list, place by place.
Over(list, after, tail) ==
    IF after > Len(list) THEN list
    ELSE [k \in 1..Max({Len(list), after + Len(tail)}) |->
            IF k > after /\ k <= after + Len(tail) THEN tail[k - after] ELSE list[k]]

\* mergeServerMessages: an answer shorter than what the tab knows is older.
Longer(list) == IF Len(list) >= Len(known) THEN list ELSE known

\* The tab applies something read when the chat had shifted `seen` times.
Applied(seen) ==
    /\ fresh' = Max({fresh, seen})
    /\ excuse' = IF seen < fresh THEN excuse \union {"crossed"} ELSE excuse

-----------------------------------------------------------------------------
(* Events and recovery: RealtimeClient.                                    *)

\* Mutant of Ask: it asks for what follows the event that showed the gap.
AskPast(seq) == [Idle EXCEPT !.step = "asked", !.after = seq]

\* requestRecovery, with the sequence before the event is counted.
Ask(seq) == [Idle EXCEPT !.step = "asked", !.after = lastSeq]

\* trackSequence, then applyRealtimeEvent.  An event dropped while a recovery
\* that was read before it runs is in neither: nothing asks for it again.
Push(m) ==
    /\ pending[m] # <<>> /\ conn = "joined"
    /\ pending' = [pending EXCEPT ![m] = Tail(@)]
    /\ LET e == Head(pending[m])
           dropped == e.place > Len(known) + 1 IN
       /\ recovery' = IF e.place > lastSeq + 1 /\ recovery.step = "idle"
                      THEN Ask(e.place) ELSE recovery
       /\ lastSeq' = Max({lastSeq, e.place})
       /\ known' = At(known, e.place, e.message)
       /\ IF dropped
          THEN /\ UNCHANGED <<local, fresh>>
               /\ excuse' = IF recovery.step = "answered" THEN excuse \union {"overrun"} ELSE excuse
          ELSE local' = OnTheirWay({e.message}) /\ Applied(e.shifts)
    /\ UNCHANGED <<server, posting, connection>>

\* The event is lost: the tab is not in the room, or the socket breaks, or the
\* event log of another instance never brings it.
Lose(m) ==
    /\ pending[m] # <<>> /\ conn # "joined"
    /\ pending' = [pending EXCEPT ![m] = Tail(@)]
    /\ excuse' = IF Head(pending[m]).moved THEN excuse \union {"missed"} ELSE excuse
    /\ UNCHANGED <<server, posting, recovery, connection, view, fresh>>

\* GET .../messages?after_sequence: the tail as stored now.
ServeRecovery ==
    /\ recovery.step = "asked"
    /\ recovery' = [recovery EXCEPT !.step = "answered", !.shifts = shifts,
                                    !.tail = SubSeq(chat, recovery.after + 1, Len(chat))]
    /\ UNCHANGED <<server, pending, posting, connection, view, history>>

\* recoverConversation's answer is applied, then latest_sequence is noted.
Recover ==
    /\ recovery.step = "answered"
    /\ known' = Over(known, recovery.after, recovery.tail)
    /\ local' = OnTheirWay(ToSet(recovery.tail))
    /\ lastSeq' = Max({lastSeq, recovery.after + Len(recovery.tail)})
    /\ recovery' = Idle
    /\ Applied(recovery.shifts)
    /\ UNCHANGED <<server, pending, posting, connection>>

\* It fails, and is not asked again.
RecoveryFails ==
    /\ recovery.step # "idle"
    /\ recovery' = Idle
    /\ excuse' = excuse \union {"gaveUp"}
    /\ UNCHANGED <<server, pending, posting, connection, view, fresh>>

\* "realtime.connected"; every connection but the first asks for what it missed.
Connect ==
    /\ conn = "down"
    /\ conn' = "open" /\ connected' = TRUE
    /\ recovery' = IF connected /\ recovery.step = "idle" THEN Ask(lastSeq) ELSE recovery
    /\ UNCHANGED <<server, pending, posting, view, history>>

\* The subscribe command sent on open is handled.
Join ==
    /\ conn = "open"
    /\ conn' = "joined"
    /\ UNCHANGED <<server, pending, posting, recovery, connected, view, history>>

Close ==
    /\ conn # "down"
    /\ conn' = "down"
    /\ UNCHANGED <<server, pending, posting, recovery, connected, view, history>>

-----------------------------------------------------------------------------
(* The tab's own sends and retries: sendText, retryMessage and postReply.  *)

\* A request of the chat is open (but not a PATCH of its settings).
ChatSending == retry.place # 0 \/ \E m \in Users : request[m] \in {"sent", "saved"}

Send(m) ==
    /\ request[m] = "none"
    /\ request' = [request EXCEPT ![m] = "sent"]
    /\ local' = Append(local, m)
    /\ UNCHANGED <<server, pending, answer, retry, recovery, connection, known, lastSeq, history>>

\* Retry while bubbles had no answer: with no request open that is all of them,
\* and they go again, in order, each under its id.
Resend ==
    /\ ~ChatSending /\ local # <<>>
    /\ request' = [m \in Users |-> IF m \in ToSet(local) THEN "sent" ELSE request[m]]
    /\ UNCHANGED <<server, pending, answer, retry, recovery, connection, view, history>>

\* Retry of a saved message (any may be shown failed); the list is remembered.
Retry(i) ==
    /\ ~ChatSending /\ local = <<>> /\ known[i] \in Users
    /\ retry' = [place |-> i, list |-> known]
    /\ UNCHANGED <<server, pending, request, answer, recovery, connection, view, history>>

\* retry_agent_message: the chat's last message, by its place, is answered again.
RetryAccepted ==
    /\ retry.place # 0 /\ retry.place = Len(chat) /\ chat[retry.place] \in Users
    /\ request' = [request EXCEPT ![retry.list[retry.place]] = "saved"]
    /\ retry' = NoRetry
    /\ UNCHANGED <<server, pending, answer, recovery, connection, view, history>>

\* 409: there is nothing to retry.  The tab takes the message for one that was
\* never saved, restores the list of the click without it, and sends it.
RetryRefused ==
    /\ retry.place # 0
    /\ known' = RemoveAt(retry.list, retry.place)
    /\ local' = <<retry.list[retry.place]>>
    /\ request' = [request EXCEPT ![retry.list[retry.place]] = "sent"]
    /\ retry' = NoRetry
    /\ excuse' = excuse \union {"replaced"}
    /\ UNCHANGED <<server, pending, answer, recovery, connection, lastSeq, fresh>>

\* Over the limit, or another refusal (dropBubble): the list of the click.
RetryTurnedAway ==
    /\ retry.place # 0
    /\ known' = retry.list /\ local' = <<>>
    /\ retry' = NoRetry
    /\ excuse' = IF known # retry.list \/ local # <<>> THEN excuse \union {"replaced"} ELSE excuse
    /\ UNCHANGED <<server, pending, request, answer, recovery, connection, lastSeq, fresh>>

\* No answer, or the server failed: only the message's mark changes.
RetryFails ==
    /\ retry.place # 0
    /\ retry' = NoRetry
    /\ UNCHANGED <<server, pending, request, answer, recovery, connection, view, history>>

\* The answer is written: at once in a burst Omi is at work on, else after the reply.
Respond(m) ==
    /\ request[m] = "saved" /\ answer[m] = NoAnswer
    /\ answer' = [answer EXCEPT ![m] = [list |-> chat, shifts |-> shifts]]
    /\ UNCHANGED <<server, pending, request, retry, recovery, connection, view, history>>

Merge(m) ==
    /\ request[m] = "saved" /\ answer[m] # NoAnswer
    /\ known' = Longer(answer[m].list)
    /\ local' = OnTheirWay(ToSet(answer[m].list) \union ToSet(known))
    /\ request' = [request EXCEPT ![m] = "over"]
    /\ answer' = [answer EXCEPT ![m] = NoAnswer]
    /\ IF Len(answer[m].list) >= Len(known) THEN Applied(answer[m].shifts) ELSE UNCHANGED history
    /\ UNCHANGED <<server, pending, retry, recovery, connection, lastSeq>>

\* The server failed, before or after it saved the message (markBurstFailed): the
\* bubble counts as saved, at the end of what the tab knows, wherever it may be.
ReplyFails(m) ==
    /\ request[m] \in {"sent", "saved"} /\ answer[m] = NoAnswer
    /\ request' = [request EXCEPT ![m] = "over"]
    /\ IF m \in ToSet(local) THEN known' = Append(known, m) ELSE UNCHANGED known
    /\ local' = OnTheirWay({m})
    /\ excuse' = IF m \in ToSet(local) /\ ~IsPrefix(known', chat)
                 THEN excuse \union {"guessed"} ELSE excuse
    /\ UNCHANGED <<server, pending, answer, retry, recovery, connection, lastSeq, fresh>>

\* No answer at all (markLocalFailed): the bubble stays, with a Retry.
NoReply(m) ==
    /\ request[m] \in {"sent", "saved"}
    /\ request' = [request EXCEPT ![m] = "over"]
    /\ answer' = [answer EXCEPT ![m] = NoAnswer]
    /\ UNCHANGED <<server, pending, retry, recovery, connection, view, history>>

\* Turned away before it is saved (over the limit): dropLocal.
Reject(m) ==
    /\ request[m] = "sent"
    /\ request' = [request EXCEPT ![m] = "rejected"]
    /\ local' = OnTheirWay({m})
    /\ UNCHANGED <<server, pending, answer, retry, recovery, connection, known, lastSeq, history>>

-----------------------------------------------------------------------------
(* New settings (updateSettings), one change at a time: the answer is the  *)
(* chat as the PATCH found it, and the tab shows it as it is.              *)

ChangeSettings ==
    /\ answer[Settings] = NoAnswer
    /\ answer' = [answer EXCEPT ![Settings] = [list |-> chat, shifts |-> shifts]]
    /\ UNCHANGED <<server, pending, request, retry, recovery, connection, view, history>>

ShowSettings ==
    /\ answer[Settings] # NoAnswer
    /\ LET shown == answer[Settings] IN
       /\ known' = shown.list /\ local' = <<>>
       /\ fresh' = Max({fresh, shown.shifts})
       /\ excuse' = excuse
              \union {x \in {"crossed"} : shown.shifts < fresh}
              \union {x \in {"replaced"} : Len(shown.list) < Len(known)
                                           \/ OnTheirWay(ToSet(shown.list)) # <<>>}
    /\ answer' = [answer EXCEPT ![Settings] = NoAnswer]
    /\ UNCHANGED <<server, pending, request, retry, recovery, connection, lastSeq>>

SettingsLost ==
    /\ answer[Settings] # NoAnswer
    /\ answer' = [answer EXCEPT ![Settings] = NoAnswer]
    /\ UNCHANGED <<server, pending, request, retry, recovery, connection, view, history>>

-----------------------------------------------------------------------------
ChatNext ==
    \/ \E m \in Elsewhere \union Nudges : Arrive(m)
    \/ Draft \/ \E r \in Replies : Commit(r)
    \/ \E m \in Messages : Push(m) \/ Lose(m)
    \/ ServeRecovery \/ Recover \/ RecoveryFails
    \/ Connect \/ Join \/ Close
    \/ \E m \in Mine : Send(m)
    \/ \E m \in Users : \/ Save(m) \/ Respond(m) \/ Merge(m)
                        \/ ReplyFails(m) \/ NoReply(m) \/ Reject(m)
    \/ Resend \/ \E i \in DOMAIN known : Retry(i)
    \/ RetryAccepted \/ RetryRefused \/ RetryTurnedAway \/ RetryFails
    \/ ChangeSettings \/ ShowSettings \/ SettingsLost

\* A request that was sent is answered, or fails, and the tab handles it.
ChatFairness == WF_chatVars(ServeRecovery) /\ WF_chatVars(Recover)

ChatSpec == ChatInit /\ [][ChatNext]_chatVars

ChatFairSpec == ChatSpec /\ ChatFairness

-----------------------------------------------------------------------------
\* Nothing is on its way to the tab.
Settled ==
    /\ \A m \in Messages : pending[m] = <<>>
    /\ recovery = Idle /\ \A q \in Requests : answer[q] = NoAnswer

\* Once nothing is on its way, what the tab shows as saved is the chat up to
\* some message: no hole, nothing twice, nothing out of place, whatever events
\* were lost and however answers, recoveries and events were interleaved:
\* messageQueue.ts:5, "a bubble never vanishes and never shows twice".  The
\* exceptions are what the code does not repair: a recovery that fails
\* (gaveUp) or that was read before an event the tab dropped (overrun), a lost
\* event of a reply saved above a later message (missed), something older
\* applied over such a reply (crossed), a failed reply (guessed), and an older
\* list put in place of the one on screen, which a Retry that is refused or
\* turned away and new settings do (replaced).
ShowsAPrefix == Settled /\ excuse = {} => IsPrefix(known, chat) /\ lastSeq <= Len(known)

\* A bubble the user wrote does not vanish, except as above: unless it was
\* turned away, it is on screen, or what carries it is on its way to the tab, or
\* the tab has asked for a tail that has it (an event of a newer list may overwrite
\* a place while the ones after it are lost, so nothing less would be true).
OwnBubbleKept ==
    excuse = {} =>
        \A m \in Mine : request[m] \notin {"none", "rejected"} =>
            \/ m \in ToSet(known) \union ToSet(local) \union ToSet(recovery.tail)
            \/ recovery.step = "asked" /\ m \in ToSet(SubSeq(chat, recovery.after + 1, Len(chat)))
            \/ \E p \in Messages : \E e \in ToSet(pending[p]) : e.message = m
            \/ \E q \in Requests : m \in ToSet(answer[q].list)

\* A gap the tab has noticed is filled.
GapIsFilled == Len(known) < lastSeq ~> (Len(known) >= lastSeq \/ excuse # {})
=============================================================================
