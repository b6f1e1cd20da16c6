----------------------------- MODULE ReplyBurst -----------------------------
(***************************************************************************)
(* One chat while Omi answers it: the stored message list, the burst row   *)
(* that says who replies, the requests that save, count and answer         *)
(* messages, and the other writers of the list.                            *)
(*                                                                         *)
(*   src/src/storage/channel_bursts.py    the burst row                    *)
(*   src/src/api/reply_bursts.py          the replier                      *)
(*   src/src/api/chat_service.py          saving, drafting, committing     *)
(*   src/src/agent/matching/hosting.py    Omi's own messages               *)
(*   src/src/storage/message_deletion.py  deleting a message               *)
(*                                                                         *)
(* A transaction is one step; everything between two transactions is open  *)
(* to the others.  Time is abstract: a wait ends at any re-read of the     *)
(* row, and a lease expires once nothing renews it.  The modelled chat is  *)
(* a web chat; a messaging app's chat saves without the client_id check    *)
(* and leaves failed messages as they are.                                 *)
(***************************************************************************)
EXTENDS Integers, Sequences, FiniteSets

CONSTANTS
    Requests,    \* requests that post or retry, each on any server instance
    ClientIds,   \* what the browser numbers its messages with
    Sent,        \* Sent[r]: the client_id of the message r posts, or Retry
    Retry,
    Hosts,       \* match-hosting jobs that speak in this chat
    HostTries,   \* how often one tries to deliver (3)
    Erasers,     \* requests that delete one message
    MaxRestarts, \* MAX_RESTARTS
    Mishaps,     \* what may go wrong: "fail", "cancel", "crash", "renewal"
    MaxMishaps   \* bound: how many of them

ASSUME ChatAssumption ==
    /\ Retry \notin ClientIds /\ Hosts \intersect Requests = {}
    /\ Sent \in [Requests -> ClientIds \union {Retry}]
    /\ HostTries \in Nat \ {0} /\ MaxRestarts \in Nat /\ MaxMishaps \in Nat
    /\ Mishaps \subseteq {"fail", "cancel", "crash", "renewal"}

VARIABLES
    chat,      \* messages_json, in order
    burst,     \* the burst row, {} when there is none
    req,       \* req[r]: where request r is, and what it holds
    host,      \* host[h]: the same for a hosting job
    erase,     \* erase[e]: the same for a deletion
    mishaps,
    \* history, read by the properties only
    counted,   \* messages counted into a burst
    replies,   \* replies[m]: committed replies whose draft had read m as unanswered
    unserved,  \* messages a failed, cancelled or crashed request, Omi's own
               \* message or a deletion left behind
    twice      \* a lost lease or a deletion allows a second reply

history == <<counted, replies, unserved, twice>>
others == <<host, erase>>
vars == <<chat, burst, req, others, mishaps, history>>

-----------------------------------------------------------------------------
\* A message as stored, known by the request that saved it (its created_at).
\* "closed": answered by a reaction or a chosen silence; "said": Omi's.  The msg
\* of Omi's entries and of deleted ones is only history.
Status == {"sending", "failed", "read", "closed", "deleted", "said"}
Entry == [from: {"user", "reply", "own"}, msg: Requests \union Hosts, status: Status]

Active == {"waiting", "quiet", "written", "ready", "shown"}
Gone == {"new", "done", "dead"}

\* What a draft read: its last message, and every unanswered one.
Draft == [last: Requests, reads: SUBSET Requests]

Burst == [token: Requests, arrivals: Nat \ {0}, live: BOOLEAN]

Request == [pc: Gone \union Active \union {"saved", "joining", "leaving"}, seen: Nat,
            restarts: 0..MaxRestarts, draft: SUBSET Draft, keeps: BOOLEAN]

Host == [step: {"read", "deliver", "done"}, expected: Nat, tries: 0..HostTries]
Eraser == [step: {"read", "save", "done"}, at: Nat, list: Seq(Entry)]

NewRequest == [pc |-> "new", seen |-> 0, restarts |-> 0, draft |-> {}, keeps |-> FALSE]

TypeOK ==
    /\ chat \in Seq(Entry)
    /\ burst \in SUBSET Burst /\ Cardinality(burst) <= 1
    /\ req \in [Requests -> Request]
    /\ \A r \in Requests : Cardinality(req[r].draft) <= 1
    /\ host \in [Hosts -> Host]
    /\ erase \in [Erasers -> Eraser]
    /\ mishaps \in 0..MaxMishaps
    /\ counted \subseteq Requests /\ unserved \subseteq Requests
    /\ replies \in [Requests -> 0..2]
    /\ twice \in BOOLEAN

Init ==
    /\ chat = <<>> /\ burst = {}
    /\ req = [r \in Requests |-> NewRequest]
    /\ host = [h \in Hosts |-> [step |-> "read", expected |-> 0, tries |-> 0]]
    /\ erase = [e \in Erasers |-> [step |-> "read", at |-> 0, list |-> <<>>]]
    /\ mishaps = 0
    /\ counted = {} /\ replies = [m \in Requests |-> 0] /\ unserved = {} /\ twice = FALSE

-----------------------------------------------------------------------------
(* Reading and editing the message list.                                   *)

Stands(list, i) == list[i].status # "deleted"

IsAnswer(list, i) == Stands(list, i) /\ (list[i].from # "user" \/ list[i].status = "closed")

Unanswered(list) ==
    {i \in DOMAIN list : /\ list[i].from = "user" /\ Stands(list, i)
                         /\ \A j \in i..Len(list) : ~IsAnswer(list, j)}

Waiting(list) == {list[i].msg : i \in Unanswered(list)}

\* The list with the entries at the indexes I given a status.
Marked(list, I, status) ==
    [i \in DOMAIN list |-> IF i \in I THEN [list[i] EXCEPT !.status = status] ELSE list[i]]

Inserted(list, i, e) == SubSeq(list, 1, i - 1) \o <<e>> \o SubSeq(list, i, Len(list))

Places(list, m) == {i \in DOMAIN list : list[i].from = "user" /\ list[i].msg = m /\ Stands(list, i)}

\* Mutant of ReplyPlace: the reply goes at the end of the chat.
ReplyLast(list, i) == Len(list) + 1

\* Where Omi's reply to the message at i goes: right after it, below anything
\* of Omi's that landed meanwhile.
ReplyPlace(list, i) ==
    CHOOSE j \in i + 1..Len(list) + 1 :
        /\ \A k \in i + 1..j - 1 : list[k].from # "user"
        /\ j \in DOMAIN list => list[j].from = "user"

\* The message r sends, if it is in the list already.
Stored(r) == {i \in DOMAIN chat : /\ chat[i].from = "user" /\ Stands(chat, i)
                                  /\ Sent[chat[i].msg] = Sent[r]}

-----------------------------------------------------------------------------
(* Saving: save_web_message and mark_retry_sending.                        *)

\* A message still "sending" after two minutes counts as failed: any prefix may be.
Stale(list, n) == {i \in DOMAIN list : /\ list[i].from = "user"
                                       /\ \/ list[i].status = "failed"
                                          \/ list[i].status = "sending" /\ i <= n}

Post(r) ==
    /\ req[r].pc = "new" /\ Sent[r] # Retry
    /\ IF Stored(r) # {}
       THEN UNCHANGED chat
       ELSE \E n \in 0..Len(chat) :
              chat' = Append(Marked(chat, Stale(chat, n), "read"),
                             [from |-> "user", msg |-> r, status |-> "sending"])
    /\ req' = [req EXCEPT ![r].pc = "saved"]
    /\ UNCHANGED <<burst, others, mishaps, history>>

PostRetry(r) ==
    /\ req[r].pc = "new" /\ Sent[r] = Retry /\ chat # <<>>
    /\ \E n \in 0..Len(chat) :
          chat' = Marked(chat, Unanswered(chat) \intersect Stale(chat, n), "sending")
    /\ req' = [req EXCEPT ![r].pc = "saved"]
    /\ UNCHANGED <<burst, others, mishaps, history>>

-----------------------------------------------------------------------------
(* join_burst.  The row is locked while it is read and written; a missing  *)
(* row cannot be, so two first messages race to insert it.                 *)

Owns(r) == \E b \in burst : b.token = r

Count(r) == counted' = counted \union {chat[i].msg : i \in Stored(r)}

BecomeReplier(r) == req' = [req EXCEPT ![r].pc = "waiting", ![r].keeps = TRUE]

JoinFindsNone(r) ==
    /\ req[r].pc = "saved" /\ burst = {}
    /\ req' = [req EXCEPT ![r].pc = "joining"]
    /\ UNCHANGED <<chat, burst, others, mishaps, history>>

JoinInserts(r) ==
    /\ req[r].pc = "joining" /\ burst = {}
    /\ burst' = {[token |-> r, arrivals |-> 1, live |-> TRUE]}
    /\ BecomeReplier(r)
    /\ Count(r)
    /\ UNCHANGED <<chat, others, mishaps, replies, unserved, twice>>

\* The insert finds the key taken and raises: the message stays saved, uncounted.
JoinConflicts(r) ==
    /\ req[r].pc = "joining" /\ burst # {}
    /\ req' = [req EXCEPT ![r].pc = "done"]
    /\ UNCHANGED <<chat, burst, others, mishaps, history>>

\* Mutant of JoinCounts: every message that joins takes the lease.
JoinTakes(r) ==
    \E b \in burst :
        /\ req[r].pc = "saved"
        /\ burst' = {[token |-> r, arrivals |-> b.arrivals + 1, live |-> TRUE]}
        /\ BecomeReplier(r)
        /\ Count(r)
        /\ UNCHANGED <<chat, others, mishaps, replies, unserved, twice>>

\* Mutant of JoinCounts: a message that joins a live burst is not counted.
JoinUncounted(r) ==
    \E b \in burst :
        /\ req[r].pc = "saved"
        /\ IF b.live
           THEN /\ UNCHANGED burst
                /\ req' = [req EXCEPT ![r].pc = "done"]
           ELSE /\ burst' = {[token |-> r, arrivals |-> b.arrivals, live |-> TRUE]}
                /\ BecomeReplier(r)
        /\ Count(r)
        /\ UNCHANGED <<chat, others, mishaps, replies, unserved, twice>>

JoinCounts(r) ==
    \E b \in burst :
        /\ req[r].pc = "saved"
        /\ IF b.live
           THEN /\ burst' = {[b EXCEPT !.arrivals = @ + 1]}
                /\ req' = [req EXCEPT ![r].pc = "done"]
           ELSE /\ burst' = {[token |-> r, arrivals |-> b.arrivals + 1, live |-> TRUE]}
                /\ BecomeReplier(r)
        /\ Count(r)
        /\ UNCHANGED <<chat, others, mishaps, replies, unserved, twice>>

-----------------------------------------------------------------------------
(* _reply_until_answered.                                                  *)

\* The lease was taken over: the request returns, and its release matches no row.
Leave(r) ==
    /\ ~Owns(r)
    /\ req' = [req EXCEPT ![r].pc = "done", ![r].keeps = FALSE, ![r].draft = {}]
    /\ UNCHANGED <<chat, burst, others, mishaps, history>>

WaitForQuiet(r) ==
    /\ req[r].pc = "waiting"
    /\ \/ Leave(r)
       \/ \E b \in burst :
            /\ b.token = r
            /\ req' = [req EXCEPT ![r].pc = "quiet", ![r].seen = b.arrivals]
            /\ UNCHANGED <<chat, burst, others, mishaps, history>>

\* draft_reply_to_unanswered; the model works until the next step.
DraftReply(r) ==
    LET I == Unanswered(chat)
        last == CHOOSE i \in I : \A j \in I : j <= i
    IN
    /\ req[r].pc = "quiet"
    /\ req' = [req EXCEPT ![r].pc = "written",
                   ![r].draft = IF I = {} THEN {}
                                ELSE {[last |-> chat[last].msg, reads |-> Waiting(chat)]}]
    /\ UNCHANGED <<chat, burst, others, mishaps, history>>

\* Mutant of MayRestart: the draft is thrown away as often as messages arrive.
RestartsAlways(r) == TRUE

MayRestart(r) == req[r].restarts < MaxRestarts

\* _hold_for_typing, or only the check of the lease: a draft is thrown away when
\* more messages came in while it was written.
HoldDraft(r) ==
    /\ req[r].pc = "written"
    /\ \/ Leave(r)
       \/ \E b \in burst :
            /\ b.token = r
            /\ req' = IF b.arrivals > req[r].seen /\ MayRestart(r)
                      THEN [req EXCEPT ![r].pc = "waiting", ![r].draft = {}, ![r].restarts = @ + 1]
                      ELSE [req EXCEPT ![r].pc = "ready"]
            /\ UNCHANGED <<chat, burst, others, mishaps, history>>

\* commit_reply, under the row lock: bubbles, or a reaction or silence that
\* closes the message.  Nothing when the answered message is gone.
CommitDraft(d) ==
    \E i \in Places(chat, d.last) :
        LET read == Marked(chat, Unanswered(SubSeq(chat, 1, i)), "read") IN
        /\ \/ chat' = Inserted(read, ReplyPlace(read, i),
                               [from |-> "reply", msg |-> d.last, status |-> "said"])
           \/ chat' = Marked(read, {i}, "closed")
        /\ replies' = [m \in Requests |-> IF m \in d.reads /\ replies[m] < 2
                                          THEN replies[m] + 1 ELSE replies[m]]
        /\ unserved' = unserved \ d.reads

CommitReply(r) ==
    /\ req[r].pc = "ready"
    /\ \/ \E d \in req[r].draft : CommitDraft(d)
       \/ /\ \A d \in req[r].draft : Places(chat, d.last) = {}
          /\ unserved' = unserved \union UNION {d.reads : d \in req[r].draft}
          /\ UNCHANGED <<chat, replies>>
    /\ req' = [req EXCEPT ![r].pc = "shown", ![r].draft = {}, ![r].restarts = 0]
    /\ UNCHANGED <<burst, others, mishaps, counted, twice>>

\* Mutant of Answered: the burst closes whatever arrived meanwhile.
AnsweredAny(b, r) == b.token = r

Answered(b, r) == b.token = r /\ b.arrivals = req[r].seen

\* deliver, then finish_burst.
FinishBurst(r) ==
    /\ req[r].pc = "shown"
    /\ IF \E b \in burst : Answered(b, r)
       THEN /\ burst' = {}
            /\ req' = [req EXCEPT ![r].pc = "done", ![r].keeps = FALSE]
       ELSE /\ req' = [req EXCEPT ![r].pc = "waiting"]
            /\ UNCHANGED burst
    /\ UNCHANGED <<chat, others, mishaps, history>>

-----------------------------------------------------------------------------
(* answer_burst when the reply does not come.                              *)

Mishap(kind) == kind \in Mishaps /\ mishaps < MaxMishaps /\ mishaps' = mishaps + 1

\* An exception: the unanswered messages are marked for Retry.
Fail(r) ==
    /\ Mishap("fail")
    /\ req[r].pc \in Active
    /\ chat' = Marked(chat, Unanswered(chat), "failed")
    /\ req' = [req EXCEPT ![r].pc = "leaving", ![r].draft = {}]
    /\ UNCHANGED <<burst, others, history>>

\* Cancelled at shutdown: "except Exception" does not see it, "finally" runs.
Cancel(r) ==
    /\ Mishap("cancel")
    /\ req[r].pc \in Active
    /\ req' = [req EXCEPT ![r].pc = "leaving", ![r].draft = {}]
    /\ UNCHANGED <<chat, burst, others, history>>

\* The lease task has ended when "finally" awaits it.  If it had ended itself,
\* by an error of renew_burst, that error is raised here, past release_burst.
Release(r) ==
    /\ req[r].pc = "leaving"
    /\ IF Owns(r) /\ req[r].keeps
       THEN /\ burst' = {}
            /\ unserved' = unserved \union
                   {chat[i].msg : i \in {i \in Unanswered(chat) : chat[i].status # "failed"}}
       ELSE UNCHANGED <<burst, unserved>>
    /\ req' = [req EXCEPT ![r].pc = "done", ![r].keeps = FALSE]
    /\ UNCHANGED <<chat, others, mishaps, counted, replies, twice>>

Crash(r) ==
    /\ Mishap("crash")
    /\ req[r].pc \notin Gone
    /\ req' = [req EXCEPT ![r] = [NewRequest EXCEPT !.pc = "dead"]]
    /\ unserved' = IF req[r].pc \in {"saved", "joining"} THEN unserved \union Waiting(chat)
                                                         ELSE unserved
    /\ UNCHANGED <<chat, burst, others, counted, replies, twice>>

\* renew_burst raises in the lease task: nothing renews r's lease any more.
RenewalFails(r) ==
    /\ Mishap("renewal")
    /\ req[r].keeps
    /\ req' = [req EXCEPT ![r].keeps = FALSE]
    /\ twice' = TRUE
    /\ UNCHANGED <<chat, burst, others, counted, replies, unserved>>

\* Mutant of Renewed: the lease task outlives its request.
RenewedForever(b) == TRUE

Renewed(b) == req[b.token].keeps

LeaseExpires ==
    \E b \in burst :
        /\ b.live /\ ~Renewed(b)
        /\ burst' = {[b EXCEPT !.live = FALSE]}
        /\ UNCHANGED <<chat, req, others, mishaps, history>>

-----------------------------------------------------------------------------
(* Other writers of the list: match hosting, and deletion.                 *)

HostReads(h) ==
    /\ host[h].step = "read" /\ chat # <<>>
    /\ host' = [host EXCEPT ![h].step = "deliver", ![h].expected = Len(chat)]
    /\ UNCHANGED <<chat, burst, req, erase, mishaps, history>>

\* deliver_messages: only if the list is as long as when it was read; _host
\* then reads it again and tries once more.
HostDelivers(h) ==
    /\ host[h].step = "deliver"
    /\ IF Len(chat) = host[h].expected
       THEN /\ chat' = Append(chat, [from |-> "own", msg |-> h, status |-> "said"])
            /\ host' = [host EXCEPT ![h].step = "done"]
            /\ unserved' = unserved \union Waiting(chat)
       ELSE /\ host' = [host EXCEPT ![h].tries = @ + 1,
                            ![h].step = IF host[h].tries + 1 < HostTries THEN "read" ELSE "done"]
            /\ UNCHANGED <<chat, unserved>>
    /\ UNCHANGED <<burst, req, erase, mishaps, counted, replies, twice>>

\* delete_conversation_messages reads the chat, blanks the chosen message and
\* saves the list it read.
EraseReads(e) ==
    /\ erase[e].step = "read"
    /\ \E i \in DOMAIN chat :
        /\ Stands(chat, i)
        /\ erase' = [erase EXCEPT ![e] = [step |-> "save", at |-> i, list |-> chat]]
    /\ UNCHANGED <<chat, burst, req, host, mishaps, history>>

EraseSaves(e) ==
    LET list == Marked(erase[e].list, {erase[e].at}, "deleted") IN
    /\ erase[e].step = "save"
    /\ chat' = list
    /\ erase' = [erase EXCEPT ![e] = [@ EXCEPT !.step = "done", !.list = <<>>]]
    /\ unserved' = IF erase[e].list = chat THEN unserved ELSE unserved \union Waiting(list)
    /\ twice' = TRUE
    /\ UNCHANGED <<burst, req, host, mishaps, counted, replies>>

-----------------------------------------------------------------------------
Answer(r) == \/ WaitForQuiet(r) \/ DraftReply(r) \/ HoldDraft(r)
             \/ CommitReply(r) \/ FinishBurst(r) \/ Release(r)

Join(r) == JoinFindsNone(r) \/ JoinInserts(r) \/ JoinConflicts(r) \/ JoinCounts(r)

Next ==
    \/ \E r \in Requests : \/ Post(r) \/ PostRetry(r) \/ Join(r) \/ Answer(r)
                           \/ Fail(r) \/ Cancel(r) \/ Crash(r) \/ RenewalFails(r)
    \/ LeaseExpires
    \/ \E h \in Hosts : HostReads(h) \/ HostDelivers(h)
    \/ \E e \in Erasers : EraseReads(e) \/ EraseSaves(e)

\* A request that was accepted runs on unless it fails or dies, and the clock
\* runs out a lease nobody renews.  Nobody has to write, host or delete.
Fairness ==
    /\ \A r \in Requests : WF_vars(Join(r)) /\ WF_vars(Answer(r))
    /\ WF_vars(LeaseExpires)

Spec == Init /\ [][Next]_vars

FairSpec == Spec /\ Fairness

-----------------------------------------------------------------------------
\* Nobody has saved a message that is not counted yet.
AllCounted == \A r \in Requests : req[r].pc \notin {"saved", "joining"}

\* Messages in the chat that were counted, that no reply has read, and that are
\* not offered for Retry.
LeftBehind == {m \in counted : /\ replies[m] = 0
                               /\ \E i \in Places(chat, m) : chat[i].status # "failed"}

\* docs/progress.md:164, "the burst closes only when every counted message is
\* answered", and reply_bursts.py:90, "On failure the unanswered messages are
\* marked for Retry": with no burst open, no counted message still waits, but for
\* those a failing request, Omi's own message or a deletion is known to leave
\* behind ("unserved").  finish_burst's count, the takeover of an expired lease
\* and the place of a reply leave none.
ClosedMeansServed ==
    burst = {} /\ AllCounted => LeftBehind \subseteq unserved

\* One reply answers a message: while a replier keeps its lease, and also when it
\* crashes and another takes over, no two committed replies have read the same
\* message as unanswered.
AnsweredOnce == ~twice => \A m \in Requests : replies[m] < 2

\* commit_reply's docstring: a message never sits above a reply that did not
\* read it, where it would never be answered.
NoReplyHidesAMessage ==
    \A i, j \in DOMAIN chat :
        i < j /\ chat[i].from = "user" /\ Stands(chat, i) /\ chat[j].from = "reply"
            => replies[chat[i].msg] > 0 \/ chat[i].msg \in unserved

\* A chat is never held for good: a burst closes, or its lease expires and the
\* next message takes it over, whatever became of the replier.
ChatIsFreedAgain == \A r \in Requests : Owns(r) ~> ~Owns(r) \/ \E b \in burst : ~b.live

\* A counted message is answered, marked for Retry or left behind in a way the
\* code knows of, as long as its replier does not die without a successor.
MessageIsServed ==
    \A m \in Requests :
        m \in counted ~> m \notin LeftBehind \ unserved \/ \E b \in burst : ~b.live
=============================================================================
