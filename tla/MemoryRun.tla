----------------------------- MODULE MemoryRun -----------------------------
(***************************************************************************)
(* The background memory run: what Omi learns from one user's chats.       *)
(*                                                                         *)
(*   agent/cognition/background/memory_run/service.py   one run            *)
(*   agent/cognition/background/idle.py                 the flush job      *)
(*   agent/memory_engine/processing/context.py          choosing a batch   *)
(*   storage/memory_processing.py                       lease and cursor   *)
(*   storage/memories.py                                applying a batch   *)
(*   storage/message_deletion.py                        deleting a message *)
(*                                                                         *)
(* A run reads a list of messages, picks the batch after the chat's        *)
(* cursor, takes the user's lease, asks the model, and writes memories,    *)
(* the user card and the cursor, each in a transaction of its own, which   *)
(* is one step here.  Every user message is taken to be meaningful and to  *)
(* teach something.  Threads, notes, questions and vibe lines are written  *)
(* between the card and the cursor, once per batch, and left out.          *)
(*                                                                         *)
(* The batch's own lease is left out as well: it is claimed after the      *)
(* user's, deleted with it, and expires before it (t + 30 s against        *)
(* 2t + 60 s), so it refuses no run that holds the user's.  The check of   *)
(* the cursor in the same transaction stays.                               *)
(***************************************************************************)
EXTENDS Integers, Sequences, FiniteSets

CONSTANTS
    Chats,       \* the user's chats
    Says,        \* Says[c]: bound, how many messages the user writes in c
    Replies,     \* Replies[c]: bound, how many replies Omi writes in c
    Omi,         \* who wrote a message, when not the user
    Jobs,        \* worker slots that run memory_flush jobs
    Tasks,       \* background tasks of requests that committed a reply
    Of,          \* Of[r]: the chat a job or task is about
    Nobody,      \* owner of a lease whose process died
    Threshold,   \* background_cognition_threshold()
    MaxFailures, \* MAX_BATCH_CONTENT_FAILURES
    MaxTries,    \* the job queue's MAX_ATTEMPTS
    Erasers,     \* requests that delete one message
    Mishaps,     \* what may go wrong: "outage", "content", "write", "crash", "overrun"
    MaxMishaps   \* bound: how many of them

Runs == Jobs \union Tasks

ASSUME MemoryAssumption ==
    /\ Of \in [Runs -> Chats] /\ Jobs \intersect Tasks = {} /\ Nobody \notin Runs
    /\ \A j, k \in Jobs : Of[j] = Of[k] => j = k
    /\ Says \in [Chats -> Nat] /\ Replies \in [Chats -> Nat]
    /\ Threshold \in Nat \ {0} /\ MaxFailures \in Nat \ {0} /\ MaxTries \in Nat \ {0}
    /\ Mishaps \subseteq {"outage", "content", "write", "crash", "overrun"}
    /\ MaxMishaps \in Nat

VARIABLES
    chat,      \* chat[c]: the stored list of messages
    draft,     \* draft[c]: the last message that the reply being written answers
    cursor,    \* cursor[c]: the row of memory_processing_states
    flush,     \* flush[c]: the chat's memory_flush job
    lease,     \* the user's lease, {} when there is none or it expired
    failures,  \* failures[k]: content failures of batch k, where there were any
    applied,   \* batches with rows in memory_operation_applications
    evidence,  \* the proof of memories: where the message is, and which it was
    card,      \* the user card, as the messages its lines are about
    run,       \* run[r]: where a run is, and what it holds
    erase,     \* erase[e]: the deletion e makes
    mishaps,
    \* history, read by the properties only
    lessons,   \* lessons[m]: batches applied that held message m, up to 2
    passed,    \* messages of a batch skipped after failures
    dropped,   \* chats whose flush job gave up
    again,     \* messages a reply, a deletion or a cut-short run may let be learnt twice
    slid,      \* messages a reply pushed down, in the list of a run yet to pick its batch
    overlap,   \* a run at work has lost the user's lease
    caught     \* messages a run had read when a deletion forgot them

store == <<cursor, failures, applied, evidence>>
history == <<lessons, passed, dropped, again, slid, overlap, caught>>
vars == <<chat, draft, flush, lease, store, card, run, erase, mishaps, history>>

-----------------------------------------------------------------------------
\* The user's messages, numbered in each chat.
Messages == UNION {{c} \X (1..Says[c]) : c \in Chats}

\* A stored message.  A deleted one keeps its place, without its text.
Entry == [msg: Messages \union {Omi}, gone: BOOLEAN]

\* A batch, known by its batch_key: the new messages with their positions.
Batch == [chat: Chats, from: Nat \ {0}, rows: Seq(Entry)]

\* through: how many messages are processed; version 0: no row.
Cursor == [through: Nat, version: Nat, last: SUBSET Batch]

NoCursor == [through |-> 0, version |-> 0, last |-> {}]

Flush == [status: {"none", "pending", "running"}, moved: BOOLEAN, tries: 0..MaxTries + 1]

NoFlush == [status |-> "none", moved |-> FALSE, tries |-> 0]

Steps == {"idle", "called", "picked", "held", "claimed", "asking", "applied", "written",
          "failing", "skipping", "releasing", "reporting"}

\* The user's lease.
Lease == [owner: Runs \union {Nobody}, chat: Chats]

\* Of a run: the list it was given, the cursor a flush job started from, what
\* it read of the cursor and the card, and how it ended.
Run == [pc: Steps, list: Seq(Entry), before: Nat, seen: Cursor, batch: SUBSET Batch,
        card: SUBSET Messages, result: {"done", "busy", "raised"}]

IdleRun == [pc |-> "idle", list |-> <<>>, before |-> 0, seen |-> NoCursor, batch |-> {},
            card |-> {}, result |-> "done"]

\* Where a piece of proof is, and the message it was taken from.
Evidence == [chat: Chats, at: Nat \ {0}, msg: Messages]

Erasing == [step: {"new", "blanked", "forgotten", "done"}, chat: SUBSET Chats, at: Nat]

TypeOK ==
    /\ chat \in [Chats -> Seq(Entry)]
    /\ cursor \in [Chats -> Cursor]
    /\ \A c \in Chats : cursor[c].through <= Len(chat[c])
    /\ draft \in [Chats -> SUBSET Messages]
    /\ flush \in [Chats -> Flush]
    /\ lease \subseteq Lease /\ \A l, m \in lease : l = m
    /\ DOMAIN failures \subseteq Batch /\ \A k \in DOMAIN failures : failures[k] \in Nat \ {0}
    /\ applied \subseteq Batch
    /\ evidence \subseteq Evidence
    /\ \A v \in evidence : v.at <= Len(chat[v.chat])
    /\ card \subseteq Messages
    /\ run \in [Runs -> Run]
    /\ erase \in [Erasers -> Erasing]
    /\ mishaps \in 0..MaxMishaps
    /\ lessons \in [Messages -> 0..2]
    /\ passed \subseteq Messages /\ again \subseteq Messages /\ slid \subseteq Messages
    /\ caught \subseteq Messages
    /\ dropped \subseteq Chats
    /\ overlap \in BOOLEAN

Init ==
    /\ chat = [c \in Chats |-> <<>>]
    /\ draft = [c \in Chats |-> {}]
    /\ cursor = [c \in Chats |-> NoCursor]
    /\ flush = [c \in Chats |-> NoFlush]
    /\ lease = {} /\ failures = <<>> /\ applied = {} /\ evidence = {} /\ card = {}
    /\ run = [r \in Runs |-> IdleRun]
    /\ erase = [e \in Erasers |-> [step |-> "new", chat |-> {}, at |-> 0]]
    /\ mishaps = 0
    /\ lessons = [m \in Messages |-> 0]
    /\ passed = {} /\ dropped = {} /\ again = {} /\ slid = {} /\ overlap = FALSE
    /\ caught = {}

-----------------------------------------------------------------------------
(* build_memory_batch.                                                     *)

\* Mutant of Meaningful: a blank is read as a message.
MeaningfulBlank(list, i) == list[i].msg # Omi

\* A meaningful user message; a deleted one has no content.
Meaningful(list, i) == list[i].msg # Omi /\ ~list[i].gone

Pending(list, through) == {i \in through + 1..Len(list) : Meaningful(list, i)}

\* A batch ends before the meaningful message that is one too many.
BatchEnd(list, through) ==
    LET over == {i \in Pending(list, through) :
                    Cardinality({j \in Pending(list, through) : j < i}) = Threshold}
    IN  IF over = {} THEN Len(list) ELSE (CHOOSE i \in over : TRUE) - 1

NextBatch(c, list, through) ==
    [chat |-> c, from |-> through + 1, rows |-> SubSeq(list, through + 1, BatchEnd(list, through))]

\* Mutant of LastIndex: an index and a count confused.
OnePast(k) == k.from + Len(k.rows)

LastIndex(k) == k.from + Len(k.rows) - 1

Heard(k) == {k.rows[i].msg : i \in {j \in DOMAIN k.rows : Meaningful(k.rows, j)}}

Users(list) == {list[i].msg : i \in DOMAIN list} \ {Omi}

\* One run moves on.
Becomes(r, x) == run' = [run EXCEPT ![r] = x]

Goes(r, step) == Becomes(r, [run[r] EXCEPT !.pc = step])

-----------------------------------------------------------------------------
(* The chat: the user writes, and Omi replies.                             *)

\* schedule_job: a running job is done again, an ended one starts over.
Scheduled(f) ==
    CASE f.status = "none"    -> [NoFlush EXCEPT !.status = "pending"]
      [] f.status = "pending" -> f
      [] f.status = "running" -> [f EXCEPT !.moved = TRUE]

Schedule(c) == flush' = [flush EXCEPT ![c] = Scheduled(@)]

Say(c) ==
    LET n == Cardinality({i \in DOMAIN chat[c] : chat[c][i].msg # Omi}) + 1 IN
    /\ n <= Says[c]
    /\ chat' = [chat EXCEPT ![c] = Append(@, [msg |-> <<c, n>>, gone |-> FALSE])]
    /\ UNCHANGED <<draft, flush, lease, store, card, run, erase, mishaps, history>>

\* A reply to the message at i goes right after it, below what Omi said.
ReplyPlace(list, i, p) ==
    /\ \A j \in i + 1..p - 1 : list[j].msg = Omi
    /\ p \in DOMAIN list => list[p].msg # Omi

Inserted(list, p) ==
    SubSeq(list, 1, p - 1) \o <<[msg |-> Omi, gone |-> FALSE]>> \o SubSeq(list, p, Len(list))

\* _learn_after_reply, on the list as it was saved: nothing when the turn's
\* quality is invalid; a job for any pending message, and a task when a batch
\* is full.  The process may end before the task does anything.
LearnAfterReply(c, list) ==
    LET pending == Pending(list, cursor[c].through) IN
    \/ UNCHANGED <<flush, run>>
    \/ /\ pending # {}
       /\ Schedule(c)
       /\ \/ UNCHANGED run
          \/ \E t \in Tasks :
                /\ Cardinality(pending) >= Threshold
                /\ Of[t] = c /\ run[t].pc = "idle"
                /\ Becomes(t, [IdleRun EXCEPT !.pc = "called", !.list = list])

\* draft_reply_to_unanswered: up to the last message that has no answer.
Draft(c) ==
    /\ Cardinality({i \in DOMAIN chat[c] : chat[c][i].msg = Omi}) < Replies[c]
    /\ \E i \in DOMAIN chat[c] :
        /\ Meaningful(chat[c], i)
        /\ \A j \in i + 1..Len(chat[c]) : chat[c][j].gone
        /\ draft' = [draft EXCEPT ![c] = {chat[c][i].msg}]
    /\ UNCHANGED <<chat, flush, lease, store, card, run, erase, mishaps, history>>

\* Those a reply at p pushes down; and of them those some run still counts on
\* finding where it read them.
Pushed(c, p) == Users(SubSeq(chat[c], p, Len(chat[c])))

PushedInList(c, p) ==
    {m \in Pushed(c, p) : \E r \in Runs : Of[r] = c /\ run[r].pc = "called" /\ m \in Users(run[r].list)}

\* commit_reply; nothing is saved when the message was deleted meanwhile.
Reply(c) ==
    \E m \in draft[c] :
        /\ draft' = [draft EXCEPT ![c] = {}]
        /\ \/ /\ \E i \in DOMAIN chat[c] : chat[c][i].msg = m /\ chat[c][i].gone
              /\ UNCHANGED <<chat, flush, run, again, slid>>
           \/ /\ \E i \in DOMAIN chat[c] : \E p \in i + 1..Len(chat[c]) + 1 :
                  /\ chat[c][i].msg = m /\ ~chat[c][i].gone
                  /\ ReplyPlace(chat[c], i, p)
                  /\ chat' = [chat EXCEPT ![c] = Inserted(@, p)]
                  /\ again' = again \union Pushed(c, p)
                  /\ slid' = slid \union PushedInList(c, p)
                  /\ LearnAfterReply(c, Inserted(chat[c], p))
        /\ UNCHANGED <<lease, store, card, erase, mishaps, lessons, passed, dropped, overlap, caught>>

\* catch_up_pending: the user is back.
CatchUp(c) ==
    /\ Pending(chat[c], cursor[c].through) # {}
    /\ Schedule(c)
    /\ UNCHANGED <<chat, draft, lease, store, card, run, erase, mishaps, history>>

-----------------------------------------------------------------------------
(* run_memory_flush_job, up to the run.                                    *)

StartFlush(j) ==
    LET c == Of[j] IN
    /\ flush[c].status = "pending" /\ run[j].pc = "idle"
    /\ IF Pending(chat[c], cursor[c].through) = {}
       THEN /\ flush' = [flush EXCEPT ![c] = NoFlush]
            /\ UNCHANGED run
       ELSE /\ flush' = [flush EXCEPT ![c] =
                   [status |-> "running", moved |-> FALSE,
                    tries |-> IF @.tries > MaxTries THEN @.tries ELSE @.tries + 1]]
            /\ Becomes(j, [IdleRun EXCEPT !.pc = "called", !.list = chat[c],
                                          !.before = cursor[c].through])
    /\ UNCHANGED <<chat, draft, lease, store, card, erase, mishaps, history>>

-----------------------------------------------------------------------------
(* run_background_cognition.                                               *)


\* The run is over: a job reports, a task is gone.
Over(r, result) ==
    Becomes(r, IF r \in Jobs
               THEN [IdleRun EXCEPT !.pc = "reporting", !.result = result,
                                    !.list = run[r].list, !.before = run[r].before]
               ELSE IdleRun)

PickBatch(r) ==
    LET c == Of[r] IN
    /\ run[r].pc = "called"
    /\ IF Pending(run[r].list, cursor[c].through) = {}
       THEN Over(r, "done")
       ELSE Becomes(r, [run[r] EXCEPT !.pc = "picked", !.seen = cursor[c],
                            !.batch = {NextBatch(c, run[r].list, cursor[c].through)}])
    /\ UNCHANGED <<chat, draft, flush, lease, store, card, erase, mishaps, history>>

\* Mutant of HoldUser: the lease of another run is taken over before it expires.
HoldAnyway(r) ==
    /\ run[r].pc = "picked"
    /\ lease' = {[owner |-> r, chat |-> Of[r]]}
    /\ Goes(r, "held")
    /\ UNCHANGED <<chat, draft, flush, store, card, erase, mishaps, history>>

\* claim_user_background_lease.
HoldUser(r) ==
    /\ run[r].pc = "picked"
    /\ IF lease = {}
       THEN /\ lease' = {[owner |-> r, chat |-> Of[r]]}
            /\ Goes(r, "held")
       ELSE /\ UNCHANGED lease
            /\ Over(r, "busy")
    /\ UNCHANGED <<chat, draft, flush, store, card, erase, mishaps, history>>

\* What is left is to release the leases.
Ends(r, result) == Becomes(r, [run[r] EXCEPT !.pc = "releasing", !.result = result])

\* Mutant of CursorMatches: a batch picked before another run ended is claimed.
CursorUnread(r) == TRUE

CursorMatches(r) == cursor[Of[r]].through = run[r].seen.through

\* claim_memory_processing_batch.
ClaimBatch(r) ==
    /\ run[r].pc = "held"
    /\ IF CursorMatches(r) THEN Goes(r, "claimed") ELSE Ends(r, "busy")
    /\ UNCHANGED <<chat, draft, flush, lease, store, card, erase, mishaps, history>>

\* _read_inputs, then the call of the model.
ReadInputs(r) ==
    /\ run[r].pc = "claimed"
    /\ Becomes(r, [run[r] EXCEPT !.pc = "asking", !.card = card])
    /\ UNCHANGED <<chat, draft, flush, lease, store, card, erase, mishaps, history>>

\* Where each user message of a batch is.
Proof(k) == {[chat |-> k.chat, at |-> k.from + i - 1, msg |-> k.rows[i].msg] :
                i \in {j \in DOMAIN k.rows : Meaningful(k.rows, j)}}

\* apply_agent_memory_operation_batch, after a valid answer.
ApplyMemories(r) ==
    \E k \in run[r].batch :
        /\ run[r].pc = "asking"
        /\ Goes(r, "applied")
        /\ IF k \in applied
           THEN UNCHANGED <<applied, evidence, lessons>>
           ELSE /\ applied' = applied \union {k}
                /\ evidence' = evidence \union Proof(k)
                /\ lessons' = [m \in Messages |-> IF m \in Heard(k) /\ lessons[m] < 2
                                                  THEN lessons[m] + 1 ELSE lessons[m]]
        /\ UNCHANGED <<chat, draft, flush, lease, cursor, failures, card, erase, mishaps,
                       passed, dropped, again, slid, overlap, caught>>

\* update_user_card: the card that was read, with the batch's lines, if they are new.
SaveExtras(r) ==
    \E k \in run[r].batch :
        /\ run[r].pc = "applied"
        /\ card' = IF Heard(k) \subseteq run[r].card THEN card ELSE run[r].card \union Heard(k)
        /\ Becomes(r, [run[r] EXCEPT !.pc = "written", !.card = {}])
        /\ UNCHANGED <<chat, draft, flush, lease, store, erase, mishaps, history>>

-----------------------------------------------------------------------------
(* save_memory_processing_state.                                           *)

AlreadySaved(k) == cursor[k.chat].last = {k} /\ cursor[k.chat].through = LastIndex(k)

MaySave(k, version) == cursor[k.chat].version = version /\ LastIndex(k) > cursor[k.chat].through

SaveState(k, version) ==
    \/ AlreadySaved(k) /\ UNCHANGED cursor
    \/ /\ ~AlreadySaved(k) /\ MaySave(k, version)
       /\ cursor' = [cursor EXCEPT ![k.chat] =
                        [through |-> LastIndex(k), version |-> version + 1, last |-> {k}]]

Conflicts(k, version) == ~AlreadySaved(k) /\ ~MaySave(k, version)

\* A run is cut short: what it applied may be cut into other batches next time.
CutShort(r) == again' = again \union UNION {Heard(k) : k \in run[r].batch \intersect applied}

\* _finish.  A conflict is an exception after the answer, like any other.
SaveCursor(r) ==
    /\ run[r].pc = "written"
    /\ \E k \in run[r].batch :
        \/ /\ SaveState(k, run[r].seen.version)
           /\ Ends(r, "done")
           /\ UNCHANGED again
        \/ /\ Conflicts(k, run[r].seen.version)
           /\ Goes(r, "failing")
           /\ CutShort(r)
           /\ UNCHANGED cursor
    /\ UNCHANGED <<chat, draft, flush, lease, failures, applied, evidence, card, erase, mishaps,
                   lessons, passed, dropped, slid, overlap, caught>>

-----------------------------------------------------------------------------
(* When it goes wrong.                                                     *)

Mishap(kind) == kind \in Mishaps /\ mishaps < MaxMishaps /\ mishaps' = mishaps + 1

\* The model gives no answer: nothing is counted.
Outage(r) ==
    /\ Mishap("outage")
    /\ run[r].pc = "asking"
    /\ Ends(r, "done")
    /\ UNCHANGED <<chat, draft, flush, lease, store, card, erase, history>>

\* The answer is invalid, or cannot be applied.
BadContent(r) ==
    /\ Mishap("content")
    /\ run[r].pc = "asking"
    /\ Goes(r, "failing")
    /\ UNCHANGED <<chat, draft, flush, lease, store, card, erase, history>>

\* A later write fails: embeddings, card, threads, cursor.
WriteFails(r) ==
    /\ Mishap("write")
    /\ run[r].pc \in {"applied", "written"}
    /\ Goes(r, "failing")
    /\ CutShort(r)
    /\ UNCHANGED <<chat, draft, flush, lease, store, card, erase, lessons, passed, dropped, slid, overlap, caught>>

FailuresOf(k) == IF k \in DOMAIN failures THEN failures[k] ELSE 0

Hopeless(n) == n >= MaxFailures

\* _count_failure_or_skip; the cursor is read again for the skip.
CountFailure(r) ==
    \E k \in run[r].batch :
        LET n == FailuresOf(k) + 1 IN
        /\ run[r].pc = "failing"
        /\ failures' = [l \in DOMAIN failures \union {k} |-> IF l = k THEN n ELSE failures[l]]
        /\ IF Hopeless(n)
           THEN Becomes(r, [run[r] EXCEPT !.pc = "skipping", !.seen = cursor[k.chat]])
           ELSE Ends(r, "done")
        /\ UNCHANGED <<chat, draft, flush, lease, cursor, applied, evidence, card, erase, mishaps, history>>

\* Only the batch's messages are passed over.
SkipBatch(r) ==
    /\ run[r].pc = "skipping"
    /\ \E k \in run[r].batch :
        \/ /\ SaveState(k, run[r].seen.version)
           /\ passed' = passed \union Heard(k)
           /\ Ends(r, "done")
        \/ /\ Conflicts(k, run[r].seen.version)
           /\ Ends(r, "raised")
           /\ UNCHANGED <<cursor, passed>>
    /\ UNCHANGED <<chat, draft, flush, lease, failures, applied, evidence, card, erase, mishaps,
                   lessons, dropped, again, slid, overlap, caught>>

\* The "finally" blocks: both leases, if they are still this run's.
Release(r) ==
    /\ run[r].pc = "releasing"
    /\ lease' = {l \in lease : l.owner # r}
    /\ Over(r, run[r].result)
    /\ UNCHANGED <<chat, draft, flush, store, card, erase, mishaps, history>>

-----------------------------------------------------------------------------
(* run_memory_flush_job, after the run, and what the queue does then.      *)

\* No progress is an error the queue retries.
NoProgress(j) ==
    \/ run[j].result = "raised"
    \/ run[j].result = "done" /\ cursor[Of[j]].through = run[j].before

\* Mutant of MoreToDo: another run at work is taken for the end of the work.
MoreAfterRun(j) ==
    /\ run[j].result = "done"
    /\ Pending(run[j].list, cursor[Of[j]].through) # {}

\* Another run was at work, or the list holds more than the batch.
MoreToDo(j) ==
    \/ run[j].result = "busy"
    \/ Pending(run[j].list, cursor[Of[j]].through) # {}

FlushFails(c) ==
    IF flush[c].tries < MaxTries
    THEN /\ flush' = [flush EXCEPT ![c].status = "pending", ![c].moved = FALSE]
         /\ UNCHANGED dropped
    ELSE /\ flush' = [flush EXCEPT ![c] = NoFlush]
         /\ dropped' = dropped \union {c}

FlushEnds(c, more) ==
    /\ flush' = [flush EXCEPT ![c] = IF more \/ @.moved THEN Scheduled(NoFlush) ELSE NoFlush]
    /\ UNCHANGED dropped

ReportFlush(j) ==
    /\ run[j].pc = "reporting"
    /\ IF NoProgress(j) THEN FlushFails(Of[j]) ELSE FlushEnds(Of[j], MoreToDo(j))
    /\ Becomes(j, IdleRun)
    /\ UNCHANGED <<chat, draft, lease, store, card, erase, mishaps, lessons, passed, again, slid, overlap, caught>>

-----------------------------------------------------------------------------
(* Crashes and expiry.                                                     *)

\* The process dies; the queue runs the job again when its own lease is over.
Crash(r) ==
    /\ Mishap("crash")
    /\ run[r].pc # "idle"
    /\ lease' = {IF l.owner = r THEN [l EXCEPT !.owner = Nobody] ELSE l : l \in lease}
    /\ flush' = IF r \in Jobs THEN [flush EXCEPT ![Of[r]].status = "pending"] ELSE flush
    /\ Becomes(r, IdleRun)
    /\ CutShort(r)
    /\ UNCHANGED <<chat, draft, store, card, erase, lessons, passed, dropped, slid, overlap, caught>>

LeaseExpires ==
    /\ \E l \in lease : l.owner = Nobody
    /\ lease' = {}
    /\ UNCHANGED <<chat, draft, flush, store, card, run, erase, mishaps, history>>

\* A run outlives the user's lease.
Overrun(r) ==
    /\ Mishap("overrun")
    /\ \E l \in lease : l.owner = r
    /\ lease' = {}
    /\ again' = again \union UNION {Heard(k) : k \in run[r].batch}
    /\ overlap' = TRUE
    /\ UNCHANGED <<chat, draft, flush, store, card, run, erase, lessons, passed, dropped, slid, caught>>

-----------------------------------------------------------------------------
(* delete_conversation_messages, for one message.                          *)

\* Reading the list and saving it with the blank is one step here.
EraseBlanks(e, c, i) ==
    /\ erase[e].step = "new" /\ ~chat[c][i].gone
    /\ chat' = [chat EXCEPT ![c][i].gone = TRUE]
    /\ erase' = [erase EXCEPT ![e] = [step |-> "blanked", chat |-> {c}, at |-> i]]
    /\ UNCHANGED <<draft, flush, lease, store, card, run, mishaps, history>>

Standing(c, m) == \E i \in DOMAIN chat[c] : chat[c][i].msg = m /\ ~chat[c][i].gone

\* Deleted messages that a run yet to apply its batch has read.
ReadAndGone(c) ==
    {m \in Users(chat[c]) : ~Standing(c, m) /\ \E r \in Runs :
        /\ run[r].pc \in {"called", "picked", "held", "claimed", "asking"}
        /\ \E i \in DOMAIN run[r].list : Meaningful(run[r].list, i) /\ run[r].list[i].msg = m}

\* The message's proof goes, and with it all that says how far the chat was
\* read.  The user's lease is a row with the chat in which it is held.
EraseForgets(e) ==
    \E c \in erase[e].chat :
        /\ erase[e].step = "blanked"
        /\ evidence' = {v \in evidence : v.chat # c \/ v.at # erase[e].at}
        /\ cursor' = [cursor EXCEPT ![c] = NoCursor]
        /\ applied' = {k \in applied : k.chat # c}
        /\ failures' = [k \in {l \in DOMAIN failures : l.chat # c} |-> failures[k]]
        /\ lease' = {l \in lease : l.chat # c}
        /\ overlap' = (overlap \/ \E l \in lease : l.chat = c /\ l.owner # Nobody)
        /\ again' = again \union Users(chat[c])
        /\ caught' = caught \union ReadAndGone(c)
        /\ erase' = [erase EXCEPT ![e].step = "forgotten"]
        /\ UNCHANGED <<chat, draft, flush, card, run, mishaps, lessons, passed, dropped, slid>>

\* The route asks for a fresh run.
EraseAsks(e) ==
    \E c \in erase[e].chat :
        /\ erase[e].step = "forgotten"
        /\ Schedule(c)
        /\ erase' = [erase EXCEPT ![e].step = "done"]
        /\ UNCHANGED <<chat, draft, lease, store, card, run, mishaps, history>>

-----------------------------------------------------------------------------
RunSteps(r) ==
    \/ PickBatch(r) \/ HoldUser(r) \/ ClaimBatch(r) \/ ReadInputs(r)
    \/ ApplyMemories(r) \/ SaveExtras(r) \/ SaveCursor(r)
    \/ CountFailure(r) \/ SkipBatch(r) \/ Release(r)

Next ==
    \/ \E c \in Chats : Say(c) \/ Draft(c) \/ Reply(c) \/ CatchUp(c)
    \/ \E j \in Jobs : StartFlush(j) \/ ReportFlush(j)
    \/ \E r \in Runs : \/ RunSteps(r) \/ Outage(r) \/ BadContent(r) \/ WriteFails(r)
                       \/ Crash(r) \/ Overrun(r)
    \/ LeaseExpires
    \/ \E e \in Erasers : \/ \E c \in Chats : \E i \in DOMAIN chat[c] : EraseBlanks(e, c, i)
                          \/ EraseForgets(e) \/ EraseAsks(e)

\* Worker loops poll, a run's awaits end, and time passes.  Nobody is obliged
\* to write, to delete or to crash.
Fairness ==
    /\ \A j \in Jobs : WF_vars(StartFlush(j)) /\ WF_vars(ReportFlush(j))
    /\ \A r \in Runs : WF_vars(RunSteps(r))
    /\ WF_vars(LeaseExpires)

Spec == Init /\ [][Next]_vars

FairSpec == Spec /\ Fairness

-----------------------------------------------------------------------------
(* Properties.                                                             *)

\* The cursor never moves past a message nobody read: what stands before it was
\* in a batch that was applied, or that was skipped after its failures
\* (_batch_end_index, save_memory_processing_state).  A message may slide below
\* it when a reply moves it out of the batch of a run that read the list before
\* (run_memory_flush_job reads the list, then run_background_cognition the cursor).
Known(m) == lessons[m] > 0 \/ m \in passed

Skipped == {m \in Messages : \E c \in Chats : \E i \in DOMAIN chat[c] :
                /\ i <= cursor[c].through /\ Meaningful(chat[c], i)
                /\ chat[c][i].msg = m /\ ~Known(m)}

NoneSkipped == Skipped \subseteq slid

\* A message is in one applied batch, whatever runs meet in its chat, unless a
\* reply lands above it, a message of the chat is deleted, or a run is cut short
\* between applying the batch and saving the cursor (claim_processing_batch,
\* save_memory_processing_state, apply_agent_memory_operation_batch).
LearntOnce == \A m \in Messages : lessons[m] > 1 => m \in again

\* A run writes back the card it read, with its own lines: no run loses the
\* lines of another while the user's lease keeps them apart
\* (claim_user_background_lease, update_user_card).
CardKept == [][card \subseteq card' \/ overlap']_vars

\* A message that waits when a flush job is due is learnt, or passed over with
\* its batch, unless it is deleted or the queue gives the job up
\* (run_memory_flush_job).
Due(m) == /\ flush[m[1]].status = "pending"
          /\ \E i \in Pending(chat[m[1]], cursor[m[1]].through) : chat[m[1]][i].msg = m

Served(m) == Known(m) \/ m \in slid \/ ~Standing(m[1], m) \/ m[1] \in dropped

MessageIsLearnt == \A m \in Messages : Due(m) ~> Served(m)

\* What a deletion says: when it is done, no memory rests on the message
\* (message_deletion.py: "What points at a message is removed exactly"), unless a
\* run that had read it was to apply its batch yet, or a reply has moved it away
\* from where the proof says it is.
DeletedIsForgotten ==
    \A v \in evidence :
        \/ Standing(v.chat, v.msg) \/ v.msg \in caught
        \/ \E e \in Erasers : erase[e].step = "blanked" /\ erase[e].chat = {v.chat}
        \/ chat[v.chat][v.at].msg # v.msg

=============================================================================
