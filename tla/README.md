# Omi: TLA+ models of the chat server

Omi is a companion that chats with people on the web and in messaging apps. The server (`src/src/`)
is a FastAPI application over one SQL database; any number of instances of it run at once and share
nothing but the database. Each instance answers messages, polls a job queue, and pushes events to
the browsers connected to it. What is hard about it is what several instances, requests and jobs do
to the same rows: a message saved while a reply to another is being written, a worker that dies
with claimed work, a lease that runs out under a live holder, a list written back from an old read.
These modules model that.

## Inventory

| part | state it keeps | operations | modelled in |
|---|---|---|---|
| Agent job queue (`storage/agent_jobs.py`, `agent/jobs/`) | `agent_jobs`: one row per dedupe key: status, run_after, locked_until, attempts | schedule, claim, finish, fail, cancel, purge; the worker's poll loop | `AgentJobs` |
| Reply bursts (`storage/channel_bursts.py`, `api/reply_bursts.py`, `api/chat_service.py`) | `channel_bursts`: one row per chat: token, arrivals, lease, typing | save, join, wait for quiet, draft, hold, commit, deliver, finish, fail, renew, release | `ReplyBurst` |
| Conversation store (`storage/conversations.py`, `storage/message_deletion.py`) | `messages_json`, one list per chat, and the chat's other columns | create, update under the row lock, save the whole list, delete messages, delete or archive a chat | `ReplyBurst` (one chat's list), `MemoryRun` (what a deletion forgets) |
| Match pools and hosting (`storage/match_pools.py`, `agent/matching/`) | pools, pairs with a status and a plan | introduce, host, follow up, record an outcome, readiness | `MatchHosting` (one pair), `ReplyBurst` (how `_host` meets a reply) |
| Proactive messages (`agent/proactive/`, `agent/runtime/story_mode.py`) | open promises, plans followed up, story progress | nudge, greet on return, follow up a promise or a plan, tell a part of a story | `Proactive` (all but stories) |
| Background memory run (`storage/memory_processing.py`, `.../memory_run/service.py`) | batches, two kinds of lease, a cursor into each chat, failure counts | choose a batch, call the model, apply memories and threads, move the cursor, skip | `MemoryRun` |
| Realtime delivery (`realtime/`, `storage/realtime_events.py`) | sockets per instance, the event table, each instance's last read id, presence | publish, drain, join, leave | `Fanout`, `Delivery` (all but presence) |
| Channel links and webhooks (`storage/channel_links.py`, `api/routes/`) | one-time codes, owned chats, last update id | issue, redeem, link, unlink, claim an update or a message | `ChannelLinks` |
| Reply pipeline (`agent/runtime/`, `agent/providers/`, `agent/tools/`) | none that outlives a turn | assemble a prompt, call a model, run tools, check quality | a step of unknown length |
| Memories, profile | derived facts with evidence | apply, extract, rank, retrieve | the application of a batch, in `MemoryRun`; the rest is language-model output and ranking |
| Vibe card (`storage/vibe_cards.py`, `agent/shared/vibe.py`, `api/routes/vibe.py`) | `agent_vibe_cards`: one row per user: lines with proof, removals, the intro, a consent | write lines, drop proof, remove a line, choose, edit, reset and write the intro | `VibeCard` (all but milestones) |
| Usage limits, auth, routes, ingestion | quotas, sessions | refuse or pass a request | no: they change nothing the models keep |
| Retention and account deletion | none of its own | delete by age or owner | the purge of jobs, in `AgentJobs` |
| Web chat (`src/apps/web/`: `messageQueue.ts`, `realtime.ts`, `ChatPage.tsx`) | the list on screen, the last sequence, bubbles on their way | send, retry an unsent or a saved message, change settings, merge an answer, apply an event, recover a gap | `LiveChat` |
| The rest of the browser apps (`src/apps/`) | views and forms | | no: their requests are the inputs |

How they interact. A route saves a message through `update_conversation`, joins the chat's burst
and, if it is the one that took the lease, drafts and commits the reply. A commit publishes realtime
events and schedules memory, story and follow-up jobs. The worker of any instance runs those jobs;
some of them (hosting, nudges, stories) write into the same message list as the requests. Deleting a
message or chat edits the list, the jobs and the derived tables from a request of its own.

What must hold of each part:

- *job queue*: one worker at a time holds a job; a call is not swallowed; owed work is done.
- *bursts and the list*: every counted message is answered once or offered for Retry; a chat is
  never blocked for good; nothing saved is lost.
- *memory run*: no message is passed over or learnt twice, and the user card loses nothing a run wrote.
- *realtime*: an event reaches a socket at most once and in its call's order, and a row that is
  committed ahead of a reader reaches the reader's sockets.
- *web chat*: whatever was lost on the way, the tab ends up with the stored list, and a bubble never
  vanishes and never shows twice.
- *hosting*: nobody is introduced twice, an introduced pair is told, and no note on it is lost.
- *channel links*: a message is saved once and not lost without a word; a code that was used is over.
- *proactive*: a promise is raised once, and what made a nudge welcome still holds where it lands.
- *vibe card*: what the user removed, chose or wrote stays, and no line stands on a deleted message.

## Modules

- `AgentJobs`: the queue and its workers. `MCAgentJobs` names its instances.
- `AgentJobsProofs`: the safety of the queue, for every value of the constants.
- `ReplyBurst`: one web chat. `MCReplyBurst` names its instances.
- `ReplyBurstProofs`: everything its runs check of safety, for every value of the constants.
- `MemoryRun`: what is learnt from one user's chats. `MCMemoryRun` names its instances.
- `MemoryRunProofs`: the safety of the memory run, for every value of the constants.
- `Delivery`: what realtime delivery promises a browser. `Fanout`: the hub and the event log between
  instances, which implement it; `MCFanout` names the instance.
- `LiveChat`: one browser tab on one chat. `MCLiveChat` names its instance.
- `RealtimeProofs`: the safety of both, from the log to the screen, for every value of the constants.
- `ChannelLinks`: messaging apps up to the saved message. `MCChannelLinks` names its instance.
- `ChannelLinksProofs`: the safety of the links, for every value of the constants.
- `MatchHosting`: one pair and its jobs. `MCMatchHosting` names its instances.
- `MatchHostingProofs`: its safety, for every value of the constants.
- `Proactive`: Omi speaking first to one user. `MCProactive` names its instance.
- `ProactiveProofs`: everything its run checks, for every value of the constants.
- `VibeCard`: the card of one user and its writers. `MCVibeCard` names its instance.
- `VibeCardProofs`: everything its run checks, for every value of the constants.

### AgentJobs

`jobs[j]` is the row with dedupe key `j`. `claims[w]` is the list of jobs that `run_once` of worker
`w` holds, with the row's values as the claim returned them; `asked[k]` is a schedule call between
its `SELECT` and its `INSERT` or `UPDATE`. The clock is coarse.

| code | action |
|---|---|
| `schedule_agent_job` | `ScheduleRead`, then `ScheduleWrite`: an insert, an update from what was read, or an `IntegrityError` / missing row |
| `cancel_agent_jobs`, `delete_conversation`, `purge_expired_records` | `CancelJobs`, `DeleteConversation`, `PurgeFinished` |
| `claim_due_agent_jobs` | `ClaimDue`: the oldest `Limit` due rows |
| `JobWorker._run` | `StartHandler`, then `FinishJob` or `FailJob`; `RejectUnknownKind` |
| the process dies, or an error ends the pass | `AbandonPass` |

Two abstractions need a word. `finish_agent_job` compares the row's `run_after` with the one it
claimed, at the resolution of microseconds; with a clock of four instants two different times would
look equal, so the claim carries a flag `moved` instead: `run_after` was written after the claim
read it. And `attempts` counts up to `MaxAttempts + 1`, which stands for every larger number.

`owed`, `missed`, `stray` and the claim's `fresh` are history. `owed[j]`: no run that began after
the last schedule call has ended. `missed` and `stray` mark the two places where the code writes
from an outdated view, so that the properties say what holds apart from them: `missed`, a schedule
call wrote past a run that had just ended (case 4 below); `stray`, a worker wrote a row after its
lease had expired, or a schedule call reset a row that was claimed since its read. Each is as narrow
as the code allows; without it the property fails on the run's own instance.

### ReplyBurst

`chat` is the stored list of one chat, each message known by the request that saved it (the code
uses `created_at`). `burst` is the row of `channel_bursts`, or none. `req[r]` is a request on any
instance:

    new -> saved -> joining? -> waiting -> quiet -> written -> ready -> shown -> done
                                  ^                    |                  |
                                  +---- restart -------+--- more came ----+
                              (any of the active ones) -> leaving -> done

| code | action |
|---|---|
| `save_web_message` (append, skip a repeated `client_id`, give up on failed messages) | `Post` |
| `mark_retry_sending` | `PostRetry` |
| `join_burst` | `JoinCounts`; without a row `JoinFindsNone`, then `JoinInserts` or `JoinConflicts` |
| `_wait_for_quiet` | `WaitForQuiet`; `Leave` when the lease went to another |
| `draft_reply_to_unanswered` | `DraftReply` reads the list; the model works until the next step |
| `_hold_for_typing`, the restart, the last check of the lease | `HoldDraft` |
| `commit_reply` | `CommitReply`: bubbles below the message and what Omi said meanwhile, or a reaction or chosen silence that closes it, or nothing when the message is gone |
| `deliver`, `finish_burst` | `FinishBurst` |
| `answer_burst`'s `except`, and its `finally` | `Fail`, `Release`; `Cancel` for an `asyncio` cancellation, which `except Exception` does not see |
| `_keep_lease`, `renew_burst` | `Renewed`, `RenewalFails`, `LeaseExpires` |
| `_host` with `deliver_messages(expected_count=...)` | `HostReads`, `HostDelivers` |
| `delete_conversation_messages` | `EraseReads`, `EraseSaves` |

One transaction is one step. Time is abstract: a wait may end at any re-read of the row, which
covers every outcome of `burst_window.py`, `signal_typing` and `stop_typing`; a lease expires only
when its task no longer renews it (the renewal runs every 15 of 60 seconds), that is after its
request ended or after `renew_burst` raised. Messages still `sending` after two minutes count as
failed: a prefix of the list, chosen freely. The message a deletion removes is picked from the list
the deletion read.

`counted`, `replies`, `unserved` and `twice` are history. `unserved` collects the messages that a
known path leaves without an answer, at the step where it happens; `twice` is set by the two
events after which two replies may overlap: the renewal that failed, and a deletion that writes an
old list back.

### MemoryRun

`chat[c]` is the stored list of a chat, a deleted message being a blank in its place; `cursor[c]` is
the row of `memory_processing_states`, counting processed messages where the code keeps the last
index; `flush[c]` is the chat's row in the job queue; `lease` is the user's lease, which all chats of
the user share. `run[r]` is a run, of a flush job or of a background task that a reply left behind:

    called -> picked -> held -> claimed -> asking -> applied -> written -> releasing -> reporting
                                              \         |          |          ^         (jobs only)
                                               +--> failing -> skipping -----+

| code | action |
|---|---|
| `save_web_message`, `catch_up_pending` | `Say`, `CatchUp` |
| `draft_reply_to_unanswered`, `commit_reply` with `_learn_after_reply` | `Draft`, `Reply` |
| `run_memory_flush_job` up to the run, and after it | `StartFlush`, `ReportFlush` |
| `run_background_cognition`: state and batch; user's lease; batch claim | `PickBatch`, `HoldUser`, `ClaimBatch` |
| `_read_inputs` and the model's call | `ReadInputs` |
| `apply_agent_memory_operation_batch` | `ApplyMemories` |
| `update_user_card` | `SaveExtras` |
| `_finish`, `save_memory_processing_state` | `SaveCursor` |
| no answer; an invalid answer or one that cannot be applied; a later write fails | `Outage`, `BadContent`, `WriteFails` |
| `record_memory_batch_failure`, then the skip | `CountFailure`, `SkipBatch` |
| the two `finally` blocks | `Release` |
| the process dies, its lease runs out; a run outlives the lease | `Crash`, `LeaseExpires`, `Overrun` |
| `delete_conversation_messages` and its route | `EraseBlanks`, `EraseForgets`, `EraseAsks` |

Each transaction is one step. What is abstracted:

- A batch is known by its messages with their positions, which is what `batch_key` hashes. It holds
  at most `Threshold` user messages, all meaningful, and every applied batch teaches something of
  each, so `lessons[m]` counts the applied batches a message was in.
- The batch's own lease is left out. It is claimed after the user's, released before it, deleted
  with it and expires before it (210 against 420 seconds), so it never refuses a run that holds the
  user's. The comparison of the cursor in the same transaction is kept (`CursorMatches`).
- Threads, self notes, open questions and vibe lines are written between card and cursor, once per
  batch key, and left out; so is the debug record, and a failure of it after the cursor was saved.
- A deletion's read and write of the list are one step here; `ReplyBurst` has them apart.
- A flush job's three reads (list, pending, cursor) are one step. A cursor that moves between them
  costs the job one more try. That the run then reads the cursor by itself is kept (`PickBatch`).
- The job's row is kept as simple as the run needs: `AgentJobs` has the queue. A second worker that
  takes over a flush job still at work is not repeated here; the task is the second run of a chat.

`lessons`, `passed`, `dropped`, `again`, `slid`, `overlap` and `caught` are history. `again` names the
messages that may be learnt twice, at the step where that becomes possible: a reply lands above them and
moves them past a cursor or out of a batch, a deletion resets the chat (which is meant: the code says
"the rerun reinforces what it finds again"), or a run is cut short after it applied its batch, or loses
the lease. `slid` names the messages that may end up before the cursor unread: a reply pushed them down
while a run had read the list but not yet the cursor. `overlap` is set when a run at work no longer
holds the user's lease: it outlived it, or a deletion in the chat it works on removed the row. `caught`
names the messages a run had read, and not yet applied, when a deletion forgot them.

### Delivery and Fanout

`Delivery` is abstract: sockets are in rooms, calls publish their events one after the other, and an
event reaches any of the room's sockets, at once or later, at most once each and in the call's order.
`Fanout` is the code: `rooms` and `socket` are the hub of the instance a socket is connected to
(`Home`), `log` the rows of `realtime_events`, `mark[i]` the `_last_id` of instance `i`'s reader and
`batch[i]` the rows it has read and not pushed. Its step-by-step publishing (`SendLocal`, `TakeId`,
`CommitRow` or `AppendFails`) and its readers (`StartReader`, `ReadLog`, `PushRow`) implement
`Delivery` under the refinement mapping `published <- Published`: property `DeliversAsPromised`.

| code | action |
|---|---|
| `hub.subscribe`, `unsubscribe`, `unregister` | `Subscribe`, `Unsubscribe`, `Disconnect` (a connection breaks with `Break`) |
| `hub.publish`: `publish_local`, then `append_realtime_event` | `SendLocal`; `TakeId`, `CommitRow`, or `AppendFails` |
| `RealtimeFanout.drain`, `_poll_loop` | `StartReader` (the first only marks where it starts), `ReadLog`, `PushRow` |

An id is taken before the row is committed, so two rows may commit in the other order. `waiting[s]`
is history: the rows that committed ahead of the reader of `s`'s instance while `s` was in the room.
Reading a room and sending to it is one step: `send_json` hands the frame to the socket's buffer.

### LiveChat

One tab, one chat. `chat` is the stored list, `pending[m]` the events published by the write that
saved `m`, in order (what `Fanout` promises), `known` and `local` the two parts of the list on screen,
`lastSeq` the tab's last sequence and `recovery` its one open recovery. Messages are saved by this
tab, elsewhere, by Omi unasked, or as replies, which go in above what came later. `retry` is the Retry
of a saved message that has no answer: the list it was clicked in, and the place of the message there.

| code | action |
|---|---|
| `save_web_message`, `commit_reply` with their events | `Save`, `Arrive`, `Draft`, `Commit` |
| `trackSequence`, `requestRecovery`, `applyRealtimeEvent` | `Push` (with `Ask`), `Lose` |
| `recoverConversation` and its route | `ServeRecovery`, `Recover`, `RecoveryFails` |
| `connect`, `onopen`, `onclose` | `Connect`, `Join`, `Close` |
| `sendText`, the POST's answer in `postReply` | `Send`, `Respond`, `Merge`, `ReplyFails`, `NoReply`, `Reject` |
| `retryMessage` while bubbles had no answer | `Resend` |
| `retryMessage` of a saved message, `retry_agent_message`, what `postReply` makes of its answer | `Retry`, `RetryAccepted` (goes on as a POST that was saved), `RetryRefused`, `RetryTurnedAway`, `RetryFails` |
| `updateSettings` and its route | `ChangeSettings`, `ShowSettings`, `SettingsLost` |

A Retry that is refused (409) or turned away (429, another 4xx) puts the list of the click back, the
first one without the message, which is then sent as a new one; an answer to new settings is shown as it
is. Neither is merged with what came meanwhile, and `lastSeq` stays: that is the excuse `replaced`.
Whether a message is shown as failed is left open, so any of the user's may be retried.

`fresh` and `excuse` are history: the newest shift that anything the tab applied had seen, and the
cases in which the tab may show something else until the chat is opened again (see "What the checks
found"). The module's own names carry `Chat` (`ChatSpec`, `ChatTypeOK`, `ChatSending`) because one proof module
extends it together with `Fanout`.

### ChannelLinks

`codes`, `links` and `seen` are the tables `channel_link_codes`, `channel_links` and
`channel_seen_messages`; `sent` is what users wrote, in order, and a delivery is one webhook call for
one of these messages. `handler[d]` is how far its handling is. A behaviour is about Telegram, which
claims an update on the link's row (`ClaimUpdate`), or WhatsApp, which claims the message id first of
all (`ClaimMessage`) and does the rest after its 200. The claim is kept for two days (`retention.py:65`).

| code | action |
|---|---|
| `create_channel_link_code` | `AskForCode`, `GiveCode` (a `DELETE` and an `INSERT`: what two of them at once leave) |
| `consume_channel_link_code` | `ReadCode`, `TakeCode` |
| `link_channel_chat` | `Unlinking`, `Link`, which fails when another handler linked one of the two first |
| `unlink_channel`, from the account or by a stop word | `Disconnect`, `Stop` |
| the webhooks | `Receive`, `LookUp`, `SaveText`; `Die` at any step |

### MatchHosting

One pair. `status`, `told` and `outcomes` are its row; `row`, `attempts` and `run` are the jobs, with
what `AgentJobs` shows of them: a row runs until a run ends it, again after a failure or a death,
twice at once past a lease, once more when it is scheduled meanwhile. `operator[o]` is a request.

| code | action |
|---|---|
| `introduce_pair` | `CheckProposed`, `SetPlan`, `ScheduleNext` for each job; `RequestDies` |
| `run_match_intro_job`, `run_match_reminder_job`, `run_match_check_in_job` | `Begin` or `Pass`; `Defer` to the morning |
| `_host`, `deliver_messages` | `Say`, `Reread`, `SayNothing` |
| `update_match_pair_plan` by the job and by `record_match_outcome` | `Note`, `RecordOutcome` |
| the queue | `Claims` in `Begin`, `Finish`, `Fail`, `Die` |
| `PATCH /api/admin/pairs`, `delete_match_data_for_user` | `Patch`, `DeletePair` |

The reminder differs from the introduction only in its text and in leaving no note; it is in the
model and in no instance. `noted`, `raced` and `repeated` are history.

### Proactive

`chat[c]` is a list of messages, known by who wrote them and the time they carry; `kept` and `asked`
are the marks on promises and plans. A run is a pass over several chats with the clock it read at its
start, or a greeting job. `erasing` holds the deletions that have read a list and not yet saved it.

| code | action |
|---|---|
| `run_proactive_pass`, `run_away_follow_ups`, `run_return_greeting_job` | `StartPass`, `StartGreeting` |
| `nudge_block_reason`, `return_greeting_block_reason`, `due_promise`, `due_event`, `pick_thread` | `MayNudge`, `MayGreet`, `DuePromise`, `DueEvent`, `FreshTopics`, together `Would` |
| `_nudge`, `greet_on_return`, `nudge_conversation` up to the model | `Decide`, `PassOver` |
| no reply; `deliver_messages`; the marks after it | `Declines`; `Deliver`, `MovedOn`; `Resolve`, `MarkEvent` |
| the pass's `except`; a process that dies | `Errs`, `Die` |
| `delete_conversation_messages` | `EraseReads`, `EraseSaves`: a blanked nudge is no nudge any more |

Which open topic is the most salient, and which chats are watched, is left open. `raised`, `excused`
and a run's `cut` are history. `cut` marks the runs in whose chat a deletion saved a list that is not
the chat as it is but for blanks (`OnlyBlanks`): one read before a message came, or before another
deletion, whose nudge it brings back. The second needs two deletions at once, which the run's one
mishap does not reach; it was found while looking for the inductive invariant.

### VibeCard

`card` is the row: per area the messages that prove its line (the words are left out) and the time it
was marked wrong, the intro by who wrote it, the consent. A message is its number, which is also its
time. `work[w]` is what a browser, a background run or a deletion has in hand: what it read (`base`),
what it wants changed (`change`), and the card its update read (`seen`).

| code | action |
|---|---|
| `update_vibe_card`, `_replace_extra` | `ReadCard`, then `WriteCard`, `LoseRace` or `GiveUp`; `Merged` and `WithExtras` are the new card |
| `_read_inputs`, `apply_vibe`, `backfill_user_vibe` | `ReadInputs`; `ProveLines` is `verify_vibe_updates` |
| `delete_conversation_messages` | `Erase`, `FindProof`, then the update |
| `DELETE /api/me/vibe/{area}`, `PUT /api/me/consent` | `Reject`, `Choose` |
| `PUT`, `DELETE`, `GET /api/me/intro` | `EditIntro`; `ResetIntro`, which goes on as a visit; `VisitProfile`, `IntroWritten`, `IntroFails` |
| a process that dies | `Die` |

A run, a backfill and a deletion act once each, the tabs make `MaxAsks` requests between them. A row
that was written since it was read may read the same and be stored as another text,
encrypted anew or with other words; `overtaken` lets the update fail then as well. `removed`, `late`, `chosen`,
`unsaved` and `own` are history.

## Runs

| run | question | bounds | result |
|---|---|---|---|
| `agent_jobs` | exclusive claims, no swallowed call, owed work served | 2 workers of different builds, 2 jobs, 1 call, 1 crash, 4 instants | holds |
| `reply_burst` | served, once, chat freed | 2 messages and a Retry, any one mishap | holds |
| `reply_burst_shared` | served, and not hidden, with the list's other writers | 2 messages, a resend, a hosting job, a deletion, a failure | holds |
| `memory_run` | nothing skipped, nothing learnt twice, what is due is learnt | 1 chat, 3 messages, 1 reply, a job and a task, any 1 mishap | holds |
| `memory_run_erased` | nothing kept of a deleted message, no card line lost | 2 chats of 2 and 1 messages, 2 jobs, 1 deletion, any 1 mishap | holds |
| `fanout` | at most once, in order, nothing ahead of a reader skipped, and it arrives | 2 instances, 1 tab, 3 calls of 2, 1 and 1 events, batches of 2; the refinement of `Delivery` | holds |
| `live_chat` | the tab shows a prefix of the chat, keeps the user's bubble, fills a gap | 1 message of the tab's, 1 from elsewhere, 1 reply; any event lost, any number of reconnections, retries and changes of settings; up to the first excuse | holds |
| `channel_links` | saved once, not lost, a used code is over | 1 account, 2 codes, 2 chats, 3 messages in 4 deliveries, any deaths | holds |
| `match_hosting` | no note lost | 2 operators, 2 people, 2 workers, 1 message, outcomes, errors, no fault | holds |
| `match_hosting_faults` | introduced once, and told | 1 person's introduction and check-in, 2 workers, 1 fault, 1 status set by hand | holds |
| `vibe_card` | a removed line stays away, proof goes with its message, consent and own intro stand | 1 area, 2 messages, a run, a backfill and a deletion, 2 tabs with 2 requests, 2 attempts, 1 death | holds |
| `proactive` | raised once, a nudge still welcome | 2 runs, a web chat and an app, 1 promise, 1 plan, 1 topic, 3 instants, 1 message, 1 mishap | holds |

Why these bounds are enough to be of use. Two workers are what a race over one row takes, two jobs
give a batch in which one waits behind the other, and a lease of two instants in a clock of four lets
it expire, be taken over and be written past; `MaxAttempts = 2` has both a retry and the last
attempt. The clock's end is no deadline: at the last instant everything is due and every lease is
over, so runs go on from there. In the chat, three requests are a replier, one that joins and one
that joins later or takes over; one restart (the code allows two) has both the thrown-away draft and
the refused one; one mishap at a time, at any step, is what the code's recovery is written for.
A memory batch holds one user message, so the
cursor has a place between any two. Three messages are needed for one to slide below it: one that is
learnt, one that a reply pushes down, one whose batch moves the cursor over it; with two,
`NoneSkipped` would hold without its exemption. A bad batch is skipped at its first failure in
`memory_run` and retried after it in `memory_run_erased`; two tries have both the retry and the job
that gives up. Every run turns the deadlock check off, because the systems may stop: the requests are all
answered, the jobs all done.

For the tab, three messages are what the interesting orders take: a reply goes in above a message
that came later and moves it. The run goes no further than the
first excuse (the constraint `Unexcused`): an excuse stays, and with one all properties but the type
invariant hold, which is proved for what comes after as well. So the retries are seen to their
answers, those that lose nothing and go on. One change of settings is open at a time. That is 1.6
million states. Two deliveries of one message between two others
are the least that has a repeat, a late one and one out of order; two codes of one account meet in
every way two codes do. A pair has two people, and a race over it two operators or two workers.
Two passes at once are what the marks have to stand, and the numbers of `Proactive.cfg` scale the
code's: silence 1, a long gap 2, the daily window 3, at most 2 nudges in it. An update of the card
has 2 attempts instead of 5: one lost race that is made good, and one too many. Two messages put one
before a removal and one after it. The instance has one area, enough for an intro and not private; the
proofs are for any. The largest runs, `channel_links`,
`vibe_card` and `proactive`, have 3.6, 4.7 and 5.3 million states.

The passing runs were made to fail by breaking the code's model on purpose, once per property
(`mutants` in `PROJECT.json`): the reclaim ignores the lease, the burst closes whatever arrived, the
reply goes to the end of the list, the lease task outlives its request, a memory run claims a batch
without looking at the cursor, a reader takes its own rows or only the next id, a tab keeps bubbles
that have landed, an update is no older instead of newer, a code is not deleted, a card is written whatever it
reads, and so on.

## Fairness

`AgentJobs`: the worker loops for as long as the process lives (claim, start, end), every handler ends
one way or the other because `_run` catches its exceptions, a transaction that began ends, and time
passes. `ReplyBurst`: a request that was accepted runs on (weak fairness of its own steps: FastAPI runs
the handler to its end), and an unrenewed lease runs out. `MemoryRun`: a pending flush job is started
and reports, a run's awaits end (weak fairness of its steps as a whole, so a failure may always take
their place), and a dead run's lease runs out. `Fanout`: each instance's reader reads and pushes
(`_poll_loop` runs for as long as the process does, and survives errors); nobody has to publish.
`LiveChat`: a recovery that was asked for is answered and applied; `RecoveryFails` may always take its
place. `MatchHosting`: a request and a run go on, and a row that is due again and again is claimed some
day: strong fairness of `Begin`, because a worker that takes the other job disables it for a while, and
justified by `AgentJobs`, whose `OwedIsServed` is the same promise from the poll loop's weak fairness.
Nothing is assumed of users, callers, hosting jobs, deletions, connections or crashes. What a crash
leaves is not fairly recovered: nobody replies to the messages of a dead replier until another message
or a Retry arrives, so `MessageIsServed` has the expired lease as one of its outcomes.

## What is proved

`AgentJobsProofs` proves, for any sets of jobs, workers and callers and any lease, backoff, limit
and bounds, under `BoundsAssumption` only (the numbers are naturals, `Handles` is a function):

- `TypeCorrect`: `Spec => []TypeOK`.
- `QueueInvariant`: `Spec => [](TypeOK /\ QueueInv)`, the inductive invariant.
- `ClaimsAreExclusive`: `Spec => []ExclusiveClaim`.
- `OwedWorkIsNotDone`: `Spec => []OwedIsNotDone`.

The argument. `ExclusiveClaim` is not inductive alone: two live claims on one job do not say which
of them the row belongs to. `LiveClaimHoldsRow` does: unless the row is `stray`, a live claim is the
one the row is locked for, with exactly its expiry time. A second claim needs `Due`, which needs the
row's `locked_until` to have passed, and then the first claim is not live. A row can be deleted and
its key inserted again while an old claim is out; `FreshIds` (an id is given once, and an insert in
flight has one nobody holds) keeps that claim from matching the new row. `OwedIsNotDone` needs
`UnmovedIsFresh`: a running claim whose `run_after` still matches began after the last schedule
call, so the run that marks the row done is one that serves the call. `EndedSteps` treats the three
ways a claim ends together; `LiveSurvives` and `LiveAfterClaim` say how a live claim survives a step
and a claim.

The theorems are about the code as it is, not as documented: the two exemptions `stray` and `missed`
are in the properties, and the cases 3 and 4 below show they are needed.

`MemoryRunProofs` proves, for any chats, jobs, tasks, deletions, threshold and number of mishaps,
under `MemoryAssumption` only (a run is about one chat, a chat has one flush job, `Nobody` is no
run, the bounds are naturals):

- `TypeCorrect`: `Spec => []TypeOK`. It has content: cursor and proof stay within their list, and
  the user has one lease. It needs `RunBounds`: the list a run holds is no longer than the chat, and
  its one batch ends within the chat, because no action shortens a list.
- `NoLineLost`: `Spec => CardKept`. By `LeaseHeld` (a run at work owns the lease, while `overlap` is
  false) there is one run at work, so the card that it read is still the card (`CardRead`) when it
  writes it back. The steps that take a lease away are the release, expiry of a dead owner's, an
  overrun and a deletion; the last two set `overlap`.
- `NothingSkipped`: `Spec => []NoneSkipped`. What stands before a cursor is accounted for
  (`PastCursor`). To save a cursor keeps that when its batch leaves out nothing up to its end
  (`Covers`). Picking a batch gives `Covers` because the list is still in place (`InPlace`) from
  the cursor to the end of the batch, and `PastCursor` covers the rest. Both survive what happens to
  the chat later, since a message can only sink (`Sinks`): one that is above a position after a
  step was above it before. The exception is a list that waits for its run while a reply lands in
  the middle, which is `slid`; case 8 below shows that the exception is needed.
- `DeletedForgotten` and `NothingLearntTwice`: `Spec => []DeletedIsForgotten` and `Spec => []LearntOnce`.
  Both rest on `PlaceStep`, which says where messages are. What the user wrote is in its chat once
  (`Spots`); what a run's list or batch shows at a place stands there or below (`Lasts`), and at that
  very place unless it may be learnt again (`Stays`). A step is `Quiet` (nothing is deleted) or a step
  of a deletion, and a quiet step only moves messages down (`Moves`).
  - For a deletion, `ForgetInv` gives every proof, and every message that a run has read and not
    applied, one of the four excuses of the property (`Excused`). The third step of the deletion looks
    for proof at the places of the chat it blanked, and `Spots` says that what it blanked is at no
    other place. Only an apply makes proof, of messages the run had read, so `ReadWell` has to
    follow them from the reading on; a deletion of what such a run has read sets `caught`.
  - For a second learning, `OnceInv` says that a message once learnt is before the cursor, or with a run
    that is about to move the cursor past it (`Settled`). A batch that is put to the model is
    news (`News`), because it was picked after the cursor, which the claim compared again. Between the
    claim and the saved cursor nobody else can apply the batch, because both would own the
    user's one lease (`Holds`, `Alone`). A run that loses its lease or the cursor's move leaves its
    messages in `again`.

`ChannelLinksProofs` proves, for any accounts, chats, codes and deliveries, under
`ChannelLinksAssumption` only (a code has an owner, messages are numbered from 1, no code is a text
or a stop word):

- `TypeCorrect`: `Spec => []TypeOK`, with one link per account and per chat.
- `LinksInvariant`: `Spec => []LinkInv`, the inductive invariant.
- `MessagesAreSavedOnce`, `TextsAreNotLost`, `CodesEndWithTheirUse`: `Spec => []` of `SavedOnce`,
  `LostOnlyOnTheWay` and `CodeEndsWithItsUse`.

`LinkInv` has five parts. `Shape` is the types. `Linked`: row numbers of links are never reused, so a
handler that kept a number knows whether it is still the same link. `Coded`: a code that was written
in a chat had been given, and one that connected a chat is gone from the table for good, since only
`GiveCode` puts it there, once; this is `CodeEndsWithItsUse`. `Kept`: who is past the claim is, on
WhatsApp, the only one of its number, and on Telegram no newer than its link's last update and the
only one of its number on that link; this is `SavedOnce`. `Dropped`: what was dropped was dropped for
one that went on, on WhatsApp the same message, on Telegram an update at least as new on the link
that is there; this is `LostOnlyOnTheWay`.

`VibeCardProofs` proves all four properties of `vibe_card`, for any areas, messages, tabs, runs,
deletions, attempts and bounds, under `VibeAssumption` only (tabs, runs and deletions are different
writers, the bounds are naturals):

- `TypeCorrect`, `RemovedCorrect`, `ExtrasCorrect`: `Spec => []` of `TypeOK`, `RemovedStaysGone` and
  `ExtrasStand`, from `CardInv`. A removal not made up for is marked with its time (`RemovalMarked`),
  and the merge lets no older proof past a mark. The row is replaced only while it reads as it was
  read, so what a write does not change is what is there. While the user's own intro stands
  unchallenged nobody has another one in hand (`OwnUnchallenged`), since a visit asks for one only
  when the card has none of the user's.
- `ProofCorrect`: `Spec => []ProofStands`, from `ProofInv`. A deleted message that is not excused is
  in one of three states: no line and no writer has it (`Lost`), which lasts, because nobody who reads
  the chats finds it again; its deletion has yet to look for it (`Pending`); or its deletion has
  seen every area that it is on or can be brought back to (`Covers`). The write then clears them:
  a line that shows carries no mark, so what is left of its proof is not filtered away.

`RealtimeProofs` proves of `Fanout`, for any instances, sockets, chats, calls and batch limit, under
`FanoutAssumption` only (a socket has one instance, a call one instance, chat and number of events):

- `TypeCorrect` and `NothingSkippedAhead`: `Spec => []` of `TypeOK` and `NothingAheadIsSkipped`.
- `DeliveryRefined`: `Spec => DeliversAsPromised`, that `Fanout` implements `Delivery`.

`FanInv` has five parts. `Shape` is the types. `Logged`: the rows of one call are of events it has
left behind, and have their ids in the order of its events, since a call takes its next id after the
last one is done with. `Ordered`: a batch is ahead of the mark, in the order of the log. `Given`: what
a socket has came from a call on its own instance, or from a row at or behind its reader's mark; so
the row being pushed, which is past the mark, is a later event of its call than all the socket has,
and the local path and the log never meet, because a reader leaves out its instance's rows. `Watched`:
a row that is waited for has arrived, or is in the batch or past all of it. The events a call has
published are read off its program counter; an append changes nothing of them (`AppendIsQuiet`).

Of `LiveChat` it proves all the safety of `live_chat`, for any messages, under `LiveChatAssumption`
only (a client id is given by one tab, so it is nobody else's message; settings are no message):

- `ChatTypeCorrect`, `TabShowsAPrefix`, `BubbleNeverVanishes`: `ChatSpec => []` of `ChatTypeOK`,
  `ShowsAPrefix` and `OwnBubbleKept`.

`ShowsAPrefix` speaks of a tab that has nothing on its way; the invariant has to say what holds before.
`Typing` is what always holds: an event, an answer or a recovered tail says of each place what stood
there when it was read (`Reads`), and what stands there still if the chat has not shifted since. `Kept`
is what holds while nothing excuses the tab. It is told by what will set a place right (`Cure`): an
event of a moved message that says what is there, a recovery asked for from before it, or one answered
with what is there. A place is `Covered` when it shows what it should or has a cure; a message is `Safe`
when its own place is covered. What the tab shows, every place and every message of it, is covered and
safe (`KnownIn`), and so is each of the user's bubbles that has left the bubbles (`Own`) and the message
that is being retried (`Held`). What is on its way may say what no longer stands there; then the message
it would put there is safe where it belongs, and either the tab has seen a newer list, so that applying
it would be `crossed`, or a newer list is to come to that place (`Fits`). This is what keeps an old
event harmless: the place it spoils has a cure, and the message it shows twice is gone when the cure
comes. Cures are compared by the number of shifts their reader had seen, which is all that is needed of
the chat's history. `Gap` says that what the tab has counted and does not show is asked for or answered.
A saved message only adds a place; a reply put above others publishes an event for each place it moves
(`MovedAreSent`), which is a cure for all of them. With nothing on its way there is no cure, so what is
covered is shown.

`ReplyBurstProofs` proves all safety properties of `reply_burst` and `reply_burst_shared`, for any
requests, hosting jobs, deletions and bounds, under `ChatAssumption` only (a Retry is no client id, a
hosting job no request, each request has what it sends, the bounds are naturals):

- `TypeCorrect`, `NoReplyHides`, `ClosedServes`, `NobodyAnswersTwice`: `Spec => []` of `TypeOK`,
  `NoReplyHidesAMessage`, `ClosedMeansServed` and `AnsweredOnce`.

All four follow from one invariant, `BurstInv`. Call a message *known* when it was answered or was
left behind at a step where the code leaves it (`unserved`), and *open* when it is counted, stands in
the list and is not known. `Lists`: in the chat, and in every list that a deletion has read and will
write back, a message is there once, and one that something of Omi's is below is known; that is
`NoReplyHidesAMessage`. `Drafts`: a draft reads every message down to its last one that is not known,
so that the reply that goes in below that one passes nothing unread. `Lease`: a request that
keeps the lease has it, and has seen no more arrivals than there were. `Served`: an open message is
with a request that has still to join, or with the replier, who has still to draft, has it in the
draft, or will find on its last look that more has arrived; with no row and nobody at work there is
none left, which is `ClosedMeansServed`. `Once`: while no lease was lost under its holder and no old
list was written back (`twice`), who is at a reply has the lease, what waits in the list was not
answered, and no draft reads what was. What an edit of the list does is said once, for any edit: a
list comes from another by a map of positions (`Comes`) that keeps the order, the messages and what
is below them, and may quiet only those up to one place (`NewlyQuiet`); a saved message, a reply,
a closed message, a hosting message and a blank are instances of it, and each part of the invariant
is carried along such a map (`ListsKept`, `OpensComes`, `QuietStays`).

`MatchHostingProofs` proves, for any users, jobs, operators, workers and bounds, under
`MatchHostingAssumption` only (what is scheduled are one or more different jobs, an attempt is allowed,
the bounds are naturals):

- `TypeCorrect`, `NothingNotedIsLost`, `NobodyIsIntroducedTwice`: `Spec => []` of `TypeOK`,
  `NotesKept` and `IntroducedOnce`.

`TypeOK` bounds the attempts of a job by `MaxAttempts + faults`, which takes an account of who may
still add one (`Counted`): the runs at a job are there by its row or by a fault, and the attempts made,
the runs whose failure would be tried again and the attempt the row owes are together at most that.
`Single`: while nothing excuses it an introduction has one run, whose row is running and was not
scheduled again; once it has spoken the run is there until the row is done, and after that nobody
claims it. This is `IntroducedOnce`. `NotesKept` is inductive given the types: each writer reads the
plan it changes under the row's lock.

`ProactiveProofs` proves all three properties of `proactive`, for any chats, promises, plans, topics,
runs and limits, under `ProactiveAssumption` only (`Nothing` is none of them, a promise is no plan,
what is due has a time, the numbers are naturals):

- `TypeCorrect`, `RaisedAtMostOnce`: `Spec => []` of `TypeOK` and `RaisedOnce`;
  `WelcomeWhereItLands`: `Spec => NudgeIsWelcome`, an action property.

`RaisedOnce` does not say why a second run stays silent. `Once` does, for each promise or plan that
nothing excuses: what was raised is marked, or a run has it to mark (`Told`), so nobody decides on it
again; a run that decided on it before finds its chat longer than it read it, and cannot deliver
(`Behind`); and this suffices because all runs at it are in one chat (`Together`), which is what the
two excuses of case 13 are about. A nudge is welcome where it lands because a run that is not cut finds
its chat beginning with what it read (`Fresh`): others append, or blank, which leaves no nudge that
was not there and no user's message blank; and the code delivers only where that beginning is all.

The proof modules treat a step by its effect (`EndedSteps`; `RunMoves`; `Turned`; `Rests` and
`Follows`), so that an invariant is checked against a few kinds of step instead of every action.

Every invariant and every action property of the runs is proved. Only model-checked are the liveness
properties `OwedIsServed`, `ChatIsFreedAgain`, `MessageIsServed`, `MessageIsLearnt`, `RowArrives`,
`GapIsFilled` and `IntroducedIsTold`: `WF_` and `SF_` need `ENABLED`, which is beyond the prover.

## What the checks found

Where the code does not do what it or its documentation says, the property that says so has a named
exception, as narrow as the code allows; the passing runs say what holds apart from it:

1. `memory_run/service.py:316`: a memory run that read a message before it was deleted applies its
   batch after the deletion, with proof that quotes the message, against `message_deletion.py:8-9`
   ("What points at a message is removed exactly"). Nothing that the deletion resets (lease, cursor,
   applications) is checked by the application. (`caught` in `DeletedIsForgotten`, which also leaves
   out proof whose position a reply has moved.)
2. `routes/vibe.py:158`: a visit to the profile that found no intro of the user's own has one
   written, waits up to 25 seconds for it and saves it over what the user saved meanwhile, against
   `routes/vibe.py:116`, "An intro the user wrote themselves is never replaced." (`own = "raced"` in
   `ExtrasStand`.)

3. `worker.py:98`: a batch of up to ten jobs shares one lease of 300 seconds and runs serially, so a
   late job runs past its lease and a second worker runs it at the same time, against
   `worker.py:3-5`, "without running a job twice". (`stray` in `ExclusiveClaim`.)
4. `agent_jobs.py:44`: a schedule call that reads a running row and writes after that run finished
   moves the time of a `done` row: the work is lost, against `agent_jobs.py:38-39`, "leaves it pending
   for another pass". (`missed` in `OwedIsNotDone`.)
5. `reply_bursts.py:96`: a message counted between the marking of failed messages and the release
   of the lease has no replier and no Retry, against `docs/progress.md:164`, "the burst closes only
   when every counted message is answered". (`unserved` in `ClosedMeansServed`, as the next three.)
6. `hosting.py:326`: a message of Omi's that lands below the user's before the draft reads the chat
   passes for the answer to it.
7. `message_deletion.py:84`: a deletion writes back the list it read, over what was saved since,
   against `conversations.py:189-191`, "nothing saved in between is lost". And `chat_service.py:496`
   drops the whole reply when the last message of the burst was deleted meanwhile, so the messages
   before it stay unanswered.
8. `idle.py:95`: a flush job reads the list before its run reads the cursor; when another run and a
   reply in the middle of the list come in between, a message is passed over for good, against
   `docs/progress.md:33`. It takes an instance that stalls between two statements for as long as a
   run lasts. (`slid` in `NoneSkipped`.)
9. `storage/realtime_events.py:33`: a row that commits behind a reader's mark is lost to it, since
   ids are given out before the commit. (`NothingAheadIsSkipped` is about the rows ahead of it.)
10. `chat_service.py:521`: the events of a write are published after its transaction, so those of a
   saved message may come after those of the reply that was put above it. The tab then writes the
   message over the reply, and shows it twice and the reply not at all, against
   `messageQueue.ts:3-5`, "a bubble never vanishes and never shows twice". No failure is needed.
   (`crossed` in `ShowsAPrefix`; the same excuse covers an old answer or recovery applied late.)
   The other excuses: a lost event of a reply above a later message leaves no gap to notice
   (`missed`); a recovery that fails is not repeated (`gaveUp`); one that was read before an event
   the tab then drops does not bring it (`overrun`); after a failed reply the tab places its bubble
   at the end of what it knows (`guessed`); and an older list may be put back (`replaced`, case 16).
11. `channel_links.py:59`: two handlers that read a code together both connect their chat; the later
    one wins. Telegram: an update that arrives after a newer one is dropped, and a link made anew
    forgets what was handled on the old one.
12. `hosting.py:116`: two operators, or an operator and a status set by hand in between, introduce a
    pair again over an outcome already recorded (`raced`). A request that dies after
    `hosting.py:127` leaves a pair introduced and never told (`Undone`). A run that spoke and failed
    or died before its row was ended introduces again (`repeated`). And the pair's status is not read
    again after the model call, so a message may go out to a pair that was declined meanwhile.
13. `proactive/service.py:243`: two passes in two chats, or one that is slow, fails or dies between
    delivery and mark, raise a promise or a plan twice, against `service.py:237`, "so it is never
    raised twice", and `policy.py:122`, "At most one plan follow-up a day, across all chats". A
    deletion that saves over a message makes the chat as long as it was, which is all that
    `service.py:426` compares. (`excused`, `cut`.)
14. `vibe_cards.py:145`: a deletion finds a message's proof in one reading of the card, drops it in a
   later one, and a run or another deletion that had the message in hand brings it back afterwards or
   puts it elsewhere in between, against `docs/progress.md:80`. (`late` in `ProofStands`.) And
   `vibe_cards.py:230` gives up silently, while the request answers that the choice is saved
   (`unsaved` in `ExtrasStand`).

15. `messageQueue.ts:36`: while something is on its way, a bubble may be off the screen and another
   one twice on it. With a later reply's events, the first is applied over the bubble's place and the
   one that would put the bubble a place lower is lost when the socket breaks; until the
   recovery after the reconnection is served nothing on its way carries the bubble, against
   `messageQueue.ts:5` as above. It shows with one own message, two from elsewhere and two replies,
   more than the run has; it was found in the search for the inductive invariant of `LiveChat`.
   It is set right by the recovery. (`OwnBubbleKept` counts what the tab has asked for.)

16. `ChatPage.tsx:769`, `:780` and `:854`: a Retry of a saved message that the server refuses or turns
   away puts the list of the click back, and new settings show the list of their answer as it is, while
   the tab's last sequence is past what came meanwhile. Messages saved and bubbles sent in between
   vanish, and as the tab sees no gap it asks for nothing until the chat is opened again or the
   next recovery from before them, against `messageQueue.ts:3-5` as above. (`replaced` in `ShowsAPrefix`
   and `OwnBubbleKept`.)

Some hazards in `PROJECT.json` are of just such a case; their notes say which part no property covers.

## What is not modelled, and why

- Threads, self notes and open questions, retrieval and prompt assembly: what a model
  writes and how it is ranked. The evaluation suites (`agent/evals/`), the admin views, the archive
  (`_archive/`) and the migrations are no part of the running chat.
- Of the vibe card: milestones and what is announced of them, the limits on lines and proof, the
  recheck script, the clock's skew between a message's time and a removal's; a deleted chat, which
  goes the way of its messages, and the pruning of older ones.
- Presence, heartbeats, tickets and typing signals of the realtime connection; in `Proactive` what
  depends on them (`hand_over` to the instance with the socket), story parts, the user's switch.
- How promises, plans and topics come about, and pools, joining and proposing in `MatchHosting`.
- In `LiveChat`: deletions, reactions, temporary chats, messages without a client id, a second change of
  settings while one is open, and a tab that opens or changes chats, which starts over.
- The purges by age, but for the jobs': claims of WhatsApp messages after two days
  (`storage/retention.py:65`), so there `SavedOnce` holds for deliveries of one message less than that
  apart; burst rows after a day; rows of the event log after an hour, so a reader that stalls for longer
  misses them; old failure counts of batches.
- The channel chats' differences in saving (no `client_id` check, failed messages stay failed), the
  daily quota, the user's reaction edit, learning after a reply: left out of `ReplyBurst`. The second
  failure of `mark_unanswered_failed` itself is left out too: it ends as `Cancel` does.
- The length of the quiet window: any wait may end at any time.
- What a job's handler does, beyond how it ends, in `AgentJobs`.
- The daily rebuild of the user card, which writes it without the user's lease; the reading of
  uploads, which holds the lease for a whole chat; the maintenance reset of a cursor. Proof by
  position after a reply was inserted above it.
- Several chats in `ReplyBurst`: a burst, a list and their locks are per chat.
- Isolation anomalies below a statement: every statement sees committed rows, a row lock is held to
  the end of its transaction, as PostgreSQL's default gives.

## Plan

Done: the queue, the memory run, the links, the vibe card, the reply bursts, hosting, proactive messages,
realtime delivery with its abstract specification and the web chat's list, all with their proofs.
Next:

1. Abstract specifications: an at-least-once queue that `AgentJobs` implements and `MatchHosting`
   could be composed with, and a reply promise that `ReplyBurst` implements while no exemption applies.
2. The second writers of `MemoryRun`: the card rebuild, and positions after an insertion.
3. Presence and the hand-over of a greeting job between instances.
