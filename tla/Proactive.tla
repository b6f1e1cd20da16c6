----------------------------- MODULE Proactive -----------------------------
(***************************************************************************)
(* Omi speaking first to one user: a pass over the chats that are watched, *)
(* or over the messaging apps of a user who is away, and the greeting job  *)
(* of a user who comes back.                                               *)
(*                                                                         *)
(*   src/src/agent/proactive/service.py  the passes, the job, delivery     *)
(*   src/src/agent/proactive/policy.py   when, and about what              *)
(*   src/src/agent/proactive/away.py     users who are away                *)
(*                                                                         *)
(* A chat is a list of messages with the time they carry.  A pass reads    *)
(* the clock once, and then, chat by chat, decides from what is stored,    *)
(* waits for the model, appends if the chat is as long as it was, and      *)
(* marks what it raised.  Several instances run passes at once; nothing    *)
(* but the length of the chat is compared.  Whether the deployment and the *)
(* user want Omi to speak first, and which hours are daytime, is left open.*)
(***************************************************************************)
EXTENDS Integers, Sequences, FiniteSets, FiniteSetsExt, SequencesExt

CONSTANTS
    Chats,         \* the user's chats
    Channels,      \* those on a messaging app
    Runs,          \* passes and jobs that can be at work at once
    Promises, Events, Topics,
    Due,           \* Due[p]: when promise p is due; Due[e]: when plan e may be asked about
    MinSilence, SessionGap, Window, MaxPerWindow,  \* ProactiveLimits, session_gap
    EventGap,      \* EVENT_FOLLOW_UP_GAP
    Late,          \* how late a promise or a plan may still be raised
    MaxTime,       \* bound: the clock
    MaxWrites,     \* bound: messages the user writes
    MaxMishaps,    \* bound: deletions of a message, errors, deaths of a process
    Nothing

ASSUME ProactiveAssumption ==
    /\ Channels \subseteq Chats /\ Nothing \notin Chats \union Promises \union Events \union Topics
    /\ Promises \intersect Events = {}
    /\ Due \in [Promises \union Events -> 0..MaxTime]
    /\ {MinSilence, SessionGap, Window, MaxPerWindow, EventGap, Late} \subseteq Nat
    /\ {MaxTime, MaxWrites, MaxMishaps} \subseteq Nat

VARIABLES
    now,
    chat,      \* chat[c]: its messages
    kept,      \* the promises that are done
    asked,     \* asked[e]: when plan e was followed up; -1 is never
    run,       \* run[r]
    erasing,   \* the deletions at work: the list each will save
    writes, mishaps,
    \* history, read by the properties only
    raised,    \* raised[x]: how often promise or plan x was raised, 2 for more
    excused    \* the promises and plans that may be raised twice

world == <<now, chat, erasing, writes>>
marks == <<kept, asked>>
history == <<raised, excused>>
vars == <<world, marks, run, mishaps, history>>

-----------------------------------------------------------------------------
Things == Promises \union Events

\* Omi's replies are left out: like what the user writes they lengthen the chat.
\* A nudge that is deleted is blank, but keeps its place and its time.
Message == [by: {"user", "nudge", "blank"}, at: 0..MaxTime, topic: Topics \union {Nothing}]

\* A run: what it is, the time it read, the chats it has still to look at, and
\* what it is doing in one of them; "cut" (history): a deletion saved another list
\* over the one it read.
Idle == [mode |-> "idle", at |-> 0, todo |-> {}, step |-> "looking", chat |-> Nothing,
         kind |-> "none", promise |-> Nothing, event |-> Nothing, topic |-> Nothing,
         count |-> 0, cut |-> FALSE]

Raises(r, x) == x \in {run[r].promise, run[r].event}

TypeOK ==
    /\ now \in 0..MaxTime
    /\ \A c \in Chats : chat[c] \in Seq(Message)
    /\ \A e \in erasing : e.chat \in Chats /\ e.list \in Seq(Message)
    /\ kept \subseteq Promises /\ asked \in [Events -> -1..MaxTime]
    /\ \A r \in Runs :
          /\ run[r].mode \in {"idle", "live", "away", "job"}
          /\ run[r].at <= now /\ run[r].todo \subseteq Chats
          /\ run[r].step \in {"looking", "writing", "said", "resolved"}
          /\ run[r].kind \in {"none", "greeting", "promise", "event", "topic"}
          /\ run[r].kind # "none" <=> run[r].step # "looking"
          /\ run[r].kind = "promise" => run[r].promise \in Promises
          /\ run[r].kind = "event" => run[r].event \in Events
    /\ raised \in [Things -> 0..2] /\ excused \subseteq Things

Init ==
    /\ now = 0
    /\ chat = [c \in Chats |-> << [by |-> "user", at |-> 0, topic |-> Nothing] >>]
    /\ erasing = {} /\ kept = {} /\ asked = [e \in Events |-> -1]
    /\ run = [r \in Runs |-> Idle]
    /\ writes = 0 /\ mishaps = 0
    /\ raised = [x \in Things |-> 0] /\ excused = {}

-----------------------------------------------------------------------------
(* policy.py                                                               *)

Nudges(list) == {k \in DOMAIN list : list[k].by = "nudge"}

Recent(list, at) == Cardinality({k \in Nudges(list) : at - list[k].at < Window})

\* The user has answered the last nudge.
Answered(list) ==
    Nudges(list) # {} =>
        \E k \in DOMAIN list : list[k].by = "user" /\ k > Max(Nudges(list))

HasUser(list) == \E k \in DOMAIN list : list[k].by = "user"

\* nudge_block_reason is None
MayNudge(list, at) ==
    /\ HasUser(list) /\ at - Last(list).at >= MinSilence
    /\ Answered(list) /\ Recent(list, at) < MaxPerWindow

\* return_greeting_block_reason is None
MayGreet(list, at) ==
    /\ HasUser(list) /\ at - Last(list).at >= SessionGap
    /\ Last(list).by # "nudge" /\ Recent(list, at) < MaxPerWindow

InTime(x, at) == Due[x] <= at /\ at <= Due[x] + Late

Oldest(S) == IF S = {} THEN Nothing ELSE CHOOSE x \in S : \A y \in S : Due[x] <= Due[y]

\* Mutant of DuePromise: a promise that was kept comes up again.
AnyPromise(at) == Oldest({p \in Promises : InTime(p, at)})

DuePromise(at) == Oldest({p \in Promises \ kept : InTime(p, at)})

\* One plan a day, and each plan once.
DueEvent(at) ==
    IF \E e \in Events : asked[e] # -1 /\ at - asked[e] < EventGap THEN Nothing
    ELSE Oldest({e \in Events : asked[e] = -1 /\ InTime(e, at)})

\* pick_thread: the open topics that no nudge of this chat was about.
FreshTopics(list) == Topics \ {list[k].topic : k \in Nudges(list)}

-----------------------------------------------------------------------------
(* The world around: the clock and the user.                               *)

Tick ==
    /\ now < MaxTime /\ now' = now + 1
    /\ UNCHANGED <<chat, erasing, writes, marks, run, mishaps, history>>

Added(c, by, at, topic) ==
    chat' = [chat EXCEPT ![c] = Append(@, [by |-> by, at |-> at, topic |-> topic])]

Write(c) ==
    /\ writes < MaxWrites /\ writes' = writes + 1
    /\ Added(c, "user", now, Nothing)
    /\ UNCHANGED <<now, erasing, marks, run, mishaps, history>>

\* The role and the time stay, and that it was a nudge is forgotten.
Blanked(m) == IF m.by = "nudge" THEN [m EXCEPT !.by = "blank", !.topic = Nothing] ELSE m

\* delete_conversation_messages reads the whole list ...
EraseReads(c, k) ==
    /\ mishaps < MaxMishaps /\ mishaps' = mishaps + 1
    /\ erasing' = erasing \union {[chat |-> c, list |-> [chat[c] EXCEPT ![k] = Blanked(@)]]}
    /\ UNCHANGED <<now, chat, writes, marks, run, history>>

\* It is the chat as it is, but for what is blanked.
OnlyBlanks(list, new) ==
    Len(new) = Len(list) /\ \A k \in DOMAIN new : new[k] \in {list[k], Blanked(list[k])}

\* ... and saves it, over what was added meanwhile, or deleted.
EraseSaves(e) ==
    LET loses == Len(e.list) < Len(chat[e.chat])
        cuts == ~OnlyBlanks(chat[e.chat], e.list)
    IN
    /\ chat' = [chat EXCEPT ![e.chat] = e.list]
    /\ erasing' = erasing \ {e}
    /\ run' = [r \in Runs |-> IF cuts /\ run[r].chat = e.chat THEN [run[r] EXCEPT !.cut = TRUE] ELSE run[r]]
    /\ excused' = excused \union {x \in Things : loses /\ \E r \in Runs : run[r].chat = e.chat /\ Raises(r, x)}
    /\ UNCHANGED <<now, writes, marks, mishaps, raised>>

-----------------------------------------------------------------------------
(* A run begins: it reads the clock and what it has to look at.            *)

Begin(r, mode, todo) ==
    /\ run[r].mode = "idle" /\ todo # {}
    /\ run' = [run EXCEPT ![r] = [Idle EXCEPT !.mode = mode, !.at = now, !.todo = todo]]
    /\ UNCHANGED <<world, marks, mishaps, history>>

\* run_proactive_pass: the chats watched here; of a user who watches none, the
\* chats on messaging apps.
StartPass(r, live) == IF live = {} THEN Begin(r, "away", Channels) ELSE Begin(r, "live", live)

\* run_return_greeting_job, in a chat that is watched here.
StartGreeting(r, c) == Begin(r, "job", {c})

Plan(kind, p, e, t) == [kind |-> kind, promise |-> p, event |-> e, topic |-> t]

\* nudge_conversation: a promise before a plan before a topic.
Nudge(list, at) ==
    LET promise == DuePromise(at)
        event == DueEvent(at) IN
    IF promise # Nothing THEN {Plan("promise", promise, Nothing, Nothing)}
    ELSE IF event # Nothing THEN {Plan("event", Nothing, event, Nothing)}
    ELSE {Plan("topic", Nothing, Nothing, t) : t \in FreshTopics(list)}

\* What the run would say in this chat, if anything: _nudge, nudge_away,
\* greet_on_return.  A user who is away after a long gap is left alone.
Would(r, c) ==
    LET at == run[r].at IN
    IF MayGreet(chat[c], at)
    THEN IF run[r].mode = "away" THEN {}
         ELSE {Plan("greeting", DuePromise(at), DueEvent(at), Nothing)}
    ELSE IF run[r].mode = "job" \/ ~MayNudge(chat[c], at) THEN {}
         ELSE Nudge(chat[c], at)

\* Another run is at x in another chat, or has said it and not marked it yet.
AtWork(r, c, x) ==
    \E q \in Runs \ {r} : x # Nothing /\ Raises(q, x) /\ (run[q].chat # c \/ run[q].step # "writing")

\* Run u, at work on what it would say in chat c.
Speaking(u, c, plan) ==
    [u EXCEPT !.todo = @ \ {c}, !.step = "writing", !.chat = c, !.kind = plan.kind,
              !.promise = plan.promise, !.event = plan.event, !.topic = plan.topic,
              !.count = Len(chat[c])]

\* It decides to speak, and the model writes.
Decide(r, c) ==
    /\ run[r].step = "looking" /\ c \in run[r].todo
    /\ \E plan \in Would(r, c) :
        /\ run' = [run EXCEPT ![r] = Speaking(run[r], c, plan)]
        /\ excused' = excused \union {x \in {plan.promise, plan.event} : AtWork(r, c, x)}
    /\ UNCHANGED <<world, marks, mishaps, raised>>

\* The run goes on with the chats that are left, or is over.
Goes(r, left) ==
    run' = [run EXCEPT ![r] = IF left = {} THEN Idle
                              ELSE [Idle EXCEPT !.mode = run[r].mode, !.at = run[r].at, !.todo = left]]

GoesOn(r) == Goes(r, run[r].todo)

\* It has nothing to say in this chat.
PassOver(r, c) ==
    /\ run[r].step = "looking" /\ c \in run[r].todo
    /\ Would(r, c) = {}
    /\ Goes(r, run[r].todo \ {c})
    /\ UNCHANGED <<world, marks, mishaps, history>>

-----------------------------------------------------------------------------
(* The model has answered.                                                 *)

\* SKIP: a plan the model would not ask about is marked all the same.
Declines(r) ==
    /\ run[r].step = "writing"
    /\ asked' = IF run[r].kind = "event" THEN [asked EXCEPT ![run[r].event] = run[r].at] ELSE asked
    /\ GoesOn(r)
    /\ UNCHANGED <<world, kept, mishaps, history>>

\* Mutant of Unmoved: the chat is not compared with what the run read.
UnmovedAnyway(r) == TRUE

\* deliver_messages compares the length.
Unmoved(r) == Len(chat[run[r].chat]) = run[r].count

Deliver(r) ==
    /\ run[r].step = "writing" /\ Unmoved(r)
    /\ Added(run[r].chat, "nudge", run[r].at, run[r].topic)
    /\ run' = [run EXCEPT ![r].step = "said"]
    /\ raised' = [x \in Things |-> IF Raises(r, x) THEN Min({raised[x] + 1, 2}) ELSE raised[x]]
    /\ UNCHANGED <<now, erasing, writes, marks, mishaps, excused>>

MovedOn(r) ==
    /\ run[r].step = "writing" /\ ~Unmoved(r)
    /\ GoesOn(r)
    /\ UNCHANGED <<world, marks, mishaps, history>>

\* Mutant of Resolved: a message that raised no promise marks one all the same.
ResolvedAlways(r) == kept \union {run[r].promise}

Resolved(r) == kept \union ({run[r].promise} \ {Nothing})

\* _deliver_keeping_promise marks the promise ...
Resolve(r) ==
    /\ run[r].step = "said"
    /\ kept' = Resolved(r)
    /\ run' = [run EXCEPT ![r].step = "resolved"]
    /\ UNCHANGED <<world, asked, mishaps, history>>

\* ... and mark_agent_memory_followed_up the plan.
MarkEvent(r) ==
    /\ run[r].step = "resolved"
    /\ asked' = IF run[r].event = Nothing THEN asked ELSE [asked EXCEPT ![run[r].event] = run[r].at]
    /\ GoesOn(r)
    /\ UNCHANGED <<world, kept, mishaps, history>>

\* What the run has said and not marked.
Unmarked(r) ==
    {x \in Things : Raises(r, x) /\ (run[r].step = "said" \/ (run[r].step = "resolved" /\ x \in Events))}

\* The model, the push or the channel raises: the pass goes on with the next chat.
Errs(r) ==
    /\ run[r].step # "looking" /\ mishaps < MaxMishaps
    /\ mishaps' = mishaps + 1
    /\ excused' = excused \union Unmarked(r)
    /\ GoesOn(r)
    /\ UNCHANGED <<world, marks, raised>>

Die(r) ==
    /\ run[r].mode # "idle" /\ mishaps < MaxMishaps
    /\ mishaps' = mishaps + 1
    /\ excused' = excused \union Unmarked(r)
    /\ run' = [run EXCEPT ![r] = Idle]
    /\ UNCHANGED <<world, marks, raised>>

-----------------------------------------------------------------------------
Next ==
    \/ Tick
    \/ \E c \in Chats : Write(c) \/ \E k \in DOMAIN chat[c] : EraseReads(c, k)
    \/ \E e \in erasing : EraseSaves(e)
    \/ \E r \in Runs :
          \/ \E live \in SUBSET Chats : StartPass(r, live)
          \/ \E c \in Chats : StartGreeting(r, c) \/ Decide(r, c) \/ PassOver(r, c)
          \/ Declines(r) \/ Deliver(r) \/ MovedOn(r)
          \/ Resolve(r) \/ MarkEvent(r) \/ Errs(r) \/ Die(r)

Spec == Init /\ [][Next]_vars

-----------------------------------------------------------------------------
\* "a promise raised in the message is marked done so it is never raised twice",
\* and a plan is asked about once, from whichever chat, pass or job: unless
\* runs in two chats are at it at once, one is slow, fails or dies before its
\* mark, or a deletion saved over a message, so that the chat looks as it was.
RaisedOnce == \A x \in Things \ excused : raised[x] <= 1

\* What made a nudge welcome when it was decided still holds where it lands, a
\* model call later: the last one is answered, the limit is not reached, the topic
\* was not reopened there before.  Only a deletion that saved over a message, or
\* over another deletion, meanwhile excuses it.
NudgeIsWelcome ==
    [][\A r \in Runs : Deliver(r) =>
          LET list == chat[run[r].chat] IN
          \/ run[r].cut
          \/ /\ Last(list).by # "nudge" /\ Recent(list, run[r].at) < MaxPerWindow
             /\ run[r].topic \in FreshTopics(list) \union {Nothing}
             /\ run[r].kind = "greeting" \/ Answered(list)]_vars
=============================================================================
