---------------------------- MODULE MatchHosting ----------------------------
(***************************************************************************)
(* One pair of people and Omi as their host: the operator introduces them, *)
(* jobs carry the introduction, the reminder and the check-ins to each of  *)
(* the two, and the two say what came of it.                               *)
(*                                                                         *)
(*   src/src/agent/matching/hosting.py       introduce_pair, the jobs      *)
(*   src/src/storage/match_pools.py          the pair and its plan         *)
(*   src/src/agent/tools/match_outcome.py    record_match_outcome          *)
(*   src/src/admin/match_routes.py           the operator                  *)
(*                                                                         *)
(* Pairs do not meet, so one is modelled.  The queue is AgentJobs, here    *)
(* with what it promises a handler: a row runs until a run ends it, again  *)
(* after a run that failed or died, twice at once when a run outlasts its  *)
(* lease, and once more when it is scheduled while it runs.  When a job is *)
(* due is left open.  A message is appended under deliver_messages' check  *)
(* that the chat has not moved on since it was read.                       *)
(***************************************************************************)
EXTENDS Integers, Sequences, FiniteSets, FiniteSetsExt, SequencesExt

CONSTANTS
    Users,       \* the two of the pair
    Scheduled,   \* the jobs introduce_pair queues, [user, kind], in its order
    Operators,   \* requests to introduce the pair
    Workers,     \* handler runs that can be under way at once
    Patches,     \* the statuses an operator sets by hand
    Says,        \* the outcomes the two may report
    Tries,       \* how often _host tries to append
    MaxAttempts, \* MAX_ATTEMPTS of a job
    MaxWrites,   \* bound: messages a user writes
    MaxPatches,  \* bound: statuses set by hand
    MaxFaults    \* bound: deaths of a process, and runs past their lease

Outcomes == {"met", "no_show", "declined", "still_talking"}
Closed == {"declined", "no_show"}
Statuses == Outcomes \union {"proposed", "introduced", "gone"}

ASSUME MatchHostingAssumption ==
    /\ Scheduled \in Seq([user : Users, kind : {"intro", "reminder", "check_in"}]) \ {<<>>}
    /\ IsInjective(Scheduled)
    /\ Patches \subseteq Statuses \ {"gone"} /\ Says \subseteq Outcomes
    /\ Tries \in Nat \ {0} /\ MaxAttempts \in Nat \ {0}
    /\ MaxWrites \in Nat /\ MaxPatches \in Nat /\ MaxFaults \in Nat

Jobs == ToSet(Scheduled)

VARIABLES
    status,    \* the pair's status; "gone" when an account deletion took it
    told,      \* plan.told: told[u] is "sent", "unsent" or "none"
    outcomes,  \* plan.outcomes
    operator,  \* operator[o]: where introduce_pair is
    row,       \* row[j]: the job's row
    attempts,  \* attempts[j] of the row
    run,       \* run[w]: the handler run w
    intros,    \* intros[u]: how often u was introduced to the other, 2 for more
    writes, patches, faults,
    \* history, read by the properties only
    noted,     \* the notes and outcomes written to the plan of an introduction
    raced,     \* a pair was introduced that was no longer proposed
    repeated   \* repeated[u]: why u may be introduced more than once

plan == <<told, outcomes>>
queue == <<row, attempts, run>>
bounds == <<writes, patches, faults>>
history == <<noted, raced, repeated>>
vars == <<status, plan, operator, queue, intros, bounds, history>>

-----------------------------------------------------------------------------
NoJob == [user |-> "none", kind |-> "none"]

\* A run: "moved" when its job was scheduled or retried since it was claimed,
\* "fresh" while the chat has not moved on since the run read it.
Idle == [job |-> NoJob, step |-> "idle", attempts |-> 0, moved |-> FALSE, fresh |-> TRUE, tries |-> 0]

Notes(t, o) == {<<u, t[u]>> : u \in {v \in Users : t[v] # "none"}} \union o

TypeOK ==
    /\ status \in Statuses
    /\ told \in [Users -> {"none", "sent", "unsent"}]
    /\ outcomes \subseteq Users \X Outcomes
    /\ \A o \in Operators : /\ operator[o].step \in {"idle", "checked", "scheduling", "over"}
                            /\ operator[o].next \in 1..(Len(Scheduled) + 1)
    /\ row \in [Jobs -> {"none", "pending", "running", "done", "failed"}]
    /\ attempts \in [Jobs -> 0..(MaxAttempts + MaxFaults)]
    /\ \A w \in Workers : /\ run[w] = Idle \/ run[w].job \in Jobs
                          /\ run[w].step \in {"idle", "writing", "said", "unsent", "noted"}
                          /\ run[w].tries \in 0..Tries
    /\ writes \in 0..MaxWrites /\ patches \in 0..MaxPatches /\ faults \in 0..MaxFaults

Init ==
    /\ status = "proposed" /\ told = [u \in Users |-> "none"] /\ outcomes = {}
    /\ operator = [o \in Operators |-> [step |-> "idle", next |-> 1]]
    /\ row = [j \in Jobs |-> "none"] /\ attempts = [j \in Jobs |-> 0]
    /\ run = [w \in Workers |-> Idle]
    /\ intros = [u \in Users |-> 0]
    /\ writes = 0 /\ patches = 0 /\ faults = 0
    /\ noted = {} /\ raced = FALSE /\ repeated = [u \in Users |-> FALSE]

-----------------------------------------------------------------------------
(* The operator.                                                           *)

\* introduce_pair: the status is checked ...
CheckProposed(o) ==
    /\ operator[o].step = "idle" /\ status = "proposed"
    /\ operator' = [operator EXCEPT ![o].step = "checked"]
    /\ UNCHANGED <<status, plan, queue, intros, bounds, history>>

\* ... and set with a new plan, whatever it is by now (set_match_pair_plan).
SetPlan(o) ==
    /\ operator[o].step = "checked"
    /\ IF status = "gone"
       THEN /\ operator' = [operator EXCEPT ![o].step = "over"]
            /\ UNCHANGED <<status, plan, history>>
       ELSE /\ operator' = [operator EXCEPT ![o].step = "scheduling"]
            /\ status' = "introduced"
            /\ told' = [u \in Users |-> "none"] /\ outcomes' = {}
            /\ noted' = IF status = "proposed" THEN {} ELSE noted
            /\ raced' = (raced \/ status # "proposed")
            /\ UNCHANGED repeated
    /\ UNCHANGED <<queue, intros, bounds>>

\* The runs of job j now hold a row whose run_after is another.
Moved(j) == [w \in Workers |-> IF run[w].job = j THEN [run[w] EXCEPT !.moved = TRUE] ELSE run[w]]

\* schedule_job: a new row, or the old one once more (AgentJobs!MovedRow).
Scheduling(j) ==
    /\ row' = [row EXCEPT ![j] = IF @ = "running" THEN @ ELSE "pending"]
    /\ attempts' = [attempts EXCEPT ![j] = IF row[j] \in {"done", "failed"} THEN 0 ELSE @]
    /\ run' = Moved(j)

ScheduleNext(o) ==
    /\ operator[o].step = "scheduling"
    /\ LET n == operator[o].next
           j == Scheduled[n] IN
       /\ Scheduling(j)
       /\ repeated' = [repeated EXCEPT ![j.user] = @ \/ (j.kind = "intro" /\ row[j] # "none")]
       /\ operator' = [operator EXCEPT ![o] = [step |-> IF n = Len(Scheduled) THEN "over" ELSE @.step,
                                               next |-> n + 1]]
    /\ UNCHANGED <<status, plan, intros, bounds, noted, raced>>

\* The request dies on the way; introduced already, it cannot be made again.
RequestDies(o) ==
    /\ operator[o].step = "scheduling" /\ faults < MaxFaults
    /\ operator' = [operator EXCEPT ![o].step = "over"]
    /\ faults' = faults + 1
    /\ UNCHANGED <<status, plan, queue, intros, writes, patches, noted, raced, repeated>>

\* PATCH /api/admin/pairs: any status, at any time.
Patch(s) ==
    /\ status # "gone" /\ patches < MaxPatches
    /\ status' = s /\ patches' = patches + 1
    /\ UNCHANGED <<plan, operator, queue, intros, writes, faults, noted, raced, repeated>>

\* delete_match_data_for_user, in an account deletion.
DeletePair ==
    /\ status # "gone"
    /\ status' = "gone"
    /\ UNCHANGED <<plan, operator, queue, intros, bounds, history>>

-----------------------------------------------------------------------------
(* The two people.                                                         *)

\* record_match_outcome, in a reply to a user Omi has told: the status is the
\* last thing either of them said.
RecordOutcome(u, s) ==
    /\ told[u] = "sent" /\ status \notin {"gone", "proposed"}
    /\ outcomes' = outcomes \union {<<u, s>>}
    /\ status' = s
    /\ noted' = noted \union {<<u, s>>}
    /\ UNCHANGED <<told, operator, queue, intros, bounds, raced, repeated>>

\* Someone said something in u's chat: who writes there has to read it again.
Moves(u) == [w \in Workers |-> IF run[w].job.user = u /\ run[w].step = "writing"
                               THEN [run[w] EXCEPT !.fresh = FALSE] ELSE run[w]]

Write(u) ==
    /\ writes < MaxWrites
    /\ writes' = writes + 1
    /\ run' = Moves(u)
    /\ UNCHANGED <<status, plan, operator, row, attempts, intros, patches, faults, history>>

-----------------------------------------------------------------------------
(* The jobs.                                                               *)

AtWork(j) == \E w \in Workers : run[w].job = j

\* Which statuses a job of this kind still speaks under.
Speaks(kind) == IF kind = "check_in" THEN Statuses \ (Closed \union {"gone"}) ELSE {"introduced"}

\* Mutant of Reclaims: a row whose run died is never taken over.
NeverReclaims(j) == FALSE

\* The lease of a row has run out and the run that had it is dead.
Reclaims(j) == row[j] = "running" /\ ~AtWork(j)

\* A row is claimed when it is due, when its run is dead, or (a fault) when its
\* run has outlasted the lease.
Claims(j) ==
    \/ (row[j] = "pending" \/ Reclaims(j)) /\ UNCHANGED <<faults, repeated>>
    \/ /\ row[j] = "running" /\ AtWork(j) /\ faults < MaxFaults
       /\ faults' = faults + 1
       /\ repeated' = [repeated EXCEPT ![j.user] = @ \/ j.kind = "intro"]

\* The pair and the chat are read; then the model writes.
Begin(w, j) ==
    /\ run[w] = Idle /\ status \in Speaks(j.kind)
    /\ Claims(j)
    /\ row' = [row EXCEPT ![j] = "running"]
    /\ attempts' = [attempts EXCEPT ![j] = @ + 1]
    /\ run' = [run EXCEPT ![w] = [Idle EXCEPT !.job = j, !.step = "writing", !.attempts = attempts[j] + 1]]
    /\ UNCHANGED <<status, plan, operator, intros, writes, patches, noted, raced>>

\* The pair has moved on: nothing is said.
Pass(j) ==
    /\ row[j] = "pending" \/ Reclaims(j)
    /\ status \notin Speaks(j.kind)
    /\ row' = [row EXCEPT ![j] = "done"]
    /\ UNCHANGED <<status, plan, operator, attempts, run, intros, bounds, history>>

\* deliver_messages appends, if the chat has not moved on since it was read ...
Say(w) ==
    LET j == run[w].job IN
    /\ run[w].step = "writing" /\ run[w].fresh
    /\ intros' = [intros EXCEPT ![j.user] = IF j.kind = "intro" THEN Min({@ + 1, 2}) ELSE @]
    /\ run' = [Moves(j.user) EXCEPT ![w].step = "said"]
    /\ UNCHANGED <<status, plan, operator, row, attempts, bounds, history>>

\* ... and if it has, it is read again, until the tries are used up.
Reread(w) ==
    LET again == [run[w] EXCEPT !.fresh = TRUE, !.tries = @ + 1] IN
    /\ run[w].step = "writing" /\ ~run[w].fresh
    /\ run' = [run EXCEPT ![w] = IF again.tries = Tries THEN [again EXCEPT !.step = "unsent"] ELSE again]
    /\ UNCHANGED <<status, plan, operator, row, attempts, intros, bounds, history>>

\* There is no chat to speak in, or the model had nothing to say.
SayNothing(w) ==
    /\ run[w].step = "writing"
    /\ run' = [run EXCEPT ![w].step = "unsent"]
    /\ UNCHANGED <<status, plan, operator, row, attempts, intros, bounds, history>>

\* Mutant of Noted: the note goes on the plan as it was before anyone was told.
NotedAlone(w, mark) == [u \in Users |-> IF u = run[w].job.user THEN mark ELSE "none"]

\* The plan's notes with this run's, on the plan as stored now (update_match_pair_plan).
Noted(w, mark) == [told EXCEPT ![run[w].job.user] = mark]

\* run_match_intro_job's last step.
Note(w) ==
    /\ run[w].job.kind = "intro" /\ run[w].step \in {"said", "unsent"}
    /\ LET mark == IF run[w].step = "said" THEN "sent" ELSE "unsent"
           u == run[w].job.user IN
       IF status = "gone" THEN UNCHANGED <<told, noted>>
       ELSE /\ told' = Noted(w, mark)
            /\ noted' = {n \in noted : n \notin {<<u, "sent">>, <<u, "unsent">>}} \union {<<u, mark>>}
    /\ run' = [run EXCEPT ![w].step = "noted"]
    /\ UNCHANGED <<status, outcomes, operator, row, attempts, intros, bounds, raced, repeated>>

\* Mutant of EndedRow: the row of a run that ends stays due.
DueRow(w) == "pending"

\* finish_agent_job: done, unless the job was scheduled again meanwhile.
EndedRow(w) == IF run[w].moved THEN "pending" ELSE "done"

Finish(w) ==
    LET j == run[w].job IN
    /\ run[w].step = "noted" \/ (j.kind # "intro" /\ run[w].step \in {"said", "unsent"})
    /\ row' = [row EXCEPT ![j] = EndedRow(w)]
    /\ attempts' = [attempts EXCEPT ![j] = IF run[w].moved THEN 0 ELSE @]
    /\ run' = [run EXCEPT ![w] = Idle]
    /\ UNCHANGED <<status, plan, operator, intros, bounds, history>>

\* A check-in at night is put off to the morning (_defer_to_daytime), by the
\* run itself: its row has moved, and is due again.
Defer(w) ==
    LET j == run[w].job IN
    /\ j.kind = "check_in" /\ run[w].step = "writing" /\ run[w].tries = 0
    /\ row' = [row EXCEPT ![j] = "pending"]
    /\ attempts' = [attempts EXCEPT ![j] = 0]
    /\ run' = [Moved(j) EXCEPT ![w] = Idle]
    /\ UNCHANGED <<status, plan, operator, intros, bounds, history>>

\* Mutant of Retries: once too often.
RetriesMore(w) == run[w].attempts <= MaxAttempts

Retries(w) == run[w].attempts < MaxAttempts

\* An error ends the run: it is retried, up to MaxAttempts.  What it said stays.
Fail(w) ==
    LET j == run[w].job IN
    /\ run[w] # Idle
    /\ row' = [row EXCEPT ![j] = IF Retries(w) THEN "pending" ELSE "failed"]
    /\ run' = [(IF Retries(w) THEN Moved(j) ELSE run) EXCEPT ![w] = Idle]
    /\ repeated' = [repeated EXCEPT ![j.user] =
                        @ \/ (j.kind = "intro" /\ run[w].step \in {"said", "noted"})]
    /\ UNCHANGED <<status, plan, operator, attempts, intros, bounds, noted, raced>>

\* The worker's process dies: the row stays claimed until its lease runs out.
Die(w) ==
    /\ run[w] # Idle /\ faults < MaxFaults
    /\ faults' = faults + 1
    /\ run' = [run EXCEPT ![w] = Idle]
    /\ repeated' = [repeated EXCEPT ![run[w].job.user] =
                        @ \/ (run[w].job.kind = "intro" /\ run[w].step \in {"said", "noted"})]
    /\ UNCHANGED <<status, plan, operator, row, attempts, intros, writes, patches, noted, raced>>

-----------------------------------------------------------------------------
Next ==
    \/ \E o \in Operators : CheckProposed(o) \/ SetPlan(o) \/ ScheduleNext(o) \/ RequestDies(o)
    \/ \E s \in Patches : Patch(s)
    \/ DeletePair
    \/ \E u \in Users : Write(u) \/ \E s \in Says : RecordOutcome(u, s)
    \/ \E j \in Jobs : Pass(j) \/ \E w \in Workers : Begin(w, j)
    \/ \E w \in Workers : \/ Say(w) \/ Reread(w) \/ SayNothing(w) \/ Note(w)
                          \/ Defer(w) \/ Finish(w) \/ Fail(w) \/ Die(w)

\* A request goes on, a due row is run (AgentJobs!OwedIsServed), a run goes on.
Fairness ==
    /\ \A o \in Operators : WF_vars(SetPlan(o)) /\ WF_vars(ScheduleNext(o))
    /\ \A j \in Jobs : SF_vars(\E w \in Workers : Begin(w, j)) /\ WF_vars(Pass(j))
    /\ \A w \in Workers : WF_vars(Say(w) \/ Reread(w) \/ Note(w) \/ Finish(w))

Spec == Init /\ [][Next]_vars

FairSpec == Spec /\ Fairness

-----------------------------------------------------------------------------
\* Nobody is introduced twice: not by a worker that takes over, not by a job that
\* is scheduled again, not by the tries to append.  The exceptions: a run that
\* spoke and did not live to end its row, one that outlasted its lease, and a
\* pair that was introduced again.
IntroducedOnce ==
    \A u \in Users : ~repeated[u] => intros[u] <= 1

\* "each reads the newest plan inside the lock, so neither note is lost": what the
\* two jobs and the two people put in the plan stays, however they meet, unless
\* an operator's outdated check put a new plan over it.
NotesKept == ~raced => Notes(told, outcomes) = noted

\* The request died before it had queued the jobs.
Undone(o) == operator[o].step = "over" /\ operator[o].next <= Len(Scheduled)

\* Once a pair is introduced both hear of it or the plan says they did not,
\* whatever dies on the way: unless the request died before it had queued the
\* jobs, the job failed for good, or the pair moved on.
IntroducedIsTold ==
    \A o \in Operators : \A j \in {i \in Jobs : i.kind = "intro"} :
        operator[o].step = "scheduling" ~>
            \/ told[j.user] # "none" \/ row[j] = "failed"
            \/ Undone(o) \/ status # "introduced"
=============================================================================
