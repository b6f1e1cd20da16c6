----------------------------- MODULE AgentJobs -----------------------------
(***************************************************************************)
(* The durable job queue: the agent_jobs table, the workers that poll it   *)
(* and the callers that schedule work in it.                               *)
(*                                                                         *)
(*   src/src/storage/agent_jobs.py   the table's operations                *)
(*   src/src/agent/jobs/worker.py    one polling worker per server         *)
(*   src/src/agent/jobs/queue.py     the callers' entry point              *)
(*                                                                         *)
(* A transaction that writes a row by a condition it re-evaluates (claim,  *)
(* finish, fail, delete) is one step.  schedule_agent_job reads the row    *)
(* without a lock and then writes what it decided from that read, so it is *)
(* two steps.  Microsecond timestamps are modelled by a coarse clock; that *)
(* two calls never store the same instant is kept by the flag "moved" of a *)
(* claim: run_after was written after the claim read it.                   *)
(***************************************************************************)
EXTENDS Integers, FiniteSets

CONSTANTS
    Jobs,        \* dedupe keys
    Workers,     \* JobWorker loops, one per server instance
    Callers,     \* requests and handlers that call schedule_job
    Handles,     \* Handles[w]: the jobs whose kind instance w has a handler for
    Delays,      \* the delays callers ask for
    Lease,       \* DEFAULT_LEASE_SECONDS
    RetryBase,   \* RETRY_BASE_SECONDS
    MaxAttempts, \* MAX_ATTEMPTS
    Limit,       \* claim_due_agent_jobs' limit
    MaxRun,      \* longest handler run; 0: any time, and runs are not timed
    Existing,    \* jobs whose row is in the table when the servers start
    MaxTime,     \* bound: the clock stops here, later instants are this one
    MaxCalls,    \* bound: schedule calls that reach the table
    MaxCrashes   \* bound: worker passes cut short

ASSUME BoundsAssumption ==
    /\ Lease \in Nat \ {0} /\ RetryBase \in Nat \ {0} /\ MaxAttempts \in Nat \ {0}
    /\ MaxTime \in Nat /\ MaxCalls \in Nat /\ MaxCrashes \in Nat /\ MaxRun \in Nat
    /\ Limit \in Nat \ {0} /\ Delays \subseteq Nat
    /\ Handles \in [Workers -> SUBSET Jobs] /\ Existing \subseteq Jobs

VARIABLES
    jobs,     \* the table: jobs[j], "absent" when there is no row with the key
    asked,    \* asked[k]: the schedule call k has read for, not yet written
    claims,   \* claims[w]: what w's pass claimed and has not finished
    since,    \* since[w]: when w's handler started (only when MaxRun # 0)
    now,
    calls,
    crashes,
    \* history, read by the properties only
    owed,     \* no run that started after the last schedule call has ended
    missed,   \* the last schedule call wrote past a run that had just ended
    stray     \* the row was written by a claim past its lease, or reset
              \* under a running claim by a schedule call's outdated read

table == <<jobs, asked, claims, since>>
history == <<owed, missed, stray>>
vars == <<table, now, calls, crashes, history>>

-----------------------------------------------------------------------------
Finished == {"done", "failed"}
Status == {"absent", "pending", "running"} \union Finished

Times == 0..MaxTime

Row == [status: Status, id: 0..MaxCalls, runAfter: Times, lockedUntil: Times,
        attempts: 0..(MaxAttempts + 1)]

NoRow == [status |-> "absent", id |-> 0, runAfter |-> 0, lockedUntil |-> 0, attempts |-> 0]

\* A claimed job as the worker holds it: the row as it was read, and whether
\* its handler runs.  "fresh": no schedule call landed since the run started.
Claim == [job: Jobs, id: 0..MaxCalls, attempts: 1..(MaxAttempts + 1), until: Times,
          running: BOOLEAN, moved: BOOLEAN, fresh: BOOLEAN]

\* What a schedule call read, and will write.  "newId" is the uuid an INSERT
\* would give the row.
Ask == [job: Jobs, seenId: 0..MaxCalls, seenStatus: Status, runAfter: Times,
        newId: 1..MaxCalls]

\* An instant of the modelled clock.
At(t) == IF t \in Times THEN t ELSE MaxTime

\* Attempts are only compared with MaxAttempts: one value stands for all above.
Capped(n) == IF n \in 0..MaxAttempts THEN n ELSE MaxAttempts + 1

Holds(c) == jobs[c.job].status # "absent" /\ jobs[c.job].id = c.id

Overran(c) == c.until <= now

Timed(t) == IF MaxRun = 0 THEN 0 ELSE t

TypeOK ==
    /\ jobs \in [Jobs -> Row]
    /\ asked \in [Callers -> SUBSET Ask]
    /\ claims \in [Workers -> SUBSET Claim]
    /\ since \in [Workers -> Times]
    /\ now \in Times /\ calls \in 0..MaxCalls /\ crashes \in 0..MaxCrashes
    /\ owed \in [Jobs -> BOOLEAN]
    /\ missed \in [Jobs -> BOOLEAN]
    /\ stray \in [Jobs -> BOOLEAN]

Init ==
    /\ jobs = [j \in Jobs |-> IF j \in Existing THEN [NoRow EXCEPT !.status = "pending"]
                                                ELSE NoRow]
    /\ asked = [k \in Callers |-> {}]
    /\ claims = [w \in Workers |-> {}]
    /\ since = [w \in Workers |-> 0]
    /\ now = 0 /\ calls = 0 /\ crashes = 0
    /\ owed = [j \in Jobs |-> j \in Existing]
    /\ missed = [j \in Jobs |-> FALSE]
    /\ stray = [j \in Jobs |-> FALSE]

-----------------------------------------------------------------------------
(* schedule_agent_job: SELECT by key, then INSERT or UPDATE.               *)

ScheduleRead(k, j, d) ==
    /\ asked[k] = {}
    /\ calls < MaxCalls
    /\ asked' = [asked EXCEPT ![k] = {[job |-> j, seenId |-> jobs[j].id,
                     seenStatus |-> jobs[j].status, runAfter |-> At(now + d),
                     newId |-> calls + 1]}]
    /\ calls' = calls + 1
    /\ UNCHANGED <<jobs, claims, since, now, crashes, history>>

\* The row the write leaves, from the status the read saw.
NewRow(a) == [status |-> "pending", id |-> a.newId, runAfter |-> a.runAfter,
              lockedUntil |-> 0, attempts |-> 0]

MovedRow(a) ==
    IF a.seenStatus \in Finished
    THEN [jobs[a.job] EXCEPT !.runAfter = a.runAfter, !.status = "pending", !.attempts = 0]
    ELSE [jobs[a.job] EXCEPT !.runAfter = a.runAfter]

\* The row's run_after was written: claims that read it earlier no longer match.
Touch(j, scheduled) ==
    [w \in Workers |-> {IF c.job = j /\ Holds(c)
                        THEN [c EXCEPT !.moved = TRUE, !.fresh = @ /\ ~scheduled]
                        ELSE c : c \in claims[w]}]

ScheduleInsert(k, a) ==
    /\ a.seenStatus = "absent" /\ jobs[a.job].status = "absent"
    /\ jobs' = [jobs EXCEPT ![a.job] = NewRow(a)]
    /\ owed' = [owed EXCEPT ![a.job] = TRUE]
    /\ missed' = [missed EXCEPT ![a.job] = FALSE]
    /\ stray' = [stray EXCEPT ![a.job] = FALSE]
    /\ UNCHANGED claims

ScheduleUpdate(k, a) ==
    LET row == jobs[a.job] IN
    /\ a.seenStatus # "absent" /\ row.status # "absent" /\ row.id = a.seenId
    /\ jobs' = [jobs EXCEPT ![a.job] = MovedRow(a)]
    /\ claims' = Touch(a.job, TRUE)
    /\ owed' = [owed EXCEPT ![a.job] = TRUE]
    /\ missed' = [missed EXCEPT ![a.job] =
                      a.seenStatus \notin Finished /\ row.status \in Finished]
    /\ stray' = [stray EXCEPT ![a.job] =
                     @ \/ (a.seenStatus \in Finished /\ row.status = "running")]

\* The key was taken (IntegrityError) or the row deleted (.one() finds none)
\* since the read: the transaction raises and changes nothing.
ScheduleRaises(k, a) ==
    LET row == jobs[a.job] IN
    /\ \/ a.seenStatus = "absent" /\ row.status # "absent"
       \/ a.seenStatus # "absent" /\ (row.status = "absent" \/ row.id # a.seenId)
    /\ UNCHANGED <<jobs, claims, history>>

ScheduleWrite(k) ==
    \E a \in asked[k] :
        /\ \/ ScheduleInsert(k, a)
           \/ ScheduleUpdate(k, a)
           \/ ScheduleRaises(k, a)
        /\ asked' = [asked EXCEPT ![k] = {}]
        /\ UNCHANGED <<since, now, calls, crashes>>

-----------------------------------------------------------------------------
(* Deleting rows: cancel_agent_jobs, delete_conversation, the retention.   *)

Remove(j) ==
    /\ jobs' = [jobs EXCEPT ![j] = NoRow]
    /\ owed' = [owed EXCEPT ![j] = FALSE]
    /\ missed' = [missed EXCEPT ![j] = FALSE]
    /\ stray' = [stray EXCEPT ![j] = FALSE]
    /\ UNCHANGED <<asked, claims, since, now, calls, crashes>>

CancelJobs(j) == jobs[j].status \notin {"absent", "running"} /\ Remove(j)

DeleteConversation(j) == jobs[j].status # "absent" /\ Remove(j)

PurgeFinished(j) == jobs[j].status \in Finished /\ Remove(j)

-----------------------------------------------------------------------------
(* JobWorker.run_once: claim what is due, then run each job in turn.       *)

\* Mutants of Due: the reclaim ignores the lease; a lease is never reclaimed.
DueDespiteLease(j) == \/ jobs[j].status = "pending" /\ jobs[j].runAfter <= now
                      \/ jobs[j].status = "running" /\ jobs[j].runAfter <= now

DueOncePending(j) == jobs[j].status = "pending" /\ jobs[j].runAfter <= now

Due(j) == \/ jobs[j].status = "pending" /\ jobs[j].runAfter <= now
          \/ jobs[j].status = "running" /\ jobs[j].lockedUntil <= now

\* The oldest due jobs, at most Limit of them.
DueBatches ==
    LET due == {j \in Jobs : Due(j)} IN
    {S \in SUBSET due :
        /\ S # {}
        /\ Cardinality(S) = Limit \/ (S = due /\ Cardinality(S) < Limit)
        /\ \A j \in S, i \in due \ S : jobs[j].runAfter <= jobs[i].runAfter}

\* Mutant of ClaimedRow: the claim does not count as an attempt.
UncountedRow(j) == [jobs[j] EXCEPT !.status = "running", !.lockedUntil = At(now + Lease)]

ClaimedRow(j) == [jobs[j] EXCEPT !.status = "running", !.lockedUntil = At(now + Lease),
                                 !.attempts = Capped(jobs[j].attempts + 1)]

ClaimDue(w) ==
    /\ claims[w] = {}
    /\ \E S \in DueBatches :
        /\ jobs' = [j \in Jobs |-> IF j \in S THEN ClaimedRow(j) ELSE jobs[j]]
        /\ claims' = [claims EXCEPT ![w] =
               {[job |-> j, id |-> jobs[j].id, attempts |-> ClaimedRow(j).attempts,
                 until |-> ClaimedRow(j).lockedUntil, running |-> FALSE,
                 moved |-> FALSE, fresh |-> FALSE] : j \in S}]
    /\ UNCHANGED <<asked, since, now, calls, crashes, history>>

Idle(w) == \A c \in claims[w] : ~c.running

StartHandler(w) ==
    /\ Idle(w)
    /\ \E c \in claims[w] :
        /\ c.job \in Handles[w]
        /\ claims' = [claims EXCEPT ![w] =
               (@ \ {c}) \union {[c EXCEPT !.running = TRUE, !.fresh = TRUE]}]
    /\ since' = [since EXCEPT ![w] = Timed(now)]
    /\ UNCHANGED <<jobs, asked, now, calls, crashes, history>>

\* The rest of w's pass: a pass holds one claim per job.
Others(w, c) == {d \in claims[w] : d.job # c.job}

\* w is done with claim c: history of how its last write found the row.
Settle(w, c, settled) ==
    /\ owed' = [owed EXCEPT ![c.job] = @ /\ ~(Holds(c) /\ settled)]
    /\ stray' = [stray EXCEPT ![c.job] = @ \/ (Holds(c) /\ Overran(c))]
    /\ since' = [since EXCEPT ![w] = 0]
    /\ UNCHANGED <<asked, now, calls, crashes, missed>>

\* Mutant of FinishedRow: done whether or not run_after moved.
DoneRow(c) == [jobs[c.job] EXCEPT !.status = "done", !.lockedUntil = 0]

FinishedRow(c) ==
    IF ~c.moved
    THEN [jobs[c.job] EXCEPT !.status = "done", !.lockedUntil = 0]
    ELSE [jobs[c.job] EXCEPT !.status = "pending", !.lockedUntil = 0, !.attempts = 0]

FinishJob(w) ==
    \E c \in claims[w] :
        /\ c.running
        /\ jobs' = IF Holds(c) THEN [jobs EXCEPT ![c.job] = FinishedRow(c)] ELSE jobs
        /\ claims' = [claims EXCEPT ![w] = Others(w, c)]
        /\ Settle(w, c, c.fresh)

\* fail_agent_job with a retry time, and without one.
RetryJob(w, c) ==
    /\ jobs' = IF Holds(c)
               THEN [jobs EXCEPT ![c.job] = [@ EXCEPT !.status = "pending", !.lockedUntil = 0,
                         !.runAfter = At(now + RetryBase * 2 ^ (c.attempts - 1))]]
               ELSE jobs
    /\ claims' = [(IF Holds(c) THEN Touch(c.job, FALSE) ELSE claims)
                      EXCEPT ![w] = Others(w, c)]
    /\ Settle(w, c, FALSE)

GiveUpJob(w, c) ==
    /\ jobs' = IF Holds(c)
               THEN [jobs EXCEPT ![c.job] = [@ EXCEPT !.status = "failed", !.lockedUntil = 0]]
               ELSE jobs
    /\ claims' = [claims EXCEPT ![w] = Others(w, c)]
    /\ Settle(w, c, c.fresh)

FailJob(w) ==
    \E c \in claims[w] :
        /\ c.running
        /\ IF c.attempts < MaxAttempts THEN RetryJob(w, c) ELSE GiveUpJob(w, c)

\* _run with a kind this instance has no handler for.
RejectUnknownKind(w) ==
    /\ Idle(w)
    /\ \E c \in claims[w] : c.job \notin Handles[w] /\ GiveUpJob(w, c)

\* The process dies, shuts down, or an error ends the pass: what it claimed
\* stays "running" until its lease expires.
AbandonPass(w) ==
    /\ claims[w] # {}
    /\ crashes < MaxCrashes
    /\ crashes' = crashes + 1
    /\ claims' = [claims EXCEPT ![w] = {}]
    /\ since' = [since EXCEPT ![w] = 0]
    /\ UNCHANGED <<jobs, asked, now, calls, history>>

\* A timed worker runs its jobs one after the other, each within MaxRun.
OnTime(w) == claims[w] = {} \/ (~Idle(w) /\ now - since[w] < MaxRun)

Tick ==
    /\ now < MaxTime
    /\ MaxRun # 0 => \A w \in Workers : OnTime(w)
    /\ now' = now + 1
    /\ UNCHANGED <<table, calls, crashes, history>>

Next ==
    \/ \E k \in Callers, j \in Jobs, d \in Delays : ScheduleRead(k, j, d)
    \/ \E k \in Callers : ScheduleWrite(k)
    \/ \E j \in Jobs : CancelJobs(j) \/ DeleteConversation(j) \/ PurgeFinished(j)
    \/ \E w \in Workers : \/ ClaimDue(w) \/ StartHandler(w) \/ FinishJob(w) \/ FailJob(w)
                          \/ RejectUnknownKind(w) \/ AbandonPass(w)
    \/ Tick

\* The worker loops for as long as the process lives, every handler ends one
\* way or the other, a transaction that began ends, and time passes.  Nobody
\* is obliged to schedule, delete or crash.
Fairness ==
    /\ \A w \in Workers : /\ WF_vars(ClaimDue(w))
                          /\ WF_vars(StartHandler(w) \/ RejectUnknownKind(w))
                          /\ WF_vars(FinishJob(w) \/ FailJob(w))
    /\ \A k \in Callers : WF_vars(ScheduleWrite(k))
    /\ WF_vars(Tick)

Spec == Init /\ [][Next]_vars

FairSpec == Spec /\ Fairness

-----------------------------------------------------------------------------
Live(c) == Holds(c) /\ ~Overran(c)

\* Unless something wrote the row that no longer owned it, two workers never
\* both hold an unexpired claim on it: claim_due_agent_jobs' repeated condition
\* in the UPDATE, with the lease, hands a job to one worker at a time.
ExclusiveClaim ==
    \A v, w \in Workers : \A c \in claims[v], d \in claims[w] :
        Live(c) /\ Live(d) /\ c.job = d.job /\ ~stray[c.job] => v = w

\* A job scheduled while it runs is not swallowed by the end of that run:
\* finish_agent_job's condition on run_after never marks a row done that still
\* owes a run to the last schedule call (unless that call's own read was stale).
OwedIsNotDone ==
    \A j \in Jobs : owed[j] /\ ~missed[j] => jobs[j].status \in {"pending", "running", "failed"}

\* The strengthening ExclusiveClaim and OwedIsNotDone are inductive with: a live
\* claim is the one the row is locked for, a uuid is used once, and a running
\* handler whose claim still matches run_after began after the last schedule call.
LiveClaimHoldsRow ==
    \A w \in Workers : \A c \in claims[w] :
        Live(c) /\ ~stray[c.job] => /\ jobs[c.job].status = "running"
                                    /\ jobs[c.job].lockedUntil = c.until

FreshIds ==
    /\ \A j \in Jobs : jobs[j].id <= calls
    /\ \A w \in Workers : \A c \in claims[w] : c.id <= calls
    /\ \A k \in Callers : \A a \in asked[k] :
          /\ a.newId <= calls
          /\ \A j \in Jobs : jobs[j].id # a.newId
          /\ \A w \in Workers : \A c \in claims[w] : c.id # a.newId
    /\ \A k, l \in Callers : \A a \in asked[k], b \in asked[l] : a.newId = b.newId => k = l

UnmovedIsFresh ==
    \A w \in Workers : \A c \in claims[w] : c.running /\ ~c.moved => c.fresh

QueueInv == FreshIds /\ LiveClaimHoldsRow /\ ExclusiveClaim /\ UnmovedIsFresh /\ OwedIsNotDone

\* Work that is owed is eventually served by a run that started after it was
\* asked for, given up on, or withdrawn, whatever worker crashes on the way.
OwedIsServed ==
    \A j \in Jobs : owed[j] ~> \/ ~owed[j] \/ missed[j] \/ jobs[j].status = "failed"
=============================================================================
