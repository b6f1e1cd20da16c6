-------------------------- MODULE AgentJobsProofs --------------------------
(***************************************************************************)
(* Safety of the job queue for every number of jobs, workers and callers,  *)
(* every lease, backoff and limit.                                         *)
(***************************************************************************)
EXTENDS AgentJobs, TLAPS

LEMMA AtTyped == ASSUME NEW t PROVE At(t) \in Times
BY BoundsAssumption DEF At, Times

LEMMA NoRowTyped == NoRow \in Row
BY BoundsAssumption DEF NoRow, Row, Status, Finished, Times

\* Rewriting the fields of a row keeps it a row.
LEMMA RowEdits ==
    ASSUME NEW r \in Row, NEW s \in Status, NEW t \in Times, NEW n \in 0..(MaxAttempts + 1)
    PROVE  /\ [r EXCEPT !.runAfter = t] \in Row
           /\ [r EXCEPT !.status = s, !.lockedUntil = t] \in Row
           /\ [r EXCEPT !.status = s, !.lockedUntil = t, !.attempts = n] \in Row
           /\ [r EXCEPT !.runAfter = t, !.status = s, !.attempts = n] \in Row
           /\ \A u \in Times : [r EXCEPT !.status = s, !.lockedUntil = t, !.runAfter = u] \in Row
BY DEF Row

LEMMA Zero == 0 \in Times /\ 0 \in 0..(MaxAttempts + 1)
BY BoundsAssumption DEF Times

LEMMA Statuses == {"absent", "pending", "running", "done", "failed"} \subseteq Status
BY DEF Status, Finished

\* The claims a transaction touches keep their type.
LEMMA TouchTyped ==
    ASSUME TypeOK, NEW j, NEW s \in BOOLEAN
    PROVE  Touch(j, s) \in [Workers -> SUBSET Claim]
<1> SUFFICES ASSUME NEW w \in Workers, NEW c \in claims[w]
             PROVE  [c EXCEPT !.moved = TRUE, !.fresh = @ /\ ~s] \in Claim
    BY DEF Touch, TypeOK
<1> c \in Claim
    BY DEF TypeOK
<1> QED BY DEF Claim

\* Every step of the queue keeps the types.
LEMMA TypeStep == TypeOK /\ [Next]_vars => TypeOK'
<1> SUFFICES ASSUME TypeOK, [Next]_vars PROVE TypeOK'
    OBVIOUS
<1> USE BoundsAssumption
<1>1. ASSUME NEW k \in Callers, NEW j \in Jobs, NEW d \in Delays, ScheduleRead(k, j, d)
      PROVE  TypeOK'
  <2> DEFINE a == [job |-> j, seenId |-> jobs[j].id, seenStatus |-> jobs[j].status,
                   runAfter |-> At(now + d), newId |-> calls + 1]
  <2>1. a \in Ask
    <3> QED BY <1>1, AtTyped DEF ScheduleRead, TypeOK, Ask, Row
  <2>2. asked' \in [Callers -> SUBSET Ask]
    BY <1>1, <2>1 DEF ScheduleRead, TypeOK
  <2>3. calls' \in 0..MaxCalls
    BY <1>1 DEF ScheduleRead, TypeOK
  <2> QED BY <1>1, <2>2, <2>3 DEF ScheduleRead, TypeOK, history
<1>2. ASSUME NEW k \in Callers, ScheduleWrite(k)
      PROVE  TypeOK'
  <2> PICK a \in asked[k] : /\ ScheduleInsert(k, a) \/ ScheduleUpdate(k, a) \/ ScheduleRaises(k, a)
                            /\ asked' = [asked EXCEPT ![k] = {}]
                            /\ UNCHANGED <<since, now, calls, crashes>>
    BY <1>2 DEF ScheduleWrite
  <2>0. a \in Ask
    BY DEF TypeOK
  <2>1. CASE ScheduleInsert(k, a)
    <3>1. NewRow(a) \in Row
      BY <2>0 DEF NewRow, Row, Ask, Status, Times
    <3> QED BY <2>0, <2>1, <3>1 DEF ScheduleInsert, TypeOK, Ask
  <2>2. CASE ScheduleUpdate(k, a)
    <3>1. MovedRow(a) \in Row
      <4>1. jobs[a.job] \in Row /\ a.runAfter \in Times
        BY <2>0 DEF TypeOK, Ask
      <4> QED BY <4>1, RowEdits, Zero, Statuses DEF MovedRow
    <3>2. Touch(a.job, TRUE) \in [Workers -> SUBSET Claim]
      BY TouchTyped
    <3>3. missed' \in [Jobs -> BOOLEAN] /\ stray' \in [Jobs -> BOOLEAN] /\ owed' \in [Jobs -> BOOLEAN]
      BY <2>0, <2>2 DEF ScheduleUpdate, TypeOK, Ask
    <3> QED BY <2>0, <2>2, <3>1, <3>2, <3>3 DEF ScheduleUpdate, TypeOK, Ask
  <2>3. CASE ScheduleRaises(k, a)
    BY <2>3 DEF ScheduleRaises, TypeOK, history
  <2> QED BY <2>1, <2>2, <2>3
<1>3. ASSUME NEW j \in Jobs, Remove(j) PROVE TypeOK'
  BY <1>3, NoRowTyped DEF Remove, TypeOK
<1>4. ASSUME NEW w \in Workers, ClaimDue(w) PROVE TypeOK'
  <2> PICK S \in DueBatches :
        /\ jobs' = [j \in Jobs |-> IF j \in S THEN ClaimedRow(j) ELSE jobs[j]]
        /\ claims' = [claims EXCEPT ![w] =
               {[job |-> j, id |-> jobs[j].id, attempts |-> ClaimedRow(j).attempts,
                 until |-> ClaimedRow(j).lockedUntil, running |-> FALSE,
                 moved |-> FALSE, fresh |-> FALSE] : j \in S}]
    BY <1>4 DEF ClaimDue
  <2>1. S \subseteq Jobs
    BY DEF DueBatches
  <2>2. ASSUME NEW j \in S
        PROVE  ClaimedRow(j) \in Row /\ ClaimedRow(j).attempts \in 1..(MaxAttempts + 1)
    <3>1. jobs[j] \in Row /\ At(now + Lease) \in Times
      BY <2>1, AtTyped DEF TypeOK
    <3>2. Capped(jobs[j].attempts + 1) \in 1..(MaxAttempts + 1)
      BY <3>1 DEF Row, Capped
    <3> QED
      <4> DEFINE n == Capped(jobs[j].attempts + 1)
                 t == At(now + Lease)
      <4>1. ClaimedRow(j) = [jobs[j] EXCEPT !.status = "running", !.lockedUntil = t,
                                            !.attempts = n]
        BY DEF ClaimedRow
      <4>2. n \in 0..(MaxAttempts + 1) /\ t \in Times
        BY <3>1, <3>2
      <4> HIDE DEF n, t
      <4>3. ClaimedRow(j) \in Row
        <5>1. jobs[j] \in Row /\ "running" \in Status
          BY <3>1, Statuses
        <5>2. [jobs[j] EXCEPT !.status = "running", !.lockedUntil = t, !.attempts = n] \in Row
          BY <4>2, <5>1, RowEdits
        <5> QED BY <4>1, <5>2
      <4>4. ClaimedRow(j).attempts = n
        BY <3>1, <4>1 DEF Row
      <4> QED BY <3>2, <4>3, <4>4 DEF n
  <2>3. jobs' \in [Jobs -> Row]
    BY <2>1, <2>2 DEF TypeOK
  <2>4. claims' \in [Workers -> SUBSET Claim]
    <3>1. ASSUME NEW j \in S
          PROVE  [job |-> j, id |-> jobs[j].id, attempts |-> ClaimedRow(j).attempts,
                  until |-> ClaimedRow(j).lockedUntil, running |-> FALSE,
                  moved |-> FALSE, fresh |-> FALSE] \in Claim
      <4>1. jobs[j] \in Row /\ ClaimedRow(j) \in Row
        BY <2>1, <2>2 DEF TypeOK
      <4> QED BY <2>1, <2>2, <4>1 DEF Claim, Row
    <3> QED BY <3>1 DEF TypeOK
  <2> QED BY <1>4, <2>3, <2>4 DEF ClaimDue, TypeOK, history
<1>5. ASSUME NEW w \in Workers, StartHandler(w) PROVE TypeOK'
  <2>1. claims' \in [Workers -> SUBSET Claim]
    <3>1. PICK c \in claims[w] : claims' = [claims EXCEPT ![w] =
               (@ \ {c}) \union {[c EXCEPT !.running = TRUE, !.fresh = TRUE]}]
      BY <1>5 DEF StartHandler
    <3>2. c \in Claim
      BY DEF TypeOK
    <3>3. [c EXCEPT !.running = TRUE, !.fresh = TRUE] \in Claim
      BY <3>2 DEF Claim
    <3> QED BY <3>1, <3>3 DEF TypeOK
  <2>2. since' \in [Workers -> Times]
    BY <1>5 DEF StartHandler, TypeOK, Timed, Times
  <2> QED BY <1>5, <2>1, <2>2 DEF StartHandler, TypeOK, history
<1>6. ASSUME NEW w \in Workers, NEW c \in claims[w], NEW s \in BOOLEAN, Settle(w, c, s)
      PROVE  /\ owed' \in [Jobs -> BOOLEAN] /\ stray' \in [Jobs -> BOOLEAN]
             /\ missed' \in [Jobs -> BOOLEAN] /\ since' \in [Workers -> Times]
             /\ asked' \in [Callers -> SUBSET Ask]
             /\ now' \in Times /\ calls' \in 0..MaxCalls /\ crashes' \in 0..MaxCrashes
  <2>1. owed' \in [Jobs -> BOOLEAN]
    <3> DEFINE b == owed[c.job] /\ ~(Holds(c) /\ s)
    <3>1. b \in BOOLEAN
      OBVIOUS
    <3>2. owed' = [owed EXCEPT ![c.job] = b]
      BY <1>6 DEF Settle
    <3> HIDE DEF b
    <3> QED BY <3>1, <3>2 DEF TypeOK
  <2>2. stray' \in [Jobs -> BOOLEAN]
    <3> DEFINE b == stray[c.job] \/ (Holds(c) /\ Overran(c))
    <3>1. b \in BOOLEAN
      OBVIOUS
    <3>2. stray' = [stray EXCEPT ![c.job] = b]
      BY <1>6 DEF Settle
    <3> HIDE DEF b
    <3> QED BY <3>1, <3>2 DEF TypeOK
  <2> QED BY <1>6, <2>1, <2>2, Zero DEF Settle, TypeOK
<1>7. ASSUME NEW w \in Workers, NEW c \in claims[w]
      PROVE  /\ c \in Claim
             /\ [claims EXCEPT ![w] = Others(w, c)] \in [Workers -> SUBSET Claim]
             /\ \A T \in [Workers -> SUBSET Claim] :
                   [T EXCEPT ![w] = Others(w, c)] \in [Workers -> SUBSET Claim]
  BY DEF TypeOK, Others
<1>8. ASSUME NEW w \in Workers, FinishJob(w) PROVE TypeOK'
  <2> PICK c \in claims[w] :
        /\ jobs' = IF Holds(c) THEN [jobs EXCEPT ![c.job] = FinishedRow(c)] ELSE jobs
        /\ claims' = [claims EXCEPT ![w] = Others(w, c)]
        /\ Settle(w, c, c.fresh)
    BY <1>8 DEF FinishJob
  <2>1. jobs' \in [Jobs -> Row]
    <3>1. c.job \in Jobs /\ jobs[c.job] \in Row
      BY <1>7 DEF TypeOK, Claim
    <3>2. FinishedRow(c) \in Row
      BY <3>1, RowEdits, Zero, Statuses DEF FinishedRow
    <3> QED BY <3>1, <3>2 DEF TypeOK
  <2>2. c.fresh \in BOOLEAN
    BY <1>7 DEF Claim
  <2> QED BY <2>1, <2>2, <1>6, <1>7 DEF TypeOK
<1>9. ASSUME NEW w \in Workers, NEW c \in claims[w], GiveUpJob(w, c) PROVE TypeOK'
  <2>1. jobs' \in [Jobs -> Row]
    <3>1. c.job \in Jobs /\ jobs[c.job] \in Row
      BY <1>7 DEF TypeOK, Claim
    <3>2. [jobs[c.job] EXCEPT !.status = "failed", !.lockedUntil = 0] \in Row
      BY <3>1, RowEdits, Zero, Statuses
    <3> QED BY <1>9, <3>1, <3>2 DEF GiveUpJob, TypeOK
  <2>2. c.fresh \in BOOLEAN
    BY <1>7 DEF Claim
  <2> QED BY <1>9, <2>1, <2>2, <1>6, <1>7 DEF TypeOK, GiveUpJob
<1>10. ASSUME NEW w \in Workers, NEW c \in claims[w], RetryJob(w, c) PROVE TypeOK'
  <2>1. jobs' \in [Jobs -> Row]
    <3> DEFINE t == At(now + RetryBase * 2 ^ (c.attempts - 1))
    <3>1. c.job \in Jobs /\ jobs[c.job] \in Row
      BY <1>7 DEF TypeOK, Claim
    <3>2. t \in Times
      BY AtTyped
    <3> HIDE DEF t
    <3>3. [jobs[c.job] EXCEPT !.status = "pending", !.lockedUntil = 0, !.runAfter = t] \in Row
      BY <3>1, <3>2, RowEdits, Zero, Statuses
    <3>4. jobs' = IF Holds(c)
                  THEN [jobs EXCEPT ![c.job] = [jobs[c.job] EXCEPT
                            !.status = "pending", !.lockedUntil = 0, !.runAfter = t]]
                  ELSE jobs
      BY <1>10, <3>1 DEF RetryJob, TypeOK, t
    <3> QED BY <3>1, <3>3, <3>4 DEF TypeOK
  <2>2. claims' \in [Workers -> SUBSET Claim]
    BY <1>10, <1>7, TouchTyped DEF RetryJob, TypeOK
  <2> QED BY <1>10, <2>1, <2>2, <1>6 DEF TypeOK, RetryJob
<1>11. ASSUME NEW w \in Workers, AbandonPass(w) PROVE TypeOK'
  BY <1>11 DEF AbandonPass, TypeOK, history, Times
<1>12. CASE Tick
  BY <1>12 DEF Tick, TypeOK, table, history, Times
<1>13. CASE UNCHANGED vars
  BY <1>13 DEF vars, table, history, TypeOK
<1> QED BY <1>1, <1>2, <1>3, <1>4, <1>5, <1>8, <1>9, <1>10, <1>11, <1>12, <1>13
        DEF Next, CancelJobs, DeleteConversation, PurgeFinished, FailJob, RejectUnknownKind

\* Every reachable table holds well-formed rows, claims and calls.
THEOREM TypeCorrect == Spec => []TypeOK
<1>1. Init => TypeOK
  <2> SUFFICES ASSUME Init PROVE TypeOK
      OBVIOUS
  <2>1. jobs \in [Jobs -> Row]
    <3>1. [NoRow EXCEPT !.status = "pending"] \in Row
      BY NoRowTyped DEF Row, Status
    <3> QED BY <3>1, NoRowTyped DEF Init
  <2> QED BY <2>1, BoundsAssumption DEF Init, TypeOK, Times
<1> QED BY <1>1, TypeStep, PTL DEF Spec

-----------------------------------------------------------------------------
\* Steps other than ClaimDue make no claim: each one left descends from one
\* that was there, with its job, its row and its lease.
From(d, c) ==
    /\ c.job = d.job /\ c.id = d.id /\ c.until = d.until
    /\ (c.running /\ ~c.moved => c.fresh) => (d.running /\ ~d.moved => d.fresh)

Descends == \A v \in Workers : \A d \in claims'[v] : \E c \in claims[v] : From(d, c)

LEMMA TouchDescends ==
    ASSUME TypeOK, NEW j, NEW s \in BOOLEAN, NEW v \in Workers, NEW d \in Touch(j, s)[v]
    PROVE  \E c \in claims[v] : From(d, c)
<1> PICK c \in claims[v] :
        d = IF c.job = j /\ Holds(c) THEN [c EXCEPT !.moved = TRUE, !.fresh = @ /\ ~s] ELSE c
    BY DEF Touch
<1> c \in Claim
    BY DEF TypeOK
<1>1. CASE c.job = j /\ Holds(c)
  <2>1. d = [c EXCEPT !.moved = TRUE, !.fresh = @ /\ ~s]
    BY <1>1
  <2>2. c.job = d.job /\ c.id = d.id /\ c.until = d.until /\ d.moved = TRUE
    BY <2>1 DEF Claim
  <2> QED BY <2>2 DEF From
<1>2. CASE ~(c.job = j /\ Holds(c))
  BY <1>2 DEF From
<1> QED BY <1>1, <1>2

LEMMA ClaimsDescend ==
    ASSUME TypeOK, [Next]_vars, \A w \in Workers : ~ClaimDue(w)
    PROVE  Descends
<1>1. CASE UNCHANGED claims
  BY <1>1 DEF Descends, From
<1>2. ASSUME NEW k \in Callers, NEW a \in asked[k], ScheduleUpdate(k, a) PROVE Descends
  <2> SUFFICES ASSUME NEW v \in Workers, NEW d \in claims'[v]
               PROVE  \E c \in claims[v] : From(d, c)
      BY DEF Descends
  <2>1. d \in Touch(a.job, TRUE)[v]
    BY <1>2 DEF ScheduleUpdate
  <2> QED BY <2>1, TouchDescends
<1>3. ASSUME NEW w \in Workers, NEW c \in claims[w],
             claims' = [claims EXCEPT ![w] = Others(w, c)]
      PROVE  Descends
  <2>1. ASSUME NEW v \in Workers, NEW d \in claims'[v] PROVE d \in claims[v]
    BY <1>3 DEF Others, TypeOK
  <2> QED BY <2>1 DEF Descends, From
<1>4. ASSUME NEW w \in Workers, NEW c \in claims[w], RetryJob(w, c) PROVE Descends
  <2> SUFFICES ASSUME NEW v \in Workers, NEW d \in claims'[v]
               PROVE  \E b \in claims[v] : From(d, b)
      BY DEF Descends
  <2>1. CASE v = w
    <3>1. claims'[w] = Others(w, c)
      BY <1>4, TouchTyped DEF RetryJob, TypeOK
    <3>2. d \in claims[v]
      BY <2>1, <3>1 DEF Others
    <3> QED BY <3>2 DEF From
  <2>2. CASE v # w /\ Holds(c)
    <3> DEFINE T == Touch(c.job, FALSE)
    <3>1. claims' = [T EXCEPT ![w] = Others(w, c)]
      BY <1>4, <2>2 DEF RetryJob
    <3>2. T \in [Workers -> SUBSET Claim]
      BY TouchTyped
    <3> HIDE DEF T
    <3>3. d \in T[v]
      BY <2>2, <3>1, <3>2
    <3>4. d \in Touch(c.job, FALSE)[v]
      BY <3>3 DEF T
    <3> QED BY <3>4, TouchDescends
  <2>3. CASE v # w /\ ~Holds(c)
    BY <1>4, <2>3 DEF RetryJob, TypeOK, From
  <2> QED BY <2>1, <2>2, <2>3
<1>5. ASSUME NEW w \in Workers, StartHandler(w) PROVE Descends
  <2> PICK c \in claims[w] : claims' = [claims EXCEPT ![w] =
               (@ \ {c}) \union {[c EXCEPT !.running = TRUE, !.fresh = TRUE]}]
      BY <1>5 DEF StartHandler
  <2> DEFINE e == [c EXCEPT !.running = TRUE, !.fresh = TRUE]
  <2>1. c \in Claim
    BY DEF TypeOK
  <2>2. e.job = c.job /\ e.id = c.id /\ e.until = c.until /\ e.fresh = TRUE
    BY <2>1 DEF Claim
  <2>3. ASSUME NEW v \in Workers, NEW d \in claims'[v] PROVE d \in claims[v] \/ (v = w /\ d = e)
    BY <2>3 DEF TypeOK
  <2> HIDE DEF e
  <2> QED BY <2>2, <2>3 DEF Descends, From
<1>6. ASSUME NEW w \in Workers, AbandonPass(w) PROVE Descends
  BY <1>6 DEF AbandonPass, Descends, From, TypeOK
<1> QED
  BY <1>1, <1>2, <1>3, <1>4, <1>5, <1>6
  DEF Next, ScheduleRead, ScheduleWrite, ScheduleInsert, ScheduleRaises, CancelJobs,
      DeleteConversation, PurgeFinished, Remove, FinishJob, FailJob, GiveUpJob,
      RejectUnknownKind, Tick, vars, table

-----------------------------------------------------------------------------
\* What a schedule call stores: the fields of the row that matter below.
LEMMA MovedRowFields ==
    ASSUME TypeOK, NEW k \in Callers, NEW a \in asked[k]
    PROVE  /\ a.job \in Jobs
           /\ MovedRow(a).id = jobs[a.job].id
           /\ MovedRow(a).lockedUntil = jobs[a.job].lockedUntil
           /\ MovedRow(a).status =
                 IF a.seenStatus \in Finished THEN "pending" ELSE jobs[a.job].status
<1>1. a.job \in Jobs /\ jobs[a.job] \in Row
  BY DEF TypeOK, Ask
<1> QED BY <1>1 DEF MovedRow, Row

LEMMA ClaimedRowFields ==
    ASSUME TypeOK, NEW j \in Jobs
    PROVE  /\ ClaimedRow(j).id = jobs[j].id
           /\ ClaimedRow(j).status = "running"
           /\ ClaimedRow(j).lockedUntil = At(now + Lease)
<1>1. jobs[j] \in Row
  BY DEF TypeOK
<1> QED BY <1>1 DEF ClaimedRow, Row

\* No step but the three of ScheduleWrite, Remove and the workers' touches a row,
\* and a row keeps its id for as long as it is there.
LEMMA RowIds ==
    ASSUME TypeOK, [Next]_vars, NEW j \in Jobs
    PROVE  \/ jobs'[j].id = jobs[j].id
           \/ jobs'[j] = NoRow
           \/ \E k \in Callers : \E a \in asked[k] : ScheduleInsert(k, a) /\ ScheduleWrite(k)
                                                     /\ a.job = j /\ jobs'[j].id = a.newId
<1> USE DEF TypeOK
<1>1. CASE jobs' = jobs
  BY <1>1
<1>2. ASSUME NEW k \in Callers, ScheduleWrite(k), jobs' # jobs
      PROVE  \/ jobs'[j].id = jobs[j].id
             \/ \E a \in asked[k] : ScheduleInsert(k, a) /\ a.job = j /\ jobs'[j].id = a.newId
  <2> PICK a \in asked[k] : ScheduleInsert(k, a) \/ ScheduleUpdate(k, a)
      BY <1>2 DEF ScheduleWrite, ScheduleRaises
  <2>1. CASE ScheduleInsert(k, a)
    BY <2>1 DEF ScheduleInsert, NewRow
  <2>2. CASE ScheduleUpdate(k, a)
    BY <2>2, MovedRowFields DEF ScheduleUpdate
  <2> QED BY <2>1, <2>2
<1>3. ASSUME NEW i \in Jobs, Remove(i) PROVE jobs'[j].id = jobs[j].id \/ jobs'[j] = NoRow
  BY <1>3 DEF Remove
<1>4. ASSUME NEW w \in Workers, ClaimDue(w) PROVE jobs'[j].id = jobs[j].id
  BY <1>4, ClaimedRowFields DEF ClaimDue
<1>5. ASSUME NEW w \in Workers, NEW c \in claims[w],
             \/ jobs' = IF Holds(c) THEN [jobs EXCEPT ![c.job] = FinishedRow(c)] ELSE jobs
             \/ GiveUpJob(w, c)
             \/ RetryJob(w, c)
      PROVE  jobs'[j].id = jobs[j].id
  <2>1. c.job \in Jobs /\ jobs[c.job] \in Row
    BY DEF Claim
  <2>2. FinishedRow(c).id = jobs[c.job].id
    BY <2>1 DEF FinishedRow, Row
  <2>3. CASE jobs' = IF Holds(c) THEN [jobs EXCEPT ![c.job] = FinishedRow(c)] ELSE jobs
    BY <2>1, <2>2, <2>3
  <2>4. CASE GiveUpJob(w, c)
    BY <2>1, <2>4 DEF GiveUpJob, Row
  <2>5. CASE RetryJob(w, c)
    BY <2>1, <2>5 DEF RetryJob, Row
  <2> QED BY <1>5, <2>3, <2>4, <2>5
<1> QED
  BY <1>1, <1>2, <1>3, <1>4, <1>5
  DEF Next, ScheduleRead, CancelJobs, DeleteConversation, PurgeFinished, StartHandler,
      FinishJob, FailJob, RejectUnknownKind, AbandonPass, Tick, vars, table

\* A uuid given to a new row was never used before.
LEMMA FreshIdsStep == TypeOK /\ FreshIds /\ [Next]_vars => FreshIds'
<1> SUFFICES ASSUME TypeOK, FreshIds, [Next]_vars PROVE FreshIds'
    OBVIOUS
<1> DEFINE used == {jobs[j].id : j \in Jobs} \union {c.id : c \in UNION {claims[w] : w \in Workers}}
<1>1. /\ used \subseteq 0..calls
      /\ \A k \in Callers : \A a \in asked[k] : a.newId \in 1..calls /\ a.newId \notin used
  <2>1. calls \in Nat /\ \A j \in Jobs : jobs[j].id \in Nat
    BY DEF TypeOK, Row
  <2>2. \A w \in Workers : \A c \in claims[w] : c.id \in Nat
    BY DEF TypeOK, Claim
  <2>3. \A k \in Callers : \A a \in asked[k] : a.newId \in Nat \ {0}
    BY DEF TypeOK, Ask
  <2> QED BY <2>1, <2>2, <2>3 DEF FreshIds
<1>2. \A w \in Workers : \A d \in claims'[w] : d.id \in used
  <2>1. ASSUME NEW w \in Workers, ClaimDue(w), NEW v \in Workers, NEW d \in claims'[v]
        PROVE  d.id \in used
    <3>1. (\E j \in Jobs : d.id = jobs[j].id) \/ d \in claims[v]
      BY <2>1 DEF ClaimDue, DueBatches, TypeOK
    <3> QED BY <3>1
  <2>2. ASSUME \A w \in Workers : ~ClaimDue(w), NEW v \in Workers, NEW d \in claims'[v]
        PROVE  d.id \in used
    <3>1. Descends
      BY <2>2, ClaimsDescend
    <3> QED BY <3>1 DEF Descends, From
  <2> QED BY <2>1, <2>2
<1>3. ASSUME NEW k \in Callers, NEW j \in Jobs, NEW d \in Delays, ScheduleRead(k, j, d)
      PROVE  FreshIds'
  <2>1. /\ calls \in Nat /\ calls' = calls + 1 /\ jobs' = jobs /\ claims' = claims
    BY <1>3 DEF ScheduleRead, TypeOK
  <2>2. \A l \in Callers : \A a \in asked'[l] :
           (l = k /\ a.newId = calls + 1) \/ (l # k /\ a \in asked[l])
    BY <1>3 DEF ScheduleRead, TypeOK
  <2> HIDE DEF used
  <2>3. \A i \in Jobs : jobs[i].id \in used
    BY DEF used
  <2>4. \A w \in Workers : \A c \in claims[w] : c.id \in used
    BY DEF used
  <2>5. \A l \in Callers : \A a \in asked'[l] : a.newId <= calls + 1 /\ a.newId \notin used
    BY <1>1, <2>1, <2>2
  <2>6. \A l, m \in Callers : \A a \in asked'[l], b \in asked'[m] : a.newId = b.newId => l = m
    BY <1>1, <2>1, <2>2 DEF FreshIds
  <2>7. \A n \in used : n <= calls + 1
    BY <1>1, <2>1
  <2>8. \A i \in Jobs : jobs'[i].id <= calls' /\ jobs'[i].id \in used
    BY <2>1, <2>3, <2>7
  <2>9. \A w \in Workers : \A c \in claims'[w] : c.id <= calls' /\ c.id \in used
    BY <2>1, <2>4, <2>7
  <2> QED BY <2>1, <2>5, <2>6, <2>8, <2>9 DEF FreshIds
<1>4. ASSUME NEW k \in Callers, ScheduleWrite(k) PROVE FreshIds'
  <2>1. /\ calls' = calls /\ \A l \in Callers : \A b \in asked'[l] : l # k /\ b \in asked[l]
    BY <1>4 DEF ScheduleWrite, TypeOK
  <2>2. ASSUME NEW i \in Jobs
        PROVE  jobs'[i].id \in used \/ jobs'[i].id = 0 \/ \E a \in asked[k] : jobs'[i].id = a.newId
    <3>1. CASE \E l \in Callers : \E a \in asked[l] : ScheduleInsert(l, a) /\ ScheduleWrite(l)
                                                     /\ a.job = i /\ jobs'[i].id = a.newId
      <4> PICK l \in Callers : ScheduleWrite(l) /\ \E a \in asked[l] : jobs'[i].id = a.newId
        BY <3>1
      <4> PICK a \in asked[l] : jobs'[i].id = a.newId
        OBVIOUS
      <4>1. asked'[l] = {} /\ a \in asked[l]
        BY DEF ScheduleWrite, TypeOK
      <4>2. l = k
        BY <1>4, <4>1 DEF ScheduleWrite, TypeOK
      <4> QED BY <4>2
    <3> QED BY <3>1, RowIds DEF NoRow
  <2> HIDE DEF used
  <2>3. ASSUME NEW l \in Callers, NEW b \in asked'[l], NEW n \in used \union {0} \union {a.newId : a \in asked[k]}
        PROVE  b.newId # n
    BY <1>1, <2>1, <2>3 DEF FreshIds
  <2> DEFINE known == used \union {0} \union {a.newId : a \in asked[k]}
  <2>4. calls \in Nat /\ \A n \in known : n <= calls'
    <3>1. calls \in Nat
      BY DEF TypeOK
    <3>2. \A n \in used : n <= calls
      BY <1>1, <3>1
    <3>3. \A a \in asked[k] : a.newId <= calls
      BY <1>1, <3>1
    <3> QED BY <2>1, <3>1, <3>2, <3>3
  <2>5. \A i \in Jobs : jobs'[i].id \in known
    BY <2>2
  <2>6. \A w \in Workers : \A c \in claims'[w] : c.id \in known
    BY <1>2
  <2>7. \A l \in Callers : \A b \in asked'[l] : b.newId <= calls' /\ b.newId \notin known
    BY <1>1, <2>1, <2>3
  <2>8. \A l, m \in Callers : \A a \in asked'[l], b \in asked'[m] : a.newId = b.newId => l = m
    BY <2>1 DEF FreshIds
  <2> HIDE DEF known
  <2> QED BY <2>4, <2>5, <2>6, <2>7, <2>8 DEF FreshIds
<1>5. ASSUME asked' = asked, calls' = calls PROVE FreshIds'
  <2>1. \A i \in Jobs : jobs'[i].id \in used \/ jobs'[i].id = 0
    <3> SUFFICES ASSUME NEW i \in Jobs PROVE jobs'[i].id \in used \/ jobs'[i].id = 0
        OBVIOUS
    <3>1. \A k \in Callers : \A a \in asked[k] : ~ScheduleWrite(k)
      BY <1>5 DEF ScheduleWrite, TypeOK
    <3> QED BY <3>1, RowIds DEF NoRow
  <2> HIDE DEF used
  <2> DEFINE known == used \union {0}
  <2>2. calls \in Nat /\ \A n \in known : n <= calls
    BY <1>1 DEF TypeOK
  <2>3. \A i \in Jobs : jobs'[i].id \in known
    BY <2>1
  <2>4. \A w \in Workers : \A c \in claims'[w] : c.id \in known
    BY <1>2
  <2>5. \A k \in Callers : \A a \in asked[k] : a.newId <= calls /\ a.newId \notin known
    BY <1>1
  <2>6. \A l, m \in Callers : \A a \in asked[l], b \in asked[m] : a.newId = b.newId => l = m
    BY DEF FreshIds
  <2> HIDE DEF known
  <2> QED BY <1>5, <2>2, <2>3, <2>4, <2>5, <2>6 DEF FreshIds
<1> QED
  BY <1>3, <1>4, <1>5
  DEF Next, CancelJobs, DeleteConversation, PurgeFinished, Remove, ClaimDue, StartHandler,
      FinishJob, FailJob, RejectUnknownKind, GiveUpJob, RetryJob, Settle, AbandonPass, Tick,
      vars, table

-----------------------------------------------------------------------------
\* w's handler of c ended, one way or another: only c's row is written, the pass
\* keeps no claim on the job, and an overrun is on record.
Ended(w, c) ==
    /\ \A i \in Jobs : i # c.job \/ ~Holds(c) => jobs'[i] = jobs[i]
    /\ claims'[w] = Others(w, c)
    /\ \A i \in Jobs : stray'[i] = (stray[i] \/ (i = c.job /\ Holds(c) /\ Overran(c)))
    /\ now' = now

LEMMA SettleStray ==
    ASSUME TypeOK, NEW w \in Workers, NEW c \in claims[w], NEW s, Settle(w, c, s)
    PROVE  /\ now' = now
           /\ \A i \in Jobs : stray'[i] = (stray[i] \/ (i = c.job /\ Holds(c) /\ Overran(c)))
<1> DEFINE b == stray[c.job] \/ (Holds(c) /\ Overran(c))
<1>1. now' = now /\ stray' = [stray EXCEPT ![c.job] = b]
  BY DEF Settle
<1>2. ASSUME NEW i \in Jobs, i = c.job
      PROVE  stray'[i] = (stray[i] \/ (i = c.job /\ Holds(c) /\ Overran(c)))
  <2>1. stray'[i] = b
    BY <1>1, <1>2 DEF TypeOK
  <2>2. b = (stray[i] \/ (i = c.job /\ Holds(c) /\ Overran(c)))
    BY <1>2, Zenon
  <2> QED BY <2>1, <2>2
<1>3. ASSUME NEW i \in Jobs, i # c.job
      PROVE  stray'[i] = (stray[i] \/ (i = c.job /\ Holds(c) /\ Overran(c)))
  <2>1. stray'[i] = stray[i]
    BY <1>1, <1>3 DEF TypeOK
  <2>2. stray[i] \in BOOLEAN
    BY DEF TypeOK
  <2>3. stray[i] = (stray[i] \/ (i = c.job /\ Holds(c) /\ Overran(c)))
    BY <1>3, <2>2
  <2> QED BY <2>1, <2>3
<1> QED BY <1>1, <1>2, <1>3

LEMMA EndedSteps ==
    ASSUME TypeOK, NEW w \in Workers, FinishJob(w) \/ FailJob(w) \/ RejectUnknownKind(w)
    PROVE  \E c \in claims[w] : Ended(w, c)
<1>1. CASE FinishJob(w)
  <2> PICK c \in claims[w] :
        /\ jobs' = IF Holds(c) THEN [jobs EXCEPT ![c.job] = FinishedRow(c)] ELSE jobs
        /\ claims' = [claims EXCEPT ![w] = Others(w, c)]
        /\ Settle(w, c, c.fresh)
      BY <1>1 DEF FinishJob
  <2>1. \A i \in Jobs : i # c.job \/ ~Holds(c) => jobs'[i] = jobs[i]
    BY DEF TypeOK
  <2>2. claims'[w] = Others(w, c)
    BY DEF TypeOK
  <2> QED BY <2>1, <2>2, SettleStray DEF Ended
<1>2. ASSUME NEW c \in claims[w], GiveUpJob(w, c) PROVE Ended(w, c)
  <2>1. \A i \in Jobs : i # c.job \/ ~Holds(c) => jobs'[i] = jobs[i]
    BY <1>2 DEF GiveUpJob, TypeOK
  <2>2. claims'[w] = Others(w, c)
    BY <1>2 DEF GiveUpJob, TypeOK
  <2>3. Settle(w, c, c.fresh)
    BY <1>2 DEF GiveUpJob
  <2> QED BY <2>1, <2>2, <2>3, SettleStray DEF Ended
<1>3. ASSUME NEW c \in claims[w], RetryJob(w, c) PROVE Ended(w, c)
  <2>1. \A i \in Jobs : i # c.job \/ ~Holds(c) => jobs'[i] = jobs[i]
    BY <1>3 DEF RetryJob, TypeOK
  <2>2. claims'[w] = Others(w, c)
    BY <1>3, TouchTyped DEF RetryJob, TypeOK
  <2>3. Settle(w, c, FALSE)
    BY <1>3 DEF RetryJob
  <2> QED BY <2>1, <2>2, <2>3, SettleStray DEF Ended
<1> QED BY <1>1, <1>2, <1>3 DEF FailJob, RejectUnknownKind

\* Outside ClaimDue, a claim that is live after a step was live before it, and
\* the row is still locked for it.
LEMMA LiveSurvives ==
    ASSUME TypeOK, FreshIds, LiveClaimHoldsRow, ExclusiveClaim, [Next]_vars,
           \A w \in Workers : ~ClaimDue(w),
           NEW v \in Workers, NEW d \in claims'[v], Live(d)', ~stray'[d.job]
    PROVE  /\ \E c \in claims[v] : c.job = d.job /\ Live(c) /\ ~stray[c.job]
           /\ jobs'[d.job].status = "running" /\ jobs'[d.job].lockedUntil = d.until
<1> DEFINE j == d.job
<1> PICK c \in claims[v] : c.job = d.job /\ c.id = d.id /\ c.until = d.until
    BY ClaimsDescend DEF Descends, From
<1>0. /\ c \in Claim /\ j \in Jobs /\ c.until \in Times /\ now \in Times /\ Times \subseteq Nat
      /\ jobs'[j].status # "absent" /\ jobs'[j].id = c.id /\ ~(c.until <= now')
  BY DEF TypeOK, Claim, Live, Holds, Overran, Times
<1>1. CASE jobs'[j] = jobs[j] /\ stray'[j] = stray[j] /\ (now' = now \/ now' = now + 1)
  <2>1. Live(c) /\ ~stray[c.job]
    BY <1>0, <1>1 DEF Live, Holds, Overran
  <2> QED BY <1>0, <1>1, <2>1 DEF LiveClaimHoldsRow
<1>2. ASSUME NEW k \in Callers, ScheduleWrite(k)
      PROVE  /\ Live(c) /\ ~stray[c.job]
             /\ jobs'[d.job].status = "running" /\ jobs'[d.job].lockedUntil = d.until
  <2> PICK a \in asked[k] : ScheduleInsert(k, a) \/ ScheduleUpdate(k, a) \/ ScheduleRaises(k, a)
      BY <1>2 DEF ScheduleWrite
  <2>0. a.job \in Jobs /\ now' = now
    BY <1>2 DEF TypeOK, Ask, ScheduleWrite
  <2>1. CASE a.job # j \/ ScheduleRaises(k, a)
    <3>1. jobs'[j] = jobs[j] /\ stray'[j] = stray[j]
      BY <1>0, <2>0, <2>1 DEF ScheduleInsert, ScheduleUpdate, ScheduleRaises, TypeOK, history
    <3>2. Live(c) /\ ~stray[c.job]
      BY <1>0, <2>0, <3>1 DEF Live, Holds, Overran
    <3> QED BY <1>0, <3>1, <3>2 DEF LiveClaimHoldsRow
  <2>2. CASE a.job = j /\ ScheduleInsert(k, a)
    <3>1. jobs'[j].id = a.newId
      BY <1>0, <2>2 DEF ScheduleInsert, NewRow, TypeOK
    <3>2. c.id # a.newId
      BY DEF FreshIds
    <3> QED BY <1>0, <3>1, <3>2
  <2>3. CASE a.job = j /\ ScheduleUpdate(k, a)
    <3>1. jobs'[j] = MovedRow(a) /\ jobs[j].status # "absent"
      BY <1>0, <2>3 DEF ScheduleUpdate, TypeOK
    <3>2. ~stray[j] /\ ~(a.seenStatus \in Finished /\ jobs[j].status = "running")
      <4>1. stray'[j] = (stray[j] \/ (a.seenStatus \in Finished /\ jobs[j].status = "running"))
        BY <1>0, <2>3 DEF ScheduleUpdate, TypeOK
      <4> QED BY <4>1
    <3>3. Live(c)
      BY <1>0, <2>0, <2>3, <3>1, MovedRowFields DEF Live, Holds, Overran
    <3>4. jobs[j].status = "running" /\ jobs[j].lockedUntil = c.until
      BY <3>2, <3>3 DEF LiveClaimHoldsRow
    <3> QED BY <2>3, <3>1, <3>2, <3>3, <3>4, MovedRowFields
  <2> QED BY <2>1, <2>2, <2>3
<1>3. ASSUME NEW i \in Jobs, Remove(i)
      PROVE  jobs'[j] = jobs[j] /\ stray'[j] = stray[j] /\ now' = now
  BY <1>0, <1>3 DEF Remove, NoRow, TypeOK
<1>4. ASSUME NEW w \in Workers, NEW e \in claims[w], Ended(w, e)
      PROVE  jobs'[j] = jobs[j] /\ stray'[j] = stray[j] /\ now' = now
  <2>0. now' = now /\ e.job \in Jobs
    BY <1>4 DEF Ended, TypeOK, Claim
  <2>1. CASE e.job # j \/ ~Holds(e)
    BY <1>0, <1>4, <2>0, <2>1 DEF Ended, TypeOK
  <2>2. CASE e.job = j /\ Holds(e)
    <3>1. ~stray[j] /\ Live(e)
      BY <1>0, <1>4, <2>2 DEF Ended, Live
    <3>2. Live(c)
      <4>1. jobs[j].status # "absent" /\ (jobs'[j].id = jobs[j].id \/ c.id = jobs[j].id)
        <5>1. \A k \in Callers : \A a \in asked[k] : jobs'[j].id # a.newId
          BY <1>0 DEF FreshIds
        <5>2. jobs'[j] # NoRow
          BY <1>0 DEF NoRow
        <5> QED BY <1>0, <2>2, <5>1, <5>2, RowIds DEF Holds
      <4> QED BY <1>0, <2>0, <4>1 DEF Live, Holds, Overran
    <3>3. v = w
      BY <2>2, <3>1, <3>2 DEF ExclusiveClaim
    <3>4. d.job # e.job
      BY <1>4, <3>3 DEF Ended, Others
    <3> QED BY <2>2, <3>4
  <2> QED BY <2>1, <2>2
<1>5. \/ jobs'[j] = jobs[j] /\ stray'[j] = stray[j] /\ (now' = now \/ now' = now + 1)
      \/ \E k \in Callers : ScheduleWrite(k)
  BY <1>3, <1>4, EndedSteps
  DEF Next, ScheduleRead, CancelJobs, DeleteConversation, PurgeFinished,
      StartHandler, AbandonPass, Tick, vars, table, history
<1> QED BY <1>1, <1>2, <1>5

\* A claim hands over a job only when its row is not locked for a live claim.
LEMMA LiveAfterClaim ==
    ASSUME TypeOK, LiveClaimHoldsRow, ExclusiveClaim, NEW w \in Workers, ClaimDue(w),
           NEW v \in Workers, NEW d \in claims'[v], Live(d)', ~stray'[d.job]
    PROVE  /\ jobs'[d.job].status = "running" /\ jobs'[d.job].lockedUntil = d.until
           /\ \/ v = w /\ Due(d.job)
              \/ v # w /\ d \in claims[v] /\ ~Due(d.job) /\ Live(d) /\ ~stray[d.job]
<1> PICK S \in DueBatches :
        /\ jobs' = [j \in Jobs |-> IF j \in S THEN ClaimedRow(j) ELSE jobs[j]]
        /\ claims' = [claims EXCEPT ![w] =
               {[job |-> j, id |-> jobs[j].id, attempts |-> ClaimedRow(j).attempts,
                 until |-> ClaimedRow(j).lockedUntil, running |-> FALSE,
                 moved |-> FALSE, fresh |-> FALSE] : j \in S}]
    BY DEF ClaimDue
<1>1. \A j \in S : j \in Jobs /\ Due(j)
  BY DEF DueBatches
<1>2. now' = now /\ stray' = stray
  BY DEF ClaimDue, history
<1>3. CASE v = w
  <2> PICK j \in S : d = [job |-> j, id |-> jobs[j].id, attempts |-> ClaimedRow(j).attempts,
                          until |-> ClaimedRow(j).lockedUntil, running |-> FALSE,
                          moved |-> FALSE, fresh |-> FALSE]
      BY <1>3 DEF TypeOK
  <2>1. d.job = j /\ d.until = ClaimedRow(j).lockedUntil /\ jobs'[j] = ClaimedRow(j)
    BY <1>1
  <2> QED BY <1>1, <1>3, <2>1, ClaimedRowFields
<1>4. CASE v # w
  <2>1. d \in claims[v] /\ d.job \in Jobs
    BY <1>4 DEF TypeOK, Claim
  <2>2. jobs'[d.job].id = jobs[d.job].id /\ (jobs[d.job].status = "absent" => d.job \notin S)
    BY <1>1, <2>1, ClaimedRowFields DEF Due
  <2>3. Live(d) /\ ~stray[d.job]
    BY <1>1, <1>2, <2>1, <2>2 DEF Live, Holds, Overran
  <2>4. jobs[d.job].status = "running" /\ jobs[d.job].lockedUntil = d.until
    BY <2>1, <2>3 DEF LiveClaimHoldsRow
  <2>5. ~Due(d.job)
    BY <2>3, <2>4 DEF Due, Live, Overran
  <2>6. jobs'[d.job] = jobs[d.job]
    BY <1>1, <2>1, <2>5
  <2> QED BY <1>4, <2>1, <2>3, <2>4, <2>5, <2>6
<1> QED BY <1>3, <1>4

LEMMA ExclusiveStep ==
    TypeOK /\ FreshIds /\ LiveClaimHoldsRow /\ ExclusiveClaim /\ [Next]_vars
        => LiveClaimHoldsRow' /\ ExclusiveClaim'
<1> SUFFICES ASSUME TypeOK, FreshIds, LiveClaimHoldsRow, ExclusiveClaim, [Next]_vars
             PROVE  LiveClaimHoldsRow' /\ ExclusiveClaim'
    OBVIOUS
<1>1. CASE \A w \in Workers : ~ClaimDue(w)
  <2>1. LiveClaimHoldsRow'
    BY <1>1, LiveSurvives DEF LiveClaimHoldsRow
  <2>2. ExclusiveClaim'
    <3> SUFFICES ASSUME NEW u \in Workers, NEW v \in Workers,
                        NEW c \in claims'[u], NEW d \in claims'[v],
                        Live(c)', Live(d)', c.job = d.job, ~stray'[c.job]
                 PROVE  u = v
        BY DEF ExclusiveClaim
    <3>1. \E b \in claims[u] : b.job = c.job /\ Live(b) /\ ~stray[b.job]
      BY <1>1, LiveSurvives
    <3>2. \E b \in claims[v] : b.job = d.job /\ Live(b) /\ ~stray[b.job]
      BY <1>1, LiveSurvives
    <3> QED BY <3>1, <3>2 DEF ExclusiveClaim
  <2> QED BY <2>1, <2>2
<1>2. ASSUME NEW w \in Workers, ClaimDue(w) PROVE LiveClaimHoldsRow' /\ ExclusiveClaim'
  <2>1. LiveClaimHoldsRow'
    BY <1>2, LiveAfterClaim DEF LiveClaimHoldsRow
  <2>2. ExclusiveClaim'
    <3> SUFFICES ASSUME NEW u \in Workers, NEW v \in Workers,
                        NEW c \in claims'[u], NEW d \in claims'[v],
                        Live(c)', Live(d)', c.job = d.job, ~stray'[c.job]
                 PROVE  u = v
        BY DEF ExclusiveClaim
    <3>1. \/ u = w /\ Due(c.job)
          \/ u # w /\ c \in claims[u] /\ ~Due(c.job) /\ Live(c) /\ ~stray[c.job]
      BY <1>2, LiveAfterClaim
    <3>2. \/ v = w /\ Due(d.job)
          \/ v # w /\ d \in claims[v] /\ ~Due(d.job) /\ Live(d) /\ ~stray[d.job]
      BY <1>2, LiveAfterClaim
    <3> QED BY <3>1, <3>2 DEF ExclusiveClaim
  <2> QED BY <2>1, <2>2
<1> QED BY <1>1, <1>2

-----------------------------------------------------------------------------
LEMMA UnmovedStep == TypeOK /\ UnmovedIsFresh /\ [Next]_vars => UnmovedIsFresh'
<1> SUFFICES ASSUME TypeOK, UnmovedIsFresh, [Next]_vars, NEW v \in Workers, NEW d \in claims'[v]
             PROVE  d.running /\ ~d.moved => d.fresh
    BY DEF UnmovedIsFresh
<1>1. CASE \A w \in Workers : ~ClaimDue(w)
  <2> PICK c \in claims[v] : From(d, c)
      BY <1>1, ClaimsDescend DEF Descends
  <2> QED BY DEF From, UnmovedIsFresh
<1>2. ASSUME NEW w \in Workers, ClaimDue(w) PROVE d.running /\ ~d.moved => d.fresh
  <2>1. d \in claims[v] \/ d.running = FALSE
    BY <1>2 DEF ClaimDue, TypeOK
  <2> QED BY <2>1 DEF UnmovedIsFresh
<1> QED BY <1>1, <1>2

\* The end of a run marks a row done only if the run began after the last call.
LEMMA OwedStep ==
    TypeOK /\ UnmovedIsFresh /\ OwedIsNotDone /\ [Next]_vars => OwedIsNotDone'
<1> DEFINE Kept(j) == owed[j] /\ ~missed[j] => jobs[j].status \in {"pending", "running", "failed"}
<1> SUFFICES ASSUME TypeOK, UnmovedIsFresh, [Next]_vars, NEW j \in Jobs, Kept(j)
             PROVE  Kept(j)'
    BY DEF OwedIsNotDone
<1>1. CASE jobs'[j] = jobs[j] /\ missed'[j] = missed[j] /\ (owed'[j] => owed[j])
  BY <1>1
<1>2. ASSUME NEW k \in Callers, ScheduleWrite(k) PROVE Kept(j)'
  <2> PICK a \in asked[k] : ScheduleInsert(k, a) \/ ScheduleUpdate(k, a) \/ ScheduleRaises(k, a)
      BY <1>2 DEF ScheduleWrite
  <2>0. a.job \in Jobs /\ jobs[a.job] \in Row
    BY DEF TypeOK, Ask
  <2>1. CASE a.job # j \/ ScheduleRaises(k, a)
    <3>1. jobs'[j] = jobs[j] /\ missed'[j] = missed[j] /\ owed'[j] = owed[j]
      BY <2>0, <2>1 DEF ScheduleInsert, ScheduleUpdate, ScheduleRaises, TypeOK, history
    <3> QED BY <3>1
  <2>2. CASE a.job = j /\ ScheduleInsert(k, a)
    <3>1. jobs'[j].status = "pending"
      BY <2>0, <2>2 DEF ScheduleInsert, NewRow, TypeOK
    <3> QED BY <3>1
  <2>3. CASE a.job = j /\ ScheduleUpdate(k, a)
    <3>1. jobs'[j] = MovedRow(a) /\ jobs[j].status # "absent"
      BY <2>0, <2>3 DEF ScheduleUpdate, TypeOK
    <3>2. missed'[j] = (a.seenStatus \notin Finished /\ jobs[j].status \in Finished)
      BY <2>0, <2>3 DEF ScheduleUpdate, TypeOK
    <3>3. jobs[j].status \in {"pending", "running"} \/ jobs[j].status \in Finished
      BY <2>0, <2>3, <3>1 DEF Row, Status
    <3> QED BY <2>3, <3>1, <3>2, <3>3, MovedRowFields
  <2> QED BY <2>1, <2>2, <2>3
<1>3. ASSUME NEW i \in Jobs, Remove(i) PROVE Kept(j)'
  <2>1. CASE i = j
    <3>1. owed'[j] = FALSE
      BY <1>3, <2>1 DEF Remove, TypeOK
    <3> QED BY <3>1
  <2>2. CASE i # j
    BY <1>1, <1>3, <2>2 DEF Remove, TypeOK
  <2> QED BY <2>1, <2>2
<1>4. ASSUME NEW w \in Workers, ClaimDue(w) PROVE Kept(j)'
  <2>1. jobs'[j] = jobs[j] \/ jobs'[j].status = "running"
    BY <1>4, ClaimedRowFields DEF ClaimDue
  <2>2. owed' = owed /\ missed' = missed
    BY <1>4 DEF ClaimDue, history
  <2> QED BY <2>1, <2>2
<1>5. ASSUME NEW w \in Workers, NEW c \in claims[w], NEW s \in BOOLEAN, Settle(w, c, s)
      PROVE  missed' = missed /\ (owed'[j] => owed[j]) /\ (c.job = j /\ Holds(c) /\ s => ~owed'[j])
  <2> DEFINE b == owed[c.job] /\ ~(Holds(c) /\ s)
  <2>1. missed' = missed /\ owed' = [owed EXCEPT ![c.job] = b]
    BY <1>5 DEF Settle
  <2>2. CASE c.job = j
    <3>1. owed'[j] = b
      BY <2>1, <2>2 DEF TypeOK
    <3> QED BY <2>1, <2>2, <3>1
  <2>3. CASE c.job # j
    <3>1. owed'[j] = owed[j]
      BY <2>1, <2>3 DEF TypeOK
    <3> QED BY <2>1, <2>3, <3>1
  <2> QED BY <2>2, <2>3
<1>6. ASSUME NEW w \in Workers, FinishJob(w) PROVE Kept(j)'
  <2> PICK c \in claims[w] :
        /\ c.running
        /\ jobs' = IF Holds(c) THEN [jobs EXCEPT ![c.job] = FinishedRow(c)] ELSE jobs
        /\ Settle(w, c, c.fresh)
      BY <1>6 DEF FinishJob
  <2>0. c \in Claim /\ c.fresh \in BOOLEAN /\ c.job \in Jobs
    BY DEF TypeOK, Claim
  <2>1. missed' = missed /\ (owed'[j] => owed[j]) /\ (c.job = j /\ Holds(c) /\ c.fresh => ~owed'[j])
    BY <2>0, <1>5
  <2>2. CASE c.job # j \/ ~Holds(c)
    <3>1. jobs'[j] = jobs[j]
      BY <2>2 DEF TypeOK
    <3> QED BY <1>1, <2>1, <3>1
  <2>3. CASE c.job = j /\ Holds(c) /\ ~c.moved
    <3>1. c.fresh
      BY <2>3 DEF UnmovedIsFresh
    <3> QED BY <2>1, <2>3, <3>1
  <2>4. CASE c.job = j /\ Holds(c) /\ c.moved
    <3>1. jobs[j] \in Row /\ jobs'[j] = FinishedRow(c)
      BY <2>4 DEF TypeOK
    <3>2. FinishedRow(c) = [jobs[j] EXCEPT !.status = "pending", !.lockedUntil = 0, !.attempts = 0]
      BY <2>4 DEF FinishedRow
    <3>3. jobs'[j].status = "pending"
      BY <3>1, <3>2 DEF Row
    <3> QED BY <3>3
  <2> QED BY <2>2, <2>3, <2>4
<1>7. ASSUME NEW w \in Workers, NEW c \in claims[w], RetryJob(w, c) \/ GiveUpJob(w, c) PROVE Kept(j)'
  <2>0. c \in Claim /\ c.fresh \in BOOLEAN /\ c.job \in Jobs /\ jobs[j] \in Row
    BY DEF TypeOK, Claim
  <2>1. missed' = missed /\ (owed'[j] => owed[j])
    BY <2>0, <1>5, <1>7 DEF RetryJob, GiveUpJob
  <2>2. jobs'[j] = jobs[j] \/ jobs'[j].status \in {"pending", "failed"}
    <3>1. CASE RetryJob(w, c)
      BY <2>0, <3>1 DEF RetryJob, TypeOK, Row
    <3>2. CASE GiveUpJob(w, c)
      BY <2>0, <3>2 DEF GiveUpJob, TypeOK, Row
    <3> QED BY <1>7, <3>1, <3>2
  <2> QED BY <2>1, <2>2
<1> QED
  BY <1>1, <1>2, <1>3, <1>4, <1>6, <1>7
  DEF Next, ScheduleRead, CancelJobs, DeleteConversation, PurgeFinished, StartHandler,
      FailJob, RejectUnknownKind, AbandonPass, Tick, vars, table, history

-----------------------------------------------------------------------------
\* The inductive invariant of the queue.
THEOREM QueueInvariant == Spec => [](TypeOK /\ QueueInv)
<1>1. Init => QueueInv
  <2> SUFFICES ASSUME Init PROVE QueueInv
      OBVIOUS
  <2>1. \A j \in Jobs : jobs[j].id = 0 /\ (jobs[j].status = "pending" \/ ~owed[j])
    BY DEF Init, NoRow
  <2> QED BY <2>1 DEF Init, QueueInv, FreshIds, LiveClaimHoldsRow, ExclusiveClaim,
                      UnmovedIsFresh, OwedIsNotDone
<1>2. TypeOK /\ QueueInv /\ [Next]_vars => QueueInv'
  BY FreshIdsStep, ExclusiveStep, UnmovedStep, OwedStep DEF QueueInv
<1> QED BY <1>1, <1>2, TypeCorrect, PTL DEF Spec

\* claim_due_agent_jobs hands a job to one worker at a time, for any number of
\* workers, callers and jobs, as long as no claim past its lease writes the row.
THEOREM ClaimsAreExclusive == Spec => []ExclusiveClaim
BY QueueInvariant, PTL DEF QueueInv

\* finish_agent_job never swallows a schedule call made while the job ran,
\* unless that call itself decided from a read that was outdated when it wrote.
THEOREM OwedWorkIsNotDone == Spec => []OwedIsNotDone
BY QueueInvariant, PTL DEF QueueInv
=============================================================================
