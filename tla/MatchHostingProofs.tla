------------------------- MODULE MatchHostingProofs -------------------------
(***************************************************************************)
(* The safety of match hosting, for any users, jobs, operators, workers    *)
(* and bounds: types, with the attempts of a job; the notes of the plan;   *)
(* and that nobody is introduced twice.                                    *)
(***************************************************************************)
EXTENDS MatchHosting, FiniteSetTheorems, SequenceTheorems, TLAPS

Kinds == {"intro", "reminder", "check_in"}

Run == [job : Jobs \union {NoJob}, step : {"idle", "writing", "said", "unsent", "noted"},
        attempts : Nat, moved : BOOLEAN, fresh : BOOLEAN, tries : Nat]

\* What a run holds goes with its step.
Fits(a) == /\ a \in Run
           /\ a.job = NoJob <=> a.step = "idle"
           /\ a.job = NoJob => a = Idle
           /\ a.tries <= Tries
           /\ a.step = "writing" => a.tries < Tries

RunsFit(f) == f \in [Workers -> Run] /\ \A w \in Workers : Fits(f[w])

\* The types, and what goes with a step.
Shape ==
    /\ status \in Statuses
    /\ told \in [Users -> {"none", "sent", "unsent"}]
    /\ outcomes \subseteq Users \X Outcomes
    /\ operator \in [Operators -> [step : {"idle", "checked", "scheduling", "over"}, next : Nat]]
    /\ \A o \in Operators : /\ operator[o].next \in 1..(Len(Scheduled) + 1)
                            /\ operator[o].step # "over" => operator[o].next <= Len(Scheduled)
    /\ row \in [Jobs -> {"none", "pending", "running", "done", "failed"}]
    /\ attempts \in [Jobs -> Nat]
    /\ RunsFit(run)
    /\ writes \in 0..MaxWrites /\ patches \in 0..MaxPatches /\ faults \in 0..MaxFaults
    /\ raced \in BOOLEAN /\ repeated \in [Users -> BOOLEAN] /\ intros \in [Users -> 0..2]

\* The runs at job j, and those of them that an error would have tried again.
On(j) == {w \in Workers : run[w].job = j}
Low(j) == {w \in On(j) : run[w].attempts < MaxAttempts}

\* The row of j owes an attempt: it is due, or its run has died.
Owes(j) == row[j] = "pending" \/ (row[j] = "running" /\ On(j) = {})

\* A run at a job is there by its row or by a fault, and every attempt past
\* MaxAttempts is paid for by a fault, the ones that may be owed still included.
CountedAt(j) ==
    /\ IsFiniteSet(On(j))
    /\ Cardinality(On(j)) <= faults + (IF row[j] = "running" THEN 1 ELSE 0)
    /\ attempts[j] + Cardinality(Low(j)) + (IF Owes(j) THEN 1 ELSE 0) <= MaxAttempts + faults
    /\ row[j] = "none" => attempts[j] = 0

Counted == \A j \in Jobs : CountedAt(j)

\* While nothing excuses it, an introduction has one run at most, whose row is
\* running; once it is said, its run is there until the row is done.
SingleAt(j) ==
    /\ \A v, w \in On(j) : v = w
    /\ \A w \in On(j) : ~run[w].moved /\ row[j] = "running"
    /\ intros[j.user] <= 1
    /\ intros[j.user] = 1 =>
          row[j] = "done" \/ \E w \in On(j) : run[w].step \in {"said", "noted"}

Single == \A j \in Jobs : j.kind = "intro" /\ ~repeated[j.user] => SingleAt(j)

\* Only who has an introduction is introduced.
Introducible == \A u \in Users : intros[u] > 0 => [user |-> u, kind |-> "intro"] \in Jobs

HostInv == Shape /\ NotesKept /\ Counted /\ Single /\ Introducible

-----------------------------------------------------------------------------
(* Types.                                                                  *)

LEMMA JobsAre ==
  /\ Len(Scheduled) \in Nat \ {0}
  /\ \A k \in 1..Len(Scheduled) : Scheduled[k] \in Jobs
  /\ Jobs \subseteq [user : Users, kind : Kinds]
  /\ NoJob \notin Jobs
<1>1. Len(Scheduled) \in Nat \ {0} /\ DOMAIN Scheduled = 1..Len(Scheduled)
  BY MatchHostingAssumption, EmptySeq, LenProperties
<1>2. \A k \in 1..Len(Scheduled) : Scheduled[k] \in [user : Users, kind : Kinds]
  BY <1>1, MatchHostingAssumption, ElementOfSeq DEF Kinds
<1>3. Jobs \subseteq [user : Users, kind : Kinds] BY <1>1, <1>2 DEF Jobs, ToSet
<1>4. \A j \in [user : Users, kind : Kinds] : j.kind # "none" BY DEF Kinds
<1>5. NoJob.kind = "none" BY DEF NoJob
<1> QED BY <1>1, <1>3, <1>4, <1>5 DEF Jobs, ToSet

\* One entry of the runs is replaced.
LEMMA OneRun ==
  ASSUME NEW f, RunsFit(f), NEW w \in Workers, NEW a, Fits(a)
  PROVE  RunsFit([f EXCEPT ![w] = a])
BY DEF RunsFit, Fits

LEMMA IdleFits == Fits(Idle)
BY MatchHostingAssumption DEF Idle, NoJob, Fits, Run

\* A run that is marked, as moved or as outrun, and otherwise as it was.
Marks(a, b) == /\ a.job = b.job /\ a.step = b.step /\ a.attempts = b.attempts /\ a.tries = b.tries
               /\ a.job = NoJob => a = b

MarksAll(f) == RunsFit(f) /\ \A w \in Workers : Marks(run[w], f[w])

LEMMA MovesMark == ASSUME Shape, NEW u PROVE MarksAll(Moves(u))
<1>1. ASSUME NEW a \in Run, Fits(a), a.step = "writing"
      PROVE  Fits([a EXCEPT !.fresh = FALSE]) /\ Marks(a, [a EXCEPT !.fresh = FALSE])
  BY <1>1 DEF Run, Fits, Marks
<1>2. \A a \in Run : Marks(a, a) BY DEF Marks
<1>3. RunsFit(run) BY DEF Shape
<1>4. Moves(u) \in [Workers -> Run] BY <1>1, <1>3 DEF Moves, RunsFit, Fits
<1> QED BY <1>1, <1>2, <1>3, <1>4 DEF Moves, RunsFit, MarksAll

LEMMA MovedMark == ASSUME Shape, NEW j \in Jobs PROVE MarksAll(Moved(j))
<1>1. ASSUME NEW a \in Run, Fits(a), a.job = j
      PROVE  Fits([a EXCEPT !.moved = TRUE]) /\ Marks(a, [a EXCEPT !.moved = TRUE])
  BY <1>1, JobsAre DEF Run, Fits, Marks
<1>2. \A a \in Run : Marks(a, a) BY DEF Marks
<1>3. RunsFit(run) BY DEF Shape
<1>4. Moved(j) \in [Workers -> Run] BY <1>1, <1>3 DEF Moved, RunsFit, Fits
<1> QED BY <1>1, <1>2, <1>3, <1>4 DEF Moved, RunsFit, MarksAll

LEMMA ShapeInit == ASSUME Init PROVE Shape
<1>1. RunsFit(run) BY IdleFits DEF Init, RunsFit, Fits
<1>2. /\ operator \in [Operators -> [step : {"idle", "checked", "scheduling", "over"}, next : Nat]]
      /\ \A o \in Operators : /\ operator[o].next \in 1..(Len(Scheduled) + 1)
                              /\ operator[o].step # "over" => operator[o].next <= Len(Scheduled)
  BY JobsAre DEF Init
<1>3. status \in Statuses BY DEF Init, Statuses
<1>4. /\ told \in [Users -> {"none", "sent", "unsent"}] /\ outcomes \subseteq Users \X Outcomes
      /\ row \in [Jobs -> {"none", "pending", "running", "done", "failed"}]
      /\ attempts \in [Jobs -> Nat]
  BY DEF Init
<1>5. /\ writes \in 0..MaxWrites /\ patches \in 0..MaxPatches /\ faults \in 0..MaxFaults
      /\ intros \in [Users -> 0..2]
  BY MatchHostingAssumption DEF Init
<1>6. raced \in BOOLEAN /\ repeated \in [Users -> BOOLEAN] BY DEF Init
<1> QED BY <1>1, <1>2, <1>3, <1>4, <1>5, <1>6 DEF Shape

\* The operator's requests, and what is set by hand.
LEMMA OperatorTypes ==
  ASSUME Shape,
         \/ \E o \in Operators : CheckProposed(o) \/ SetPlan(o) \/ RequestDies(o)
         \/ \E s \in Patches : Patch(s)
         \/ DeletePair
         \/ \E u \in Users, s \in Says : RecordOutcome(u, s)
  PROVE  Shape'
<1>1. ASSUME NEW o \in Operators, CheckProposed(o) PROVE Shape'
  BY <1>1 DEF CheckProposed, Shape, plan, queue, bounds, history
<1>2. ASSUME NEW o \in Operators, SetPlan(o) PROVE Shape'
  BY <1>2 DEF SetPlan, Shape, plan, queue, bounds, history, Statuses
<1>3. ASSUME NEW o \in Operators, RequestDies(o) PROVE Shape'
  BY <1>3, MatchHostingAssumption DEF RequestDies, Shape, plan, queue
<1>4. ASSUME NEW s \in Patches, Patch(s) PROVE Shape'
  BY <1>4, MatchHostingAssumption DEF Patch, Shape, plan, queue
<1>5. ASSUME DeletePair PROVE Shape'
  BY <1>5 DEF DeletePair, Shape, plan, queue, bounds, history, Statuses
<1>6. ASSUME NEW u \in Users, NEW s \in Says, RecordOutcome(u, s) PROVE Shape'
  BY <1>6, MatchHostingAssumption DEF RecordOutcome, Shape, queue, bounds, Statuses
<1> QED BY <1>1, <1>2, <1>3, <1>4, <1>5, <1>6

LEMMA ScheduleTypes == ASSUME Shape, NEW o \in Operators, ScheduleNext(o) PROVE Shape'
<1>1. PICK n \in 1..Len(Scheduled) : n = operator[o].next
  BY DEF ScheduleNext, Shape
<1>2. PICK j \in Jobs : j = Scheduled[n] BY <1>1, JobsAre
<1>3. /\ row' = [row EXCEPT ![j] = IF @ = "running" THEN @ ELSE "pending"]
      /\ attempts' = [attempts EXCEPT ![j] = IF row[j] \in {"done", "failed"} THEN 0 ELSE @]
      /\ run' = Moved(j)
      /\ repeated' = [repeated EXCEPT ![j.user] = @ \/ (j.kind = "intro" /\ row[j] # "none")]
      /\ operator' = [operator EXCEPT ![o] = [step |-> IF n = Len(Scheduled) THEN "over" ELSE @.step,
                                              next |-> n + 1]]
      /\ UNCHANGED <<status, told, outcomes, intros, writes, patches, faults, noted, raced>>
  BY <1>1, <1>2 DEF ScheduleNext, Scheduling, plan, bounds
<1>4. RunsFit(run)' BY <1>3, MovedMark DEF MarksAll, RunsFit, Fits
<1>5. /\ operator' \in [Operators -> [step : {"idle", "checked", "scheduling", "over"}, next : Nat]]
      /\ \A p \in Operators : /\ operator'[p].next \in 1..(Len(Scheduled) + 1)
                              /\ operator'[p].step # "over" => operator'[p].next <= Len(Scheduled)
  BY <1>1, <1>3, JobsAre DEF Shape
<1>6. repeated' \in [Users -> BOOLEAN] /\ row' \in [Jobs -> {"none", "pending", "running", "done", "failed"}]
      /\ attempts' \in [Jobs -> Nat]
  BY <1>3, JobsAre DEF Shape
<1> QED BY <1>3, <1>4, <1>5, <1>6 DEF Shape

\* Queue rows, and the bounds, after a step of a run.
QueueTypes ==
    /\ row \in [Jobs -> {"none", "pending", "running", "done", "failed"}]
    /\ attempts \in [Jobs -> Nat]
    /\ faults \in 0..MaxFaults /\ repeated \in [Users -> BOOLEAN]

\* What a step of the handlers leaves alone.
Outside == <<status, outcomes, operator, patches, raced>>

LEMMA RunTypes ==
  ASSUME Shape, UNCHANGED Outside, RunsFit(run)', QueueTypes',
         told' \in [Users -> {"none", "sent", "unsent"}],
         intros' \in [Users -> 0..2], writes' \in 0..MaxWrites
  PROVE  Shape'
BY DEF Shape, Outside, QueueTypes

\* The job of a run at work.
LEMMA AtJob ==
  ASSUME Shape, NEW w \in Workers, run[w].step # "idle" \/ run[w] # Idle
  PROVE  run[w].job \in Jobs /\ run[w].job.user \in Users /\ run[w] \in Run /\ Fits(run[w])
<1>1. Fits(run[w]) /\ run[w] \in Run BY DEF Shape, RunsFit
<1>2. run[w].job # NoJob BY <1>1 DEF Fits
<1>3. run[w].job \in Jobs BY <1>1, <1>2 DEF Run
<1> QED BY <1>1, <1>3, JobsAre

LEMMA TalkTypes ==
  ASSUME Shape,
         \/ \E u \in Users : Write(u)
         \/ \E w \in Workers : Say(w) \/ Reread(w) \/ SayNothing(w) \/ Note(w)
  PROVE  Shape'
<1>0. QueueTypes BY DEF Shape, QueueTypes
<1>1. ASSUME NEW u \in Users, Write(u) PROVE Shape'
  <2>1. RunsFit(run)' BY <1>1, MovesMark DEF Write, MarksAll, RunsFit, Fits
  <2>2. QueueTypes' /\ UNCHANGED Outside /\ told' = told /\ intros' = intros
    BY <1>0, <1>1 DEF Write, plan, history, QueueTypes, Outside
  <2>3. writes' \in 0..MaxWrites BY <1>1, MatchHostingAssumption DEF Write, Shape
  <2> QED BY <2>1, <2>2, <2>3, RunTypes DEF Shape
<1>2. ASSUME NEW w \in Workers, Say(w) PROVE Shape'
  <2>1. PICK j \in Jobs, a \in Run : j = run[w].job /\ a = run[w] /\ Fits(a) /\ j.user \in Users
    BY <1>2, AtJob DEF Say
  <2>2. PICK g : g = Moves(j.user) OBVIOUS
  <2>3. RunsFit(g) /\ Marks(a, g[w]) BY <2>1, <2>2, MovesMark DEF MarksAll
  <2>4. PICK b : b = [g[w] EXCEPT !.step = "said"] OBVIOUS
  <2>5. run' = [g EXCEPT ![w] = b] BY <1>2, <2>1, <2>2, <2>4 DEF Say
  <2>6. Fits(b)
    <3>1. g[w] \in Run /\ g[w].job = j /\ j # NoJob /\ g[w].tries <= Tries
      BY <2>1, <2>3, JobsAre DEF RunsFit, Fits, Marks
    <3> QED BY <2>4, <3>1 DEF Fits, Run
  <2>7. RunsFit(run)' BY <2>3, <2>5, <2>6, OneRun DEF RunsFit, Fits
  <2>8. intros' \in [Users -> 0..2]
    <3>1. \A n \in 0..2 : Min({n + 1, 2}) \in 0..2
      <4> SUFFICES ASSUME NEW n \in 0..2 PROVE Min({n + 1, 2}) \in 0..2 OBVIOUS
      <4>1. n + 1 \in Int /\ 2 \in Int /\ (n + 1 <= 2 \/ 2 <= n + 1) OBVIOUS
      <4>2. \E x \in {n + 1, 2} : \A y \in {n + 1, 2} : x =< y BY <4>1
      <4>3. Min({n + 1, 2}) \in {n + 1, 2} /\ \A y \in {n + 1, 2} : Min({n + 1, 2}) =< y
        BY <4>2 DEF Min
      <4> QED BY <4>3
    <3> QED BY <1>2, <2>1, <3>1 DEF Say, Shape
  <2>9. QueueTypes' /\ UNCHANGED Outside /\ told' = told /\ writes' = writes
    BY <1>0, <1>2 DEF Say, plan, history, bounds, QueueTypes, Outside
  <2> QED BY <2>7, <2>8, <2>9, RunTypes DEF Shape
<1>3. ASSUME NEW w \in Workers, Reread(w) PROVE Shape'
  <2>1. PICK a \in Run : a = run[w] /\ Fits(a) /\ a.job # NoJob /\ a.step = "writing"
    BY <1>3, AtJob, JobsAre DEF Reread
  <2>2. PICK c : c = [a EXCEPT !.fresh = TRUE, !.tries = a.tries + 1] OBVIOUS
  <2>3. c \in Run /\ c.job = a.job /\ c.step = "writing" /\ c.tries = a.tries + 1 /\ c.tries <= Tries
    <3>1. a.tries \in Nat /\ Tries \in Nat /\ a.tries < Tries
      BY <2>1, MatchHostingAssumption DEF Run, Fits
    <3>2. c \in Run /\ c.job = a.job /\ c.step = a.step /\ c.tries = a.tries + 1
      <4>1. PICK d : d = [a EXCEPT !.fresh = TRUE] OBVIOUS
      <4>2. d \in Run /\ d.job = a.job /\ d.step = a.step /\ d.tries = a.tries BY <4>1 DEF Run
      <4>3. c = [d EXCEPT !.tries = a.tries + 1] BY <2>2, <4>1
      <4>4. a.tries + 1 \in Nat BY <3>1
      <4> HIDE <4>1
      <4> QED BY <4>2, <4>3, <4>4 DEF Run
    <3> QED BY <2>1, <3>1, <3>2
  <2>4. PICK b : b = IF c.tries = Tries THEN [c EXCEPT !.step = "unsent"] ELSE c OBVIOUS
  <2>7. Fits(b)
    <3>1. CASE c.tries = Tries BY <2>1, <2>3, <2>4, <3>1 DEF Fits, Run
    <3>2. CASE c.tries # Tries
      <4>1. c.tries < Tries BY <2>3, <3>2, MatchHostingAssumption DEF Run
      <4> QED BY <2>1, <2>3, <2>4, <3>2, <4>1 DEF Fits
    <3> QED BY <3>1, <3>2
  <2>8. run' = [run EXCEPT ![w] = b] BY <1>3, <2>1, <2>2, <2>4 DEF Reread
  <2>5. RunsFit(run)' BY <2>7, <2>8, OneRun DEF Shape, RunsFit, Fits
  <2>6. QueueTypes' /\ UNCHANGED <<Outside, told, intros, writes>>
    BY <1>0, <1>3 DEF Reread, plan, history, bounds, QueueTypes, Outside
  <2> QED BY <2>5, <2>6, RunTypes DEF Shape
<1>4. ASSUME NEW w \in Workers, SayNothing(w) PROVE Shape'
  <2>1. PICK a \in Run : a = run[w] /\ Fits(a) /\ a.job # NoJob
    BY <1>4, AtJob, JobsAre DEF SayNothing
  <2>2. PICK b : b = [a EXCEPT !.step = "unsent"] OBVIOUS
  <2>3. Fits(b) BY <2>1, <2>2 DEF Fits, Run
  <2>4. run' = [run EXCEPT ![w] = b] BY <1>4, <2>1, <2>2 DEF SayNothing
  <2>5. RunsFit(run)' BY <2>3, <2>4, OneRun DEF Shape, RunsFit, Fits
  <2>6. QueueTypes' /\ UNCHANGED <<Outside, told, intros, writes>>
    BY <1>0, <1>4 DEF SayNothing, plan, history, bounds, QueueTypes, Outside
  <2> QED BY <2>5, <2>6, RunTypes DEF Shape
<1>5. ASSUME NEW w \in Workers, Note(w) PROVE Shape'
  <2>1. PICK a \in Run : a = run[w] /\ Fits(a) /\ a.job # NoJob
    BY <1>5, AtJob, JobsAre DEF Note
  <2>2. PICK b : b = [a EXCEPT !.step = "noted"] OBVIOUS
  <2>3. Fits(b) BY <2>1, <2>2 DEF Fits, Run
  <2>4. run' = [run EXCEPT ![w] = b] BY <1>5, <2>1, <2>2 DEF Note
  <2>5. RunsFit(run)' BY <2>3, <2>4, OneRun DEF Shape, RunsFit, Fits
  <2>6. QueueTypes' /\ UNCHANGED <<Outside, intros, writes>>
    BY <1>0, <1>5 DEF Note, plan, history, bounds, QueueTypes, Outside
  <2>7. told' \in [Users -> {"none", "sent", "unsent"}]
    BY <1>5 DEF Note, Noted, Shape
  <2> QED BY <2>5, <2>6, <2>7, RunTypes DEF Shape
<1> QED BY <1>1, <1>2, <1>3, <1>4, <1>5
\* A run ends, the others marked at most.
LEMMA EndFits ==
  ASSUME Shape, NEW w \in Workers, NEW f, MarksAll(f), run' = [f EXCEPT ![w] = Idle]
  PROVE  RunsFit(run)'
<1>1. RunsFit(run') BY OneRun, IdleFits DEF MarksAll
<1> QED BY <1>1 DEF RunsFit, Fits

LEMMA SelfMarks == ASSUME Shape PROVE MarksAll(run)
<1>1. \A a \in Run : Marks(a, a) BY DEF Marks
<1> QED BY <1>1 DEF Shape, RunsFit, MarksAll

\* A run that begins: what it holds.
Begun(j, n) == [Idle EXCEPT !.job = j, !.step = "writing", !.attempts = n]

LEMMA BegunFits ==
  ASSUME NEW j \in Jobs, NEW n \in Nat
  PROVE  LET b == Begun(j, n) IN
         Fits(b) /\ b.job = j /\ b.step = "writing" /\ b.attempts = n /\ ~b.moved
<1>1. PICK a : a = [Idle EXCEPT !.job = j] OBVIOUS
<1>2. PICK b : b = [a EXCEPT !.step = "writing"] OBVIOUS
<1>3. a = [job |-> j, step |-> "idle", attempts |-> 0, moved |-> FALSE, fresh |-> TRUE, tries |-> 0]
  BY <1>1 DEF Idle
<1>4. b = [job |-> j, step |-> "writing", attempts |-> 0, moved |-> FALSE, fresh |-> TRUE, tries |-> 0]
  BY <1>2, <1>3
<1>5. Begun(j, n) = [b EXCEPT !.attempts = n] BY <1>1, <1>2 DEF Begun
<1>6. Begun(j, n) = [job |-> j, step |-> "writing", attempts |-> n,
                     moved |-> FALSE, fresh |-> TRUE, tries |-> 0]
  BY <1>4, <1>5
<1> QED BY <1>6, JobsAre, MatchHostingAssumption DEF Fits, Run

LEMMA QueueStepTypes ==
  ASSUME Shape,
         \/ \E j \in Jobs : Pass(j) \/ \E w \in Workers : Begin(w, j)
         \/ \E w \in Workers : Defer(w) \/ Finish(w) \/ Fail(w) \/ Die(w)
  PROVE  Shape'
<1>1. ASSUME NEW j \in Jobs, Pass(j) PROVE Shape'
  BY <1>1 DEF Pass, Shape, RunsFit, Fits, plan, bounds, history
<1>2. ASSUME NEW j \in Jobs, NEW w \in Workers, Begin(w, j) PROVE Shape'
  <2>1. PICK b : b = Begun(j, attempts[j] + 1) OBVIOUS
  <2>2. Fits(b) BY <2>1, BegunFits DEF Shape
  <2>3. run' = [run EXCEPT ![w] = b] BY <1>2, <2>1 DEF Begin, Begun
  <2>4. RunsFit(run)' BY <2>2, <2>3, OneRun DEF Shape, RunsFit, Fits
  <2>5. faults' \in 0..MaxFaults
    <3>1. faults' = faults \/ (faults < MaxFaults /\ faults' = faults + 1)
      BY <1>2 DEF Begin, Claims
    <3>2. faults \in 0..MaxFaults /\ MaxFaults \in Nat BY MatchHostingAssumption DEF Shape
    <3> QED BY <3>1, <3>2
  <2>8. repeated' \in [Users -> BOOLEAN] BY <1>2 DEF Begin, Claims, Shape
  <2>6. row' \in [Jobs -> {"none", "pending", "running", "done", "failed"}]
    BY <1>2 DEF Begin, Shape
  <2>9. attempts' \in [Jobs -> Nat]
    <3>1. attempts' = [attempts EXCEPT ![j] = attempts[j] + 1] BY <1>2 DEF Begin
    <3>2. attempts \in [Jobs -> Nat] BY DEF Shape
    <3> QED BY <3>1, <3>2
  <2>7. UNCHANGED <<Outside, told, intros, writes>> BY <1>2 DEF Begin, plan, Outside
  <2> QED BY <2>4, <2>5, <2>6, <2>7, <2>8, <2>9, RunTypes DEF QueueTypes, Shape
<1>3. ASSUME NEW w \in Workers, Defer(w) \/ Finish(w) \/ Fail(w) \/ Die(w) PROVE Shape'
  <2>1. run[w].job \in Jobs /\ run[w].job.user \in Users
    BY <1>3, AtJob DEF Defer, Finish, Fail, Die
  <2>2. PICK j \in Jobs : j = run[w].job BY <2>1
  <2>3. \E f : MarksAll(f) /\ run' = [f EXCEPT ![w] = Idle]
    BY <1>3, <2>2, SelfMarks, MovedMark DEF Defer, Finish, Fail, Die
  <2>4. RunsFit(run)' BY <2>3, EndFits
  <2>5. faults' \in 0..MaxFaults
    BY <1>3, MatchHostingAssumption DEF Defer, Finish, Fail, Die, Shape, bounds
  <2>6. repeated' \in [Users -> BOOLEAN]
    BY <1>3, <2>1 DEF Defer, Finish, Fail, Die, Shape, history
  <2>7. row' \in [Jobs -> {"none", "pending", "running", "done", "failed"}]
    BY <1>3 DEF Defer, Finish, Fail, Die, Shape, EndedRow
  <2>8. attempts' \in [Jobs -> Nat] BY <1>3 DEF Defer, Finish, Fail, Die, Shape
  <2>9. UNCHANGED <<Outside, told, intros, writes>>
    BY <1>3 DEF Defer, Finish, Fail, Die, plan, bounds, history, Outside
  <2> QED BY <2>4, <2>5, <2>6, <2>7, <2>8, <2>9, RunTypes DEF QueueTypes, Shape
<1> QED BY <1>1, <1>2, <1>3
-----------------------------------------------------------------------------
(* Who is at which job, after a step.                                      *)

\* One run goes on as it was at its job, the others marked at most.
LEMMA KeepsOn ==
  ASSUME NEW f, MarksAll(f), NEW w \in Workers, NEW b, NEW j \in Jobs,
         b.job = run[w].job, b.attempts = run[w].attempts,
         run' = [f EXCEPT ![w] = b] \/ run' = f
  PROVE  On(j)' = On(j) /\ Low(j)' = Low(j)
<1>1. DOMAIN f = Workers BY DEF MarksAll, RunsFit
<1>2. \A v \in Workers : run'[v].job = run[v].job /\ run'[v].attempts = run[v].attempts
  BY <1>1 DEF MarksAll, Marks
<1> QED BY <1>2 DEF On, Low

LEMMA LeavesOn ==
  ASSUME NEW f, MarksAll(f), NEW w \in Workers, NEW j \in Jobs, run' = [f EXCEPT ![w] = Idle]
  PROVE  On(j)' = On(j) \ {w} /\ Low(j)' = Low(j) \ {w}
<1>1. DOMAIN f = Workers BY DEF MarksAll, RunsFit
<1>2. \A v \in Workers \ {w} : run'[v].job = run[v].job /\ run'[v].attempts = run[v].attempts
  BY <1>1 DEF MarksAll, Marks
<1>3. run'[w].job # j BY <1>1, JobsAre DEF Idle
<1> QED BY <1>2, <1>3 DEF On, Low

LEMMA JoinsOn ==
  ASSUME Shape, NEW w \in Workers, NEW b, NEW i \in Jobs, NEW j \in Jobs,
         run[w] = Idle, b.job = j, run' = [run EXCEPT ![w] = b]
  PROVE  /\ On(i)' = IF i = j THEN On(i) \union {w} ELSE On(i)
         /\ Low(i)' = IF i = j /\ b.attempts < MaxAttempts THEN Low(i) \union {w} ELSE Low(i)
         /\ w \notin On(i)
<1>1. DOMAIN run = Workers BY DEF Shape, RunsFit
<1>2. \A v \in Workers \ {w} : run'[v] = run[v] BY <1>1
<1>3. run[w].job # i /\ run'[w] = b BY <1>1, JobsAre DEF Idle
<1> QED BY <1>2, <1>3 DEF On, Low

-----------------------------------------------------------------------------
(* What the plan holds.                                                    *)

LEMMA NotesKeptStep == ASSUME Shape, NotesKept, Next PROVE NotesKept'
<1>1. ASSUME UNCHANGED <<told, outcomes, noted>>, raced' = raced PROVE NotesKept'
  BY <1>1 DEF NotesKept, Notes
<1>2. ASSUME NEW o \in Operators, SetPlan(o) PROVE NotesKept'
  <2>1. CASE status = "gone" BY <1>1, <1>2, <2>1 DEF SetPlan, plan, history
  <2>2. CASE status # "gone" /\ ~raced'
    <3>1. noted' = {} /\ told' = [u \in Users |-> "none"] /\ outcomes' = {}
      BY <1>2, <2>2 DEF SetPlan
    <3>2. Notes(told', outcomes') = {} BY <3>1 DEF Notes
    <3> QED BY <3>1, <3>2 DEF NotesKept
  <2> QED BY <2>1, <2>2 DEF NotesKept
<1>3. ASSUME NEW u \in Users, NEW s \in Says, RecordOutcome(u, s) PROVE NotesKept'
  <2>1. Notes(told, outcomes \union {<<u, s>>}) = Notes(told, outcomes) \union {<<u, s>>}
    BY DEF Notes
  <2> QED BY <1>3, <2>1 DEF RecordOutcome, NotesKept
<1>4. ASSUME NEW w \in Workers, Note(w) PROVE NotesKept'
  <2>1. CASE status = "gone" BY <1>1, <1>4, <2>1 DEF Note
  <2>2. CASE status # "gone"
    <3>1. PICK u \in Users : u = run[w].job.user BY <1>4, AtJob DEF Note
    <3>2. PICK mark \in {"sent", "unsent"} :
             /\ told' = [told EXCEPT ![u] = mark]
             /\ noted' = {n \in noted : n \notin {<<u, "sent">>, <<u, "unsent">>}} \union {<<u, mark>>}
      BY <1>4, <2>2, <3>1 DEF Note, Noted
    <3>3. outcomes' = outcomes /\ raced' = raced BY <1>4 DEF Note
    <3>4. \A n \in outcomes : n \notin {<<u, "sent">>, <<u, "unsent">>}
      <4>1. outcomes \subseteq Users \X Outcomes BY DEF Shape
      <4> QED BY <4>1 DEF Outcomes
    <3>5. told \in [Users -> {"none", "sent", "unsent"}] BY DEF Shape
    <3>6. Notes(told', outcomes) =
            {n \in Notes(told, outcomes) : n \notin {<<u, "sent">>, <<u, "unsent">>}} \union {<<u, mark>>}
      <4> DEFINE T == {<<v, told[v]>> : v \in {v \in Users : told[v] # "none"}}
                 N == {<<v, told'[v]>> : v \in {v \in Users : told'[v] # "none"}}
      <4>1. told'[u] = mark /\ \A v \in Users \ {u} : told'[v] = told[v] BY <3>2, <3>5
      <4>2. N = {n \in T : n \notin {<<u, "sent">>, <<u, "unsent">>}} \union {<<u, mark>>}
        <5>1. \A v \in Users : told[v] \in {"none", "sent", "unsent"} BY <3>5
        <5> QED BY <3>1, <3>2, <4>1, <5>1
      <4>3. Notes(told', outcomes) = N \union outcomes /\ Notes(told, outcomes) = T \union outcomes
        BY DEF Notes
      <4> HIDE DEF T, N
      <4> QED BY <3>4, <4>2, <4>3
    <3> QED BY <3>2, <3>3, <3>6 DEF NotesKept
  <2> QED BY <2>1, <2>2
<1>5. ASSUME NEW o \in Operators, CheckProposed(o) \/ ScheduleNext(o) \/ RequestDies(o) PROVE NotesKept'
  BY <1>1, <1>5 DEF CheckProposed, ScheduleNext, RequestDies, plan, history
<1>6. ASSUME \/ \E s \in Patches : Patch(s)
             \/ DeletePair
             \/ \E u \in Users : Write(u)
      PROVE NotesKept'
  BY <1>1, <1>6 DEF Patch, DeletePair, Write, plan, history
<1>7. ASSUME \E j \in Jobs : Pass(j) \/ \E w \in Workers : Begin(w, j) PROVE NotesKept'
  BY <1>1, <1>7 DEF Pass, Begin, plan, history
<1>8. ASSUME NEW w \in Workers, Say(w) \/ Reread(w) \/ SayNothing(w) PROVE NotesKept'
  BY <1>1, <1>8 DEF Say, Reread, SayNothing, plan, history
<1>9. ASSUME NEW w \in Workers, Defer(w) \/ Finish(w) \/ Fail(w) \/ Die(w) PROVE NotesKept'
  BY <1>1, <1>9 DEF Defer, Finish, Fail, Die, plan, history
<1> QED BY <1>2, <1>3, <1>4, <1>5, <1>6, <1>7, <1>8, <1>9 DEF Next

\* An introduction is said by a job that introduces.
LEMMA IntroducibleStep == ASSUME Shape, Introducible, Next PROVE Introducible'
<1>1. ASSUME intros' = intros PROVE Introducible' BY <1>1 DEF Introducible
<1>2. ASSUME NEW w \in Workers, Say(w) PROVE Introducible'
  <2>1. PICK j \in Jobs : j = run[w].job /\ j.user \in Users BY <1>2, AtJob DEF Say
  <2>2. CASE j.kind # "intro" BY <1>1, <1>2, <2>1, <2>2 DEF Say, Shape
  <2>3. CASE j.kind = "intro"
    <3>1. \A u \in Users \ {j.user} : intros'[u] = intros[u] BY <1>2, <2>1 DEF Say, Shape
    <3>2. j = [user |-> j.user, kind |-> "intro"] BY <2>3, JobsAre
    <3> QED BY <2>1, <3>1, <3>2 DEF Introducible
  <2> QED BY <2>2, <2>3
<1>3. (\E w \in Workers : Say(w)) \/ intros' = intros
  BY DEF Next, CheckProposed, SetPlan, ScheduleNext, RequestDies, Patch, DeletePair, Write,
         RecordOutcome, Pass, Begin, Reread, SayNothing, Note, Defer, Finish, Fail, Die
<1> QED BY <1>1, <1>2, <1>3
-----------------------------------------------------------------------------
(* Attempts, paid for by MAX_ATTEMPTS and by faults.                       *)

\* What the runs at a job come to, in numbers.
LEMMA Numbers ==
  ASSUME Shape, NEW j \in Jobs, CountedAt(j)
  PROVE  /\ Cardinality(On(j)) \in Nat /\ Cardinality(Low(j)) \in Nat
         /\ Cardinality(Low(j)) <= Cardinality(On(j))
         /\ IsFiniteSet(Low(j))
         /\ attempts[j] \in Nat /\ faults \in Nat /\ MaxAttempts \in Nat \ {0}
         /\ On(j) = {} => Cardinality(On(j)) = 0
<1>1. IsFiniteSet(On(j)) /\ Low(j) \subseteq On(j) BY DEF CountedAt, Low
<1>2. IsFiniteSet(Low(j)) /\ Cardinality(Low(j)) <= Cardinality(On(j)) BY <1>1, FS_Subset
<1> QED BY <1>1, <1>2, FS_CardinalityType, FS_EmptySet, MatchHostingAssumption DEF Shape

\* Nothing happens to the runs at j, nor to its row.
LEMMA CountStays ==
  ASSUME Shape, NEW j \in Jobs, CountedAt(j), On(j)' = On(j), Low(j)' = Low(j),
         row'[j] = row[j], attempts'[j] = attempts[j], faults' \in Nat, faults' >= faults
  PROVE  CountedAt(j)'
<1>1. Owes(j)' <=> Owes(j) BY DEF Owes
<1>2. PICK n \in Nat, m \in Nat : n = Cardinality(On(j)) /\ m = Cardinality(Low(j)) BY Numbers
<1>3. n = Cardinality(On(j)') /\ m = Cardinality(Low(j)') /\ IsFiniteSet(On(j)') BY <1>2 DEF CountedAt
<1> QED BY <1>1, <1>2, <1>3, Numbers DEF CountedAt

\* The row is scheduled.
LEMMA CountScheduled ==
  ASSUME Shape, NEW j \in Jobs, CountedAt(j), On(j)' = On(j), Low(j)' = Low(j), faults' = faults,
         row'[j] = (IF row[j] = "running" THEN row[j] ELSE "pending"),
         attempts'[j] = IF row[j] \in {"done", "failed"} THEN 0 ELSE attempts[j]
  PROVE  CountedAt(j)'
<1>1. PICK n \in Nat, m \in Nat : n = Cardinality(On(j)) /\ m = Cardinality(Low(j)) BY Numbers
<1>2. n = Cardinality(On(j)') /\ m = Cardinality(Low(j)') /\ IsFiniteSet(On(j)') BY <1>1 DEF CountedAt
<1>3. CASE row[j] \in {"running", "pending"}
  <2>1. row'[j] = row[j] /\ attempts'[j] = attempts[j] BY <1>3
  <2> QED BY <2>1, CountStays, Numbers
<1>4. CASE row[j] \notin {"running", "pending"}
  <2>1. row'[j] = "pending" /\ attempts'[j] = 0
    <3>1. row[j] \in {"none", "done", "failed"} BY <1>4 DEF Shape
    <3> QED BY <1>4, <3>1 DEF CountedAt
  <2>2. n <= faults BY <1>1, <1>4, Numbers DEF CountedAt
  <2> QED BY <1>1, <1>2, <2>1, <2>2, Numbers DEF CountedAt
<1> QED BY <1>3, <1>4

\* A run begins, of a row that owes an attempt or, a fault, at a run past its lease.
LEMMA CountJoins ==
  ASSUME Shape, NEW j \in Jobs, CountedAt(j), NEW w, w \notin On(j), NEW n \in Nat,
         On(j)' = On(j) \union {w},
         Low(j)' = IF n < MaxAttempts THEN Low(j) \union {w} ELSE Low(j),
         n = attempts[j] + 1, attempts'[j] = n, row'[j] = "running",
         (Owes(j) /\ faults' = faults) \/ (row[j] = "running" /\ faults' = faults + 1)
  PROVE  CountedAt(j)'
<1>1. PICK c \in Nat, m \in Nat : c = Cardinality(On(j)) /\ m = Cardinality(Low(j)) BY Numbers
<1>2. IsFiniteSet(On(j)) /\ IsFiniteSet(Low(j)) /\ w \notin Low(j) BY Numbers DEF CountedAt, Low
<1>3. IsFiniteSet(On(j)') /\ Cardinality(On(j)') = c + 1 BY <1>1, <1>2, FS_AddElement
<1>4. Cardinality(Low(j)') = IF n < MaxAttempts THEN m + 1 ELSE m BY <1>1, <1>2, FS_AddElement
<1>5. ~Owes(j)' BY DEF Owes
<1>6. c <= faults + (IF row[j] = "running" THEN 1 ELSE 0)
      /\ attempts[j] + m + (IF Owes(j) THEN 1 ELSE 0) <= MaxAttempts + faults
      /\ m <= c
  BY <1>1, Numbers DEF CountedAt
<1>7. CASE Owes(j) /\ faults' = faults
  <2>1. c <= faults BY <1>1, <1>6, <1>7, Numbers DEF Owes
  <2> QED BY <1>3, <1>4, <1>5, <1>6, <1>7, <2>1, Numbers DEF CountedAt
<1>8. CASE row[j] = "running" /\ faults' = faults + 1
  BY <1>3, <1>4, <1>5, <1>6, <1>8, Numbers DEF CountedAt
<1> QED BY <1>7, <1>8

\* A run ends: its row is due afresh, or again by an error that may be tried
\* again, or over; or the run dies and leaves the row as it was.
LEMMA CountLeaves ==
  ASSUME Shape, NEW j \in Jobs, CountedAt(j), NEW w \in On(j),
         On(j)' = On(j) \ {w}, Low(j)' = Low(j) \ {w},
         \/ row'[j] = "pending" /\ attempts'[j] = 0 /\ faults' = faults
         \/ row'[j] = "pending" /\ attempts'[j] = attempts[j] /\ faults' = faults /\ w \in Low(j)
         \/ row'[j] \in {"done", "failed"} /\ attempts'[j] = attempts[j] /\ faults' = faults
         \/ row'[j] = row[j] /\ attempts'[j] = attempts[j] /\ faults' = faults + 1
  PROVE  CountedAt(j)'
<1>1. PICK c \in Nat, m \in Nat : c = Cardinality(On(j)) /\ m = Cardinality(Low(j)) BY Numbers
<1>2. IsFiniteSet(On(j)) /\ IsFiniteSet(Low(j)) BY Numbers DEF CountedAt
<1>3. IsFiniteSet(On(j)') /\ Cardinality(On(j)') = c - 1 BY <1>1, <1>2, FS_RemoveElement
<1>4. Cardinality(Low(j)') = IF w \in Low(j) THEN m - 1 ELSE m BY <1>1, <1>2, FS_RemoveElement
<1>5. c - 1 \in Nat
  <2>1. c # 0 BY <1>1, <1>2, FS_EmptySet
  <2> QED BY <2>1
<1>6. c <= faults + 1
      /\ c <= faults + (IF row[j] = "running" THEN 1 ELSE 0)
      /\ attempts[j] + m + (IF Owes(j) THEN 1 ELSE 0) <= MaxAttempts + faults
      /\ m <= c
  BY <1>1, Numbers DEF CountedAt
<1>7. (w \in Low(j) => m - 1 <= c - 1) /\ Cardinality(Low(j)') <= c - 1
  <2>1. Low(j)' \subseteq On(j)' BY DEF Low
  <2> QED BY <1>1, <1>2, <1>3, <2>1, FS_Subset
<1>8. Owes(j)' => row'[j] \in {"pending", "running"} BY DEF Owes
<1>9. CASE row'[j] = "pending" /\ attempts'[j] = 0 /\ faults' = faults
  BY <1>1, <1>3, <1>4, <1>5, <1>6, <1>7, <1>9, Numbers DEF CountedAt
<1>10. CASE row'[j] = "pending" /\ attempts'[j] = attempts[j] /\ faults' = faults /\ w \in Low(j)
  BY <1>1, <1>3, <1>4, <1>5, <1>6, <1>7, <1>10, Numbers DEF CountedAt
<1>11. CASE row'[j] \in {"done", "failed"} /\ attempts'[j] = attempts[j] /\ faults' = faults
  BY <1>1, <1>3, <1>4, <1>5, <1>6, <1>7, <1>8, <1>11, Numbers DEF CountedAt
<1>12. CASE row'[j] = row[j] /\ attempts'[j] = attempts[j] /\ faults' = faults + 1
  BY <1>1, <1>3, <1>4, <1>5, <1>6, <1>7, <1>12, Numbers DEF CountedAt
<1> QED BY <1>9, <1>10, <1>11, <1>12
\* A run goes on: it is moved or not as it was, and what it said stays said.
GoesOn(a, b) == b.moved = a.moved /\ (a.step \in {"said", "noted"} => b.step \in {"said", "noted"})

AllGoOn(f) == \A w \in Workers : GoesOn(run[w], f[w])

LEMMA MovesGoOn == ASSUME Shape, NEW u PROVE AllGoOn(Moves(u)) /\ AllGoOn(run)
<1>1. ASSUME NEW a \in Run, a.step = "writing" PROVE GoesOn(a, [a EXCEPT !.fresh = FALSE])
  BY <1>1 DEF GoesOn, Run
<1>2. \A a : GoesOn(a, a) BY DEF GoesOn
<1>3. \A w \in Workers : run[w] \in Run BY DEF Shape, RunsFit
<1> QED BY <1>1, <1>2, <1>3 DEF AllGoOn, Moves

\* How a step treats the runs: what they hold at their jobs is kept.
Holds == \A j \in Jobs : /\ On(j)' = On(j) /\ Low(j)' = Low(j)
                         /\ row'[j] = row[j] /\ attempts'[j] = attempts[j]

LEMMA OthersHold ==
  ASSUME Shape,
         \/ \E o \in Operators : CheckProposed(o) \/ SetPlan(o) \/ RequestDies(o)
         \/ \E s \in Patches : Patch(s)
         \/ DeletePair
         \/ \E u \in Users : Write(u) \/ \E s \in Says : RecordOutcome(u, s)
         \/ \E w \in Workers : Say(w) \/ Reread(w) \/ SayNothing(w) \/ Note(w)
  PROVE  Holds /\ AllGoOn(run') /\ faults' \in Nat /\ faults' >= faults
<1>0. faults \in Nat BY MatchHostingAssumption DEF Shape
<1>1. faults' = faults \/ faults' = faults + 1
  BY DEF CheckProposed, SetPlan, RequestDies, Patch, DeletePair, Write, RecordOutcome,
         Say, Reread, SayNothing, Note, bounds
<1>2. row' = row /\ attempts' = attempts
  BY DEF CheckProposed, SetPlan, RequestDies, Patch, DeletePair, Write, RecordOutcome,
         Say, Reread, SayNothing, Note, queue
<1>3. ASSUME NEW j \in Jobs PROVE On(j)' = On(j) /\ Low(j)' = Low(j) /\ AllGoOn(run')
  <2>1. CASE run' = run BY <2>1, MovesGoOn DEF On, Low
  <2>2. ASSUME NEW u \in Users, Write(u) PROVE On(j)' = On(j) /\ Low(j)' = Low(j) /\ AllGoOn(run')
    <3>1. run' = Moves(u) /\ MarksAll(Moves(u)) BY <2>2, MovesMark DEF Write
    <3> QED BY <3>1, MovesGoOn DEF MarksAll, Marks, On, Low
  <2>3. ASSUME NEW w \in Workers, Say(w) \/ Reread(w) \/ SayNothing(w) \/ Note(w)
        PROVE  On(j)' = On(j) /\ Low(j)' = Low(j) /\ AllGoOn(run')
    <3>1. PICK a \in Run : a = run[w] BY DEF Shape, RunsFit
    <3>2. MarksAll(run) /\ MarksAll(Moves(a.job.user)) BY SelfMarks, MovesMark
    <3>4. AllGoOn(run) /\ AllGoOn(Moves(a.job.user)) BY MovesGoOn
    <3>3. PICK f, b : /\ MarksAll(f) /\ AllGoOn(f) /\ run' = [f EXCEPT ![w] = b]
                      /\ b.job = a.job /\ b.attempts = a.attempts /\ GoesOn(a, b)
      <4>1. CASE Say(w)
        <5>1. PICK f : f = Moves(a.job.user) OBVIOUS
        <5>2. PICK b : b = [f[w] EXCEPT !.step = "said"] OBVIOUS
        <5>3. f[w] \in Run /\ f[w].job = a.job /\ f[w].attempts = a.attempts /\ GoesOn(a, f[w])
          BY <3>1, <3>2, <3>4, <5>1 DEF MarksAll, RunsFit, Marks, AllGoOn
        <5>4. b.job = a.job /\ b.attempts = a.attempts /\ GoesOn(a, b) BY <5>2, <5>3 DEF Run, GoesOn
        <5>5. run' = [f EXCEPT ![w] = b] BY <3>1, <4>1, <5>1, <5>2 DEF Say
        <5> QED BY <3>2, <3>4, <5>1, <5>4, <5>5
      <4>2. CASE Reread(w)
        <5>1. PICK c : c = [a EXCEPT !.fresh = TRUE] OBVIOUS
        <5>2. PICK d : d = [c EXCEPT !.tries = a.tries + 1] OBVIOUS
        <5>3. PICK b : b = IF d.tries = Tries THEN [d EXCEPT !.step = "unsent"] ELSE d OBVIOUS
        <5>4. c \in Run /\ c.job = a.job /\ c.attempts = a.attempts /\ c.moved = a.moved /\ c.step = a.step BY <5>1 DEF Run
        <5>5. a.tries + 1 \in Nat BY DEF Run
        <5>6. d \in Run /\ d.job = a.job /\ d.attempts = a.attempts /\ d.moved = a.moved /\ d.step = a.step
          BY <5>2, <5>4, <5>5 DEF Run
        <5>7. b.job = a.job /\ b.attempts = a.attempts /\ GoesOn(a, b) BY <4>2, <3>1, <5>3, <5>6 DEF Run, GoesOn, Reread
        <5>8. d = [a EXCEPT !.fresh = TRUE, !.tries = a.tries + 1] BY <5>1, <5>2
        <5>9. run' = [run EXCEPT ![w] = b] BY <3>1, <4>2, <5>3, <5>8 DEF Reread
        <5> QED BY <3>2, <3>4, <5>7, <5>9
      <4>3. CASE SayNothing(w)
        <5>1. PICK b : b = [a EXCEPT !.step = "unsent"] OBVIOUS
        <5>2. b.job = a.job /\ b.attempts = a.attempts /\ GoesOn(a, b) BY <3>1, <4>3, <5>1 DEF Run, GoesOn, SayNothing
        <5>3. run' = [run EXCEPT ![w] = b] BY <3>1, <4>3, <5>1 DEF SayNothing
        <5> QED BY <3>2, <3>4, <5>2, <5>3
      <4>4. CASE Note(w)
        <5>1. PICK b : b = [a EXCEPT !.step = "noted"] OBVIOUS
        <5>2. b.job = a.job /\ b.attempts = a.attempts /\ GoesOn(a, b) BY <5>1 DEF Run, GoesOn
        <5>3. run' = [run EXCEPT ![w] = b] BY <3>1, <4>4, <5>1 DEF Note
        <5> QED BY <3>2, <3>4, <5>2, <5>3
      <4> QED BY <2>3, <4>1, <4>2, <4>3, <4>4
    <3>5. On(j)' = On(j) /\ Low(j)' = Low(j) BY <3>1, <3>3, KeepsOn
    <3>6. AllGoOn(run') BY <3>1, <3>3 DEF AllGoOn, MarksAll, RunsFit
    <3> QED BY <3>5, <3>6
  <2>4. run' = run \/ (\E u \in Users : Write(u))
        \/ \E w \in Workers : Say(w) \/ Reread(w) \/ SayNothing(w) \/ Note(w)
    BY DEF CheckProposed, SetPlan, RequestDies, Patch, DeletePair, RecordOutcome, queue
  <2> QED BY <2>1, <2>2, <2>3, <2>4
<1>4. AllGoOn(run') BY <1>3, JobsAre
<1> QED BY <1>0, <1>1, <1>2, <1>3, <1>4 DEF Holds
-----------------------------------------------------------------------------
(* The steps of the queue.                                                 *)

\* Another job than j is left as it was.
Apart(j) == \A i \in Jobs \ {j} : /\ On(i)' = On(i) /\ Low(i)' = Low(i)
                                  /\ row'[i] = row[i] /\ attempts'[i] = attempts[i]
                                  /\ \A v \in On(i) : run'[v] = run[v]

\* What scheduling does to the job it schedules.
LEMMA ScheduleRuns ==
  ASSUME Shape, NEW o \in Operators, ScheduleNext(o)
  PROVE  \E j \in Jobs :
            /\ Apart(j) /\ faults' = faults /\ intros' = intros
            /\ On(j)' = On(j) /\ Low(j)' = Low(j)
            /\ row'[j] = (IF row[j] = "running" THEN row[j] ELSE "pending")
            /\ attempts'[j] = IF row[j] \in {"done", "failed"} THEN 0 ELSE attempts[j]
            /\ \A u \in Users : u # j.user => repeated'[u] = repeated[u]
            /\ repeated'[j.user] <=> repeated[j.user] \/ (j.kind = "intro" /\ row[j] # "none")
<1>1. PICK j \in Jobs : j = Scheduled[operator[o].next] BY JobsAre DEF ScheduleNext, Shape
<1>2. Scheduling(j) /\ intros' = intros /\ faults' = faults
  BY <1>1 DEF ScheduleNext, bounds
<1>3. repeated' = [repeated EXCEPT ![j.user] = @ \/ (j.kind = "intro" /\ row[j] # "none")]
  BY <1>1 DEF ScheduleNext
<1>4. run' = Moved(j) /\ MarksAll(Moved(j)) BY <1>2, MovedMark DEF Scheduling
<1>5. \A i \in Jobs : On(i)' = On(i) /\ Low(i)' = Low(i)
  BY <1>4 DEF MarksAll, Marks, On, Low
<1>6. \A i \in Jobs \ {j} : \A v \in On(i) : run'[v] = run[v] BY <1>4 DEF Moved, On
<1>7. \A i \in Jobs \ {j} : row'[i] = row[i] /\ attempts'[i] = attempts[i]
  BY <1>2 DEF Scheduling, Shape
<1>8. /\ row'[j] = (IF row[j] = "running" THEN row[j] ELSE "pending")
      /\ attempts'[j] = IF row[j] \in {"done", "failed"} THEN 0 ELSE attempts[j]
  BY <1>2 DEF Scheduling, Shape
<1>9. j.user \in Users /\ repeated \in [Users -> BOOLEAN] BY JobsAre DEF Shape
<1> QED BY <1>2, <1>3, <1>5, <1>6, <1>7, <1>8, <1>9 DEF Apart

\* What a claim does.
LEMMA BeginRuns ==
  ASSUME Shape, NEW j \in Jobs, NEW w \in Workers, Begin(w, j)
  PROVE  /\ Apart(j) /\ intros' = intros /\ w \notin On(j)
         /\ On(j)' = On(j) \union {w} /\ ~run'[w].moved
         /\ Low(j)' = IF attempts[j] + 1 < MaxAttempts THEN Low(j) \union {w} ELSE Low(j)
         /\ row'[j] = "running" /\ attempts'[j] = attempts[j] + 1
         /\ \/ Owes(j) /\ (row[j] = "running" => On(j) = {}) /\ UNCHANGED <<faults, repeated>>
            \/ /\ row[j] = "running" /\ faults' = faults + 1
               /\ repeated' = [repeated EXCEPT ![j.user] = @ \/ j.kind = "intro"]
<1>1. PICK b : b = Begun(j, attempts[j] + 1) OBVIOUS
<1>2. b.job = j /\ b.attempts = attempts[j] + 1 /\ ~b.moved BY <1>1, BegunFits DEF Shape
<1>3. run' = [run EXCEPT ![w] = b] BY <1>1 DEF Begin, Begun
<1>4. run[w] = Idle BY DEF Begin
<1>5. ASSUME NEW i \in Jobs
      PROVE  /\ On(i)' = IF i = j THEN On(i) \union {w} ELSE On(i)
             /\ Low(i)' = IF i = j /\ b.attempts < MaxAttempts THEN Low(i) \union {w} ELSE Low(i)
             /\ w \notin On(i)
  <2>1. b.job = j BY <1>2
  <2> HIDE <1>1, <1>2
  <2> QED BY <2>1, <1>3, <1>4, JoinsOn
<1>6. DOMAIN run = Workers BY DEF Shape, RunsFit
<1>7. \A i \in Jobs \ {j} : \A v \in On(i) : run'[v] = run[v] BY <1>3, <1>5, <1>6 DEF On
<1>8. \A i \in Jobs \ {j} : row'[i] = row[i] /\ attempts'[i] = attempts[i] BY DEF Begin, Shape
<1>9. row'[j] = "running" /\ attempts'[j] = attempts[j] + 1 /\ intros' = intros BY DEF Begin, Shape
<1>10. AtWork(j) <=> On(j) # {} BY DEF AtWork, On
<1>11. \/ Owes(j) /\ (row[j] = "running" => On(j) = {}) /\ UNCHANGED <<faults, repeated>>
       \/ /\ row[j] = "running" /\ faults' = faults + 1
          /\ repeated' = [repeated EXCEPT ![j.user] = @ \/ j.kind = "intro"]
  BY <1>10 DEF Begin, Claims, Reclaims, Owes
<1>12. run'[w] = b BY <1>3, <1>6
<1>13. Apart(j) BY <1>5, <1>7, <1>8 DEF Apart
<1>14. /\ On(j)' = On(j) \union {w} /\ w \notin On(j)
       /\ Low(j)' = IF attempts[j] + 1 < MaxAttempts THEN Low(j) \union {w} ELSE Low(j)
  BY <1>2, <1>5
<1> QED BY <1>2, <1>9, <1>11, <1>12, <1>13, <1>14

\* A row is passed over by nobody who is at it.
LEMMA PassRuns ==
  ASSUME Shape, NEW j \in Jobs, Pass(j)
  PROVE  /\ Apart(j) /\ UNCHANGED <<intros, faults, repeated>>
         /\ On(j)' = On(j) /\ Low(j)' = Low(j)
         /\ row[j] = "pending" \/ On(j) = {}
         /\ row'[j] = "done" /\ attempts'[j] = attempts[j]
<1>1. AtWork(j) <=> On(j) # {} BY DEF AtWork, On
<1>2. run' = run /\ attempts' = attempts /\ UNCHANGED <<intros, faults, repeated>>
  BY DEF Pass, bounds, history
<1>3. row[j] = "pending" \/ On(j) = {} BY <1>1 DEF Pass, Reclaims
<1>4. row'[j] = "done" /\ \A i \in Jobs \ {j} : row'[i] = row[i] BY DEF Pass, Shape
<1> QED BY <1>2, <1>3, <1>4 DEF Apart, On, Low

\* The ways a run ends.
LEMMA EndRuns ==
  ASSUME Shape, NEW w \in Workers, Defer(w) \/ Finish(w) \/ Fail(w) \/ Die(w)
  PROVE  \E j \in Jobs :
            /\ j = run[w].job /\ Apart(j) /\ intros' = intros
            /\ w \in On(j) /\ On(j)' = On(j) \ {w} /\ Low(j)' = Low(j) \ {w}
            /\ \/ row'[j] = "pending" /\ attempts'[j] = 0 /\ faults' = faults
               \/ row'[j] = "pending" /\ attempts'[j] = attempts[j] /\ faults' = faults /\ w \in Low(j)
               \/ row'[j] \in {"done", "failed"} /\ attempts'[j] = attempts[j] /\ faults' = faults
               \/ row'[j] = row[j] /\ attempts'[j] = attempts[j] /\ faults' = faults + 1
            /\ \/ Finish(w) /\ repeated' = repeated /\ (~run[w].moved => row'[j] = "done")
               \/ j.kind # "intro" /\ repeated' = repeated
               \/ repeated' = [repeated EXCEPT ![j.user] =
                                  @ \/ (j.kind = "intro" /\ run[w].step \in {"said", "noted"})]
<1>1. PICK j \in Jobs : j = run[w].job BY AtJob DEF Defer, Finish, Fail, Die
<1>2. PICK f : /\ MarksAll(f) /\ run' = [f EXCEPT ![w] = Idle]
               /\ f = run \/ f = Moved(j)
  BY <1>1, SelfMarks, MovedMark DEF Defer, Finish, Fail, Die
<1>3. \A i \in Jobs : On(i)' = On(i) \ {w} /\ Low(i)' = Low(i) \ {w} BY <1>2, LeavesOn
<1>4. w \in On(j) /\ \A i \in Jobs \ {j} : w \notin On(i) /\ w \notin Low(i) BY <1>1 DEF On, Low
<1>5. \A i \in Jobs \ {j} : \A v \in On(i) : run'[v] = run[v]
  <2>1. DOMAIN f = Workers BY <1>2 DEF MarksAll, RunsFit
  <2>2. \A v \in Workers : run[v].job # j => f[v] = run[v] BY <1>2 DEF Moved
  <2> QED BY <1>2, <1>4, <2>1, <2>2 DEF On
<1>6. \A i \in Jobs \ {j} : row'[i] = row[i]
  BY <1>1 DEF Defer, Finish, Fail, Die, Shape
<1>7. \A i \in Jobs \ {j} : attempts'[i] = attempts[i]
  BY <1>1 DEF Defer, Finish, Fail, Die, Shape
<1>8. intros' = intros /\ Apart(j)
  <2>1. intros' = intros BY DEF Defer, Finish, Fail, Die
  <2>2. \A i \in Jobs \ {j} : On(i)' = On(i) /\ Low(i)' = Low(i) BY <1>3, <1>4
  <2> QED BY <2>1, <2>2, <1>5, <1>6, <1>7 DEF Apart
<1>9. /\ \/ row'[j] = "pending" /\ attempts'[j] = 0 /\ faults' = faults
         \/ row'[j] = "pending" /\ attempts'[j] = attempts[j] /\ faults' = faults /\ w \in Low(j)
         \/ row'[j] \in {"done", "failed"} /\ attempts'[j] = attempts[j] /\ faults' = faults
         \/ row'[j] = row[j] /\ attempts'[j] = attempts[j] /\ faults' = faults + 1
      /\ \/ Finish(w) /\ repeated' = repeated /\ (~run[w].moved => row'[j] = "done")
         \/ j.kind # "intro" /\ repeated' = repeated
         \/ repeated' = [repeated EXCEPT ![j.user] =
                            @ \/ (j.kind = "intro" /\ run[w].step \in {"said", "noted"})]
  <2>1. CASE Defer(w) BY <1>1, <2>1 DEF Defer, Shape, bounds, history
  <2>2. CASE Finish(w) BY <1>1, <2>2 DEF Finish, EndedRow, Shape, bounds, history
  <2>3. CASE Fail(w) BY <1>1, <1>4, <2>3 DEF Fail, Retries, Low, Shape, bounds
  <2>4. CASE Die(w) BY <1>1, <2>4 DEF Die, Shape
  <2> QED BY <2>1, <2>2, <2>3, <2>4
<1> QED BY <1>1, <1>3, <1>4, <1>8, <1>9
\* What Next comes to, by how it treats the runs.
Quiet ==
    \/ \E o \in Operators : CheckProposed(o) \/ SetPlan(o) \/ RequestDies(o)
    \/ \E s \in Patches : Patch(s)
    \/ DeletePair
    \/ \E u \in Users : Write(u) \/ \E s \in Says : RecordOutcome(u, s)
    \/ \E w \in Workers : Say(w) \/ Reread(w) \/ SayNothing(w) \/ Note(w)

Ends(w) == Defer(w) \/ Finish(w) \/ Fail(w) \/ Die(w)

LEMMA StepIs ==
  ASSUME Next
  PROVE  \/ Quiet
         \/ \E o \in Operators : ScheduleNext(o)
         \/ \E j \in Jobs : Pass(j) \/ \E w \in Workers : Begin(w, j)
         \/ \E w \in Workers : Ends(w)
BY DEF Next, Quiet, Ends

LEMMA CountedStep == ASSUME Shape, Shape', Counted, Next PROVE Counted'
<1>1. \A i \in Jobs : CountedAt(i) BY DEF Counted
<1>2. faults \in Nat /\ faults' \in Nat BY MatchHostingAssumption DEF Shape
<1>3. ASSUME NEW j \in Jobs, Apart(j), faults' >= faults, CountedAt(j)' PROVE Counted'
  <2>1. ASSUME NEW i \in Jobs, i # j PROVE CountedAt(i)'
    BY <1>1, <1>2, <1>3, <2>1, CountStays DEF Apart
  <2> QED BY <1>3, <2>1 DEF Counted
<1>4. CASE Quiet
  <2>1. Holds /\ faults' >= faults BY <1>4, OthersHold DEF Quiet
  <2>2. ASSUME NEW i \in Jobs PROVE CountedAt(i)'
    BY <1>1, <1>2, <2>1, CountStays DEF Holds
  <2> QED BY <2>2 DEF Counted
<1>5. ASSUME NEW o \in Operators, ScheduleNext(o) PROVE Counted'
  <2>1. PICK j \in Jobs :
            /\ Apart(j) /\ faults' = faults
            /\ On(j)' = On(j) /\ Low(j)' = Low(j)
            /\ row'[j] = (IF row[j] = "running" THEN row[j] ELSE "pending")
            /\ attempts'[j] = IF row[j] \in {"done", "failed"} THEN 0 ELSE attempts[j]
    BY <1>5, ScheduleRuns
  <2>2. CountedAt(j)' BY <1>1, <2>1, CountScheduled
  <2> QED BY <1>2, <1>3, <2>1, <2>2
<1>6. ASSUME NEW j \in Jobs, Pass(j) PROVE Counted'
  <2>1. /\ Apart(j) /\ faults' = faults /\ On(j)' = On(j) /\ Low(j)' = Low(j)
        /\ row[j] = "pending" \/ On(j) = {}
        /\ row'[j] = "done" /\ attempts'[j] = attempts[j]
    BY <1>6, PassRuns
  <2>2. CountedAt(j)'
    <3>1. PICK c \in Nat, m \in Nat : c = Cardinality(On(j)) /\ m = Cardinality(Low(j))
      BY <1>1, Numbers
    <3>2. c = Cardinality(On(j)') /\ m = Cardinality(Low(j)') /\ IsFiniteSet(On(j)')
      BY <1>1, <2>1, <3>1 DEF CountedAt
    <3>3. c <= faults BY <1>1, <2>1, <3>1, Numbers DEF CountedAt
    <3>4. attempts[j] + m <= MaxAttempts + faults BY <1>1, <3>1, Numbers DEF CountedAt
    <3>5. ~Owes(j)' BY <2>1 DEF Owes
    <3> QED BY <1>2, <2>1, <3>2, <3>3, <3>4, <3>5, Numbers, <1>1 DEF CountedAt
  <2> QED BY <1>2, <1>3, <2>1, <2>2
<1>7. ASSUME NEW j \in Jobs, NEW w \in Workers, Begin(w, j) PROVE Counted'
  <2>1. PICK n \in Nat : n = attempts[j] + 1 BY DEF Shape
  <2>2. /\ Apart(j) /\ w \notin On(j) /\ On(j)' = On(j) \union {w}
        /\ Low(j)' = IF n < MaxAttempts THEN Low(j) \union {w} ELSE Low(j)
        /\ row'[j] = "running" /\ attempts'[j] = n
        /\ (Owes(j) /\ faults' = faults) \/ (row[j] = "running" /\ faults' = faults + 1)
    BY <1>7, <2>1, BeginRuns
  <2>3. CountedAt(j)' BY <1>1, <2>1, <2>2, CountJoins
  <2>4. faults' >= faults BY <1>2, <2>2
  <2> QED BY <1>3, <2>2, <2>3, <2>4
<1>8. ASSUME NEW w \in Workers, Ends(w) PROVE Counted'
  <2>1. PICK j \in Jobs :
            /\ Apart(j) /\ w \in On(j) /\ On(j)' = On(j) \ {w} /\ Low(j)' = Low(j) \ {w}
            /\ \/ row'[j] = "pending" /\ attempts'[j] = 0 /\ faults' = faults
               \/ row'[j] = "pending" /\ attempts'[j] = attempts[j] /\ faults' = faults /\ w \in Low(j)
               \/ row'[j] \in {"done", "failed"} /\ attempts'[j] = attempts[j] /\ faults' = faults
               \/ row'[j] = row[j] /\ attempts'[j] = attempts[j] /\ faults' = faults + 1
    BY <1>8, EndRuns DEF Ends
  <2>2. CountedAt(j)' BY <1>1, <2>1, CountLeaves
  <2>3. faults' >= faults BY <1>2, <2>1
  <2> QED BY <1>3, <2>1, <2>2, <2>3
<1> QED BY <1>4, <1>5, <1>6, <1>7, <1>8, StepIs

-----------------------------------------------------------------------------
(* Nobody is introduced twice.                                             *)

\* Excuses stay.
LEMMA RepeatedStays == ASSUME Shape, Next PROVE \A u \in Users : repeated[u] => repeated'[u]
<1>1. repeated \in [Users -> BOOLEAN] BY DEF Shape
<1>2. CASE Quiet
  BY <1>2 DEF Quiet, CheckProposed, SetPlan, RequestDies, Patch, DeletePair, Write, RecordOutcome,
         Say, Reread, SayNothing, Note, history
<1>3. ASSUME NEW o \in Operators, ScheduleNext(o) PROVE \A u \in Users : repeated[u] => repeated'[u]
  BY <1>3, ScheduleRuns
<1>4. ASSUME NEW j \in Jobs, Pass(j) PROVE \A u \in Users : repeated[u] => repeated'[u]
  BY <1>4, PassRuns
<1>5. ASSUME NEW j \in Jobs, NEW w \in Workers, Begin(w, j)
      PROVE  \A u \in Users : repeated[u] => repeated'[u]
  BY <1>1, <1>5, BeginRuns
<1>6. ASSUME NEW w \in Workers, Ends(w) PROVE \A u \in Users : repeated[u] => repeated'[u]
  BY <1>1, <1>6, EndRuns DEF Ends
<1> QED BY <1>2, <1>3, <1>4, <1>5, <1>6, StepIs

\* The runs at j go on, and nobody is introduced.
LEMMA SingleStays ==
  ASSUME NEW j \in Jobs, SingleAt(j), On(j)' = On(j), row'[j] = row[j],
         intros'[j.user] = intros[j.user], \A v \in On(j) : GoesOn(run[v], run'[v])
  PROVE  SingleAt(j)'
BY DEF SingleAt, GoesOn

\* One job introduces a person.
LEMMA IntroIs ==
  ASSUME NEW i \in Jobs, NEW j \in Jobs, i.kind = "intro", j.kind = "intro", i.user = j.user
  PROVE  i = j
BY JobsAre

LEMMA SingleStep == ASSUME Shape, Shape', Single, Next PROVE Single'
<1> SUFFICES ASSUME NEW i \in Jobs, i.kind = "intro", ~repeated'[i.user]
             PROVE  SingleAt(i)'
  BY DEF Single
<1>1. i.user \in Users BY JobsAre
<1>2. ~repeated[i.user] BY <1>1, RepeatedStays
<1>3. SingleAt(i) BY <1>2 DEF Single
<1>4. intros[i.user] \in 0..2 /\ intros'[i.user] \in 0..2 BY <1>1 DEF Shape
<1>5. ASSUME NEW j \in Jobs \ {i}, Apart(j), intros' = intros PROVE SingleAt(i)'
  BY <1>3, <1>5, SingleStays DEF Apart, GoesOn
<1>6. ASSUME NEW w \in Workers, Say(w) PROVE SingleAt(i)'
  <2>1. PICK j \in Jobs : j = run[w].job /\ j.user \in Users BY <1>6, AtJob DEF Say
  <2>2. Holds /\ AllGoOn(run') BY <1>6, OthersHold
  <2>3. \A v \in On(i) : GoesOn(run[v], run'[v]) BY <2>2 DEF AllGoOn, On
  <2>4. CASE j.kind # "intro" \/ j.user # i.user
    <3>1. intros'[i.user] = intros[i.user] BY <1>1, <1>6, <2>1, <2>4 DEF Say, Shape
    <3> QED BY <1>3, <2>2, <2>3, <3>1, SingleStays DEF Holds
  <2>5. CASE j.kind = "intro" /\ j.user = i.user
    <3>1. j = i BY <2>5, IntroIs
    <3>2. w \in On(i) /\ run[w].step = "writing" BY <1>6, <2>1, <3>1 DEF On, Say
    <3>3. row[i] = "running" /\ \A v \in On(i) : v = w /\ run[v].step = "writing"
      BY <1>3, <3>2 DEF SingleAt
    <3>4. intros[i.user] = 0 BY <1>3, <1>4, <3>3 DEF SingleAt
    <3>5. intros'[i.user] <= 1
      <4>1. intros'[i.user] = Min({0 + 1, 2}) BY <1>1, <1>6, <2>1, <2>5, <3>1, <3>4 DEF Say, Shape
      <4>2. Min({1, 2}) = 1
        <5>1. \E x \in {1, 2} : \A y \in {1, 2} : x =< y OBVIOUS
        <5>2. Min({1, 2}) \in {1, 2} /\ \A y \in {1, 2} : Min({1, 2}) =< y BY <5>1 DEF Min
        <5> QED BY <5>2
      <4> QED BY <4>1, <4>2
    <3>6. run'[w].step = "said"
      <4>1. MarksAll(Moves(j.user)) BY MovesMark
      <4>2. PICK g : g = Moves(j.user) OBVIOUS
      <4>3. g[w] \in Run /\ DOMAIN g = Workers BY <4>1, <4>2 DEF MarksAll, RunsFit
      <4>4. run'[w] = [g[w] EXCEPT !.step = "said"] BY <1>6, <2>1, <4>2, <4>3 DEF Say
      <4> QED BY <4>3, <4>4 DEF Run
    <3>7. On(i)' = On(i) /\ row'[i] = row[i] BY <2>2 DEF Holds
    <3> QED BY <1>3, <2>3, <3>2, <3>3, <3>5, <3>6, <3>7 DEF SingleAt, GoesOn
  <2> QED BY <2>4, <2>5
<1>7. CASE Quiet /\ ~\E w \in Workers : Say(w)
  <2>1. Holds /\ AllGoOn(run') BY <1>7, OthersHold DEF Quiet
  <2>2. \A v \in On(i) : GoesOn(run[v], run'[v]) BY <2>1 DEF AllGoOn, On
  <2>3. intros' = intros
    BY <1>7 DEF Quiet, CheckProposed, SetPlan, RequestDies, Patch, DeletePair, Write, RecordOutcome,
         Reread, SayNothing, Note
  <2> QED BY <1>3, <2>1, <2>2, <2>3, SingleStays DEF Holds
<1>8. ASSUME NEW o \in Operators, ScheduleNext(o) PROVE SingleAt(i)'
  <2>1. PICK j \in Jobs :
            /\ Apart(j) /\ intros' = intros /\ On(j)' = On(j)
            /\ row'[j] = (IF row[j] = "running" THEN row[j] ELSE "pending")
            /\ repeated'[j.user] <=> repeated[j.user] \/ (j.kind = "intro" /\ row[j] # "none")
    BY <1>8, ScheduleRuns
  <2>2. CASE j # i BY <1>5, <2>1, <2>2
  <2>3. CASE j = i
    <3>1. row[i] = "none" BY <2>1, <2>3
    <3>2. On(i) = {} BY <1>3, <3>1 DEF SingleAt
    <3>3. intros[i.user] <= 1 /\ intros[i.user] # 1 BY <1>3, <3>1, <3>2 DEF SingleAt
    <3> QED BY <2>1, <2>3, <3>2, <3>3 DEF SingleAt
  <2> QED BY <2>2, <2>3
<1>9. ASSUME NEW j \in Jobs, Pass(j) PROVE SingleAt(i)'
  <2>1. /\ Apart(j) /\ intros' = intros /\ On(j)' = On(j)
        /\ row[j] = "pending" \/ On(j) = {}
        /\ row'[j] = "done"
    BY <1>9, PassRuns
  <2>2. CASE j # i BY <1>5, <2>1, <2>2
  <2>3. CASE j = i
    <3>1. On(i) = {} BY <1>3, <2>1, <2>3 DEF SingleAt
    <3> QED BY <1>3, <2>1, <2>3, <3>1 DEF SingleAt
  <2> QED BY <2>2, <2>3
<1>10. ASSUME NEW j \in Jobs, NEW w \in Workers, Begin(w, j) PROVE SingleAt(i)'
  <2>1. /\ Apart(j) /\ intros' = intros
        /\ On(j)' = On(j) \union {w} /\ ~run'[w].moved /\ row'[j] = "running"
        /\ \/ Owes(j) /\ (row[j] = "running" => On(j) = {}) /\ UNCHANGED <<faults, repeated>>
           \/ repeated' = [repeated EXCEPT ![j.user] = @ \/ j.kind = "intro"]
    BY <1>10, BeginRuns
  <2>2. CASE j # i BY <1>5, <2>1, <2>2
  <2>3. CASE j = i
    <3>1. Owes(i) /\ (row[i] = "running" => On(i) = {}) BY <1>1, <2>1, <2>3 DEF Shape
    <3>2. On(i) = {} /\ row[i] # "done" BY <1>3, <3>1 DEF SingleAt, Owes
    <3>3. intros[i.user] <= 1 /\ intros[i.user] # 1 BY <1>3, <3>2 DEF SingleAt
    <3> QED BY <2>1, <2>3, <3>2, <3>3 DEF SingleAt
  <2> QED BY <2>2, <2>3
<1>11. ASSUME NEW w \in Workers, Ends(w) PROVE SingleAt(i)'
  <2>1. PICK j \in Jobs :
            /\ j = run[w].job /\ Apart(j) /\ intros' = intros
            /\ w \in On(j) /\ On(j)' = On(j) \ {w}
            /\ \/ Finish(w) /\ repeated' = repeated /\ (~run[w].moved => row'[j] = "done")
               \/ j.kind # "intro" /\ repeated' = repeated
               \/ repeated' = [repeated EXCEPT ![j.user] =
                                  @ \/ (j.kind = "intro" /\ run[w].step \in {"said", "noted"})]
    BY <1>11, EndRuns DEF Ends
  <2>2. CASE j # i BY <1>5, <2>1, <2>2
  <2>3. CASE j = i
    <3>1. On(i) = {w} /\ ~run[w].moved /\ row[i] = "running" BY <1>3, <2>1, <2>3 DEF SingleAt
    <3>2. On(i)' = {} BY <2>1, <2>3, <3>1
    <3>3. row'[i] = "done" \/ run[w].step \notin {"said", "noted"}
      BY <1>1, <2>1, <2>3, <3>1 DEF Shape
    <3>4. intros[i.user] <= 1 /\ (row'[i] = "done" \/ intros[i.user] # 1)
      BY <1>3, <3>1, <3>3 DEF SingleAt
    <3> QED BY <2>1, <3>2, <3>4 DEF SingleAt
  <2> QED BY <2>2, <2>3
<1> QED BY <1>6, <1>7, <1>8, <1>9, <1>10, <1>11, StepIs

-----------------------------------------------------------------------------
(* The theorems.                                                           *)

LEMMA HostInit == ASSUME Init PROVE HostInv
<1>1. Shape BY ShapeInit
<1>2. NotesKept BY DEF Init, NotesKept, Notes
<1>3. Introducible BY DEF Init, Introducible
<1>4. \A j \in Jobs : On(j) = {} /\ Low(j) = {} BY JobsAre DEF Init, On, Low, Idle
<1>5. Counted
  <2>1. \A j \in Jobs : ~Owes(j) BY DEF Init, Owes
  <2>2. \A j \in Jobs : attempts[j] = 0 /\ row[j] = "none" BY DEF Init
  <2>3. faults = 0 BY DEF Init
  <2>4. IsFiniteSet({}) /\ Cardinality({}) = 0 BY FS_EmptySet
  <2> SUFFICES ASSUME NEW j \in Jobs PROVE CountedAt(j) BY DEF Counted
  <2>5. IsFiniteSet(On(j)) /\ Cardinality(On(j)) = 0 /\ Cardinality(Low(j)) = 0 BY <1>4, <2>4
  <2> QED BY <2>1, <2>2, <2>3, <2>5, MatchHostingAssumption DEF CountedAt
<1>6. Single BY <1>4, JobsAre DEF Init, Single, SingleAt
<1> QED BY <1>1, <1>2, <1>3, <1>5, <1>6 DEF HostInv

LEMMA HostStep == ASSUME HostInv, [Next]_vars PROVE HostInv'
<1>1. CASE Next
  <2>1. Shape'
    BY <1>1, OperatorTypes, ScheduleTypes, TalkTypes, QueueStepTypes DEF HostInv, Next
  <2> QED BY <1>1, <2>1, NotesKeptStep, IntroducibleStep, CountedStep, SingleStep DEF HostInv
<1>2. CASE UNCHANGED vars
  <2>1. /\ UNCHANGED <<status, told, outcomes, operator, row, attempts, run, intros>>
        /\ UNCHANGED <<writes, patches, faults, noted, raced, repeated>>
    BY <1>2 DEF vars, plan, queue, bounds, history
  <2>2. Shape' BY <2>1 DEF HostInv, Shape, RunsFit, Fits
  <2>3. NotesKept' /\ Introducible' BY <2>1 DEF HostInv, NotesKept, Notes, Introducible
  <2>4. \A j \in Jobs : On(j)' = On(j) /\ Low(j)' = Low(j) BY <2>1 DEF On, Low
  <2>5. Counted' BY <2>1, <2>4 DEF HostInv, Counted, CountedAt, Owes
  <2>6. Single' BY <2>1, <2>4 DEF HostInv, Single, SingleAt
  <2> QED BY <2>2, <2>3, <2>5, <2>6 DEF HostInv
<1> QED BY <1>1, <1>2

LEMMA Inductive == Spec => []HostInv
<1>1. Init => HostInv BY HostInit
<1>2. HostInv /\ [Next]_vars => HostInv' BY HostStep
<1> QED BY <1>1, <1>2, PTL DEF Spec

LEMMA HostTypes == ASSUME HostInv PROVE TypeOK
<1>1. Shape BY DEF HostInv
<1>2. attempts \in [Jobs -> 0..(MaxAttempts + MaxFaults)]
  <2>1. ASSUME NEW j \in Jobs PROVE attempts[j] \in 0..(MaxAttempts + MaxFaults)
    <3>1. CountedAt(j) BY DEF HostInv, Counted
    <3>2. PICK m \in Nat : m = Cardinality(Low(j)) BY <1>1, <3>1, Numbers
    <3>3. attempts[j] + m + (IF Owes(j) THEN 1 ELSE 0) <= MaxAttempts + faults
      BY <3>1, <3>2 DEF CountedAt
    <3>4. faults <= MaxFaults /\ faults \in Nat /\ MaxFaults \in Nat /\ MaxAttempts \in Nat
          /\ attempts[j] \in Nat
      BY <1>1, MatchHostingAssumption DEF Shape
    <3> QED BY <3>3, <3>4
  <2> QED BY <1>1, <2>1 DEF Shape
<1>3. \A w \in Workers : /\ run[w] = Idle \/ run[w].job \in Jobs
                        /\ run[w].step \in {"idle", "writing", "said", "unsent", "noted"}
                        /\ run[w].tries \in 0..Tries
  <2> SUFFICES ASSUME NEW w \in Workers
               PROVE  /\ run[w] = Idle \/ run[w].job \in Jobs
                      /\ run[w].step \in {"idle", "writing", "said", "unsent", "noted"}
                      /\ run[w].tries \in 0..Tries
    OBVIOUS
  <2>1. PICK a \in Run : a = run[w] /\ Fits(a) BY <1>1 DEF Shape, RunsFit
  <2> QED BY <2>1, MatchHostingAssumption DEF Fits, Run
<1> QED BY <1>1, <1>2, <1>3 DEF Shape, TypeOK

\* The state of match hosting has its types in every reachable state, and a job
\* is attempted MAX_ATTEMPTS times at most, but for what faults paid.
THEOREM TypeCorrect == Spec => []TypeOK
<1>1. HostInv => TypeOK BY HostTypes
<1> QED BY <1>1, Inductive, PTL

\* "each reads the newest plan inside the lock, so neither note is lost".
THEOREM NothingNotedIsLost == Spec => []NotesKept
<1>1. HostInv => NotesKept BY DEF HostInv
<1> QED BY <1>1, Inductive, PTL

\* Nobody is introduced twice, by whatever order of workers, retries and
\* schedules, but for the named excuses.
THEOREM NobodyIsIntroducedTwice == Spec => []IntroducedOnce
<1>1. ASSUME HostInv PROVE IntroducedOnce
  <2> SUFFICES ASSUME NEW u \in Users, ~repeated[u] PROVE intros[u] <= 1
    BY DEF IntroducedOnce
  <2>1. intros[u] \in 0..2 BY <1>1 DEF HostInv, Shape
  <2>2. CASE intros[u] > 0
    <3>1. PICK j \in Jobs : j.kind = "intro" /\ j.user = u
      BY <1>1, <2>2 DEF HostInv, Introducible
    <3>2. SingleAt(j) BY <1>1, <3>1 DEF HostInv, Single
    <3> QED BY <3>1, <3>2 DEF SingleAt
  <2> QED BY <2>1, <2>2
<1> QED BY <1>1, Inductive, PTL
=============================================================================
