--------------------------- MODULE ProactiveProofs ---------------------------
(***************************************************************************)
(* What holds of Omi speaking first for any chats, promises, plans, runs,  *)
(* limits and bounds: a promise or a plan is raised once, and a nudge is   *)
(* still welcome where it lands.                                           *)
(*                                                                         *)
(* Neither follows from its own formula.  A promise or a plan is not       *)
(* raised again because what was raised is marked, or a run has yet to     *)
(* mark it (Told), because a run at it from before finds its chat longer   *)
(* than it read it (Behind), and because all who are at it are in one chat *)
(* (Together).  A nudge lands where it was welcome because a chat begins   *)
(* with what a run read of it until the run delivers (Fresh).              *)
(***************************************************************************)
EXTENDS Proactive, FiniteSetTheorems, SequenceTheorems, TLAPS

-----------------------------------------------------------------------------
(* The inductive invariant.                                                *)

Run == [mode : {"idle", "live", "away", "job"}, at : 0..MaxTime, todo : SUBSET Chats,
        step : {"looking", "writing", "said", "resolved"}, chat : Chats \union {Nothing},
        kind : {"none", "greeting", "promise", "event", "topic"},
        promise : Promises \union {Nothing}, event : Events \union {Nothing},
        topic : Topics \union {Nothing}, count : Nat, cut : BOOLEAN]

\* A run raises something, in some chat, while it is not looking.
Fits(u) ==
    /\ u.mode = "idle" => u.step = "looking" /\ u.todo = {}
    /\ u.kind # "none" <=> u.step # "looking"
    /\ u.step = "looking" => u.promise = Nothing /\ u.event = Nothing
    /\ u.step # "looking" => u.chat \in Chats
    /\ u.kind = "promise" => u.promise \in Promises
    /\ u.kind = "event" => u.event \in Events

Shape ==
    /\ now \in 0..MaxTime
    /\ chat \in [Chats -> Seq(Message)]
    /\ erasing \subseteq [chat : Chats, list : Seq(Message)]
    /\ kept \subseteq Promises /\ asked \in [Events -> -1..MaxTime]
    /\ run \in [Runs -> Run]
    /\ \A r \in Runs : Fits(run[r]) /\ run[r].at <= now
    /\ raised \in [Things -> 0..2] /\ excused \subseteq Things

Marked(x) == x \in kept \/ (x \in Events /\ asked[x] # -1)

\* What was raised is marked, or a run has it to mark.
Told(x) ==
    \/ raised[x] = 0
    \/ raised[x] = 1 /\ (Marked(x) \/ \E r \in Runs : x \in Unmarked(r))

\* A run at x finds its chat as long as it was only if x was not raised.
Behind(x) ==
    \A r \in Runs :
        run[r].step = "writing" /\ Raises(r, x) =>
            LET n == Len(chat[run[r].chat]) IN
            n >= run[r].count /\ (raised[x] = 0 \/ n > run[r].count)

\* The runs at x are in one chat.
Together(x) ==
    \A q, r \in Runs : Raises(q, x) /\ Raises(r, x) => run[q].chat = run[r].chat

Once(x) == Told(x) /\ Behind(x) /\ Together(x)

\* The first n messages of a list, before a run that says so: the last is no
\* nudge, the nudges are few, none is about the topic, and all are answered.
Open(list, n, u) ==
    /\ n \in 1..Len(list)
    /\ list[n].by # "nudge"
    /\ Cardinality({k \in 1..n : list[k].by = "nudge" /\ u.at - list[k].at < Window}) < MaxPerWindow
    /\ u.topic # Nothing => \A k \in 1..n : list[k].by = "nudge" => list[k].topic # u.topic
    /\ \/ u.kind = "greeting"
       \/ \A k \in 1..n : list[k].by # "nudge"
       \/ \E k \in 1..n : list[k].by = "user" /\ \A j \in k..n : list[j].by # "nudge"

Fresh ==
    \A r \in Runs : run[r].step = "writing" /\ ~run[r].cut =>
        Open(chat[run[r].chat], run[r].count, run[r])

RaisedRight == \A x \in Things \ excused : Once(x)

ProactiveInv == Shape /\ RaisedRight /\ Fresh
-----------------------------------------------------------------------------
(* The least and the greatest of some numbers.                             *)

LEMMA NatMin == ASSUME NEW X \in SUBSET Nat, X # {} PROVE \E x \in X : \A y \in X : x <= y
<1> DEFINE Below == {0..x : x \in X}
<1>1. IsWellFoundedOn(StrictSubsetOrdering(Nat), FiniteSubsetsOf(Nat))
  BY FS_StrictSubsetOrderingWellFounded
<1>2. Below \subseteq FiniteSubsetsOf(Nat) /\ Below # {}
  <2>1. ASSUME NEW x \in X PROVE 0..x \in FiniteSubsetsOf(Nat)
    <3>1. IsFiniteSet(0..x) BY FS_Interval
    <3>2. 0..x \subseteq Nat OBVIOUS
    <3> QED BY <3>1, <3>2 DEF FiniteSubsetsOf
  <2> QED BY <2>1
<1>3. PICK b \in Below : \A c \in Below : <<c, b>> \notin StrictSubsetOrdering(Nat)
  <2> HIDE DEF Below
  <2> QED BY <1>1, <1>2, WFMin
<1>4. PICK x \in X : b = 0..x OBVIOUS
<1>5. ASSUME NEW y \in X PROVE x <= y
  <2>1. 0..y \in Below OBVIOUS
  <2>2. ~(0..y \subseteq 0..x) \/ 0..y = 0..x
    <3>1. <<0..y, 0..x>> \notin StrictSubsetOrdering(Nat) BY <1>3, <1>4, <2>1
    <3>2. 0..y \in SUBSET Nat /\ 0..x \in SUBSET Nat OBVIOUS
    <3> HIDE DEF Below
    <3> QED BY <3>1, <3>2 DEF StrictSubsetOrdering
  <2>3. x \in Nat /\ y \in Nat OBVIOUS
  <2>4. y < x => 0..y \subseteq 0..x /\ x \notin 0..y BY <2>3
  <2> QED BY <2>2, <2>3, <2>4
<1> QED BY <1>5

LEMMA NatMax ==
  ASSUME NEW n \in Nat, NEW X \in SUBSET (0..n), X # {}
  PROVE  \E x \in X : \A y \in X : y <= x
<1> DEFINE Y == {n - x : x \in X}
<1>1. Y \in SUBSET Nat /\ Y # {}
  <2>1. \A x \in X : x \in 0..n /\ n - x \in Nat OBVIOUS
  <2> QED BY <2>1
<1>2. PICK y \in Y : \A z \in Y : y <= z
  <2> HIDE DEF Y
  <2> QED BY <1>1, NatMin
<1>3. PICK x \in X : y = n - x OBVIOUS
<1>4. ASSUME NEW z \in X PROVE z <= x
  <2>1. n - x <= n - z BY <1>2, <1>3
  <2> QED BY <2>1
<1> QED BY <1>4

\* The oldest of some things is one of them.
LEMMA OldestIs == ASSUME NEW S \in SUBSET Things PROVE Oldest(S) \in S \union {Nothing}
<1>1. CASE S = {} BY <1>1 DEF Oldest
<1>2. CASE S # {}
  <2> DEFINE X == {Due[x] : x \in S}
  <2>1. \A x \in S : Due[x] \in Nat BY ProactiveAssumption DEF Things
  <2>2. PICK d \in X : \A y \in X : d <= y
    <3>1. X \in SUBSET Nat /\ X # {} BY <1>2, <2>1
    <3> HIDE DEF X
    <3> QED BY <3>1, NatMin
  <2>3. \E x \in S : \A y \in S : Due[x] <= Due[y] BY <2>2
  <2> QED BY <1>2, <2>3 DEF Oldest
<1> QED BY <1>1, <1>2

LEMMA DuePromiseIs == ASSUME NEW at PROVE DuePromise(at) \in (Promises \ kept) \union {Nothing}
<1> DEFINE S == {p \in Promises \ kept : InTime(p, at)}
<1>1. S \in SUBSET Things BY DEF Things
<1>2. Oldest(S) \in S \union {Nothing}
  <2> HIDE DEF S
  <2> QED BY <1>1, OldestIs
<1> QED BY <1>2 DEF DuePromise

LEMMA DueEventIs ==
  ASSUME NEW at
  PROVE  DueEvent(at) \in {e \in Events : asked[e] = -1} \union {Nothing}
<1> DEFINE S == {e \in Events : asked[e] = -1 /\ InTime(e, at)}
<1>1. S \in SUBSET Things BY DEF Things
<1>2. Oldest(S) \in S \union {Nothing}
  <2> HIDE DEF S
  <2> QED BY <1>1, OldestIs
<1> QED BY <1>2 DEF DueEvent

-----------------------------------------------------------------------------
(* What a run may say, and where.                                          *)

\* The greatest nudge is the last: what is answered is answered after all.
LEMMA AnsweredIs ==
  ASSUME NEW list \in Seq(Message), Answered(list)
  PROVE  \/ \A k \in 1..Len(list) : list[k].by # "nudge"
         \/ \E k \in 1..Len(list) : list[k].by = "user" /\ \A j \in k..Len(list) : list[j].by # "nudge"
<1>1. Len(list) \in Nat /\ DOMAIN list = 1..Len(list) BY LenProperties
<1>2. CASE Nudges(list) = {} BY <1>1, <1>2 DEF Nudges
<1>3. CASE Nudges(list) # {}
  <2>1. PICK k \in DOMAIN list : list[k].by = "user" /\ k > Max(Nudges(list))
    BY <1>3 DEF Answered
  <2>2. PICK X : X = Nudges(list) OBVIOUS
  <2>3. X \in SUBSET (0..Len(list)) /\ X # {} BY <1>1, <1>3, <2>2 DEF Nudges
  <2>4. PICK m \in X : \A y \in X : y <= m BY <1>1, <2>3, NatMax
  <2>5. Max(X) \in X /\ \A y \in X : y <= Max(X)
    <3>1. m \in X /\ \A y \in X : m >= y BY <2>3, <2>4
    <3>2. Max(X) \in X /\ \A y \in X : Max(X) >= y BY <3>1 DEF Max
    <3> QED BY <2>3, <3>2
  <2>6. ASSUME NEW j \in k..Len(list) PROVE list[j].by # "nudge"
    <3>1. j \in DOMAIN list BY <1>1, <2>1
    <3>2. j \in X => FALSE
      <4>1. Max(X) \in 0..Len(list) BY <2>3, <2>5
      <4> QED BY <1>1, <2>1, <2>2, <2>5, <4>1
    <3> QED BY <2>2, <3>1, <3>2 DEF Nudges
  <2> QED BY <1>1, <2>1, <2>6
<1> QED BY <1>2, <1>3

LEMMA LastIs ==
  ASSUME NEW list \in Seq(Message), HasUser(list)
  PROVE  Len(list) \in 1..Len(list) /\ Last(list) = list[Len(list)]
<1>1. Len(list) \in Nat /\ DOMAIN list = 1..Len(list) BY LenProperties
<1> QED BY <1>1 DEF HasUser, Last


\* What a run would say in a chat.
LEMMA WouldIs ==
  ASSUME Shape, NEW r \in Runs, NEW c \in Chats, NEW plan \in Would(r, c)
  PROVE  /\ plan.kind \in {"greeting", "promise", "event", "topic"}
         /\ plan.promise \in (Promises \ kept) \union {Nothing}
         /\ plan.event \in {e \in Events : asked[e] = -1} \union {Nothing}
         /\ plan.topic \in FreshTopics(chat[c]) \union {Nothing}
         /\ plan.kind = "promise" => plan.promise \in Promises
         /\ plan.kind = "event" => plan.event \in Events
         /\ \/ MayGreet(chat[c], run[r].at) /\ plan.kind = "greeting"
            \/ MayNudge(chat[c], run[r].at)
<1> DEFINE at == run[r].at
           promise == DuePromise(at)
           event == DueEvent(at)
<1>1. promise \in (Promises \ kept) \union {Nothing} BY DuePromiseIs
<1>2. event \in {e \in Events : asked[e] = -1} \union {Nothing} BY DueEventIs
<1>3. CASE MayGreet(chat[c], at)
  <2>1. plan = Plan("greeting", promise, event, Nothing) BY <1>3 DEF Would
  <2> HIDE DEF promise, event
  <2> QED BY <1>1, <1>2, <1>3, <2>1 DEF Plan
<1>4. CASE ~MayGreet(chat[c], at)
  <2>1. MayNudge(chat[c], at) /\ plan \in Nudge(chat[c], at) BY <1>4 DEF Would
  <2>2. \/ promise # Nothing /\ plan = Plan("promise", promise, Nothing, Nothing)
        \/ event # Nothing /\ plan = Plan("event", Nothing, event, Nothing)
        \/ \E s \in FreshTopics(chat[c]) : plan = Plan("topic", Nothing, Nothing, s)
    BY <2>1 DEF Nudge
  <2> HIDE DEF promise, event, at
  <2>3. CASE promise # Nothing /\ plan = Plan("promise", promise, Nothing, Nothing)
    BY <1>1, <2>1, <2>3 DEF Plan, at
  <2>4. CASE event # Nothing /\ plan = Plan("event", Nothing, event, Nothing)
    BY <1>2, <2>1, <2>4 DEF Plan, at
  <2>5. CASE \E s \in FreshTopics(chat[c]) : plan = Plan("topic", Nothing, Nothing, s)
    BY <2>1, <2>5 DEF Plan, at
  <2> QED BY <2>2, <2>3, <2>4, <2>5
<1> QED BY <1>3, <1>4

\* It is welcome in the chat as it is.
LEMMA WouldOpen ==
  ASSUME Shape, NEW r \in Runs, NEW c \in Chats, NEW plan \in Would(r, c), NEW u,
         u.at = run[r].at, u.kind = plan.kind, u.topic = plan.topic
  PROVE  Open(chat[c], Len(chat[c]), u)
<1>1. PICK list : list = chat[c] OBVIOUS
<1>2. list \in Seq(Message) BY <1>1 DEF Shape
<1>3. PICK n : n = Len(list) OBVIOUS
<1>4. n \in Nat /\ DOMAIN list = 1..n BY <1>2, <1>3, LenProperties
<1>5. \/ MayGreet(list, u.at) /\ u.kind = "greeting"
      \/ MayNudge(list, u.at)
  BY <1>1, WouldIs
<1>6. HasUser(list) /\ Recent(list, u.at) < MaxPerWindow BY <1>5 DEF MayGreet, MayNudge
<1>7. n \in 1..n /\ Last(list) = list[n] BY <1>2, <1>3, <1>6, LastIs
<1>8. Cardinality({k \in 1..n : list[k].by = "nudge" /\ u.at - list[k].at < Window}) < MaxPerWindow
  <2>1. {k \in 1..n : list[k].by = "nudge" /\ u.at - list[k].at < Window}
          = {k \in Nudges(list) : u.at - list[k].at < Window}
    BY <1>4 DEF Nudges
  <2> QED BY <1>6, <2>1 DEF Recent
<1>9. u.topic # Nothing => \A k \in 1..n : list[k].by = "nudge" => list[k].topic # u.topic
  <2>1. u.topic \in FreshTopics(list) \union {Nothing} BY <1>1, WouldIs
  <2> QED BY <1>4, <2>1 DEF FreshTopics, Nudges
<1>10. /\ list[n].by # "nudge"
       /\ \/ u.kind = "greeting"
          \/ \A k \in 1..n : list[k].by # "nudge"
          \/ \E k \in 1..n : list[k].by = "user" /\ \A j \in k..n : list[j].by # "nudge"
  <2>1. CASE MayGreet(list, u.at) /\ u.kind = "greeting" BY <1>7, <2>1 DEF MayGreet
  <2>2. CASE MayNudge(list, u.at)
    <3>1. Answered(list) BY <2>2 DEF MayNudge
    <3>2. \/ \A k \in 1..n : list[k].by # "nudge"
          \/ \E k \in 1..n : list[k].by = "user" /\ \A j \in k..n : list[j].by # "nudge"
      BY <1>2, <1>3, <3>1, AnsweredIs
    <3>3. list[n].by # "nudge"
      <4>1. \A k \in 1..n : n \in k..n BY <1>4
      <4> QED BY <1>7, <3>2, <4>1
    <3> QED BY <3>2, <3>3
  <2> QED BY <1>5, <2>1, <2>2
<1> QED BY <1>1, <1>3, <1>7, <1>8, <1>9, <1>10 DEF Open

\* It stays so where the chat begins as it was read.
LEMMA OpenAppend ==
  ASSUME NEW list \in Seq(Message), NEW m \in Message, NEW n, NEW u, Open(list, n, u)
  PROVE  Open(Append(list, m), n, u)
<1>1. PICK new : new = Append(list, m) OBVIOUS
<1>2. /\ Len(new) = Len(list) + 1 /\ Len(list) \in Nat
      /\ \A k \in 1..Len(list) : new[k] = list[k]
  BY <1>1, AppendProperties, LenProperties
<1>3. n \in 1..Len(list) BY DEF Open
<1>4. \A k \in 1..n : new[k] = list[k] BY <1>2, <1>3
<1>5. n \in 1..Len(new) BY <1>2, <1>3
<1>6. {k \in 1..n : new[k].by = "nudge" /\ u.at - new[k].at < Window}
        = {k \in 1..n : list[k].by = "nudge" /\ u.at - list[k].at < Window}
  BY <1>4
<1>7. n \in 1..n /\ \A k \in 1..n : \A j \in k..n : j \in 1..n BY <1>3
<1>8. u.kind = "greeting" \/ (\A k \in 1..n : new[k].by # "nudge")
        \/ \E k \in 1..n : new[k].by = "user" /\ \A j \in k..n : new[j].by # "nudge"
  BY <1>4, <1>7 DEF Open
<1>9. new[n].by # "nudge" BY <1>4, <1>7 DEF Open
<1>10. u.topic # Nothing => \A k \in 1..n : new[k].by = "nudge" => new[k].topic # u.topic
  BY <1>4 DEF Open
<1> QED BY <1>1, <1>5, <1>6, <1>8, <1>9, <1>10 DEF Open

LEMMA OpenBlanks ==
  ASSUME NEW list \in Seq(Message), NEW new \in Seq(Message), OnlyBlanks(list, new),
         NEW n, NEW u, Open(list, n, u)
  PROVE  Open(new, n, u)
<1>1. n \in 1..Len(list) BY DEF Open
<1>2. Len(new) = Len(list) /\ DOMAIN new = 1..Len(list) /\ Len(list) \in Nat
  BY LenProperties DEF OnlyBlanks
<1>3. ASSUME NEW k \in 1..n
      PROVE  /\ new[k].by = "nudge" => new[k] = list[k]
             /\ list[k].by = "user" => new[k] = list[k]
  <2>1. k \in DOMAIN new /\ k \in DOMAIN list BY <1>1, <1>2, LenProperties
  <2>2. new[k] = list[k] \/ new[k] = Blanked(list[k]) BY <2>1 DEF OnlyBlanks
  <2>3. list[k] \in Message BY <2>1
  <2>4. CASE list[k].by = "nudge" /\ new[k] = Blanked(list[k])
    <3>1. new[k].by = "blank" BY <2>3, <2>4 DEF Blanked, Message
    <3> QED BY <2>4, <3>1
  <2>5. CASE list[k].by # "nudge" BY <2>2, <2>5 DEF Blanked
  <2> QED BY <2>2, <2>4, <2>5
<1>4. n \in 1..Len(new) BY <1>1, <1>2
<1>5. Cardinality({k \in 1..n : new[k].by = "nudge" /\ u.at - new[k].at < Window}) < MaxPerWindow
  <2>1. PICK S : S = {k \in 1..n : new[k].by = "nudge" /\ u.at - new[k].at < Window} OBVIOUS
  <2>2. PICK T : T = {k \in 1..n : list[k].by = "nudge" /\ u.at - list[k].at < Window} OBVIOUS
  <2>3. S \subseteq T BY <1>3, <2>1, <2>2
  <2>4. IsFiniteSet(T)
    <3>1. IsFiniteSet(1..n) BY <1>1, FS_Interval
    <3> QED BY <2>2, <3>1, FS_Subset
  <2>5. Cardinality(S) <= Cardinality(T) BY <2>3, <2>4, FS_Subset
  <2>6. Cardinality(S) \in Nat /\ Cardinality(T) \in Nat
    BY <2>3, <2>4, FS_Subset, FS_CardinalityType
  <2>7. Cardinality(T) < MaxPerWindow BY <2>2 DEF Open
  <2>8. MaxPerWindow \in Nat BY ProactiveAssumption
  <2> QED BY <2>1, <2>5, <2>6, <2>7, <2>8
<1>6. n \in 1..n /\ \A k \in 1..n : \A j \in k..n : j \in 1..n BY <1>1
<1>7. u.kind = "greeting" \/ (\A k \in 1..n : new[k].by # "nudge")
        \/ \E k \in 1..n : new[k].by = "user" /\ \A j \in k..n : new[j].by # "nudge"
  <2>1. CASE u.kind = "greeting" BY <2>1
  <2>2. CASE \A k \in 1..n : list[k].by # "nudge" BY <1>3, <2>2
  <2>3. CASE \E k \in 1..n : list[k].by = "user" /\ \A j \in k..n : list[j].by # "nudge"
    <3>1. PICK k \in 1..n : list[k].by = "user" /\ \A j \in k..n : list[j].by # "nudge" BY <2>3
    <3>2. \A j \in k..n : new[j].by # "nudge" BY <1>3, <1>6, <3>1
    <3> QED BY <1>3, <3>1, <3>2
  <2> QED BY <2>1, <2>2, <2>3 DEF Open
<1>8. new[n].by # "nudge" BY <1>3, <1>6 DEF Open
<1>9. u.topic # Nothing => \A k \in 1..n : new[k].by = "nudge" => new[k].topic # u.topic
  BY <1>3 DEF Open
<1> QED BY <1>4, <1>5, <1>7, <1>8, <1>9 DEF Open


-----------------------------------------------------------------------------
(* What a step makes of a run.                                             *)

\* The run r, and no other, becomes u.
Becomes(r, u) ==
    /\ run' \in [Runs -> Run] /\ run'[r] = u
    /\ \A q \in Runs \ {r} : run'[q] = run[q]

Rests(r) == \E u \in Run : Becomes(r, u) /\ u.step = "looking" /\ Fits(u) /\ u.at <= now

LEMMA BecomesIs ==
  ASSUME Shape, NEW r \in Runs, NEW u \in Run, run' = [run EXCEPT ![r] = u]
  PROVE  Becomes(r, u)
BY DEF Shape, Becomes

LEMMA IdleIs == Idle \in Run /\ Idle.step = "looking" /\ Fits(Idle) /\ Idle.at = 0
<1>1. 0 \in 0..MaxTime BY ProactiveAssumption
<1>2. Idle \in Run BY <1>1 DEF Idle, Run
<1> QED BY <1>2 DEF Idle, Fits

LEMMA IdleRests ==
  ASSUME Shape, NEW r \in Runs, run' = [run EXCEPT ![r] = Idle]
  PROVE  Rests(r)
<1>1. Becomes(r, Idle) BY IdleIs, BecomesIs
<1>2. 0 <= now BY DEF Shape
<1> QED BY <1>1, <1>2, IdleIs DEF Rests

LEMMA SetRests ==
  ASSUME Shape, NEW r \in Runs, NEW m \in {"live", "away", "job"}, NEW a \in 0..MaxTime,
         NEW s \in SUBSET Chats, a <= now,
         run' = [run EXCEPT ![r] = [Idle EXCEPT !.mode = m, !.at = a, !.todo = s]]
  PROVE  Rests(r)
<1>1. PICK u : u = [Idle EXCEPT !.mode = m, !.at = a, !.todo = s] OBVIOUS
<1>2. u \in Run /\ u.step = "looking" /\ Fits(u) /\ u.at = a
  <2>1. u \in Run BY <1>1, IdleIs DEF Run
  <2>2. /\ u.step = Idle.step /\ u.kind = Idle.kind /\ u.promise = Idle.promise
        /\ u.event = Idle.event /\ u.at = a /\ u.mode = m
    BY <1>1, IdleIs DEF Run
  <2>3. u.step = "looking" /\ Fits(u) BY <2>2 DEF Idle, Fits
  <2> QED BY <2>1, <2>2, <2>3
<1>3. run' = [run EXCEPT ![r] = u] BY <1>1
<1> HIDE <1>1
<1>4. Becomes(r, u) BY <1>2, <1>3, BecomesIs
<1> QED BY <1>2, <1>4 DEF Rests

LEMMA BeginRests ==
  ASSUME Shape, NEW r \in Runs, NEW m \in {"live", "away", "job"}, NEW s \in SUBSET Chats,
         Begin(r, m, s)
  PROVE  Rests(r)
<1>1. run' = [run EXCEPT ![r] = [Idle EXCEPT !.mode = m, !.at = now, !.todo = s]] BY DEF Begin
<1>2. now \in 0..MaxTime /\ now <= now BY DEF Shape
<1> QED BY <1>1, <1>2, SetRests

LEMMA GoesRests ==
  ASSUME Shape, NEW r \in Runs, NEW s \in SUBSET Chats, s \subseteq run[r].todo, Goes(r, s)
  PROVE  Rests(r)
<1>1. CASE s = {} BY <1>1, IdleRests DEF Goes
<1>2. CASE s # {}
  <2>1. PICK m, a : m = run[r].mode /\ a = run[r].at OBVIOUS
  <2>2. m \in {"live", "away", "job"} /\ a \in 0..MaxTime /\ a <= now
    BY <1>2, <2>1 DEF Shape, Run, Fits
  <2>3. run' = [run EXCEPT ![r] = [Idle EXCEPT !.mode = m, !.at = a, !.todo = s]]
    BY <1>2, <2>1 DEF Goes
  <2> HIDE <2>1
  <2> QED BY <2>2, <2>3, SetRests
<1> QED BY <1>1, <1>2

\* The steps after which a run is at nothing.
Lets(r) ==
    \/ \E live \in SUBSET Chats : StartPass(r, live)
    \/ \E c \in Chats : StartGreeting(r, c) \/ PassOver(r, c)
    \/ Declines(r) \/ MovedOn(r) \/ MarkEvent(r) \/ Errs(r) \/ Die(r)

LEMMA LetsRests == ASSUME Shape, NEW r \in Runs, Lets(r) PROVE Rests(r)
<1>1. run[r].todo \in SUBSET Chats BY DEF Shape, Run
<1>2. ASSUME NEW live \in SUBSET Chats, StartPass(r, live) PROVE Rests(r)
  <2>1. Channels \in SUBSET Chats BY ProactiveAssumption
  <2> QED BY <1>2, <2>1, BeginRests DEF StartPass
<1>3. ASSUME NEW c \in Chats, StartGreeting(r, c) PROVE Rests(r)
  <2>1. {c} \in SUBSET Chats OBVIOUS
  <2> QED BY <1>3, <2>1, BeginRests DEF StartGreeting
<1>4. ASSUME NEW c \in Chats, PassOver(r, c) PROVE Rests(r)
  <2>1. run[r].todo \ {c} \in SUBSET Chats /\ run[r].todo \ {c} \subseteq run[r].todo BY <1>1
  <2> QED BY <1>4, <2>1, GoesRests DEF PassOver
<1>5. ASSUME Declines(r) \/ MovedOn(r) \/ MarkEvent(r) \/ Errs(r) PROVE Rests(r)
  BY <1>1, <1>5, GoesRests DEF Declines, MovedOn, MarkEvent, Errs, GoesOn
<1>6. CASE Die(r) BY <1>6, IdleRests DEF Die
<1> QED BY <1>2, <1>3, <1>4, <1>5, <1>6 DEF Lets

\* The run goes from one step to the next.
Steps(r, s) ==
    /\ run' \in [Runs -> Run] /\ run'[r].step = s
    /\ \A q \in Runs \ {r} : run'[q] = run[q]
    /\ run'[r].at = run[r].at /\ run'[r].chat = run[r].chat /\ run'[r].kind = run[r].kind
    /\ run'[r].promise = run[r].promise /\ run'[r].event = run[r].event
    /\ run'[r].mode = run[r].mode

LEMMA StepIs ==
  ASSUME Shape, NEW r \in Runs, NEW s \in {"said", "resolved"}, run' = [run EXCEPT ![r].step = s]
  PROVE  Steps(r, s)
<1>1. run[r] \in Run /\ run \in [Runs -> Run] BY DEF Shape
<1> QED BY <1>1 DEF Steps, Run

\* The run speaks.
LEMMA DecideIs ==
  ASSUME Shape, NEW r \in Runs, NEW c \in Chats, Decide(r, c)
  PROVE  \E plan \in Would(r, c), u \in Run :
            /\ Becomes(r, u) /\ u.step = "writing" /\ u.chat = c /\ u.kind = plan.kind
            /\ u.promise = plan.promise /\ u.event = plan.event /\ u.topic = plan.topic
            /\ u.count = Len(chat[c]) /\ u.at = run[r].at /\ u.mode = run[r].mode
            /\ excused' = excused \union {x \in {plan.promise, plan.event} : AtWork(r, c, x)}
<1>1. PICK plan \in Would(r, c) :
        /\ run' = [run EXCEPT ![r] = Speaking(run[r], c, plan)]
        /\ excused' = excused \union {x \in {plan.promise, plan.event} : AtWork(r, c, x)}
  BY DEF Decide
<1>2. /\ plan.kind \in {"greeting", "promise", "event", "topic"}
      /\ plan.promise \in Promises \union {Nothing} /\ plan.event \in Events \union {Nothing}
      /\ plan.topic \in Topics \union {Nothing}
  <2>1. /\ plan.kind \in {"greeting", "promise", "event", "topic"}
        /\ plan.promise \in (Promises \ kept) \union {Nothing}
        /\ plan.event \in {a \in Events : asked[a] = -1} \union {Nothing}
        /\ plan.topic \in FreshTopics(chat[c]) \union {Nothing}
    BY WouldIs
  <2> QED BY <2>1 DEF FreshTopics
<1>3. run[r] \in Run /\ Len(chat[c]) \in Nat
  <2>1. chat[c] \in Seq(Message) /\ run[r] \in Run BY DEF Shape
  <2> QED BY <2>1, LenProperties
<1>4. PICK u : u = Speaking(run[r], c, plan) OBVIOUS
<1>5. run' = [run EXCEPT ![r] = u] BY <1>1, <1>4
<1>6. /\ u.step = "writing" /\ u.chat = c /\ u.kind = plan.kind /\ u.promise = plan.promise
      /\ u.event = plan.event /\ u.topic = plan.topic /\ u.count = Len(chat[c])
      /\ u.at = run[r].at /\ u.mode = run[r].mode
  BY <1>3, <1>4 DEF Run, Speaking
<1>7. u \in Run BY <1>2, <1>3, <1>4 DEF Run, Speaking
<1> HIDE <1>4
<1>8. Becomes(r, u) BY <1>5, <1>7, BecomesIs
<1> QED BY <1>1, <1>6, <1>7, <1>8


\* A deletion cuts the runs of its chat, and changes nothing else of them.
LEMMA CutIs ==
  ASSUME Shape, NEW e \in erasing, EraseSaves(e)
  PROVE  /\ run' \in [Runs -> Run]
         /\ \A q \in Runs :
               /\ run'[q].step = run[q].step /\ run'[q].kind = run[q].kind
               /\ run'[q].promise = run[q].promise /\ run'[q].event = run[q].event
               /\ run'[q].chat = run[q].chat /\ run'[q].count = run[q].count
               /\ run'[q].topic = run[q].topic /\ run'[q].at = run[q].at
               /\ run'[q].mode = run[q].mode /\ run'[q].todo = run[q].todo
               /\ ~run'[q].cut =>
                     ~run[q].cut /\ (run[q].chat = e.chat => OnlyBlanks(chat[e.chat], e.list))
<1>1. \A q \in Runs : run[q] \in Run BY DEF Shape
<1>2. PICK cuts \in BOOLEAN : cuts = ~OnlyBlanks(chat[e.chat], e.list) OBVIOUS
<1>3. run' = [q \in Runs |-> IF cuts /\ run[q].chat = e.chat THEN [run[q] EXCEPT !.cut = TRUE] ELSE run[q]]
  BY <1>2 DEF EraseSaves
<1>4. ASSUME NEW q \in Runs
      PROVE  /\ run'[q] \in Run
             /\ run'[q].step = run[q].step /\ run'[q].kind = run[q].kind
             /\ run'[q].promise = run[q].promise /\ run'[q].event = run[q].event
             /\ run'[q].chat = run[q].chat /\ run'[q].count = run[q].count
             /\ run'[q].topic = run[q].topic /\ run'[q].at = run[q].at
             /\ run'[q].mode = run[q].mode /\ run'[q].todo = run[q].todo
             /\ ~run'[q].cut => ~run[q].cut /\ (run[q].chat = e.chat => ~cuts)
  <2>1. CASE cuts /\ run[q].chat = e.chat
    <3>1. run'[q] = [run[q] EXCEPT !.cut = TRUE] BY <1>3, <2>1
    <3>2. run'[q] \in Run BY <1>1, <3>1 DEF Run
    <3>3. run'[q].cut BY <1>1, <3>1 DEF Run
    <3> QED BY <1>1, <3>1, <3>2, <3>3 DEF Run
  <2>2. CASE ~(cuts /\ run[q].chat = e.chat)
    <3>1. run'[q] = run[q] BY <1>3, <2>2
    <3> QED BY <1>1, <2>2, <3>1
  <2> QED BY <2>1, <2>2
<1>5. run' \in [Runs -> Run] BY <1>3, <1>4
<1> QED BY <1>2, <1>4, <1>5

-----------------------------------------------------------------------------
(* Types.                                                                  *)

RunsFit == run \in [Runs -> Run] /\ \A r \in Runs : Fits(run[r]) /\ run[r].at <= now

LEMMA BecomesFits ==
  ASSUME Shape, NEW r \in Runs, NEW u \in Run, Becomes(r, u), Fits(u), u.at <= now, now' = now
  PROVE  RunsFit'
<1>1. ASSUME NEW q \in Runs PROVE Fits(run'[q]) /\ run'[q].at <= now
  <2>1. CASE q = r BY <2>1 DEF Becomes
  <2>2. CASE q # r
    <3>1. run'[q] = run[q] BY <2>2 DEF Becomes
    <3> QED BY <3>1 DEF Shape
  <2> QED BY <2>1, <2>2
<1> QED BY <1>1 DEF Becomes, RunsFit

LEMMA StepsFits ==
  ASSUME Shape, NEW r \in Runs, NEW s \in {"said", "resolved"}, Steps(r, s),
         run[r].step # "looking", now' = now
  PROVE  RunsFit'
<1>1. ASSUME NEW q \in Runs PROVE Fits(run'[q]) /\ run'[q].at <= now
  <2>1. CASE q = r BY <2>1 DEF Steps, Shape, Fits
  <2>2. CASE q # r
    <3>1. run'[q] = run[q] BY <2>2 DEF Steps
    <3> QED BY <3>1 DEF Shape
  <2> QED BY <2>1, <2>2
<1> QED BY <1>1 DEF Steps, RunsFit

LEMMA RunsFitStep == ASSUME Shape, Next PROVE RunsFit'
<1>0. RunsFit BY DEF Shape, RunsFit
<1>1. ASSUME Tick PROVE RunsFit'
  <2>1. now \in Nat /\ now' = now + 1 /\ run' = run BY <1>1 DEF Tick, Shape
  <2>2. \A r \in Runs : run[r].at \in 0..MaxTime BY DEF Shape, Run
  <2>3. \A r \in Runs : run[r].at <= now' BY <1>0, <2>1, <2>2 DEF RunsFit
  <2> QED BY <1>0, <2>1, <2>3 DEF RunsFit
<1>2. ASSUME NEW c \in Chats, Write(c) PROVE RunsFit' BY <1>0, <1>2 DEF Write, RunsFit
<1>3. ASSUME NEW c \in Chats, NEW k \in DOMAIN chat[c], EraseReads(c, k) PROVE RunsFit'
  BY <1>0, <1>3 DEF EraseReads, RunsFit
<1>4. ASSUME NEW e \in erasing, EraseSaves(e) PROVE RunsFit'
  <2>1. now' = now BY <1>4 DEF EraseSaves
  <2>2. run' \in [Runs -> Run] BY <1>4, CutIs
  <2>3. ASSUME NEW q \in Runs PROVE Fits(run'[q]) /\ run'[q].at <= now
    <3>1. /\ run'[q].step = run[q].step /\ run'[q].kind = run[q].kind
          /\ run'[q].promise = run[q].promise /\ run'[q].event = run[q].event
          /\ run'[q].chat = run[q].chat /\ run'[q].at = run[q].at
          /\ run'[q].mode = run[q].mode /\ run'[q].todo = run[q].todo
      BY <1>4, CutIs
    <3> QED BY <1>0, <3>1 DEF RunsFit, Fits
  <2> QED BY <2>1, <2>2, <2>3 DEF RunsFit
<1>5. ASSUME NEW r \in Runs, Lets(r) PROVE RunsFit'
  <2>1. PICK u \in Run : Becomes(r, u) /\ Fits(u) /\ u.at <= now BY <1>5, LetsRests DEF Rests
  <2>2. now' = now
    BY <1>5 DEF Lets, StartPass, StartGreeting, Begin, PassOver, Declines, MovedOn, MarkEvent,
                Errs, Die, world
  <2> QED BY <2>1, <2>2, BecomesFits
<1>6. ASSUME NEW r \in Runs, NEW c \in Chats, Decide(r, c) PROVE RunsFit'
  <2>1. PICK plan \in Would(r, c), u \in Run :
           /\ Becomes(r, u) /\ u.step = "writing" /\ u.chat = c /\ u.kind = plan.kind
           /\ u.promise = plan.promise /\ u.event = plan.event /\ u.at = run[r].at
           /\ u.mode = run[r].mode
    BY <1>6, DecideIs
  <2>2. /\ plan.kind \in {"greeting", "promise", "event", "topic"}
        /\ plan.kind = "promise" => plan.promise \in Promises
        /\ plan.kind = "event" => plan.event \in Events
    BY WouldIs
  <2>3. Fits(u) /\ u.at <= now
    <3>1. run[r].mode # "idle" BY <1>6 DEF Decide, Shape, Fits
    <3>2. run[r].at <= now BY DEF Shape
    <3> QED BY <2>1, <2>2, <3>1, <3>2 DEF Fits
  <2>4. now' = now BY <1>6 DEF Decide, world
  <2> QED BY <2>1, <2>3, <2>4, BecomesFits
<1>7. ASSUME NEW r \in Runs, Deliver(r) PROVE RunsFit'
  <2>1. Steps(r, "said") /\ run[r].step # "looking" /\ now' = now BY <1>7, StepIs DEF Deliver
  <2> QED BY <2>1, StepsFits
<1>8. ASSUME NEW r \in Runs, Resolve(r) PROVE RunsFit'
  <2>1. Steps(r, "resolved") /\ run[r].step # "looking" /\ now' = now
    BY <1>8, StepIs DEF Resolve, world
  <2> QED BY <2>1, StepsFits
<1> QED BY <1>1, <1>2, <1>3, <1>4, <1>5, <1>6, <1>7, <1>8 DEF Next, Lets

\* How often a thing is raised is counted up to 2.
LEMMA CountedIs ==
  ASSUME NEW v \in 0..2
  PROVE  Min({v + 1, 2}) \in 0..2 /\ (v = 0 => Min({v + 1, 2}) = 1)
<1>1. PICK m : m = IF v = 2 THEN 2 ELSE v + 1 OBVIOUS
<1>2. m \in {v + 1, 2} /\ \A y \in {v + 1, 2} : m <= y BY <1>1
<1>3. PICK x : x = Min({v + 1, 2}) OBVIOUS
<1>4. x \in {v + 1, 2} /\ \A y \in {v + 1, 2} : x <= y BY <1>2, <1>3 DEF Min
<1>5. x <= m BY <1>2, <1>4
<1> QED BY <1>1, <1>3, <1>4, <1>5


LEMMA AddedIs ==
  ASSUME Shape, NEW c \in Chats, NEW by \in {"user", "nudge"}, NEW at \in 0..MaxTime,
         NEW topic \in Topics \union {Nothing}, Added(c, by, at, topic)
  PROVE  /\ chat' \in [Chats -> Seq(Message)]
         /\ Len(chat'[c]) = Len(chat[c]) + 1
         /\ \A d \in Chats \ {c} : chat'[d] = chat[d]
         /\ \E m \in Message : chat'[c] = Append(chat[c], m)
<1>1. PICK m : m = [by |-> by, at |-> at, topic |-> topic] OBVIOUS
<1>2. m \in Message BY <1>1 DEF Message
<1>3. chat' = [chat EXCEPT ![c] = Append(chat[c], m)] BY <1>1 DEF Added
<1>4. chat \in [Chats -> Seq(Message)] BY DEF Shape
<1>5. Append(chat[c], m) \in Seq(Message) /\ Len(Append(chat[c], m)) = Len(chat[c]) + 1
  BY <1>2, <1>4, AppendProperties
<1> HIDE <1>1
<1> QED BY <1>2, <1>3, <1>4, <1>5

StoreFits ==
    /\ now \in 0..MaxTime
    /\ chat \in [Chats -> Seq(Message)]
    /\ erasing \subseteq [chat : Chats, list : Seq(Message)]
    /\ kept \subseteq Promises /\ asked \in [Events -> -1..MaxTime]
    /\ raised \in [Things -> 0..2] /\ excused \subseteq Things

\* What is marked stays so, whatever the step.
LEMMA AskedIs ==
  ASSUME Shape, NEW r \in Runs, NEW e \in Events, asked' = [asked EXCEPT ![e] = run[r].at]
  PROVE  /\ asked' \in [Events -> -1..MaxTime] /\ asked'[e] # -1
         /\ \A d \in Events : asked[d] # -1 => asked'[d] # -1
<1>1. run[r].at \in 0..MaxTime /\ asked \in [Events -> -1..MaxTime] BY DEF Shape, Run
<1>2. run[r].at \in -1..MaxTime /\ run[r].at # -1 BY <1>1
<1> QED BY <1>1, <1>2

LEMMA StoreStep == ASSUME Shape, Next PROVE StoreFits'
<1>0. StoreFits BY DEF Shape, StoreFits
<1>1. ASSUME Tick PROVE StoreFits'
  <2>1. now' \in 0..MaxTime BY <1>0, <1>1, ProactiveAssumption DEF Tick, StoreFits
  <2> QED BY <1>0, <1>1, <2>1 DEF Tick, StoreFits, marks, history
<1>2. ASSUME NEW c \in Chats, Write(c) PROVE StoreFits'
  <2>1. now \in 0..MaxTime BY <1>0 DEF StoreFits
  <2>2. chat' \in [Chats -> Seq(Message)] BY <1>2, <2>1, AddedIs DEF Write
  <2> QED BY <1>0, <1>2, <2>2 DEF Write, StoreFits, marks, history
<1>3. ASSUME NEW c \in Chats, NEW k \in DOMAIN chat[c], EraseReads(c, k) PROVE StoreFits'
  <2>1. chat[c] \in Seq(Message) BY <1>0 DEF StoreFits
  <2>2. chat[c][k] \in Message BY <2>1, LenProperties
  <2>3. Blanked(chat[c][k]) \in Message BY <2>2 DEF Blanked, Message
  <2>4. PICK m : m = Blanked(chat[c][k]) OBVIOUS
  <2>5. [chat[c] EXCEPT ![k] = m] \in Seq(Message) BY <2>1, <2>3, <2>4, ExceptSeq, LenProperties
  <2>6. PICK list : list = [chat[c] EXCEPT ![k] = m] OBVIOUS
  <2>7. erasing' = erasing \union {[chat |-> c, list |-> list]} BY <1>3, <2>4, <2>6 DEF EraseReads
  <2>8. erasing' \subseteq [chat : Chats, list : Seq(Message)]
    <3>1. [chat |-> c, list |-> list] \in [chat : Chats, list : Seq(Message)] BY <2>5, <2>6
    <3>2. erasing \subseteq [chat : Chats, list : Seq(Message)] BY <1>0 DEF StoreFits
    <3> QED BY <2>7, <3>1, <3>2
  <2> QED BY <1>0, <1>3, <2>8 DEF EraseReads, StoreFits, marks, history
<1>4. ASSUME NEW e \in erasing, EraseSaves(e) PROVE StoreFits'
  <2>1. e.chat \in Chats /\ e.list \in Seq(Message) BY <1>0 DEF StoreFits
  <2>2. chat' \in [Chats -> Seq(Message)] BY <1>0, <1>4, <2>1 DEF EraseSaves, StoreFits
  <2>3. erasing' \subseteq erasing BY <1>4 DEF EraseSaves
  <2>4. excused' \subseteq Things BY <1>0, <1>4 DEF EraseSaves, StoreFits
  <2> QED BY <1>0, <1>4, <2>2, <2>3, <2>4 DEF EraseSaves, StoreFits, marks
<1>5. ASSUME NEW r \in Runs, Lets(r) PROVE StoreFits'
  <2>1. UNCHANGED <<now, chat, erasing, raised>>
    BY <1>5 DEF Lets, StartPass, StartGreeting, Begin, PassOver, Declines, MovedOn, MarkEvent,
                Errs, Die, world, history
  <2>2. kept' = kept
    BY <1>5 DEF Lets, StartPass, StartGreeting, Begin, PassOver, Declines, MovedOn, MarkEvent,
                Errs, Die, marks
  <2>3. asked' \in [Events -> -1..MaxTime]
    <3>0. asked \in [Events -> -1..MaxTime] BY <1>0 DEF StoreFits
    <3>1. CASE Declines(r)
      <4>1. run[r].kind = "event" => run[r].event \in Events BY DEF Shape, Fits
      <4> QED BY <3>0, <3>1, <4>1, AskedIs DEF Declines
    <3>2. CASE MarkEvent(r)
      <4>1. run[r].event \in Events \union {Nothing} BY DEF Shape, Run
      <4> QED BY <3>0, <3>2, <4>1, AskedIs DEF MarkEvent
    <3>3. CASE ~Declines(r) /\ ~MarkEvent(r)
      BY <1>5, <3>0, <3>3 DEF Lets, StartPass, StartGreeting, Begin, PassOver, MovedOn,
                Errs, Die, marks
    <3> QED BY <3>1, <3>2, <3>3
  <2>4. excused' \subseteq Things
    <3>1. excused' = excused \/ excused' = excused \union Unmarked(r)
      BY <1>5 DEF Lets, StartPass, StartGreeting, Begin, PassOver, Declines, MovedOn, MarkEvent,
                Errs, Die, history
    <3>2. Unmarked(r) \subseteq Things BY DEF Unmarked
    <3> QED BY <1>0, <3>1, <3>2 DEF StoreFits
  <2> QED BY <1>0, <2>1, <2>2, <2>3, <2>4 DEF StoreFits
<1>6. ASSUME NEW r \in Runs, NEW c \in Chats, Decide(r, c) PROVE StoreFits'
  <2>1. PICK plan \in Would(r, c) :
           excused' = excused \union {x \in {plan.promise, plan.event} : AtWork(r, c, x)}
    BY <1>6, DecideIs
  <2>2. plan.promise \in Things \union {Nothing} /\ plan.event \in Things \union {Nothing}
    BY WouldIs DEF Things
  <2>3. \A x : AtWork(r, c, x) => x # Nothing BY DEF AtWork
  <2>4. excused' \subseteq Things BY <1>0, <2>1, <2>2, <2>3 DEF StoreFits
  <2> QED BY <1>0, <1>6, <2>4 DEF Decide, StoreFits, world, marks
<1>7. ASSUME NEW r \in Runs, Deliver(r) PROVE StoreFits'
  <2>1. /\ run[r].chat \in Chats /\ run[r].at \in 0..MaxTime
        /\ run[r].topic \in Topics \union {Nothing}
    BY <1>7 DEF Deliver, Shape, Run, Fits
  <2>2. chat' \in [Chats -> Seq(Message)] BY <1>7, <2>1, AddedIs DEF Deliver
  <2>3. raised' \in [Things -> 0..2]
    <3>1. \A x \in Things : raised[x] \in 0..2 /\ Min({raised[x] + 1, 2}) \in 0..2
      BY <1>0, CountedIs DEF StoreFits
    <3> QED BY <1>7, <3>1 DEF Deliver
  <2> QED BY <1>0, <1>7, <2>2, <2>3 DEF Deliver, StoreFits, marks
<1>8. ASSUME NEW r \in Runs, Resolve(r) PROVE StoreFits'
  <2>1. run[r].promise \in Promises \union {Nothing} BY DEF Shape, Run
  <2>2. kept' \subseteq Promises BY <1>0, <1>8, <2>1 DEF Resolve, Resolved, StoreFits
  <2> QED BY <1>0, <1>8, <2>2 DEF Resolve, StoreFits, world, history
<1> QED BY <1>1, <1>2, <1>3, <1>4, <1>5, <1>6, <1>7, <1>8 DEF Next, Lets

LEMMA ShapeStep == ASSUME Shape, Next PROVE Shape'
BY RunsFitStep, StoreStep DEF RunsFit, StoreFits, Shape

LEMMA ShapeStays == ASSUME Shape, UNCHANGED vars PROVE Shape'
BY DEF Shape, vars, world, marks, history

LEMMA ShapeInit == ASSUME Init PROVE Shape
<1>1. 0 \in 0..MaxTime /\ -1 \in -1..MaxTime /\ 0 \in 0..2 BY ProactiveAssumption
<1>2. PICK m : m = [by |-> "user", at |-> 0, topic |-> Nothing] OBVIOUS
<1>3. m \in Message BY <1>1, <1>2 DEF Message
<1>4. << m >> \in Seq(Message) BY <1>3
<1>5. chat \in [Chats -> Seq(Message)] BY <1>2, <1>4 DEF Init
<1>6. run = [r \in Runs |-> Idle] /\ now = 0 BY DEF Init
<1>7. run \in [Runs -> Run] /\ \A r \in Runs : Fits(run[r]) /\ run[r].at <= now
  <2>1. \A r \in Runs : run[r] = Idle BY <1>6
  <2>2. run \in [Runs -> Run] BY <1>6, IdleIs
  <2>3. 0 <= now BY <1>6
  <2> QED BY <2>1, <2>2, <2>3, IdleIs
<1> QED BY <1>1, <1>5, <1>7 DEF Init, Shape

LEMMA ShapeTypes == ASSUME Shape PROVE TypeOK
<1>1. \A r \in Runs : run[r] \in Run /\ Fits(run[r]) BY DEF Shape
<1> QED BY <1>1 DEF Shape, Run, Fits, TypeOK


-----------------------------------------------------------------------------
(* What is raised once.                                                    *)

\* Nothing new is raised, or at work, about x, and nothing is forgotten of it.
Follows(x) ==
    /\ raised'[x] = raised[x]
    /\ Marked(x) => Marked(x)'
    /\ \A q \in Runs : x \in Unmarked(q) => Marked(x)' \/ x \in Unmarked(q)'
    /\ \A q \in Runs : Raises(q, x)' => Raises(q, x) /\ run'[q].chat = run[q].chat
    /\ \A q \in Runs : Raises(q, x)' /\ run'[q].step = "writing" =>
          /\ run[q].step = "writing" /\ run'[q].count = run[q].count
          /\ Len(chat'[run[q].chat]) >= Len(chat[run[q].chat])

LEMMA FollowsOnce ==
  ASSUME Shape, Shape', NEW x \in Things, Once(x), Follows(x)
  PROVE  Once(x)'
<1>1. Told(x)' BY DEF Once, Told, Follows
<1>2. Behind(x)'
  <2> SUFFICES ASSUME NEW r \in Runs, run'[r].step = "writing", Raises(r, x)'
               PROVE  LET n == Len(chat'[run'[r].chat]) IN
                      n >= run'[r].count /\ (raised'[x] = 0 \/ n > run'[r].count)
    BY DEF Behind
  <2>1. /\ Raises(r, x) /\ run'[r].chat = run[r].chat /\ run[r].step = "writing"
        /\ run'[r].count = run[r].count /\ raised'[x] = raised[x]
        /\ Len(chat'[run[r].chat]) >= Len(chat[run[r].chat])
    BY DEF Follows
  <2>2. run[r].chat \in Chats /\ run[r].count \in Nat BY <2>1 DEF Shape, Fits, Run
  <2>3. Len(chat[run[r].chat]) \in Nat /\ Len(chat'[run[r].chat]) \in Nat
    BY <2>2, LenProperties DEF Shape
  <2>4. LET n == Len(chat[run[r].chat]) IN
        n >= run[r].count /\ (raised[x] = 0 \/ n > run[r].count)
    BY <2>1 DEF Once, Behind
  <2> QED BY <2>1, <2>2, <2>3, <2>4
<1>3. Together(x)' BY DEF Once, Together, Follows
<1> QED BY <1>1, <1>2, <1>3 DEF Once

LEMMA RaisesIs ==
  ASSUME Shape, NEW r \in Runs, NEW x \in Things, Raises(r, x)
  PROVE  run[r].step # "looking"
<1>1. x # Nothing BY ProactiveAssumption DEF Things
<1> QED BY <1>1 DEF Raises, Shape, Fits

\* A run that lets go of x has marked it, or excuses it.
LEMMA LetsFollows ==
  ASSUME Shape, NEW r \in Runs, Lets(r), NEW x \in Things \ excused'
  PROVE  Follows(x)
<1>1. PICK u \in Run : Becomes(r, u) /\ u.step = "looking" /\ Fits(u) BY LetsRests DEF Rests
<1>2. x # Nothing BY ProactiveAssumption DEF Things
<1>3. run'[r] = u /\ \A q \in Runs \ {r} : run'[q] = run[q] BY <1>1 DEF Becomes
<1>4. ~Raises(r, x)' BY <1>1, <1>2, <1>3 DEF Raises, Fits
<1>5. UNCHANGED <<chat, raised, kept>>
  BY DEF Lets, StartPass, StartGreeting, Begin, PassOver, Declines, MovedOn, MarkEvent,
         Errs, Die, world, marks, history
<1>6. \A e \in Events : asked[e] # -1 => asked'[e] # -1
  <2>1. CASE Declines(r)
    <3>1. run[r].kind = "event" => run[r].event \in Events BY DEF Shape, Fits
    <3> QED BY <2>1, <3>1, AskedIs DEF Declines
  <2>2. CASE MarkEvent(r)
    <3>1. run[r].event \in Events \union {Nothing} BY DEF Shape, Run
    <3> QED BY <2>2, <3>1, AskedIs DEF MarkEvent
  <2>3. CASE ~Declines(r) /\ ~MarkEvent(r)
    BY <2>3 DEF Lets, StartPass, StartGreeting, Begin, PassOver, MovedOn, Errs, Die, marks
  <2> QED BY <2>1, <2>2, <2>3
<1>7. Marked(x) => Marked(x)' BY <1>5, <1>6 DEF Marked
<1>8. ASSUME x \in Unmarked(r) PROVE Marked(x)'
  <2>1. Raises(r, x) /\ run[r].step \in {"said", "resolved"} BY <1>8 DEF Unmarked
  <2>2. run[r].step = "resolved" => x \in Events BY <1>8 DEF Unmarked
  <2>3. CASE MarkEvent(r)
    <3>1. x \in Events BY <2>2, <2>3 DEF MarkEvent
    <3>2. x = run[r].event
      <4>1. run[r].promise \in Promises \union {Nothing} BY DEF Shape, Run
      <4> QED BY <1>2, <2>1, <3>1, <4>1, ProactiveAssumption DEF Raises
    <3>3. asked'[x] # -1 BY <1>2, <2>3, <3>1, <3>2, AskedIs DEF MarkEvent
    <3> QED BY <3>1, <3>3 DEF Marked
  <2>4. CASE Errs(r) \/ Die(r) BY <1>8, <2>4 DEF Errs, Die
  <2>5. CASE ~MarkEvent(r) /\ ~Errs(r) /\ ~Die(r)
    <3>1. run[r].step \in {"looking", "writing"} \/ run[r].mode = "idle"
      BY <2>5 DEF Lets, StartPass, StartGreeting, Begin, PassOver, Declines, MovedOn
    <3>2. run[r].mode = "idle" => run[r].step = "looking" BY DEF Shape, Fits
    <3> QED BY <2>1, <3>1, <3>2
  <2> QED BY <2>3, <2>4, <2>5
<1>9. ASSUME NEW q \in Runs, x \in Unmarked(q) PROVE Marked(x)' \/ x \in Unmarked(q)'
  <2>1. CASE q = r BY <1>8, <1>9, <2>1
  <2>2. CASE q # r BY <1>3, <1>9, <2>2 DEF Unmarked, Raises
  <2> QED BY <2>1, <2>2
<1>10. ASSUME NEW q \in Runs, Raises(q, x)' PROVE Raises(q, x) /\ run'[q] = run[q]
  <2>1. q # r BY <1>4, <1>10
  <2> QED BY <1>3, <1>10, <2>1 DEF Raises
<1>11. \A q \in Runs : Raises(q, x) => Len(chat[run[q].chat]) \in Nat
  <2>1. \A q \in Runs : Raises(q, x) => run[q].chat \in Chats BY RaisesIs DEF Shape, Fits
  <2> QED BY <2>1, LenProperties DEF Shape
<1> QED BY <1>5, <1>7, <1>9, <1>10, <1>11 DEF Follows


\* What is at work is at work in a chat, which has a length.
LEMMA LengthIs ==
  ASSUME Shape, NEW q \in Runs, run[q].step # "looking"
  PROVE  run[q].chat \in Chats /\ Len(chat[run[q].chat]) \in Nat
<1>1. run[q].chat \in Chats BY DEF Shape, Fits
<1> QED BY <1>1, LenProperties DEF Shape

LEMMA QuietFollows ==
  ASSUME Shape, NEW x \in Things, UNCHANGED <<run, marks, raised>>,
         \A c \in Chats : Len(chat'[c]) >= Len(chat[c])
  PROVE  Follows(x)
<1>1. /\ Marked(x) <=> Marked(x)'
      /\ \A q \in Runs : Raises(q, x)' <=> Raises(q, x)
      /\ \A q \in Runs : x \in Unmarked(q)' <=> x \in Unmarked(q)
  BY DEF Marked, Raises, Unmarked, marks
<1>2. \A q \in Runs : run[q].step = "writing" => run[q].chat \in Chats BY LengthIs
<1> QED BY <1>1, <1>2 DEF Follows, marks

\* A deletion shortens no chat in which something is at work that it does not excuse.
LEMMA ErasedFollows ==
  ASSUME Shape, NEW e \in erasing, EraseSaves(e), NEW x \in Things \ excused'
  PROVE  Follows(x)
<1>1. \A q \in Runs :
         /\ run'[q].step = run[q].step /\ run'[q].promise = run[q].promise
         /\ run'[q].event = run[q].event /\ run'[q].chat = run[q].chat
         /\ run'[q].count = run[q].count
  BY CutIs
<1>2. /\ \A q \in Runs : Raises(q, x)' <=> Raises(q, x)
      /\ \A q \in Runs : x \in Unmarked(q)' <=> x \in Unmarked(q)
  BY <1>1 DEF Raises, Unmarked
<1>3. raised' = raised /\ kept' = kept /\ asked' = asked BY DEF EraseSaves, marks
<1>4. Marked(x) => Marked(x)' BY <1>3 DEF Marked
<1>5. e.chat \in Chats /\ e.list \in Seq(Message) BY DEF Shape
<1>6. chat \in [Chats -> Seq(Message)] /\ chat' = [chat EXCEPT ![e.chat] = e.list]
  BY DEF Shape, EraseSaves
<1>7. ASSUME NEW q \in Runs, Raises(q, x), run[q].step = "writing"
      PROVE  Len(chat'[run[q].chat]) >= Len(chat[run[q].chat])
  <2>1. run[q].chat \in Chats /\ Len(chat[run[q].chat]) \in Nat BY <1>7, LengthIs
  <2>2. CASE run[q].chat = e.chat
    <3>1. ~(Len(e.list) < Len(chat[e.chat])) BY <1>7, <2>2 DEF EraseSaves
    <3>2. chat'[e.chat] = e.list /\ Len(e.list) \in Nat BY <1>5, <1>6, LenProperties
    <3> QED BY <2>1, <2>2, <3>1, <3>2
  <2>3. CASE run[q].chat # e.chat
    <3>1. chat'[run[q].chat] = chat[run[q].chat] BY <1>6, <2>1, <2>3
    <3> QED BY <2>1, <3>1
  <2> QED BY <2>2, <2>3
<1>8. \A q \in Runs : Raises(q, x)' => Raises(q, x) BY <1>2
<1>9. \A q \in Runs : x \in Unmarked(q) => x \in Unmarked(q)' BY <1>2
<1> QED BY <1>1, <1>3, <1>4, <1>7, <1>8, <1>9 DEF Follows

LEMMA ResolveFollows ==
  ASSUME Shape, NEW r \in Runs, Resolve(r), NEW x \in Things
  PROVE  Follows(x)
<1>1. Steps(r, "resolved") BY StepIs DEF Resolve
<1>2. \A q \in Runs : run'[q].promise = run[q].promise /\ run'[q].event = run[q].event
                      /\ run'[q].chat = run[q].chat
  BY <1>1 DEF Steps
<1>3. \A q \in Runs : Raises(q, x)' <=> Raises(q, x) BY <1>2 DEF Raises
<1>4. raised' = raised /\ asked' = asked /\ chat' = chat BY DEF Resolve, world, history
<1>5. kept' = kept \union ({run[r].promise} \ {Nothing}) BY DEF Resolve, Resolved
<1>6. Marked(x) => Marked(x)' BY <1>4, <1>5 DEF Marked
<1>7. x # Nothing BY ProactiveAssumption DEF Things
<1>8. ASSUME NEW q \in Runs, x \in Unmarked(q) PROVE Marked(x)' \/ x \in Unmarked(q)'
  <2>1. CASE q # r
    <3>1. run'[q] = run[q] BY <1>1, <2>1 DEF Steps
    <3> QED BY <1>8, <3>1 DEF Unmarked, Raises
  <2>2. CASE q = r /\ x \in Events
    <3>1. run'[q].step = "resolved" /\ Raises(q, x)' BY <1>1, <1>3, <1>8, <2>2 DEF Steps, Unmarked
    <3> QED BY <2>2, <3>1 DEF Unmarked, Raises
  <2>3. CASE q = r /\ x \notin Events
    <3>1. Raises(r, x) BY <1>8, <2>3 DEF Unmarked
    <3>2. run[r].event \in Events \union {Nothing} BY DEF Shape, Run
    <3>3. x = run[r].promise BY <1>7, <2>3, <3>1, <3>2 DEF Raises
    <3> QED BY <1>5, <1>7, <3>3 DEF Marked
  <2> QED BY <2>1, <2>2, <2>3
<1>9. ASSUME NEW q \in Runs, run'[q].step = "writing"
      PROVE  /\ run[q].step = "writing" /\ run'[q].count = run[q].count
             /\ Len(chat'[run[q].chat]) >= Len(chat[run[q].chat])
  <2>1. q # r BY <1>1, <1>9 DEF Steps
  <2>2. run'[q] = run[q] BY <1>1, <2>1 DEF Steps
  <2>3. Len(chat[run[q].chat]) \in Nat BY <1>9, <2>2, LengthIs
  <2> QED BY <1>4, <1>9, <2>2, <2>3
<1> QED BY <1>2, <1>3, <1>4, <1>6, <1>8, <1>9 DEF Follows

\* Who delivers found the chat as long as it was: nothing of what it raises was raised.
LEMMA DeliverOnce ==
  ASSUME Shape, Shape', NEW r \in Runs, Deliver(r), NEW x \in Things, Once(x)
  PROVE  Once(x)'
<1>1. Steps(r, "said") /\ run[r].step = "writing" BY StepIs DEF Deliver
<1>2. \A q \in Runs : run'[q].promise = run[q].promise /\ run'[q].event = run[q].event
                      /\ run'[q].chat = run[q].chat
  BY <1>1 DEF Steps
<1>3. \A q \in Runs : Raises(q, x)' <=> Raises(q, x) BY <1>2 DEF Raises
<1>4. kept' = kept /\ asked' = asked BY DEF Deliver, marks
<1>5. Marked(x) <=> Marked(x)' BY <1>4 DEF Marked
<1>6. PICK c \in Chats : c = run[r].chat BY <1>1, LengthIs
<1>7. /\ Len(chat[c]) \in Nat /\ Len(chat'[c]) = Len(chat[c]) + 1
      /\ \A d \in Chats \ {c} : chat'[d] = chat[d]
  <2>1. run[r].at \in 0..MaxTime /\ run[r].topic \in Topics \union {Nothing} BY DEF Shape, Run
  <2>2. Added(c, "nudge", run[r].at, run[r].topic) BY <1>6 DEF Deliver
  <2>3. Len(chat[c]) \in Nat BY <1>1, <1>6, LengthIs
  <2> QED BY <2>1, <2>2, <2>3, AddedIs
<1>8. ASSUME NEW q \in Runs, run'[q].step = "writing"
      PROVE  q # r /\ run'[q] = run[q]
  BY <1>1, <1>8 DEF Steps
<1>9. CASE Raises(r, x)
  <2>1. Len(chat[c]) = run[r].count BY <1>6 DEF Deliver, Unmoved
  <2>2. raised[x] = 0
    <3>1. raised[x] = 0 \/ Len(chat[c]) > run[r].count BY <1>1, <1>6, <1>9 DEF Once, Behind
    <3> QED BY <1>7, <2>1, <3>1
  <2>3. raised'[x] = 1
    <3>1. raised'[x] = Min({raised[x] + 1, 2}) BY <1>9 DEF Deliver
    <3>2. raised[x] \in 0..2 BY DEF Shape
    <3>3. Min({raised[x] + 1, 2}) = 1 BY <2>2, <3>2, CountedIs
    <3> QED BY <3>1, <3>3
  <2>4. x \in Unmarked(r)' BY <1>1, <1>3, <1>9 DEF Steps, Unmarked
  <2>5. Told(x)' BY <2>3, <2>4 DEF Told
  <2>6. Behind(x)'
    <3> SUFFICES ASSUME NEW q \in Runs, run'[q].step = "writing", Raises(q, x)'
                 PROVE  Len(chat'[run'[q].chat]) > run'[q].count
                          /\ Len(chat'[run'[q].chat]) >= run'[q].count
      BY DEF Behind
    <3>1. run'[q] = run[q] /\ Raises(q, x) BY <1>3, <1>8
    <3>2. run[q].chat = c BY <1>6, <1>9, <3>1 DEF Once, Together
    <3>3. Len(chat[c]) >= run[q].count BY <3>1, <3>2 DEF Once, Behind
    <3>4. run[q].count \in Nat BY DEF Shape, Run
    <3> QED BY <1>7, <3>1, <3>2, <3>3, <3>4
  <2>7. Together(x)' BY <1>2, <1>3 DEF Once, Together
  <2> QED BY <2>5, <2>6, <2>7 DEF Once
<1>10. CASE ~Raises(r, x)
  <2>1. raised'[x] = raised[x] BY <1>10 DEF Deliver
  <2>2. ASSUME NEW q \in Runs, x \in Unmarked(q) PROVE x \in Unmarked(q)'
    <3>1. q # r BY <1>10, <2>2 DEF Unmarked
    <3>2. run'[q] = run[q] BY <1>1, <3>1 DEF Steps
    <3> QED BY <2>2, <3>2 DEF Unmarked, Raises
  <2>3. ASSUME NEW q \in Runs, run'[q].step = "writing"
        PROVE  /\ run[q].step = "writing" /\ run'[q].count = run[q].count
               /\ Len(chat'[run[q].chat]) >= Len(chat[run[q].chat])
    <3>1. run'[q] = run[q] BY <1>8, <2>3
    <3>2. run[q].chat \in Chats /\ Len(chat[run[q].chat]) \in Nat BY <2>3, <3>1, LengthIs
    <3>3. CASE run[q].chat = c BY <1>7, <2>3, <3>1, <3>3
    <3>4. CASE run[q].chat # c
      <4>1. chat'[run[q].chat] = chat[run[q].chat] BY <1>7, <3>2, <3>4
      <4> QED BY <2>3, <3>1, <3>2, <4>1
    <3> QED BY <3>3, <3>4
  <2>4. Follows(x) BY <1>2, <1>3, <1>5, <2>1, <2>2, <2>3 DEF Follows
  <2> QED BY <2>4, FollowsOnce
<1> QED BY <1>9, <1>10


\* Who decides to raise x finds it unmarked, and all who are at it in the same chat,
\* before their delivery: or it is excused.
LEMMA DecideOnce ==
  ASSUME Shape, Shape', NEW r \in Runs, NEW c \in Chats, Decide(r, c),
         NEW x \in Things \ excused', Once(x)
  PROVE  Once(x)'
<1>1. PICK plan \in Would(r, c), u \in Run :
         /\ Becomes(r, u) /\ u.step = "writing" /\ u.chat = c
         /\ u.promise = plan.promise /\ u.event = plan.event /\ u.count = Len(chat[c])
         /\ excused' = excused \union {y \in {plan.promise, plan.event} : AtWork(r, c, y)}
  BY DecideIs
<1>2. run'[r] = u /\ \A q \in Runs \ {r} : run'[q] = run[q] BY <1>1 DEF Becomes
<1>3. UNCHANGED <<chat, raised, kept, asked>> BY DEF Decide, world, marks
<1>4. run[r].step = "looking" BY DEF Decide
<1>5. ~Raises(r, x) /\ x \notin Unmarked(r) BY <1>4, RaisesIs DEF Unmarked
<1>6. x # Nothing BY ProactiveAssumption DEF Things
<1>7. Marked(x) <=> Marked(x)' BY <1>3 DEF Marked
<1>8. ASSUME NEW q \in Runs, q # r
      PROVE  /\ Raises(q, x)' <=> Raises(q, x)
             /\ x \in Unmarked(q) => x \in Unmarked(q)'
  BY <1>2, <1>8 DEF Raises, Unmarked
<1>9. CASE x \notin {plan.promise, plan.event}
  <2>1. ~Raises(r, x)' BY <1>1, <1>2, <1>9 DEF Raises
  <2>2. ASSUME NEW q \in Runs, Raises(q, x)' PROVE Raises(q, x) /\ run'[q] = run[q]
    <3>1. q # r BY <2>1, <2>2
    <3> QED BY <1>2, <1>8, <2>2, <3>1
  <2>3. ASSUME NEW q \in Runs, x \in Unmarked(q) PROVE x \in Unmarked(q)' BY <1>5, <1>8, <2>3
  <2>4. ASSUME NEW q \in Runs, Raises(q, x)', run'[q].step = "writing"
        PROVE  /\ run[q].step = "writing" /\ run'[q].count = run[q].count
               /\ Len(chat'[run[q].chat]) >= Len(chat[run[q].chat])
    <3>1. run'[q] = run[q] BY <2>2, <2>4
    <3>2. Len(chat[run[q].chat]) \in Nat BY <2>4, <3>1, LengthIs
    <3> QED BY <1>3, <2>4, <3>1, <3>2
  <2>5. Follows(x) BY <1>3, <1>7, <2>2, <2>3, <2>4 DEF Follows
  <2> QED BY <2>5, FollowsOnce
<1>10. CASE x \in {plan.promise, plan.event}
  <2>1. ~AtWork(r, c, x) BY <1>1, <1>10
  <2>2. ASSUME NEW q \in Runs, q # r, Raises(q, x)
        PROVE  run[q].chat = c /\ run[q].step = "writing"
    BY <1>6, <2>1, <2>2 DEF AtWork
  <2>3. ~Marked(x)
    <3>1. /\ plan.promise \in (Promises \ kept) \union {Nothing}
          /\ plan.event \in {e \in Events : asked[e] = -1} \union {Nothing}
      BY WouldIs
    <3>2. kept \subseteq Promises BY DEF Shape
    <3> QED BY <1>6, <1>10, <3>1, <3>2, ProactiveAssumption DEF Marked
  <2>4. \A q \in Runs : x \notin Unmarked(q)
    <3> SUFFICES ASSUME NEW q \in Runs, x \in Unmarked(q) PROVE FALSE OBVIOUS
    <3>1. q # r BY <1>5
    <3>2. Raises(q, x) /\ run[q].step # "writing" BY DEF Unmarked
    <3> QED BY <2>2, <3>1, <3>2
  <2>5. raised[x] = 0 BY <2>3, <2>4 DEF Once, Told
  <2>6. Told(x)' BY <1>3, <2>5 DEF Told
  <2>7. Together(x)'
    <3>1. ASSUME NEW q \in Runs, Raises(q, x)' PROVE run'[q].chat = c
      <4>1. CASE q = r BY <1>1, <1>2, <4>1
      <4>2. CASE q # r BY <1>2, <1>8, <2>2, <3>1, <4>2
      <4> QED BY <4>1, <4>2
    <3> QED BY <3>1 DEF Together
  <2>8. Behind(x)'
    <3> SUFFICES ASSUME NEW q \in Runs, run'[q].step = "writing", Raises(q, x)'
                 PROVE  Len(chat'[run'[q].chat]) >= run'[q].count
      BY <1>3, <2>5 DEF Behind
    <3>1. CASE q = r
      <4>1. Len(chat[c]) \in Nat BY LenProperties DEF Shape
      <4> QED BY <1>1, <1>2, <1>3, <3>1, <4>1
    <3>2. CASE q # r
      <4>1. Raises(q, x) /\ run'[q] = run[q] BY <1>2, <1>8, <3>2
      <4>2. Len(chat[run[q].chat]) >= run[q].count BY <4>1 DEF Once, Behind
      <4> QED BY <1>3, <4>1, <4>2
    <3> QED BY <3>1, <3>2
  <2> QED BY <2>6, <2>7, <2>8 DEF Once
<1> QED BY <1>9, <1>10

\* What is excused stays so.
LEMMA ExcusedStays == ASSUME Next PROVE excused \subseteq excused'
<1>1. ASSUME NEW r \in Runs, Lets(r) PROVE excused \subseteq excused'
  BY <1>1 DEF Lets, StartPass, StartGreeting, Begin, PassOver, Declines, MovedOn, MarkEvent,
              Errs, Die, history
<1>2. ASSUME NEW r \in Runs, NEW c \in Chats, Decide(r, c) PROVE excused \subseteq excused'
  BY <1>2 DEF Decide
<1>3. ASSUME NEW e \in erasing, EraseSaves(e) PROVE excused \subseteq excused'
  BY <1>3 DEF EraseSaves
<1> QED BY <1>1, <1>2, <1>3 DEF Next, Lets, Tick, Write, EraseReads, Deliver, Resolve, history

LEMMA RaisedStep == ASSUME Shape, Shape', RaisedRight, Next PROVE RaisedRight'
<1> SUFFICES ASSUME NEW x \in Things \ excused' PROVE Once(x)' BY DEF RaisedRight
<1>1. x \in Things \ excused /\ Once(x) BY ExcusedStays DEF RaisedRight
<1>2. \A c \in Chats : Len(chat[c]) \in Nat BY LenProperties DEF Shape
<1>3. CASE Tick
  <2>1. UNCHANGED <<run, marks, raised, chat>> BY <1>3 DEF Tick, history
  <2>2. \A c \in Chats : Len(chat'[c]) >= Len(chat[c]) BY <1>2, <2>1
  <2> QED BY <1>1, <2>1, <2>2, QuietFollows, FollowsOnce
<1>4. ASSUME NEW c \in Chats, Write(c) PROVE Once(x)'
  <2>1. UNCHANGED <<run, marks, raised>> BY <1>4 DEF Write, history
  <2>2. now \in 0..MaxTime BY DEF Shape
  <2>3. Len(chat'[c]) = Len(chat[c]) + 1 /\ \A d \in Chats \ {c} : chat'[d] = chat[d]
    BY <1>4, <2>2, AddedIs DEF Write
  <2>4. ASSUME NEW d \in Chats PROVE Len(chat'[d]) >= Len(chat[d])
    <3>1. CASE d = c BY <1>2, <2>3, <3>1
    <3>2. CASE d # c
      <4>1. chat'[d] = chat[d] BY <2>3, <3>2
      <4> QED BY <1>2, <4>1
    <3> QED BY <3>1, <3>2
  <2> QED BY <1>1, <2>1, <2>4, QuietFollows, FollowsOnce
<1>5. ASSUME NEW c \in Chats, NEW k \in DOMAIN chat[c], EraseReads(c, k) PROVE Once(x)'
  <2>1. UNCHANGED <<run, marks, raised, chat>> BY <1>5 DEF EraseReads, history
  <2>2. \A d \in Chats : Len(chat'[d]) >= Len(chat[d]) BY <1>2, <2>1
  <2> QED BY <1>1, <2>1, <2>2, QuietFollows, FollowsOnce
<1>6. ASSUME NEW e \in erasing, EraseSaves(e) PROVE Once(x)'
  BY <1>1, <1>6, ErasedFollows, FollowsOnce
<1>7. ASSUME NEW r \in Runs, Lets(r) PROVE Once(x)' BY <1>1, <1>7, LetsFollows, FollowsOnce
<1>8. ASSUME NEW r \in Runs, NEW c \in Chats, Decide(r, c) PROVE Once(x)'
  BY <1>1, <1>8, DecideOnce
<1>9. ASSUME NEW r \in Runs, Deliver(r) PROVE Once(x)' BY <1>1, <1>9, DeliverOnce
<1>10. ASSUME NEW r \in Runs, Resolve(r) PROVE Once(x)'
  BY <1>1, <1>10, ResolveFollows, FollowsOnce
<1> QED BY <1>3, <1>4, <1>5, <1>6, <1>7, <1>8, <1>9, <1>10 DEF Next, Lets

LEMMA RaisedStays == ASSUME Shape, RaisedRight, UNCHANGED vars PROVE RaisedRight'
<1>1. UNCHANGED <<raised, excused, kept, asked, run, chat>> BY DEF vars, world, marks, history
<1> QED BY <1>1 DEF RaisedRight, Once, Told, Behind, Together, Marked, Unmarked, Raises

LEMMA RaisedInit == ASSUME Init PROVE RaisedRight
<1> SUFFICES ASSUME NEW x \in Things PROVE Once(x) BY DEF RaisedRight
<1>1. x # Nothing BY ProactiveAssumption DEF Things
<1>2. \A r \in Runs : run[r].step = "looking" /\ run[r].promise = Nothing /\ run[r].event = Nothing
  BY DEF Init, Idle
<1>3. raised[x] = 0 BY DEF Init
<1> QED BY <1>1, <1>2, <1>3 DEF Once, Told, Behind, Together, Raises


-----------------------------------------------------------------------------
(* A nudge that is still welcome.                                          *)

\* Only what the run would say, and when it read the clock, count.
LEMMA OpenSame ==
  ASSUME NEW list, NEW n, NEW u, NEW v, Open(list, n, u),
         v.at = u.at, v.topic = u.topic, v.kind = u.kind
  PROVE  Open(list, n, v)
BY DEF Open

FreshRun(r) ==
    run[r].step = "writing" /\ ~run[r].cut => Open(chat[run[r].chat], run[r].count, run[r])

\* A chat that is appended to begins as it did.
LEMMA FreshKept ==
  ASSUME Shape, NEW q \in Runs, FreshRun(q), run'[q] = run[q],
         \A c \in Chats : chat'[c] = chat[c] \/ \E m \in Message : chat'[c] = Append(chat[c], m)
  PROVE  FreshRun(q)'
<1> SUFFICES ASSUME run[q].step = "writing", ~run[q].cut
             PROVE  Open(chat'[run[q].chat], run[q].count, run[q])
  BY DEF FreshRun
<1>1. PICK c \in Chats : c = run[q].chat BY LengthIs
<1>2. Open(chat[c], run[q].count, run[q]) /\ chat[c] \in Seq(Message)
  BY <1>1 DEF FreshRun, Shape
<1>3. CASE chat'[c] = chat[c] BY <1>1, <1>2, <1>3
<1>4. ASSUME NEW m \in Message, chat'[c] = Append(chat[c], m)
      PROVE  Open(chat'[c], run[q].count, run[q])
  BY <1>2, <1>4, OpenAppend
<1> QED BY <1>1, <1>3, <1>4

LEMMA FreshStep == ASSUME Shape, Fresh, Next PROVE Fresh'
<1> SUFFICES ASSUME NEW q \in Runs PROVE FreshRun(q)' BY DEF Fresh, FreshRun
<1>0. FreshRun(q) BY DEF Fresh, FreshRun
<1>1. ASSUME NEW c \in Chats, NEW by \in {"user", "nudge"}, NEW at \in 0..MaxTime,
             NEW topic \in Topics \union {Nothing}, Added(c, by, at, topic)
      PROVE  \A d \in Chats : chat'[d] = chat[d] \/ \E m \in Message : chat'[d] = Append(chat[d], m)
  BY <1>1, AddedIs
<1>2. CASE Tick \/ \E c \in Chats : \E k \in DOMAIN chat[c] : EraseReads(c, k)
  <2>1. chat' = chat /\ run' = run BY <1>2 DEF Tick, EraseReads
  <2> QED BY <1>0, <2>1, FreshKept
<1>3. ASSUME NEW c \in Chats, Write(c) PROVE FreshRun(q)'
  <2>1. now \in 0..MaxTime BY DEF Shape
  <2>2. Added(c, "user", now, Nothing) /\ run' = run BY <1>3 DEF Write
  <2>3. \A d \in Chats : chat'[d] = chat[d] \/ \E m \in Message : chat'[d] = Append(chat[d], m)
    BY <1>1, <2>1, <2>2
  <2> QED BY <1>0, <2>2, <2>3, FreshKept
<1>4. ASSUME NEW e \in erasing, EraseSaves(e) PROVE FreshRun(q)'
  <2> SUFFICES ASSUME run'[q].step = "writing", ~run'[q].cut
               PROVE  Open(chat'[run'[q].chat], run'[q].count, run'[q])
    BY DEF FreshRun
  <2>1. /\ run[q].step = "writing" /\ ~run[q].cut
        /\ run'[q].chat = run[q].chat /\ run'[q].count = run[q].count
        /\ run'[q].topic = run[q].topic /\ run'[q].at = run[q].at /\ run'[q].kind = run[q].kind
        /\ run[q].chat = e.chat => OnlyBlanks(chat[e.chat], e.list)
    BY <1>4, CutIs
  <2>2. PICK c \in Chats : c = run[q].chat BY <2>1, LengthIs
  <2>3. Open(chat[c], run[q].count, run[q]) BY <1>0, <2>1, <2>2 DEF FreshRun
  <2>4. chat \in [Chats -> Seq(Message)] /\ e.chat \in Chats /\ e.list \in Seq(Message) BY DEF Shape
  <2>5. chat' = [chat EXCEPT ![e.chat] = e.list] BY <1>4 DEF EraseSaves
  <2>6. Open(chat'[c], run[q].count, run[q])
    <3>1. CASE c = e.chat
      <4>1. chat'[c] = e.list /\ OnlyBlanks(chat[c], e.list) BY <2>1, <2>2, <2>4, <2>5, <3>1
      <4>2. chat[c] \in Seq(Message) BY <2>4
      <4> QED BY <2>3, <2>4, <4>1, <4>2, OpenBlanks
    <3>2. CASE c # e.chat
      <4>1. chat'[c] = chat[c] BY <2>4, <2>5, <3>2
      <4> QED BY <2>3, <4>1
    <3> QED BY <3>1, <3>2
  <2> QED BY <2>1, <2>2, <2>6, OpenSame
<1>5. ASSUME NEW r \in Runs, Lets(r) PROVE FreshRun(q)'
  <2>1. PICK u \in Run : Becomes(r, u) /\ u.step = "looking" BY <1>5, LetsRests DEF Rests
  <2>2. chat' = chat
    BY <1>5 DEF Lets, StartPass, StartGreeting, Begin, PassOver, Declines, MovedOn, MarkEvent,
                Errs, Die, world
  <2>3. CASE q = r BY <2>1, <2>3 DEF Becomes, FreshRun
  <2>4. CASE q # r
    <3>1. run'[q] = run[q] BY <2>1, <2>4 DEF Becomes
    <3> QED BY <1>0, <2>2, <3>1, FreshKept
  <2> QED BY <2>3, <2>4
<1>6. ASSUME NEW r \in Runs, NEW c \in Chats, Decide(r, c) PROVE FreshRun(q)'
  <2>1. PICK plan \in Would(r, c), u \in Run :
           /\ Becomes(r, u) /\ u.chat = c /\ u.kind = plan.kind /\ u.topic = plan.topic
           /\ u.count = Len(chat[c]) /\ u.at = run[r].at
    BY <1>6, DecideIs
  <2>2. chat' = chat BY <1>6 DEF Decide, world
  <2>3. CASE q = r
    <3>1. Open(chat[c], u.count, u) BY <2>1, WouldOpen
    <3>2. run'[q] = u BY <2>1, <2>3 DEF Becomes
    <3> QED BY <2>1, <2>2, <3>1, <3>2 DEF FreshRun
  <2>4. CASE q # r
    <3>1. run'[q] = run[q] BY <2>1, <2>4 DEF Becomes
    <3> QED BY <1>0, <2>2, <3>1, FreshKept
  <2> QED BY <2>3, <2>4
<1>7. ASSUME NEW r \in Runs, Deliver(r) PROVE FreshRun(q)'
  <2>1. Steps(r, "said") BY <1>7, StepIs DEF Deliver
  <2>2. /\ run[r].chat \in Chats /\ run[r].at \in 0..MaxTime
        /\ run[r].topic \in Topics \union {Nothing}
    BY <1>7 DEF Deliver, Shape, Run, Fits
  <2>3. \A d \in Chats : chat'[d] = chat[d] \/ \E m \in Message : chat'[d] = Append(chat[d], m)
    BY <1>1, <1>7, <2>2 DEF Deliver
  <2>4. CASE q = r BY <2>1, <2>4 DEF Steps, FreshRun
  <2>5. CASE q # r
    <3>1. run'[q] = run[q] BY <2>1, <2>5 DEF Steps
    <3> QED BY <1>0, <2>3, <3>1, FreshKept
  <2> QED BY <2>4, <2>5
<1>8. ASSUME NEW r \in Runs, Resolve(r) PROVE FreshRun(q)'
  <2>1. Steps(r, "resolved") /\ chat' = chat BY <1>8, StepIs DEF Resolve, world
  <2>2. CASE q = r BY <2>1, <2>2 DEF Steps, FreshRun
  <2>3. CASE q # r
    <3>1. run'[q] = run[q] BY <2>1, <2>3 DEF Steps
    <3> QED BY <1>0, <2>1, <3>1, FreshKept
  <2> QED BY <2>2, <2>3
<1> QED BY <1>2, <1>3, <1>4, <1>5, <1>6, <1>7, <1>8 DEF Next, Lets

\* Where all nudges are answered, the user came after the greatest of them.
LEMMA AnsweredAfter ==
  ASSUME NEW list \in Seq(Message),
         \/ \A k \in 1..Len(list) : list[k].by # "nudge"
         \/ \E k \in 1..Len(list) : list[k].by = "user" /\ \A j \in k..Len(list) : list[j].by # "nudge"
  PROVE  Answered(list)
<1>1. Len(list) \in Nat /\ DOMAIN list = 1..Len(list) BY LenProperties
<1> SUFFICES ASSUME Nudges(list) # {}
             PROVE  \E k \in DOMAIN list : list[k].by = "user" /\ k > Max(Nudges(list))
  BY DEF Answered
<1>2. PICK k \in 1..Len(list) : list[k].by = "user" /\ \A j \in k..Len(list) : list[j].by # "nudge"
  BY <1>1 DEF Nudges
<1>3. PICK X : X = Nudges(list) OBVIOUS
<1>4. X \in SUBSET (0..Len(list)) /\ X # {} BY <1>1, <1>3 DEF Nudges
<1>5. PICK m \in X : \A y \in X : y <= m BY <1>1, <1>4, NatMax
<1>6. Max(X) \in X
  <2>1. m \in X /\ \A y \in X : m >= y BY <1>4, <1>5
  <2> QED BY <2>1 DEF Max
<1>7. Max(X) \in 1..Len(list) /\ list[Max(X)].by = "nudge" BY <1>1, <1>3, <1>6 DEF Nudges
<1>8. Max(X) < k
  <2>1. Max(X) \notin k..Len(list) BY <1>2, <1>7
  <2> QED BY <1>2, <1>7, <2>1
<1> QED BY <1>1, <1>2, <1>3, <1>7, <1>8

Welcome(r) ==
    LET list == chat[run[r].chat] IN
    \/ run[r].cut
    \/ /\ Last(list).by # "nudge" /\ Recent(list, run[r].at) < MaxPerWindow
       /\ run[r].topic \in FreshTopics(list) \union {Nothing}
       /\ run[r].kind = "greeting" \/ Answered(list)

LEMMA FreshWelcome == ASSUME Shape, Fresh, NEW r \in Runs, Deliver(r) PROVE Welcome(r)
<1> SUFFICES ASSUME ~run[r].cut PROVE Welcome(r) BY DEF Welcome
<1>1. run[r].step = "writing" /\ Len(chat[run[r].chat]) = run[r].count BY DEF Deliver, Unmoved
<1>2. PICK u : u = run[r] OBVIOUS
<1>3. PICK list : list = chat[u.chat] OBVIOUS
<1>4. u.topic \in Topics \union {Nothing} BY <1>2 DEF Shape, Run
<1>5. list \in Seq(Message) BY <1>1, <1>2, <1>3, LengthIs DEF Shape
<1>6. PICK n : n = Len(list) OBVIOUS
<1>7. n \in Nat /\ DOMAIN list = 1..n BY <1>5, <1>6, LenProperties
<1>8. Open(list, n, u) BY <1>1, <1>2, <1>3, <1>6 DEF Fresh
<1>9. Last(list).by # "nudge" BY <1>6, <1>8 DEF Open, Last
<1>10. Recent(list, u.at) < MaxPerWindow
  <2>1. {k \in 1..n : list[k].by = "nudge" /\ u.at - list[k].at < Window}
          = {k \in Nudges(list) : u.at - list[k].at < Window}
    BY <1>7 DEF Nudges
  <2> QED BY <1>8, <2>1 DEF Open, Recent
<1>11. u.topic \in FreshTopics(list) \union {Nothing}
  <2>1. u.topic # Nothing => \A k \in Nudges(list) : list[k].topic # u.topic
    BY <1>7, <1>8 DEF Open, Nudges
  <2> QED BY <1>4, <2>1 DEF FreshTopics
<1>12. u.kind = "greeting" \/ Answered(list) BY <1>5, <1>6, <1>8, AnsweredAfter DEF Open
<1> QED BY <1>2, <1>3, <1>9, <1>10, <1>11, <1>12 DEF Welcome

-----------------------------------------------------------------------------
(* The theorems.                                                           *)

LEMMA InvInit == ASSUME Init PROVE ProactiveInv
<1>1. Fresh BY DEF Init, Idle, Fresh
<1> QED BY <1>1, ShapeInit, RaisedInit DEF ProactiveInv

LEMMA InvStep == ASSUME ProactiveInv, [Next]_vars PROVE ProactiveInv'
<1>1. Shape /\ RaisedRight /\ Fresh BY DEF ProactiveInv
<1>2. CASE Next
  <2>1. Shape' BY <1>1, <1>2, ShapeStep
  <2> QED BY <1>1, <1>2, <2>1, RaisedStep, FreshStep DEF ProactiveInv
<1>3. CASE UNCHANGED vars
  <2>1. Fresh' BY <1>1, <1>3 DEF Fresh, vars, world
  <2> QED BY <1>1, <1>3, <2>1, ShapeStays, RaisedStays DEF ProactiveInv
<1> QED BY <1>2, <1>3

\* The inductive invariant: what a step of the code needs of the state it finds, and leaves.
THEOREM Inductive == Spec => []ProactiveInv
<1>1. Init => ProactiveInv BY InvInit
<1>2. ProactiveInv /\ [Next]_vars => ProactiveInv' BY InvStep
<1> QED BY <1>1, <1>2, PTL DEF Spec

\* The clock, the chats, the marks and what each run is at stay of their kinds, whatever
\* passes, jobs, deletions and deaths meet.
THEOREM TypeCorrect == Spec => []TypeOK
<1>1. ProactiveInv => TypeOK BY ShapeTypes DEF ProactiveInv
<1> QED BY <1>1, Inductive, PTL

\* A promise or a plan that nothing excuses is raised at most once, by any number of
\* passes and greeting jobs: what was raised is marked or about to be, and who is at it
\* from before finds the chat longer than it read it.
THEOREM RaisedAtMostOnce == Spec => []RaisedOnce
<1>1. ProactiveInv => RaisedOnce
  <2> SUFFICES ASSUME ProactiveInv, NEW x \in Things \ excused PROVE raised[x] <= 1
    BY DEF RaisedOnce
  <2>1. Told(x) BY DEF ProactiveInv, RaisedRight, Once
  <2> QED BY <2>1 DEF Told
<1> QED BY <1>1, Inductive, PTL

\* Whatever was said in between, a nudge lands only where its last one is answered, the
\* limit is not reached and the topic is new: unless a deletion changed what was read.
THEOREM WelcomeWhereItLands == Spec => NudgeIsWelcome
<1>1. ProactiveInv => \A r \in Runs : Deliver(r) => Welcome(r)
  <2> SUFFICES ASSUME ProactiveInv, NEW r \in Runs, Deliver(r) PROVE Welcome(r) OBVIOUS
  <2> QED BY FreshWelcome DEF ProactiveInv
<1> QED BY <1>1, Inductive, PTL DEF NudgeIsWelcome, Welcome

=============================================================================
