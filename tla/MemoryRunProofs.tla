-------------------------- MODULE MemoryRunProofs --------------------------
(***************************************************************************)
(* Safety of the memory run for any chats, jobs, tasks and deletions, any  *)
(* threshold and any number of mishaps: its types, that runs which hold    *)
(* the user's lease keep each other's card lines, that the cursor moves    *)
(* past no message unread, that nothing is learnt twice, and that what the *)
(* user deletes is forgotten, but for the cases MemoryRun names.           *)
(***************************************************************************)
EXTENDS MemoryRun, FiniteSetTheorems, SequenceTheorems, TLAPS

-----------------------------------------------------------------------------
(* The inductive invariants.                                               *)

\* Lists only grow, and a run has one batch, which lies within its chat.
RunBounds ==
    \A r \in Runs :
        /\ Len(run[r].list) <= Len(chat[Of[r]])
        /\ \A k, l \in run[r].batch : k = l
        /\ \A k \in run[r].batch : k.chat = Of[r] /\ LastIndex(k) <= Len(chat[Of[r]])

AtWork == {"held", "claimed", "asking", "applied", "written", "failing", "skipping", "releasing"}

\* A run at work holds the user's lease, and the card it read is the card.
LeaseHeld ==
    ~overlap => \A r \in Runs : run[r].pc \in AtWork => \E l \in lease : l.owner = r

CardRead ==
    ~overlap => \A r \in Runs : run[r].pc \in {"asking", "applied"} => run[r].card = card

\* A message that is before a cursor, or in an applied batch, is accounted for.
Accounted(m) == Known(m) \/ m \in slid

PastCursor ==
    \A c \in Chats : \A i \in 1..Len(chat[c]) :
        i <= cursor[c].through /\ Meaningful(chat[c], i) => Accounted(chat[c][i].msg)

AppliedKnown == \A k \in applied : \A m \in Heard(k) : lessons[m] > 0

\* A message is still where a list that waits for its run has it.
InPlace(r) ==
    \A i \in 1..Len(run[r].list) :
        Meaningful(chat[Of[r]], i) =>
            \/ chat[Of[r]][i].msg \in slid
            \/ Meaningful(run[r].list, i) /\ run[r].list[i].msg = chat[Of[r]][i].msg

\* Saving the cursor after batch k would leave nothing out.
Covers(r, k) ==
    \A i \in 1..LastIndex(k) :
        Meaningful(chat[Of[r]], i) =>
            Accounted(chat[Of[r]][i].msg) \/ chat[Of[r]][i].msg \in Heard(k)

BatchCovers ==
    \A r \in Runs :
        /\ run[r].pc = "called" => InPlace(r)
        /\ \A k \in run[r].batch :
               /\ Covers(r, k)
               /\ run[r].pc \in {"applied", "written"} => \A m \in Heard(k) : Known(m)

-----------------------------------------------------------------------------
(* Types of what the actions build.                                        *)

LEMMA IdleTyped == IdleRun \in Run /\ NoCursor \in Cursor /\ NoFlush \in Flush
<1>1. NoCursor \in Cursor BY DEF NoCursor, Cursor
<1>2. NoFlush \in Flush BY MemoryAssumption DEF NoFlush, Flush
<1>3. <<>> \in Seq(Entry) BY EmptySeq
<1> QED BY <1>1, <1>2, <1>3 DEF IdleRun, Run, Steps

LEMMA RunEdits ==
    ASSUME NEW x \in Run, NEW s \in Steps
    PROVE  /\ [x EXCEPT !.pc = s] \in Run
           /\ \A v \in {"done", "busy", "raised"} : [x EXCEPT !.pc = s, !.result = v] \in Run
           /\ \A v \in SUBSET Messages : [x EXCEPT !.pc = s, !.card = v] \in Run
           /\ \A v \in Cursor : [x EXCEPT !.pc = s, !.seen = v] \in Run
           /\ \A v \in Cursor, b \in SUBSET Batch : [x EXCEPT !.pc = s, !.seen = v, !.batch = b] \in Run
BY DEF Run

LEMMA FreshEdits ==
    ASSUME NEW s \in Steps, NEW list \in Seq(Entry), NEW n \in Nat
    PROVE  /\ [IdleRun EXCEPT !.pc = s, !.list = list] \in Run
           /\ [IdleRun EXCEPT !.pc = s, !.list = list, !.before = n] \in Run
           /\ \A v \in {"done", "busy", "raised"} :
                [IdleRun EXCEPT !.pc = s, !.result = v, !.list = list, !.before = n] \in Run
BY IdleTyped DEF Run

\* One run moves on and the others stay.
OnlyRun(r) == run' \in [Runs -> Run] /\ \A q \in Runs : q # r => run'[q] = run[q]

LEMMA Moved ==
    ASSUME NEW r \in Runs, NEW x \in Run, run \in [Runs -> Run], Becomes(r, x)
    PROVE  OnlyRun(r) /\ run'[r] = x
BY DEF Becomes, OnlyRun

\* It is at step s with the list and the batch it had.
Keeps(r, s) ==
    /\ OnlyRun(r)
    /\ run'[r].pc = s /\ run'[r].list = run[r].list /\ run'[r].batch = run[r].batch

LEMMA GoesKeeps ==
    ASSUME NEW r \in Runs, NEW s \in Steps, run \in [Runs -> Run], Goes(r, s)
    PROVE  Keeps(r, s) /\ run'[r].card = run[r].card
<1>1. [run[r] EXCEPT !.pc = s] \in Run BY RunEdits
<1>2. OnlyRun(r) /\ run'[r] = [run[r] EXCEPT !.pc = s]
  BY <1>1, Moved DEF Goes
<1>3. run[r] \in Run OBVIOUS
<1> QED BY <1>2, <1>3 DEF Keeps, Run

LEMMA EndsKeeps ==
    ASSUME NEW r \in Runs, NEW v \in {"done", "busy", "raised"}, run \in [Runs -> Run], Ends(r, v)
    PROVE  Keeps(r, "releasing")
<1>1. "releasing" \in Steps BY DEF Steps
<1>2. [run[r] EXCEPT !.pc = "releasing", !.result = v] \in Run BY <1>1, RunEdits
<1>3. OnlyRun(r) /\ run'[r] = [run[r] EXCEPT !.pc = "releasing", !.result = v]
  BY <1>2, Moved DEF Ends
<1>4. run[r] \in Run OBVIOUS
<1> QED BY <1>3, <1>4 DEF Keeps, Run

LEMMA ReadKeeps ==
    ASSUME NEW r \in Runs, NEW s \in Steps, run \in [Runs -> Run], NEW v \in SUBSET Messages,
           Becomes(r, [run[r] EXCEPT !.pc = s, !.card = v])
    PROVE  Keeps(r, s) /\ run'[r].card = v
<1>1. [run[r] EXCEPT !.pc = s, !.card = v] \in Run BY RunEdits
<1>2. OnlyRun(r) /\ run'[r] = [run[r] EXCEPT !.pc = s, !.card = v]
  BY <1>1, Moved
<1>3. run[r] \in Run OBVIOUS
<1> QED BY <1>2, <1>3 DEF Keeps, Run

\* It is over, and holds no batch.
Ended(r) ==
    /\ OnlyRun(r)
    /\ run'[r].pc \in {"idle", "reporting"} /\ run'[r].batch = {}
    /\ run'[r].list \in {<<>>, run[r].list}

LEMMA OverEnds ==
    ASSUME NEW r \in Runs, NEW v \in {"done", "busy", "raised"}, run \in [Runs -> Run], Over(r, v)
    PROVE  Ended(r)
<1> DEFINE x == [IdleRun EXCEPT !.pc = "reporting", !.result = v,
                                !.list = run[r].list, !.before = run[r].before]
<1>1. "reporting" \in Steps /\ run[r].list \in Seq(Entry) /\ run[r].before \in Nat
  BY DEF Steps, Run
<1>2. x \in Run BY <1>1, FreshEdits
<1>3. OnlyRun(r) /\ (run'[r] = x \/ run'[r] = IdleRun)
  BY <1>2, IdleTyped, Moved DEF Over
<1>4. x.pc = "reporting" /\ x.list = run[r].list /\ x.batch = {}
  BY DEF IdleRun
<1>5. IdleRun.pc = "idle" /\ IdleRun.list = <<>> /\ IdleRun.batch = {}
  BY DEF IdleRun
<1> HIDE DEF x
<1> QED BY <1>3, <1>4, <1>5 DEF Ended

LEMMA IdleEnds ==
    ASSUME NEW r \in Runs, run \in [Runs -> Run], Becomes(r, IdleRun)
    PROVE  Ended(r)
BY IdleTyped, Moved DEF Ended, IdleRun

\* It is called with the chat as it is.
Begins(r) == run'[r].pc = "called" /\ run'[r].list = chat'[Of[r]] /\ run'[r].batch = {}

LEMMA CallBegins ==
    ASSUME NEW r \in Runs, run \in [Runs -> Run], NEW x \in Run,
           x.pc = "called", x.list = chat'[Of[r]], x.batch = {},
           Becomes(r, x)
    PROVE  OnlyRun(r) /\ Begins(r)
BY Moved DEF Begins

LEMMA BeginsBounds ==
    ASSUME NEW r \in Runs, chat' \in [Chats -> Seq(Entry)], Begins(r)
    PROVE  /\ Len(run'[r].list) <= Len(chat'[Of[r]])
           /\ \A k, l \in run'[r].batch : k = l
           /\ \A k \in run'[r].batch : k.chat = Of[r] /\ LastIndex(k) <= Len(chat'[Of[r]])
<1>1. Len(chat'[Of[r]]) \in Nat BY MemoryAssumption, LenProperties
<1> QED BY <1>1 DEF Begins

\* Neither disturbs the bounds.
LEMMA BoundsKept ==
    ASSUME TypeOK, RunBounds, chat' = chat, NEW r \in Runs, Ended(r) \/ \E s \in Steps : Keeps(r, s)
    PROVE  RunBounds'
<1>1. run'[r].list \in {<<>>, run[r].list} /\ run'[r].batch \subseteq run[r].batch
  BY DEF Ended, Keeps
<1>2. \A q \in Runs : q # r => run'[q] = run[q]
  BY DEF Ended, Keeps, OnlyRun
<1>3. Len(chat[Of[r]]) \in Nat
  BY MemoryAssumption, LenProperties DEF TypeOK
<1>4. Len(<<>>) = 0
  BY EmptySeq
<1> QED BY <1>1, <1>2, <1>3, <1>4 DEF RunBounds

LEMMA StillInBounds ==
    ASSUME TypeOK, RunBounds, NEW r \in Runs, chat' \in [Chats -> Seq(Entry)],
           \A c \in Chats : Len(chat[c]) <= Len(chat'[c])
    PROVE  /\ Len(run[r].list) <= Len(chat'[Of[r]])
           /\ \A k, l \in run[r].batch : k = l
           /\ \A k \in run[r].batch : k.chat = Of[r] /\ LastIndex(k) <= Len(chat'[Of[r]])
<1>1. Of[r] \in Chats BY MemoryAssumption
<1>2. /\ Len(run[r].list) \in Nat /\ Len(chat[Of[r]]) \in Nat /\ Len(chat'[Of[r]]) \in Nat
      /\ Len(chat[Of[r]]) <= Len(chat'[Of[r]])
  BY <1>1, LenProperties DEF TypeOK, Run
<1>3. \A k \in run[r].batch : LastIndex(k) \in Int
  BY LenProperties DEF TypeOK, Run, Batch, LastIndex
<1> QED BY <1>2, <1>3 DEF RunBounds

LEMMA BoundsGrow ==
    ASSUME TypeOK, RunBounds, UNCHANGED run, chat' \in [Chats -> Seq(Entry)],
           \A c \in Chats : Len(chat[c]) <= Len(chat'[c])
    PROVE  RunBounds'
BY StillInBounds DEF RunBounds

\* The next batch begins after the cursor, ends within the list, and is the
\* part of the list in between.
LEMMA NextBatchIs ==
    ASSUME NEW c \in Chats, NEW list \in Seq(Entry), NEW t \in Nat, Pending(list, t) # {}
    PROVE  LET k == NextBatch(c, list, t) IN
           /\ k \in Batch /\ k.chat = c
           /\ LastIndex(k) \in Nat /\ t <= LastIndex(k) /\ LastIndex(k) <= Len(list)
           /\ k.from = t + 1
           /\ Len(k.rows) = LastIndex(k) - t
           /\ \A i \in t + 1..LastIndex(k) : k.rows[i - t] = list[i]
<1> DEFINE e == BatchEnd(list, t)
           k == NextBatch(c, list, t)
           over == {i \in Pending(list, t) : Cardinality({j \in Pending(list, t) : j < i}) = Threshold}
<1>0. Len(list) \in Nat BY LenProperties
<1>1. t < Len(list)
  BY <1>0 DEF Pending
<1>2. e \in Nat /\ t <= e /\ e <= Len(list)
  <2>1. CASE over = {} BY <1>0, <1>1, <2>1 DEF BatchEnd
  <2>2. CASE over # {}
    <3>1. PICK i \in over : e = i - 1 BY <2>2 DEF BatchEnd
    <3>2. i \in t + 1..Len(list) BY DEF Pending
    <3> HIDE DEF e
    <3> QED BY <1>0, <3>1, <3>2
  <2> QED BY <2>1, <2>2
<1>3. k = [chat |-> c, from |-> t + 1, rows |-> SubSeq(list, t + 1, e)]
  BY DEF NextBatch
<1> HIDE DEF e, k, over
<1>4. /\ SubSeq(list, t + 1, e) \in Seq(Entry)
      /\ Len(SubSeq(list, t + 1, e)) = e - t
      /\ \A i \in 1..e - t : SubSeq(list, t + 1, e)[i] = list[t + i]
  <2>1. \A i \in t + 1..e : list[i] \in Entry
    BY <1>0, <1>2, ElementOfSeq
  <2>2. t + 1 \in Int /\ e \in Int BY <1>2
  <2>3. /\ SubSeq(list, t + 1, e) \in Seq(Entry)
        /\ Len(SubSeq(list, t + 1, e)) = IF t + 1 <= e THEN e - (t + 1) + 1 ELSE 0
        /\ \A i \in 1..e - (t + 1) + 1 : SubSeq(list, t + 1, e)[i] = list[t + 1 + i - 1]
    BY <2>1, <2>2, SubSeqProperties
  <2> QED BY <1>2, <2>3
<1>5. k \in Batch /\ k.chat = c /\ k.from = t + 1
  BY <1>2, <1>3, <1>4 DEF Batch
<1>6. LastIndex(k) = e /\ Len(k.rows) = e - t
  BY <1>2, <1>3, <1>4 DEF LastIndex
<1>7. \A i \in t + 1..e : k.rows[i - t] = list[i]
  BY <1>2, <1>3, <1>4
<1> QED BY <1>2, <1>5, <1>6, <1>7 DEF k

\* What a reply does to the list it lands in.
LEMMA InsertedIs ==
    ASSUME NEW list \in Seq(Entry), NEW p \in 1..Len(list) + 1
    PROVE  LET new == Inserted(list, p) IN
           /\ new \in Seq(Entry) /\ Len(new) = Len(list) + 1
           /\ \A i \in 1..p - 1 : new[i] = list[i]
           /\ new[p] = [msg |-> Omi, gone |-> FALSE]
           /\ \A i \in p + 1..Len(list) + 1 : new[i] = list[i - 1]
<1> DEFINE head == SubSeq(list, 1, p - 1)
           omi == <<[msg |-> Omi, gone |-> FALSE]>>
           tail == SubSeq(list, p, Len(list))
<1>0. Len(list) \in Nat /\ p \in Int BY LenProperties
<1>1. /\ head \in Seq(Entry) /\ Len(head) = p - 1
      /\ \A i \in 1..p - 1 : head[i] = list[i]
  <2>1. \A i \in 1..p - 1 : list[i] \in Entry BY <1>0, ElementOfSeq
  <2>2. /\ head \in Seq(Entry) /\ Len(head) = IF 1 <= p - 1 THEN (p - 1) - 1 + 1 ELSE 0
        /\ \A i \in 1..(p - 1) - 1 + 1 : head[i] = list[1 + i - 1]
    BY <1>0, <2>1, SubSeqProperties
  <2> HIDE DEF head
  <2> QED BY <1>0, <2>2
<1>2. omi \in Seq(Entry) /\ Len(omi) = 1 /\ omi[1] = [msg |-> Omi, gone |-> FALSE]
  BY DEF Entry
<1>3. /\ tail \in Seq(Entry) /\ Len(tail) = Len(list) - p + 1
      /\ \A i \in 1..Len(list) - p + 1 : tail[i] = list[p + i - 1]
  <2>1. \A i \in p..Len(list) : list[i] \in Entry BY <1>0, ElementOfSeq
  <2>2. /\ tail \in Seq(Entry) /\ Len(tail) = IF p <= Len(list) THEN Len(list) - p + 1 ELSE 0
        /\ \A i \in 1..Len(list) - p + 1 : tail[i] = list[p + i - 1]
    BY <1>0, <2>1, SubSeqProperties
  <2> HIDE DEF tail
  <2> QED BY <1>0, <2>2
<1> DEFINE both == head \o omi
<1>4. Inserted(list, p) = both \o tail
  BY DEF Inserted
<1> HIDE DEF head, omi, tail
<1>5. /\ both \in Seq(Entry) /\ Len(both) = p
      /\ \A i \in 1..p - 1 : both[i] = head[i]
      /\ both[p] = omi[1]
  <2>1. /\ both \in Seq(Entry) /\ Len(both) = Len(head) + Len(omi)
        /\ \A i \in 1..Len(head) + Len(omi) :
              both[i] = IF i <= Len(head) THEN head[i] ELSE omi[i - Len(head)]
    BY <1>1, <1>2, ConcatProperties
  <2> HIDE DEF both
  <2> QED BY <1>0, <1>1, <1>2, <2>1
<1> HIDE DEF both
<1>6. /\ Inserted(list, p) \in Seq(Entry) /\ Len(Inserted(list, p)) = Len(list) + 1
      /\ \A i \in 1..Len(list) + 1 :
            Inserted(list, p)[i] = IF i <= p THEN both[i] ELSE tail[i - p]
  <2>1. /\ both \o tail \in Seq(Entry) /\ Len(both \o tail) = Len(both) + Len(tail)
        /\ \A i \in 1..Len(both) + Len(tail) :
              (both \o tail)[i] = IF i <= Len(both) THEN both[i] ELSE tail[i - Len(both)]
    BY <1>3, <1>5, ConcatProperties
  <2> QED BY <1>0, <1>3, <1>4, <1>5, <2>1
<1>7. \A i \in 1..p - 1 : Inserted(list, p)[i] = list[i]
  BY <1>0, <1>1, <1>5, <1>6
<1>8. Inserted(list, p)[p] = [msg |-> Omi, gone |-> FALSE]
  BY <1>0, <1>2, <1>5, <1>6
<1>9. ASSUME NEW i \in p + 1..Len(list) + 1 PROVE Inserted(list, p)[i] = list[i - 1]
  <2>1. i \in 1..Len(list) + 1 /\ ~(i <= p) /\ i - p \in 1..Len(list) - p + 1
    BY <1>0
  <2>2. Inserted(list, p)[i] = tail[i - p]
    BY <1>6, <2>1
  <2>3. tail[i - p] = list[p + (i - p) - 1]
    BY <1>3, <2>1
  <2>4. p + (i - p) - 1 = i - 1
    BY <1>0
  <2> QED BY <2>2, <2>3, <2>4
<1> QED BY <1>6, <1>7, <1>8, <1>9

\* A batch's messages and its last place.
LEMMA BatchTyped ==
    ASSUME NEW k \in Batch
    PROVE  /\ k.chat \in Chats /\ k.from \in Nat \ {0} /\ Len(k.rows) \in Nat
           /\ LastIndex(k) \in Nat
           /\ Heard(k) \subseteq Messages
           /\ \A v \in Proof(k) : v \in Evidence /\ v.chat = k.chat /\ v.at <= LastIndex(k)
<1>1. k.chat \in Chats /\ k.from \in Nat \ {0} /\ k.rows \in Seq(Entry)
  BY DEF Batch
<1>2. Len(k.rows) \in Nat /\ DOMAIN k.rows = 1..Len(k.rows)
  BY <1>1, LenProperties
<1>3. LastIndex(k) \in Nat
  BY <1>1, <1>2 DEF LastIndex
<1>4. ASSUME NEW i \in DOMAIN k.rows, Meaningful(k.rows, i)
      PROVE  k.rows[i].msg \in Messages
  <2>1. k.rows[i] \in Entry BY <1>1, <1>2, ElementOfSeq
  <2> QED BY <1>4, <2>1 DEF Entry, Meaningful
<1>5. Heard(k) \subseteq Messages
  BY <1>4 DEF Heard
<1>6. ASSUME NEW v \in Proof(k)
      PROVE  v \in Evidence /\ v.chat = k.chat /\ v.at <= LastIndex(k)
  <2>1. PICK i \in DOMAIN k.rows :
            /\ Meaningful(k.rows, i)
            /\ v = [chat |-> k.chat, at |-> k.from + i - 1, msg |-> k.rows[i].msg]
    BY DEF Proof
  <2>2. k.from + i - 1 \in Nat \ {0} /\ k.from + i - 1 <= LastIndex(k)
    BY <1>1, <1>2 DEF LastIndex
  <2> QED BY <1>1, <1>4, <2>1, <2>2 DEF Evidence
<1> QED BY <1>1, <1>2, <1>3, <1>5, <1>6

-----------------------------------------------------------------------------
(* Type correctness.                                                       *)

LEMMA UsersTyped == ASSUME NEW list \in Seq(Entry) PROVE Users(list) \subseteq Messages
<1>1. \A i \in DOMAIN list : list[i] \in Entry BY LenProperties, ElementOfSeq
<1> QED BY <1>1 DEF Users, Entry

LEMMA ScheduledTyped == \A f \in Flush : Scheduled(f) \in Flush
BY IdleTyped DEF Scheduled, Flush, NoFlush

LEMMA ScheduleTyped ==
    ASSUME TypeOK, NEW c \in Chats, Schedule(c)
    PROVE  flush' \in [Chats -> Flush]
BY ScheduledTyped DEF Schedule, TypeOK

\* What points into a chat stays within it.
Within ==
    /\ \A c \in Chats : cursor[c].through <= Len(chat[c])
    /\ \A v \in evidence : v.at <= Len(chat[v.chat])

LEMMA WithinGrows ==
    ASSUME TypeOK, UNCHANGED <<cursor, evidence>>, chat' \in [Chats -> Seq(Entry)],
           \A c \in Chats : Len(chat[c]) <= Len(chat'[c])
    PROVE  Within'
<1>1. \A c \in Chats : Len(chat[c]) \in Nat /\ Len(chat'[c]) \in Nat
  BY LenProperties DEF TypeOK
<1>2. \A c \in Chats : cursor[c].through \in Nat /\ cursor[c].through <= Len(chat[c])
  BY DEF TypeOK, Cursor
<1>3. \A v \in evidence : v.chat \in Chats /\ v.at \in Nat /\ v.at <= Len(chat[v.chat])
  BY DEF TypeOK, Evidence
<1> QED BY <1>1, <1>2, <1>3 DEF Within

LEMMA TypeSay == ASSUME TypeOK, RunBounds, NEW c \in Chats, Say(c) PROVE TypeOK' /\ RunBounds'
<1> DEFINE mine == {i \in DOMAIN chat[c] : chat[c][i].msg # Omi}
           n == Cardinality(mine) + 1
           e == [msg |-> <<c, n>>, gone |-> FALSE]
<1>0. chat \in [Chats -> Seq(Entry)] BY DEF TypeOK
<1>1. DOMAIN chat[c] = 1..Len(chat[c]) /\ Len(chat[c]) \in Nat
  BY <1>0, LenProperties
<1>2. Cardinality(mine) \in Nat
  <2>1. IsFiniteSet(1..Len(chat[c])) BY <1>1, FS_Interval
  <2>2. IsFiniteSet(mine) BY <1>1, <2>1, FS_Subset
  <2> QED BY <2>2, FS_CardinalityType
<1>3. n <= Says[c] /\ chat' = [chat EXCEPT ![c] = Append(@, e)]
  BY DEF Say
<1> HIDE DEF mine
<1>4. n \in 1..Says[c] BY <1>2, <1>3, MemoryAssumption
<1> HIDE DEF n
<1>5. e \in Entry BY <1>4 DEF Entry, Messages
<1> HIDE DEF e
<1>6. Append(chat[c], e) \in Seq(Entry) /\ Len(Append(chat[c], e)) = Len(chat[c]) + 1
  BY <1>0, <1>5, AppendProperties
<1>7. chat' \in [Chats -> Seq(Entry)] /\ \A d \in Chats : Len(chat[d]) <= Len(chat'[d])
  BY <1>0, <1>1, <1>3, <1>6, LenProperties
<1>8. RunBounds' BY <1>7, BoundsGrow DEF Say
<1>9. Within'
  BY <1>7, WithinGrows DEF Say, store
<1> QED BY <1>7, <1>8, <1>9 DEF Say, TypeOK, Within, store, history

\* What a reply may do: save nothing, or put itself in, and call a task.
Answers(c, p) ==
    /\ chat' = [chat EXCEPT ![c] = Inserted(@, p)]
    /\ again' = again \union Pushed(c, p)
    /\ slid' = slid \union PushedInList(c, p)
    /\ UNCHANGED flush \/ Schedule(c)
    /\ UNCHANGED run \/ \E t \in Tasks : Of[t] = c /\ OnlyRun(t) /\ Begins(t)

LEMMA ReplyMoves ==
    ASSUME TypeOK, NEW c \in Chats, Reply(c)
    PROVE  /\ \/ UNCHANGED <<chat, flush, run, again, slid>>
              \/ \E p \in 1..Len(chat[c]) + 1 : Answers(c, p)
           /\ draft' = [draft EXCEPT ![c] = {}]
           /\ UNCHANGED <<lease, store, card, erase, mishaps, lessons, passed, dropped, overlap, caught>>
<1>0. chat \in [Chats -> Seq(Entry)] /\ run \in [Runs -> Run] /\ Len(chat[c]) \in Nat
  BY LenProperties DEF TypeOK
<1>1. ASSUME NEW i \in DOMAIN chat[c], NEW p \in i + 1..Len(chat[c]) + 1,
             chat' = [chat EXCEPT ![c] = Inserted(@, p)],
             again' = again \union Pushed(c, p),
             slid' = slid \union PushedInList(c, p),
             LearnAfterReply(c, Inserted(chat[c], p))
      PROVE  p \in 1..Len(chat[c]) + 1 /\ Answers(c, p)
  <2>1. p \in 1..Len(chat[c]) + 1
    BY <1>0, LenProperties
  <2>2. Inserted(chat[c], p) \in Seq(Entry)
    BY <1>0, <2>1, InsertedIs
  <2>3. chat' \in [Chats -> Seq(Entry)] /\ chat'[c] = Inserted(chat[c], p)
    BY <1>0, <1>1, <2>2
  <2>4. ASSUME NEW t \in Tasks, Of[t] = c,
               Becomes(t, [IdleRun EXCEPT !.pc = "called", !.list = Inserted(chat[c], p)])
        PROVE  OnlyRun(t) /\ Begins(t)
    <3> DEFINE x == [IdleRun EXCEPT !.pc = "called", !.list = Inserted(chat[c], p)]
    <3>1. "called" \in Steps /\ 0 \in Nat BY DEF Steps
    <3>2. x \in Run BY <2>2, <3>1, FreshEdits
    <3>3. x.pc = "called" /\ x.list = chat'[Of[t]] /\ x.batch = {} BY <2>3, <2>4 DEF IdleRun
    <3>4. Becomes(t, x) /\ t \in Runs BY <2>4 DEF Runs
    <3> HIDE DEF x
    <3> QED BY <1>0, <3>2, <3>3, <3>4, CallBegins
  <2>5. UNCHANGED flush \/ Schedule(c)
    BY <1>1 DEF LearnAfterReply
  <2>6. UNCHANGED run \/ \E t \in Tasks : Of[t] = c /\ OnlyRun(t) /\ Begins(t)
    BY <1>1, <2>4 DEF LearnAfterReply
  <2> QED BY <1>1, <2>1, <2>5, <2>6 DEF Answers
<1>2. /\ \/ UNCHANGED <<chat, flush, run, again, slid>>
         \/ \E i \in DOMAIN chat[c] : \E p \in i + 1..Len(chat[c]) + 1 :
                /\ chat' = [chat EXCEPT ![c] = Inserted(@, p)]
                /\ again' = again \union Pushed(c, p)
                /\ slid' = slid \union PushedInList(c, p)
                /\ LearnAfterReply(c, Inserted(chat[c], p))
      /\ draft' = [draft EXCEPT ![c] = {}]
      /\ UNCHANGED <<lease, store, card, erase, mishaps, lessons, passed, dropped, overlap, caught>>
  BY DEF Reply
<1> QED BY <1>1, <1>2

\* A reply lengthens the list by one.
LEMMA AnswerGrows ==
    ASSUME TypeOK, NEW c \in Chats, NEW p \in 1..Len(chat[c]) + 1, Answers(c, p)
    PROVE  /\ chat' \in [Chats -> Seq(Entry)] /\ chat'[c] = Inserted(chat[c], p)
           /\ \A d \in Chats : d # c => chat'[d] = chat[d]
           /\ \A d \in Chats : Len(chat[d]) <= Len(chat'[d])
<1>0. chat \in [Chats -> Seq(Entry)] /\ \A d \in Chats : Len(chat[d]) \in Nat
  BY LenProperties DEF TypeOK
<1>1. Inserted(chat[c], p) \in Seq(Entry) /\ Len(Inserted(chat[c], p)) = Len(chat[c]) + 1
  BY <1>0, InsertedIs
<1> QED BY <1>0, <1>1 DEF Answers

LEMMA TypeReply == ASSUME TypeOK, RunBounds, NEW c \in Chats, Reply(c) PROVE TypeOK' /\ RunBounds'
<1>0. chat[c] \in Seq(Entry) /\ Len(chat[c]) \in Nat
  BY LenProperties DEF TypeOK
<1>1. /\ draft' = [draft EXCEPT ![c] = {}]
      /\ UNCHANGED <<lease, store, card, erase, mishaps, lessons, passed, dropped, overlap, caught>>
  BY ReplyMoves
<1>2. draft' \in [Chats -> SUBSET Messages]
  BY <1>1 DEF TypeOK
<1>3. CASE UNCHANGED <<chat, flush, run, again, slid>>
  <2>1. RunBounds' BY <1>3 DEF RunBounds
  <2> QED BY <1>1, <1>2, <1>3, <2>1 DEF TypeOK, store
<1>4. ASSUME NEW p \in 1..Len(chat[c]) + 1, Answers(c, p)
      PROVE  TypeOK' /\ RunBounds'
  <2>1. chat' \in [Chats -> Seq(Entry)] /\ \A d \in Chats : Len(chat[d]) <= Len(chat'[d])
    BY <1>4, AnswerGrows
  <2>2. Within'
    BY <1>1, <2>1, WithinGrows DEF store
  <2>3. flush' \in [Chats -> Flush]
    <3>1. UNCHANGED flush \/ Schedule(c) BY <1>4 DEF Answers
    <3> QED BY <3>1, ScheduleTyped DEF TypeOK
  <2>4. Pushed(c, p) \subseteq Messages
    <3>1. \A j \in p..Len(chat[c]) : chat[c][j] \in Entry
      BY <1>0, ElementOfSeq
    <3>2. SubSeq(chat[c], p, Len(chat[c])) \in Seq(Entry)
      BY <1>0, <3>1, SubSeqProperties
    <3> QED BY <3>2, UsersTyped DEF Pushed
  <2>5. again' \subseteq Messages /\ slid' \subseteq Messages
    BY <1>4, <2>4 DEF Answers, PushedInList, TypeOK
  <2>6. run' \in [Runs -> Run] /\ RunBounds'
    <3>1. CASE UNCHANGED run
      BY <2>1, <3>1, BoundsGrow DEF TypeOK
    <3>2. ASSUME NEW t \in Tasks, OnlyRun(t), Begins(t)
          PROVE  run' \in [Runs -> Run] /\ RunBounds'
      <4>1. t \in Runs BY DEF Runs
      <4> QED BY <2>1, <3>2, <4>1, BeginsBounds, StillInBounds DEF OnlyRun, RunBounds
    <3> QED BY <1>4, <3>1, <3>2 DEF Answers
  <2> QED BY <1>1, <1>2, <2>1, <2>2, <2>3, <2>5, <2>6 DEF TypeOK, Within, store
<1> QED BY <1>3, <1>4, ReplyMoves

LEMMA StartMoves ==
    ASSUME TypeOK, NEW j \in Jobs, StartFlush(j)
    PROVE  /\ UNCHANGED run \/ (OnlyRun(j) /\ Begins(j))
           /\ (Pending(chat[Of[j]], cursor[Of[j]].through) # {} => OnlyRun(j) /\ Begins(j))
<1> DEFINE x == [IdleRun EXCEPT !.pc = "called", !.list = chat[Of[j]],
                                !.before = cursor[Of[j]].through]
<1>1. /\ j \in Runs /\ Of[j] \in Chats /\ run \in [Runs -> Run]
      /\ chat \in [Chats -> Seq(Entry)] /\ cursor[Of[j]].through \in Nat
  BY MemoryAssumption DEF Runs, TypeOK, Cursor
<1>2. CASE Pending(chat[Of[j]], cursor[Of[j]].through) = {}
  BY <1>2 DEF StartFlush
<1>3. CASE Pending(chat[Of[j]], cursor[Of[j]].through) # {}
  <2>1. UNCHANGED chat /\ Becomes(j, x) BY <1>3 DEF StartFlush
  <2>2. "called" \in Steps /\ chat[Of[j]] \in Seq(Entry) BY <1>1 DEF Steps
  <2>3. x \in Run BY <1>1, <2>2, FreshEdits
  <2>4. x.pc = "called" /\ x.list = chat'[Of[j]] /\ x.batch = {} BY <2>1 DEF IdleRun
  <2> HIDE DEF x
  <2>5. OnlyRun(j) /\ Begins(j) BY <1>1, <2>1, <2>3, <2>4, CallBegins
  <2> QED BY <2>5
<1> QED BY <1>2, <1>3

\* A flush job, before and after its run.
LEMMA TypeFlush ==
    ASSUME TypeOK, RunBounds, NEW j \in Jobs, StartFlush(j) \/ ReportFlush(j)
    PROVE  TypeOK' /\ RunBounds'
<1>0. /\ j \in Runs /\ Of[j] \in Chats
      /\ run \in [Runs -> Run] /\ flush \in [Chats -> Flush] /\ flush[Of[j]] \in Flush
      /\ chat[Of[j]] \in Seq(Entry) /\ cursor[Of[j]].through \in Nat
  BY MemoryAssumption DEF Runs, TypeOK, Cursor
<1>1. CASE StartFlush(j)
  <2>1. CASE Pending(chat[Of[j]], cursor[Of[j]].through) = {}
    <3>1. flush' = [flush EXCEPT ![Of[j]] = NoFlush] /\ UNCHANGED run
      BY <1>1, <2>1 DEF StartFlush
    <3>2. flush' \in [Chats -> Flush] BY <1>0, <3>1, IdleTyped
    <3>3. RunBounds' BY <1>1, <3>1 DEF StartFlush, RunBounds
    <3> QED BY <1>1, <3>1, <3>2, <3>3 DEF StartFlush, TypeOK, store, history
  <2>2. CASE Pending(chat[Of[j]], cursor[Of[j]].through) # {}
    <3> DEFINE f == flush[Of[j]]
               g == [status |-> "running", moved |-> FALSE,
                     tries |-> IF f.tries > MaxTries THEN f.tries ELSE f.tries + 1]
    <3>1. flush' = [flush EXCEPT ![Of[j]] = g]
      BY <1>1, <2>2 DEF StartFlush
    <3>2. g \in Flush
      <4>1. f.tries \in 0..MaxTries + 1 /\ MaxTries \in Nat BY <1>0, MemoryAssumption DEF Flush
      <4> QED BY <4>1 DEF Flush
    <3> HIDE DEF g
    <3>3. flush' \in [Chats -> Flush] BY <1>0, <3>1, <3>2
    <3>4. OnlyRun(j) /\ Begins(j) BY <1>1, <2>2, StartMoves
    <3>5. UNCHANGED chat BY <1>1 DEF StartFlush
    <3>6. RunBounds' BY <1>0, <3>4, <3>5, BeginsBounds DEF RunBounds, OnlyRun, TypeOK
    <3> QED BY <1>1, <3>3, <3>4, <3>6 DEF StartFlush, TypeOK, OnlyRun, store, history
  <2> QED BY <2>1, <2>2
<1>2. CASE ReportFlush(j)
  <2>1. /\ Becomes(j, IdleRun)
        /\ UNCHANGED <<chat, draft, lease, store, card, erase, mishaps, lessons, passed, again, slid, overlap, caught>>
        /\ FlushFails(Of[j]) \/ FlushEnds(Of[j], MoreToDo(j))
    BY <1>2 DEF ReportFlush
  <2>2. Ended(j) BY <1>0, <2>1, IdleEnds
  <2>3. RunBounds' BY <1>0, <2>1, <2>2, BoundsKept
  <2>4. flush' \in [Chats -> Flush] /\ dropped' \subseteq Chats
    <3>1. CASE FlushFails(Of[j])
      <4>1. flush' = [flush EXCEPT ![Of[j]].status = "pending", ![Of[j]].moved = FALSE]
            \/ flush' = [flush EXCEPT ![Of[j]] = NoFlush]
        BY <3>1 DEF FlushFails
      <4>2. flush' \in [Chats -> Flush] BY <1>0, <4>1, IdleTyped DEF Flush
      <4> QED BY <1>0, <3>1, <4>2 DEF FlushFails, TypeOK
    <3>2. CASE FlushEnds(Of[j], MoreToDo(j))
      <4>1. Scheduled(NoFlush) \in Flush BY IdleTyped, ScheduledTyped
      <4> QED BY <1>0, <3>2, <4>1, IdleTyped DEF FlushEnds, TypeOK
    <3> QED BY <2>1, <3>1, <3>2
  <2> QED BY <2>1, <2>2, <2>3, <2>4 DEF Ended, OnlyRun, TypeOK, store
<1> QED BY <1>1, <1>2

\* What a run picks lies between the cursor and the end of its list.
Picks(r) ==
    LET c == Of[r]
        k == NextBatch(c, run[r].list, cursor[c].through)
    IN  /\ OnlyRun(r)
        /\ Pending(run[r].list, cursor[c].through) # {}
        /\ run'[r].pc = "picked" /\ run'[r].list = run[r].list /\ run'[r].batch = {k}

LEMMA PickMoves ==
    ASSUME TypeOK, NEW r \in Runs, PickBatch(r)
    PROVE  Ended(r) \/ Picks(r)
<1> DEFINE c == Of[r]
           k == NextBatch(c, run[r].list, cursor[c].through)
           x == [run[r] EXCEPT !.pc = "picked", !.seen = cursor[c], !.batch = {k}]
<1>0. /\ c \in Chats /\ run \in [Runs -> Run] /\ run[r] \in Run /\ run[r].list \in Seq(Entry)
      /\ cursor[c] \in Cursor /\ cursor[c].through \in Nat
  BY MemoryAssumption DEF TypeOK, Run, Cursor
<1>1. CASE Pending(run[r].list, cursor[c].through) = {}
  BY <1>0, <1>1, OverEnds DEF PickBatch
<1>2. CASE Pending(run[r].list, cursor[c].through) # {}
  <2>1. Becomes(r, x) BY <1>2 DEF PickBatch
  <2>2. k \in Batch BY <1>0, <1>2, NextBatchIs
  <2> HIDE DEF k
  <2>3. "picked" \in Steps /\ {k} \in SUBSET Batch BY <2>2 DEF Steps
  <2>4. x \in Run BY <1>0, <2>3, RunEdits
  <2>5. x.pc = "picked" /\ x.list = run[r].list /\ x.batch = {k} BY <1>0 DEF Run
  <2> HIDE DEF x
  <2>6. OnlyRun(r) /\ run'[r] = x BY <1>0, <2>1, <2>4, Moved
  <2> QED BY <1>2, <2>5, <2>6 DEF Picks, k
<1> QED BY <1>1, <1>2

LEMMA TypePick ==
    ASSUME TypeOK, RunBounds, NEW r \in Runs, PickBatch(r)
    PROVE  TypeOK' /\ RunBounds'
<1> DEFINE c == Of[r]
           k == NextBatch(c, run[r].list, cursor[c].through)
<1>0. /\ c \in Chats /\ run[r].list \in Seq(Entry) /\ cursor[c].through \in Nat
      /\ Len(chat[c]) \in Nat /\ Len(run[r].list) \in Nat /\ Len(run[r].list) <= Len(chat[c])
      /\ UNCHANGED chat
  BY MemoryAssumption, LenProperties DEF TypeOK, Run, Cursor, RunBounds, PickBatch
<1>1. RunBounds'
  <2>1. CASE Ended(r) BY <1>0, <2>1, BoundsKept
  <2>2. CASE Picks(r)
    <3>1. k.chat = c /\ LastIndex(k) \in Nat /\ LastIndex(k) <= Len(run[r].list)
      BY <1>0, <2>2, NextBatchIs DEF Picks
    <3>2. run'[r].list = run[r].list /\ run'[r].batch = {k} /\ OnlyRun(r)
      BY <2>2 DEF Picks
    <3> HIDE DEF k
    <3> QED BY <1>0, <3>1, <3>2 DEF RunBounds, OnlyRun
  <2> QED BY <2>1, <2>2, PickMoves
<1>2. run' \in [Runs -> Run] BY PickMoves DEF Ended, Picks, OnlyRun
<1> QED BY <1>1, <1>2 DEF PickBatch, TypeOK, store, history

\* What saving a batch makes of the cursor.
LEMMA SaveIs ==
    ASSUME TypeOK, RunBounds, NEW r \in Runs, NEW k \in run[r].batch, NEW v \in Nat, SaveState(k, v)
    PROVE  \/ UNCHANGED cursor
           \/ \E x \in Cursor : x.through = LastIndex(k) /\ cursor' = [cursor EXCEPT ![Of[r]] = x]
<1> DEFINE x == [through |-> LastIndex(k), version |-> v + 1, last |-> {k}]
<1>0. k \in Batch /\ k.chat = Of[r]
  BY DEF TypeOK, Run, RunBounds
<1>1. LastIndex(k) \in Nat BY <1>0, BatchTyped
<1>2. x \in Cursor /\ x.through = LastIndex(k)
  BY <1>0, <1>1 DEF Cursor
<1>3. UNCHANGED cursor \/ cursor' = [cursor EXCEPT ![Of[r]] = x]
  BY <1>0 DEF SaveState
<1> HIDE DEF x
<1> QED BY <1>2, <1>3

LEMMA SaveTyped ==
    ASSUME TypeOK, RunBounds, NEW r \in Runs, NEW k \in run[r].batch, NEW v \in Nat, SaveState(k, v)
    PROVE  /\ cursor' \in [Chats -> Cursor]
           /\ \A c \in Chats : cursor'[c].through <= Len(chat[c])
<1>0. LastIndex(k) <= Len(chat[Of[r]]) /\ Of[r] \in Chats /\ cursor \in [Chats -> Cursor]
  BY MemoryAssumption DEF TypeOK, RunBounds
<1>1. CASE UNCHANGED cursor BY <1>1 DEF TypeOK
<1>2. ASSUME NEW x \in Cursor, x.through = LastIndex(k), cursor' = [cursor EXCEPT ![Of[r]] = x]
      PROVE  /\ cursor' \in [Chats -> Cursor]
             /\ \A c \in Chats : cursor'[c].through <= Len(chat[c])
  BY <1>0, <1>2 DEF TypeOK
<1> QED BY <1>1, <1>2, SaveIs

LEMMA SeenTyped ==
    ASSUME TypeOK, NEW r \in Runs
    PROVE  run[r] \in Run /\ run[r].batch \subseteq Batch /\ run[r].seen.version \in Nat
           /\ run[r].result \in {"done", "busy", "raised"} /\ run[r].card \subseteq Messages
BY DEF TypeOK, Run, Cursor

LEMMA HeardTyped ==
    ASSUME TypeOK, NEW r \in Runs, NEW ks \in SUBSET run[r].batch
    PROVE  UNION {Heard(k) : k \in ks} \subseteq Messages
BY SeenTyped, BatchTyped

\* Whatever else a run does: it keeps its list and batch, or it is over.
RunStep(r) ==
    \/ HoldUser(r) \/ ClaimBatch(r) \/ ReadInputs(r) \/ ApplyMemories(r) \/ SaveExtras(r)
    \/ SaveCursor(r) \/ CountFailure(r) \/ SkipBatch(r) \/ Release(r)
    \/ Outage(r) \/ BadContent(r) \/ WriteFails(r) \/ Crash(r)

RunMoves(r) ==
    \/ Ended(r) /\ UNCHANGED card
    \/ Keeps(r, "held") /\ HoldUser(r) /\ lease = {}
    \/ Keeps(r, "asking") /\ ReadInputs(r) /\ run'[r].card = card
    \/ Keeps(r, "applied") /\ ApplyMemories(r) /\ run'[r].card = run[r].card
    \/ Keeps(r, "written") /\ SaveExtras(r)
    \/ /\ run[r].pc \in {"held", "claimed", "asking", "applied", "written", "failing", "skipping"}
       /\ \E s \in {"claimed", "failing", "skipping", "releasing"} : Keeps(r, s)
       /\ UNCHANGED <<lease, card>>

LEMMA RunStepMoves ==
    ASSUME TypeOK, NEW r \in Runs, RunStep(r)
    PROVE  RunMoves(r) /\ UNCHANGED chat
<1>0. /\ run \in [Runs -> Run] /\ run[r] \in Run
      /\ {"held", "claimed", "asking", "applied", "written", "failing", "skipping", "releasing"} \subseteq Steps
      /\ {"done", "busy"} \subseteq {"done", "busy", "raised"}
  BY SeenTyped DEF TypeOK, Steps
<1>1. CASE HoldUser(r)
  <2>1. CASE lease = {}
    <3>1. Keeps(r, "held") BY <1>0, <1>1, <2>1, GoesKeeps DEF HoldUser
    <3> QED BY <1>1, <2>1, <3>1 DEF HoldUser, RunMoves
  <2>2. CASE lease # {}
    <3>1. Ended(r) BY <1>0, <1>1, <2>2, OverEnds DEF HoldUser
    <3> QED BY <1>1, <3>1 DEF HoldUser, RunMoves
  <2> QED BY <2>1, <2>2
<1>2. CASE ClaimBatch(r)
  <2>1. Keeps(r, "claimed") \/ Keeps(r, "releasing")
    BY <1>0, <1>2, GoesKeeps, EndsKeeps DEF ClaimBatch
  <2> QED BY <1>2, <2>1 DEF ClaimBatch, RunMoves
<1>3. CASE ReadInputs(r)
  <2>1. card \in SUBSET Messages BY DEF TypeOK
  <2>2. Keeps(r, "asking") /\ run'[r].card = card
    BY <1>0, <1>3, <2>1, ReadKeeps DEF ReadInputs
  <2> QED BY <1>3, <2>2 DEF ReadInputs, RunMoves
<1>4. CASE ApplyMemories(r)
  <2>1. Keeps(r, "applied") /\ run'[r].card = run[r].card
    BY <1>0, <1>4, GoesKeeps DEF ApplyMemories
  <2> QED BY <1>4, <2>1 DEF ApplyMemories, RunMoves
<1>5. CASE SaveExtras(r)
  <2>1. Keeps(r, "written")
    BY <1>0, <1>5, ReadKeeps DEF SaveExtras
  <2> QED BY <1>5, <2>1 DEF SaveExtras, RunMoves
<1>6. CASE SaveCursor(r)
  <2>1. Keeps(r, "releasing") \/ Keeps(r, "failing")
    BY <1>0, <1>6, GoesKeeps, EndsKeeps DEF SaveCursor
  <2> QED BY <1>6, <2>1 DEF SaveCursor, RunMoves
<1>7. CASE CountFailure(r)
  <2>1. PICK k \in run[r].batch :
            \/ Becomes(r, [run[r] EXCEPT !.pc = "skipping", !.seen = cursor[k.chat]])
            \/ Ends(r, "done")
    BY <1>7 DEF CountFailure
  <2>2. cursor[k.chat] \in Cursor BY SeenTyped, BatchTyped DEF TypeOK
  <2>3. Keeps(r, "skipping") \/ Keeps(r, "releasing")
    <3>1. CASE Ends(r, "done") BY <1>0, <3>1, EndsKeeps
    <3>2. CASE Becomes(r, [run[r] EXCEPT !.pc = "skipping", !.seen = cursor[k.chat]])
      <4>1. [run[r] EXCEPT !.pc = "skipping", !.seen = cursor[k.chat]] \in Run
        BY <1>0, <2>2, RunEdits
      <4>2. OnlyRun(r) /\ run'[r] = [run[r] EXCEPT !.pc = "skipping", !.seen = cursor[k.chat]]
        BY <1>0, <3>2, <4>1, Moved
      <4> QED BY <1>0, <4>2 DEF Keeps, Run
    <3> QED BY <2>1, <3>1, <3>2
  <2> QED BY <1>7, <2>3 DEF CountFailure, RunMoves
<1>8. CASE SkipBatch(r)
  <2>1. Keeps(r, "releasing")
    BY <1>0, <1>8, EndsKeeps DEF SkipBatch
  <2> QED BY <1>8, <2>1 DEF SkipBatch, RunMoves
<1>9. CASE Release(r)
  BY <1>0, <1>9, OverEnds, SeenTyped DEF Release, RunMoves
<1>10. CASE Outage(r)
  <2>1. Keeps(r, "releasing") BY <1>0, <1>10, EndsKeeps DEF Outage
  <2> QED BY <1>10, <2>1 DEF Outage, RunMoves
<1>11. CASE BadContent(r)
  <2>1. Keeps(r, "failing") BY <1>0, <1>11, GoesKeeps DEF BadContent
  <2> QED BY <1>11, <2>1 DEF BadContent, RunMoves
<1>12. CASE WriteFails(r)
  <2>1. Keeps(r, "failing") BY <1>0, <1>12, GoesKeeps DEF WriteFails
  <2> QED BY <1>12, <2>1 DEF WriteFails, RunMoves
<1>13. CASE Crash(r)
  BY <1>0, <1>13, IdleEnds DEF Crash, RunMoves
<1> QED BY <1>1, <1>2, <1>3, <1>4, <1>5, <1>6, <1>7, <1>8, <1>9, <1>10, <1>11, <1>12, <1>13 DEF RunStep

LEMMA RunStepBounds ==
    ASSUME TypeOK, RunBounds, NEW r \in Runs, RunStep(r)
    PROVE  run' \in [Runs -> Run] /\ RunBounds'
<1>1. RunMoves(r) /\ UNCHANGED chat BY RunStepMoves
<1>2. Ended(r) \/ \E s \in Steps : Keeps(r, s)
  BY <1>1 DEF RunMoves, Steps
<1> QED BY <1>1, <1>2, BoundsKept DEF Ended, Keeps, OnlyRun

LEMMA TypeRunStep ==
    ASSUME TypeOK, RunBounds, NEW r \in Runs, RunStep(r)
    PROVE  TypeOK' /\ RunBounds'
<1>0. run' \in [Runs -> Run] /\ RunBounds' BY RunStepBounds
<1>1. CASE HoldUser(r)
  <2>1. [owner |-> r, chat |-> Of[r]] \in Lease BY MemoryAssumption DEF Lease
  <2>2. lease' \subseteq Lease /\ \A l, m \in lease' : l = m
    BY <1>1, <2>1 DEF HoldUser, TypeOK
  <2> QED BY <1>0, <1>1, <2>2 DEF HoldUser, TypeOK, store, history
<1>2. CASE ClaimBatch(r)
  BY <1>0, <1>2 DEF ClaimBatch, TypeOK, store, history
<1>3. CASE ReadInputs(r)
  BY <1>0, <1>3 DEF ReadInputs, TypeOK, store, history
<1>4. CASE ApplyMemories(r)
  <2>1. PICK k \in run[r].batch :
          /\ \/ UNCHANGED <<applied, evidence, lessons>>
             \/ /\ applied' = applied \union {k}
                /\ evidence' = evidence \union Proof(k)
                /\ lessons' = [m \in Messages |-> IF m \in Heard(k) /\ lessons[m] < 2
                                                  THEN lessons[m] + 1 ELSE lessons[m]]
          /\ UNCHANGED <<chat, draft, flush, lease, cursor, failures, card, erase, mishaps,
                         passed, dropped, again, slid, overlap, caught>>
    BY <1>4 DEF ApplyMemories
  <2>2. k \in Batch BY SeenTyped
  <2>3. CASE UNCHANGED <<applied, evidence, lessons>>
    BY <1>0, <2>1, <2>3 DEF TypeOK
  <2>4. CASE /\ applied' = applied \union {k}
             /\ evidence' = evidence \union Proof(k)
             /\ lessons' = [m \in Messages |-> IF m \in Heard(k) /\ lessons[m] < 2
                                               THEN lessons[m] + 1 ELSE lessons[m]]
    <3>1. applied' \subseteq Batch BY <2>2, <2>4 DEF TypeOK
    <3>2. lessons' \in [Messages -> 0..2] BY <2>4 DEF TypeOK
    <3>3. ASSUME NEW v \in Proof(k) PROVE v \in Evidence /\ v.at <= Len(chat[v.chat])
      <4>1. v \in Evidence /\ v.chat = k.chat /\ v.at <= LastIndex(k) BY <2>2, BatchTyped
      <4>2. k.chat = Of[r] /\ LastIndex(k) <= Len(chat[Of[r]]) /\ LastIndex(k) \in Nat
        BY <2>2, BatchTyped DEF RunBounds
      <4>3. Len(chat[Of[r]]) \in Nat BY MemoryAssumption, LenProperties DEF TypeOK
      <4> QED BY <4>1, <4>2, <4>3 DEF Evidence
    <3>4. evidence' \subseteq Evidence /\ \A v \in evidence' : v.at <= Len(chat[v.chat])
      BY <2>4, <3>3 DEF TypeOK
    <3> QED BY <1>0, <2>1, <3>1, <3>2, <3>4 DEF TypeOK
  <2> QED BY <2>1, <2>3, <2>4
<1>5. CASE SaveExtras(r)
  <2>1. card' \subseteq Messages
    BY <1>5, SeenTyped, BatchTyped DEF SaveExtras, TypeOK
  <2> QED BY <1>0, <1>5, <2>1 DEF SaveExtras, TypeOK, store, history
<1>6. CASE SaveCursor(r)
  <2>1. PICK k \in run[r].batch :
          \/ SaveState(k, run[r].seen.version) /\ UNCHANGED again
          \/ CutShort(r) /\ UNCHANGED cursor
    BY <1>6 DEF SaveCursor
  <2>2. cursor' \in [Chats -> Cursor] /\ \A c \in Chats : cursor'[c].through <= Len(chat[c])
    BY <2>1, SaveTyped, SeenTyped DEF TypeOK
  <2>3. again' \subseteq Messages
    BY <2>1, HeardTyped DEF CutShort, TypeOK
  <2> QED BY <1>0, <1>6, <2>2, <2>3 DEF SaveCursor, TypeOK
<1>7. CASE CountFailure(r)
  <2>1. PICK k \in run[r].batch :
          failures' = [l \in DOMAIN failures \union {k} |->
                          IF l = k THEN FailuresOf(k) + 1 ELSE failures[l]]
    BY <1>7 DEF CountFailure
  <2>2. k \in Batch /\ FailuresOf(k) \in Nat BY SeenTyped DEF TypeOK, FailuresOf
  <2>3. DOMAIN failures' \subseteq Batch /\ \A l \in DOMAIN failures' : failures'[l] \in Nat \ {0}
    BY <2>1, <2>2 DEF TypeOK
  <2> QED BY <1>0, <1>7, <2>3 DEF CountFailure, TypeOK, history
<1>8. CASE SkipBatch(r)
  <2>1. PICK k \in run[r].batch :
          \/ SaveState(k, run[r].seen.version) /\ passed' = passed \union Heard(k)
          \/ UNCHANGED <<cursor, passed>>
    BY <1>8 DEF SkipBatch
  <2>2. cursor' \in [Chats -> Cursor] /\ \A c \in Chats : cursor'[c].through <= Len(chat[c])
    BY <2>1, SaveTyped, SeenTyped DEF TypeOK
  <2>3. passed' \subseteq Messages
    BY <2>1, SeenTyped, BatchTyped DEF TypeOK
  <2> QED BY <1>0, <1>8, <2>2, <2>3 DEF SkipBatch, TypeOK
<1>9. CASE Release(r)
  BY <1>0, <1>9 DEF Release, TypeOK, store, history
<1>10. CASE Outage(r)
  BY <1>0, <1>10, MemoryAssumption DEF Outage, Mishap, TypeOK, store, history
<1>11. CASE BadContent(r)
  BY <1>0, <1>11, MemoryAssumption DEF BadContent, Mishap, TypeOK, store, history
<1>12. CASE WriteFails(r)
  <2>1. again' \subseteq Messages BY <1>12, HeardTyped DEF WriteFails, CutShort, TypeOK
  <2> QED BY <1>0, <1>12, <2>1, MemoryAssumption DEF WriteFails, Mishap, TypeOK, store
<1>13. CASE Crash(r)
  <2>1. again' \subseteq Messages BY <1>13, HeardTyped DEF Crash, CutShort, TypeOK
  <2>2. lease' \subseteq Lease /\ \A l, m \in lease' : l = m
    BY <1>13 DEF Crash, Lease, TypeOK
  <2>3. flush' \in [Chats -> Flush]
    BY <1>13, MemoryAssumption DEF Crash, Flush, TypeOK
  <2>4. mishaps' \in 0..MaxMishaps
    BY <1>13, MemoryAssumption DEF Crash, Mishap, TypeOK
  <2>5. UNCHANGED <<chat, draft, store, card, erase, lessons, passed, dropped, slid, overlap, caught>>
    BY <1>13 DEF Crash
  <2> QED BY <1>0, <2>1, <2>2, <2>3, <2>4, <2>5 DEF TypeOK, store
<1> QED BY <1>1, <1>2, <1>3, <1>4, <1>5, <1>6, <1>7, <1>8, <1>9, <1>10, <1>11, <1>12, <1>13 DEF RunStep

\* Expiry, and deleting a message.
LEMMA TypeOverrun ==
    ASSUME TypeOK, RunBounds, NEW r \in Runs, Overrun(r)
    PROVE  TypeOK' /\ RunBounds'
<1>1. again' \subseteq Messages
  BY HeardTyped DEF Overrun, TypeOK
<1>2. RunBounds' BY DEF Overrun, RunBounds
<1> QED BY <1>1, <1>2, MemoryAssumption DEF Overrun, Mishap, TypeOK, store

\* A deleted message keeps its place.
LEMMA BlankIs ==
    ASSUME TypeOK, NEW c \in Chats, NEW i \in DOMAIN chat[c],
           chat' = [chat EXCEPT ![c][i].gone = TRUE]
    PROVE  /\ chat' \in [Chats -> Seq(Entry)]
           /\ \A d \in Chats : Len(chat'[d]) = Len(chat[d])
           /\ \A d \in Chats : \A j \in 1..Len(chat[d]) :
                chat'[d][j].msg = chat[d][j].msg /\ (chat[d][j].gone => chat'[d][j].gone)
<1> DEFINE x == [chat[c][i] EXCEPT !.gone = TRUE]
           new == [chat[c] EXCEPT ![i] = x]
<1>0. chat \in [Chats -> Seq(Entry)] BY DEF TypeOK
<1>1. i \in 1..Len(chat[c]) /\ chat[c][i] \in Entry
  BY <1>0, LenProperties, ElementOfSeq
<1>2. x \in Entry /\ x.msg = chat[c][i].msg /\ x.gone BY <1>1 DEF Entry
<1>3. chat' = [chat EXCEPT ![c] = new]
  OBVIOUS
<1> HIDE DEF x
<1>4. new \in Seq(Entry) /\ Len(new) = Len(chat[c])
      /\ \A j \in 1..Len(chat[c]) : new[j] = IF j = i THEN x ELSE chat[c][j]
  BY <1>0, <1>1, <1>2, ExceptSeq
<1> HIDE DEF new
<1> QED BY <1>0, <1>2, <1>3, <1>4

LEMMA TypeErase ==
    ASSUME TypeOK, RunBounds, NEW e \in Erasers,
           \/ \E c \in Chats : \E i \in DOMAIN chat[c] : EraseBlanks(e, c, i)
           \/ EraseForgets(e)
           \/ EraseAsks(e)
    PROVE  TypeOK' /\ RunBounds'
<1>0. /\ erase \in [Erasers -> Erasing] /\ erase[e] \in Erasing /\ erase[e].chat \subseteq Chats
      /\ chat \in [Chats -> Seq(Entry)]
  BY DEF TypeOK, Erasing
<1>1. ASSUME NEW c \in Chats, NEW i \in DOMAIN chat[c], EraseBlanks(e, c, i)
      PROVE  TypeOK' /\ RunBounds'
  <2>1. chat' = [chat EXCEPT ![c][i].gone = TRUE] BY <1>1 DEF EraseBlanks
  <2>2. /\ chat' \in [Chats -> Seq(Entry)]
        /\ \A d \in Chats : Len(chat'[d]) = Len(chat[d])
    BY <2>1, BlankIs
  <2>3. \A d \in Chats : Len(chat[d]) <= Len(chat'[d])
    BY <1>0, <2>2, LenProperties
  <2>4. i \in Nat BY <1>0, LenProperties
  <2>5. [step |-> "blanked", chat |-> {c}, at |-> i] \in Erasing BY <2>4 DEF Erasing
  <2>6. erase' \in [Erasers -> Erasing] BY <1>0, <1>1, <2>5 DEF EraseBlanks
  <2>7. RunBounds' BY <1>1, <2>2, <2>3, BoundsGrow DEF EraseBlanks
  <2>8. Within' BY <1>1, <2>2, <2>3, WithinGrows DEF EraseBlanks, store
  <2> QED BY <1>1, <2>2, <2>6, <2>7, <2>8 DEF EraseBlanks, TypeOK, Within, store, history
<1>2. CASE EraseForgets(e)
  <2>1. PICK c \in erase[e].chat :
        /\ evidence' = {v \in evidence : v.chat # c \/ v.at # erase[e].at}
        /\ cursor' = [cursor EXCEPT ![c] = NoCursor]
        /\ applied' = {k \in applied : k.chat # c}
        /\ failures' = [k \in {l \in DOMAIN failures : l.chat # c} |-> failures[k]]
        /\ lease' = {l \in lease : l.chat # c}
        /\ overlap' = (overlap \/ \E l \in lease : l.chat = c /\ l.owner # Nobody)
        /\ again' = again \union Users(chat[c])
        /\ caught' = caught \union ReadAndGone(c)
        /\ erase' = [erase EXCEPT ![e].step = "forgotten"]
        /\ UNCHANGED <<chat, draft, flush, card, run, mishaps, lessons, passed, dropped, slid>>
    BY <1>2 DEF EraseForgets
  <2>2. c \in Chats /\ chat[c] \in Seq(Entry) BY <1>0
  <2>3. again' \subseteq Messages /\ caught' \subseteq Messages
    BY <2>1, <2>2, UsersTyped DEF ReadAndGone, TypeOK
  <2>4. erase' \in [Erasers -> Erasing] BY <1>0, <2>1 DEF Erasing
  <2>5. cursor' \in [Chats -> Cursor] /\ \A d \in Chats : cursor'[d].through <= Len(chat[d])
    <3>1. Len(chat[c]) \in Nat /\ NoCursor.through = 0 BY <2>2, LenProperties DEF NoCursor
    <3> QED BY <2>1, <2>2, <3>1, IdleTyped DEF TypeOK
  <2>6. DOMAIN failures' \subseteq Batch /\ \A k \in DOMAIN failures' : failures'[k] \in Nat \ {0}
    BY <2>1 DEF TypeOK
  <2>7. lease' \subseteq Lease /\ \A l, m \in lease' : l = m
    BY <2>1 DEF TypeOK
  <2>8. evidence' \subseteq Evidence /\ \A v \in evidence' : v.at <= Len(chat[v.chat])
    BY <2>1 DEF TypeOK
  <2>9. applied' \subseteq Batch /\ overlap' \in BOOLEAN
    BY <2>1 DEF TypeOK
  <2>10. UNCHANGED <<chat, draft, flush, card, run, mishaps, lessons, passed, dropped, slid>>
    BY <2>1
  <2>11. RunBounds' BY <2>10 DEF RunBounds
  <2> QED BY <2>3, <2>4, <2>5, <2>6, <2>7, <2>8, <2>9, <2>10, <2>11 DEF TypeOK
<1>3. CASE EraseAsks(e)
  <2>1. PICK c \in erase[e].chat : Schedule(c) BY <1>3 DEF EraseAsks
  <2>2. flush' \in [Chats -> Flush] BY <1>0, <2>1, ScheduleTyped
  <2>3. erase' \in [Erasers -> Erasing] BY <1>0, <1>3 DEF EraseAsks, Erasing
  <2>4. RunBounds' BY <1>3 DEF EraseAsks, RunBounds
  <2> QED BY <1>3, <2>2, <2>3, <2>4 DEF EraseAsks, TypeOK, store, history
<1> QED BY <1>1, <1>2, <1>3

\* Every step keeps the types and the bounds.
LEMMA TypeStep == TypeOK /\ RunBounds /\ [Next]_vars => TypeOK' /\ RunBounds'
<1> SUFFICES ASSUME TypeOK, RunBounds, [Next]_vars PROVE TypeOK' /\ RunBounds'
    OBVIOUS
<1>1. ASSUME NEW c \in Chats, Draft(c) PROVE TypeOK' /\ RunBounds'
  <2>1. PICK i \in DOMAIN chat[c] : Meaningful(chat[c], i) /\ draft' = [draft EXCEPT ![c] = {chat[c][i].msg}]
    BY <1>1 DEF Draft
  <2>2. chat[c][i] \in Entry BY LenProperties, ElementOfSeq DEF TypeOK
  <2>3. chat[c][i].msg \in Messages BY <2>1, <2>2 DEF Entry, Meaningful
  <2>4. draft' \in [Chats -> SUBSET Messages] BY <2>1, <2>3 DEF TypeOK
  <2>5. RunBounds' BY <1>1 DEF Draft, RunBounds
  <2> QED BY <1>1, <2>4, <2>5 DEF Draft, TypeOK, store, history
<1>2. ASSUME NEW c \in Chats, CatchUp(c) PROVE TypeOK' /\ RunBounds'
  <2>1. flush' \in [Chats -> Flush] BY <1>2, ScheduleTyped DEF CatchUp
  <2>2. RunBounds' BY <1>2 DEF CatchUp, RunBounds
  <2> QED BY <1>2, <2>1, <2>2 DEF CatchUp, TypeOK, store, history
<1>3. CASE LeaseExpires
  BY <1>3 DEF LeaseExpires, TypeOK, RunBounds, store, history
<1>4. CASE UNCHANGED vars
  BY <1>4 DEF vars, TypeOK, RunBounds, store, history
<1>5. ASSUME NEW r \in Runs,
             \/ RunSteps(r) \/ Outage(r) \/ BadContent(r) \/ WriteFails(r) \/ Crash(r) \/ Overrun(r)
      PROVE TypeOK' /\ RunBounds'
  BY <1>5, TypePick, TypeRunStep, TypeOverrun DEF RunSteps, RunStep
<1> QED BY <1>1, <1>2, <1>3, <1>4, <1>5, TypeSay, TypeReply, TypeFlush, TypeErase DEF Next

LEMMA TypeInit == Init => TypeOK /\ RunBounds
<1> SUFFICES ASSUME Init PROVE TypeOK /\ RunBounds
    OBVIOUS
<1>1. /\ <<>> \in Seq(Entry) /\ Len(<<>>) = 0 BY EmptySeq
<1>2. DOMAIN failures = {} BY DEF Init
<1>3. \A e \in Erasers : erase[e] \in Erasing BY DEF Init, Erasing
<1>4. IdleRun.list = <<>> /\ IdleRun.batch = {} BY DEF IdleRun
<1>5. RunBounds
  BY <1>1, <1>4, MemoryAssumption DEF Init, RunBounds
<1>6. NoCursor.through = 0 BY DEF NoCursor
<1>7. /\ chat \in [Chats -> Seq(Entry)] /\ cursor \in [Chats -> Cursor]
      /\ \A c \in Chats : cursor[c].through <= Len(chat[c])
      /\ flush \in [Chats -> Flush] /\ run \in [Runs -> Run]
  BY <1>1, <1>6, IdleTyped DEF Init
<1>8. erase \in [Erasers -> Erasing]
  BY <1>3 DEF Init
<1>9. /\ draft \in [Chats -> SUBSET Messages]
      /\ lessons \in [Messages -> 0..2] /\ mishaps \in 0..MaxMishaps
  BY MemoryAssumption DEF Init
<1>10. /\ lease = {} /\ applied = {} /\ evidence = {} /\ card = {}
       /\ passed = {} /\ again = {} /\ slid = {} /\ dropped = {} /\ overlap = FALSE /\ caught = {}
  BY DEF Init
<1> QED BY <1>2, <1>5, <1>7, <1>8, <1>9, <1>10 DEF TypeOK

\* The variables keep their types: the cursor and the proof of memories stay
\* within their chat, and the user's lease has one owner.
THEOREM TypeCorrect == Spec => []TypeOK
<1>1. Init => TypeOK /\ RunBounds BY TypeInit
<1>2. TypeOK /\ RunBounds /\ [Next]_vars => TypeOK' /\ RunBounds' BY TypeStep
<1> QED BY <1>1, <1>2, PTL DEF Spec

-----------------------------------------------------------------------------
(* The card.                                                               *)

\* Runs that are not at work, and owners that keep the lease, disturb nothing.
LEMMA HeldKept ==
    ASSUME LeaseHeld, CardRead, UNCHANGED <<card, overlap>>,
           \A q \in Runs : run'[q] = run[q] \/ run'[q].pc \notin AtWork,
           \A q \in Runs : run'[q].pc \in AtWork /\ (\E l \in lease : l.owner = q)
                            => \E l \in lease' : l.owner = q
    PROVE  LeaseHeld' /\ CardRead'
<1>1. {"asking", "applied"} \subseteq AtWork BY DEF AtWork
<1>2. LeaseHeld' BY DEF LeaseHeld
<1>3. CardRead' BY <1>1 DEF CardRead
<1> QED BY <1>2, <1>3

\* Nobody else's lease ends when a run moves.
LEMMA OthersHeld ==
    ASSUME TypeOK, NEW r \in Runs, RunStep(r), NEW q \in Runs, q # r, NEW l \in lease, l.owner = q
    PROVE  \E m \in lease' : m.owner = q
<1>1. CASE HoldUser(r) BY <1>1 DEF HoldUser
<1>2. CASE Release(r) BY <1>2 DEF Release
<1>3. CASE Crash(r) BY <1>3 DEF Crash
<1>4. CASE UNCHANGED lease BY <1>4
<1> QED BY <1>1, <1>2, <1>3, <1>4
        DEF RunStep, ClaimBatch, ReadInputs, ApplyMemories, SaveExtras, SaveCursor, CountFailure,
            SkipBatch, Outage, BadContent, WriteFails, store

LEMMA OverlapStays == ASSUME NEW r \in Runs, RunStep(r) PROVE UNCHANGED <<overlap, chat, slid>>
<1>1. CASE HoldUser(r) \/ Release(r)
  BY <1>1 DEF HoldUser, Release, history
<1>2. CASE ClaimBatch(r) \/ ReadInputs(r) \/ SaveExtras(r) \/ CountFailure(r)
  BY <1>2 DEF ClaimBatch, ReadInputs, SaveExtras, CountFailure, history
<1>3. CASE Outage(r) \/ BadContent(r)
  BY <1>3 DEF Outage, BadContent, history
<1>4. CASE ApplyMemories(r) \/ SaveCursor(r) \/ SkipBatch(r)
  BY <1>4 DEF ApplyMemories, SaveCursor, SkipBatch
<1>5. CASE WriteFails(r) \/ Crash(r)
  BY <1>5 DEF WriteFails, Crash
<1> QED BY <1>1, <1>2, <1>3, <1>4, <1>5 DEF RunStep

LEMMA CardRunStep ==
    ASSUME TypeOK, LeaseHeld, CardRead, NEW r \in Runs, RunStep(r)
    PROVE  LeaseHeld' /\ CardRead' /\ (card \subseteq card' \/ overlap)
<1>1. RunMoves(r) BY RunStepMoves
<1>2. \A q \in Runs : q # r => run'[q] = run[q] BY <1>1 DEF RunMoves, Ended, Keeps, OnlyRun
<1>3. UNCHANGED overlap
  BY OverlapStays
<1>4. CASE Ended(r) /\ UNCHANGED card
  <2>1. run'[r].pc \notin AtWork BY <1>4 DEF Ended, AtWork
  <2>2. LeaseHeld' /\ CardRead' BY <1>2, <1>3, <1>4, <2>1, HeldKept, OthersHeld
  <2> QED BY <1>4, <2>2
<1>5. CASE Keeps(r, "held") /\ HoldUser(r) /\ lease = {}
  <2>1. UNCHANGED card /\ run'[r].pc = "held" BY <1>5 DEF HoldUser, Keeps
  <2>2. \E l \in lease' : l.owner = r
    <3> DEFINE mine == [owner |-> r, chat |-> Of[r]]
    <3>1. mine \in lease' BY <1>5 DEF HoldUser
    <3>2. mine.owner = r OBVIOUS
    <3> HIDE DEF mine
    <3> QED BY <3>1, <3>2
  <2>3. ASSUME ~overlap, NEW q \in Runs, run'[q].pc \in AtWork PROVE \E l \in lease' : l.owner = q
    BY <1>2, <1>5, <2>2, <2>3 DEF LeaseHeld
  <2>5. LeaseHeld' BY <1>3, <2>3 DEF LeaseHeld
  <2>4. CardRead' BY <1>2, <1>3, <2>1 DEF CardRead
  <2> QED BY <2>1, <2>4, <2>5
<1>6. ASSUME NEW s \in {"asking", "applied", "written", "claimed", "failing", "skipping", "releasing"},
             Keeps(r, s), run[r].pc \in AtWork, UNCHANGED lease
      PROVE  LeaseHeld'
  BY <1>2, <1>3, <1>6 DEF LeaseHeld
<1>7. CASE Keeps(r, "asking") /\ ReadInputs(r) /\ run'[r].card = card
  <2>1. UNCHANGED <<card, lease>> /\ run[r].pc \in AtWork BY <1>7 DEF ReadInputs, AtWork
  <2>2. LeaseHeld' BY <1>6, <1>7, <2>1
  <2>3. CardRead' BY <1>2, <1>3, <1>7, <2>1 DEF CardRead
  <2> QED BY <2>1, <2>2, <2>3
<1>8. CASE Keeps(r, "applied") /\ ApplyMemories(r) /\ run'[r].card = run[r].card
  <2>1. UNCHANGED <<card, lease>> /\ run[r].pc = "asking" /\ run[r].pc \in AtWork
    BY <1>8 DEF ApplyMemories, AtWork
  <2>2. LeaseHeld' BY <1>6, <1>8, <2>1
  <2>3. CardRead' BY <1>2, <1>3, <1>8, <2>1 DEF CardRead
  <2> QED BY <2>1, <2>2, <2>3
<1>9. CASE Keeps(r, "written") /\ SaveExtras(r)
  <2>1. UNCHANGED lease /\ run[r].pc = "applied" /\ run[r].pc \in AtWork /\ run'[r].pc = "written"
        /\ (card' = card \/ \E k : card' = run[r].card \union Heard(k))
    BY <1>9 DEF SaveExtras, AtWork, Keeps
  <2>2. LeaseHeld' BY <1>6, <1>9, <2>1
  <2>3. ASSUME ~overlap, NEW q \in Runs, run'[q].pc \in {"asking", "applied"}
        PROVE  FALSE
    <3>1. q # r /\ run'[q] = run[q] BY <1>2, <2>1, <2>3
    <3>2. run[q].pc \in AtWork BY <2>3, <3>1 DEF AtWork
    <3> QED BY <2>1, <2>3, <3>1, <3>2 DEF LeaseHeld, TypeOK
  <2>4. CardRead' BY <1>3, <2>3 DEF CardRead
  <2>5. card \subseteq card' \/ overlap BY <2>1 DEF CardRead
  <2> QED BY <2>2, <2>4, <2>5
<1>10. ASSUME NEW s \in {"claimed", "failing", "skipping", "releasing"}, Keeps(r, s),
              run[r].pc \in {"held", "claimed", "asking", "applied", "written", "failing", "skipping"},
              UNCHANGED <<lease, card>>
       PROVE  LeaseHeld' /\ CardRead' /\ (card \subseteq card' \/ overlap)
  <2>1. run'[r].pc = s /\ s \notin {"asking", "applied"} BY <1>10 DEF Keeps
  <2>2. run[r].pc \in AtWork BY <1>10 DEF AtWork
  <2>3. LeaseHeld' BY <1>6, <1>10, <2>2
  <2>4. CardRead' BY <1>2, <1>3, <1>10, <2>1 DEF CardRead
  <2> QED BY <1>10, <2>3, <2>4
<1> QED BY <1>1, <1>4, <1>5, <1>7, <1>8, <1>9, <1>10 DEF RunMoves

LEMMA CardStep ==
    TypeOK /\ LeaseHeld /\ CardRead /\ [Next]_vars
        => LeaseHeld' /\ CardRead' /\ (card \subseteq card' \/ overlap')
<1> DEFINE Kept == LeaseHeld' /\ CardRead' /\ (card \subseteq card' \/ overlap')
<1> SUFFICES ASSUME TypeOK, LeaseHeld, CardRead, [Next]_vars
             PROVE  Kept
    OBVIOUS
<1>1. ASSUME UNCHANGED <<lease, card, overlap>>,
             \A q \in Runs : run'[q] = run[q] \/ run'[q].pc \notin AtWork
      PROVE  Kept
  BY <1>1, HeldKept
<1>2. ASSUME NEW c \in Chats, Say(c) \/ Draft(c) \/ CatchUp(c)
      PROVE  UNCHANGED <<lease, card, overlap, run>>
  BY <1>2 DEF Say, Draft, CatchUp, history
<1>3. ASSUME NEW c \in Chats, Reply(c)
      PROVE  /\ UNCHANGED <<lease, card, overlap>>
             /\ \A q \in Runs : run'[q] = run[q] \/ run'[q].pc \notin AtWork
  <2>1. UNCHANGED <<lease, card, overlap>> BY <1>3, ReplyMoves
  <2>2. UNCHANGED run \/ \E t \in Tasks : OnlyRun(t) /\ Begins(t)
    BY <1>3, ReplyMoves DEF Answers
  <2> QED BY <2>1, <2>2 DEF OnlyRun, Begins, AtWork, Runs
<1>4. ASSUME NEW j \in Jobs, StartFlush(j) \/ ReportFlush(j)
      PROVE  /\ UNCHANGED <<lease, card, overlap>>
             /\ \A q \in Runs : run'[q] = run[q] \/ run'[q].pc \notin AtWork
  <2>0. j \in Runs /\ run \in [Runs -> Run] BY DEF Runs, TypeOK
  <2>1. CASE StartFlush(j)
    <3>1. UNCHANGED run \/ (OnlyRun(j) /\ Begins(j)) BY <2>1, StartMoves
    <3>2. UNCHANGED <<lease, card, overlap>> BY <2>1 DEF StartFlush, history
    <3> QED BY <3>1, <3>2 DEF OnlyRun, Begins, AtWork
  <2>2. CASE ReportFlush(j)
    <3>1. Ended(j) BY <2>0, <2>2, IdleEnds DEF ReportFlush
    <3>2. UNCHANGED <<lease, card, overlap>> BY <2>2 DEF ReportFlush
    <3> QED BY <3>1, <3>2 DEF Ended, OnlyRun, AtWork
  <2> QED BY <1>4, <2>1, <2>2
<1>5. ASSUME NEW r \in Runs, PickBatch(r)
      PROVE  /\ UNCHANGED <<lease, card, overlap>>
             /\ \A q \in Runs : run'[q] = run[q] \/ run'[q].pc \notin AtWork
  <2>1. UNCHANGED <<lease, card, overlap>> BY <1>5 DEF PickBatch, history
  <2> QED BY <1>5, <2>1, PickMoves DEF Ended, Picks, OnlyRun, AtWork
<1>6. ASSUME NEW r \in Runs, RunStep(r)
      PROVE  Kept
  BY <1>6, CardRunStep, OverlapStays
<1>7. ASSUME NEW r \in Runs, Overrun(r)
      PROVE  Kept
  BY <1>7 DEF Overrun, LeaseHeld, CardRead
\* A lease that expires is a dead owner's, and it is the only one.
<1>8. CASE LeaseExpires
  <2>1. \A l \in lease : l.owner \notin Runs
    BY <1>8, MemoryAssumption DEF LeaseExpires, TypeOK
  <2>2. UNCHANGED <<card, overlap, run>> BY <1>8 DEF LeaseExpires, history
  <2>3. LeaseHeld' BY <2>1, <2>2 DEF LeaseHeld
  <2>4. CardRead' BY <2>2 DEF CardRead
  <2> QED BY <2>2, <2>3, <2>4
<1>9. ASSUME NEW e \in Erasers, EraseForgets(e)
      PROVE  Kept
  <2>1. PICK c \in erase[e].chat :
        /\ lease' = {l \in lease : l.chat # c}
        /\ overlap' = (overlap \/ \E l \in lease : l.chat = c /\ l.owner # Nobody)
        /\ UNCHANGED <<card, run>>
    BY <1>9 DEF EraseForgets
  <2>2. ASSUME ~overlap', NEW q \in Runs, run[q].pc \in AtWork PROVE \E l \in lease' : l.owner = q
    <3>1. ~overlap BY <2>1, <2>2
    <3>2. PICK l \in lease : l.owner = q BY <2>2, <3>1 DEF LeaseHeld
    <3>3. l.owner # Nobody BY <3>2, MemoryAssumption
    <3>4. l.chat # c BY <2>1, <2>2, <3>3
    <3> QED BY <2>1, <3>2, <3>4
  <2>3. LeaseHeld' BY <2>1, <2>2 DEF LeaseHeld
  <2>4. CardRead' BY <2>1 DEF CardRead
  <2> QED BY <2>1, <2>3, <2>4
<1>10. ASSUME NEW e \in Erasers,
              EraseAsks(e) \/ \E c \in Chats : \E i \in DOMAIN chat[c] : EraseBlanks(e, c, i)
       PROVE  UNCHANGED <<lease, card, overlap, run>>
  BY <1>10 DEF EraseAsks, EraseBlanks, history
<1>11. CASE UNCHANGED vars
  BY <1>1, <1>11 DEF vars, history
<1>12. CASE \E c \in Chats : Say(c) \/ Draft(c) \/ Reply(c) \/ CatchUp(c)
  BY <1>1, <1>2, <1>3, <1>12
<1>13. CASE \E r \in Runs : \/ RunSteps(r) \/ Outage(r) \/ BadContent(r) \/ WriteFails(r)
                            \/ Crash(r) \/ Overrun(r)
  BY <1>1, <1>5, <1>6, <1>7, <1>13 DEF RunSteps, RunStep
<1>14. CASE \E e \in Erasers : \/ \E c \in Chats : \E i \in DOMAIN chat[c] : EraseBlanks(e, c, i)
                               \/ EraseForgets(e) \/ EraseAsks(e)
  BY <1>1, <1>9, <1>10, <1>14
<1>15. CASE \E j \in Jobs : StartFlush(j) \/ ReportFlush(j)
  BY <1>1, <1>4, <1>15
<1> QED BY <1>8, <1>11, <1>12, <1>13, <1>14, <1>15 DEF Next

\* No run loses the card lines of another, whatever jobs, tasks and deletions
\* there are, while no run at work has lost the user's lease
\* (claim_user_background_lease, update_user_card).
THEOREM NoLineLost == Spec => CardKept
<1>1. Init => TypeOK /\ RunBounds /\ LeaseHeld /\ CardRead
  <2>1. Init => \A r \in Runs : run[r].pc = "idle"
    <3>1. IdleRun.pc = "idle" BY DEF IdleRun
    <3> QED BY <3>1 DEF Init
  <2>2. "idle" \notin AtWork /\ "idle" \notin {"asking", "applied"} BY DEF AtWork
  <2>3. Init => LeaseHeld /\ CardRead BY <2>1, <2>2 DEF LeaseHeld, CardRead
  <2> QED BY <2>3, TypeInit
<1>2. TypeOK /\ RunBounds /\ LeaseHeld /\ CardRead /\ [Next]_vars
        => (TypeOK /\ RunBounds /\ LeaseHeld /\ CardRead)'
  BY TypeStep, CardStep
<1>3. TypeOK /\ LeaseHeld /\ CardRead /\ [Next]_vars => [card \subseteq card' \/ overlap']_vars
  BY CardStep
<1> QED BY <1>1, <1>2, <1>3, PTL DEF Spec, CardKept

-----------------------------------------------------------------------------
(* No message is passed over unread.                                       *)

\* What is known of messages is never forgotten.
Grows ==
    /\ \A m \in Messages : lessons[m] > 0 => lessons'[m] > 0
    /\ passed \subseteq passed' /\ slid \subseteq slid'

\* A message that still counts was at its place before, or above it.
Sinks ==
    \A c \in Chats : \A i \in 1..Len(chat[c]) :
        Meaningful(chat'[c], i) =>
            \E j \in 1..i : Meaningful(chat[c], j) /\ chat[c][j].msg = chat'[c][i].msg

LEMMA SaidTyped ==
    ASSUME TypeOK, NEW c \in Chats, NEW i \in 1..Len(chat[c]), Meaningful(chat[c], i)
    PROVE  chat[c][i].msg \in Messages
<1>1. chat[c][i] \in Entry BY ElementOfSeq DEF TypeOK
<1> QED BY <1>1 DEF Entry, Meaningful

AccountedNext(m) == lessons'[m] > 0 \/ m \in passed' \/ m \in slid'

LEMMA AccountedGrows == ASSUME Grows, NEW m \in Messages PROVE Accounted(m) => AccountedNext(m)
BY DEF Grows, Accounted, AccountedNext, Known

\* While the cursor stays, messages that sink below it were before it already.
LEMMA PastKept ==
    ASSUME TypeOK, PastCursor, Grows, Sinks, UNCHANGED cursor
    PROVE  PastCursor'
<1> SUFFICES ASSUME NEW c \in Chats, NEW i \in 1..Len(chat'[c]),
                    i <= cursor[c].through, Meaningful(chat'[c], i)
             PROVE  AccountedNext(chat'[c][i].msg)
    BY DEF PastCursor, Meaningful, Accounted, AccountedNext, Known
<1>1. cursor[c].through \in Nat /\ cursor[c].through <= Len(chat[c]) /\ Len(chat[c]) \in Nat
  BY LenProperties DEF TypeOK, Cursor
<1>2. i \in 1..Len(chat[c]) BY <1>1
<1>3. PICK j \in 1..i : Meaningful(chat[c], j) /\ chat[c][j].msg = chat'[c][i].msg
  BY <1>2 DEF Sinks
<1>4. j \in 1..Len(chat[c]) /\ j <= cursor[c].through BY <1>1, <1>2
<1>5. Accounted(chat[c][j].msg) BY <1>3, <1>4 DEF PastCursor
<1>6. chat[c][j].msg \in Messages BY <1>3, <1>4, SaidTyped
<1> QED BY <1>3, <1>5, <1>6, AccountedGrows

LEMMA CoversKept ==
    ASSUME TypeOK, RunBounds, Grows, Sinks, NEW r \in Runs, NEW k \in run[r].batch, Covers(r, k)
    PROVE  Covers(r, k)'
<1> SUFFICES ASSUME NEW i \in 1..LastIndex(k), Meaningful(chat'[Of[r]], i)
             PROVE  AccountedNext(chat'[Of[r]][i].msg) \/ chat'[Of[r]][i].msg \in Heard(k)
    BY DEF Covers, Meaningful, Accounted, AccountedNext, Known
<1>0. Of[r] \in Chats /\ LastIndex(k) <= Len(chat[Of[r]]) /\ Len(chat[Of[r]]) \in Nat /\ LastIndex(k) \in Nat
  BY MemoryAssumption, LenProperties, BatchTyped, SeenTyped DEF TypeOK, RunBounds
<1>1. i \in 1..Len(chat[Of[r]]) BY <1>0
<1>2. PICK j \in 1..i : Meaningful(chat[Of[r]], j) /\ chat[Of[r]][j].msg = chat'[Of[r]][i].msg
  BY <1>0, <1>1 DEF Sinks
<1>3. j \in 1..LastIndex(k) /\ j \in 1..Len(chat[Of[r]]) BY <1>0, <1>1
<1>4. Accounted(chat[Of[r]][j].msg) \/ chat[Of[r]][j].msg \in Heard(k) BY <1>2, <1>3 DEF Covers
<1>5. chat[Of[r]][j].msg \in Messages BY <1>0, <1>2, <1>3, SaidTyped
<1> QED BY <1>2, <1>4, <1>5, AccountedGrows

\* A run that keeps its batch, or drops it.
LEMMA BatchesKept ==
    ASSUME TypeOK, RunBounds, BatchCovers, Grows, Sinks, NEW r \in Runs,
           run'[r].batch \subseteq run[r].batch,
           run'[r].pc = "called" => InPlace(r)',
           run'[r].pc \in {"applied", "written"} =>
               \/ run[r].pc \in {"applied", "written"}
               \/ \A k \in run[r].batch : \A m \in Heard(k) : lessons'[m] > 0
    PROVE  /\ run'[r].pc = "called" => InPlace(r)'
           /\ \A k \in run'[r].batch :
                  /\ Covers(r, k)'
                  /\ run'[r].pc \in {"applied", "written"} => \A m \in Heard(k) : Known(m)'
<1> SUFFICES ASSUME NEW k \in run[r].batch
             PROVE  /\ Covers(r, k)'
                    /\ run'[r].pc \in {"applied", "written"} => \A m \in Heard(k) : Known(m)'
    OBVIOUS
<1>1. Covers(r, k)' BY CoversKept DEF BatchCovers
<1>2. ASSUME run'[r].pc \in {"applied", "written"}, NEW m \in Heard(k) PROVE Known(m)'
  <2>1. m \in Messages BY SeenTyped, BatchTyped
  <2>2. CASE run[r].pc \in {"applied", "written"}
    <3>1. Known(m) BY <2>2 DEF BatchCovers
    <3> QED BY <2>1, <3>1 DEF Known, Grows
  <2> QED BY <1>2, <2>2 DEF Known
<1> QED BY <1>1, <1>2

LEMMA AppliedKept ==
    ASSUME TypeOK, AppliedKnown, Grows, applied' \subseteq applied
    PROVE  AppliedKnown'
<1>1. \A k \in applied : Heard(k) \subseteq Messages BY BatchTyped DEF TypeOK
<1> QED BY <1>1 DEF AppliedKnown, Grows

\* Steps that leave the lists alone.
LEMMA SinksStill == ASSUME TypeOK, UNCHANGED chat PROVE Sinks
<1> SUFFICES ASSUME NEW c \in Chats, NEW i \in 1..Len(chat[c]), Meaningful(chat'[c], i)
             PROVE  \E j \in 1..i : Meaningful(chat[c], j) /\ chat[c][j].msg = chat'[c][i].msg
    BY DEF Sinks
<1>1. i \in 1..i OBVIOUS
<1> QED BY <1>1

LEMMA InPlaceStill ==
    ASSUME NEW r \in Runs, UNCHANGED chat, slid \subseteq slid', run'[r].list = run[r].list, InPlace(r)
    PROVE  InPlace(r)'
BY DEF InPlace

\* A list that was read in this step is in place.
LEMMA InPlaceNow == ASSUME NEW r \in Runs, Begins(r) PROVE InPlace(r)'
BY DEF Begins, InPlace

SkipInv == PastCursor /\ AppliedKnown /\ BatchCovers

\* One run moves and the lists stay; the others' batches are still covered.
LEMMA OthersCovered ==
    ASSUME TypeOK, RunBounds, SkipInv, Grows, UNCHANGED chat, NEW r \in Runs, OnlyRun(r),
           /\ run'[r].pc = "called" => InPlace(r)'
           /\ \A k \in run'[r].batch :
                  /\ Covers(r, k)'
                  /\ run'[r].pc \in {"applied", "written"} => \A m \in Heard(k) : Known(m)'
    PROVE  BatchCovers'
<1>1. Sinks BY SinksStill
<1>2. ASSUME NEW q \in Runs, q # r
      PROVE  /\ run'[q].pc = "called" => InPlace(q)'
             /\ \A k \in run'[q].batch :
                    /\ Covers(q, k)'
                    /\ run'[q].pc \in {"applied", "written"} => \A m \in Heard(k) : Known(m)'
  <2>1. run'[q] = run[q] BY <1>2 DEF OnlyRun
  <2>2. run'[q].pc = "called" => InPlace(q)'
    BY <2>1, InPlaceStill DEF SkipInv, BatchCovers, Grows
  <2> QED BY <1>1, <2>1, <2>2, BatchesKept DEF SkipInv
<1> QED BY <1>2 DEF BatchCovers

\* A new message comes last.
LEMMA SkipSay == ASSUME TypeOK, RunBounds, SkipInv, NEW c \in Chats, Say(c) PROVE SkipInv'
<1>0. chat \in [Chats -> Seq(Entry)] BY DEF TypeOK
<1>1. \A d \in Chats : \A i \in 1..Len(chat[d]) : chat'[d][i] = chat[d][i]
  <2>1. PICK x : chat' = [chat EXCEPT ![c] = Append(@, x)] BY DEF Say
  <2>2. \A i \in 1..Len(chat[c]) : Append(chat[c], x)[i] = chat[c][i]
    BY <1>0, LenProperties
  <2> QED BY <1>0, <2>1, <2>2
<1>2. Grows BY DEF Say, Grows, history
<1>3. Sinks BY <1>1 DEF Sinks, Meaningful
<1>4. PastCursor' BY <1>2, <1>3, PastKept DEF SkipInv, Say, store
<1>5. AppliedKnown' BY <1>2, AppliedKept DEF SkipInv, Say, store
<1>6. UNCHANGED <<run, slid>> BY DEF Say, history
<1>7. ASSUME NEW r \in Runs
      PROVE  run'[r].pc = "called" => InPlace(r)'
  <2> SUFFICES ASSUME run[r].pc = "called", NEW i \in 1..Len(run[r].list), Meaningful(chat'[Of[r]], i)
               PROVE  \/ chat'[Of[r]][i].msg \in slid
                      \/ Meaningful(run[r].list, i) /\ run[r].list[i].msg = chat'[Of[r]][i].msg
    BY <1>6 DEF InPlace, Meaningful
  <2>1. Of[r] \in Chats /\ i \in 1..Len(chat[Of[r]])
    BY MemoryAssumption, LenProperties DEF RunBounds, TypeOK, Run
  <2>2. chat'[Of[r]][i] = chat[Of[r]][i] BY <1>1, <2>1
  <2> QED BY <2>2 DEF SkipInv, BatchCovers, InPlace, Meaningful
<1>8. BatchCovers' BY <1>2, <1>3, <1>6, <1>7, BatchesKept DEF SkipInv, BatchCovers
<1> QED BY <1>4, <1>5, <1>8 DEF SkipInv

\* A deleted message counts no more, and the others stay where they are.
LEMMA SkipBlank ==
    ASSUME TypeOK, RunBounds, SkipInv, NEW e \in Erasers, NEW c \in Chats, NEW x \in DOMAIN chat[c],
           EraseBlanks(e, c, x)
    PROVE  SkipInv'
<1>1. \A d \in Chats : \A i \in 1..Len(chat[d]) :
          chat'[d][i].msg = chat[d][i].msg /\ (chat[d][i].gone => chat'[d][i].gone)
  BY BlankIs DEF EraseBlanks
<1>2. Grows BY DEF EraseBlanks, Grows, history
<1>3. Sinks
  <2> SUFFICES ASSUME NEW d \in Chats, NEW i \in 1..Len(chat[d]), Meaningful(chat'[d], i)
               PROVE  \E j \in 1..i : Meaningful(chat[d], j) /\ chat[d][j].msg = chat'[d][i].msg
    BY DEF Sinks
  <2>1. i \in 1..i OBVIOUS
  <2>2. Meaningful(chat[d], i) BY <1>1 DEF Meaningful
  <2> QED BY <1>1, <2>1, <2>2
<1>4. PastCursor' BY <1>2, <1>3, PastKept DEF SkipInv, EraseBlanks, store
<1>5. AppliedKnown' BY <1>2, AppliedKept DEF SkipInv, EraseBlanks, store
<1>6. UNCHANGED <<run, slid>> BY DEF EraseBlanks, history
<1>7. ASSUME NEW r \in Runs
      PROVE  run'[r].pc = "called" => InPlace(r)'
  <2> SUFFICES ASSUME run[r].pc = "called", NEW i \in 1..Len(run[r].list), Meaningful(chat'[Of[r]], i)
               PROVE  \/ chat'[Of[r]][i].msg \in slid
                      \/ Meaningful(run[r].list, i) /\ run[r].list[i].msg = chat'[Of[r]][i].msg
    BY <1>6 DEF InPlace, Meaningful
  <2>1. Of[r] \in Chats /\ i \in 1..Len(chat[Of[r]])
    BY MemoryAssumption, LenProperties DEF RunBounds, TypeOK, Run
  <2>2. chat'[Of[r]][i].msg = chat[Of[r]][i].msg /\ Meaningful(chat[Of[r]], i)
    BY <1>1, <2>1 DEF Meaningful
  <2> QED BY <2>2 DEF SkipInv, BatchCovers, InPlace
<1>8. BatchCovers' BY <1>2, <1>3, <1>6, <1>7, BatchesKept DEF SkipInv, BatchCovers
<1> QED BY <1>4, <1>5, <1>8 DEF SkipInv

\* A reply moves what is below it down by one.
LEMMA AnswerMoves ==
    ASSUME TypeOK, NEW c \in Chats, NEW p \in 1..Len(chat[c]) + 1, Answers(c, p),
           NEW i \in 1..Len(chat[c]), Meaningful(chat'[c], i)
    PROVE  \/ i < p /\ chat'[c][i] = chat[c][i]
           \/ /\ i > p /\ i - 1 \in 1..Len(chat[c]) /\ chat'[c][i] = chat[c][i - 1]
              /\ chat[c][i - 1].msg \in Pushed(c, p)
<1>0. chat[c] \in Seq(Entry) /\ Len(chat[c]) \in Nat BY LenProperties DEF TypeOK
<1>1. chat'[c] = Inserted(chat[c], p) BY AnswerGrows
<1>2. CASE i < p
  <2>1. i \in 1..p - 1 BY <1>0, <1>2
  <2> QED BY <1>0, <1>1, <1>2, <2>1, InsertedIs
<1>3. CASE i = p
  <2>1. chat'[c][i] = [msg |-> Omi, gone |-> FALSE] BY <1>0, <1>1, <1>3, InsertedIs
  <2> QED BY <2>1 DEF Meaningful
<1>4. CASE i > p
  <2>1. i \in p + 1..Len(chat[c]) + 1 /\ i - 1 \in 1..Len(chat[c]) BY <1>0, <1>4
  <2>2. chat'[c][i] = chat[c][i - 1] BY <1>0, <1>1, <2>1, InsertedIs
  <2> DEFINE tail == SubSeq(chat[c], p, Len(chat[c]))
  <2>3. i - p \in DOMAIN tail /\ tail[i - p] = chat[c][i - 1]
    <3>1. \A j \in p..Len(chat[c]) : chat[c][j] \in Entry BY <1>0, ElementOfSeq
    <3>2. /\ tail \in Seq(Entry)
          /\ Len(tail) = IF p <= Len(chat[c]) THEN Len(chat[c]) - p + 1 ELSE 0
          /\ \A j \in 1..Len(chat[c]) - p + 1 : tail[j] = chat[c][p + j - 1]
      BY <1>0, <3>1, SubSeqProperties
    <3> HIDE DEF tail
    <3>3. DOMAIN tail = 1..Len(tail) BY <3>2, LenProperties
    <3>4. i - p \in 1..Len(chat[c]) - p + 1 /\ p + (i - p) - 1 = i - 1 /\ p <= Len(chat[c])
      BY <1>0, <1>4
    <3>5. tail[i - p] = chat[c][p + (i - p) - 1] BY <3>2, <3>4
    <3> QED BY <3>2, <3>3, <3>4, <3>5
  <2> HIDE DEF tail
  <2>4. chat[c][i - 1].msg \in Users(tail) BY <2>2, <2>3 DEF Users, Meaningful
  <2> QED BY <1>4, <2>1, <2>2, <2>4 DEF Pushed, tail
<1> QED BY <1>0, <1>2, <1>3, <1>4

LEMMA SkipStill ==
    ASSUME SkipInv, UNCHANGED <<chat, cursor, applied, run, lessons, passed, slid>>
    PROVE  SkipInv'
<1>1. PastCursor' BY DEF SkipInv, PastCursor, Accounted, Known
<1>2. AppliedKnown' BY DEF SkipInv, AppliedKnown
<1>3. BatchCovers' BY DEF SkipInv, BatchCovers, InPlace, Covers, Accounted, Known
<1> QED BY <1>1, <1>2, <1>3 DEF SkipInv

\* A message a reply pushes down is noted when a run waits with the list it was in.
LEMMA SkipReply == ASSUME TypeOK, RunBounds, SkipInv, NEW c \in Chats, Reply(c) PROVE SkipInv'
<1>1. UNCHANGED <<cursor, applied, lessons, passed>> BY ReplyMoves DEF store
<1>2. CASE UNCHANGED <<chat, flush, run, again, slid>>
  BY <1>1, <1>2, SkipStill
<1>3. ASSUME NEW p \in 1..Len(chat[c]) + 1, Answers(c, p) PROVE SkipInv'
  <2>1. /\ chat' \in [Chats -> Seq(Entry)] /\ \A d \in Chats : d # c => chat'[d] = chat[d]
        /\ slid' = slid \union PushedInList(c, p)
    BY <1>3, AnswerGrows DEF Answers
  <2>2. Grows BY <1>1, <2>1 DEF Grows
  <2>3. Sinks
    <3> SUFFICES ASSUME NEW d \in Chats, NEW i \in 1..Len(chat[d]), Meaningful(chat'[d], i)
                 PROVE  \E j \in 1..i : Meaningful(chat[d], j) /\ chat[d][j].msg = chat'[d][i].msg
      BY DEF Sinks
    <3>1. i \in 1..i /\ (i - 1 \in 1..Len(chat[d]) => i - 1 \in 1..i) OBVIOUS
    <3>2. CASE d # c BY <2>1, <3>1, <3>2
    <3>3. CASE d = c BY <1>3, <3>1, <3>3, AnswerMoves DEF Meaningful
    <3> QED BY <3>2, <3>3
  <2>4. PastCursor' BY <1>1, <2>2, <2>3, PastKept DEF SkipInv
  <2>5. AppliedKnown' BY <1>1, <2>2, AppliedKept DEF SkipInv
  <2>6. ASSUME NEW r \in Runs, run'[r] = run[r], run[r].pc = "called" PROVE InPlace(r)'
    <3> SUFFICES ASSUME NEW i \in 1..Len(run[r].list), Meaningful(chat'[Of[r]], i)
                 PROVE  \/ chat'[Of[r]][i].msg \in slid'
                        \/ Meaningful(run[r].list, i) /\ run[r].list[i].msg = chat'[Of[r]][i].msg
      BY <2>6 DEF InPlace, Meaningful
    <3>0. /\ run[r].list \in Seq(Entry) /\ Len(run[r].list) \in Nat /\ Len(chat[Of[r]]) \in Nat
          /\ Len(run[r].list) <= Len(chat[Of[r]])
      BY MemoryAssumption, LenProperties DEF TypeOK, Run, RunBounds
    <3>1. InPlace(r) BY <2>6 DEF SkipInv, BatchCovers
    <3>2. CASE chat'[Of[r]][i] = chat[Of[r]][i]
      BY <2>1, <3>1, <3>2 DEF InPlace, Meaningful
    <3>3. CASE /\ Of[r] = c /\ i > p /\ i - 1 \in 1..Len(chat[c])
               /\ chat'[c][i] = chat[c][i - 1] /\ chat[c][i - 1].msg \in Pushed(c, p)
      <4>1. i - 1 \in 1..Len(run[r].list) BY <3>0, <3>3
      <4>2. Meaningful(chat[c], i - 1) BY <3>3 DEF Meaningful
      <4>3. CASE chat[c][i - 1].msg \in slid BY <2>1, <3>3, <4>3
      <4>4. CASE Meaningful(run[r].list, i - 1) /\ run[r].list[i - 1].msg = chat[c][i - 1].msg
        <5>1. i - 1 \in DOMAIN run[r].list BY <3>0, <4>1, LenProperties
        <5>2. chat[c][i - 1].msg \in Users(run[r].list) BY <4>4, <5>1 DEF Users, Meaningful
        <5>3. chat[c][i - 1].msg \in PushedInList(c, p) BY <2>6, <3>3, <5>2 DEF PushedInList
        <5> QED BY <2>1, <3>3, <5>3
      <4> QED BY <3>1, <3>3, <4>1, <4>2, <4>3, <4>4 DEF InPlace
    <3>4. CASE Of[r] # c
      <4>1. Of[r] \in Chats BY MemoryAssumption
      <4> QED BY <2>1, <3>2, <3>4, <4>1
    <3>5. CASE Of[r] = c
      <4>1. i \in 1..Len(chat[c]) BY <3>0, <3>5
      <4> QED BY <1>3, <3>2, <3>3, <3>5, <4>1, AnswerMoves
    <3> QED BY <3>4, <3>5
  <2>7. ASSUME NEW r \in Runs, run'[r] = run[r] \/ Begins(r)
        PROVE  /\ run'[r].pc = "called" => InPlace(r)'
               /\ \A k \in run'[r].batch :
                      /\ Covers(r, k)'
                      /\ run'[r].pc \in {"applied", "written"} => \A m \in Heard(k) : Known(m)'
    <3>1. CASE run'[r] = run[r] BY <2>2, <2>3, <2>6, <3>1, BatchesKept DEF SkipInv
    <3>2. CASE Begins(r)
      <4>1. InPlace(r)' BY <3>2, InPlaceNow
      <4> QED BY <3>2, <4>1 DEF Begins
    <3> QED BY <2>7, <3>1, <3>2
  <2>8. \A r \in Runs : run'[r] = run[r] \/ Begins(r)
    BY <1>3 DEF Answers, OnlyRun
  <2>9. BatchCovers' BY <2>7, <2>8 DEF BatchCovers
  <2> QED BY <2>4, <2>5, <2>9 DEF SkipInv
<1> QED BY <1>2, <1>3, ReplyMoves

\* A flush job reads the list as it is.
LEMMA SkipFlush ==
    ASSUME TypeOK, RunBounds, SkipInv, NEW j \in Jobs, StartFlush(j) \/ ReportFlush(j)
    PROVE  SkipInv'
<1>0. j \in Runs /\ run \in [Runs -> Run] BY DEF Runs, TypeOK
<1>1. UNCHANGED <<chat, cursor, applied, lessons, passed, slid>>
  <2>1. CASE StartFlush(j) BY <2>1 DEF StartFlush, store, history
  <2>2. CASE ReportFlush(j) BY <2>2 DEF ReportFlush, store
  <2> QED BY <2>1, <2>2
<1>2. Grows BY <1>1 DEF Grows
<1>3. CASE UNCHANGED run BY <1>1, <1>3, SkipStill
<1>4. CASE OnlyRun(j) /\ (Begins(j) \/ Ended(j))
  <2>1. run'[j].batch = {} /\ (run'[j].pc = "called" => InPlace(j)')
    BY <1>0, <1>4, InPlaceNow DEF Begins, Ended
  <2>2. BatchCovers' BY <1>0, <1>1, <1>2, <1>4, <2>1, OthersCovered
  <2>3. PastCursor' /\ AppliedKnown'
    BY <1>1, <1>2, SinksStill, PastKept, AppliedKept DEF SkipInv
  <2> QED BY <2>2, <2>3 DEF SkipInv
<1>5. StartFlush(j) => UNCHANGED run \/ (OnlyRun(j) /\ Begins(j)) BY StartMoves
<1>6. ReportFlush(j) => OnlyRun(j) /\ Ended(j) BY <1>0, IdleEnds DEF ReportFlush, Ended
<1> QED BY <1>3, <1>4, <1>5, <1>6

\* What the list holds after the cursor is in the batch, up to its end.
LEMMA PickCovers ==
    ASSUME TypeOK, RunBounds, SkipInv, NEW r \in Runs, run[r].pc = "called",
           Pending(run[r].list, cursor[Of[r]].through) # {}
    PROVE  Covers(r, NextBatch(Of[r], run[r].list, cursor[Of[r]].through))
<1> DEFINE c == Of[r]
           list == run[r].list
           t == cursor[c].through
           k == NextBatch(c, list, t)
<1>0. /\ c \in Chats /\ list \in Seq(Entry) /\ t \in Nat
      /\ Len(list) \in Nat /\ Len(chat[c]) \in Nat /\ Len(list) <= Len(chat[c])
  BY MemoryAssumption, LenProperties DEF TypeOK, Run, Cursor, RunBounds
<1>1. /\ k \in Batch /\ LastIndex(k) \in Nat /\ t <= LastIndex(k) /\ LastIndex(k) <= Len(list)
      /\ Len(k.rows) = LastIndex(k) - t
      /\ \A i \in t + 1..LastIndex(k) : k.rows[i - t] = list[i]
  BY <1>0, NextBatchIs
<1>2. DOMAIN k.rows = 1..Len(k.rows) BY <1>1, LenProperties DEF Batch
<1> SUFFICES ASSUME NEW i \in 1..LastIndex(k), Meaningful(chat[c], i)
             PROVE  Accounted(chat[c][i].msg) \/ chat[c][i].msg \in Heard(k)
    BY DEF Covers
<1> HIDE DEF k
<1>3. i \in 1..Len(chat[c]) /\ i \in 1..Len(list) BY <1>0, <1>1
<1>4. CASE i <= t
  BY <1>0, <1>3, <1>4 DEF SkipInv, PastCursor
<1>5. CASE ~(i <= t)
  <2>1. i \in t + 1..LastIndex(k) /\ i - t \in 1..Len(k.rows) BY <1>0, <1>1, <1>5
  <2>2. k.rows[i - t] = list[i] BY <1>1, <2>1
  <2>3. chat[c][i].msg \in slid \/ (Meaningful(list, i) /\ list[i].msg = chat[c][i].msg)
    BY <1>3 DEF SkipInv, BatchCovers, InPlace
  <2>4. ASSUME Meaningful(list, i), list[i].msg = chat[c][i].msg PROVE chat[c][i].msg \in Heard(k)
    <3>1. Meaningful(k.rows, i - t) /\ k.rows[i - t].msg = chat[c][i].msg
      BY <2>2, <2>4 DEF Meaningful
    <3> QED BY <1>2, <2>1, <3>1 DEF Heard
  <2> QED BY <2>3, <2>4 DEF Accounted
<1> QED BY <1>4, <1>5

LEMMA SkipPick == ASSUME TypeOK, RunBounds, SkipInv, NEW r \in Runs, PickBatch(r) PROVE SkipInv'
<1> DEFINE k == NextBatch(Of[r], run[r].list, cursor[Of[r]].through)
<1>1. UNCHANGED <<chat, cursor, applied, lessons, passed, slid>> /\ run[r].pc = "called"
  BY DEF PickBatch, store, history
<1>2. Grows BY <1>1 DEF Grows
<1>3. PastCursor' /\ AppliedKnown'
  BY <1>1, <1>2, SinksStill, PastKept, AppliedKept DEF SkipInv
<1>4. CASE Ended(r)
  <2>1. BatchCovers' BY <1>1, <1>2, <1>4, OthersCovered DEF Ended
  <2> QED BY <1>3, <2>1 DEF SkipInv
<1>5. CASE Picks(r)
  <2>1. OnlyRun(r) /\ run'[r].pc = "picked" /\ run'[r].batch = {k} BY <1>5 DEF Picks
  <2>2. Covers(r, k) BY <1>1, <1>5, PickCovers DEF Picks
  <2> HIDE DEF k
  <2>3. ASSUME NEW l, l = k PROVE Covers(r, l)'
    <3>1. Covers(r, l) BY <2>2, <2>3
    <3> QED BY <1>1, <3>1 DEF Covers, Accounted, Known
  <2>4. BatchCovers' BY <1>1, <1>2, <2>1, <2>3, OthersCovered
  <2> QED BY <1>3, <2>4 DEF SkipInv
<1> QED BY <1>4, <1>5, PickMoves

\* What a run step tells of messages.
LEMMA RunStepGrows ==
    ASSUME TypeOK, NEW r \in Runs, RunStep(r)
    PROVE  Grows
<1>1. UNCHANGED slid BY OverlapStays
<1>2. CASE ApplyMemories(r)
  <2>1. \A m \in Messages : lessons[m] > 0 => lessons'[m] > 0
    <3>1. \A m \in Messages : lessons[m] \in 0..2 BY DEF TypeOK
    <3>2. PICK k : UNCHANGED lessons \/ lessons' = [m \in Messages |-> IF m \in Heard(k) /\ lessons[m] < 2
                                                                      THEN lessons[m] + 1 ELSE lessons[m]]
      BY <1>2 DEF ApplyMemories
    <3> QED BY <3>1, <3>2
  <2> QED BY <1>1, <1>2, <2>1 DEF ApplyMemories, Grows
<1>3. CASE SkipBatch(r) BY <1>1, <1>3 DEF SkipBatch, Grows
<1>4. CASE HoldUser(r) \/ Release(r) BY <1>4 DEF HoldUser, Release, history, Grows
<1>5. CASE ClaimBatch(r) \/ ReadInputs(r) \/ SaveExtras(r) \/ CountFailure(r)
  BY <1>5 DEF ClaimBatch, ReadInputs, SaveExtras, CountFailure, history, Grows
<1>6. CASE Outage(r) \/ BadContent(r) BY <1>6 DEF Outage, BadContent, history, Grows
<1>7. CASE SaveCursor(r) \/ WriteFails(r) \/ Crash(r)
  BY <1>7 DEF SaveCursor, WriteFails, Crash, Grows
<1> QED BY <1>2, <1>3, <1>4, <1>5, <1>6, <1>7 DEF RunStep

\* The messages of a batch are known when its cursor is saved.
LEMMA SavedPast ==
    ASSUME TypeOK, RunBounds, SkipInv, Grows, UNCHANGED chat,
           NEW r \in Runs, NEW k \in run[r].batch, NEW v \in Nat, SaveState(k, v),
           \A m \in Heard(k) : Known(m)'
    PROVE  PastCursor'
<1>0. /\ Of[r] \in Chats /\ LastIndex(k) \in Nat /\ LastIndex(k) <= Len(chat[Of[r]])
      /\ cursor \in [Chats -> Cursor]
  BY MemoryAssumption, SeenTyped, BatchTyped DEF RunBounds, TypeOK
<1>1. CASE UNCHANGED cursor BY <1>1, SinksStill, PastKept DEF SkipInv
<1>2. ASSUME NEW x \in Cursor, x.through = LastIndex(k), cursor' = [cursor EXCEPT ![Of[r]] = x]
      PROVE  PastCursor'
  <2> SUFFICES ASSUME NEW c \in Chats, NEW i \in 1..Len(chat[c]),
                      i <= cursor'[c].through, Meaningful(chat[c], i)
               PROVE  AccountedNext(chat[c][i].msg)
      BY DEF PastCursor, Meaningful, Accounted, AccountedNext, Known
  <2>1. chat[c][i].msg \in Messages BY SaidTyped
  <2>2. CASE c # Of[r]
    <3>1. cursor'[c] = cursor[c] BY <1>0, <1>2, <2>2
    <3> QED BY <2>1, <3>1, AccountedGrows DEF SkipInv, PastCursor
  <2>3. CASE c = Of[r]
    <3>1. cursor'[c].through = LastIndex(k) BY <1>0, <1>2, <2>3
    <3>2. i \in 1..LastIndex(k) BY <1>0, <3>1
    <3>3. Covers(r, k) BY DEF SkipInv, BatchCovers
    <3>4. Accounted(chat[c][i].msg) \/ chat[c][i].msg \in Heard(k)
      BY <2>3, <3>2, <3>3 DEF Covers
    <3>5. ASSUME NEW m \in Heard(k) PROVE AccountedNext(m)
      BY DEF AccountedNext, Known
    <3> QED BY <2>1, <3>4, <3>5, AccountedGrows
  <2> QED BY <2>2, <2>3
<1> QED BY <1>1, <1>2, SaveIs

LEMMA SkipRunStep == ASSUME TypeOK, RunBounds, SkipInv, NEW r \in Runs, RunStep(r) PROVE SkipInv'
<1>1. RunMoves(r) /\ UNCHANGED <<chat, slid>> BY RunStepMoves, OverlapStays
<1>2. Grows BY RunStepGrows
<1>3. PastCursor'
  <2>1. CASE UNCHANGED cursor BY <1>1, <1>2, <2>1, SinksStill, PastKept DEF SkipInv
  <2>2. ASSUME SaveCursor(r), ~UNCHANGED cursor PROVE PastCursor'
    <3>1. PICK k \in run[r].batch : SaveState(k, run[r].seen.version)
      BY <2>2 DEF SaveCursor
    <3>2. \A m \in Heard(k) : Known(m) BY <2>2 DEF SaveCursor, SkipInv, BatchCovers
    <3>3. \A m \in Heard(k) : Known(m)' BY <2>2, <3>2 DEF SaveCursor, Known
    <3> QED BY <1>1, <1>2, <3>1, <3>3, SavedPast, SeenTyped
  <2>3. ASSUME SkipBatch(r), ~UNCHANGED cursor PROVE PastCursor'
    <3>1. PICK k \in run[r].batch : SaveState(k, run[r].seen.version) /\ passed' = passed \union Heard(k)
      BY <2>3 DEF SkipBatch
    <3>2. \A m \in Heard(k) : Known(m)' BY <3>1 DEF Known
    <3> QED BY <1>1, <1>2, <3>1, <3>2, SavedPast, SeenTyped
  <2>4. SaveCursor(r) \/ SkipBatch(r) \/ UNCHANGED cursor
    <3>1. CASE HoldUser(r) \/ Release(r) BY <3>1 DEF HoldUser, Release, store
    <3>2. CASE ClaimBatch(r) \/ ReadInputs(r) \/ SaveExtras(r)
      BY <3>2 DEF ClaimBatch, ReadInputs, SaveExtras, store
    <3>3. CASE Outage(r) \/ BadContent(r) BY <3>3 DEF Outage, BadContent, store
    <3>4. CASE ApplyMemories(r) \/ CountFailure(r) BY <3>4 DEF ApplyMemories, CountFailure
    <3>5. CASE WriteFails(r) \/ Crash(r) BY <3>5 DEF WriteFails, Crash, store
    <3> QED BY <3>1, <3>2, <3>3, <3>4, <3>5 DEF RunStep
  <2> QED BY <2>1, <2>2, <2>3, <2>4
<1>4. ASSUME ApplyMemories(r) PROVE AppliedKnown' /\ \A k \in run[r].batch : \A m \in Heard(k) : lessons'[m] > 0
  <2>1. PICK k \in run[r].batch :
          \/ k \in applied /\ UNCHANGED <<applied, lessons>>
          \/ /\ applied' = applied \union {k}
             /\ lessons' = [m \in Messages |-> IF m \in Heard(k) /\ lessons[m] < 2
                                               THEN lessons[m] + 1 ELSE lessons[m]]
    BY <1>4 DEF ApplyMemories
  <2>2. \A l \in run[r].batch : l = k BY DEF RunBounds
  <2>3. Heard(k) \subseteq Messages BY SeenTyped, BatchTyped
  <2>4. CASE k \in applied /\ UNCHANGED <<applied, lessons>>
    BY <2>2, <2>4 DEF SkipInv, AppliedKnown
  <2>5. CASE /\ applied' = applied \union {k}
             /\ lessons' = [m \in Messages |-> IF m \in Heard(k) /\ lessons[m] < 2
                                               THEN lessons[m] + 1 ELSE lessons[m]]
    <3>1. \A m \in Messages : lessons[m] \in 0..2 BY DEF TypeOK
    <3>2. \A m \in Heard(k) : lessons'[m] > 0 BY <2>3, <2>5, <3>1
    <3>3. \A l \in applied : Heard(l) \subseteq Messages BY BatchTyped DEF TypeOK
    <3>4. AppliedKnown' BY <1>2, <2>5, <3>2, <3>3 DEF SkipInv, AppliedKnown, Grows
    <3> QED BY <2>2, <3>2, <3>4
  <2> QED BY <2>1, <2>4, <2>5
<1>5. AppliedKnown'
  <2>1. CASE ApplyMemories(r) BY <1>4, <2>1
  <2>2. CASE UNCHANGED applied BY <1>2, <2>2, AppliedKept DEF SkipInv
  <2>3. ApplyMemories(r) \/ UNCHANGED applied
    <3>1. CASE HoldUser(r) \/ Release(r) BY <3>1 DEF HoldUser, Release, store
    <3>2. CASE ClaimBatch(r) \/ ReadInputs(r) \/ SaveExtras(r)
      BY <3>2 DEF ClaimBatch, ReadInputs, SaveExtras, store
    <3>3. CASE Outage(r) \/ BadContent(r) BY <3>3 DEF Outage, BadContent, store
    <3>4. CASE SaveCursor(r) \/ SkipBatch(r) \/ CountFailure(r) BY <3>4 DEF SaveCursor, SkipBatch, CountFailure
    <3>5. CASE WriteFails(r) \/ Crash(r) BY <3>5 DEF WriteFails, Crash, store
    <3> QED BY <3>1, <3>2, <3>3, <3>4, <3>5 DEF RunStep
  <2> QED BY <2>1, <2>2, <2>3
<1>6. /\ OnlyRun(r) /\ run'[r].batch \subseteq run[r].batch /\ run'[r].pc # "called"
      /\ run'[r].pc \in {"applied", "written"} => ApplyMemories(r) \/ SaveExtras(r)
  BY <1>1 DEF RunMoves, Ended, Keeps
<1>7. run'[r].pc \in {"applied", "written"} =>
          \/ run[r].pc \in {"applied", "written"}
          \/ \A k \in run[r].batch : \A m \in Heard(k) : lessons'[m] > 0
  BY <1>4, <1>6 DEF SaveExtras
<1>8. BatchCovers'
  BY <1>1, <1>2, <1>6, <1>7, SinksStill, BatchesKept, OthersCovered DEF SkipInv
<1> QED BY <1>3, <1>5, <1>8 DEF SkipInv

\* Deleting sends a cursor back to the beginning.
LEMMA SkipForget ==
    ASSUME TypeOK, RunBounds, SkipInv, NEW e \in Erasers, EraseForgets(e)
    PROVE  SkipInv'
<1>1. PICK c \in erase[e].chat :
        /\ cursor' = [cursor EXCEPT ![c] = NoCursor]
        /\ applied' = {k \in applied : k.chat # c}
        /\ UNCHANGED <<chat, run, lessons, passed, slid>>
  BY DEF EraseForgets
<1>2. AppliedKnown' BY <1>1 DEF SkipInv, AppliedKnown
<1>3. BatchCovers' BY <1>1 DEF SkipInv, BatchCovers, InPlace, Covers, Accounted, Known
<1>4. PastCursor'
  <2> SUFFICES ASSUME NEW d \in Chats, NEW i \in 1..Len(chat[d]),
                      i <= cursor'[d].through, Meaningful(chat[d], i)
               PROVE  Accounted(chat[d][i].msg)
    BY <1>1 DEF PastCursor, Accounted, Known
  <2>1. NoCursor.through = 0 /\ ~(i <= 0) BY DEF NoCursor
  <2>2. cursor \in [Chats -> Cursor] BY DEF TypeOK
  <2>3. CASE d = c BY <1>1, <2>1, <2>2, <2>3
  <2>4. CASE d # c
    <3>1. cursor'[d] = cursor[d] BY <1>1, <2>2, <2>4
    <3> QED BY <3>1 DEF SkipInv, PastCursor
  <2> QED BY <2>3, <2>4
<1> QED BY <1>2, <1>3, <1>4 DEF SkipInv

LEMMA SkipStep == TypeOK /\ RunBounds /\ SkipInv /\ [Next]_vars => SkipInv'
<1> SUFFICES ASSUME TypeOK, RunBounds, SkipInv, [Next]_vars PROVE SkipInv'
    OBVIOUS
<1>1. ASSUME NEW c \in Chats, Draft(c) \/ CatchUp(c) PROVE SkipInv'
  BY <1>1, SkipStill DEF Draft, CatchUp, store, history
<1>2. CASE LeaseExpires BY <1>2, SkipStill DEF LeaseExpires, store, history
<1>3. CASE UNCHANGED vars BY <1>3, SkipStill DEF vars, store, history
<1>4. ASSUME NEW r \in Runs, Overrun(r) PROVE SkipInv'
  BY <1>4, SkipStill DEF Overrun, store
<1>5. ASSUME NEW r \in Runs,
             \/ RunSteps(r) \/ Outage(r) \/ BadContent(r) \/ WriteFails(r) \/ Crash(r) \/ Overrun(r)
      PROVE  SkipInv'
  BY <1>4, <1>5, SkipPick, SkipRunStep DEF RunSteps, RunStep
<1>6. ASSUME NEW e \in Erasers, EraseAsks(e) PROVE SkipInv'
  BY <1>6, SkipStill DEF EraseAsks, store, history
<1>7. CASE \E e \in Erasers : \/ \E c \in Chats : \E i \in DOMAIN chat[c] : EraseBlanks(e, c, i)
                              \/ EraseForgets(e) \/ EraseAsks(e)
  BY <1>6, <1>7, SkipBlank, SkipForget
<1>8. CASE \E c \in Chats : Say(c) \/ Draft(c) \/ Reply(c) \/ CatchUp(c)
  BY <1>1, <1>8, SkipSay, SkipReply
<1>9. CASE \E j \in Jobs : StartFlush(j) \/ ReportFlush(j)
  BY <1>9, SkipFlush
<1> QED BY <1>2, <1>3, <1>5, <1>7, <1>8, <1>9 DEF Next

LEMMA SkipInit == Init => SkipInv
<1> SUFFICES ASSUME Init PROVE SkipInv
    OBVIOUS
<1>1. \A c \in Chats : chat[c] = <<>> /\ Len(<<>>) = 0 BY EmptySeq DEF Init
<1>2. IdleRun.pc = "idle" /\ IdleRun.batch = {} BY DEF IdleRun
<1>3. PastCursor BY <1>1 DEF PastCursor
<1>4. AppliedKnown BY DEF Init, AppliedKnown
<1>5. BatchCovers BY <1>2 DEF Init, BatchCovers
<1> QED BY <1>3, <1>4, <1>5 DEF SkipInv

\* The cursor passes over no message unread: what stands before it was in an
\* applied batch, or in one skipped after failures, or was pushed down by a
\* reply while a run waited with the list it had read
\* (_batch_end_index, save_memory_processing_state, run_memory_flush_job).
THEOREM NothingSkipped == Spec => []NoneSkipped
<1>1. Init => TypeOK /\ RunBounds /\ SkipInv
  BY TypeInit, SkipInit
<1>2. TypeOK /\ RunBounds /\ SkipInv /\ [Next]_vars => (TypeOK /\ RunBounds /\ SkipInv)'
  BY TypeStep, SkipStep
<1>3. TypeOK /\ SkipInv => NoneSkipped
  <2> SUFFICES ASSUME TypeOK, SkipInv, NEW m \in Skipped PROVE m \in slid
    BY DEF NoneSkipped
  <2>1. PICK c \in Chats : \E i \in DOMAIN chat[c] :
            /\ i <= cursor[c].through /\ Meaningful(chat[c], i)
            /\ chat[c][i].msg = m /\ ~Known(m)
    BY DEF Skipped
  <2>2. DOMAIN chat[c] = 1..Len(chat[c]) BY LenProperties DEF TypeOK
  <2> QED BY <2>1, <2>2 DEF SkipInv, PastCursor, Accounted
<1> QED BY <1>1, <1>2, <1>3, PTL DEF Spec

-----------------------------------------------------------------------------
(* Where a message is.                                                     *)

\* The places of what the user wrote.
Mine(c) == {i \in 1..Len(chat[c]) : chat[c][i].msg # Omi}

\* A message is written once, and numbered within its chat.
OneSpot == \A c \in Chats : \A i, j \in Mine(c) : chat[c][i].msg = chat[c][j].msg => i = j

Counted == \A c \in Chats : \A i \in Mine(c) : chat[c][i].msg \in {c} \X (1..Cardinality(Mine(c)))

Spots == OneSpot /\ Counted

\* A message is at place i of its chat or below, and still there unless a
\* reply has pushed it down or the chat was forgotten.
Lasts(c, i, m) == \E j \in i..Len(chat[c]) : chat[c][j].msg = m

Stays(c, i, m) == m \in again \/ chat[c][i].msg = m

Listed(r) ==
    \A i \in 1..Len(run[r].list) :
        run[r].list[i].msg # Omi =>
            /\ Lasts(Of[r], i, run[r].list[i].msg)
            /\ Stays(Of[r], i, run[r].list[i].msg)

\* A batch is the part of the run's list after the cursor it was picked with.
Cut(r) ==
    \A k \in run[r].batch :
        /\ run[r].pc \in {"picked", "held"} => k.from = run[r].seen.through + 1
        /\ \A i \in 1..Len(k.rows) :
               /\ k.from + i - 1 \in 1..Len(run[r].list)
               /\ run[r].list[k.from + i - 1] = k.rows[i]

Lists == \A r \in Runs : Listed(r) /\ Cut(r)

\* What the user wrote stays in its chat, at its place or pushed down from it.
Moves ==
    \A c \in Chats : \A i \in Mine(c) : \E j \in i..Len(chat'[c]) :
        /\ chat'[c][j].msg = chat[c][i].msg
        /\ j = i \/ chat[c][i].msg \in again'

\* What was not deleted is still not deleted.
Stands == \A c \in Chats : \A m \in Messages : Standing(c, m) => Standing(c, m)'

LEMMA ChatTyped ==
    ASSUME TypeOK, NEW c \in Chats
    PROVE  /\ chat[c] \in Seq(Entry) /\ Len(chat[c]) \in Nat
           /\ DOMAIN chat[c] = 1..Len(chat[c])
           /\ IsFiniteSet(Mine(c)) /\ Cardinality(Mine(c)) \in Nat
<1>1. chat[c] \in Seq(Entry) /\ Len(chat[c]) \in Nat /\ DOMAIN chat[c] = 1..Len(chat[c])
  BY LenProperties DEF TypeOK
<1>2. IsFiniteSet(1..Len(chat[c])) BY <1>1, FS_Interval
<1>3. IsFiniteSet(Mine(c)) BY <1>2, FS_Subset DEF Mine
<1>4. Cardinality(Mine(c)) \in Nat BY <1>3, FS_CardinalityType
<1> QED BY <1>1, <1>3, <1>4

\* A list that is left alone.
LEMMA SameList ==
    ASSUME TypeOK, NEW c \in Chats, chat'[c] = chat[c], Spots
    PROVE  /\ Mine(c)' = Mine(c)
           /\ \A i, j \in Mine(c)' : chat'[c][i].msg = chat'[c][j].msg => i = j
           /\ \A i \in Mine(c)' : chat'[c][i].msg \in {c} \X (1..Cardinality(Mine(c)'))
           /\ \A i \in Mine(c) : \E j \in i..Len(chat'[c]) :
                 chat'[c][j].msg = chat[c][i].msg /\ j = i
           /\ \A m : Standing(c, m) => Standing(c, m)'
<1>1. Mine(c)' = Mine(c) BY DEF Mine
<1>2. \A i \in Mine(c) : i \in i..Len(chat'[c]) BY ChatTyped DEF Mine
<1>3. \A m : Standing(c, m) => Standing(c, m)' BY DEF Standing
<1> QED BY <1>1, <1>2, <1>3 DEF Spots, OneSpot, Counted

LEMMA MovesStill ==
    ASSUME TypeOK, Spots, UNCHANGED chat
    PROVE  Spots' /\ Moves /\ Stands
<1>1. \A c \in Chats : chat'[c] = chat[c] OBVIOUS
<1>2. OneSpot' /\ Counted' BY <1>1, SameList DEF OneSpot, Counted
<1>3. Moves BY <1>1, SameList DEF Moves
<1>4. Stands BY <1>1, SameList DEF Stands
<1> QED BY <1>2, <1>3, <1>4 DEF Spots

\* A new message comes last, with the next number.
LEMMA MovesSay ==
    ASSUME TypeOK, Spots, NEW c \in Chats, Say(c)
    PROVE  Spots' /\ Moves /\ Stands
<1> DEFINE n == Cardinality(Mine(c)) + 1
           e == [msg |-> <<c, n>>, gone |-> FALSE]
<1>0. /\ chat \in [Chats -> Seq(Entry)] /\ chat[c] \in Seq(Entry) /\ Len(chat[c]) \in Nat
      /\ IsFiniteSet(Mine(c)) /\ Cardinality(Mine(c)) \in Nat
      /\ DOMAIN chat[c] = 1..Len(chat[c])
  BY ChatTyped DEF TypeOK
<1>1. Mine(c) = {i \in DOMAIN chat[c] : chat[c][i].msg # Omi} BY <1>0 DEF Mine
<1>2. n <= Says[c] /\ chat' = [chat EXCEPT ![c] = Append(@, e)]
  BY <1>1 DEF Say
<1>3. n \in 1..Says[c] BY <1>0, <1>2, MemoryAssumption
<1>4. e \in Entry /\ e.msg = <<c, n>> /\ e.gone = FALSE BY <1>3 DEF Entry, Messages
<1> HIDE DEF e
<1>5. /\ chat'[c] = Append(chat[c], e) /\ \A d \in Chats : d # c => chat'[d] = chat[d]
  BY <1>0, <1>2
<1>6. /\ Len(chat'[c]) = Len(chat[c]) + 1
      /\ \A i \in 1..Len(chat[c]) : chat'[c][i] = chat[c][i]
      /\ chat'[c][Len(chat[c]) + 1] = e
  BY <1>0, <1>4, <1>5, AppendProperties
<1> DEFINE last == Len(chat[c]) + 1
<1>7. Mine(c)' = IF e.msg = Omi THEN Mine(c) ELSE Mine(c) \union {last}
  <2>1. \A i : i \in 1..last <=> i \in 1..Len(chat[c]) \/ i = last BY <1>0
  <2>2. last \notin 1..Len(chat[c]) BY <1>0
  <2> HIDE DEF last
  <2>3. Len(chat'[c]) = last /\ chat'[c][last] = e BY <1>6 DEF last
  <2>4. \A i : i \in Mine(c)' <=> i \in 1..last /\ chat'[c][i].msg # Omi BY <2>3 DEF Mine
  <2>5. \A i : i \in Mine(c) <=> i \in 1..Len(chat[c]) /\ chat[c][i].msg # Omi BY DEF Mine
  <2>6. \A i : i \in Mine(c)' <=> i \in Mine(c) \/ (i = last /\ e.msg # Omi)
    BY <1>6, <2>1, <2>2, <2>3, <2>4, <2>5
  <2> QED BY <2>6
<1>8. last \notin Mine(c) BY <1>0 DEF Mine
<1>9. /\ Cardinality(Mine(c)') \in Nat /\ Cardinality(Mine(c)) <= Cardinality(Mine(c)')
      /\ last \in Mine(c)' => n = Cardinality(Mine(c)')
  <2>1. Cardinality(Mine(c) \union {last}) = Cardinality(Mine(c)) + 1
    BY <1>0, <1>8, FS_AddElement
  <2> HIDE DEF last
  <2>2. CASE e.msg = Omi
    <3>1. Mine(c)' = Mine(c) BY <1>7, <2>2
    <3> QED BY <1>0, <1>8, <3>1
  <2>3. CASE e.msg # Omi
    <3>1. Mine(c)' = Mine(c) \union {last} BY <1>7, <2>3
    <3> QED BY <1>0, <2>1, <3>1
  <2> QED BY <2>2, <2>3
<1>10. \A i \in Mine(c)' : \/ i \in Mine(c) /\ chat'[c][i] = chat[c][i]
                           \/ i = last /\ chat'[c][i].msg = <<c, n>>
  BY <1>4, <1>6, <1>7 DEF Mine
<1>11. \A i \in Mine(c) : chat[c][i].msg \in {c} \X (1..Cardinality(Mine(c)))
  BY DEF Spots, Counted
<1>12. \A i \in Mine(c) : chat[c][i].msg # <<c, n>>
  <2> SUFFICES ASSUME NEW i \in Mine(c), chat[c][i].msg = <<c, n>> PROVE FALSE
    OBVIOUS
  <2>1. n \in 1..Cardinality(Mine(c)) BY <1>11
  <2> QED BY <1>0, <2>1
<1>13. \A i, j \in Mine(c)' : chat'[c][i].msg = chat'[c][j].msg => i = j
  <2> HIDE DEF last, n
  <2> QED BY <1>10, <1>12 DEF Spots, OneSpot
<1>14. \A i \in Mine(c)' : chat'[c][i].msg \in {c} \X (1..Cardinality(Mine(c)'))
  <2> SUFFICES ASSUME NEW i \in Mine(c)' PROVE chat'[c][i].msg \in {c} \X (1..Cardinality(Mine(c)'))
    OBVIOUS
  <2>1. CASE i \in Mine(c) /\ chat'[c][i] = chat[c][i]
    <3>1. 1..Cardinality(Mine(c)) \subseteq 1..Cardinality(Mine(c)') BY <1>0, <1>9
    <3> QED BY <1>11, <2>1, <3>1
  <2>2. CASE i = last /\ chat'[c][i].msg = <<c, n>>
    <3>1. n \in 1..Cardinality(Mine(c)') BY <1>0, <1>9, <2>2
    <3> QED BY <2>2, <3>1
  <2> QED BY <1>10, <2>1, <2>2
<1>15. \A i \in Mine(c) : i \in i..Len(chat'[c]) /\ chat'[c][i].msg = chat[c][i].msg
  BY <1>0, <1>6 DEF Mine
<1>16. \A m : Standing(c, m) => Standing(c, m)'
  <2> SUFFICES ASSUME NEW m, Standing(c, m) PROVE Standing(c, m)'
    OBVIOUS
  <2>1. PICK i \in 1..Len(chat[c]) : chat[c][i].msg = m /\ ~chat[c][i].gone
    BY <1>0 DEF Standing
  <2>2. DOMAIN chat'[c] = 1..Len(chat'[c]) BY <1>0, <1>4, <1>5, AppendProperties, LenProperties
  <2>3. i \in DOMAIN chat'[c] BY <1>0, <1>6, <2>2
  <2> QED BY <1>6, <2>1, <2>3 DEF Standing
<1>17. OneSpot' BY <1>5, <1>13, SameList DEF OneSpot
<1>18. Counted' BY <1>5, <1>14, SameList DEF Counted
<1>19. Moves
  <2> SUFFICES ASSUME NEW d \in Chats, NEW i \in Mine(d)
               PROVE  \E j \in i..Len(chat'[d]) : chat'[d][j].msg = chat[d][i].msg /\ j = i
    BY DEF Moves
  <2>1. CASE d = c BY <1>15, <2>1
  <2>2. CASE d # c BY <1>5, <2>2, SameList
  <2> QED BY <2>1, <2>2
<1>20. Stands BY <1>5, <1>16, SameList DEF Stands
<1> QED BY <1>17, <1>18, <1>19, <1>20 DEF Spots

\* A reply takes place p, and what was there or below moves down by one.
Below(i, p) == IF i < p THEN i ELSE i + 1

LEMMA AnswerPlaces ==
    ASSUME TypeOK, NEW c \in Chats, NEW p \in 1..Len(chat[c]) + 1, Answers(c, p)
    PROVE  /\ \A i \in 1..Len(chat[c]) :
                /\ Below(i, p) \in i..Len(chat'[c]) /\ chat'[c][Below(i, p)] = chat[c][i]
                /\ Below(i, p) = i \/ chat[c][i].msg = Omi \/ chat[c][i].msg \in Pushed(c, p)
           /\ \A j \in Mine(c)' : \E i \in Mine(c) : j = Below(i, p) /\ chat'[c][j] = chat[c][i]
           /\ DOMAIN chat'[c] = 1..Len(chat'[c])
<1> DEFINE n == Len(chat[c])
           tail == SubSeq(chat[c], p, n)
<1>0. chat[c] \in Seq(Entry) /\ n \in Nat /\ p \in 1..n + 1 BY ChatTyped
<1>1. chat'[c] = Inserted(chat[c], p) BY AnswerGrows
<1>2. /\ chat'[c] \in Seq(Entry) /\ Len(chat'[c]) = n + 1
      /\ \A i \in 1..p - 1 : chat'[c][i] = chat[c][i]
      /\ chat'[c][p] = [msg |-> Omi, gone |-> FALSE]
      /\ \A i \in p + 1..n + 1 : chat'[c][i] = chat[c][i - 1]
  <2>1. chat[c] \in Seq(Entry) /\ p \in 1..Len(chat[c]) + 1 BY <1>0
  <2>2. LET new == Inserted(chat[c], p) IN
        /\ new \in Seq(Entry) /\ Len(new) = Len(chat[c]) + 1
        /\ \A i \in 1..p - 1 : new[i] = chat[c][i]
        /\ new[p] = [msg |-> Omi, gone |-> FALSE]
        /\ \A i \in p + 1..Len(chat[c]) + 1 : new[i] = chat[c][i - 1]
    BY <2>1, InsertedIs
  <2> QED BY <1>1, <2>2
<1>3. /\ tail \in Seq(Entry) /\ DOMAIN tail = 1..Len(tail)
      /\ Len(tail) = IF p <= n THEN n - p + 1 ELSE 0
      /\ \A j \in 1..n - p + 1 : tail[j] = chat[c][p + j - 1]
  <2>1. \A j \in p..n : chat[c][j] \in Entry BY <1>0, ElementOfSeq
  <2>2. /\ tail \in Seq(Entry)
        /\ Len(tail) = IF p <= n THEN n - p + 1 ELSE 0
        /\ \A j \in 1..n - p + 1 : tail[j] = chat[c][p + j - 1]
    BY <1>0, <2>1, SubSeqProperties
  <2> HIDE DEF tail
  <2> QED BY <2>2, LenProperties
<1>4. Pushed(c, p) = Users(tail) BY DEF Pushed
<1> HIDE DEF tail, n
<1>5. ASSUME NEW i \in 1..n
      PROVE  /\ Below(i, p) \in i..n + 1 /\ chat'[c][Below(i, p)] = chat[c][i]
             /\ Below(i, p) = i \/ chat[c][i].msg = Omi \/ chat[c][i].msg \in Pushed(c, p)
  <2>1. CASE i < p
    <3>1. Below(i, p) = i /\ i \in 1..p - 1 BY <1>0, <2>1 DEF Below
    <3> QED BY <1>0, <1>2, <3>1
  <2>2. CASE ~(i < p)
    <3>1. /\ Below(i, p) = i + 1 /\ i + 1 \in p + 1..n + 1 /\ (i + 1) - 1 = i
          /\ i + 1 \in i..n + 1
      BY <1>0, <2>2 DEF Below
    <3>2. chat'[c][i + 1] = chat[c][i] BY <1>2, <3>1
    <3>3. i - p + 1 \in 1..n - p + 1 /\ p + (i - p + 1) - 1 = i /\ p <= n BY <1>0, <2>2
    <3>4. tail[i - p + 1] = chat[c][i] /\ i - p + 1 \in DOMAIN tail BY <1>3, <3>3
    <3>5. chat[c][i].msg = Omi \/ chat[c][i].msg \in Users(tail) BY <3>4 DEF Users
    <3> QED BY <1>4, <3>1, <3>2, <3>5
  <2> QED BY <2>1, <2>2
<1>6. ASSUME NEW j \in 1..n + 1, chat'[c][j].msg # Omi
      PROVE  \E i \in Mine(c) : j = Below(i, p) /\ chat'[c][j] = chat[c][i]
  <2>1. CASE j < p
    <3>1. j \in 1..n /\ j \in 1..p - 1 /\ Below(j, p) = j BY <1>0, <2>1 DEF Below
    <3>2. chat'[c][j] = chat[c][j] BY <1>2, <3>1
    <3> QED BY <1>6, <3>1, <3>2 DEF Mine, n
  <2>2. CASE j = p BY <1>2, <1>6, <2>2
  <2>3. CASE j > p
    <3>1. j - 1 \in 1..n /\ j \in p + 1..n + 1 /\ Below(j - 1, p) = j BY <1>0, <2>3 DEF Below
    <3>2. chat'[c][j] = chat[c][j - 1] BY <1>2, <3>1
    <3> QED BY <1>6, <3>1, <3>2 DEF Mine, n
  <2> QED BY <1>0, <2>1, <2>2, <2>3
<1>7. \A j \in Mine(c)' : j \in 1..n + 1 /\ chat'[c][j].msg # Omi BY <1>2 DEF Mine
<1>8. DOMAIN chat'[c] = 1..Len(chat'[c]) BY <1>2, LenProperties
<1> QED BY <1>2, <1>5, <1>6, <1>7, <1>8 DEF n

LEMMA MovesAnswer ==
    ASSUME TypeOK, Spots, NEW c \in Chats, NEW p \in 1..Len(chat[c]) + 1, Answers(c, p)
    PROVE  Spots' /\ Moves /\ Stands
<1>0. /\ Len(chat[c]) \in Nat /\ DOMAIN chat[c] = 1..Len(chat[c])
      /\ p \in Nat /\ chat' \in [Chats -> Seq(Entry)]
      /\ IsFiniteSet(Mine(c)) /\ Cardinality(Mine(c)) \in Nat
  BY ChatTyped, AnswerGrows
<1>1. \A d \in Chats : d # c => chat'[d] = chat[d] BY AnswerGrows
<1>2. \A j \in Mine(c)' : \E i \in Mine(c) : j = Below(i, p) /\ chat'[c][j] = chat[c][i]
  BY AnswerPlaces
<1>3. \A i \in Mine(c) : Below(i, p) \in Mine(c)'
  <2> SUFFICES ASSUME NEW i \in Mine(c) PROVE Below(i, p) \in Mine(c)'
    OBVIOUS
  <2>1. i \in 1..Len(chat[c]) /\ chat[c][i].msg # Omi BY DEF Mine
  <2>2. Below(i, p) \in i..Len(chat'[c]) /\ chat'[c][Below(i, p)] = chat[c][i]
    BY <2>1, AnswerPlaces
  <2>3. Below(i, p) \in 1..Len(chat'[c]) BY <1>0, <2>1, <2>2
  <2> QED BY <2>1, <2>2, <2>3 DEF Mine
<1>4. \A i, j \in Mine(c) : Below(i, p) = Below(j, p) => i = j
  BY <1>0 DEF Mine, Below
<1>5. Cardinality(Mine(c)) <= Cardinality(Mine(c)') /\ Cardinality(Mine(c)') \in Nat
  <2> DEFINE f == [i \in Mine(c) |-> Below(i, p)]
  <2>1. f \in [Mine(c) -> Mine(c)'] BY <1>3
  <2>2. f \in Injection(Mine(c), Mine(c)') BY <1>4, <2>1 DEF Injection, IsInjective
  <2>3. Len(chat'[c]) \in Nat BY <1>0, LenProperties
  <2>4. IsFiniteSet(1..Len(chat'[c])) BY <2>3, FS_Interval
  <2>5. IsFiniteSet(Mine(c)') BY <2>4, FS_Subset DEF Mine
  <2> HIDE DEF f
  <2> QED BY <2>2, <2>5, FS_Injection, FS_CardinalityType
<1>6. \A i, j \in Mine(c)' : chat'[c][i].msg = chat'[c][j].msg => i = j
  <2> SUFFICES ASSUME NEW i \in Mine(c)', NEW j \in Mine(c)', chat'[c][i].msg = chat'[c][j].msg
               PROVE  i = j
    OBVIOUS
  <2>1. PICK k \in Mine(c) : i = Below(k, p) /\ chat'[c][i] = chat[c][k] BY <1>2
  <2>2. PICK l \in Mine(c) : j = Below(l, p) /\ chat'[c][j] = chat[c][l] BY <1>2
  <2>3. k = l BY <2>1, <2>2 DEF Spots, OneSpot
  <2> QED BY <2>1, <2>2, <2>3
<1>7. \A i \in Mine(c)' : chat'[c][i].msg \in {c} \X (1..Cardinality(Mine(c)'))
  <2> SUFFICES ASSUME NEW i \in Mine(c)' PROVE chat'[c][i].msg \in {c} \X (1..Cardinality(Mine(c)'))
    OBVIOUS
  <2>1. PICK k \in Mine(c) : chat'[c][i] = chat[c][k] BY <1>2
  <2>2. chat[c][k].msg \in {c} \X (1..Cardinality(Mine(c))) BY DEF Spots, Counted
  <2>3. 1..Cardinality(Mine(c)) \subseteq 1..Cardinality(Mine(c)') BY <1>0, <1>5
  <2> QED BY <2>1, <2>2, <2>3
<1>8. \A i \in Mine(c) : \E j \in i..Len(chat'[c]) :
          chat'[c][j].msg = chat[c][i].msg /\ (j = i \/ chat[c][i].msg \in again')
  <2> SUFFICES ASSUME NEW i \in Mine(c)
               PROVE  \E j \in i..Len(chat'[c]) :
                        chat'[c][j].msg = chat[c][i].msg /\ (j = i \/ chat[c][i].msg \in again')
    OBVIOUS
  <2>1. i \in 1..Len(chat[c]) /\ chat[c][i].msg # Omi BY DEF Mine
  <2>2. /\ Below(i, p) \in i..Len(chat'[c]) /\ chat'[c][Below(i, p)] = chat[c][i]
        /\ Below(i, p) = i \/ chat[c][i].msg \in Pushed(c, p)
    BY <2>1, AnswerPlaces
  <2>3. Pushed(c, p) \subseteq again' BY DEF Answers
  <2> QED BY <2>2, <2>3
<1>9. \A m : Standing(c, m) => Standing(c, m)'
  <2> SUFFICES ASSUME NEW m, Standing(c, m) PROVE Standing(c, m)'
    OBVIOUS
  <2>1. PICK i \in 1..Len(chat[c]) : chat[c][i].msg = m /\ ~chat[c][i].gone
    BY <1>0 DEF Standing
  <2>2. /\ Below(i, p) \in i..Len(chat'[c]) /\ chat'[c][Below(i, p)] = chat[c][i]
        /\ DOMAIN chat'[c] = 1..Len(chat'[c])
    BY AnswerPlaces
  <2>3. Below(i, p) \in DOMAIN chat'[c] BY <1>0, <2>2
  <2> QED BY <2>1, <2>2, <2>3 DEF Standing
<1>10. OneSpot' BY <1>1, <1>6, SameList DEF OneSpot
<1>11. Counted' BY <1>1, <1>7, SameList DEF Counted
<1>12. Moves
  <2> SUFFICES ASSUME NEW d \in Chats, NEW i \in Mine(d)
               PROVE  \E j \in i..Len(chat'[d]) :
                        chat'[d][j].msg = chat[d][i].msg /\ (j = i \/ chat[d][i].msg \in again')
    BY DEF Moves
  <2>1. CASE d = c BY <1>8, <2>1
  <2>2. CASE d # c BY <1>1, <2>2, SameList
  <2> QED BY <2>1, <2>2
<1>13. Stands BY <1>1, <1>9, SameList DEF Stands
<1> QED BY <1>10, <1>11, <1>12, <1>13 DEF Spots

\* A deleted message keeps its place; only it stands no more.
LEMMA MovesBlank ==
    ASSUME TypeOK, Spots, NEW e \in Erasers, NEW c \in Chats, NEW x \in DOMAIN chat[c],
           EraseBlanks(e, c, x)
    PROVE  /\ Spots' /\ Moves
           /\ \A d \in Chats : \A m \in Messages :
                 Standing(d, m) => Standing(d, m)' \/ (d = c /\ chat[c][x].msg = m)
<1>1. /\ \A d \in Chats : Len(chat'[d]) = Len(chat[d])
      /\ \A d \in Chats : \A i \in 1..Len(chat[d]) : chat'[d][i].msg = chat[d][i].msg
      /\ chat' \in [Chats -> Seq(Entry)]
  BY BlankIs DEF EraseBlanks
<1>2. \A d \in Chats : Mine(d)' = Mine(d) BY <1>1 DEF Mine
<1>3. \A d \in Chats : \A i \in Mine(d) : chat'[d][i].msg = chat[d][i].msg BY <1>1 DEF Mine
<1>4. OneSpot' BY <1>2, <1>3 DEF Spots, OneSpot
<1>5. Counted' BY <1>2, <1>3 DEF Spots, Counted
<1>6. Moves
  <2> SUFFICES ASSUME NEW d \in Chats, NEW i \in Mine(d)
               PROVE  i \in i..Len(chat'[d]) /\ chat'[d][i].msg = chat[d][i].msg
    BY DEF Moves
  <2>1. i \in 1..Len(chat[d]) /\ Len(chat[d]) \in Nat BY ChatTyped DEF Mine
  <2> QED BY <1>1, <1>3, <2>1
<1>7. ASSUME NEW d \in Chats, NEW m \in Messages, Standing(d, m), ~(d = c /\ chat[c][x].msg = m)
      PROVE  Standing(d, m)'
  <2>1. PICK i \in 1..Len(chat[d]) : chat[d][i].msg = m /\ ~chat[d][i].gone
    BY <1>7, ChatTyped DEF Standing
  <2>2. DOMAIN chat'[d] = 1..Len(chat[d]) BY <1>1, LenProperties
  <2>3. chat' = [chat EXCEPT ![c][x].gone = TRUE] /\ chat \in [Chats -> Seq(Entry)]
    BY DEF EraseBlanks, TypeOK
  <2>4. chat'[d][i] = chat[d][i]
    <3>1. CASE d # c BY <2>3, <3>1
    <3>2. CASE d = c
      <4>1. i # x BY <1>7, <2>1, <3>2
      <4> QED BY <2>3, <3>2, <4>1
    <3> QED BY <3>1, <3>2
  <2> QED BY <2>1, <2>2, <2>4 DEF Standing
<1> QED BY <1>4, <1>5, <1>6, <1>7 DEF Spots

LastsNext(c, i, m) == \E j \in i..Len(chat'[c]) : chat'[c][j].msg = m

StaysNext(c, i, m) == m \in again' \/ chat'[c][i].msg = m

\* A list that a run keeps, and one it reads now.
LEMMA ListedKept ==
    ASSUME TypeOK, RunBounds, Moves, again \subseteq again', NEW r \in Runs, Listed(r),
           run'[r].list \in {<<>>, run[r].list}
    PROVE  Listed(r)'
<1> SUFFICES ASSUME NEW i \in 1..Len(run[r].list), run[r].list[i].msg # Omi
             PROVE  LastsNext(Of[r], i, run[r].list[i].msg) /\ StaysNext(Of[r], i, run[r].list[i].msg)
  <2>1. Len(<<>>) = 0 BY EmptySeq
  <2>2. CASE run'[r].list = <<>> BY <2>1, <2>2 DEF Listed
  <2>3. CASE run'[r].list = run[r].list BY <2>3 DEF Listed, Lasts, Stays, LastsNext, StaysNext
  <2> QED BY <2>2, <2>3
<1> DEFINE c == Of[r]
           m == run[r].list[i].msg
<1>0. c \in Chats /\ Len(chat[c]) \in Nat /\ Len(run[r].list) \in Nat /\ Len(run[r].list) <= Len(chat[c])
  BY MemoryAssumption, ChatTyped, LenProperties DEF RunBounds, TypeOK, Run
<1>1. Lasts(c, i, m) /\ Stays(c, i, m) /\ m # Omi BY DEF Listed
<1> HIDE DEF c, m
<1>2. LastsNext(c, i, m)
  <2>1. PICK j \in i..Len(chat[c]) : chat[c][j].msg = m BY <1>1 DEF Lasts
  <2>2. j \in Mine(c) BY <1>0, <1>1, <2>1 DEF Mine
  <2>3. PICK k \in j..Len(chat'[c]) : chat'[c][k].msg = chat[c][j].msg BY <1>0, <2>2 DEF Moves
  <2>4. k \in i..Len(chat'[c]) BY <2>1, <2>3
  <2> QED BY <2>1, <2>3, <2>4 DEF LastsNext
<1>3. StaysNext(c, i, m)
  <2>1. CASE m \in again BY <2>1 DEF StaysNext
  <2>2. CASE chat[c][i].msg = m
    <3>1. i \in Mine(c) BY <1>0, <1>1, <2>2 DEF Mine
    <3>2. chat'[c][i].msg = m \/ m \in again' BY <1>0, <2>2, <3>1 DEF Moves
    <3> QED BY <3>2 DEF StaysNext
  <2> QED BY <1>1, <2>1, <2>2 DEF Stays
<1> QED BY <1>2, <1>3 DEF c, m

LEMMA ListedNow ==
    ASSUME NEW r \in Runs, chat' \in [Chats -> Seq(Entry)], Begins(r)
    PROVE  Listed(r)' /\ Cut(r)'
<1>1. run'[r].list = chat'[Of[r]] /\ run'[r].batch = {} BY DEF Begins
<1>2. Len(chat'[Of[r]]) \in Nat BY MemoryAssumption, LenProperties
<1>3. \A i \in 1..Len(chat'[Of[r]]) : i \in i..Len(chat'[Of[r]]) BY <1>2
<1>4. Listed(r)' BY <1>1, <1>3 DEF Listed, Lasts, Stays
<1> QED BY <1>1, <1>4 DEF Cut

LEMMA CutKept ==
    ASSUME NEW r \in Runs, Cut(r),
           run'[r].batch = {} \/ (run'[r].batch = run[r].batch /\ run'[r].list = run[r].list),
           run'[r].pc \in {"picked", "held"} =>
               run'[r].batch = {} \/ (run[r].pc = "picked" /\ run'[r].seen = run[r].seen)
    PROVE  Cut(r)'
BY DEF Cut

LEMMA CutPick ==
    ASSUME TypeOK, NEW r \in Runs, PickBatch(r), Picks(r)
    PROVE  Cut(r)'
<1> DEFINE c == Of[r]
           list == run[r].list
           t == cursor[c].through
           k == NextBatch(c, list, t)
           x == [run[r] EXCEPT !.pc = "picked", !.seen = cursor[c], !.batch = {k}]
<1>0. /\ c \in Chats /\ list \in Seq(Entry) /\ t \in Nat /\ Len(list) \in Nat
      /\ run[r] \in Run /\ run \in [Runs -> Run]
  BY MemoryAssumption, LenProperties DEF TypeOK, Run, Cursor
<1>1. Pending(list, t) # {} /\ run'[r].list = list /\ run'[r].batch = {k} BY DEF Picks
<1>2. /\ LastIndex(k) \in Nat /\ t <= LastIndex(k) /\ LastIndex(k) <= Len(list)
      /\ k.from = t + 1 /\ Len(k.rows) = LastIndex(k) - t
      /\ \A i \in t + 1..LastIndex(k) : k.rows[i - t] = list[i]
  <2> HIDE DEF c, list, t
  <2> QED BY <1>0, <1>1, NextBatchIs
<1>3. run'[r].seen = cursor[c]
  <2> HIDE DEF k
  <2>1. run' = [run EXCEPT ![r] = x] BY <1>1 DEF PickBatch, Becomes, k
  <2> QED BY <1>0, <2>1 DEF Run
<1> HIDE DEF k, x, list
<1>4. ASSUME NEW i \in 1..Len(k.rows)
      PROVE  k.from + i - 1 \in 1..Len(list) /\ list[k.from + i - 1] = k.rows[i]
  <2>1. t + i \in t + 1..LastIndex(k) /\ (t + i) - t = i /\ k.from + i - 1 = t + i
        /\ t + i \in 1..Len(list)
    <3> HIDE DEF c, t
    <3>1. i \in Nat /\ 1 <= i /\ i <= LastIndex(k) - t BY <1>2
    <3>2. t \in Nat /\ LastIndex(k) \in Nat /\ LastIndex(k) <= Len(list) /\ Len(list) \in Nat
          /\ k.from = t + 1
      BY <1>0, <1>2
    <3> QED BY <3>1, <3>2
  <2>2. k.rows[(t + i) - t] = list[t + i] BY <1>2, <2>1
  <2> QED BY <2>1, <2>2
<1> QED BY <1>1, <1>2, <1>3, <1>4 DEF Cut

\* Where a run's list has the messages of its batch.
LEMMA RowPlace ==
    ASSUME TypeOK, RunBounds, Lists, NEW r \in Runs, NEW k \in run[r].batch, NEW m \in Heard(k)
    PROVE  /\ m \in Messages /\ m # Omi
           /\ \E i \in k.from..LastIndex(k) :
                 /\ i \in 1..Len(run[r].list) /\ i \in 1..Len(chat[Of[r]])
                 /\ Meaningful(run[r].list, i) /\ run[r].list[i].msg = m
                 /\ Lasts(Of[r], i, m) /\ Stays(Of[r], i, m)
<1>0. /\ k \in Batch /\ k.from \in Nat \ {0} /\ Len(k.rows) \in Nat /\ LastIndex(k) \in Nat
      /\ DOMAIN k.rows = 1..Len(k.rows) /\ Of[r] \in Chats /\ Len(chat[Of[r]]) \in Nat
      /\ Len(run[r].list) \in Nat /\ Len(run[r].list) <= Len(chat[Of[r]])
  BY SeenTyped, BatchTyped, LenProperties, ChatTyped, MemoryAssumption DEF Batch, RunBounds, TypeOK, Run
<1>1. PICK j \in 1..Len(k.rows) : Meaningful(k.rows, j) /\ k.rows[j].msg = m
  BY <1>0 DEF Heard
<1> DEFINE i == k.from + j - 1
<1>2. i \in 1..Len(run[r].list) /\ run[r].list[i] = k.rows[j] BY DEF Lists, Cut
<1>3. i \in k.from..LastIndex(k) BY <1>0 DEF LastIndex
<1> HIDE DEF i
<1>4. Meaningful(run[r].list, i) /\ run[r].list[i].msg = m BY <1>1, <1>2 DEF Meaningful
<1>5. m # Omi BY <1>1 DEF Meaningful
<1>6. Lasts(Of[r], i, m) /\ Stays(Of[r], i, m) BY <1>2, <1>4, <1>5 DEF Lists, Listed
<1>7. m \in Messages BY <1>0, BatchTyped
<1>8. i \in 1..Len(chat[Of[r]]) BY <1>0, <1>2
<1> QED BY <1>2, <1>3, <1>4, <1>5, <1>6, <1>7, <1>8

-----------------------------------------------------------------------------
(* What each step does to runs, and to what they share.                    *)

\* A run gets where it is by one action.
RunWhere(r) ==
    /\ run'[r].pc \notin {"called", "picked"}
    /\ run'[r].pc = "held" =>
           HoldUser(r) /\ lease = {} /\ run[r].pc = "picked" /\ run'[r].seen = run[r].seen
    /\ run'[r].pc = "claimed" => ClaimBatch(r) /\ CursorMatches(r)
    /\ run'[r].pc = "asking" => ReadInputs(r)
    /\ run'[r].pc = "applied" => ApplyMemories(r)
    /\ run'[r].pc = "written" => SaveExtras(r)

LEMMA RunStepWhere ==
    ASSUME TypeOK, NEW r \in Runs, RunStep(r)
    PROVE  RunWhere(r)
<1>0. /\ run \in [Runs -> Run] /\ run[r] \in Run
      /\ {"held", "claimed", "asking", "applied", "written", "failing", "skipping", "releasing"} \subseteq Steps
      /\ {"done", "busy"} \subseteq {"done", "busy", "raised"}
  BY SeenTyped DEF TypeOK, Steps
<1>1. ASSUME NEW s \in Steps, Goes(r, s) PROVE run'[r].pc = s /\ run'[r].seen = run[r].seen
  <2>1. run' = [run EXCEPT ![r] = [run[r] EXCEPT !.pc = s]] BY <1>1 DEF Goes, Becomes
  <2> QED BY <1>0, <2>1 DEF Run
<1>2. ASSUME NEW v \in {"done", "busy", "raised"}, Ends(r, v) PROVE run'[r].pc = "releasing"
  BY <1>0, <1>2, EndsKeeps DEF Keeps
<1>3. CASE HoldUser(r)
  <2>1. CASE lease = {} BY <1>0, <1>1, <1>3, <2>1 DEF HoldUser, RunWhere
  <2>2. CASE lease # {}
    <3>1. Ended(r) BY <1>0, <1>3, <2>2, OverEnds DEF HoldUser
    <3> QED BY <3>1 DEF Ended, RunWhere
  <2> QED BY <2>1, <2>2
<1>4. CASE ClaimBatch(r)
  <2>1. \/ CursorMatches(r) /\ run'[r].pc = "claimed"
        \/ run'[r].pc = "releasing"
    BY <1>0, <1>1, <1>2, <1>4 DEF ClaimBatch
  <2> QED BY <1>4, <2>1 DEF RunWhere
<1>5. CASE ReadInputs(r)
  <2>1. card \in SUBSET Messages BY DEF TypeOK
  <2>2. run'[r].pc = "asking" BY <1>0, <1>5, <2>1, ReadKeeps DEF ReadInputs, Keeps
  <2> QED BY <1>5, <2>2 DEF RunWhere
<1>6. CASE ApplyMemories(r)
  <2>1. run'[r].pc = "applied" BY <1>0, <1>1, <1>6 DEF ApplyMemories
  <2> QED BY <1>6, <2>1 DEF RunWhere
<1>7. CASE SaveExtras(r)
  <2>1. Becomes(r, [run[r] EXCEPT !.pc = "written", !.card = {}]) BY <1>7 DEF SaveExtras
  <2>0. "written" \in Steps /\ {} \in SUBSET Messages BY DEF Steps
  <2>2. Keeps(r, "written") BY <1>0, <2>0, <2>1, ReadKeeps
  <2>3. run'[r].pc = "written" BY <2>2 DEF Keeps
  <2> QED BY <1>7, <2>3 DEF RunWhere
<1>8. CASE SaveCursor(r)
  <2>1. run'[r].pc \in {"releasing", "failing"} BY <1>0, <1>1, <1>2, <1>8 DEF SaveCursor
  <2> QED BY <2>1 DEF RunWhere
<1>9. CASE CountFailure(r)
  <2>1. PICK k \in run[r].batch :
            \/ Becomes(r, [run[r] EXCEPT !.pc = "skipping", !.seen = cursor[k.chat]])
            \/ Ends(r, "done")
    BY <1>9 DEF CountFailure
  <2>2. run'[r].pc \in {"skipping", "releasing"}
    <3>1. CASE Ends(r, "done") BY <1>2, <3>1
    <3>2. CASE Becomes(r, [run[r] EXCEPT !.pc = "skipping", !.seen = cursor[k.chat]])
      BY <1>0, <3>2 DEF Becomes, Run
    <3> QED BY <2>1, <3>1, <3>2
  <2> QED BY <2>2 DEF RunWhere
<1>10. CASE SkipBatch(r)
  <2>1. run'[r].pc = "releasing" BY <1>2, <1>10 DEF SkipBatch
  <2> QED BY <2>1 DEF RunWhere
<1>11. CASE Release(r)
  <2>1. Ended(r) BY <1>0, <1>11, OverEnds, SeenTyped DEF Release
  <2> QED BY <2>1 DEF Ended, RunWhere
<1>12. CASE Outage(r)
  <2>1. run'[r].pc = "releasing" BY <1>2, <1>12 DEF Outage
  <2> QED BY <2>1 DEF RunWhere
<1>13. CASE BadContent(r) \/ WriteFails(r)
  <2>1. run'[r].pc = "failing" BY <1>0, <1>1, <1>13 DEF BadContent, WriteFails
  <2> QED BY <2>1 DEF RunWhere
<1>14. CASE Crash(r)
  <2>1. Ended(r) BY <1>0, <1>14, IdleEnds DEF Crash
  <2> QED BY <2>1 DEF Ended, RunWhere
<1> QED BY <1>3, <1>4, <1>5, <1>6, <1>7, <1>8, <1>9, <1>10, <1>11, <1>12, <1>13, <1>14 DEF RunStep

\* What a run's step leaves alone, but for the action that is about it.
LEMMA RunStepLeaves ==
    ASSUME NEW r \in Runs, RunStep(r)
    PROVE  /\ UNCHANGED <<chat, erase, caught>> /\ again \subseteq again'
           /\ ApplyMemories(r) \/ UNCHANGED <<applied, evidence, lessons>>
           /\ SaveCursor(r) \/ SkipBatch(r) \/ UNCHANGED cursor
           /\ HoldUser(r) \/ Release(r) \/ Crash(r) \/ UNCHANGED lease
<1>1. CASE HoldUser(r) \/ Release(r) BY <1>1 DEF HoldUser, Release, store, history
<1>2. CASE ClaimBatch(r) \/ ReadInputs(r) \/ SaveExtras(r)
  BY <1>2 DEF ClaimBatch, ReadInputs, SaveExtras, store, history
<1>3. CASE CountFailure(r) BY <1>3 DEF CountFailure, history
<1>4. CASE Outage(r) \/ BadContent(r) BY <1>4 DEF Outage, BadContent, store, history
<1>5. CASE ApplyMemories(r) BY <1>5 DEF ApplyMemories
<1>6. CASE SaveCursor(r) BY <1>6 DEF SaveCursor, CutShort
<1>7. CASE SkipBatch(r) BY <1>7 DEF SkipBatch
<1>8. CASE WriteFails(r) \/ Crash(r) BY <1>8 DEF WriteFails, Crash, CutShort, store
<1> QED BY <1>1, <1>2, <1>3, <1>4, <1>5, <1>6, <1>7, <1>8 DEF RunStep

\* A step that decides nothing: runs begin, end and pick batches, the chat grows.
Quiet ==
    /\ Spots' /\ Moves /\ Stands
    /\ UNCHANGED <<cursor, applied, evidence, lessons, caught>> /\ again \subseteq again'
    /\ lease' \subseteq lease /\ \A l \in lease : l.owner \in Runs => l \in lease'
    /\ \A e \in Erasers : erase[e].step = "blanked" => erase'[e] = erase[e]
    /\ \A q \in Runs :
          \/ run'[q] = run[q]
          \/ /\ run[q].pc \in {"idle", "reporting", "called"}
             /\ Begins(q) \/ Ended(q) \/ (PickBatch(q) /\ Picks(q))

LEMMA QuietChat ==
    ASSUME TypeOK, Spots, NEW c \in Chats, Say(c) \/ Draft(c) \/ Reply(c) \/ CatchUp(c)
    PROVE  Quiet
<1>1. CASE Say(c)
  BY <1>1, MovesSay DEF Say, Quiet, store, history
<1>2. CASE Draft(c) \/ CatchUp(c)
  <2>1. UNCHANGED <<chat, lease, cursor, applied, evidence, lessons, caught, again, erase, run>>
    BY <1>2 DEF Draft, CatchUp, store, history
  <2> QED BY <2>1, MovesStill DEF Quiet
<1>3. CASE Reply(c)
  <2>1. UNCHANGED <<lease, cursor, applied, evidence, lessons, caught, erase>>
    BY <1>3, ReplyMoves DEF store
  <2>2. CASE UNCHANGED <<chat, flush, run, again, slid>>
    BY <2>1, <2>2, MovesStill DEF Quiet
  <2>3. ASSUME NEW p \in 1..Len(chat[c]) + 1, Answers(c, p) PROVE Quiet
    <3>1. Spots' /\ Moves /\ Stands BY <2>3, MovesAnswer
    <3>2. again \subseteq again' BY <2>3 DEF Answers
    <3>3. \A q \in Runs : run'[q] = run[q] \/ Begins(q)
      BY <2>3 DEF Answers, OnlyRun
    <3>4. UNCHANGED run \/ \E t \in Tasks : run[t].pc = "idle" /\ \E x : Becomes(t, x)
      BY <1>3 DEF Reply, LearnAfterReply
    <3>5. \A q \in Runs : run'[q] = run[q] \/ run[q].pc = "idle"
      BY <3>4 DEF Becomes, TypeOK
    <3> QED BY <2>1, <3>1, <3>2, <3>3, <3>5 DEF Quiet
  <2> QED BY <1>3, <2>2, <2>3, ReplyMoves
<1> QED BY <1>1, <1>2, <1>3

LEMMA QuietFlush ==
    ASSUME TypeOK, Spots, NEW j \in Jobs, StartFlush(j) \/ ReportFlush(j)
    PROVE  Quiet
<1>0. j \in Runs /\ run \in [Runs -> Run] BY DEF Runs, TypeOK
<1>1. UNCHANGED <<chat, lease, cursor, applied, evidence, lessons, caught, again, erase>>
  <2>1. CASE StartFlush(j) BY <2>1 DEF StartFlush, store, history
  <2>2. CASE ReportFlush(j) BY <2>2 DEF ReportFlush, store
  <2> QED BY <2>1, <2>2
<1>2. \A q \in Runs :
          \/ run'[q] = run[q]
          \/ run[q].pc \in {"idle", "reporting"} /\ (Begins(q) \/ Ended(q))
  <2>1. CASE StartFlush(j)
    <3>1. run[j].pc = "idle" BY <2>1 DEF StartFlush
    <3> QED BY <2>1, <3>1, StartMoves DEF OnlyRun
  <2>2. CASE ReportFlush(j)
    <3>1. run[j].pc = "reporting" /\ Ended(j) BY <1>0, <2>2, IdleEnds DEF ReportFlush
    <3> QED BY <3>1 DEF Ended, OnlyRun
  <2> QED BY <2>1, <2>2
<1> QED BY <1>1, <1>2, MovesStill DEF Quiet

LEMMA QuietPick ==
    ASSUME TypeOK, Spots, NEW r \in Runs, PickBatch(r)
    PROVE  Quiet
<1>1. UNCHANGED <<chat, lease, cursor, applied, evidence, lessons, caught, again, erase>>
  BY DEF PickBatch, store, history
<1>2. run[r].pc = "called" BY DEF PickBatch
<1>3. \A q \in Runs : run'[q] = run[q] \/ (q = r /\ (Ended(q) \/ Picks(q)))
  BY PickMoves DEF Ended, Picks, OnlyRun
<1> QED BY <1>1, <1>2, <1>3, MovesStill DEF Quiet

\* The other steps are a run's, a lease lost, and the two steps of a deletion.
Loud ==
    \/ \E r \in Runs : RunStep(r) \/ Overrun(r)
    \/ \E e \in Erasers : \/ \E c \in Chats : \E i \in DOMAIN chat[c] : EraseBlanks(e, c, i)
                          \/ EraseForgets(e)

LEMMA QuietOrLoud == ASSUME TypeOK, Spots, [Next]_vars PROVE Quiet \/ Loud
<1>1. CASE UNCHANGED vars
  <2>1. UNCHANGED <<chat, lease, cursor, applied, evidence, lessons, caught, again, erase, run>>
    BY <1>1 DEF vars, store, history
  <2> QED BY <2>1, MovesStill DEF Quiet
<1>2. CASE LeaseExpires
  <2>1. UNCHANGED <<chat, cursor, applied, evidence, lessons, caught, again, erase, run>> /\ lease' = {}
    BY <1>2 DEF LeaseExpires, store, history
  <2>2. \A l \in lease : l.owner \notin Runs BY <1>2, MemoryAssumption DEF LeaseExpires, TypeOK
  <2> QED BY <2>1, <2>2, MovesStill DEF Quiet
<1>3. ASSUME NEW e \in Erasers, EraseAsks(e) PROVE Quiet
  <2>1. UNCHANGED <<chat, lease, cursor, applied, evidence, lessons, caught, again, run>>
    BY <1>3 DEF EraseAsks, store, history
  <2>2. erase[e].step = "forgotten" /\ erase' = [erase EXCEPT ![e].step = "done"]
    BY <1>3 DEF EraseAsks
  <2>3. \A d \in Erasers : erase[d].step = "blanked" => erase'[d] = erase[d]
    BY <2>2 DEF TypeOK
  <2> QED BY <2>1, <2>3, MovesStill DEF Quiet
<1>4. CASE \E r \in Runs : \/ RunSteps(r) \/ Outage(r) \/ BadContent(r) \/ WriteFails(r)
                           \/ Crash(r) \/ Overrun(r)
  BY <1>4, QuietPick DEF RunSteps, RunStep, Loud
<1>5. CASE \E e \in Erasers : \/ \E c \in Chats : \E i \in DOMAIN chat[c] : EraseBlanks(e, c, i)
                              \/ EraseForgets(e) \/ EraseAsks(e)
  BY <1>3, <1>5 DEF Loud
<1> QED BY <1>1, <1>2, <1>4, <1>5, QuietChat, QuietFlush DEF Next

\* Lists and batches stay what they are.
LEMMA ListsQuiet ==
    ASSUME TypeOK, RunBounds, TypeOK', Lists, Quiet
    PROVE  Lists'
<1> SUFFICES ASSUME NEW q \in Runs PROVE Listed(q)' /\ Cut(q)'
    BY DEF Lists
<1>0. Moves /\ again \subseteq again' /\ chat' \in [Chats -> Seq(Entry)]
  BY DEF Quiet, TypeOK
<1>1. CASE run'[q] = run[q]
  <2>1. Listed(q)' BY <1>0, <1>1, ListedKept DEF Lists
  <2>2. Cut(q)' BY <1>1 DEF Lists, Cut
  <2> QED BY <2>1, <2>2
<1>2. CASE Begins(q) BY <1>0, <1>2, ListedNow
<1>3. CASE Ended(q)
  <2>1. run'[q].list \in {<<>>, run[q].list} /\ run'[q].batch = {} BY <1>3 DEF Ended
  <2>2. Listed(q)' BY <1>0, <2>1, ListedKept DEF Lists
  <2>3. Cut(q)' BY <2>1 DEF Cut
  <2> QED BY <2>2, <2>3
<1>4. CASE PickBatch(q) /\ Picks(q)
  <2>1. run'[q].list = run[q].list BY <1>4 DEF Picks
  <2>2. Listed(q)' BY <1>0, <2>1, ListedKept DEF Lists
  <2> QED BY <1>4, <2>2, CutPick
<1> QED BY <1>1, <1>2, <1>3, <1>4 DEF Quiet

\* The same for the steps that leave the runs alone.
LEMMA ListsStill ==
    ASSUME TypeOK, RunBounds, Lists, Moves, again \subseteq again', UNCHANGED run
    PROVE  Lists'
<1> SUFFICES ASSUME NEW q \in Runs PROVE Listed(q)' /\ Cut(q)'
    BY DEF Lists
<1>1. Listed(q)' BY ListedKept DEF Lists
<1>2. Cut(q)' BY DEF Lists, Cut
<1> QED BY <1>1, <1>2

LEMMA ListsRunStep ==
    ASSUME TypeOK, RunBounds, Spots, Lists, NEW r \in Runs, RunStep(r)
    PROVE  Spots' /\ Lists'
<1>1. RunMoves(r) /\ RunWhere(r) /\ UNCHANGED chat /\ again \subseteq again'
  BY RunStepMoves, RunStepWhere, RunStepLeaves
<1>2. Spots' /\ Moves BY <1>1, MovesStill
<1>3. OnlyRun(r) /\ (Ended(r) \/ \E s : Keeps(r, s)) BY <1>1 DEF RunMoves, Ended, Keeps
<1>4. ASSUME NEW q \in Runs, q # r PROVE Listed(q)' /\ Cut(q)'
  <2>1. run'[q] = run[q] BY <1>3, <1>4 DEF OnlyRun
  <2>2. Listed(q)' BY <1>1, <1>2, <2>1, ListedKept DEF Lists
  <2>3. Cut(q)' BY <2>1 DEF Lists, Cut
  <2> QED BY <2>2, <2>3
<1>5. Listed(r)' /\ Cut(r)'
  <2>1. run'[r].list \in {<<>>, run[r].list} BY <1>3 DEF Ended, Keeps
  <2>2. Listed(r)' BY <1>1, <1>2, <2>1, ListedKept DEF Lists
  <2>3. run'[r].batch = {} \/ (run'[r].batch = run[r].batch /\ run'[r].list = run[r].list)
    BY <1>3 DEF Ended, Keeps
  <2>4. run'[r].pc \in {"picked", "held"} => run[r].pc = "picked" /\ run'[r].seen = run[r].seen
    BY <1>1 DEF RunWhere
  <2>5. Cut(r)' BY <2>3, <2>4, CutKept DEF Lists
  <2> QED BY <2>2, <2>5
<1> QED BY <1>2, <1>4, <1>5 DEF Lists

LEMMA PlaceStep == TypeOK /\ RunBounds /\ Spots /\ Lists /\ [Next]_vars => Spots' /\ Lists'
<1> SUFFICES ASSUME TypeOK, RunBounds, Spots, Lists, [Next]_vars PROVE Spots' /\ Lists'
    OBVIOUS
<1>0. TypeOK' BY TypeStep
<1>1. CASE Quiet BY <1>0, <1>1, ListsQuiet DEF Quiet
<1>2. ASSUME NEW r \in Runs, RunStep(r) PROVE Spots' /\ Lists' BY <1>2, ListsRunStep
<1>3. ASSUME NEW r \in Runs, Overrun(r) PROVE Spots' /\ Lists'
  <2>1. UNCHANGED <<chat, run>> /\ again \subseteq again' BY <1>3 DEF Overrun
  <2> QED BY <2>1, MovesStill, ListsStill
<1>4. ASSUME NEW e \in Erasers, NEW c \in Chats, NEW i \in DOMAIN chat[c], EraseBlanks(e, c, i)
      PROVE  Spots' /\ Lists'
  <2>1. UNCHANGED run /\ again \subseteq again' BY <1>4 DEF EraseBlanks, history
  <2> QED BY <1>4, <2>1, MovesBlank, ListsStill
<1>5. ASSUME NEW e \in Erasers, EraseForgets(e) PROVE Spots' /\ Lists'
  <2>1. UNCHANGED <<chat, run>> /\ again \subseteq again' BY <1>5 DEF EraseForgets
  <2> QED BY <2>1, MovesStill, ListsStill
<1> QED BY <1>1, <1>2, <1>3, <1>4, <1>5, QuietOrLoud DEF Loud

LEMMA PlaceInit == Init => Spots /\ Lists
<1> SUFFICES ASSUME Init PROVE Spots /\ Lists
    OBVIOUS
<1>1. Len(<<>>) = 0 BY EmptySeq
<1>2. \A c \in Chats : Mine(c) = {} BY <1>1 DEF Init, Mine
<1>3. \A r \in Runs : run[r].list = <<>> /\ run[r].batch = {} BY DEF Init, IdleRun
<1>4. Spots BY <1>2 DEF Spots, OneSpot, Counted
<1>5. Lists BY <1>1, <1>3 DEF Lists, Listed, Cut
<1> QED BY <1>4, <1>5

-----------------------------------------------------------------------------
(* What a deletion forgets.                                                *)

\* A message that was read at place i still stands, or a run was too early,
\* or a reply has moved it, or its deletion is to forget that place.
Excused(c, i, m) ==
    \/ Standing(c, m)
    \/ m \in caught
    \/ chat[c][i].msg # m
    \/ \E e \in Erasers : erase[e].step = "blanked" /\ erase[e].chat = {c} /\ erase[e].at = i

ExcusedNext(c, i, m) ==
    \/ \E j \in DOMAIN chat'[c] : chat'[c][j].msg = m /\ ~chat'[c][j].gone
    \/ m \in caught'
    \/ chat'[c][i].msg # m
    \/ \E e \in Erasers : erase'[e].step = "blanked" /\ erase'[e].chat = {c} /\ erase'[e].at = i

Early == {"called", "picked", "held", "claimed", "asking"}

\* No proof and no list has a message that it should not have.
Traced == \A v \in evidence : v.msg # Omi /\ Lasts(v.chat, v.at, v.msg)

Proven == \A v \in evidence : Excused(v.chat, v.at, v.msg)

ReadWell(r) ==
    run[r].pc \in Early =>
        \A i \in 1..Len(run[r].list) :
            Meaningful(run[r].list, i) => Excused(Of[r], i, run[r].list[i].msg)

ForgetInv == Traced /\ Proven /\ \A r \in Runs : ReadWell(r)

\* A step that deletes nothing excuses what was excused.
LEMMA ExcusedKept ==
    ASSUME TypeOK, Spots', chat' \in [Chats -> Seq(Entry)], Moves,
           NEW c \in Chats, NEW i \in Nat \ {0}, NEW m \in Messages, m # Omi, Lasts(c, i, m),
           Standing(c, m) => ExcusedNext(c, i, m), caught \subseteq caught',
           \A e \in Erasers : erase[e].step = "blanked" => erase'[e] = erase[e],
           Excused(c, i, m)
    PROVE  ExcusedNext(c, i, m)
<1>1. CASE m \in caught BY <1>1 DEF ExcusedNext
<1>2. CASE chat[c][i].msg # m
  <2>0. Len(chat[c]) \in Nat /\ Len(chat'[c]) \in Nat BY ChatTyped, LenProperties
  <2>1. PICK j \in i..Len(chat[c]) : chat[c][j].msg = m BY DEF Lasts
  <2>2. j \in Mine(c) /\ j > i BY <1>2, <2>0, <2>1 DEF Mine
  <2>3. PICK k \in j..Len(chat'[c]) : chat'[c][k].msg = m BY <2>1, <2>2 DEF Moves
  <2>4. k > i /\ k \in Mine(c)' /\ i \in 1..Len(chat'[c]) BY <2>0, <2>1, <2>2, <2>3 DEF Mine
  <2>5. ASSUME chat'[c][i].msg = m PROVE FALSE
    <3>1. i \in Mine(c)' BY <2>4, <2>5 DEF Mine
    <3>2. i = k BY <2>3, <2>4, <2>5, <3>1 DEF Spots, OneSpot
    <3> QED BY <2>4, <3>2
  <2> QED BY <2>5 DEF ExcusedNext
<1>3. CASE \E e \in Erasers : erase[e].step = "blanked" /\ erase[e].chat = {c} /\ erase[e].at = i
  BY <1>3 DEF ExcusedNext
<1> QED BY <1>1, <1>2, <1>3 DEF Excused

LEMMA LastsMoved ==
    ASSUME TypeOK, Moves, NEW c \in Chats, NEW i \in Nat \ {0}, NEW m, m # Omi, Lasts(c, i, m)
    PROVE  LastsNext(c, i, m)
<1>0. Len(chat[c]) \in Nat BY ChatTyped
<1>1. PICK j \in i..Len(chat[c]) : chat[c][j].msg = m BY DEF Lasts
<1>2. j \in Mine(c) BY <1>0, <1>1 DEF Mine
<1>3. PICK k \in j..Len(chat'[c]) : chat'[c][k].msg = m BY <1>1, <1>2 DEF Moves
<1>4. k \in i..Len(chat'[c]) BY <1>1, <1>3
<1> QED BY <1>3, <1>4 DEF LastsNext

\* What a list has is excused.
LEMMA ListHas ==
    ASSUME TypeOK, Lists, NEW r \in Runs, NEW i \in 1..Len(run[r].list), Meaningful(run[r].list, i)
    PROVE  /\ i \in Nat \ {0} /\ Of[r] \in Chats
           /\ run[r].list[i].msg \in Messages /\ run[r].list[i].msg # Omi
           /\ Lasts(Of[r], i, run[r].list[i].msg)
<1>1. run[r].list \in Seq(Entry) /\ Len(run[r].list) \in Nat BY LenProperties DEF TypeOK, Run
<1>2. run[r].list[i] \in Entry BY <1>1, ElementOfSeq
<1>3. run[r].list[i].msg \in Messages /\ run[r].list[i].msg # Omi BY <1>2 DEF Entry, Meaningful
<1> QED BY <1>1, <1>3, MemoryAssumption DEF Lists, Listed

\* The excuses of a step, for all that was read.
Excuses ==
    /\ \A v \in evidence' : v \in evidence => ExcusedNext(v.chat, v.at, v.msg)
    /\ \A r \in Runs : run[r].pc \in Early =>
          \A i \in 1..Len(run[r].list) :
              Meaningful(run[r].list, i) => ExcusedNext(Of[r], i, run[r].list[i].msg)

LEMMA ExcusesKept ==
    ASSUME TypeOK, TypeOK', Spots', Moves, Stands, Lists, ForgetInv, caught \subseteq caught',
           \A e \in Erasers : erase[e].step = "blanked" => erase'[e] = erase[e]
    PROVE  Excuses
<1>0. chat' \in [Chats -> Seq(Entry)] BY DEF TypeOK
<1>1. ASSUME NEW c \in Chats, NEW i \in Nat \ {0}, NEW m \in Messages, m # Omi, Lasts(c, i, m),
             Excused(c, i, m)
      PROVE  ExcusedNext(c, i, m)
  <2>1. Standing(c, m) => ExcusedNext(c, i, m) BY DEF Stands, Standing, ExcusedNext
  <2> QED BY <1>0, <1>1, <2>1, ExcusedKept
<1>2. ASSUME NEW v \in evidence PROVE ExcusedNext(v.chat, v.at, v.msg)
  <2>1. v.chat \in Chats /\ v.at \in Nat \ {0} /\ v.msg \in Messages BY DEF TypeOK, Evidence
  <2>2. v.msg # Omi /\ Lasts(v.chat, v.at, v.msg) /\ Excused(v.chat, v.at, v.msg)
    BY DEF ForgetInv, Traced, Proven
  <2> QED BY <1>1, <2>1, <2>2
<1>3. ASSUME NEW r \in Runs, run[r].pc \in Early, NEW i \in 1..Len(run[r].list), Meaningful(run[r].list, i)
      PROVE  ExcusedNext(Of[r], i, run[r].list[i].msg)
  <2>1. PICK m : m = run[r].list[i].msg OBVIOUS
  <2>2. /\ i \in Nat \ {0} /\ Of[r] \in Chats /\ m \in Messages /\ m # Omi
        /\ Lasts(Of[r], i, m)
    BY <1>3, <2>1, ListHas
  <2>3. Excused(Of[r], i, m) BY <1>3, <2>1 DEF ForgetInv, ReadWell
  <2>4. ExcusedNext(Of[r], i, m) BY <1>1, <2>2, <2>3
  <2> QED BY <2>1, <2>4
<1> QED BY <1>2, <1>3 DEF Excuses

\* The proof of a step that adds none.
LEMMA ForgetProof ==
    ASSUME TypeOK, Moves, ForgetInv, Excuses, evidence' \subseteq evidence
    PROVE  Traced' /\ Proven'
<1>1. ASSUME NEW v \in evidence' PROVE v.msg # Omi /\ Lasts(v.chat, v.at, v.msg)'
  <2>1. v \in evidence /\ v.chat \in Chats /\ v.at \in Nat \ {0} BY DEF TypeOK, Evidence
  <2>2. v.msg # Omi /\ Lasts(v.chat, v.at, v.msg) BY <2>1 DEF ForgetInv, Traced
  <2>3. LastsNext(v.chat, v.at, v.msg) BY <2>1, <2>2, LastsMoved
  <2> QED BY <2>2, <2>3 DEF LastsNext, Lasts
<1>2. ASSUME NEW v \in evidence' PROVE Excused(v.chat, v.at, v.msg)'
  <2>1. ExcusedNext(v.chat, v.at, v.msg) BY DEF Excuses
  <2> QED BY <2>1 DEF ExcusedNext, Excused, Standing
<1> QED BY <1>1, <1>2 DEF Traced, Proven

\* A run that keeps its list, or reads it now, or is over.
LEMMA ReadKept ==
    ASSUME Excuses, NEW q \in Runs,
           \/ run[q].pc \in Early /\ run'[q].list = run[q].list
           \/ run'[q] = run[q]
           \/ run'[q].pc \notin Early
    PROVE  ReadWell(q)'
<1> SUFFICES ASSUME run'[q].pc \in Early, run[q].pc \in Early, run'[q].list = run[q].list,
                    NEW i \in 1..Len(run[q].list), Meaningful(run[q].list, i)
             PROVE  ExcusedNext(Of[q], i, run[q].list[i].msg)
    BY DEF ReadWell, Meaningful, Excused, ExcusedNext, Standing
<1> QED BY DEF Excuses

LEMMA ReadNow ==
    ASSUME NEW q \in Runs, chat' \in [Chats -> Seq(Entry)], Begins(q)
    PROVE  ReadWell(q)'
<1> SUFFICES ASSUME NEW i \in 1..Len(chat'[Of[q]]), Meaningful(chat'[Of[q]], i)
             PROVE  ExcusedNext(Of[q], i, chat'[Of[q]][i].msg)
    BY DEF Begins, ReadWell, Meaningful, Excused, ExcusedNext, Standing
<1>1. i \in DOMAIN chat'[Of[q]] BY MemoryAssumption, LenProperties
<1> QED BY <1>1 DEF Meaningful, ExcusedNext

LEMMA ForgetQuiet ==
    ASSUME TypeOK, TypeOK', Lists, ForgetInv, Quiet
    PROVE  ForgetInv'
<1>1. Excuses /\ Moves /\ evidence' \subseteq evidence BY ExcusesKept DEF Quiet
<1>2. Traced' /\ Proven' BY <1>1, ForgetProof
<1>3. ASSUME NEW q \in Runs PROVE ReadWell(q)'
  <2>1. CASE run'[q] = run[q] BY <1>1, <2>1, ReadKept
  <2>2. CASE Begins(q) BY <2>2, ReadNow DEF TypeOK
  <2>3. CASE Ended(q)
    <3>1. run'[q].pc \notin Early BY <2>3 DEF Ended, Early
    <3> QED BY <1>1, <3>1, ReadKept
  <2>4. CASE PickBatch(q) /\ Picks(q)
    <3>1. run[q].pc \in Early /\ run'[q].list = run[q].list BY <2>4 DEF PickBatch, Picks, Early
    <3> QED BY <1>1, <3>1, ReadKept
  <2> QED BY <2>1, <2>2, <2>3, <2>4 DEF Quiet
<1> QED BY <1>2, <1>3 DEF ForgetInv

\* The proof of a batch is where its run read it.
LEMMA ProofExcused ==
    ASSUME TypeOK, Lists, RunBounds, NEW r \in Runs, run[r].pc \in Early, NEW k \in run[r].batch,
           Excuses, ForgetInv, Moves, NEW v \in Proof(k)
    PROVE  v.msg # Omi /\ LastsNext(v.chat, v.at, v.msg) /\ ExcusedNext(v.chat, v.at, v.msg)
<1>0. k \in Batch /\ k.chat = Of[r] /\ DOMAIN k.rows = 1..Len(k.rows)
  BY SeenTyped, LenProperties DEF RunBounds, Batch
<1>1. PICK i \in 1..Len(k.rows) :
          /\ Meaningful(k.rows, i)
          /\ v = [chat |-> k.chat, at |-> k.from + i - 1, msg |-> k.rows[i].msg]
  BY <1>0 DEF Proof
<1>2. PICK p \in 1..Len(run[r].list) : p = k.from + i - 1 /\ run[r].list[p] = k.rows[i]
  BY DEF Lists, Cut
<1>3. PICK m : m = run[r].list[p].msg OBVIOUS
<1>4. Meaningful(run[r].list, p) BY <1>1, <1>2 DEF Meaningful
<1>5. v.chat = Of[r] /\ v.at = p /\ v.msg = m BY <1>0, <1>1, <1>2, <1>3
<1>6. p \in Nat \ {0} /\ Of[r] \in Chats /\ m # Omi /\ Lasts(Of[r], p, m) BY <1>3, <1>4, ListHas
<1>7. LastsNext(Of[r], p, m) BY <1>6, LastsMoved
<1>8. ExcusedNext(Of[r], p, m) BY <1>3, <1>4 DEF Excuses
<1> QED BY <1>5, <1>6, <1>7, <1>8

LEMMA ForgetRunStep ==
    ASSUME TypeOK, TypeOK', RunBounds, Spots, Lists, ForgetInv, NEW r \in Runs, RunStep(r)
    PROVE  ForgetInv'
<1>1. /\ RunMoves(r) /\ RunWhere(r) /\ UNCHANGED <<chat, erase, caught>>
      /\ ApplyMemories(r) \/ UNCHANGED evidence
  BY RunStepMoves, RunStepWhere, RunStepLeaves
<1>2. Spots' /\ Moves /\ Stands BY <1>1, MovesStill
<1>3. Excuses BY <1>1, <1>2, ExcusesKept
<1>4. ASSUME UNCHANGED evidence PROVE Traced' /\ Proven' BY <1>2, <1>3, <1>4, ForgetProof
<1>5. ASSUME ApplyMemories(r) PROVE Traced' /\ Proven'
  <2>1. PICK k \in run[r].batch : evidence' \subseteq evidence \union Proof(k)
    BY <1>5 DEF ApplyMemories
  <2>2. run[r].pc \in Early BY <1>5 DEF ApplyMemories, Early
  <2>3. ASSUME NEW v \in evidence'
        PROVE  v.msg # Omi /\ LastsNext(v.chat, v.at, v.msg) /\ ExcusedNext(v.chat, v.at, v.msg)
    <3>1. CASE v \in Proof(k) BY <1>2, <1>3, <2>2, <3>1, ProofExcused
    <3>2. CASE v \in evidence
      <4>1. v.chat \in Chats /\ v.at \in Nat \ {0} BY <3>2 DEF TypeOK, Evidence
      <4>2. v.msg # Omi /\ Lasts(v.chat, v.at, v.msg) BY <3>2 DEF ForgetInv, Traced
      <4>3. LastsNext(v.chat, v.at, v.msg) BY <1>2, <4>1, <4>2, LastsMoved
      <4>4. ExcusedNext(v.chat, v.at, v.msg) BY <1>3, <3>2 DEF Excuses
      <4> QED BY <4>2, <4>3, <4>4
    <3> QED BY <2>1, <3>1, <3>2
  <2>4. Traced' BY <2>3 DEF Traced, LastsNext, Lasts
  <2>5. Proven' BY <2>3 DEF Proven, ExcusedNext, Excused, Standing
  <2> QED BY <2>4, <2>5
<1>6. ASSUME NEW q \in Runs PROVE ReadWell(q)'
  <2>1. CASE q # r
    <3>1. run'[q] = run[q] BY <1>1, <2>1 DEF RunMoves, Ended, Keeps, OnlyRun
    <3> QED BY <1>3, <3>1, ReadKept
  <2>2. CASE q = r
    <3>1. \/ run'[r].pc \notin Early
          \/ run[r].pc \in Early /\ run'[r].pc \notin {"idle", "reporting"}
      BY <1>1 DEF RunWhere, ClaimBatch, ReadInputs, Early
    <3>2. Ended(r) \/ run'[r].list = run[r].list BY <1>1 DEF RunMoves, Keeps
    <3> QED BY <1>3, <2>2, <3>1, <3>2, ReadKept DEF Ended
  <2> QED BY <2>1, <2>2
<1> QED BY <1>1, <1>4, <1>5, <1>6 DEF ForgetInv

\* Steps that leave the runs alone.
LEMMA ForgetStill ==
    ASSUME TypeOK, Moves, ForgetInv, Excuses, evidence' \subseteq evidence, UNCHANGED run
    PROVE  ForgetInv'
<1>1. Traced' /\ Proven' BY ForgetProof
<1>2. \A q \in Runs : ReadWell(q)' BY ReadKept
<1> QED BY <1>1, <1>2 DEF ForgetInv

\* What stands no more is the message at the place that the deletion is about.
LEMMA ForgetBlank ==
    ASSUME TypeOK, TypeOK', RunBounds, Spots, Lists, ForgetInv,
           NEW e \in Erasers, NEW c \in Chats, NEW x \in DOMAIN chat[c], EraseBlanks(e, c, x)
    PROVE  ForgetInv'
<1>0. /\ UNCHANGED <<evidence, run, caught>> /\ x \in 1..Len(chat[c])
      /\ erase[e].step = "new"
      /\ erase' = [erase EXCEPT ![e] = [step |-> "blanked", chat |-> {c}, at |-> x]]
      /\ erase \in [Erasers -> Erasing]
      /\ chat' \in [Chats -> Seq(Entry)]
  BY ChatTyped DEF EraseBlanks, store, history, TypeOK
<1>1. /\ Spots' /\ Moves
      /\ \A d \in Chats : \A m \in Messages :
            Standing(d, m) => Standing(d, m)' \/ (d = c /\ chat[c][x].msg = m)
  BY MovesBlank
<1>2. \A d \in Chats : \A i \in 1..Len(chat[d]) : chat'[d][i].msg = chat[d][i].msg
  BY BlankIs DEF EraseBlanks
<1>3. \A d \in Erasers : erase[d].step = "blanked" => erase'[d] = erase[d] BY <1>0
<1>4. erase'[e].step = "blanked" /\ erase'[e].chat = {c} /\ erase'[e].at = x BY <1>0
<1>5. ASSUME NEW d \in Chats, NEW i \in Nat \ {0}, NEW m \in Messages, m # Omi, Lasts(d, i, m),
             Excused(d, i, m)
      PROVE  ExcusedNext(d, i, m)
  <2>1. ASSUME Standing(d, m) PROVE ExcusedNext(d, i, m)
    <3>1. CASE Standing(d, m)' BY <3>1 DEF Standing, ExcusedNext
    <3>2. CASE d = c /\ chat[c][x].msg = m
      <4>0. Len(chat[c]) \in Nat BY ChatTyped
      <4>1. i \in 1..Len(chat[c]) BY <1>5, <3>2, <4>0 DEF Lasts
      <4>2. CASE chat[c][i].msg # m
        <5>1. chat'[d][i].msg # m BY <1>2, <3>2, <4>1, <4>2
        <5> QED BY <5>1 DEF ExcusedNext
      <4>3. CASE chat[c][i].msg = m
        <5>1. i \in Mine(c) /\ x \in Mine(c) BY <1>0, <1>5, <3>2, <4>1, <4>3 DEF Mine
        <5>2. i = x BY <3>2, <4>3, <5>1 DEF Spots, OneSpot
        <5> QED BY <1>4, <3>2, <5>2 DEF ExcusedNext
      <4> QED BY <4>2, <4>3
    <3> QED BY <1>1, <2>1, <3>1, <3>2
  <2> QED BY <1>0, <1>1, <1>3, <1>5, <2>1, ExcusedKept
<1>6. ASSUME NEW v \in evidence PROVE ExcusedNext(v.chat, v.at, v.msg)
  <2>1. v.chat \in Chats /\ v.at \in Nat \ {0} /\ v.msg \in Messages BY DEF TypeOK, Evidence
  <2>2. v.msg # Omi /\ Lasts(v.chat, v.at, v.msg) /\ Excused(v.chat, v.at, v.msg)
    BY DEF ForgetInv, Traced, Proven
  <2> QED BY <1>5, <2>1, <2>2
<1>7. ASSUME NEW r \in Runs, run[r].pc \in Early, NEW i \in 1..Len(run[r].list), Meaningful(run[r].list, i)
      PROVE  ExcusedNext(Of[r], i, run[r].list[i].msg)
  <2>1. PICK m : m = run[r].list[i].msg OBVIOUS
  <2>2. /\ i \in Nat \ {0} /\ Of[r] \in Chats /\ m \in Messages /\ m # Omi
        /\ Lasts(Of[r], i, m)
    BY <1>7, <2>1, ListHas
  <2>3. Excused(Of[r], i, m) BY <1>7, <2>1 DEF ForgetInv, ReadWell
  <2>4. ExcusedNext(Of[r], i, m) BY <1>5, <2>2, <2>3
  <2> QED BY <2>1, <2>4
<1>8. Excuses BY <1>6, <1>7 DEF Excuses
<1> QED BY <1>0, <1>1, <1>8, ForgetStill

\* The place is forgotten, and what runs have read of the message is noted.
LEMMA ForgetForgets ==
    ASSUME TypeOK, RunBounds, Spots, Lists, ForgetInv, NEW e \in Erasers, EraseForgets(e)
    PROVE  ForgetInv'
<1>1. PICK c \in erase[e].chat :
        /\ evidence' = {v \in evidence : v.chat # c \/ v.at # erase[e].at}
        /\ caught' = caught \union ReadAndGone(c)
        /\ erase' = [erase EXCEPT ![e].step = "forgotten"]
        /\ again' = again \union Users(chat[c])
        /\ UNCHANGED <<chat, run>>
  BY DEF EraseForgets
<1>2. Moves BY <1>1, MovesStill
<1>3. \A d \in Erasers : d # e => erase'[d] = erase[d] BY <1>1 DEF TypeOK
<1>4. ASSUME NEW d \in Chats, NEW i \in Nat, NEW m, Excused(d, i, m)
      PROVE  ExcusedNext(d, i, m) \/ (~Standing(d, m) /\ d = c /\ erase[e].at = i)
  <2>1. CASE Standing(d, m) BY <1>1, <2>1 DEF Standing, ExcusedNext
  <2>2. CASE m \in caught BY <1>1, <2>2 DEF ExcusedNext
  <2>3. CASE chat[d][i].msg # m BY <1>1, <2>3 DEF ExcusedNext
  <2>4. ASSUME NEW g \in Erasers, erase[g].step = "blanked", erase[g].chat = {d}, erase[g].at = i,
               ~Standing(d, m)
        PROVE  ExcusedNext(d, i, m) \/ (~Standing(d, m) /\ d = c /\ erase[e].at = i)
    <3>1. CASE g = e BY <1>1, <2>4, <3>1
    <3>2. CASE g # e BY <1>3, <2>4, <3>2 DEF ExcusedNext
    <3> QED BY <3>1, <3>2
  <2> QED BY <1>4, <2>1, <2>2, <2>3, <2>4 DEF Excused
<1>5. ASSUME NEW v \in evidence' PROVE ExcusedNext(v.chat, v.at, v.msg)
  <2>1. v \in evidence /\ (v.chat # c \/ v.at # erase[e].at) BY <1>1
  <2>2. v.chat \in Chats /\ v.at \in Nat BY <2>1 DEF TypeOK, Evidence
  <2>3. Excused(v.chat, v.at, v.msg) BY <2>1 DEF ForgetInv, Proven
  <2> QED BY <1>4, <2>1, <2>2, <2>3
<1>6. ASSUME NEW r \in Runs, run[r].pc \in Early, NEW i \in 1..Len(run[r].list), Meaningful(run[r].list, i)
      PROVE  ExcusedNext(Of[r], i, run[r].list[i].msg)
  <2>1. PICK m : m = run[r].list[i].msg OBVIOUS
  <2>2. /\ i \in Nat \ {0} /\ Of[r] \in Chats /\ m \in Messages /\ m # Omi
        /\ Lasts(Of[r], i, m)
    BY <1>6, <2>1, ListHas
  <2>3. Excused(Of[r], i, m) BY <1>6, <2>1 DEF ForgetInv, ReadWell
  <2>4. CASE ExcusedNext(Of[r], i, m) BY <2>1, <2>4
  <2>5. CASE ~Standing(Of[r], m) /\ Of[r] = c
    <3>1. i \in DOMAIN run[r].list BY LenProperties DEF TypeOK, Run
    <3>2. Len(chat[c]) \in Nat /\ DOMAIN chat[c] = 1..Len(chat[c]) BY <2>2, <2>5, ChatTyped
    <3>3. PICK j \in i..Len(chat[c]) : chat[c][j].msg = m BY <2>2, <2>5 DEF Lasts
    <3>4. m \in Users(chat[c]) BY <2>2, <3>2, <3>3 DEF Users
    <3>5. m \in ReadAndGone(c) BY <1>6, <2>1, <2>5, <3>1, <3>4 DEF ReadAndGone, Early
    <3>6. ExcusedNext(Of[r], i, m) BY <1>1, <3>5 DEF ExcusedNext
    <3> QED BY <2>1, <3>6
  <2> QED BY <1>4, <2>2, <2>3, <2>4, <2>5
<1>7. Excuses BY <1>5, <1>6 DEF Excuses
<1> QED BY <1>1, <1>2, <1>7, ForgetStill

LEMMA ForgetStep ==
    TypeOK /\ RunBounds /\ Spots /\ Lists /\ ForgetInv /\ [Next]_vars => ForgetInv'
<1> SUFFICES ASSUME TypeOK, RunBounds, Spots, Lists, ForgetInv, [Next]_vars PROVE ForgetInv'
    OBVIOUS
<1>0. TypeOK' BY TypeStep
<1>1. CASE Quiet BY <1>0, <1>1, ForgetQuiet
<1>2. ASSUME NEW r \in Runs, RunStep(r) PROVE ForgetInv' BY <1>0, <1>2, ForgetRunStep
<1>3. ASSUME NEW r \in Runs, Overrun(r) PROVE ForgetInv'
  <2>1. UNCHANGED <<chat, run, evidence, caught, erase>> /\ again \subseteq again'
    BY <1>3 DEF Overrun, store
  <2>2. Spots' /\ Moves /\ Stands BY <2>1, MovesStill
  <2>3. Excuses BY <1>0, <2>1, <2>2, ExcusesKept
  <2> QED BY <2>1, <2>2, <2>3, ForgetStill
<1>4. ASSUME NEW e \in Erasers, NEW c \in Chats, NEW i \in DOMAIN chat[c], EraseBlanks(e, c, i)
      PROVE  ForgetInv'
  BY <1>0, <1>4, ForgetBlank
<1>5. ASSUME NEW e \in Erasers, EraseForgets(e) PROVE ForgetInv' BY <1>5, ForgetForgets
<1> QED BY <1>1, <1>2, <1>3, <1>4, <1>5, QuietOrLoud DEF Loud

LEMMA ForgetInit == Init => ForgetInv
<1> SUFFICES ASSUME Init PROVE ForgetInv
    OBVIOUS
<1>1. evidence = {} BY DEF Init
<1>2. \A r \in Runs : run[r].pc = "idle" BY DEF Init, IdleRun
<1> QED BY <1>1, <1>2 DEF ForgetInv, Traced, Proven, ReadWell, Early

\* When a deletion is done no memory rests on the message, but for a run that
\* had read it and was to apply its batch yet, and for a message that a reply
\* has moved from the place in the proof (message_deletion.py).
THEOREM DeletedForgotten == Spec => []DeletedIsForgotten
<1>1. Init => TypeOK /\ RunBounds /\ Spots /\ Lists /\ ForgetInv
  BY TypeInit, PlaceInit, ForgetInit
<1>2. TypeOK /\ RunBounds /\ Spots /\ Lists /\ ForgetInv /\ [Next]_vars
        => (TypeOK /\ RunBounds /\ Spots /\ Lists /\ ForgetInv)'
  BY TypeStep, PlaceStep, ForgetStep
<1>3. ForgetInv => DeletedIsForgotten
  BY DEF ForgetInv, Proven, Excused, DeletedIsForgotten
<1> QED BY <1>1, <1>2, <1>3, PTL DEF Spec

-----------------------------------------------------------------------------
(* No message is learnt twice.                                             *)

\* The user's lease is a row with the chat of the run that holds it.
Owned == \A l \in lease : l.owner \in Runs => l.chat = Of[l.owner]

\* A run at work has the user's lease, or what it reads may be learnt again.
Holds(r) ==
    run[r].pc \in AtWork =>
        (\E l \in lease : l.owner = r) \/ \A k \in run[r].batch : Heard(k) \subseteq again

\* The batch that the model is asked about is news.
News(r) ==
    run[r].pc \in {"claimed", "asking"} =>
        \A k \in run[r].batch : \A m \in Heard(k) : m \in again \/ lessons[m] = 0

\* What was learnt is before the cursor, or a run is to move the cursor past it.
Behind(m) ==
    \E c \in Chats : \E i \in Mine(c) : chat[c][i].msg = m /\ i <= cursor[c].through

Carried(m) ==
    \E r \in Runs :
        /\ run[r].pc \in {"applied", "written"}
        /\ \E k \in run[r].batch : k \in applied /\ m \in Heard(k)

Settled == \A m \in Messages : lessons[m] > 0 => m \in again \/ Behind(m) \/ Carried(m)

OnceInv == Owned /\ Settled /\ LearntOnce /\ \A r \in Runs : Holds(r) /\ News(r)

\* Two runs at work with the same message: one of them has lost the lease.
LEMMA Alone ==
    ASSUME TypeOK, OnceInv, NEW q \in Runs, NEW r \in Runs, q # r,
           run[q].pc \in AtWork, run[r].pc \in AtWork,
           NEW k \in run[q].batch, NEW l \in run[r].batch, NEW m \in Heard(k), m \in Heard(l)
    PROVE  m \in again
<1>1. (\E x \in lease : x.owner = q) \/ m \in again BY DEF OnceInv, Holds
<1>2. (\E x \in lease : x.owner = r) \/ m \in again BY DEF OnceInv, Holds
<1>3. \A x, y \in lease : x = y BY DEF TypeOK
<1> QED BY <1>1, <1>2, <1>3

\* The batch of a cursor that has not moved holds nothing that was learnt.
LEMMA NewsNow ==
    ASSUME TypeOK, RunBounds, Spots, Lists, OnceInv, NEW r \in Runs, run[r].pc = "held",
           CursorMatches(r), NEW k \in run[r].batch, NEW m \in Heard(k)
    PROVE  m \in again \/ lessons[m] = 0
<1> SUFFICES ASSUME m \notin again, lessons[m] # 0 PROVE FALSE
    OBVIOUS
<1>0. /\ Of[r] \in Chats /\ cursor[Of[r]].through \in Nat /\ m \in Messages /\ m # Omi
      /\ k.from \in Nat
  BY MemoryAssumption, RowPlace, SeenTyped, BatchTyped DEF TypeOK, Cursor
<1>1. PICK i \in k.from..LastIndex(k) : i \in 1..Len(chat[Of[r]]) /\ Stays(Of[r], i, m)
  BY RowPlace
<1>2. chat[Of[r]][i].msg = m /\ i \in Mine(Of[r]) BY <1>0, <1>1 DEF Stays, Mine
<1>3. cursor[Of[r]].through = run[r].seen.through /\ k.from = run[r].seen.through + 1
  BY DEF CursorMatches, Lists, Cut
<1>4. ~(i <= cursor[Of[r]].through) BY <1>0, <1>1, <1>3
<1>5. lessons[m] > 0
  <2>1. lessons[m] \in 0..2 BY <1>0 DEF TypeOK
  <2> QED BY <2>1
<1>6. CASE Behind(m)
  <2>1. PICK c \in Chats : \E j \in Mine(c) : chat[c][j].msg = m /\ j <= cursor[c].through
    BY <1>6 DEF Behind
  <2>2. PICK j \in Mine(c) : chat[c][j].msg = m /\ j <= cursor[c].through BY <2>1
  <2>3. m \in {c} \X (1..Cardinality(Mine(c))) /\ m \in {Of[r]} \X (1..Cardinality(Mine(Of[r])))
    BY <1>0, <1>2, <2>2 DEF Spots, Counted
  <2>4. c = Of[r] BY <2>3
  <2>5. i = j BY <1>2, <2>2, <2>4 DEF Spots, OneSpot
  <2> QED BY <1>4, <2>2, <2>4, <2>5
<1>7. CASE Carried(m)
  <2>1. PICK q \in Runs : /\ run[q].pc \in {"applied", "written"}
                          /\ \E l \in run[q].batch : m \in Heard(l)
    BY <1>7 DEF Carried
  <2>2. q # r /\ run[q].pc \in AtWork /\ run[r].pc \in AtWork BY <2>1 DEF AtWork
  <2> QED BY <2>1, <2>2, Alone
<1> QED BY <1>0, <1>5, <1>6, <1>7 DEF OnceInv, Settled

\* A message that was settled stays so while cursors only move on.
LEMMA SettledKept ==
    ASSUME TypeOK, TypeOK', OnceInv, Moves, again \subseteq again',
           \A c \in Chats : cursor[c].through <= cursor'[c].through,
           NEW m \in Messages, lessons[m] > 0,
           Carried(m) => m \in again' \/ Behind(m)' \/ Carried(m)'
    PROVE  m \in again' \/ Behind(m)' \/ Carried(m)'
<1>1. m \in again \/ Behind(m) \/ Carried(m) BY DEF OnceInv, Settled
<1>2. CASE Behind(m)
  <2>1. PICK c \in Chats : \E j \in Mine(c) : chat[c][j].msg = m /\ j <= cursor[c].through
    BY <1>2 DEF Behind
  <2>2. PICK i \in Mine(c) : chat[c][i].msg = m /\ i <= cursor[c].through BY <2>1
  <2>3. i \in Nat /\ i >= 1 /\ m # Omi BY <2>2 DEF Mine
  <2>4. PICK j \in i..Len(chat'[c]) : chat'[c][j].msg = m /\ (j = i \/ m \in again')
    BY <2>2 DEF Moves
  <2>5. Len(chat'[c]) \in Nat /\ cursor[c].through \in Nat /\ cursor'[c].through \in Nat
    BY LenProperties DEF TypeOK, Cursor
  <2>6. ASSUME j = i PROVE Behind(m)'
    <3>1. i \in Mine(c)' BY <2>3, <2>4, <2>5, <2>6 DEF Mine
    <3>2. cursor[c].through <= cursor'[c].through OBVIOUS
    <3>3. i <= cursor'[c].through BY <2>2, <2>3, <2>5, <3>2
    <3> QED BY <2>4, <2>6, <3>1, <3>3 DEF Behind
  <2> QED BY <2>4, <2>6
<1> QED BY <1>1, <1>2

\* Runs that change nothing are settled as they were.
LEMMA CarriedKept ==
    ASSUME NEW m \in Messages, Carried(m), applied \subseteq applied',
           \A q \in Runs : run'[q] = run[q] \/ run[q].pc \notin {"applied", "written"}
    PROVE  Carried(m)'
BY DEF Carried

LEMMA OnceQuiet ==
    ASSUME TypeOK, TypeOK', OnceInv, Quiet
    PROVE  OnceInv'
<1>1. Owned' BY DEF OnceInv, Owned, Quiet
<1>2. LearntOnce' BY DEF OnceInv, LearntOnce, Quiet
<1>3. ASSUME NEW q \in Runs PROVE Holds(q)' /\ News(q)'
  <2>1. CASE run'[q] = run[q]
    <3>1. Holds(q)' BY <2>1 DEF OnceInv, Holds, Quiet
    <3>2. News(q)' BY <2>1 DEF OnceInv, News, Quiet
    <3> QED BY <3>1, <3>2
  <2>2. CASE Begins(q) \/ Ended(q) \/ Picks(q)
    <3>1. run'[q].pc \in {"called", "idle", "reporting", "picked"}
      BY <2>2 DEF Begins, Ended, Picks
    <3> QED BY <3>1 DEF Holds, News, AtWork
  <2> QED BY <2>1, <2>2 DEF Quiet
<1>4. ASSUME NEW m \in Messages, lessons'[m] > 0 PROVE m \in again' \/ Behind(m)' \/ Carried(m)'
  <2>1. \A c \in Chats : cursor[c].through \in Nat BY DEF TypeOK, Cursor
  <2>2. \A c \in Chats : cursor[c].through <= cursor'[c].through BY <2>1 DEF Quiet
  <2>3. \A q \in Runs : run'[q] = run[q] \/ run[q].pc \notin {"applied", "written"} BY DEF Quiet
  <2>4. Carried(m) => Carried(m)' BY <2>3, CarriedKept DEF Quiet
  <2>5. Moves /\ again \subseteq again' /\ lessons[m] > 0 BY <1>4 DEF Quiet
  <2> QED BY <2>2, <2>4, <2>5, SettledKept
<1> QED BY <1>1, <1>2, <1>3, <1>4 DEF OnceInv, Settled

\* Saving a batch only moves its cursor on.
LEMMA CursorOn ==
    ASSUME TypeOK, RunBounds, NEW r \in Runs, NEW k \in run[r].batch, NEW v \in Nat, SaveState(k, v)
    PROVE  /\ \A c \in Chats : cursor[c].through <= cursor'[c].through
           /\ cursor'[Of[r]].through = LastIndex(k)
<1>0. /\ k \in Batch /\ k.chat = Of[r] /\ Of[r] \in Chats /\ LastIndex(k) \in Nat
      /\ \A c \in Chats : cursor[c].through \in Nat
      /\ cursor \in [Chats -> Cursor]
  BY SeenTyped, BatchTyped, MemoryAssumption DEF RunBounds, TypeOK, Cursor
<1>1. CASE AlreadySaved(k) /\ UNCHANGED cursor BY <1>0, <1>1 DEF AlreadySaved
<1>2. CASE MaySave(k, v) /\ cursor' = [cursor EXCEPT ![k.chat] =
                                [through |-> LastIndex(k), version |-> v + 1, last |-> {k}]]
  <2>1. cursor[Of[r]].through < LastIndex(k) BY <1>0, <1>2 DEF MaySave
  <2>2. cursor'[Of[r]].through = LastIndex(k) BY <1>0, <1>2
  <2>3. \A c \in Chats : c # Of[r] => cursor'[c] = cursor[c] BY <1>0, <1>2
  <2> QED BY <1>0, <2>1, <2>2, <2>3
<1> QED BY <1>1, <1>2 DEF SaveState

LEMMA CursorsOn ==
    ASSUME TypeOK, RunBounds, NEW r \in Runs, RunStep(r)
    PROVE  \A c \in Chats : cursor[c].through <= cursor'[c].through
<1>0. \A c \in Chats : cursor[c].through \in Nat BY DEF TypeOK, Cursor
<1>1. CASE UNCHANGED cursor BY <1>0, <1>1
<1>2. CASE SaveCursor(r)
  <2>1. UNCHANGED cursor \/ \E k \in run[r].batch : SaveState(k, run[r].seen.version)
    BY <1>2 DEF SaveCursor
  <2> QED BY <1>1, <2>1, SeenTyped, CursorOn
<1>3. CASE SkipBatch(r)
  <2>1. UNCHANGED cursor \/ \E k \in run[r].batch : SaveState(k, run[r].seen.version)
    BY <1>3 DEF SkipBatch
  <2> QED BY <1>1, <2>1, SeenTyped, CursorOn
<1> QED BY <1>1, <1>2, <1>3, RunStepLeaves

\* What a run carries it hands over: to the cursor, or to those who may read again.
LEMMA HandsOver ==
    ASSUME TypeOK, RunBounds, Lists, NEW r \in Runs, RunStep(r),
           run[r].pc \in {"applied", "written"},
           NEW k \in run[r].batch, k \in applied, NEW m \in Heard(k)
    PROVE  m \in again' \/ Behind(m)' \/ Carried(m)'
<1>0. \A l \in run[r].batch : l = k BY DEF RunBounds
<1>1. ASSUME CutShort(r) PROVE m \in again' BY <1>1 DEF CutShort
<1>2. CASE SaveExtras(r)
  <2>0. "written" \in Steps /\ {} \in SUBSET Messages /\ run \in [Runs -> Run] BY DEF Steps, TypeOK
  <2>3. Becomes(r, [run[r] EXCEPT !.pc = "written", !.card = {}]) BY <1>2 DEF SaveExtras
  <2>1. Keeps(r, "written") BY <2>0, <2>3, ReadKeeps
  <2>2. UNCHANGED applied BY <1>2 DEF SaveExtras, store
  <2> QED BY <2>1, <2>2 DEF Keeps, Carried
<1>3. CASE SaveCursor(r)
  <2>1. CASE CutShort(r) BY <1>1, <2>1
  <2>2. CASE SaveState(k, run[r].seen.version)
    <3>1. cursor'[Of[r]].through = LastIndex(k) BY <2>2, SeenTyped, CursorOn
    <3>2. PICK i \in k.from..LastIndex(k) : i \in 1..Len(chat[Of[r]]) /\ Stays(Of[r], i, m) /\ m # Omi
      BY RowPlace
    <3>3. CASE m \in again BY <3>3, RunStepLeaves
    <3>4. CASE chat[Of[r]][i].msg = m
      <4>1. UNCHANGED chat BY <1>3 DEF SaveCursor
      <4>2. i \in Mine(Of[r])' /\ Of[r] \in Chats BY <3>2, <3>4, <4>1, MemoryAssumption DEF Mine
      <4>3. i <= cursor'[Of[r]].through BY <3>1, <3>2
      <4> QED BY <3>4, <4>1, <4>2, <4>3 DEF Behind
    <3> QED BY <3>2, <3>3, <3>4 DEF Stays
  <2> QED BY <1>0, <1>3, <2>1, <2>2 DEF SaveCursor
<1>4. CASE WriteFails(r) \/ Crash(r) BY <1>1, <1>4 DEF WriteFails, Crash
<1> QED BY <1>2, <1>3, <1>4
        DEF RunStep, HoldUser, ClaimBatch, ReadInputs, ApplyMemories, CountFailure, SkipBatch,
            Release, Outage, BadContent

\* What a run's step makes of what was learnt.
LEMMA LearntStep ==
    ASSUME TypeOK, RunBounds, OnceInv, NEW r \in Runs, RunStep(r), NEW m \in Messages
    PROVE  \/ lessons'[m] = lessons[m]
           \/ /\ run[r].pc = "asking" /\ run'[r].pc = "applied"
              /\ \E k \in run[r].batch : m \in Heard(k) /\ k \in applied'
              /\ lessons'[m] > 1 => m \in again
<1>1. CASE UNCHANGED lessons BY <1>1
<1>2. CASE ApplyMemories(r)
  <2>1. PICK k \in run[r].batch :
          /\ run[r].pc = "asking" /\ Goes(r, "applied")
          /\ \/ UNCHANGED <<applied, lessons>>
             \/ /\ applied' = applied \union {k}
                /\ lessons' = [n \in Messages |-> IF n \in Heard(k) /\ lessons[n] < 2
                                                  THEN lessons[n] + 1 ELSE lessons[n]]
    BY <1>2 DEF ApplyMemories
  <2>2. run'[r].pc = "applied" BY <2>1, GoesKeeps DEF Keeps, Steps, TypeOK
  <2>3. m \in Heard(k) => m \in again \/ lessons[m] = 0 BY <2>1 DEF OnceInv, News
  <2>4. CASE UNCHANGED <<applied, lessons>> BY <2>4
  <2>5. CASE /\ applied' = applied \union {k}
             /\ lessons' = [n \in Messages |-> IF n \in Heard(k) /\ lessons[n] < 2
                                               THEN lessons[n] + 1 ELSE lessons[n]]
    <3>1. lessons'[m] = IF m \in Heard(k) /\ lessons[m] < 2 THEN lessons[m] + 1 ELSE lessons[m]
      BY <2>5
    <3>2. CASE m \in Heard(k)
      <4>1. lessons'[m] > 1 => m \in again BY <2>3, <3>1, <3>2
      <4>2. k \in applied' BY <2>5
      <4> QED BY <2>1, <2>2, <3>2, <4>1, <4>2
    <3>3. CASE m \notin Heard(k) BY <3>1, <3>3
    <3> QED BY <3>2, <3>3
  <2> QED BY <2>1, <2>4, <2>5
<1> QED BY <1>1, <1>2, RunStepLeaves

LEMMA OnceRunStep ==
    ASSUME TypeOK, TypeOK', RunBounds, Spots, Lists, OnceInv, NEW r \in Runs, RunStep(r)
    PROVE  OnceInv'
<1>1. /\ RunMoves(r) /\ RunWhere(r) /\ UNCHANGED <<chat, erase, caught>> /\ again \subseteq again'
      /\ OnlyRun(r) /\ (Ended(r) \/ \E s : Keeps(r, s))
  BY RunStepMoves, RunStepWhere, RunStepLeaves DEF RunMoves, Ended, Keeps
<1>2. Moves BY <1>1, MovesStill
<1>3. Owned'
  <2>1. CASE HoldUser(r)
    <3>1. lease' = lease \/ lease' = {[owner |-> r, chat |-> Of[r]]} BY <2>1 DEF HoldUser
    <3> QED BY <3>1 DEF OnceInv, Owned
  <2>2. CASE Release(r) BY <2>2 DEF Release, OnceInv, Owned
  <2>3. CASE Crash(r)
    <3>1. \A l \in lease' : l \in lease \/ \E x \in lease : l = [x EXCEPT !.owner = Nobody]
      BY <2>3 DEF Crash
    <3>2. \A x \in lease : [x EXCEPT !.owner = Nobody].owner = Nobody BY DEF TypeOK, Lease
    <3>3. SUFFICES ASSUME NEW l \in lease', l.owner \in Runs PROVE l.chat = Of[l.owner]
      BY DEF Owned
    <3>4. l.owner # Nobody BY <3>3, MemoryAssumption
    <3>5. l \in lease BY <3>1, <3>2, <3>4
    <3> QED BY <3>3, <3>5 DEF OnceInv, Owned
  <2>4. CASE UNCHANGED lease BY <2>4 DEF OnceInv, Owned
  <2> QED BY <2>1, <2>2, <2>3, <2>4, RunStepLeaves
<1>4. LearntOnce'
  <2> SUFFICES ASSUME NEW m \in Messages, lessons'[m] > 1 PROVE m \in again'
    BY DEF LearntOnce
  <2>1. CASE lessons'[m] = lessons[m] BY <1>1, <2>1 DEF OnceInv, LearntOnce
  <2>2. CASE lessons'[m] > 1 => m \in again BY <1>1, <2>2
  <2> QED BY <2>1, <2>2, LearntStep
<1>5. Settled'
  <2> SUFFICES ASSUME NEW m \in Messages, lessons'[m] > 0
               PROVE  m \in again' \/ Behind(m)' \/ Carried(m)'
    BY DEF Settled
  <2>1. CASE lessons'[m] = lessons[m]
    <3>1. ASSUME Carried(m) PROVE m \in again' \/ Behind(m)' \/ Carried(m)'
      <4>1. PICK q \in Runs : /\ run[q].pc \in {"applied", "written"}
                              /\ \E k \in run[q].batch : k \in applied /\ m \in Heard(k)
        BY <3>1 DEF Carried
      <4>2. CASE q = r BY <4>1, <4>2, HandsOver
      <4>3. CASE q # r
        <5>1. run'[q] = run[q] BY <1>1, <4>3 DEF OnlyRun
        <5>2. applied \subseteq applied'
          <6>1. CASE ApplyMemories(r) BY <6>1 DEF ApplyMemories
          <6> QED BY <6>1, RunStepLeaves
        <5> QED BY <4>1, <5>1, <5>2 DEF Carried
      <4> QED BY <4>2, <4>3
    <3>2. \A c \in Chats : cursor[c].through <= cursor'[c].through BY CursorsOn
    <3> QED BY <1>1, <1>2, <2>1, <3>1, <3>2, SettledKept
  <2>2. CASE /\ run[r].pc = "asking" /\ run'[r].pc = "applied"
             /\ \E k \in run[r].batch : m \in Heard(k) /\ k \in applied'
    <3>1. run'[r].batch = run[r].batch BY <1>1, <2>2 DEF Ended, Keeps
    <3> QED BY <2>2, <3>1 DEF Carried
  <2> QED BY <2>1, <2>2, LearntStep
<1>6. ASSUME NEW q \in Runs, q # r PROVE Holds(q)' /\ News(q)'
  <2>1. run'[q] = run[q] BY <1>1, <1>6 DEF OnlyRun
  <2>2. Holds(q)'
    <3> SUFFICES ASSUME run[q].pc \in AtWork
                 PROVE  (\E l \in lease' : l.owner = q) \/ \A k \in run[q].batch : Heard(k) \subseteq again'
      BY <2>1 DEF Holds
    <3>1. CASE \E l \in lease : l.owner = q BY <1>6, <3>1, OthersHeld
    <3>2. CASE \A k \in run[q].batch : Heard(k) \subseteq again BY <1>1, <3>2
    <3> QED BY <3>1, <3>2 DEF OnceInv, Holds
  <2>3. News(q)'
    <3> SUFFICES ASSUME run[q].pc \in {"claimed", "asking"}, NEW k \in run[q].batch, NEW m \in Heard(k)
                 PROVE  m \in again' \/ lessons'[m] = 0
      BY <2>1 DEF News
    <3>0. m \in Messages BY RowPlace
    <3>1. m \in again \/ lessons[m] = 0 BY DEF OnceInv, News
    <3>2. CASE lessons'[m] = lessons[m] BY <1>1, <3>1, <3>2
    <3>3. CASE run[r].pc = "asking" /\ \E l \in run[r].batch : m \in Heard(l)
      <4>1. run[q].pc \in AtWork /\ run[r].pc \in AtWork BY <3>3 DEF AtWork
      <4>2. m \in again BY <1>6, <3>3, <4>1, Alone
      <4> QED BY <1>1, <4>2
    <3> QED BY <3>0, <3>2, <3>3, LearntStep
  <2> QED BY <2>2, <2>3
<1>7. Holds(r)'
  <2> SUFFICES ASSUME run'[r].pc \in AtWork
               PROVE  \/ \E l \in lease' : l.owner = r
                      \/ \A k \in run'[r].batch : Heard(k) \subseteq again'
    BY DEF Holds
  <2>1. CASE run'[r].pc = "held"
    <3>1. lease' = {[owner |-> r, chat |-> Of[r]]} BY <1>1, <2>1 DEF RunWhere, HoldUser
    <3> QED BY <3>1
  <2>2. CASE run'[r].pc # "held"
    <3>1. ~Ended(r) BY DEF Ended, AtWork
    <3>2. run[r].pc \in AtWork /\ UNCHANGED lease /\ run'[r].batch = run[r].batch
      <4>1. CASE ReadInputs(r) BY <1>1, <3>1, <4>1 DEF ReadInputs, AtWork, Keeps
      <4>2. CASE ApplyMemories(r) BY <1>1, <3>1, <4>2 DEF ApplyMemories, AtWork, Keeps
      <4>3. CASE SaveExtras(r) BY <1>1, <3>1, <4>3 DEF SaveExtras, AtWork, Keeps
      <4>4. CASE /\ run[r].pc \in {"held", "claimed", "asking", "applied", "written", "failing", "skipping"}
                 /\ UNCHANGED lease
        BY <1>1, <3>1, <4>4 DEF AtWork, Keeps
      <4> QED BY <1>1, <2>2, <3>1, <4>1, <4>2, <4>3, <4>4 DEF RunMoves, Keeps
    <3> QED BY <1>1, <3>2 DEF OnceInv, Holds
  <2> QED BY <2>1, <2>2
<1>8. News(r)'
  <2> SUFFICES ASSUME run'[r].pc \in {"claimed", "asking"}, NEW k \in run'[r].batch, NEW m \in Heard(k)
               PROVE  m \in again' \/ lessons'[m] = 0
    BY DEF News
  <2>1. k \in run[r].batch BY <1>1 DEF Ended, Keeps
  <2>2. m \in Messages BY <2>1, RowPlace
  <2>3. lessons'[m] = lessons[m] BY <2>2, LearntStep
  <2>4. m \in again \/ lessons[m] = 0
    <3>1. CASE run'[r].pc = "claimed"
      <4>1. run[r].pc = "held" /\ CursorMatches(r) BY <1>1, <3>1 DEF RunWhere, ClaimBatch
      <4> QED BY <2>1, <4>1, NewsNow
    <3>2. CASE run'[r].pc = "asking"
      <4>1. run[r].pc = "claimed" BY <1>1, <3>2 DEF RunWhere, ReadInputs
      <4> QED BY <2>1, <4>1 DEF OnceInv, News
    <3> QED BY <3>1, <3>2
  <2> QED BY <1>1, <2>3, <2>4
<1> QED BY <1>3, <1>4, <1>5, <1>6, <1>7, <1>8 DEF OnceInv

\* Losing the lease, and the deletion of a message.
LEMMA OnceOverrun ==
    ASSUME TypeOK, TypeOK', Spots, OnceInv, NEW r \in Runs, Overrun(r)
    PROVE  OnceInv'
<1>1. /\ UNCHANGED <<chat, cursor, applied, lessons, run>> /\ lease' = {} /\ again \subseteq again'
      /\ \A k \in run[r].batch : Heard(k) \subseteq again'
  BY DEF Overrun, store
<1>2. \A l \in lease : l.owner = r BY DEF Overrun, TypeOK
<1>3. Moves BY <1>1, MovesStill
<1>4. Owned' /\ LearntOnce' BY <1>1 DEF OnceInv, Owned, LearntOnce
<1>5. ASSUME NEW q \in Runs PROVE Holds(q)' /\ News(q)'
  <2>1. News(q)' BY <1>1 DEF OnceInv, News
  <2>2. Holds(q)' BY <1>1, <1>2 DEF OnceInv, Holds
  <2> QED BY <2>1, <2>2
<1>6. ASSUME NEW m \in Messages, lessons'[m] > 0 PROVE m \in again' \/ Behind(m)' \/ Carried(m)'
  <2>1. \A c \in Chats : cursor[c].through \in Nat BY DEF TypeOK, Cursor
  <2>2. \A c \in Chats : cursor[c].through <= cursor'[c].through BY <1>1, <2>1
  <2>3. Carried(m) => Carried(m)' BY <1>1, CarriedKept
  <2> QED BY <1>1, <1>3, <1>6, <2>2, <2>3, SettledKept
<1> QED BY <1>4, <1>5, <1>6 DEF OnceInv, Settled

LEMMA OnceBlank ==
    ASSUME TypeOK, TypeOK', Spots, OnceInv, NEW e \in Erasers, NEW c \in Chats, NEW x \in DOMAIN chat[c],
           EraseBlanks(e, c, x)
    PROVE  OnceInv'
<1>1. UNCHANGED <<cursor, applied, lessons, run, lease, again>> BY DEF EraseBlanks, store, history
<1>2. Moves BY MovesBlank
<1>3. Owned' /\ LearntOnce' BY <1>1 DEF OnceInv, Owned, LearntOnce
<1>4. ASSUME NEW q \in Runs PROVE Holds(q)' /\ News(q)'
  BY <1>1 DEF OnceInv, News, Holds
<1>5. ASSUME NEW m \in Messages, lessons'[m] > 0 PROVE m \in again' \/ Behind(m)' \/ Carried(m)'
  <2>1. \A d \in Chats : cursor[d].through \in Nat BY DEF TypeOK, Cursor
  <2>2. \A d \in Chats : cursor[d].through <= cursor'[d].through BY <1>1, <2>1
  <2>3. Carried(m) => Carried(m)' BY <1>1, CarriedKept
  <2> QED BY <1>1, <1>2, <1>5, <2>2, <2>3, SettledKept
<1> QED BY <1>3, <1>4, <1>5 DEF OnceInv, Settled

\* All that the chat has may be read again.
LEMMA OnceForgets ==
    ASSUME TypeOK, RunBounds, Spots, Lists, OnceInv, NEW e \in Erasers, EraseForgets(e)
    PROVE  OnceInv'
<1>1. PICK c \in erase[e].chat :
        /\ cursor' = [cursor EXCEPT ![c] = NoCursor]
        /\ applied' = {k \in applied : k.chat # c}
        /\ lease' = {l \in lease : l.chat # c}
        /\ again' = again \union Users(chat[c])
        /\ UNCHANGED <<chat, run, lessons>>
  BY DEF EraseForgets
<1>0. c \in Chats BY DEF TypeOK, Erasing
<1>2. Owned' /\ LearntOnce' BY <1>1 DEF OnceInv, Owned, LearntOnce
<1>3. ASSUME NEW q \in Runs, Of[q] = c, NEW k \in run[q].batch, NEW m \in Heard(k) PROVE m \in again'
  <2>1. PICK i : i \in Nat /\ i >= 1 /\ Lasts(c, i, m) /\ m # Omi
    <3>1. PICK i \in k.from..LastIndex(k) : i \in 1..Len(chat[c]) /\ Lasts(c, i, m) /\ m # Omi
      BY <1>3, RowPlace
    <3> QED BY <3>1
  <2>2. PICK j \in i..Len(chat[c]) : chat[c][j].msg = m BY <2>1 DEF Lasts
  <2>3. j \in DOMAIN chat[c] BY <1>0, <2>1, <2>2, ChatTyped
  <2>4. m \in Users(chat[c]) BY <2>1, <2>2, <2>3 DEF Users
  <2> QED BY <1>1, <2>4
<1>4. ASSUME NEW q \in Runs PROVE Holds(q)' /\ News(q)'
  <2>1. News(q)' BY <1>1 DEF OnceInv, News
  <2>2. Holds(q)'
    <3> SUFFICES ASSUME run[q].pc \in AtWork
                 PROVE  (\E l \in lease' : l.owner = q) \/ \A k \in run[q].batch : Heard(k) \subseteq again'
      BY <1>1 DEF Holds
    <3>1. ASSUME NEW l \in lease, l.owner = q
          PROVE  (\E x \in lease' : x.owner = q) \/ \A k \in run[q].batch : Heard(k) \subseteq again'
      <4>1. l.chat = Of[q] BY <3>1 DEF OnceInv, Owned
      <4>2. CASE Of[q] = c BY <1>3, <4>2
      <4>3. CASE Of[q] # c BY <1>1, <3>1, <4>1, <4>3
      <4> QED BY <4>2, <4>3
    <3>2. CASE \A k \in run[q].batch : Heard(k) \subseteq again BY <1>1, <3>2
    <3> QED BY <3>1, <3>2 DEF OnceInv, Holds
  <2> QED BY <2>1, <2>2
<1>5. ASSUME NEW m \in Messages, lessons[m] > 0 PROVE m \in again' \/ Behind(m)' \/ Carried(m)'
  <2>1. CASE m \in again BY <1>1, <2>1
  <2>2. CASE Behind(m)
    <3>1. PICK d \in Chats : \E i \in Mine(d) : chat[d][i].msg = m /\ i <= cursor[d].through
      BY <2>2 DEF Behind
    <3>2. CASE d = c
      <4>1. PICK i \in Mine(c) : chat[c][i].msg = m BY <3>1, <3>2
      <4>2. i \in DOMAIN chat[c] /\ m # Omi BY <1>0, <4>1, ChatTyped DEF Mine
      <4>3. m \in Users(chat[c]) BY <4>1, <4>2 DEF Users
      <4> QED BY <1>1, <4>3
    <3>3. CASE d # c
      <4>1. cursor'[d] = cursor[d] /\ Mine(d)' = Mine(d) BY <1>1, <3>3 DEF Mine, TypeOK
      <4> QED BY <1>1, <3>1, <4>1 DEF Behind
    <3> QED BY <3>2, <3>3
  <2>3. CASE Carried(m)
    <3>1. PICK q \in Runs : /\ run[q].pc \in {"applied", "written"}
                            /\ \E k \in run[q].batch : k \in applied /\ m \in Heard(k)
      BY <2>3 DEF Carried
    <3>2. CASE Of[q] = c BY <1>3, <3>1, <3>2
    <3>3. CASE Of[q] # c
      <4>1. \A k \in run[q].batch : k.chat = Of[q] BY DEF RunBounds
      <4> QED BY <1>1, <3>1, <3>3, <4>1 DEF Carried
    <3> QED BY <3>2, <3>3
  <2> QED BY <1>5, <2>1, <2>2, <2>3 DEF OnceInv, Settled
<1>6. Settled' BY <1>1, <1>5 DEF Settled
<1> QED BY <1>2, <1>4, <1>6 DEF OnceInv

LEMMA OnceStep ==
    TypeOK /\ RunBounds /\ Spots /\ Lists /\ OnceInv /\ [Next]_vars => OnceInv'
<1> SUFFICES ASSUME TypeOK, RunBounds, Spots, Lists, OnceInv, [Next]_vars PROVE OnceInv'
    OBVIOUS
<1>0. TypeOK' BY TypeStep
<1>1. CASE Quiet BY <1>0, <1>1, OnceQuiet
<1>2. ASSUME NEW r \in Runs, RunStep(r) \/ Overrun(r) PROVE OnceInv'
  BY <1>0, <1>2, OnceRunStep, OnceOverrun
<1>3. ASSUME NEW e \in Erasers, NEW c \in Chats, NEW i \in DOMAIN chat[c], EraseBlanks(e, c, i)
      PROVE  OnceInv'
  BY <1>0, <1>3, OnceBlank
<1>4. ASSUME NEW e \in Erasers, EraseForgets(e) PROVE OnceInv' BY <1>4, OnceForgets
<1> QED BY <1>1, <1>2, <1>3, <1>4, QuietOrLoud DEF Loud

LEMMA OnceInit == Init => OnceInv
<1> SUFFICES ASSUME Init PROVE OnceInv
    OBVIOUS
<1>1. lease = {} /\ \A m \in Messages : lessons[m] = 0 BY DEF Init
<1>2. \A r \in Runs : run[r].pc = "idle" BY DEF Init, IdleRun
<1> QED BY <1>1, <1>2 DEF OnceInv, Owned, Settled, LearntOnce, Holds, News, AtWork

\* A message is learnt in one batch, whatever jobs and tasks meet in its chat,
\* unless a reply lands above it, a message of its chat is deleted, or a run is
\* cut short after it applied the batch or loses the user's lease
\* (claim_user_background_lease, claim_memory_processing_batch,
\* save_memory_processing_state).
THEOREM NothingLearntTwice == Spec => []LearntOnce
<1>1. Init => TypeOK /\ RunBounds /\ Spots /\ Lists /\ OnceInv
  BY TypeInit, PlaceInit, OnceInit
<1>2. TypeOK /\ RunBounds /\ Spots /\ Lists /\ OnceInv /\ [Next]_vars
        => (TypeOK /\ RunBounds /\ Spots /\ Lists /\ OnceInv)'
  BY TypeStep, PlaceStep, OnceStep
<1>3. OnceInv => LearntOnce
  BY DEF OnceInv
<1> QED BY <1>1, <1>2, <1>3, PTL DEF Spec

=============================================================================
