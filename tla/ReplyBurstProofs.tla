---------------------------- MODULE ReplyBurstProofs ----------------------------
(***************************************************************************)
(* The safety of a chat while Omi answers it, for any requests, hosting    *)
(* jobs, deletions and mishaps: types; that no reply hides a message; that *)
(* a burst closes only over served messages; that a message is answered    *)
(* once.                                                                   *)
(***************************************************************************)
EXTENDS ReplyBurst, FiniteSetTheorems, SequenceTheorems, TLAPS

\* A message of the user that is there.
UserAt(list, k) == list[k].from = "user" /\ Stands(list, k)

\* Something of Omi's is at or below k, deleted or not, or a message closed.
Passed(list, k) == \E j \in k..Len(list) : list[j].from # "user" \/ list[j].status = "closed"

\* A list as the chat is, when "begun" have sent and "known" are answered or left
\* behind in a way the code knows of: each message is there once, and what Omi has
\* passed is known.
Sound(list, begun, known) ==
    /\ list \in Seq(Entry)
    /\ \A k \in 1..Len(list) : list[k].from # "own" => list[k].msg \in Requests
    /\ \A k \in 1..Len(list) : list[k].from = "user" => list[k].msg \in begun
    /\ \A j, k \in 1..Len(list) :
          list[j].from = "user" /\ list[k].from = "user" /\ list[j].msg = list[k].msg => j = k
    /\ \A k \in 1..Len(list) : UserAt(list, k) /\ Passed(list, k) => list[k].msg \in known

\* A draft reads what was sent, and every message down to its last one that is
\* not known.
Fits(d, list, begun, known) ==
    /\ d.last \in begun /\ d.reads \subseteq begun
    /\ \A i \in 1..Len(list) : UserAt(list, i) /\ list[i].msg = d.last =>
          \A k \in 1..i : UserAt(list, k) => list[k].msg \in d.reads \union known

\* Messages nobody has answered, nor left behind, nor offers for Retry.
Opens(list, known) ==
    {list[k].msg : k \in {k \in 1..Len(list) :
        UserAt(list, k) /\ list[k].status # "failed" /\ list[k].msg \notin known}}

\* What a draft read is not above its last message.
InOrder(d, list) ==
    \A i, k \in 1..Len(list) :
        UserAt(list, i) /\ list[i].msg = d.last /\ UserAt(list, k) /\ list[k].msg \in d.reads => k <= i

Begun == {r \in Requests : req[r].pc # "new"}
KnownNow == {m \in Requests : replies[m] > 0} \union unserved

Lists == Sound(chat, Begun, KnownNow) /\ \A e \in Erasers : Sound(erase[e].list, Begun, KnownNow)

Drafts == \A r \in Requests : \A d \in req[r].draft : Fits(d, chat, Begun, KnownNow)

Shape ==
    /\ burst \in SUBSET Burst /\ \A a, b \in burst : a = b
    /\ req \in [Requests -> Request]
    /\ \A r \in Requests : \A c, d \in req[r].draft : c = d
    /\ \A r \in Requests : req[r].draft # {} => req[r].pc \in {"written", "ready"}
    /\ host \in [Hosts -> Host]
    /\ \A h \in Hosts : host[h].step # "done" => host[h].tries < HostTries
    /\ erase \in [Erasers -> Eraser]
    /\ mishaps \in 0..MaxMishaps
    /\ counted \subseteq Requests /\ unserved \subseteq Requests
    /\ replies \in [Requests -> 0..2]
    /\ twice \in BOOLEAN

\* Who keeps a lease has it, and has seen no more arrivals than there were.
Lease ==
    /\ \A r \in Requests : req[r].keeps => \E b \in burst : b.token = r /\ b.live
    /\ \A b \in burst : req[b.token].pc \in {"quiet", "written", "ready", "shown"} =>
                            req[b.token].seen <= b.arrivals

\* An open message is with somebody: a request that has still to join, or the
\* replier, who has still to draft, has it in the draft, or will find that more
\* has arrived.
Served ==
    \A m \in Opens(chat, KnownNow) :
        \/ \E r \in Requests : req[r].pc = "saved"
        \/ burst = {} /\ \E r \in Requests : req[r].pc = "joining"
        \/ \E b \in burst :
              \/ req[b.token].pc \notin {"written", "ready", "shown"}
              \/ b.arrivals > req[b.token].seen
              \/ \E d \in req[b.token].draft : m \in d.reads

\* While no lease was lost and nothing deleted: who is at a reply has the lease, what
\* was answered does not wait, and what a draft read nobody else has answered.
Once ==
    ~twice =>
        /\ \A r \in Requests : req[r].pc \in Active => req[r].keeps
        /\ \A m \in Requests : replies[m] < 2
        /\ \A m \in Requests \ Begun : replies[m] = 0
        /\ \A k \in Unanswered(chat) : replies[chat[k].msg] = 0
        /\ \A r \in Requests : \A d \in req[r].draft :
              InOrder(d, chat) /\ \A m \in d.reads : replies[m] = 0

BurstInv == Shape /\ Lists /\ Drafts /\ Lease /\ Served /\ Once

-----------------------------------------------------------------------------
(* The least and the greatest of some numbers.                             *)

LEMMA NatMin == ASSUME NEW X \in SUBSET Nat, X # {} PROVE \E x \in X : \A y \in X : x <= y
<1> DEFINE Below == {0..x : x \in X}
<1>1. IsWellFoundedOn(StrictSubsetOrdering(Nat), FiniteSubsetsOf(Nat))
  BY FS_StrictSubsetOrderingWellFounded
<1>2. Below \subseteq FiniteSubsetsOf(Nat) /\ Below # {}
  <2>1. ASSUME NEW x \in X PROVE 0..x \in FiniteSubsetsOf(Nat)
    <3>1. IsFiniteSet(0..x) BY FS_Interval
    <3>2. 0..x \subseteq Nat OBVIOUS
    <3> QED BY <3>1, <3>2 DEF FiniteSubsetsOf
  <2> QED BY <2>1
<1>3. PICK b \in Below : \A c \in Below : <<c, b>> \notin StrictSubsetOrdering(Nat)
  <2> HIDE DEF Below
  <2> QED BY <1>1, <1>2, WFMin
<1>4. PICK x \in X : b = 0..x OBVIOUS
<1>5. ASSUME NEW y \in X PROVE x <= y
  <2>1. 0..y \in Below OBVIOUS
  <2>2. ~(0..y \subseteq 0..x) \/ 0..y = 0..x
    <3>1. <<0..y, 0..x>> \notin StrictSubsetOrdering(Nat) BY <1>3, <1>4, <2>1
    <3>2. 0..y \in SUBSET Nat /\ 0..x \in SUBSET Nat OBVIOUS
    <3> HIDE DEF Below
    <3> QED BY <3>1, <3>2 DEF StrictSubsetOrdering
  <2>3. x \in Nat /\ y \in Nat OBVIOUS
  <2>4. y < x => 0..y \subseteq 0..x /\ x \notin 0..y BY <2>3
  <2> QED BY <2>2, <2>3, <2>4
<1> QED BY <1>5

LEMMA NatMax ==
  ASSUME NEW n \in Nat, NEW X \in SUBSET (0..n), X # {}
  PROVE  \E x \in X : \A y \in X : y <= x
<1> DEFINE Y == {n - x : x \in X}
<1>1. Y \in SUBSET Nat /\ Y # {}
  <2>1. \A x \in X : x \in 0..n /\ n - x \in Nat OBVIOUS
  <2> QED BY <2>1
<1>2. PICK y \in Y : \A z \in Y : y <= z
  <2> HIDE DEF Y
  <2> QED BY <1>1, NatMin
<1>3. PICK x \in X : y = n - x OBVIOUS
<1>4. ASSUME NEW z \in X PROVE z <= x
  <2>1. n - x <= n - z BY <1>2, <1>3
  <2> QED BY <2>1
<1> QED BY <1>4

-----------------------------------------------------------------------------
(* Editing a list.                                                         *)

\* An entry given a status.
LEMMA EntryMarked ==
  ASSUME NEW a \in Entry, NEW s \in Status
  PROVE  LET b == [a EXCEPT !.status = s] IN
         b \in Entry /\ b.from = a.from /\ b.msg = a.msg /\ b.status = s
BY DEF Entry

LEMMA MarkedIs ==
  ASSUME NEW L \in Seq(Entry), NEW I, NEW s \in Status
  PROVE  LET N == Marked(L, I, s) IN
         /\ N \in Seq(Entry) /\ Len(N) = Len(L)
         /\ \A k \in 1..Len(L) : /\ N[k].from = L[k].from /\ N[k].msg = L[k].msg
                                 /\ N[k].status = IF k \in I THEN s ELSE L[k].status
<1>1. DOMAIN L = 1..Len(L) /\ Len(L) \in Nat /\ \A k \in 1..Len(L) : L[k] \in Entry
  BY LenProperties, ElementOfSeq
<1>2. PICK N : N = Marked(L, I, s) OBVIOUS
<1>3. N = [k \in 1..Len(L) |-> IF k \in I THEN [L[k] EXCEPT !.status = s] ELSE L[k]]
  BY <1>1, <1>2 DEF Marked
<1>4. \A k \in 1..Len(L) : N[k] = IF k \in I THEN [L[k] EXCEPT !.status = s] ELSE L[k]
  BY <1>3
<1>5. ASSUME NEW k \in 1..Len(L)
      PROVE  /\ N[k] \in Entry /\ N[k].from = L[k].from /\ N[k].msg = L[k].msg
             /\ N[k].status = IF k \in I THEN s ELSE L[k].status
  <2>1. PICK a \in Entry : a = L[k] BY <1>1
  <2>2. CASE k \in I
    <3>1. N[k] = [a EXCEPT !.status = s] BY <1>4, <2>1, <2>2
    <3> QED BY <2>1, <2>2, <3>1, EntryMarked
  <2>3. CASE k \notin I BY <1>4, <2>1, <2>3
  <2> QED BY <2>2, <2>3
<1>6. N \in [1..Len(L) -> Entry] BY <1>3, <1>5
<1>7. N \in Seq(Entry) /\ Len(N) = Len(L) BY <1>1, <1>3, <1>6, SeqDef
<1> QED BY <1>2, <1>5, <1>7

LEMMA InsertedIs ==
  ASSUME NEW L \in Seq(Entry), NEW p \in 1..Len(L) + 1, NEW e \in Entry
  PROVE  LET N == Inserted(L, p, e) IN
         /\ N \in Seq(Entry) /\ Len(N) = Len(L) + 1
         /\ \A i \in 1..p - 1 : N[i] = L[i]
         /\ N[p] = e
         /\ \A i \in p + 1..Len(L) + 1 : N[i] = L[i - 1]
<1> DEFINE head == SubSeq(L, 1, p - 1)
           mid == <<e>>
           tail == SubSeq(L, p, Len(L))
<1>0. Len(L) \in Nat /\ p \in Int BY LenProperties
<1>1. head \in Seq(Entry) /\ Len(head) = p - 1 /\ \A i \in 1..p - 1 : head[i] = L[i]
  <2>1. \A i \in 1..p - 1 : L[i] \in Entry BY <1>0, ElementOfSeq
  <2>2. /\ head \in Seq(Entry) /\ Len(head) = IF 1 <= p - 1 THEN (p - 1) - 1 + 1 ELSE 0
        /\ \A i \in 1..(p - 1) - 1 + 1 : head[i] = L[1 + i - 1]
    BY <1>0, <2>1, SubSeqProperties
  <2> HIDE DEF head
  <2> QED BY <1>0, <2>2
<1>2. mid \in Seq(Entry) /\ Len(mid) = 1 /\ mid[1] = e OBVIOUS
<1>3. /\ tail \in Seq(Entry) /\ Len(tail) = Len(L) - p + 1
      /\ \A i \in 1..Len(L) - p + 1 : tail[i] = L[p + i - 1]
  <2>1. \A i \in p..Len(L) : L[i] \in Entry BY <1>0, ElementOfSeq
  <2>2. /\ tail \in Seq(Entry) /\ Len(tail) = IF p <= Len(L) THEN Len(L) - p + 1 ELSE 0
        /\ \A i \in 1..Len(L) - p + 1 : tail[i] = L[p + i - 1]
    BY <1>0, <2>1, SubSeqProperties
  <2> HIDE DEF tail
  <2> QED BY <1>0, <2>2
<1> DEFINE both == head \o mid
<1>4. Inserted(L, p, e) = both \o tail BY DEF Inserted
<1> HIDE DEF head, mid, tail
<1>5. /\ both \in Seq(Entry) /\ Len(both) = p
      /\ \A i \in 1..p - 1 : both[i] = head[i]
      /\ both[p] = mid[1]
  <2>1. /\ both \in Seq(Entry) /\ Len(both) = Len(head) + Len(mid)
        /\ \A i \in 1..Len(head) + Len(mid) :
              both[i] = IF i <= Len(head) THEN head[i] ELSE mid[i - Len(head)]
    BY <1>1, <1>2, ConcatProperties
  <2> HIDE DEF both
  <2> QED BY <1>0, <1>1, <1>2, <2>1
<1> HIDE DEF both
<1>6. /\ Inserted(L, p, e) \in Seq(Entry) /\ Len(Inserted(L, p, e)) = Len(L) + 1
      /\ \A i \in 1..Len(L) + 1 :
            Inserted(L, p, e)[i] = IF i <= p THEN both[i] ELSE tail[i - p]
  <2>1. /\ both \o tail \in Seq(Entry) /\ Len(both \o tail) = Len(both) + Len(tail)
        /\ \A i \in 1..Len(both) + Len(tail) :
              (both \o tail)[i] = IF i <= Len(both) THEN both[i] ELSE tail[i - Len(both)]
    BY <1>3, <1>5, ConcatProperties
  <2> QED BY <1>0, <1>3, <1>4, <1>5, <2>1
<1>7. \A i \in 1..p - 1 : Inserted(L, p, e)[i] = L[i] BY <1>0, <1>1, <1>5, <1>6
<1>8. Inserted(L, p, e)[p] = e BY <1>0, <1>2, <1>5, <1>6
<1>9. ASSUME NEW i \in p + 1..Len(L) + 1 PROVE Inserted(L, p, e)[i] = L[i - 1]
  <2>1. i \in 1..Len(L) + 1 /\ ~(i <= p) /\ i - p \in 1..Len(L) - p + 1 BY <1>0
  <2>2. Inserted(L, p, e)[i] = tail[i - p] BY <1>6, <2>1
  <2>3. tail[i - p] = L[p + (i - p) - 1] BY <1>3, <2>1
  <2>4. p + (i - p) - 1 = i - 1 BY <1>0
  <2> QED BY <2>2, <2>3, <2>4
<1> QED BY <1>6, <1>7, <1>8, <1>9

\* Where a reply to the message at i goes.
LEMMA ReplyPlaceIs ==
  ASSUME NEW L \in Seq(Entry), NEW i \in 1..Len(L)
  PROVE  LET p == ReplyPlace(L, i) IN
         p \in i + 1..Len(L) + 1 /\ \A k \in i + 1..p - 1 : L[k].from # "user"
<1>1. Len(L) \in Nat /\ DOMAIN L = 1..Len(L) BY LenProperties
<1> DEFINE X == {j \in i + 1..Len(L) + 1 : j \in DOMAIN L => L[j].from = "user"}
<1>2. X \in SUBSET Nat /\ Len(L) + 1 \in X BY <1>1
<1>3. PICK j \in X : \A k \in X : j <= k
  <2> HIDE DEF X
  <2> QED BY <1>2, NatMin
<1>4. j \in i + 1..Len(L) + 1 /\ (j \in DOMAIN L => L[j].from = "user") BY <1>3
<1>5. ASSUME NEW k \in i + 1..j - 1 PROVE L[k].from # "user"
  <2>1. k \in i + 1..Len(L) + 1 /\ k \notin X /\ k \in DOMAIN L BY <1>1, <1>3, <1>4
  <2> QED BY <2>1
<1> QED BY <1>4, <1>5 DEF ReplyPlace

-----------------------------------------------------------------------------
(* What an edit keeps.                                                     *)

\* Who is unanswered, by what is at and below it.
LEMMA UnansweredIs ==
  ASSUME NEW L \in Seq(Entry)
  PROVE  /\ Len(L) \in Nat /\ DOMAIN L = 1..Len(L)
         /\ \A k : k \in Unanswered(L) <=> /\ k \in 1..Len(L) /\ UserAt(L, k)
                                          /\ \A j \in k..Len(L) : ~IsAnswer(L, j)
<1>1. Len(L) \in Nat /\ DOMAIN L = 1..Len(L) BY LenProperties
<1> QED BY <1>1 DEF Unanswered, UserAt

LEMMA AnsweredIsPassed ==
  ASSUME NEW L \in Seq(Entry), NEW k \in 1..Len(L), UserAt(L, k), k \notin Unanswered(L)
  PROVE  Passed(L, k)
BY UnansweredIs DEF IsAnswer, Passed

LEMMA WaitingIs ==
  ASSUME NEW L \in Seq(Entry)
  PROVE  \A m : m \in Waiting(L) <=> \E k \in Unanswered(L) : m = L[k].msg
BY DEF Waiting

\* N is what became of L: g says where an entry of the user was, and Omi has
\* passed nothing new but what was at i or above.
Comes(L, N, g, i) ==
    /\ N \in Seq(Entry)
    /\ \A k \in 1..Len(N) : N[k].from # "own" => N[k].msg \in Requests
    /\ \A k \in 1..Len(N) : N[k].from = "user" =>
          /\ g[k] \in 1..Len(L) /\ L[g[k]].from = "user" /\ L[g[k]].msg = N[k].msg
          /\ Stands(N, k) => Stands(L, g[k])
          /\ g[k] <= i \/ (Passed(N, k) => Passed(L, g[k]))
    /\ \A j, k \in 1..Len(N) : N[j].from = "user" /\ N[k].from = "user" /\ j < k => g[j] < g[k]

LEMMA SoundComes ==
  ASSUME NEW L, NEW N, NEW g, NEW i \in Int, Comes(L, N, g, i), NEW B, NEW C, NEW K, NEW J,
         Sound(L, B, K), B \subseteq C, K \subseteq J,
         \A k \in 1..Len(L) : UserAt(L, k) /\ k <= i => L[k].msg \in J
  PROVE  Sound(N, C, J)
<1>1. Len(N) \in Nat /\ N \in Seq(Entry) BY LenProperties DEF Comes
<1>2. \A k \in 1..Len(N) : N[k].from = "user" => N[k].msg \in C BY DEF Comes, Sound
<1>3. ASSUME NEW j \in 1..Len(N), NEW k \in 1..Len(N),
             N[j].from = "user", N[k].from = "user", N[j].msg = N[k].msg, j # k
      PROVE  FALSE
  <2>1. g[j] = g[k] BY <1>3 DEF Comes, Sound
  <2>2. j < k \/ k < j BY <1>3
  <2>3. g[j] \in Int /\ g[k] \in Int BY <1>3 DEF Comes
  <2> QED BY <1>3, <2>1, <2>2, <2>3 DEF Comes
<1>4. ASSUME NEW k \in 1..Len(N), UserAt(N, k), Passed(N, k) PROVE N[k].msg \in J
  BY <1>4 DEF Comes, Sound, UserAt
<1>5. \A k \in 1..Len(N) : N[k].from # "own" => N[k].msg \in Requests BY DEF Comes
<1> QED BY <1>1, <1>2, <1>3, <1>4, <1>5 DEF Sound

LEMMA FitsComes ==
  ASSUME NEW L, NEW N, NEW g, NEW i, Comes(L, N, g, i), NEW B, NEW C, NEW K, NEW J, NEW d,
         Fits(d, L, B, K), B \subseteq C, K \subseteq J
  PROVE  Fits(d, N, C, J)
<1>1. Len(N) \in Nat BY LenProperties DEF Comes
<1>2. ASSUME NEW a \in 1..Len(N), UserAt(N, a), N[a].msg = d.last, NEW k \in 1..a, UserAt(N, k)
      PROVE  N[k].msg \in d.reads \union J
  <2>1. k \in 1..Len(N) BY <1>1
  <2>2. /\ g[a] \in 1..Len(L) /\ UserAt(L, g[a]) /\ L[g[a]].msg = d.last
        /\ g[k] \in 1..Len(L) /\ UserAt(L, g[k]) /\ L[g[k]].msg = N[k].msg
    BY <1>2, <2>1 DEF Comes, UserAt
  <2>3. g[k] <= g[a]
    <3>1. CASE k = a BY <2>2, <3>1
    <3>2. CASE k < a BY <1>2, <2>1, <2>2, <3>2 DEF Comes, UserAt
    <3> QED BY <1>1, <3>1, <3>2
  <2>4. g[k] \in 1..g[a] BY <2>2, <2>3
  <2> QED BY <2>2, <2>4 DEF Fits
<1> QED BY <1>2 DEF Fits

LEMMA OrderComes ==
  ASSUME NEW L, NEW N, NEW g, NEW i, Comes(L, N, g, i), NEW d, InOrder(d, L)
  PROVE  InOrder(d, N)
<1>1. Len(N) \in Nat BY LenProperties DEF Comes
<1> SUFFICES ASSUME NEW a \in 1..Len(N), NEW k \in 1..Len(N), UserAt(N, a), N[a].msg = d.last,
                    UserAt(N, k), N[k].msg \in d.reads, ~(k <= a)
             PROVE  FALSE
  BY DEF InOrder
<1>2. /\ g[a] \in 1..Len(L) /\ UserAt(L, g[a]) /\ L[g[a]].msg = d.last
      /\ g[k] \in 1..Len(L) /\ UserAt(L, g[k]) /\ L[g[k]].msg \in d.reads
  BY DEF Comes, UserAt
<1>3. a < k /\ g[a] < g[k] BY <1>1 DEF Comes, UserAt
<1>4. g[k] <= g[a] BY <1>2 DEF InOrder
<1> QED BY <1>2, <1>3, <1>4

\* What failed has failed still, but at i or above.
FailedStay(L, N, g, i) ==
    \A k \in 1..Len(N) : UserAt(N, k) /\ L[g[k]].status = "failed" => N[k].status = "failed" \/ g[k] <= i

LEMMA OpensComes ==
  ASSUME NEW L, NEW N, NEW g, NEW i, Comes(L, N, g, i), FailedStay(L, N, g, i), NEW K, NEW J,
         K \subseteq J, \A k \in 1..Len(L) : UserAt(L, k) /\ k <= i => L[k].msg \in J
  PROVE  Opens(N, J) \subseteq Opens(L, K)
<1> SUFFICES ASSUME NEW k \in 1..Len(N), UserAt(N, k), N[k].status # "failed", N[k].msg \notin J
             PROVE  N[k].msg \in Opens(L, K)
  BY DEF Opens
<1>1. g[k] \in 1..Len(L) /\ UserAt(L, g[k]) /\ L[g[k]].msg = N[k].msg BY DEF Comes, UserAt
<1>2. L[g[k]].status # "failed" BY <1>1 DEF FailedStay
<1> QED BY <1>1, <1>2 DEF Opens

\* Nobody waits who did not, and nobody at i or above.
NewlyQuiet(L, N, g, i) == \A k \in Unanswered(N) : g[k] \in Unanswered(L) /\ ~(g[k] <= i)

-----------------------------------------------------------------------------
(* The edits, one by one.                                                  *)

Self(L) == [k \in 1..Len(L) |-> k]

\* Whose messages a list holds.
Owned(L) == L \in Seq(Entry) /\ \A k \in 1..Len(L) : L[k].from # "own" => L[k].msg \in Requests

LEMMA SelfComes ==
  ASSUME NEW L, Owned(L)
  PROVE  Comes(L, L, Self(L), 0) /\ NewlyQuiet(L, L, Self(L), 0)
<1>1. Len(L) \in Nat /\ DOMAIN L = 1..Len(L) BY LenProperties DEF Owned
<1>2. \A k \in 1..Len(L) : Self(L)[k] = k BY DEF Self
<1>3. Comes(L, L, Self(L), 0) BY <1>1, <1>2 DEF Comes, Owned
<1>4. NewlyQuiet(L, L, Self(L), 0) BY <1>1, <1>2, UnansweredIs DEF NewlyQuiet, Owned
<1> QED BY <1>3, <1>4

\* The same entries, but for how far a waiting message is.
Alike(L, R) ==
    /\ Owned(L) /\ Owned(R) /\ Len(R) = Len(L)
    /\ \A k \in 1..Len(L) : /\ R[k].from = L[k].from /\ R[k].msg = L[k].msg
                            /\ Stands(R, k) <=> Stands(L, k)
                            /\ R[k].status = "closed" <=> L[k].status = "closed"

LEMMA AlikeIs ==
  ASSUME NEW L, NEW R, Alike(L, R)
  PROVE  /\ \A k \in 1..Len(L) : /\ UserAt(R, k) <=> UserAt(L, k)
                                 /\ Passed(R, k) <=> Passed(L, k)
                                 /\ IsAnswer(R, k) <=> IsAnswer(L, k)
         /\ Unanswered(R) = Unanswered(L) /\ Waiting(R) = Waiting(L)
<1>1. Len(L) \in Nat /\ Len(R) = Len(L) /\ L \in Seq(Entry) /\ R \in Seq(Entry)
  BY LenProperties DEF Alike, Owned
<1>2. \A k \in 1..Len(L) : (UserAt(R, k) <=> UserAt(L, k)) /\ (IsAnswer(R, k) <=> IsAnswer(L, k))
  BY DEF Alike, UserAt, IsAnswer
<1>3. ASSUME NEW k \in 1..Len(L) PROVE Passed(R, k) <=> Passed(L, k)
  BY <1>1 DEF Alike, Passed
<1>4. ASSUME NEW k PROVE k \in Unanswered(R) <=> k \in Unanswered(L)
  BY <1>1, <1>2, UnansweredIs
<1>5. Unanswered(R) = Unanswered(L) BY <1>4
<1>6. \A k \in Unanswered(L) : R[k].msg = L[k].msg BY <1>1, UnansweredIs DEF Alike
<1>7. Waiting(R) = Waiting(L) BY <1>5, <1>6 DEF Waiting
<1> QED BY <1>2, <1>3, <1>5, <1>7

LEMMA AlikeComes ==
  ASSUME NEW L, NEW R, Alike(L, R), NEW N, NEW g, NEW i
  PROVE  /\ Comes(R, N, g, i) => Comes(L, N, g, i)
         /\ NewlyQuiet(R, N, g, i) => NewlyQuiet(L, N, g, i)
<1>1. \A k \in 1..Len(L) : (UserAt(R, k) <=> UserAt(L, k)) /\ (Passed(R, k) <=> Passed(L, k))
  BY AlikeIs
<1>2. Unanswered(R) = Unanswered(L) BY AlikeIs
<1>3. ASSUME Comes(R, N, g, i) PROVE Comes(L, N, g, i)
  BY <1>1, <1>3 DEF Comes, Alike
<1> QED BY <1>2, <1>3 DEF NewlyQuiet

\* Marking messages that are there, and not closed.
LEMMA MarkedAlike ==
  ASSUME NEW L, Owned(L), NEW I, NEW s \in {"read", "sending", "failed"},
         \A k \in I : k \in 1..Len(L) => UserAt(L, k) /\ L[k].status # "closed"
  PROVE  Alike(L, Marked(L, I, s))
<1>1. PICK N : N = Marked(L, I, s) OBVIOUS
<1>2. /\ N \in Seq(Entry) /\ Len(N) = Len(L)
      /\ \A k \in 1..Len(L) : /\ N[k].from = L[k].from /\ N[k].msg = L[k].msg
                              /\ N[k].status = IF k \in I THEN s ELSE L[k].status
  <2>1. L \in Seq(Entry) BY DEF Owned
  <2>2. PICK t \in Status : t = s BY DEF Status
  <2> QED BY <1>1, <2>1, <2>2, MarkedIs
<1>3. Owned(N) BY <1>2 DEF Owned
<1>4. \A k \in 1..Len(L) : /\ Stands(N, k) <=> Stands(L, k)
                           /\ N[k].status = "closed" <=> L[k].status = "closed"
  BY <1>2 DEF UserAt, Stands
<1>5. \A k \in 1..Len(L) : N[k].from = L[k].from /\ N[k].msg = L[k].msg BY <1>2
<1>6. Len(N) = Len(L) BY <1>2
<1>7. Alike(L, N) BY <1>3, <1>4, <1>5, <1>6 DEF Alike
<1> QED BY <1>1, <1>7

LEMMA UnansweredMarks ==
  ASSUME NEW L \in Seq(Entry), NEW k \in Unanswered(L)
  PROVE  k \in 1..Len(L) /\ UserAt(L, k) /\ L[k].status # "closed"
<1>1. Len(L) \in Nat /\ k \in 1..Len(L) /\ UserAt(L, k) /\ \A j \in k..Len(L) : ~IsAnswer(L, j)
  BY UnansweredIs
<1>2. ~IsAnswer(L, k) BY <1>1
<1> QED BY <1>1, <1>2 DEF IsAnswer, UserAt

LEMMA StaleMarks ==
  ASSUME NEW L \in Seq(Entry), NEW n
  PROVE  \A k \in Stale(L, n) : k \in 1..Len(L) /\ UserAt(L, k) /\ L[k].status # "closed"
BY LenProperties DEF Stale, UserAt, Stands

\* Omi says something of its own: nobody waits any more.
LEMMA OwnComes ==
  ASSUME NEW L, Owned(L), NEW e \in Entry, e.from = "own", e.status = "said"
  PROVE  LET N == Append(L, e) IN
         /\ Comes(L, N, Self(L), Len(L)) /\ FailedStay(L, N, Self(L), Len(L))
         /\ NewlyQuiet(L, N, Self(L), Len(L))
<1>1. Len(L) \in Nat /\ DOMAIN L = 1..Len(L) BY LenProperties DEF Owned
<1>2. PICK N : N = Append(L, e) OBVIOUS
<1>3. /\ N \in Seq(Entry) /\ Len(N) = Len(L) + 1
      /\ \A k \in 1..Len(L) : N[k] = L[k]
      /\ N[Len(L) + 1] = e
  BY <1>1, <1>2, AppendProperties DEF Owned
<1>4. \A k \in 1..Len(N) : N[k].from # "own" => k \in 1..Len(L) /\ N[k] = L[k]
  BY <1>1, <1>3
<1>5. \A k \in 1..Len(L) : Self(L)[k] = k BY DEF Self
<1>6. Comes(L, N, Self(L), Len(L)) BY <1>1, <1>3, <1>4, <1>5 DEF Comes, Owned, Stands
<1>7. FailedStay(L, N, Self(L), Len(L)) BY <1>1, <1>4, <1>5 DEF FailedStay, UserAt
<1>8. Unanswered(N) = {}
  <2>1. IsAnswer(N, Len(N)) BY <1>3 DEF IsAnswer, Stands
  <2> QED BY <1>1, <1>3, <2>1, UnansweredIs
<1> QED BY <1>2, <1>6, <1>7, <1>8 DEF NewlyQuiet

\* A message is deleted.
LEMMA ErasedComes ==
  ASSUME NEW L, Owned(L), NEW i
  PROVE  LET N == Marked(L, {i}, "deleted") IN
         Comes(L, N, Self(L), 0) /\ FailedStay(L, N, Self(L), 0)
<1>1. Len(L) \in Nat /\ DOMAIN L = 1..Len(L) BY LenProperties DEF Owned
<1>2. PICK N : N = Marked(L, {i}, "deleted") OBVIOUS
<1>3. /\ N \in Seq(Entry) /\ Len(N) = Len(L)
      /\ \A k \in 1..Len(L) : /\ N[k].from = L[k].from /\ N[k].msg = L[k].msg
                              /\ N[k].status = IF k \in {i} THEN "deleted" ELSE L[k].status
  BY <1>2, MarkedIs DEF Owned, Status
<1>4. \A k \in 1..Len(L) : Self(L)[k] = k BY DEF Self
<1>5. \A k \in 1..Len(L) : (Stands(N, k) => Stands(L, k)) /\ (Passed(N, k) => Passed(L, k))
  BY <1>1, <1>3 DEF Stands, Passed
<1>6. Comes(L, N, Self(L), 0) BY <1>1, <1>3, <1>4, <1>5 DEF Comes, Owned
<1>7. FailedStay(L, N, Self(L), 0) BY <1>1, <1>3, <1>4 DEF FailedStay, UserAt, Stands
<1> QED BY <1>2, <1>6, <1>7

\* A reply is put below the message at i, and below what Omi had said there.
LEMMA ReplyComes ==
  ASSUME NEW L, Owned(L), NEW i \in 1..Len(L), NEW e \in Entry,
         e.from = "reply", e.status = "said", e.msg \in Requests
  PROVE  LET N == Inserted(L, ReplyPlace(L, i), e) IN
         \E g : Comes(L, N, g, i) /\ NewlyQuiet(L, N, g, i)
                /\ \A k \in 1..Len(N) : UserAt(N, k) => N[k] = L[g[k]]
<1>1. Len(L) \in Nat /\ DOMAIN L = 1..Len(L) /\ L \in Seq(Entry) BY LenProperties DEF Owned
<1>2. PICK p \in i + 1..Len(L) + 1 : p = ReplyPlace(L, i) /\ \A k \in i + 1..p - 1 : L[k].from # "user"
  BY <1>1, ReplyPlaceIs
<1>3. p \in 1..Len(L) + 1 BY <1>1, <1>2
<1>4. PICK N : N = Inserted(L, p, e) OBVIOUS
<1>5. /\ N \in Seq(Entry) /\ Len(N) = Len(L) + 1
      /\ \A k \in 1..p - 1 : N[k] = L[k]
      /\ N[p] = e
      /\ \A k \in p + 1..Len(L) + 1 : N[k] = L[k - 1]
  BY <1>1, <1>3, <1>4, InsertedIs
<1>6. PICK g : g = [k \in 1..Len(L) + 1 |-> IF k < p THEN k ELSE k - 1] OBVIOUS
<1>7. \A k \in 1..p - 1 : g[k] = k BY <1>1, <1>3, <1>6
<1>8. \A k \in p + 1..Len(L) + 1 : g[k] = k - 1 BY <1>1, <1>3, <1>6
<1>9. \A k \in 1..Len(N) : k \in 1..p - 1 \/ k = p \/ k \in p + 1..Len(L) + 1 BY <1>1, <1>3, <1>5
<1>10. ASSUME NEW k \in 1..Len(N), N[k].from = "user"
       PROVE  /\ g[k] \in 1..Len(L) /\ N[k] = L[g[k]]
              /\ (k \in 1..i /\ g[k] = k) \/ (k \in p + 1..Len(L) + 1 /\ g[k] = k - 1)
  <2>1. CASE k \in 1..p - 1 BY <1>1, <1>2, <1>5, <1>7, <1>10, <2>1
  <2>2. CASE k = p BY <1>5, <1>10, <2>2
  <2>3. CASE k \in p + 1..Len(L) + 1 BY <1>1, <1>2, <1>5, <1>8, <2>3
  <2> QED BY <1>9, <2>1, <2>2, <2>3
<1>11. ASSUME NEW k \in p + 1..Len(L) + 1, Passed(N, k) PROVE Passed(L, k - 1)
  <2>1. PICK j \in k..Len(N) : N[j].from # "user" \/ N[j].status = "closed" BY <1>11 DEF Passed
  <2>2. j \in p + 1..Len(L) + 1 /\ j - 1 \in k - 1..Len(L) BY <1>1, <1>3, <1>5
  <2>3. N[j] = L[j - 1] BY <1>5, <2>2
  <2> QED BY <2>1, <2>2, <2>3 DEF Passed
<1>12. ASSUME NEW k \in 1..Len(N) PROVE N[k].from # "own" => N[k].msg \in Requests
  <2>1. CASE k \in 1..p - 1 BY <1>1, <1>3, <1>5, <2>1 DEF Owned
  <2>2. CASE k = p BY <1>5, <2>2
  <2>3. CASE k \in p + 1..Len(L) + 1
    <3>1. k - 1 \in 1..Len(L) /\ N[k] = L[k - 1] BY <1>1, <1>3, <1>5, <2>3
    <3> QED BY <3>1 DEF Owned
  <2> QED BY <1>9, <2>1, <2>2, <2>3
<1>13. Comes(L, N, g, i)
  <2>1. ASSUME NEW k \in 1..Len(N), N[k].from = "user"
        PROVE  /\ g[k] \in 1..Len(L) /\ L[g[k]].from = "user" /\ L[g[k]].msg = N[k].msg
               /\ Stands(N, k) => Stands(L, g[k])
               /\ g[k] <= i \/ (Passed(N, k) => Passed(L, g[k]))
    BY <2>1, <1>1, <1>10, <1>11 DEF Stands
  <2>2. ASSUME NEW j \in 1..Len(N), NEW k \in 1..Len(N), N[j].from = "user", N[k].from = "user", j < k
        PROVE  g[j] < g[k]
    BY <2>2, <1>1, <1>2, <1>5, <1>10
  <2> QED BY <1>5, <1>12, <2>1, <2>2 DEF Comes
<1>14. NewlyQuiet(L, N, g, i)
  <2> SUFFICES ASSUME NEW k \in Unanswered(N) PROVE g[k] \in Unanswered(L) /\ ~(g[k] <= i)
    BY DEF NewlyQuiet
  <2>1. k \in 1..Len(N) /\ UserAt(N, k) /\ \A j \in k..Len(N) : ~IsAnswer(N, j)
    BY <1>5, UnansweredIs
  <2>2. IsAnswer(N, p) BY <1>5 DEF IsAnswer, Stands
  <2>3. k \in p + 1..Len(L) + 1 /\ g[k] = k - 1 /\ UserAt(L, k - 1)
    <3>1. ~(p \in k..Len(N)) BY <2>1, <2>2
    <3>2. ~(k <= p) BY <1>1, <1>3, <1>5, <2>1, <3>1
    <3> QED BY <1>1, <1>2, <1>9, <1>10, <2>1, <3>2 DEF UserAt, Stands
  <2>4. ASSUME NEW j \in k - 1..Len(L) PROVE ~IsAnswer(L, j)
    <3>1. j + 1 \in k..Len(N) /\ j + 1 \in p + 1..Len(L) + 1 BY <1>1, <1>3, <1>5, <2>3
    <3>2. N[j + 1] = L[j + 1 - 1] /\ j + 1 - 1 = j BY <1>1, <1>5, <2>3, <3>1
    <3> QED BY <2>1, <3>1, <3>2 DEF IsAnswer, Stands
  <2>5. g[k] \in Unanswered(L) BY <1>1, <1>3, <2>3, <2>4, UnansweredIs
  <2> QED BY <1>1, <1>2, <2>3, <2>5
<1>15. \A k \in 1..Len(N) : UserAt(N, k) => N[k] = L[g[k]] BY <1>10 DEF UserAt
<1> QED BY <1>2, <1>4, <1>13, <1>14, <1>15

\* A message is closed by a reaction, or a silence.
LEMMA ClosedComes ==
  ASSUME NEW L, Owned(L), NEW i \in 1..Len(L), UserAt(L, i)
  PROVE  LET N == Marked(L, {i}, "closed") IN
         /\ Comes(L, N, Self(L), i) /\ NewlyQuiet(L, N, Self(L), i)
         /\ \A k \in 1..Len(N) : k # i => N[k].status = L[Self(L)[k]].status
<1>1. Len(L) \in Nat /\ DOMAIN L = 1..Len(L) /\ L \in Seq(Entry) BY LenProperties DEF Owned
<1>2. PICK N : N = Marked(L, {i}, "closed") OBVIOUS
<1>3. /\ N \in Seq(Entry) /\ Len(N) = Len(L)
      /\ \A k \in 1..Len(L) : /\ N[k].from = L[k].from /\ N[k].msg = L[k].msg
                              /\ N[k].status = IF k \in {i} THEN "closed" ELSE L[k].status
  BY <1>1, <1>2, MarkedIs DEF Status
<1>4. \A k \in 1..Len(L) : Self(L)[k] = k BY DEF Self
<1>5. \A k \in 1..Len(L) : Stands(N, k) <=> Stands(L, k) BY <1>3 DEF Stands, UserAt
<1>6. ASSUME NEW k \in 1..Len(L), ~(k <= i), Passed(N, k) PROVE Passed(L, k)
  <2>1. PICK j \in k..Len(N) : N[j].from # "user" \/ N[j].status = "closed" BY <1>6 DEF Passed
  <2>2. j \in 1..Len(L) /\ j # i BY <1>1, <1>3, <1>6
  <2> QED BY <1>3, <2>1, <2>2 DEF Passed
<1>7. Comes(L, N, Self(L), i) BY <1>1, <1>3, <1>4, <1>5, <1>6 DEF Comes, Owned
<1>8. ASSUME NEW k \in Unanswered(N) PROVE k \in Unanswered(L) /\ ~(k <= i) /\ Self(L)[k] = k
  <2>1. k \in 1..Len(L) /\ UserAt(N, k) /\ \A j \in k..Len(N) : ~IsAnswer(N, j)
    BY <1>3, UnansweredIs
  <2>2. IsAnswer(N, i) BY <1>3, <1>5 DEF IsAnswer, UserAt
  <2>3. ~(k <= i)
    <3>1. ~(i \in k..Len(N)) BY <2>1, <2>2
    <3> QED BY <1>1, <1>3, <2>1, <3>1
  <2>4. \A j \in k..Len(L) : IsAnswer(N, j) <=> IsAnswer(L, j)
    <3> SUFFICES ASSUME NEW j \in k..Len(L) PROVE IsAnswer(N, j) <=> IsAnswer(L, j) OBVIOUS
    <3>1. j \in 1..Len(L) /\ j # i BY <1>1, <2>1, <2>3
    <3> QED BY <1>3, <1>5, <3>1 DEF IsAnswer
  <2>5. UserAt(L, k) BY <1>3, <1>5, <2>1 DEF UserAt
  <2> QED BY <1>1, <1>3, <1>4, <2>1, <2>3, <2>4, <2>5, UnansweredIs
<1>9. NewlyQuiet(L, N, Self(L), i) BY <1>8 DEF NewlyQuiet
<1>10. \A k \in 1..Len(N) : k # i => N[k].status = L[Self(L)[k]].status BY <1>3, <1>4
<1> QED BY <1>2, <1>7, <1>9, <1>10

\* A reply is committed to the message at i: bubbles, or a reaction or silence.
LEMMA CommitComes ==
  ASSUME NEW L, Owned(L), NEW m \in Requests, NEW i \in Places(L, m), NEW N,
         LET R == Marked(L, Unanswered(SubSeq(L, 1, i)), "read") IN
         \/ N = Inserted(R, ReplyPlace(R, i), [from |-> "reply", msg |-> m, status |-> "said"])
         \/ N = Marked(R, {i}, "closed")
  PROVE  \E g : Comes(L, N, g, i) /\ NewlyQuiet(L, N, g, i) /\ FailedStay(L, N, g, i)
<1>1. Len(L) \in Nat /\ DOMAIN L = 1..Len(L) /\ L \in Seq(Entry) BY LenProperties DEF Owned
<1>2. i \in 1..Len(L) /\ UserAt(L, i) BY <1>1 DEF Places, UserAt
<1>3. PICK P : P = SubSeq(L, 1, i) OBVIOUS
<1>4. P \in Seq(Entry) /\ Len(P) = i /\ \A k \in 1..i : P[k] = L[k]
  <2>1. \A k \in 1..i : L[k] \in Entry BY <1>1, <1>2, ElementOfSeq
  <2>2. /\ P \in Seq(Entry) /\ Len(P) = IF 1 <= i THEN i - 1 + 1 ELSE 0
        /\ \A k \in 1..i - 1 + 1 : P[k] = L[1 + k - 1]
    BY <1>1, <1>2, <1>3, <2>1, SubSeqProperties
  <2> QED BY <1>1, <1>2, <2>2
<1>5. PICK I : I = Unanswered(P) OBVIOUS
<1>6. ASSUME NEW k \in I PROVE k \in 1..i /\ UserAt(L, k) /\ L[k].status # "closed"
  <2>1. k \in 1..Len(P) /\ UserAt(P, k) /\ P[k].status # "closed" BY <1>4, <1>5, UnansweredMarks
  <2> QED BY <1>4, <2>1 DEF UserAt, Stands
<1>7. PICK R : R = Marked(L, I, "read") OBVIOUS
<1>8. Alike(L, R) BY <1>6, <1>7, MarkedAlike
<1>9. Len(R) = Len(L) /\ Owned(R) /\ UserAt(R, i) BY <1>2, <1>8, AlikeIs DEF Alike
<1>10. \A k \in 1..Len(L) : ~(k <= i) => R[k].status = L[k].status
  <2>1. \A k \in 1..Len(L) : R[k].status = IF k \in I THEN "read" ELSE L[k].status
    BY <1>1, <1>7, MarkedIs DEF Status
  <2> QED BY <1>6, <2>1
<1>11. CASE N = Inserted(R, ReplyPlace(R, i), [from |-> "reply", msg |-> m, status |-> "said"])
  <2>1. PICK e \in Entry : e = [from |-> "reply", msg |-> m, status |-> "said"] BY DEF Entry, Status
  <2>2. e.from = "reply" /\ e.status = "said" /\ e.msg \in Requests BY <2>1
  <2>3. N = Inserted(R, ReplyPlace(R, i), e) BY <1>11, <2>1
  <2>4. PICK g : /\ Comes(R, N, g, i) /\ NewlyQuiet(R, N, g, i)
                 /\ \A k \in 1..Len(N) : UserAt(N, k) => N[k] = R[g[k]]
    <3> HIDE <2>1
    <3> QED BY <1>2, <1>9, <2>2, <2>3, ReplyComes
  <2>5. Comes(L, N, g, i) /\ NewlyQuiet(L, N, g, i) BY <1>8, <2>4, AlikeComes
  <2>6. FailedStay(L, N, g, i)
    <3> SUFFICES ASSUME NEW k \in 1..Len(N), UserAt(N, k), L[g[k]].status = "failed", ~(g[k] <= i)
                 PROVE  N[k].status = "failed"
      BY DEF FailedStay
    <3>1. g[k] \in 1..Len(L) BY <2>5 DEF Comes, UserAt
    <3> QED BY <1>10, <2>4, <3>1
  <2> QED BY <2>5, <2>6
<1>12. CASE N = Marked(R, {i}, "closed")
  <2>0. /\ Comes(R, N, Self(R), i) /\ NewlyQuiet(R, N, Self(R), i)
        /\ \A k \in 1..Len(N) : k # i => N[k].status = R[Self(R)[k]].status
    BY <1>2, <1>9, <1>12, ClosedComes
  <2>1. PICK g : g = Self(R) OBVIOUS
  <2>2. /\ Comes(R, N, g, i) /\ NewlyQuiet(R, N, g, i)
        /\ \A k \in 1..Len(N) : k # i => N[k].status = R[g[k]].status
    BY <2>0, <2>1
  <2>3. Comes(L, N, g, i) /\ NewlyQuiet(L, N, g, i) BY <1>8, <2>2, AlikeComes
  <2>4. FailedStay(L, N, g, i)
    <3> SUFFICES ASSUME NEW k \in 1..Len(N), UserAt(N, k), L[g[k]].status = "failed", ~(g[k] <= i)
                 PROVE  N[k].status = "failed"
      BY DEF FailedStay
    <3>1. g[k] \in 1..Len(L) BY <2>3 DEF Comes, UserAt
    <3>2. g[k] = k BY <1>9, <2>1, <3>1, <1>12, MarkedIs DEF Self, Owned, Status
    <3>3. k # i BY <1>1, <1>2, <3>2
    <3> QED BY <1>10, <2>2, <3>1, <3>3
  <2> QED BY <2>3, <2>4
<1> QED BY <1>3, <1>5, <1>7, <1>11, <1>12

-----------------------------------------------------------------------------
(* What a step makes of a request.                                         *)

PCs == Gone \union Active \union {"saved", "joining", "leaving"}

Turned(r, p, s, d, k) ==
    /\ req' \in [Requests -> Request] /\ \A q \in Requests \ {r} : req'[q] = req[q]
    /\ req'[r].pc = p /\ req'[r].seen = s /\ req'[r].draft = d /\ req'[r].keeps = k

LEMMA Turns ==
  ASSUME Shape, NEW r \in Requests
  PROVE  LET c == req[r] IN
         /\ c \in Request
         /\ Post(r) \/ PostRetry(r) => Turned(r, "saved", c.seen, c.draft, c.keeps)
         /\ JoinFindsNone(r) => Turned(r, "joining", c.seen, c.draft, c.keeps)
         /\ BecomeReplier(r) => Turned(r, "waiting", c.seen, c.draft, TRUE)
         /\ JoinConflicts(r) => Turned(r, "done", c.seen, c.draft, c.keeps)
         /\ Leave(r) => Turned(r, "done", c.seen, {}, FALSE)
         /\ Fail(r) \/ Cancel(r) => Turned(r, "leaving", c.seen, {}, c.keeps)
         /\ Release(r) => Turned(r, "done", c.seen, c.draft, FALSE)
         /\ CommitReply(r) => Turned(r, "shown", c.seen, {}, c.keeps)
         /\ Crash(r) => Turned(r, "dead", 0, {}, FALSE)
         /\ RenewalFails(r) => Turned(r, c.pc, c.seen, c.draft, FALSE)
<1>1. req[r] \in Request /\ req \in [Requests -> Request] BY DEF Shape
<1>2. ASSUME Post(r) \/ PostRetry(r) PROVE Turned(r, "saved", req[r].seen, req[r].draft, req[r].keeps)
  <2>1. req' = [req EXCEPT ![r].pc = "saved"] BY <1>2 DEF Post, PostRetry
  <2> QED BY <1>1, <2>1 DEF Turned, Request
<1>3. ASSUME JoinFindsNone(r) PROVE Turned(r, "joining", req[r].seen, req[r].draft, req[r].keeps)
  BY <1>1, <1>3 DEF JoinFindsNone, Turned, Request
<1>4. ASSUME BecomeReplier(r) PROVE Turned(r, "waiting", req[r].seen, req[r].draft, TRUE)
  BY <1>1, <1>4 DEF Shape, BecomeReplier, Turned, Request, Active
<1>5. ASSUME JoinConflicts(r) PROVE Turned(r, "done", req[r].seen, req[r].draft, req[r].keeps)
  BY <1>1, <1>5 DEF JoinConflicts, Turned, Request, Gone
<1>6. ASSUME Leave(r) PROVE Turned(r, "done", req[r].seen, {}, FALSE)
  <2>1. req' = [req EXCEPT ![r].pc = "done", ![r].keeps = FALSE, ![r].draft = {}]
    BY <1>6 DEF Leave
  <2> QED BY <1>1, <2>1 DEF Turned, Request, Gone
<1>7. ASSUME Fail(r) \/ Cancel(r) PROVE Turned(r, "leaving", req[r].seen, {}, req[r].keeps)
  <2>1. req' = [req EXCEPT ![r].pc = "leaving", ![r].draft = {}] BY <1>7 DEF Fail, Cancel
  <2> QED BY <1>1, <2>1 DEF Turned, Request
<1>8. ASSUME Release(r) PROVE Turned(r, "done", req[r].seen, req[r].draft, FALSE)
  <2>1. req' = [req EXCEPT ![r].pc = "done", ![r].keeps = FALSE] BY <1>8 DEF Release
  <2> QED BY <1>1, <2>1 DEF Turned, Request, Gone
<1>9. ASSUME CommitReply(r) PROVE Turned(r, "shown", req[r].seen, {}, req[r].keeps)
  <2>1. req' = [req EXCEPT ![r].pc = "shown", ![r].draft = {}, ![r].restarts = 0]
    BY <1>9 DEF CommitReply
  <2>2. 0 \in 0..MaxRestarts BY ChatAssumption
  <2> QED BY <1>1, <2>1, <2>2 DEF Turned, Request, Active
<1>10. ASSUME Crash(r) PROVE Turned(r, "dead", 0, {}, FALSE)
  <2>1. PICK n : n = [NewRequest EXCEPT !.pc = "dead"] OBVIOUS
  <2>2. n = [pc |-> "dead", seen |-> 0, restarts |-> 0, draft |-> {}, keeps |-> FALSE]
    BY <2>1 DEF NewRequest
  <2>3. n \in Request BY <2>2, ChatAssumption DEF Request, Gone
  <2>4. req' = [req EXCEPT ![r] = n] BY <1>10, <2>1 DEF Crash
  <2>5. n.pc = "dead" /\ n.seen = 0 /\ n.draft = {} /\ n.keeps = FALSE BY <2>2
  <2> HIDE <2>1, <2>2
  <2> QED BY <1>1, <2>3, <2>4, <2>5 DEF Turned
<1>11. ASSUME RenewalFails(r) PROVE Turned(r, req[r].pc, req[r].seen, req[r].draft, FALSE)
  <2>1. req' = [req EXCEPT ![r].keeps = FALSE] BY <1>11 DEF RenewalFails
  <2> QED BY <1>1, <2>1 DEF Turned, Request
<1> QED BY <1>1, <1>2, <1>3, <1>4, <1>5, <1>6, <1>7, <1>8, <1>9, <1>10, <1>11

\* Of the burst row the replier has read.
LEMMA WaitTurns ==
  ASSUME Shape, NEW r \in Requests, WaitForQuiet(r), Owns(r)
  PROVE  \E b \in burst : b.token = r /\ Turned(r, "quiet", b.arrivals, req[r].draft, req[r].keeps)
<1>1. req[r] \in Request /\ req \in [Requests -> Request] BY DEF Shape
<1>2. PICK b \in burst : b.token = r /\ req' = [req EXCEPT ![r].pc = "quiet", ![r].seen = b.arrivals]
  BY DEF WaitForQuiet, Leave
<1>3. b.arrivals \in Nat BY <1>2 DEF Shape, Burst
<1> QED BY <1>1, <1>2, <1>3 DEF Turned, Request, Active

LEMMA DraftTurns ==
  ASSUME Shape, Owned(chat), NEW r \in Requests, DraftReply(r)
  PROVE  \/ Unanswered(chat) = {} /\ Turned(r, "written", req[r].seen, {}, req[r].keeps)
         \/ \E last \in Unanswered(chat) :
              /\ \A j \in Unanswered(chat) : j <= last
              /\ Turned(r, "written", req[r].seen,
                        {[last |-> chat[last].msg, reads |-> Waiting(chat)]}, req[r].keeps)
<1>1. req[r] \in Request /\ req \in [Requests -> Request] BY DEF Shape
<1>2. CASE Unanswered(chat) = {} BY <1>1, <1>2 DEF DraftReply, Turned, Request, Active
<1>3. CASE Unanswered(chat) # {}
  <2>1. PICK last : last = CHOOSE i \in Unanswered(chat) : \A j \in Unanswered(chat) : j <= i OBVIOUS
  <2>2. Len(chat) \in Nat /\ Unanswered(chat) \subseteq 0..Len(chat) BY UnansweredIs DEF Owned
  <2>3. last \in Unanswered(chat) /\ \A j \in Unanswered(chat) : j <= last
    <3>1. \E i \in Unanswered(chat) : \A j \in Unanswered(chat) : j <= i BY <1>3, <2>2, NatMax
    <3> QED BY <2>1, <3>1
  <2>4. PICK d : d = [last |-> chat[last].msg, reads |-> Waiting(chat)] OBVIOUS
  <2>5. \A k \in Unanswered(chat) : chat[k].msg \in Requests BY UnansweredIs DEF Owned, UserAt
  <2>6. d \in Draft BY <2>3, <2>4, <2>5 DEF Draft, Waiting
  <2>7. req' = [req EXCEPT ![r].pc = "written", ![r].draft = {d}] BY <1>3, <2>1, <2>4 DEF DraftReply
  <2>8. Turned(r, "written", req[r].seen, {d}, req[r].keeps)
    BY <1>1, <2>6, <2>7 DEF Turned, Request, Active
  <2> QED BY <2>3, <2>4, <2>8
<1> QED BY <1>2, <1>3

LEMMA HoldTurns ==
  ASSUME Shape, NEW r \in Requests, HoldDraft(r), Owns(r)
  PROVE  \/ Turned(r, "waiting", req[r].seen, {}, req[r].keeps)
         \/ Turned(r, "ready", req[r].seen, req[r].draft, req[r].keeps)
<1>1. req[r] \in Request /\ req \in [Requests -> Request] BY DEF Shape
<1>2. PICK b \in burst :
         req' = IF b.arrivals > req[r].seen /\ MayRestart(r)
                THEN [req EXCEPT ![r].pc = "waiting", ![r].draft = {}, ![r].restarts = @ + 1]
                ELSE [req EXCEPT ![r].pc = "ready"]
  BY DEF HoldDraft, Leave
<1>3. CASE b.arrivals > req[r].seen /\ MayRestart(r)
  <2>1. req[r].restarts + 1 \in 0..MaxRestarts BY <1>1, <1>3, ChatAssumption DEF MayRestart, Request
  <2>2. req' = [req EXCEPT ![r].pc = "waiting", ![r].draft = {}, ![r].restarts = req[r].restarts + 1]
    BY <1>2, <1>3
  <2> QED BY <1>1, <2>1, <2>2 DEF Turned, Request, Active
<1>4. CASE ~(b.arrivals > req[r].seen /\ MayRestart(r))
  BY <1>1, <1>2, <1>4 DEF Turned, Request, Active
<1> QED BY <1>3, <1>4

LEMMA FinishTurns ==
  ASSUME Shape, NEW r \in Requests, FinishBurst(r)
  PROVE  \/ /\ \E b \in burst : Answered(b, r)
            /\ burst' = {} /\ Turned(r, "done", req[r].seen, req[r].draft, FALSE)
         \/ /\ ~\E b \in burst : Answered(b, r)
            /\ burst' = burst /\ Turned(r, "waiting", req[r].seen, req[r].draft, req[r].keeps)
<1>1. req[r] \in Request /\ req \in [Requests -> Request] BY DEF Shape
<1>2. CASE \E b \in burst : Answered(b, r)
  BY <1>1, <1>2 DEF FinishBurst, Turned, Request, Gone
<1>3. CASE ~\E b \in burst : Answered(b, r)
  BY <1>1, <1>3 DEF FinishBurst, Turned, Request, Active
<1> QED BY <1>2, <1>3

\* A message joins: counted into the burst as it is, or taking over an expired lease.
LEMMA JoinTurns ==
  ASSUME Shape, NEW r \in Requests, JoinCounts(r)
  PROVE  \E b \in burst :
            \/ /\ b.live /\ Turned(r, "done", req[r].seen, req[r].draft, req[r].keeps)
               /\ burst' = {[token |-> b.token, arrivals |-> b.arrivals + 1, live |-> TRUE]}
            \/ /\ ~b.live /\ Turned(r, "waiting", req[r].seen, req[r].draft, TRUE)
               /\ burst' = {[token |-> r, arrivals |-> b.arrivals + 1, live |-> TRUE]}
<1>1. req[r] \in Request /\ req \in [Requests -> Request] BY DEF Shape
<1>2. PICK b \in burst :
        IF b.live
        THEN /\ burst' = {[b EXCEPT !.arrivals = @ + 1]}
             /\ req' = [req EXCEPT ![r].pc = "done"]
        ELSE /\ burst' = {[token |-> r, arrivals |-> b.arrivals + 1, live |-> TRUE]}
             /\ BecomeReplier(r)
  BY DEF JoinCounts
<1>3. b \in Burst BY <1>2 DEF Shape
<1>4. CASE b.live
  <2>0. PICK n : n = b.arrivals + 1 OBVIOUS
  <2>1. [b EXCEPT !.arrivals = @ + 1] = [token |-> b.token, arrivals |-> n, live |-> TRUE]
    <3>1. PICK t, l : b = [token |-> t, arrivals |-> b.arrivals, live |-> l] BY <1>3 DEF Burst
    <3>2. [b EXCEPT !.arrivals = @ + 1] = [token |-> t, arrivals |-> n, live |-> l] BY <2>0, <3>1
    <3>3. b.token = t /\ b.live = l BY <3>1
    <3> QED BY <1>4, <3>2, <3>3, Zenon
  <2>2. Turned(r, "done", req[r].seen, req[r].draft, req[r].keeps)
    BY <1>1, <1>2, <1>4 DEF Turned, Request, Gone
  <2> QED BY <1>2, <1>4, <2>0, <2>1, <2>2
<1>5. CASE ~b.live BY <1>2, <1>5, Turns
<1> QED BY <1>2, <1>4, <1>5

-----------------------------------------------------------------------------
(* A new message.                                                          *)

LEMMA SentComes ==
  ASSUME NEW L, NEW B, NEW K, NEW C, Sound(L, B, K), B \subseteq C,
         NEW r \in Requests, r \in C, r \notin B,
         NEW e \in Entry, e.from = "user", e.msg = r, e.status = "sending"
  PROVE  LET N == Append(L, e) IN
         /\ Sound(N, C, K)
         /\ \A d : Fits(d, L, B, K) => Fits(d, N, C, K)
         /\ \A d : Fits(d, L, B, K) /\ InOrder(d, L) => InOrder(d, N)
<1>1. Len(L) \in Nat /\ DOMAIN L = 1..Len(L) /\ L \in Seq(Entry) BY LenProperties DEF Sound
<1>2. PICK N : N = Append(L, e) OBVIOUS
<1>3. /\ N \in Seq(Entry) /\ Len(N) = Len(L) + 1
      /\ \A k \in 1..Len(L) : N[k] = L[k]
      /\ N[Len(L) + 1] = e
  BY <1>1, <1>2, AppendProperties
<1>4. \A k \in 1..Len(N) : k \in 1..Len(L) \/ k = Len(L) + 1 BY <1>1, <1>3
<1>5. ~Passed(N, Len(L) + 1) BY <1>1, <1>3 DEF Passed
<1>6. ASSUME NEW k \in 1..Len(L), Passed(N, k) PROVE Passed(L, k)
  <2>1. PICK j \in k..Len(N) : N[j].from # "user" \/ N[j].status = "closed" BY <1>6 DEF Passed
  <2>2. j \in k..Len(L) BY <1>1, <1>3, <2>1
  <2> QED BY <1>1, <1>3, <2>1, <2>2 DEF Passed
<1>7. \A k \in 1..Len(L) : UserAt(N, k) <=> UserAt(L, k) BY <1>3 DEF UserAt, Stands
<1>8. Sound(N, C, K)
  <2>1. \A k \in 1..Len(N) : N[k].from # "own" => N[k].msg \in Requests BY <1>3, <1>4 DEF Sound
  <2>2. \A k \in 1..Len(N) : N[k].from = "user" => N[k].msg \in C BY <1>3, <1>4 DEF Sound
  <2>3. \A k \in 1..Len(L) : N[k].from = "user" => N[k].msg # r BY <1>3 DEF Sound
  <2>4. \A j, k \in 1..Len(N) :
           N[j].from = "user" /\ N[k].from = "user" /\ N[j].msg = N[k].msg => j = k
    BY <1>3, <1>4, <2>3 DEF Sound
  <2>5. \A k \in 1..Len(N) : UserAt(N, k) /\ Passed(N, k) => N[k].msg \in K
    BY <1>3, <1>4, <1>5, <1>6, <1>7 DEF Sound
  <2> QED BY <1>3, <2>1, <2>2, <2>4, <2>5 DEF Sound
<1>9. ASSUME NEW d, Fits(d, L, B, K) PROVE Fits(d, N, C, K)
  <2>1. d.last \in C /\ d.reads \subseteq C BY <1>9 DEF Fits
  <2>2. d.last # r BY <1>9 DEF Fits
  <2>3. ASSUME NEW i \in 1..Len(N), UserAt(N, i), N[i].msg = d.last, NEW k \in 1..i, UserAt(N, k)
        PROVE  N[k].msg \in d.reads \union K
    <3>1. i \in 1..Len(L) BY <1>3, <1>4, <2>2, <2>3
    <3>2. k \in 1..Len(L) BY <1>1, <3>1
    <3> QED BY <1>3, <1>7, <1>9, <2>3, <3>1, <3>2 DEF Fits
  <2> QED BY <2>1, <2>3 DEF Fits
<1>10. ASSUME NEW d, Fits(d, L, B, K), InOrder(d, L) PROVE InOrder(d, N)
  <2>1. d.last # r /\ r \notin d.reads BY <1>10 DEF Fits
  <2> QED BY <1>3, <1>4, <1>7, <1>10, <2>1 DEF InOrder
<1> QED BY <1>2, <1>8, <1>9, <1>10

LEMMA SentWaits ==
  ASSUME NEW L \in Seq(Entry), NEW e \in Entry, e.from = "user"
  PROVE  \A k \in Unanswered(Append(L, e)) :
            \/ Append(L, e)[k] = e
            \/ k \in Unanswered(L) /\ Append(L, e)[k] = L[k]
<1>1. Len(L) \in Nat /\ DOMAIN L = 1..Len(L) BY LenProperties
<1>2. PICK N : N = Append(L, e) OBVIOUS
<1>3. /\ N \in Seq(Entry) /\ Len(N) = Len(L) + 1
      /\ \A k \in 1..Len(L) : N[k] = L[k]
      /\ N[Len(L) + 1] = e
  BY <1>1, <1>2, AppendProperties
<1>4. ASSUME NEW k \in Unanswered(N), N[k] # e PROVE k \in Unanswered(L) /\ N[k] = L[k]
  <2>1. k \in 1..Len(N) /\ UserAt(N, k) /\ \A j \in k..Len(N) : ~IsAnswer(N, j)
    BY <1>3, UnansweredIs
  <2>2. k \in 1..Len(L) BY <1>1, <1>3, <1>4, <2>1
  <2>3. \A j \in k..Len(L) : j \in 1..Len(L) /\ j \in k..Len(N) BY <1>1, <1>3, <2>2
  <2>4. \A j \in k..Len(L) : ~IsAnswer(L, j) BY <1>3, <2>1, <2>3 DEF IsAnswer, Stands
  <2>5. UserAt(L, k) BY <1>3, <2>1, <2>2 DEF UserAt, Stands
  <2> QED BY <1>1, <1>3, <2>2, <2>4, <2>5, UnansweredIs
<1> QED BY <1>2, <1>4

\* With nobody waiting who is not known, or has not failed, nothing is open.
LEMMA NothingOpen ==
  ASSUME NEW L, NEW B, NEW K, NEW J, Sound(L, B, K), K \subseteq J,
         \A k \in Unanswered(L) : L[k].status = "failed" \/ L[k].msg \in J
  PROVE  Opens(L, J) = {}
<1> SUFFICES ASSUME NEW k \in 1..Len(L), UserAt(L, k), L[k].status # "failed", L[k].msg \notin J
             PROVE  FALSE
  BY DEF Opens
<1>1. L \in Seq(Entry) BY DEF Sound
<1>2. CASE k \in Unanswered(L) BY <1>2
<1>3. CASE k \notin Unanswered(L) BY <1>1, <1>3, AnsweredIsPassed DEF Sound
<1> QED BY <1>2, <1>3

LEMMA SoundOwned == ASSUME NEW L, NEW B, NEW K, Sound(L, B, K) PROVE Owned(L)
BY DEF Sound, Owned

-----------------------------------------------------------------------------
(* What every step keeps: first the row, and the requests.                 *)

RowShape ==
    /\ burst \in SUBSET Burst /\ \A a, b \in burst : a = b
    /\ req \in [Requests -> Request]
    /\ \A r \in Requests : \A c, d \in req[r].draft : c = d
    /\ \A r \in Requests : req[r].draft # {} => req[r].pc \in {"written", "ready"}

\* A request's draft is one, and there while it is at it.
LEMMA TurnedShape ==
  ASSUME Shape, NEW r \in Requests, NEW p, NEW s, NEW d, NEW k, Turned(r, p, s, d, k),
         \A x, y \in d : x = y, d # {} => p \in {"written", "ready"}
  PROVE  /\ req' \in [Requests -> Request]
         /\ \A q \in Requests : \A x, y \in req'[q].draft : x = y
         /\ \A q \in Requests : req'[q].draft # {} => req'[q].pc \in {"written", "ready"}
<1>1. ASSUME NEW q \in Requests
      PROVE  /\ \A x, y \in req'[q].draft : x = y
             /\ req'[q].draft # {} => req'[q].pc \in {"written", "ready"}
  <2>1. CASE q = r BY <2>1 DEF Turned
  <2>2. CASE q # r
    <3>1. req'[q] = req[q] BY <2>2 DEF Turned
    <3> QED BY <3>1 DEF Shape
  <2> QED BY <2>1, <2>2
<1> QED BY <1>1 DEF Turned

LEMMA EmptiedShape ==
  ASSUME Shape, NEW r \in Requests, NEW p, NEW s, NEW k, Turned(r, p, s, {}, k)
  PROVE  /\ req' \in [Requests -> Request]
         /\ \A q \in Requests : \A x, y \in req'[q].draft : x = y
         /\ \A q \in Requests : req'[q].draft # {} => req'[q].pc \in {"written", "ready"}
BY TurnedShape

\* A row of one burst.
LEMMA RowIs ==
  ASSUME NEW t \in Requests, NEW n \in Nat, NEW l \in BOOLEAN
  PROVE  /\ {[token |-> t, arrivals |-> n + 1, live |-> l]} \in SUBSET Burst
         /\ \A a, b \in {[token |-> t, arrivals |-> n + 1, live |-> l]} : a = b
BY DEF Burst

LEMMA ExpiryIs ==
  ASSUME Shape, LeaseExpires
  PROVE  \E b \in burst :
            /\ b.live /\ ~req[b.token].keeps /\ b.token \in Requests
            /\ burst' = {[token |-> b.token, arrivals |-> b.arrivals, live |-> FALSE]}
<1>1. PICK b \in burst : b.live /\ ~Renewed(b) /\ burst' = {[b EXCEPT !.live = FALSE]}
  BY DEF LeaseExpires
<1>2. b \in Burst BY DEF Shape
<1>3. PICK c : c = [b EXCEPT !.live = FALSE] OBVIOUS
<1>4. c \in Burst /\ c.token = b.token /\ c.arrivals = b.arrivals /\ c.live = FALSE
  BY <1>2, <1>3 DEF Burst
<1>5. c = [token |-> c.token, arrivals |-> c.arrivals, live |-> c.live] BY <1>4 DEF Burst
<1>6. c = [token |-> b.token, arrivals |-> b.arrivals, live |-> FALSE] BY <1>4, <1>5
<1>7. b.token \in Requests BY <1>2 DEF Burst
<1> QED BY <1>1, <1>3, <1>6, <1>7 DEF Renewed

\* So a step that turns a request keeps the row and the requests in shape.
LEMMA RowTurned ==
  ASSUME Shape, NEW r \in Requests, NEW p, NEW s, NEW d, NEW k, Turned(r, p, s, d, k),
         \A x, y \in d : x = y, d # {} => p \in {"written", "ready"},
         burst' \in SUBSET Burst, \A x, y \in burst' : x = y
  PROVE  RowShape'
BY TurnedShape DEF RowShape

\* The same when the request has let its draft go.
LEMMA RowEmptied ==
  ASSUME Shape, NEW r \in Requests, NEW p, NEW s, NEW k, Turned(r, p, s, {}, k),
         burst' \in SUBSET Burst, \A x, y \in burst' : x = y
  PROVE  RowShape'
BY EmptiedShape DEF RowShape

\* The same when the row stays as it was.
LEMMA RowKept ==
  ASSUME Shape, NEW r \in Requests, NEW p, NEW s, NEW d, NEW k, Turned(r, p, s, d, k),
         \A x, y \in d : x = y, d # {} => p \in {"written", "ready"}, burst' = burst
  PROVE  RowShape'
<1>1. burst' \in SUBSET Burst /\ \A x, y \in burst' : x = y BY DEF Shape
<1> QED BY <1>1, RowTurned

\* The same for a request that is left with no draft.
LEMMA RowLeft ==
  ASSUME Shape, NEW r \in Requests, NEW p, NEW s, NEW k, Turned(r, p, s, {}, k), burst' = burst
  PROVE  RowShape'
<1>1. burst' \in SUBSET Burst /\ \A x, y \in burst' : x = y BY DEF Shape
<1> QED BY <1>1, RowEmptied

\* The same for a request that had none.
LEMMA RowNone ==
  ASSUME Shape, NEW r \in Requests, NEW p, NEW s, NEW k, Turned(r, p, s, req[r].draft, k),
         req[r].draft = {}, burst' = burst
  PROVE  RowShape'
<1>1. Turned(r, p, s, {}, k) OBVIOUS
<1> QED BY <1>1, RowLeft

LEMMA RowStep == ASSUME Shape, Owned(chat), Next PROVE RowShape'
<1>0. /\ burst \in SUBSET Burst /\ \A a, b \in burst : a = b
      /\ req \in [Requests -> Request]
      /\ \A r \in Requests : \A c, d \in req[r].draft : c = d
      /\ \A r \in Requests : req[r].draft # {} => req[r].pc \in {"written", "ready"}
  BY DEF Shape
<1>1. ASSUME NEW r \in Requests, Post(r) \/ PostRetry(r) PROVE RowShape'
  <2>1. Turned(r, "saved", req[r].seen, req[r].draft, req[r].keeps) BY <1>1, Turns
  <2>2. burst' = burst /\ req[r].draft = {} BY <1>0, <1>1 DEF Post, PostRetry
  <2> QED BY <2>1, <2>2, RowNone
<1>2. ASSUME NEW r \in Requests, JoinFindsNone(r) \/ JoinConflicts(r) PROVE RowShape'
  <2>1. \/ Turned(r, "joining", req[r].seen, req[r].draft, req[r].keeps)
        \/ Turned(r, "done", req[r].seen, req[r].draft, req[r].keeps)
    BY <1>2, Turns
  <2>2. burst' = burst /\ req[r].draft = {} BY <1>0, <1>2 DEF JoinFindsNone, JoinConflicts
  <2>3. CASE Turned(r, "joining", req[r].seen, req[r].draft, req[r].keeps)
    BY <2>2, <2>3, RowNone
  <2>4. CASE Turned(r, "done", req[r].seen, req[r].draft, req[r].keeps) BY <2>2, <2>4, RowNone
  <2> QED BY <2>1, <2>3, <2>4
<1>3. ASSUME NEW r \in Requests, JoinInserts(r) PROVE RowShape'
  <2>1. Turned(r, "waiting", req[r].seen, req[r].draft, TRUE) BY <1>3, Turns DEF JoinInserts
  <2>2. burst' = {[token |-> r, arrivals |-> 1, live |-> TRUE]} /\ req[r].draft = {}
    BY <1>0, <1>3 DEF JoinInserts
  <2>3. burst' \in SUBSET Burst /\ \A a, b \in burst' : a = b BY <2>2 DEF Burst
  <2> QED BY <2>1, <2>2, <2>3, RowTurned
<1>4. ASSUME NEW r \in Requests, JoinCounts(r) PROVE RowShape'
  <2>1. PICK b \in burst :
            \/ /\ b.live /\ Turned(r, "done", req[r].seen, req[r].draft, req[r].keeps)
               /\ burst' = {[token |-> b.token, arrivals |-> b.arrivals + 1, live |-> TRUE]}
            \/ /\ ~b.live /\ Turned(r, "waiting", req[r].seen, req[r].draft, TRUE)
               /\ burst' = {[token |-> r, arrivals |-> b.arrivals + 1, live |-> TRUE]}
    BY <1>4, JoinTurns
  <2>2. req[r].draft = {} BY <1>0, <1>4 DEF JoinCounts
  <2>3. b.token \in Requests /\ b.arrivals \in Nat BY <1>0 DEF Burst
  <2>4. burst' \in SUBSET Burst /\ \A x, y \in burst' : x = y BY <2>1, <2>3, RowIs
  <2> QED BY <2>1, <2>2, <2>4, RowTurned
<1>5. ASSUME NEW r \in Requests, Leave(r) \/ Fail(r) \/ Cancel(r) PROVE RowShape'
  <2>1. burst' = burst BY <1>5 DEF Leave, Fail, Cancel
  <2>2. \/ Turned(r, "done", req[r].seen, {}, FALSE)
        \/ Turned(r, "leaving", req[r].seen, {}, req[r].keeps)
    BY <1>5, Turns
  <2>3. CASE Turned(r, "done", req[r].seen, {}, FALSE) BY <2>1, <2>3, RowLeft
  <2>4. CASE Turned(r, "leaving", req[r].seen, {}, req[r].keeps) BY <2>1, <2>4, RowLeft
  <2> QED BY <2>2, <2>3, <2>4
<1>6. ASSUME NEW r \in Requests, WaitForQuiet(r) PROVE RowShape'
  <2>1. CASE Owns(r)
    <3>1. PICK b \in burst : Turned(r, "quiet", b.arrivals, req[r].draft, req[r].keeps)
      BY <1>6, <2>1, WaitTurns
    <3>2. burst' = burst /\ req[r].draft = {} BY <1>0, <1>6 DEF WaitForQuiet, Leave
    <3> QED BY <3>1, <3>2, RowNone
  <2>2. CASE ~Owns(r) BY <1>5, <1>6, <2>2 DEF WaitForQuiet, Owns
  <2> QED BY <2>1, <2>2
<1>7. ASSUME NEW r \in Requests, DraftReply(r) PROVE RowShape'
  <2>1. burst' = burst BY <1>7 DEF DraftReply
  <2>2. CASE Turned(r, "written", req[r].seen, {}, req[r].keeps) BY <2>1, <2>2, RowLeft
  <2>3. ASSUME NEW last, Turned(r, "written", req[r].seen,
                    {[last |-> chat[last].msg, reads |-> Waiting(chat)]}, req[r].keeps)
        PROVE  RowShape'
    <3>1. PICK d : d = {[last |-> chat[last].msg, reads |-> Waiting(chat)]} OBVIOUS
    <3>2. \A x, y \in d : x = y BY <3>1
    <3>3. Turned(r, "written", req[r].seen, d, req[r].keeps) BY <2>3, <3>1
    <3> HIDE <3>1
    <3> QED BY <2>1, <3>2, <3>3, RowKept
  <2> QED BY <1>7, <2>2, <2>3, DraftTurns
<1>8. ASSUME NEW r \in Requests, HoldDraft(r) PROVE RowShape'
  <2>1. CASE Owns(r)
    <3>1. \/ Turned(r, "waiting", req[r].seen, {}, req[r].keeps)
          \/ Turned(r, "ready", req[r].seen, req[r].draft, req[r].keeps)
      BY <1>8, <2>1, HoldTurns
    <3>2. burst' = burst BY <1>8 DEF HoldDraft, Leave
    <3>3. \A x, y \in req[r].draft : x = y BY <1>0
    <3>4. CASE Turned(r, "waiting", req[r].seen, {}, req[r].keeps) BY <3>2, <3>4, RowLeft
    <3>5. CASE Turned(r, "ready", req[r].seen, req[r].draft, req[r].keeps)
      BY <3>2, <3>3, <3>5, RowKept
    <3> QED BY <3>1, <3>4, <3>5
  <2>2. CASE ~Owns(r) BY <1>5, <1>8, <2>2 DEF HoldDraft, Owns
  <2> QED BY <2>1, <2>2
<1>9. ASSUME NEW r \in Requests, CommitReply(r) PROVE RowShape'
  <2>1. Turned(r, "shown", req[r].seen, {}, req[r].keeps) BY <1>9, Turns
  <2>2. burst' = burst BY <1>9 DEF CommitReply
  <2> QED BY <2>1, <2>2, RowLeft
<1>10. ASSUME NEW r \in Requests, FinishBurst(r) PROVE RowShape'
  <2>1. \/ burst' = {} /\ Turned(r, "done", req[r].seen, req[r].draft, FALSE)
        \/ burst' = burst /\ Turned(r, "waiting", req[r].seen, req[r].draft, req[r].keeps)
    BY <1>10, FinishTurns
  <2>2. req[r].draft = {} BY <1>0, <1>10 DEF FinishBurst
  <2>3. CASE burst' = {} /\ Turned(r, "done", req[r].seen, req[r].draft, FALSE)
    <3>1. burst' \in SUBSET Burst /\ \A x, y \in burst' : x = y BY <2>3
    <3>2. Turned(r, "done", req[r].seen, {}, FALSE) BY <2>2, <2>3
    <3> QED BY <3>1, <3>2, RowEmptied
  <2>4. CASE burst' = burst /\ Turned(r, "waiting", req[r].seen, req[r].draft, req[r].keeps)
    BY <2>2, <2>4, RowNone
  <2> QED BY <2>1, <2>3, <2>4
<1>11. ASSUME NEW r \in Requests, Release(r) PROVE RowShape'
  <2>1. Turned(r, "done", req[r].seen, req[r].draft, FALSE) BY <1>11, Turns
  <2>2. (burst' = {} \/ burst' = burst) /\ req[r].draft = {} BY <1>0, <1>11 DEF Release
  <2>3. burst' \in SUBSET Burst /\ \A x, y \in burst' : x = y
    <3>1. CASE burst' = {} BY <3>1
    <3>2. CASE burst' = burst BY <1>0, <3>2
    <3> QED BY <2>2, <3>1, <3>2
  <2>4. Turned(r, "done", req[r].seen, {}, FALSE) BY <2>1, <2>2
  <2> QED BY <2>3, <2>4, RowEmptied
<1>12. ASSUME NEW r \in Requests, Crash(r) PROVE RowShape'
  <2>1. Turned(r, "dead", 0, {}, FALSE) BY <1>12, Turns
  <2>2. burst' = burst BY <1>12 DEF Crash
  <2> QED BY <2>1, <2>2, RowLeft
<1>13. ASSUME NEW r \in Requests, RenewalFails(r) PROVE RowShape'
  <2>1. Turned(r, req[r].pc, req[r].seen, req[r].draft, FALSE) BY <1>13, Turns
  <2>2. burst' = burst BY <1>13 DEF RenewalFails
  <2>3. req' \in [Requests -> Request] BY <2>1 DEF Turned
  <2>4. \A q \in Requests : req'[q].draft = req[q].draft /\ req'[q].pc = req[q].pc
    BY <2>1 DEF Turned
  <2> QED BY <1>0, <2>2, <2>3, <2>4 DEF RowShape
<1>14. ASSUME LeaseExpires PROVE RowShape'
  <2>1. PICK b \in burst :
           burst' = {[token |-> b.token, arrivals |-> b.arrivals, live |-> FALSE]}
    BY <1>14, ExpiryIs
  <2>2. burst' \in SUBSET Burst /\ \A x, y \in burst' : x = y BY <1>0, <2>1 DEF Burst
  <2>3. req' = req BY <1>14 DEF LeaseExpires
  <2> QED BY <1>0, <2>2, <2>3 DEF RowShape
<1>15. ASSUME NEW h \in Hosts, HostReads(h) \/ HostDelivers(h) PROVE RowShape'
  BY <1>0, <1>15 DEF RowShape, HostReads, HostDelivers
<1>16. ASSUME NEW e \in Erasers, EraseReads(e) \/ EraseSaves(e) PROVE RowShape'
  BY <1>0, <1>16 DEF RowShape, EraseReads, EraseSaves
<1> QED BY <1>1, <1>2, <1>3, <1>4, <1>5, <1>6, <1>7, <1>8, <1>9, <1>10, <1>11, <1>12, <1>13, <1>14,
           <1>15, <1>16 DEF Next, Join, Answer

-----------------------------------------------------------------------------
(* Then the other writers, and what is noted.                              *)

OtherShape ==
    /\ host \in [Hosts -> Host]
    /\ \A h \in Hosts : host[h].step # "done" => host[h].tries < HostTries
    /\ erase \in [Erasers -> Eraser]

NotedShape ==
    /\ mishaps \in 0..MaxMishaps
    /\ counted \subseteq Requests /\ unserved \subseteq Requests
    /\ replies \in [Requests -> 0..2]
    /\ twice \in BOOLEAN

\* Steps that note nothing.
Plain(r) ==
    \/ Post(r) \/ PostRetry(r) \/ JoinFindsNone(r) \/ JoinConflicts(r) \/ Leave(r)
    \/ WaitForQuiet(r) \/ DraftReply(r) \/ HoldDraft(r) \/ FinishBurst(r)

LEMMA PlainIs ==
  ASSUME NEW r, Plain(r)
  PROVE  host' = host /\ erase' = erase /\ mishaps' = mishaps /\ counted' = counted
         /\ unserved' = unserved /\ replies' = replies /\ twice' = twice
<1>1. UNCHANGED <<others, mishaps, history>>
  BY DEF Plain, Post, PostRetry, JoinFindsNone, JoinConflicts, Leave, WaitForQuiet, DraftReply,
         HoldDraft, FinishBurst
<1> QED BY <1>1 DEF others, history

LEMMA MoreMishaps ==
  ASSUME mishaps \in 0..MaxMishaps, NEW k, Mishap(k)
  PROVE  mishaps' \in 0..MaxMishaps
BY ChatAssumption DEF Mishap

LEMMA WaitingOwned == ASSUME NEW L, Owned(L) PROVE Waiting(L) \subseteq Requests
<1>1. \A k \in Unanswered(L) : L[k].msg \in Requests
  BY UnansweredIs DEF Owned, UserAt
<1> QED BY <1>1, WaitingIs DEF Owned

LEMMA StoredOwned ==
  ASSUME Owned(chat), NEW r PROVE {chat[i].msg : i \in Stored(r)} \subseteq Requests
BY LenProperties DEF Owned, Stored

LEMMA CommitNotes ==
  ASSUME Shape, NEW r \in Requests, CommitReply(r)
  PROVE  /\ counted' = counted /\ host' = host /\ erase' = erase /\ twice' = twice
         /\ mishaps' = mishaps
         /\ unserved' \subseteq Requests /\ replies' \in [Requests -> 0..2]
<1>1. \A d \in req[r].draft : d.reads \subseteq Requests BY DEF Shape, Request, Draft
<1>2. unserved \subseteq Requests /\ replies \in [Requests -> 0..2] BY DEF Shape
<1>3. CASE \E d \in req[r].draft : CommitDraft(d)
  <2>1. PICK d \in req[r].draft :
           /\ replies' = [m \in Requests |-> IF m \in d.reads /\ replies[m] < 2
                                             THEN replies[m] + 1 ELSE replies[m]]
           /\ unserved' = unserved \ d.reads
    BY <1>3 DEF CommitDraft
  <2>2. unserved' \subseteq Requests BY <1>2, <2>1
  <2>3. \A m \in Requests : (IF m \in d.reads /\ replies[m] < 2
                             THEN replies[m] + 1 ELSE replies[m]) \in 0..2
    BY <1>2
  <2>4. replies' \in [Requests -> 0..2] BY <2>1, <2>3
  <2>5. counted' = counted /\ host' = host /\ erase' = erase /\ twice' = twice /\ mishaps' = mishaps
    BY DEF CommitReply, others
  <2> QED BY <2>2, <2>4, <2>5
<1>4. CASE /\ unserved' = unserved \union UNION {d.reads : d \in req[r].draft}
           /\ UNCHANGED <<chat, replies>>
  <2>1. counted' = counted /\ host' = host /\ erase' = erase /\ twice' = twice /\ mishaps' = mishaps
    BY DEF CommitReply, others
  <2> QED BY <1>1, <1>2, <1>4, <2>1
<1> QED BY <1>3, <1>4 DEF CommitReply

LEMMA NotedStep ==
  ASSUME Shape, Owned(chat), \A e \in Erasers : Owned(erase[e].list), Next
  PROVE  NotedShape'
<1> USE DEF NotedShape
<1>0. /\ mishaps \in 0..MaxMishaps
      /\ counted \subseteq Requests /\ unserved \subseteq Requests
      /\ replies \in [Requests -> 0..2]
      /\ twice \in BOOLEAN
      /\ Waiting(chat) \subseteq Requests
  BY WaitingOwned DEF Shape
<1>1. ASSUME NEW r \in Requests, Plain(r) PROVE NotedShape'
  BY <1>0, <1>1, PlainIs
<1>2. ASSUME NEW r \in Requests, JoinInserts(r) \/ JoinCounts(r) PROVE NotedShape'
  <2>1. mishaps' = mishaps /\ replies' = replies /\ unserved' = unserved /\ twice' = twice /\ Count(r)
    BY <1>2 DEF JoinInserts, JoinCounts
  <2>2. counted' \subseteq Requests BY <1>0, <2>1, StoredOwned DEF Count
  <2> QED BY <1>0, <2>1, <2>2
<1>3. ASSUME NEW r \in Requests, CommitReply(r) PROVE NotedShape'
  BY <1>0, <1>3, CommitNotes
<1>4. ASSUME NEW r \in Requests, Fail(r) \/ Cancel(r) PROVE NotedShape'
  <2>1. mishaps' \in 0..MaxMishaps BY <1>0, <1>4, MoreMishaps DEF Fail, Cancel
  <2>2. counted' = counted /\ replies' = replies /\ unserved' = unserved /\ twice' = twice
    BY <1>4 DEF Fail, Cancel, history
  <2> QED BY <1>0, <2>1, <2>2
<1>5. ASSUME NEW r \in Requests, Release(r) PROVE NotedShape'
  <2>1. mishaps' = mishaps /\ counted' = counted /\ replies' = replies /\ twice' = twice
    BY <1>5 DEF Release
  <2>2. unserved' \subseteq unserved \union Waiting(chat) BY <1>5 DEF Release, Waiting
  <2> QED BY <1>0, <2>1, <2>2
<1>6. ASSUME NEW r \in Requests, Crash(r) PROVE NotedShape'
  <2>1. mishaps' \in 0..MaxMishaps BY <1>0, <1>6, MoreMishaps DEF Crash
  <2>2. counted' = counted /\ replies' = replies /\ twice' = twice BY <1>6 DEF Crash
  <2>3. unserved' \subseteq unserved \union Waiting(chat) BY <1>6 DEF Crash
  <2> QED BY <1>0, <2>1, <2>2, <2>3
<1>7. ASSUME NEW r \in Requests, RenewalFails(r) PROVE NotedShape'
  <2>1. mishaps' \in 0..MaxMishaps BY <1>0, <1>7, MoreMishaps DEF RenewalFails
  <2>2. counted' = counted /\ replies' = replies /\ unserved' = unserved /\ twice' = TRUE
    BY <1>7 DEF RenewalFails
  <2> QED BY <1>0, <2>1, <2>2
<1>8. ASSUME LeaseExpires PROVE NotedShape'
  <2>1. UNCHANGED <<mishaps, counted, replies, unserved, twice>> BY <1>8 DEF LeaseExpires, history
  <2> QED BY <1>0, <2>1
<1>9. ASSUME NEW h \in Hosts, HostReads(h) PROVE NotedShape'
  <2>1. UNCHANGED <<mishaps, counted, replies, unserved, twice>> BY <1>9 DEF HostReads, history
  <2> QED BY <1>0, <2>1
<1>10. ASSUME NEW h \in Hosts, HostDelivers(h) PROVE NotedShape'
  <2>1. UNCHANGED <<mishaps, counted, replies, twice>> BY <1>10 DEF HostDelivers
  <2>2. unserved' \subseteq unserved \union Waiting(chat) BY <1>10 DEF HostDelivers
  <2> QED BY <1>0, <2>1, <2>2
<1>11. ASSUME NEW e \in Erasers, EraseReads(e) PROVE NotedShape'
  <2>1. UNCHANGED <<mishaps, counted, replies, unserved, twice>> BY <1>11 DEF EraseReads, history
  <2> QED BY <1>0, <2>1
<1>12. ASSUME NEW e \in Erasers, EraseSaves(e) PROVE NotedShape'
  <2>1. PICK N : N = Marked(erase[e].list, {erase[e].at}, "deleted") OBVIOUS
  <2>2. N \in Seq(Entry) /\ Owned(N)
    <3>1. Comes(erase[e].list, N, Self(erase[e].list), 0) BY <1>12, <2>1, ErasedComes
    <3> QED BY <3>1 DEF Comes, Owned
  <2>3. unserved' \subseteq unserved \union Waiting(N) BY <1>12, <2>1 DEF EraseSaves
  <2>4. UNCHANGED <<mishaps, counted, replies>> /\ twice' = TRUE BY <1>12 DEF EraseSaves
  <2> QED BY <1>0, <2>2, <2>3, <2>4, WaitingOwned
<1> HIDE DEF NotedShape
<1> QED BY <1>1, <1>2, <1>3, <1>4, <1>5, <1>6, <1>7, <1>8, <1>9, <1>10, <1>11, <1>12
        DEF Next, Join, Answer, Plain

LEMMA OtherStep ==
  ASSUME Shape, Owned(chat), \A e \in Erasers : Owned(erase[e].list), Next
  PROVE  OtherShape'
<1> USE DEF OtherShape
<1>0. OtherShape BY DEF Shape
<1>1. ASSUME host' = host, erase' = erase PROVE OtherShape' BY <1>0, <1>1
<1>2. ASSUME NEW r \in Requests, Plain(r) PROVE OtherShape' BY <1>1, <1>2, PlainIs
<1>3. ASSUME NEW r \in Requests,
             \/ JoinInserts(r) \/ JoinCounts(r) \/ CommitReply(r) \/ Fail(r) \/ Cancel(r)
             \/ Release(r) \/ Crash(r) \/ RenewalFails(r)
      PROVE  OtherShape'
  <2>1. UNCHANGED others
    BY <1>3 DEF JoinInserts, JoinCounts, CommitReply, Fail, Cancel, Release, Crash, RenewalFails
  <2> QED BY <1>1, <2>1 DEF others
<1>4. ASSUME LeaseExpires PROVE OtherShape'
  <2>1. UNCHANGED others BY <1>4 DEF LeaseExpires
  <2> QED BY <1>1, <2>1 DEF others
<1>5. ASSUME NEW h \in Hosts, HostReads(h) PROVE OtherShape'
  <2>1. Len(chat) \in Nat BY LenProperties DEF Owned
  <2>2. host' = [host EXCEPT ![h].step = "deliver", ![h].expected = Len(chat)] /\ erase' = erase
    BY <1>5 DEF HostReads
  <2>3. host[h].step = "read" BY <1>5 DEF HostReads
  <2>4. PICK n \in Nat : n = Len(chat) BY <2>1
  <2>5. host' \in [Hosts -> Host] /\ (\A g \in Hosts \ {h} : host'[g] = host[g])
        /\ host'[h].tries = host[h].tries
    BY <1>0, <2>2, <2>4 DEF Host
  <2> QED BY <1>0, <2>2, <2>3, <2>5
<1>6. ASSUME NEW h \in Hosts, HostDelivers(h) PROVE OtherShape'
  <2>1. host[h].step = "deliver" /\ erase' = erase BY <1>6 DEF HostDelivers
  <2>2. host[h] \in Host /\ host[h].tries < HostTries /\ host[h].tries \in Nat
    BY <1>0, <2>1 DEF Host
  <2>3. CASE host' = [host EXCEPT ![h].step = "done"]
    <3>1. host' \in [Hosts -> Host] /\ (\A g \in Hosts \ {h} : host'[g] = host[g])
          /\ host'[h].step = "done"
      BY <1>0, <2>3 DEF Host
    <3> QED BY <1>0, <2>1, <3>1
  <2>4. CASE host' = [host EXCEPT ![h].tries = @ + 1,
                         ![h].step = IF host[h].tries + 1 < HostTries THEN "read" ELSE "done"]
    <3>1. PICK t : t = host[h].tries + 1 OBVIOUS
    <3>2. t \in 0..HostTries BY <2>2, <3>1, ChatAssumption
    <3>3. PICK p \in {"read", "done"} : p = IF t < HostTries THEN "read" ELSE "done" OBVIOUS
    <3>4. host' = [host EXCEPT ![h].tries = t, ![h].step = p] BY <2>4, <3>1, <3>3
    <3>5. p # "done" => t < HostTries BY <3>3
    <3> HIDE <3>1, <3>3
    <3>6. host' \in [Hosts -> Host] /\ (\A g \in Hosts \ {h} : host'[g] = host[g])
          /\ host'[h].tries = t /\ host'[h].step = p
      BY <1>0, <3>2, <3>4 DEF Host
    <3> QED BY <1>0, <2>1, <3>5, <3>6
  <2> QED BY <1>6, <2>3, <2>4 DEF HostDelivers
<1>7. ASSUME NEW e \in Erasers, EraseReads(e) PROVE OtherShape'
  <2>1. DOMAIN chat = 1..Len(chat) /\ Len(chat) \in Nat /\ chat \in Seq(Entry)
    BY LenProperties DEF Owned
  <2>2. PICK i \in 1..Len(chat) :
           erase' = [erase EXCEPT ![e] = [step |-> "save", at |-> i, list |-> chat]]
    BY <1>7, <2>1 DEF EraseReads
  <2>3. [step |-> "save", at |-> i, list |-> chat] \in Eraser BY <2>1, <2>2 DEF Eraser
  <2>4. erase' \in [Erasers -> Eraser] BY <1>0, <2>2, <2>3
  <2>5. host' = host BY <1>7 DEF EraseReads
  <2> QED BY <1>0, <2>4, <2>5
<1>8. ASSUME NEW e \in Erasers, EraseSaves(e) PROVE OtherShape'
  <2>1. PICK c \in Eraser : c = erase[e] BY <1>0
  <2>2. PICK b : b = [c EXCEPT !.step = "done", !.list = <<>>] OBVIOUS
  <2>3. <<>> \in Seq(Entry) OBVIOUS
  <2>4. b \in Eraser BY <2>2, <2>3 DEF Eraser
  <2>5. erase' = [erase EXCEPT ![e] = b] BY <1>8, <2>1, <2>2 DEF EraseSaves
  <2>6. erase' \in [Erasers -> Eraser] BY <1>0, <2>4, <2>5
  <2>7. host' = host BY <1>8 DEF EraseSaves
  <2> QED BY <1>0, <2>6, <2>7
<1> HIDE DEF OtherShape
<1> QED BY <1>2, <1>3, <1>4, <1>5, <1>6, <1>7, <1>8 DEF Next, Join, Answer, Plain

LEMMA ShapeStep ==
  ASSUME Shape, Owned(chat), \A e \in Erasers : Owned(erase[e].list), Next
  PROVE  Shape'
<1>1. RowShape' /\ OtherShape' /\ NotedShape' BY RowStep, OtherStep, NotedStep
<1> QED BY <1>1 DEF Shape, RowShape, OtherShape, NotedShape

-----------------------------------------------------------------------------
(* What a step makes of the list, of who has sent, and of what is known.   *)

LEMMA PostEdits ==
  ASSUME Owned(chat), NEW r \in Requests, Post(r)
  PROVE  \/ chat' = chat
         \/ \E R, e : /\ Alike(chat, R) /\ chat' = Append(R, e)
                      /\ e \in Entry /\ e.from = "user" /\ e.msg = r /\ e.status = "sending"
<1>1. CASE Stored(r) # {} BY <1>1 DEF Post
<1>2. CASE Stored(r) = {}
  <2>1. PICK n \in 0..Len(chat) :
           chat' = Append(Marked(chat, Stale(chat, n), "read"),
                          [from |-> "user", msg |-> r, status |-> "sending"])
    BY <1>2 DEF Post
  <2>2. PICK R : R = Marked(chat, Stale(chat, n), "read") OBVIOUS
  <2>3. Alike(chat, R)
    <3>1. \A k \in Stale(chat, n) : UserAt(chat, k) /\ chat[k].status # "closed"
      BY StaleMarks DEF Owned
    <3> QED BY <2>2, <3>1, MarkedAlike
  <2>4. PICK e : e = [from |-> "user", msg |-> r, status |-> "sending"] OBVIOUS
  <2>5. e \in Entry /\ e.from = "user" /\ e.msg = r /\ e.status = "sending"
    BY <2>4 DEF Entry, Status
  <2>6. chat' = Append(R, e) BY <2>1, <2>2, <2>4
  <2> QED BY <2>3, <2>5, <2>6
<1> QED BY <1>1, <1>2

LEMMA MarkEdits ==
  ASSUME Owned(chat), NEW r \in Requests, PostRetry(r) \/ Fail(r)
  PROVE  Alike(chat, chat')
<1>1. PICK I, s : /\ chat' = Marked(chat, I, s) /\ s \in {"sending", "failed"}
                  /\ I \subseteq Unanswered(chat)
  <2>1. CASE PostRetry(r) BY <2>1 DEF PostRetry
  <2>2. CASE Fail(r) BY <2>2 DEF Fail
  <2> QED BY <2>1, <2>2
<1>2. \A k \in I : UserAt(chat, k) /\ chat[k].status # "closed"
  BY <1>1, UnansweredMarks DEF Owned
<1> QED BY <1>1, <1>2, MarkedAlike

LEMMA CommitEdits ==
  ASSUME Shape, Owned(chat), NEW r \in Requests, NEW d \in req[r].draft, CommitDraft(d)
  PROVE  \E i \in 1..Len(chat) : \E g :
            /\ UserAt(chat, i) /\ chat[i].msg = d.last
            /\ Comes(chat, chat', g, i) /\ NewlyQuiet(chat, chat', g, i)
            /\ FailedStay(chat, chat', g, i)
<1>1. d.last \in Requests BY DEF Shape, Request, Draft
<1>2. PICK i \in Places(chat, d.last) :
        LET R == Marked(chat, Unanswered(SubSeq(chat, 1, i)), "read") IN
        \/ chat' = Inserted(R, ReplyPlace(R, i), [from |-> "reply", msg |-> d.last, status |-> "said"])
        \/ chat' = Marked(R, {i}, "closed")
  BY DEF CommitDraft
<1>3. DOMAIN chat = 1..Len(chat) BY LenProperties DEF Owned
<1>4. i \in 1..Len(chat) /\ UserAt(chat, i) /\ chat[i].msg = d.last
  BY <1>3 DEF Places, UserAt
<1>5. \E g : Comes(chat, chat', g, i) /\ NewlyQuiet(chat, chat', g, i) /\ FailedStay(chat, chat', g, i)
  BY <1>1, <1>2, CommitComes
<1> QED BY <1>4, <1>5

\* What the draft read is answered then.
LEMMA CommitKnown ==
  ASSUME Shape, NEW r \in Requests, NEW d \in req[r].draft, CommitDraft(d)
  PROVE  /\ KnownNow' = KnownNow \union d.reads
         /\ \A m \in Requests : m \notin d.reads => replies'[m] = replies[m]
         /\ \A m \in d.reads : replies[m] = 0 => replies'[m] = 1
<1>1. d.reads \subseteq Requests BY DEF Shape, Request, Draft
<1>2. unserved \subseteq Requests /\ \A m \in Requests : replies[m] \in 0..2 BY DEF Shape
<1>3. /\ unserved' = unserved \ d.reads
      /\ \A m \in Requests : replies'[m] = IF m \in d.reads /\ replies[m] < 2
                                           THEN replies[m] + 1 ELSE replies[m]
  BY DEF CommitDraft
<1>4. ASSUME NEW m \in Requests PROVE replies'[m] > 0 <=> replies[m] > 0 \/ m \in d.reads
  BY <1>2, <1>3
<1>5. KnownNow' = {m \in Requests : replies'[m] > 0} \union unserved' BY DEF KnownNow
<1>6. KnownNow' = KnownNow \union d.reads BY <1>1, <1>3, <1>4, <1>5 DEF KnownNow
<1> QED BY <1>1, <1>3, <1>6

LEMMA KnownGrows ==
  ASSUME replies' = replies, unserved \subseteq unserved'
  PROVE  KnownNow \subseteq KnownNow'
BY DEF KnownNow

LEMMA TurnedBegun ==
  ASSUME NEW r \in Requests, NEW p, NEW s, NEW d, NEW k, Turned(r, p, s, d, k),
         p # "new" \/ p = req[r].pc
  PROVE  Begun \subseteq Begun'
BY DEF Turned, Begun

LEMMA BegunStays == ASSUME req' = req PROVE Begun' = Begun
BY DEF Begun

\* Every request step: nobody takes back what it sent.
LEMMA BegunGrows ==
  ASSUME Shape, Owned(chat), Next
  PROVE  Begun \subseteq Begun'
<1>1. ASSUME NEW r \in Requests,
             \/ Post(r) \/ PostRetry(r) \/ JoinFindsNone(r) \/ JoinConflicts(r) \/ Leave(r)
             \/ Fail(r) \/ Cancel(r) \/ Release(r) \/ CommitReply(r) \/ Crash(r) \/ RenewalFails(r)
      PROVE  Begun \subseteq Begun'
  BY <1>1, Turns, TurnedBegun
<1>2. ASSUME NEW r \in Requests, JoinInserts(r) PROVE Begun \subseteq Begun'
  <2>1. Turned(r, "waiting", req[r].seen, req[r].draft, TRUE) BY <1>2, Turns DEF JoinInserts
  <2> QED BY <2>1, TurnedBegun
<1>3. ASSUME NEW r \in Requests, JoinCounts(r) PROVE Begun \subseteq Begun'
  BY <1>3, JoinTurns, TurnedBegun
<1>4. ASSUME NEW r \in Requests, WaitForQuiet(r) PROVE Begun \subseteq Begun'
  <2>1. CASE Owns(r) BY <1>4, <2>1, WaitTurns, TurnedBegun
  <2>2. CASE ~Owns(r) BY <1>1, <1>4, <2>2 DEF WaitForQuiet, Owns
  <2> QED BY <2>1, <2>2
<1>5. ASSUME NEW r \in Requests, DraftReply(r) PROVE Begun \subseteq Begun'
  BY <1>5, DraftTurns, TurnedBegun
<1>6. ASSUME NEW r \in Requests, HoldDraft(r) PROVE Begun \subseteq Begun'
  <2>1. CASE Owns(r) BY <1>6, <2>1, HoldTurns, TurnedBegun
  <2>2. CASE ~Owns(r) BY <1>1, <1>6, <2>2 DEF HoldDraft, Owns
  <2> QED BY <2>1, <2>2
<1>7. ASSUME NEW r \in Requests, FinishBurst(r) PROVE Begun \subseteq Begun'
  BY <1>7, FinishTurns, TurnedBegun
<1>8. ASSUME \/ LeaseExpires \/ \E h \in Hosts : HostReads(h) \/ HostDelivers(h)
             \/ \E e \in Erasers : EraseReads(e) \/ EraseSaves(e)
      PROVE  Begun \subseteq Begun'
  <2>1. req' = req BY <1>8 DEF LeaseExpires, HostReads, HostDelivers, EraseReads, EraseSaves
  <2> QED BY <2>1, BegunStays
<1> QED BY <1>1, <1>2, <1>3, <1>4, <1>5, <1>6, <1>7, <1>8 DEF Next, Join, Answer

\* A list that comes from the chat, and drafts that were there.
LEMMA ListsKept ==
  ASSUME Lists, Drafts, Begun \subseteq Begun', KnownNow \subseteq KnownNow',
         NEW g, NEW i \in Int, Comes(chat, chat', g, i),
         \A k \in 1..Len(chat) : UserAt(chat, k) /\ k <= i => chat[k].msg \in KnownNow',
         \A e \in Erasers : erase'[e].list \in {erase[e].list, chat, <<>>},
         \A r \in Requests : \A d \in req'[r].draft :
            d \in req[r].draft \/ Fits(d, chat', Begun', KnownNow')
  PROVE  Lists' /\ Drafts'
<1>1. PICK B, C, K, J : B = Begun /\ C = Begun' /\ K = KnownNow /\ J = KnownNow' OBVIOUS
<1>2. Sound(chat, B, K) /\ \A e \in Erasers : Sound(erase[e].list, B, K) BY <1>1 DEF Lists
<1>3. B \subseteq C /\ K \subseteq J BY <1>1
<1>4. Sound(chat', C, J) BY <1>1, <1>2, <1>3, SoundComes
<1>5. ASSUME NEW L, Sound(L, B, K) PROVE Sound(L, C, J)
  <2>1. Comes(L, L, Self(L), 0) BY <1>5, SoundOwned, SelfComes
  <2>2. \A k \in 1..Len(L) : ~(k <= 0) OBVIOUS
  <2> QED BY <1>3, <1>5, <2>1, <2>2, SoundComes
<1>6. Sound(<<>>, C, J) BY DEF Sound
<1>7. \A e \in Erasers : Sound(erase'[e].list, C, J) BY <1>2, <1>5, <1>6
<1>8. Lists' BY <1>1, <1>4, <1>7 DEF Lists
<1>9. ASSUME NEW r \in Requests, NEW d \in req'[r].draft PROVE Fits(d, chat', C, J)
  <2>1. CASE d \in req[r].draft
    <3>1. Fits(d, chat, B, K) BY <1>1, <2>1 DEF Drafts
    <3> QED BY <1>3, <3>1, FitsComes
  <2>2. CASE Fits(d, chat', Begun', KnownNow') BY <1>1, <2>2
  <2> QED BY <2>1, <2>2
<1>10. Drafts' BY <1>1, <1>9 DEF Drafts
<1> QED BY <1>8, <1>10

LEMMA TurnedDrafts ==
  ASSUME NEW r \in Requests, NEW p, NEW s, NEW d, NEW k, Turned(r, p, s, d, k), d \subseteq req[r].draft
  PROVE  \A q \in Requests : req'[q].draft \subseteq req[q].draft
<1>1. ASSUME NEW q \in Requests PROVE req'[q].draft \subseteq req[q].draft
  <2>1. CASE q = r BY <2>1 DEF Turned
  <2>2. CASE q # r BY <2>2 DEF Turned
  <2> QED BY <2>1, <2>2
<1> QED BY <1>1

\* Only drafting adds a draft.
LEMMA DraftsStay ==
  ASSUME Shape, Next, \A r \in Requests : ~DraftReply(r)
  PROVE  \A q \in Requests : req'[q].draft \subseteq req[q].draft
<1> DEFINE Stay == \A q \in Requests : req'[q].draft \subseteq req[q].draft
<1>1. ASSUME NEW r \in Requests,
             \/ Post(r) \/ PostRetry(r) \/ JoinFindsNone(r) \/ JoinConflicts(r)
             \/ Release(r) \/ RenewalFails(r)
      PROVE  Stay
  BY <1>1, Turns, TurnedDrafts
<1>2. ASSUME NEW r \in Requests, NEW p, NEW s, NEW k, Turned(r, p, s, {}, k) PROVE Stay
  BY <1>2, TurnedDrafts
<1>3. ASSUME NEW r \in Requests, Leave(r) PROVE Stay
  <2>1. PICK p, k : Turned(r, p, req[r].seen, {}, k) BY <1>3, Turns
  <2> QED BY <1>2, <2>1
<1>4. ASSUME NEW r \in Requests, Fail(r) \/ Cancel(r) \/ CommitReply(r) PROVE Stay
  <2>1. PICK p, k : Turned(r, p, req[r].seen, {}, k) BY <1>4, Turns
  <2> QED BY <1>2, <2>1
<1>5. ASSUME NEW r \in Requests, Crash(r) PROVE Stay
  <2>1. PICK p, s, k : Turned(r, p, s, {}, k) BY <1>5, Turns
  <2> QED BY <1>2, <2>1
<1>6. ASSUME NEW r \in Requests, JoinInserts(r) PROVE Stay
  <2>1. PICK p, k : Turned(r, p, req[r].seen, req[r].draft, k) BY <1>6, Turns DEF JoinInserts
  <2> QED BY <2>1, TurnedDrafts
<1>7. ASSUME NEW r \in Requests, JoinCounts(r) PROVE Stay
  <2>1. PICK p, k : Turned(r, p, req[r].seen, req[r].draft, k) BY <1>7, JoinTurns
  <2> QED BY <2>1, TurnedDrafts
<1>8. ASSUME NEW r \in Requests, WaitForQuiet(r) PROVE Stay
  <2>1. CASE Owns(r)
    <3>1. PICK p, s, k : Turned(r, p, s, req[r].draft, k) BY <1>8, <2>1, WaitTurns
    <3> QED BY <3>1, TurnedDrafts
  <2>2. CASE ~Owns(r) BY <1>3, <1>8, <2>2 DEF WaitForQuiet, Owns
  <2> QED BY <2>1, <2>2
<1>9. ASSUME NEW r \in Requests, HoldDraft(r) PROVE Stay
  <2>1. CASE Owns(r)
    <3>1. CASE Turned(r, "waiting", req[r].seen, {}, req[r].keeps) BY <1>2, <3>1
    <3>2. CASE Turned(r, "ready", req[r].seen, req[r].draft, req[r].keeps) BY <3>2, TurnedDrafts
    <3> QED BY <1>9, <2>1, <3>1, <3>2, HoldTurns
  <2>2. CASE ~Owns(r) BY <1>3, <1>9, <2>2 DEF HoldDraft, Owns
  <2> QED BY <2>1, <2>2
<1>10. ASSUME NEW r \in Requests, FinishBurst(r) PROVE Stay
  <2>1. PICK p, k : Turned(r, p, req[r].seen, req[r].draft, k) BY <1>10, FinishTurns
  <2> QED BY <2>1, TurnedDrafts
<1>11. ASSUME \/ LeaseExpires \/ \E h \in Hosts : HostReads(h) \/ HostDelivers(h)
              \/ \E e \in Erasers : EraseReads(e) \/ EraseSaves(e)
       PROVE  Stay
  BY <1>11 DEF LeaseExpires, HostReads, HostDelivers, EraseReads, EraseSaves
<1> HIDE DEF Stay
<1>12. Stay
  BY <1>1, <1>3, <1>4, <1>5, <1>6, <1>7, <1>8, <1>9, <1>10, <1>11 DEF Next, Join, Answer
<1> QED BY <1>12 DEF Stay

\* A draft of all that waits, down to the last of it.
LEMMA DraftFits ==
  ASSUME NEW L, NEW B, NEW K, Sound(L, B, K), NEW l \in Unanswered(L),
         \A j \in Unanswered(L) : j <= l,
         NEW d, d.last = L[l].msg, d.reads = Waiting(L)
  PROVE  Fits(d, L, B, K) /\ InOrder(d, L)
<1>1. L \in Seq(Entry) /\ Len(L) \in Nat BY LenProperties DEF Sound
<1>2. l \in 1..Len(L) /\ UserAt(L, l) BY <1>1, UnansweredIs
<1>3. \A k \in Unanswered(L) : k \in 1..Len(L) /\ UserAt(L, k) /\ L[k].msg \in B
  BY <1>1, UnansweredIs DEF Sound, UserAt
<1>4. d.last \in B /\ d.reads \subseteq B BY <1>1, <1>3, WaitingIs
<1>5. ASSUME NEW i \in 1..Len(L), UserAt(L, i), L[i].msg = d.last PROVE i = l
  BY <1>2, <1>5 DEF Sound, UserAt
<1>6. ASSUME NEW k \in 1..Len(L), UserAt(L, k) PROVE L[k].msg \in d.reads \union K
  <2>1. CASE k \in Unanswered(L) BY <2>1, <1>1, WaitingIs
  <2>2. CASE k \notin Unanswered(L) BY <2>2, <1>1, <1>6, AnsweredIsPassed DEF Sound
  <2> QED BY <2>1, <2>2
<1>7. Fits(d, L, B, K)
  <2>1. ASSUME NEW i \in 1..Len(L), UserAt(L, i), L[i].msg = d.last, NEW k \in 1..i, UserAt(L, k)
        PROVE  L[k].msg \in d.reads \union K
    BY <1>1, <1>6, <2>1
  <2> QED BY <1>4, <2>1 DEF Fits
<1>8. ASSUME NEW k \in 1..Len(L), UserAt(L, k), L[k].msg \in d.reads PROVE k <= l
  <2>1. PICK u \in Unanswered(L) : L[k].msg = L[u].msg BY <1>1, <1>8, WaitingIs
  <2>2. k = u BY <1>3, <1>8, <2>1 DEF Sound, UserAt
  <2> QED BY <2>2
<1>9. InOrder(d, L) BY <1>5, <1>8 DEF InOrder
<1> QED BY <1>7, <1>9

\* Steps that leave the chat alone.
LEMMA ListsSame ==
  ASSUME Lists, Drafts, Begun \subseteq Begun', KnownNow \subseteq KnownNow', chat' = chat,
         \A e \in Erasers : erase'[e].list \in {erase[e].list, chat, <<>>},
         \A r \in Requests : \A d \in req'[r].draft :
            d \in req[r].draft \/ Fits(d, chat, Begun', KnownNow')
  PROVE  Lists' /\ Drafts'
<1>1. Owned(chat) BY SoundOwned DEF Lists
<1>2. Comes(chat, chat', Self(chat), 0) BY <1>1, SelfComes
<1>3. 0 \in Int /\ \A k \in 1..Len(chat) : ~(k <= 0) OBVIOUS
<1> QED BY <1>2, <1>3, ListsKept

LEMMA ListsRequests ==
  ASSUME Shape, Lists, Drafts, NEW r \in Requests,
         \/ Post(r) \/ PostRetry(r) \/ Join(r) \/ Answer(r)
         \/ Fail(r) \/ Cancel(r) \/ Crash(r) \/ RenewalFails(r)
  PROVE  Lists' /\ Drafts'
<1>1. Owned(chat) /\ Next BY SoundOwned DEF Lists, Next
<1>2. Begun \subseteq Begun' BY <1>1, BegunGrows
<1>3. ASSUME NEW q \in Requests, DraftReply(q) PROVE Lists' /\ Drafts'
  <2>1. chat' = chat /\ erase' = erase /\ KnownNow' = KnownNow
    BY <1>3, PlainIs DEF DraftReply, Plain, KnownNow
  <2>2. CASE Turned(q, "written", req[q].seen, {}, req[q].keeps)
    <3>1. \A x \in Requests : req'[x].draft \subseteq req[x].draft BY <2>2, TurnedDrafts
    <3> QED BY <1>2, <2>1, <3>1, ListsSame
  <2>3. ASSUME NEW l \in Unanswered(chat), \A j \in Unanswered(chat) : j <= l,
               Turned(q, "written", req[q].seen,
                      {[last |-> chat[l].msg, reads |-> Waiting(chat)]}, req[q].keeps)
        PROVE  Lists' /\ Drafts'
    <3>1. PICK d : d = [last |-> chat[l].msg, reads |-> Waiting(chat)] OBVIOUS
    <3>2. Fits(d, chat, Begun, KnownNow) BY <2>3, <3>1, DraftFits DEF Lists
    <3>3. Owned(chat) BY <1>1
    <3>4. Comes(chat, chat, Self(chat), 0) BY <3>3, SelfComes
    <3>5. Fits(d, chat, Begun', KnownNow') BY <1>2, <2>1, <3>2, <3>4, FitsComes
    <3>6. \A x \in Requests : \A c \in req'[x].draft : c \in req[x].draft \/ c = d
      BY <2>3, <3>1 DEF Turned
    <3> HIDE <3>1
    <3> QED BY <1>2, <2>1, <3>5, <3>6, ListsSame
  <2> QED BY <1>1, <1>3, <2>2, <2>3, DraftTurns
<1>4. ASSUME \A q \in Requests : ~DraftReply(q) PROVE Lists' /\ Drafts'
  <2>1. \A q \in Requests : req'[q].draft \subseteq req[q].draft BY <1>1, <1>4, DraftsStay
  <2>2. erase' = erase
    <3>1. CASE Plain(r) BY <3>1, PlainIs
    <3>2. CASE ~Plain(r)
      <4>1. UNCHANGED others
        BY <3>2 DEF JoinInserts, JoinCounts, CommitReply, Fail, Cancel, Release, Crash,
                    RenewalFails, Join, Answer, Plain
      <4> QED BY <4>1 DEF others
    <3> QED BY <3>1, <3>2
  <2>3. ASSUME chat' = chat, KnownNow \subseteq KnownNow' PROVE Lists' /\ Drafts'
    BY <1>2, <2>1, <2>2, <2>3, ListsSame
  <2>4. ASSUME replies' = replies, unserved \subseteq unserved' PROVE KnownNow \subseteq KnownNow'
    BY <2>4, KnownGrows
  <2>5. CASE Post(r)
    <3>1. KnownNow' = KnownNow BY <2>5, PlainIs DEF Plain, KnownNow
    <3>2. CASE chat' = chat BY <2>3, <3>1, <3>2
    <3>3. ASSUME NEW R, NEW e, Alike(chat, R), chat' = Append(R, e),
                 e \in Entry, e.from = "user", e.msg = r, e.status = "sending"
          PROVE  Lists' /\ Drafts'
      <4>1. PICK B, C, K : B = Begun /\ C = Begun' /\ K = KnownNow OBVIOUS
      <4>2. Comes(chat, R, Self(R), 0)
        <5>1. Owned(R) BY <3>3 DEF Alike
        <5> QED BY <3>3, <5>1, SelfComes, AlikeComes
      <4>3. \A k \in 1..Len(chat) : ~(k <= 0) OBVIOUS
      <4>4. Sound(R, B, K) BY <4>1, <4>2, <4>3, SoundComes DEF Lists
      <4>5. r \notin B /\ r \in C
        <5>1. req[r].pc = "new" BY <2>5 DEF Post
        <5>2. req'[r].pc = "saved" BY <2>5, Turns DEF Turned
        <5> QED BY <4>1, <5>1, <5>2 DEF Begun
      <4>6. /\ Sound(chat', C, K)
            /\ \A d : Fits(d, R, B, K) => Fits(d, chat', C, K)
        BY <1>2, <3>3, <4>1, <4>4, <4>5, SentComes
      <4>7. ASSUME NEW e2 \in Erasers PROVE Sound(erase'[e2].list, C, K)
        <5>1. PICK M : M = erase[e2].list OBVIOUS
        <5>2. Sound(M, B, K) BY <4>1, <5>1 DEF Lists
        <5>3. Comes(M, M, Self(M), 0) BY <5>2, SoundOwned, SelfComes
        <5>4. \A k \in 1..Len(M) : ~(k <= 0) OBVIOUS
        <5>5. Sound(M, C, K) BY <1>2, <4>1, <5>2, <5>3, <5>4, SoundComes
        <5> QED BY <2>2, <5>1, <5>5
      <4>8. ASSUME NEW q \in Requests, NEW d \in req'[q].draft PROVE Fits(d, chat', C, K)
        <5>1. Fits(d, chat, B, K) BY <2>1, <4>1 DEF Drafts
        <5>2. Fits(d, R, B, K) BY <4>2, <5>1, FitsComes
        <5> QED BY <4>6, <5>2
      <4> QED BY <3>1, <4>1, <4>6, <4>7, <4>8 DEF Lists, Drafts
    <3> QED BY <1>1, <2>5, <3>2, <3>3, PostEdits
  <2>6. CASE PostRetry(r) \/ Fail(r)
    <3>1. KnownNow \subseteq KnownNow'
      <4>1. replies' = replies /\ unserved' = unserved BY <2>6 DEF PostRetry, Fail, history
      <4> QED BY <4>1, <2>4
    <3>2. Alike(chat, chat') BY <1>1, <2>6, MarkEdits
    <3>3. Comes(chat, chat', Self(chat'), 0)
      <4>1. Owned(chat') BY <3>2 DEF Alike
      <4> QED BY <3>2, <4>1, SelfComes, AlikeComes
    <3>4. 0 \in Int /\ \A k \in 1..Len(chat) : ~(k <= 0) OBVIOUS
    <3> QED BY <1>2, <2>1, <2>2, <3>1, <3>3, <3>4, ListsKept
  <2>7. CASE CommitReply(r)
    <3>1. CASE \E d \in req[r].draft : CommitDraft(d)
      <4>1. PICK d \in req[r].draft : CommitDraft(d) BY <3>1
      <4>2. PICK i, g :
              /\ i \in 1..Len(chat)
              /\ UserAt(chat, i) /\ chat[i].msg = d.last /\ Comes(chat, chat', g, i)
        BY <1>1, <4>1, CommitEdits
      <4>3. KnownNow' = KnownNow \union d.reads BY <4>1, CommitKnown
      <4>4. \A k \in 1..i : UserAt(chat, k) => chat[k].msg \in d.reads \union KnownNow
        BY <4>2 DEF Drafts, Fits
      <4>5. i \in 1..Len(chat) BY <4>2
      <4>6. i \in Int /\ \A k \in 1..Len(chat) : UserAt(chat, k) /\ k <= i => chat[k].msg \in KnownNow'
        BY <4>3, <4>4, <4>5
      <4> QED BY <1>2, <2>1, <2>2, <4>2, <4>3, <4>6, ListsKept
    <3>2. CASE /\ unserved' = unserved \union UNION {d.reads : d \in req[r].draft}
               /\ UNCHANGED <<chat, replies>>
      BY <2>3, <2>4, <3>2
    <3> QED BY <2>7, <3>1, <3>2 DEF CommitReply
  <2>8. CASE \/ JoinFindsNone(r) \/ JoinConflicts(r) \/ WaitForQuiet(r) \/ HoldDraft(r) \/ FinishBurst(r)
    <3>1. KnownNow' = KnownNow BY <2>8, PlainIs DEF Plain, KnownNow
    <3>2. chat' = chat
      BY <2>8 DEF JoinFindsNone, JoinConflicts, WaitForQuiet, HoldDraft, FinishBurst, Leave
    <3> QED BY <2>3, <3>1, <3>2
  <2>9. CASE \/ JoinInserts(r) \/ JoinCounts(r) \/ Cancel(r) \/ RenewalFails(r)
    <3>1. chat' = chat /\ replies' = replies /\ unserved' = unserved
      BY <2>9 DEF JoinInserts, JoinCounts, Cancel, RenewalFails, history
    <3> QED BY <2>3, <2>4, <3>1
  <2>10. CASE Release(r) \/ Crash(r)
    <3>1. chat' = chat /\ replies' = replies /\ unserved \subseteq unserved'
      BY <2>10 DEF Release, Crash
    <3> QED BY <2>3, <2>4, <3>1
  <2> QED BY <1>4, <2>5, <2>6, <2>7, <2>8, <2>9, <2>10 DEF Join, Answer
<1> QED BY <1>3, <1>4

\* With nobody waiting who is not known, every message that is there is known.
LEMMA AllKnown ==
  ASSUME NEW L, NEW B, NEW K, NEW J, Sound(L, B, K), K \subseteq J, Waiting(L) \subseteq J,
         NEW k \in 1..Len(L), UserAt(L, k)
  PROVE  L[k].msg \in J
<1>1. L \in Seq(Entry) BY DEF Sound
<1>2. CASE k \in Unanswered(L) BY <1>1, <1>2, WaitingIs
<1>3. CASE k \notin Unanswered(L) BY <1>1, <1>3, AnsweredIsPassed DEF Sound
<1> QED BY <1>2, <1>3

\* What deleting leaves of the list it read.
LEMMA EraseEdits ==
  ASSUME Shape, Lists, NEW e \in Erasers, EraseSaves(e)
  PROVE  /\ chat' = Marked(erase[e].list, {erase[e].at}, "deleted")
         /\ Sound(chat', Begun, KnownNow)
         /\ Comes(erase[e].list, chat', Self(erase[e].list), 0)
         /\ FailedStay(erase[e].list, chat', Self(erase[e].list), 0)
         /\ erase[e].list = chat \/ Waiting(chat') \subseteq KnownNow'
         /\ KnownNow \subseteq KnownNow'
<1>1. PICK L, i : L = erase[e].list /\ i = erase[e].at OBVIOUS
<1>2. chat' = Marked(L, {i}, "deleted") BY <1>1 DEF EraseSaves
<1>3. Sound(L, Begun, KnownNow) BY <1>1 DEF Lists
<1>4. Comes(L, chat', Self(L), 0) /\ FailedStay(L, chat', Self(L), 0)
  BY <1>2, <1>3, SoundOwned, ErasedComes
<1>5. \A k \in 1..Len(L) : ~(k <= 0) OBVIOUS
<1>6. Sound(chat', Begun, KnownNow) BY <1>3, <1>4, <1>5, SoundComes
<1>7. L = chat \/ Waiting(chat') \subseteq KnownNow'
  <2>1. unserved' = IF L = chat THEN unserved ELSE unserved \union Waiting(chat')
    BY <1>1, <1>2 DEF EraseSaves
  <2>2. unserved' \subseteq KnownNow' BY DEF KnownNow
  <2> QED BY <2>1, <2>2
<1>8. replies' = replies /\ unserved \subseteq unserved' BY DEF EraseSaves
<1> QED BY <1>1, <1>2, <1>4, <1>6, <1>7, <1>8, KnownGrows

LEMMA HostEdits ==
  ASSUME Shape, Lists, NEW h \in Hosts, HostDelivers(h)
  PROVE  /\ KnownNow \subseteq KnownNow'
         /\ \/ chat' = chat
            \/ /\ Comes(chat, chat', Self(chat), Len(chat)) /\ NewlyQuiet(chat, chat', Self(chat), Len(chat))
               /\ FailedStay(chat, chat', Self(chat), Len(chat))
               /\ \A k \in 1..Len(chat) : UserAt(chat, k) => chat[k].msg \in KnownNow'
<1>1. Owned(chat) BY SoundOwned DEF Lists
<1>2. KnownNow \subseteq KnownNow'
  <2>1. replies' = replies /\ unserved \subseteq unserved' BY DEF HostDelivers
  <2> QED BY <2>1, KnownGrows
<1>3. CASE chat' # chat
  <2>1. PICK e : e = [from |-> "own", msg |-> h, status |-> "said"] OBVIOUS
  <2>2. chat' = Append(chat, e) /\ unserved' = unserved \union Waiting(chat)
    BY <1>3, <2>1 DEF HostDelivers
  <2>3. e \in Entry /\ e.from = "own" /\ e.status = "said" BY <2>1 DEF Entry, Status
  <2>4. Waiting(chat) \subseteq KnownNow' BY <2>2 DEF KnownNow
  <2>5. \A k \in 1..Len(chat) : UserAt(chat, k) => chat[k].msg \in KnownNow'
    BY <1>2, <2>4, AllKnown DEF Lists
  <2>6. /\ Comes(chat, chat', Self(chat), Len(chat)) /\ FailedStay(chat, chat', Self(chat), Len(chat))
        /\ NewlyQuiet(chat, chat', Self(chat), Len(chat))
    BY <1>1, <2>2, <2>3, OwnComes
  <2> QED BY <1>2, <2>5, <2>6
<1> QED BY <1>2, <1>3

LEMMA ListsOthers ==
  ASSUME Shape, Lists, Drafts,
         \/ LeaseExpires
         \/ \E h \in Hosts : HostReads(h) \/ HostDelivers(h)
         \/ \E e \in Erasers : EraseReads(e) \/ EraseSaves(e)
  PROVE  Lists' /\ Drafts'
<1>1. Owned(chat) BY SoundOwned DEF Lists
<1>2. req' = req BY DEF LeaseExpires, HostReads, HostDelivers, EraseReads, EraseSaves
<1>3. Begun' = Begun BY <1>2, BegunStays
<1>4. ASSUME KnownNow \subseteq KnownNow', chat' = chat,
             \A e \in Erasers : erase'[e].list \in {erase[e].list, chat, <<>>}
      PROVE  Lists' /\ Drafts'
  BY <1>2, <1>3, <1>4, ListsSame
<1>5. CASE LeaseExpires
  BY <1>4, <1>5 DEF LeaseExpires, history, others, KnownNow
<1>6. ASSUME NEW h \in Hosts, HostReads(h) PROVE Lists' /\ Drafts'
  BY <1>4, <1>6 DEF HostReads, history, KnownNow
<1>7. ASSUME NEW h \in Hosts, HostDelivers(h) PROVE Lists' /\ Drafts'
  <2>1. erase' = erase BY <1>7 DEF HostDelivers
  <2>2. CASE chat' = chat BY <1>4, <1>7, <2>1, <2>2, HostEdits
  <2>3. CASE /\ Comes(chat, chat', Self(chat), Len(chat))
             /\ \A k \in 1..Len(chat) : UserAt(chat, k) => chat[k].msg \in KnownNow'
    <3>1. Len(chat) \in Int BY <1>1, LenProperties DEF Owned
    <3> QED BY <1>2, <1>3, <1>7, <2>1, <2>3, <3>1, HostEdits, ListsKept
  <2> QED BY <1>7, <2>2, <2>3, HostEdits
<1>8. ASSUME NEW e \in Erasers, EraseReads(e) PROVE Lists' /\ Drafts'
  <2>0. PICK i : erase' = [erase EXCEPT ![e] = [step |-> "save", at |-> i, list |-> chat]]
    BY <1>8 DEF EraseReads
  <2>1. PICK n : n = [step |-> "save", at |-> i, list |-> chat] OBVIOUS
  <2>2. erase' = [erase EXCEPT ![e] = n] /\ n.list = chat BY <2>0, <2>1
  <2> HIDE <2>1
  <2>3. \A x \in Erasers : erase'[x].list \in {erase[x].list, chat}
    BY <2>2 DEF Shape
  <2>4. chat' = chat /\ KnownNow' = KnownNow BY <1>8 DEF EraseReads, history, KnownNow
  <2> QED BY <1>4, <2>3, <2>4
<1>9. ASSUME NEW e \in Erasers, EraseSaves(e) PROVE Lists' /\ Drafts'
  <2>1. PICK c \in Eraser : c = erase[e] BY DEF Shape
  <2>2. PICK b : b = [c EXCEPT !.step = "done", !.list = <<>>] OBVIOUS
  <2>3. b.list = <<>> BY <2>2 DEF Eraser
  <2>4. erase' = [erase EXCEPT ![e] = b] BY <1>9, <2>1, <2>2 DEF EraseSaves
  <2>5. \A x \in Erasers : erase'[x].list \in {erase[x].list, chat, <<>>}
    BY <2>3, <2>4 DEF Shape
  <2>6. CASE erase[e].list = chat
    <3>1. Comes(chat, chat', Self(chat), 0) /\ KnownNow \subseteq KnownNow' BY <1>9, <2>6, EraseEdits
    <3>2. 0 \in Int /\ \A k \in 1..Len(chat) : ~(k <= 0) OBVIOUS
    <3> QED BY <1>2, <1>3, <2>5, <3>1, <3>2, ListsKept
  <2>7. CASE Waiting(chat') \subseteq KnownNow'
    <3>1. PICK B, K, J : B = Begun /\ K = KnownNow /\ J = KnownNow' OBVIOUS
    <3>2. Sound(chat', B, K) /\ K \subseteq J BY <1>9, <3>1, EraseEdits
    <3>3. ASSUME NEW M, Sound(M, B, K) PROVE Sound(M, B, J)
      <4>1. Comes(M, M, Self(M), 0) BY <3>3, SoundOwned, SelfComes
      <4>2. \A k \in 1..Len(M) : ~(k <= 0) OBVIOUS
      <4> QED BY <3>2, <3>3, <4>1, <4>2, SoundComes
    <3>4. Sound(<<>>, B, J) BY DEF Sound
    <3>5. \A x \in Erasers : Sound(erase'[x].list, B, J)
      BY <2>5, <3>1, <3>3, <3>4 DEF Lists
    <3>6. Lists' BY <1>3, <3>1, <3>2, <3>3, <3>5 DEF Lists
    <3>7. ASSUME NEW k \in 1..Len(chat'), UserAt(chat', k) PROVE chat'[k].msg \in J
      BY <2>7, <3>1, <3>2, <3>7, AllKnown
    <3>8. ASSUME NEW r \in Requests, NEW d \in req'[r].draft PROVE Fits(d, chat', B, J)
      <4>1. d.last \in B /\ d.reads \subseteq B BY <1>2, <3>1 DEF Drafts, Fits
      <4>2. Len(chat') \in Nat BY <3>2, LenProperties DEF Sound
      <4>3. \A i \in 1..Len(chat') : \A k \in 1..i : k \in 1..Len(chat') BY <4>2
      <4> QED BY <3>7, <4>1, <4>3 DEF Fits
    <3>9. Drafts' BY <1>3, <3>1, <3>8 DEF Drafts
    <3> QED BY <3>6, <3>9
  <2> QED BY <1>9, <2>6, <2>7, EraseEdits
<1> QED BY <1>5, <1>6, <1>7, <1>8, <1>9

LEMMA ListsStep == ASSUME Shape, Lists, Drafts, Next PROVE Lists' /\ Drafts'
BY ListsRequests, ListsOthers DEF Next

-----------------------------------------------------------------------------
(* The lease.                                                              *)

Holding == {"quiet", "written", "ready", "shown"}

\* A step of one request that takes no lease from another.
LEMMA LeaseTurned ==
  ASSUME Shape, Lease, NEW r \in Requests, NEW p, NEW s, NEW d, NEW k, Turned(r, p, s, d, k),
         burst' = burst,
         k => req[r].keeps,
         \A b \in burst : b.token = r /\ p \in Holding => s <= b.arrivals
  PROVE  Lease'
<1>1. ASSUME NEW q \in Requests, req'[q].keeps PROVE \E b \in burst' : b.token = q /\ b.live
  <2>1. req[q].keeps
    <3>1. CASE q = r BY <1>1, <3>1 DEF Turned
    <3>2. CASE q # r BY <1>1, <3>2 DEF Turned
    <3> QED BY <3>1, <3>2
  <2> QED BY <2>1 DEF Lease
<1>2. ASSUME NEW b \in burst', req'[b.token].pc \in Holding PROVE req'[b.token].seen <= b.arrivals
  <2>1. b \in burst /\ b.token \in Requests BY <1>2 DEF Shape, Burst
  <2>2. CASE b.token = r BY <1>2, <2>1, <2>2 DEF Turned
  <2>3. CASE b.token # r
    <3>1. req'[b.token] = req[b.token] BY <2>1, <2>3 DEF Turned
    <3> QED BY <1>2, <2>1, <3>1 DEF Lease, Holding
  <2> QED BY <2>2, <2>3
<1> QED BY <1>1, <1>2 DEF Lease, Holding

\* The same, with what was seen as it was.
LEMMA LeaseSeen ==
  ASSUME Shape, Lease, NEW r \in Requests, NEW p, NEW d, NEW k, Turned(r, p, req[r].seen, d, k),
         burst' = burst, k => req[r].keeps, p \in Holding => req[r].pc \in Holding
  PROVE  Lease'
<1>1. PICK s : s = req[r].seen OBVIOUS
<1>2. \A b \in burst : b.token = r /\ p \in Holding => s <= b.arrivals
  BY <1>1 DEF Lease, Holding
<1>3. Turned(r, p, s, d, k) BY <1>1
<1> HIDE <1>1
<1> QED BY <1>2, <1>3, LeaseTurned

\* The same when it was at that already.
LEMMA LeaseHeld ==
  ASSUME Shape, Lease, NEW r \in Requests, NEW p, NEW d, Turned(r, p, req[r].seen, d, req[r].keeps),
         burst' = burst, req[r].pc \in Holding
  PROVE  Lease'
<1>1. PICK k : k = req[r].keeps OBVIOUS
<1>2. Turned(r, p, req[r].seen, d, k) /\ (k => req[r].keeps) BY <1>1
<1> HIDE <1>1
<1> QED BY <1>2, LeaseSeen

LEMMA LeaseStep == ASSUME Shape, Owned(chat), Lease, Next PROVE Lease'
<1>0. /\ \A a, b \in burst : a = b
      /\ \A r \in Requests : req[r].keeps => \E b \in burst : b.token = r /\ b.live
      /\ \A b \in burst : b \in Burst /\ b.token \in Requests /\ b.arrivals \in Nat
      /\ \A r \in Requests : req[r].seen \in Nat
  BY DEF Shape, Lease, Burst, Request
<1>1. ASSUME NEW r \in Requests, Leave(r) PROVE Lease'
  <2>1. Turned(r, "done", req[r].seen, {}, FALSE) /\ burst' = burst BY <1>1, Turns DEF Leave
  <2>2. PICK d : d = {} OBVIOUS
  <2>3. Turned(r, "done", req[r].seen, d, FALSE) BY <2>1, <2>2
  <2> HIDE <2>2
  <2> QED BY <2>1, <2>3, LeaseSeen DEF Holding
<1>2. ASSUME NEW r \in Requests, Post(r) \/ PostRetry(r) \/ JoinFindsNone(r) \/ JoinConflicts(r)
      PROVE  Lease'
  <2>1. burst' = burst BY <1>2 DEF Post, PostRetry, JoinFindsNone, JoinConflicts
  <2>2. PICK p \in {"saved", "joining", "done"} :
           Turned(r, p, req[r].seen, req[r].draft, req[r].keeps)
    BY <1>2, Turns
  <2> QED BY <2>1, <2>2, LeaseSeen DEF Holding
<1>3. ASSUME NEW r \in Requests, Fail(r) \/ Cancel(r) PROVE Lease'
  <2>1. burst' = burst BY <1>3 DEF Fail, Cancel
  <2>2. Turned(r, "leaving", req[r].seen, {}, req[r].keeps) BY <1>3, Turns
  <2>3. PICK d : d = {} OBVIOUS
  <2>4. Turned(r, "leaving", req[r].seen, d, req[r].keeps) BY <2>2, <2>3
  <2> HIDE <2>3
  <2> QED BY <2>1, <2>4, LeaseSeen DEF Holding
<1>4. ASSUME NEW r \in Requests, JoinInserts(r) PROVE Lease'
  <2>1. burst = {} /\ burst' = {[token |-> r, arrivals |-> 1, live |-> TRUE]} BY <1>4 DEF JoinInserts
  <2>2. Turned(r, "waiting", req[r].seen, req[r].draft, TRUE) BY <1>4, Turns DEF JoinInserts
  <2>3. \A q \in Requests : req'[q].keeps => q = r
    <3> SUFFICES ASSUME NEW q \in Requests, q # r PROVE ~req'[q].keeps OBVIOUS
    <3> QED BY <1>0, <2>1, <2>2 DEF Turned
  <2>4. req'[r].pc = "waiting" BY <2>2 DEF Turned
  <2> QED BY <2>1, <2>3, <2>4 DEF Lease
<1>5. ASSUME NEW r \in Requests, JoinCounts(r) PROVE Lease'
  <2>1. PICK b \in burst :
            \/ /\ b.live /\ Turned(r, "done", req[r].seen, req[r].draft, req[r].keeps)
               /\ burst' = {[token |-> b.token, arrivals |-> b.arrivals + 1, live |-> TRUE]}
            \/ /\ ~b.live /\ Turned(r, "waiting", req[r].seen, req[r].draft, TRUE)
               /\ burst' = {[token |-> r, arrivals |-> b.arrivals + 1, live |-> TRUE]}
    BY <1>5, JoinTurns
  <2>2. PICK n : n = b.arrivals + 1 OBVIOUS
  <2>3. CASE /\ b.live /\ Turned(r, "done", req[r].seen, req[r].draft, req[r].keeps)
             /\ burst' = {[token |-> b.token, arrivals |-> n, live |-> TRUE]}
    <3>1. ASSUME NEW q \in Requests, req'[q].keeps PROVE q = b.token
      <4>1. req[q].keeps BY <2>3, <3>1 DEF Turned
      <4> QED BY <1>0, <4>1
    <3>2. ASSUME req'[b.token].pc \in Holding PROVE req'[b.token].seen <= n
      <4>1. b.token # r BY <2>3, <3>2 DEF Turned, Holding
      <4>2. req'[b.token] = req[b.token] BY <1>0, <2>3, <4>1 DEF Turned
      <4>3. req[b.token].seen <= b.arrivals BY <3>2, <4>2 DEF Lease, Holding
      <4> QED BY <1>0, <2>2, <4>2, <4>3
    <3>3. PICK c : c = [token |-> b.token, arrivals |-> n, live |-> TRUE] OBVIOUS
    <3>4. burst' = {c} /\ c.token = b.token /\ c.arrivals = n /\ c.live BY <2>3, <3>3
    <3> HIDE <3>3
    <3> QED BY <3>1, <3>2, <3>4 DEF Lease, Holding
  <2>4. CASE /\ ~b.live /\ Turned(r, "waiting", req[r].seen, req[r].draft, TRUE)
             /\ burst' = {[token |-> r, arrivals |-> n, live |-> TRUE]}
    <3>1. ASSUME NEW q \in Requests, req'[q].keeps PROVE q = r
      <4>1. q # r => req[q].keeps BY <2>4, <3>1 DEF Turned
      <4> QED BY <1>0, <2>4, <4>1
    <3>2. req'[r].pc \notin Holding BY <2>4 DEF Turned, Holding
    <3>3. PICK c : c = [token |-> r, arrivals |-> n, live |-> TRUE] OBVIOUS
    <3>4. burst' = {c} /\ c.token = r /\ c.live BY <2>4, <3>3
    <3> HIDE <3>3
    <3> QED BY <3>1, <3>2, <3>4 DEF Lease, Holding
  <2> QED BY <2>1, <2>2, <2>3, <2>4
<1>6. ASSUME NEW r \in Requests, WaitForQuiet(r) PROVE Lease'
  <2>1. CASE Owns(r)
    <3>1. PICK b \in burst : b.token = r /\ Turned(r, "quiet", b.arrivals, req[r].draft, req[r].keeps)
      BY <1>6, <2>1, WaitTurns
    <3>2. burst' = burst BY <1>6 DEF WaitForQuiet, Leave
    <3>3. \A c \in burst : b.arrivals <= c.arrivals BY <1>0
    <3> QED BY <3>1, <3>2, <3>3, LeaseTurned
  <2>2. CASE ~Owns(r) BY <1>1, <1>6, <2>2 DEF WaitForQuiet, Owns
  <2> QED BY <2>1, <2>2
<1>7. ASSUME NEW r \in Requests, DraftReply(r) PROVE Lease'
  <2>1. PICK d : Turned(r, "written", req[r].seen, d, req[r].keeps)
    <3>1. ASSUME Turned(r, "written", req[r].seen, {}, req[r].keeps)
          PROVE  \E d : Turned(r, "written", req[r].seen, d, req[r].keeps)
      BY <3>1
    <3>2. ASSUME NEW l, Turned(r, "written", req[r].seen,
                    {[last |-> chat[l].msg, reads |-> Waiting(chat)]}, req[r].keeps)
          PROVE  \E d : Turned(r, "written", req[r].seen, d, req[r].keeps)
      BY <3>2
    <3> QED BY <1>7, <3>1, <3>2, DraftTurns
  <2>2. burst' = burst /\ req[r].pc = "quiet" BY <1>7 DEF DraftReply
  <2>3. req[r].pc \in Holding BY <2>2 DEF Holding
  <2> QED BY <2>1, <2>2, <2>3, LeaseHeld
<1>8. ASSUME NEW r \in Requests, HoldDraft(r) PROVE Lease'
  <2>1. CASE Owns(r)
    <3>1. PICK p, d : Turned(r, p, req[r].seen, d, req[r].keeps)
      <4>1. ASSUME Turned(r, "waiting", req[r].seen, {}, req[r].keeps)
            PROVE  \E p, d : Turned(r, p, req[r].seen, d, req[r].keeps)
        BY <4>1
      <4> QED BY <1>8, <2>1, <4>1, HoldTurns
    <3>2. burst' = burst /\ req[r].pc = "written" BY <1>8 DEF HoldDraft, Leave
    <3>3. req[r].pc \in Holding BY <3>2 DEF Holding
    <3> QED BY <3>1, <3>2, <3>3, LeaseHeld
  <2>2. CASE ~Owns(r) BY <1>1, <1>8, <2>2 DEF HoldDraft, Owns
  <2> QED BY <2>1, <2>2
<1>9. ASSUME NEW r \in Requests, CommitReply(r) PROVE Lease'
  <2>1. PICK d : Turned(r, "shown", req[r].seen, d, req[r].keeps) BY <1>9, Turns
  <2>2. burst' = burst /\ req[r].pc = "ready" BY <1>9 DEF CommitReply
  <2>3. req[r].pc \in Holding BY <2>2 DEF Holding
  <2> QED BY <2>1, <2>2, <2>3, LeaseHeld
\* The row goes: nobody else had it.
<1>10. ASSUME NEW r \in Requests, NEW d, Turned(r, "done", req[r].seen, d, FALSE),
              burst' = {}, Owns(r)
       PROVE  Lease'
  <2>1. ASSUME NEW q \in Requests PROVE ~req'[q].keeps
    <3>1. CASE q = r BY <1>10, <3>1 DEF Turned
    <3>2. CASE q # r
      <4>1. ~req[q].keeps BY <1>0, <1>10, <3>2 DEF Owns
      <4> QED BY <1>10, <3>2, <4>1 DEF Turned
    <3> QED BY <3>1, <3>2
  <2> QED BY <1>10, <2>1 DEF Lease
<1>11. ASSUME NEW r \in Requests, FinishBurst(r) PROVE Lease'
  <2>1. CASE (\E b \in burst : Answered(b, r)) /\ burst' = {}
                /\ Turned(r, "done", req[r].seen, req[r].draft, FALSE)
    <3>1. Owns(r) BY <2>1 DEF Answered, Owns
    <3> QED BY <1>10, <2>1, <3>1
  <2>2. CASE burst' = burst /\ Turned(r, "waiting", req[r].seen, req[r].draft, req[r].keeps)
    BY <2>2, LeaseSeen DEF Holding
  <2> QED BY <1>11, <2>1, <2>2, FinishTurns
<1>12. ASSUME NEW r \in Requests, Release(r) PROVE Lease'
  <2>1. Turned(r, "done", req[r].seen, req[r].draft, FALSE) BY <1>12, Turns
  <2>2. CASE Owns(r) /\ req[r].keeps
    <3>1. burst' = {} BY <1>12, <2>2 DEF Release
    <3> QED BY <1>10, <2>1, <2>2, <3>1
  <2>3. CASE ~(Owns(r) /\ req[r].keeps)
    <3>1. burst' = burst BY <1>12, <2>3 DEF Release
    <3> QED BY <2>1, <3>1, LeaseSeen DEF Holding
  <2> QED BY <2>2, <2>3
<1>13. ASSUME NEW r \in Requests, Crash(r) PROVE Lease'
  <2>1. Turned(r, "dead", 0, {}, FALSE) /\ burst' = burst BY <1>13, Turns DEF Crash
  <2>2. PICK p, s, d, k : p = "dead" /\ s = 0 /\ d = {} /\ k = FALSE OBVIOUS
  <2>3. Turned(r, p, s, d, k) /\ p \notin Holding /\ ~k BY <2>1, <2>2 DEF Holding
  <2> HIDE <2>2
  <2> QED BY <2>1, <2>3, LeaseTurned
<1>14. ASSUME NEW r \in Requests, RenewalFails(r) PROVE Lease'
  <2>1. Turned(r, req[r].pc, req[r].seen, req[r].draft, FALSE) BY <1>14, Turns
  <2>2. burst' = burst BY <1>14 DEF RenewalFails
  <2> QED BY <2>1, <2>2, LeaseSeen
<1>15. ASSUME LeaseExpires PROVE Lease'
  <2>1. PICK b \in burst :
            /\ b.live /\ ~req[b.token].keeps /\ b.token \in Requests
            /\ burst' = {[token |-> b.token, arrivals |-> b.arrivals, live |-> FALSE]}
    BY <1>15, ExpiryIs
  <2>2. req' = req BY <1>15 DEF LeaseExpires
  <2>3. \A q \in Requests : ~req[q].keeps BY <1>0, <2>1
  <2>4. PICK c : c = [token |-> b.token, arrivals |-> b.arrivals, live |-> FALSE] OBVIOUS
  <2>5. burst' = {c} /\ c.token = b.token /\ c.arrivals = b.arrivals BY <2>1, <2>4
  <2> HIDE <2>4
  <2> QED BY <2>2, <2>3, <2>5 DEF Lease
<1>16. ASSUME \/ \E h \in Hosts : HostReads(h) \/ HostDelivers(h)
              \/ \E e \in Erasers : EraseReads(e) \/ EraseSaves(e)
       PROVE  Lease'
  <2>1. req' = req /\ burst' = burst BY <1>16 DEF HostReads, HostDelivers, EraseReads, EraseSaves
  <2> QED BY <2>1 DEF Lease
<1> QED BY <1>1, <1>2, <1>3, <1>4, <1>5, <1>6, <1>7, <1>8, <1>9, <1>11, <1>12, <1>13, <1>14, <1>15,
           <1>16 DEF Next, Join, Answer

-----------------------------------------------------------------------------
(* An open message is with somebody.                                       *)

Drafted == {"written", "ready", "shown"}

LEMMA OpensFewer ==
  ASSUME NEW L, NEW K, NEW J, K \subseteq J PROVE Opens(L, J) \subseteq Opens(L, K)
BY DEF Opens

\* A step of one request that has joined, the row being as it was: what it minds it
\* minds still.
LEMMA ServedTurned ==
  ASSUME Shape, Served, NEW r \in Requests, NEW p, NEW s, NEW d, NEW k, Turned(r, p, s, d, k),
         burst' = burst, req[r].pc # "saved", req[r].pc = "joining" => burst # {},
         Opens(chat', KnownNow') \subseteq Opens(chat, KnownNow),
         \A m \in Opens(chat', KnownNow') : \A b \in burst :
            /\ b.token = r
            /\ \/ req[r].pc \notin Drafted \/ b.arrivals > req[r].seen
               \/ \E x \in req[r].draft : m \in x.reads
            => \/ p \notin Drafted \/ b.arrivals > s
               \/ \E x \in d : m \in x.reads
  PROVE  Served'
<1> SUFFICES ASSUME NEW m \in Opens(chat', KnownNow')
             PROVE  \/ \E q \in Requests : req'[q].pc = "saved"
                    \/ burst' = {} /\ \E q \in Requests : req'[q].pc = "joining"
                    \/ \E b \in burst' :
                          \/ req'[b.token].pc \notin Drafted
                          \/ b.arrivals > req'[b.token].seen
                          \/ \E x \in req'[b.token].draft : m \in x.reads
  BY DEF Served, Drafted
<1>1. m \in Opens(chat, KnownNow) OBVIOUS
<1>2. CASE \E q \in Requests : req[q].pc = "saved"
  <2>1. PICK q \in Requests : req[q].pc = "saved" BY <1>2
  <2>2. req'[q].pc = "saved" BY <2>1 DEF Turned
  <2> QED BY <2>2
<1>3. CASE burst = {} /\ \E q \in Requests : req[q].pc = "joining"
  <2>1. PICK q \in Requests : req[q].pc = "joining" BY <1>3
  <2>2. req'[q].pc = "joining" BY <1>3, <2>1 DEF Turned
  <2> QED BY <1>3, <2>2
<1>4. ASSUME NEW b \in burst,
             \/ req[b.token].pc \notin Drafted \/ b.arrivals > req[b.token].seen
             \/ \E x \in req[b.token].draft : m \in x.reads
      PROVE  \/ req'[b.token].pc \notin Drafted \/ b.arrivals > req'[b.token].seen
             \/ \E x \in req'[b.token].draft : m \in x.reads
  <2>1. b.token \in Requests BY DEF Shape, Burst
  <2>2. CASE b.token = r
    <3>1. req'[r].pc = p /\ req'[r].seen = s /\ req'[r].draft = d BY DEF Turned
    <3> QED BY <1>4, <2>2, <3>1
  <2>3. CASE b.token # r
    <3>1. req'[b.token] = req[b.token] BY <2>1, <2>3 DEF Turned
    <3> QED BY <1>4, <3>1
  <2> QED BY <2>2, <2>3
<1>5. \/ \E q \in Requests : req[q].pc = "saved"
      \/ burst = {} /\ \E q \in Requests : req[q].pc = "joining"
      \/ \E b \in burst :
            \/ req[b.token].pc \notin Drafted \/ b.arrivals > req[b.token].seen
            \/ \E x \in req[b.token].draft : m \in x.reads
  BY <1>1 DEF Served, Drafted
<1> QED BY <1>2, <1>3, <1>4, <1>5

\* The request is not at a draft after it.
LEMMA ServedAway ==
  ASSUME Shape, Served, NEW r \in Requests, NEW p, NEW s, NEW d, NEW k, Turned(r, p, s, d, k),
         burst' = burst, req[r].pc # "saved", req[r].pc = "joining" => burst # {},
         Opens(chat', KnownNow') \subseteq Opens(chat, KnownNow), p \notin Drafted
  PROVE  Served'
BY ServedTurned

\* Somebody has saved, and has still to join.
LEMMA ServedSaved == ASSUME NEW r \in Requests, req'[r].pc = "saved" PROVE Served'
BY DEF Served

LEMMA ServedNone == ASSUME Opens(chat', KnownNow') = {} PROVE Served'
BY DEF Served

LEMMA ServedQuiet ==
  ASSUME NEW b \in burst', req'[b.token].pc \notin Drafted \/ b.arrivals > req'[b.token].seen
  PROVE  Served'
BY DEF Served, Drafted

LEMMA ServedJoins ==
  ASSUME Shape, Lists, Lease, Served, NEW r \in Requests, Join(r)
  PROVE  Served'
<1>0. /\ \A b \in burst : b.token \in Requests /\ b.arrivals \in Nat
      /\ \A q \in Requests : req[q].seen \in Nat
  BY DEF Shape, Burst, Request
<1>1. CASE JoinFindsNone(r)
  <2>1. burst' = {} BY <1>1 DEF JoinFindsNone
  <2>2. req'[r].pc = "joining" BY <1>1, Turns DEF Turned
  <2> QED BY <2>1, <2>2 DEF Served
<1>2. CASE JoinInserts(r)
  <2>1. req'[r].pc = "waiting" BY <1>2, Turns DEF Turned, JoinInserts
  <2>2. PICK b : b = [token |-> r, arrivals |-> 1, live |-> TRUE] OBVIOUS
  <2>3. b \in burst' /\ b.token = r BY <1>2, <2>2 DEF JoinInserts
  <2> QED BY <2>1, <2>3, ServedQuiet DEF Drafted
<1>3. CASE JoinConflicts(r)
  <2>1. Turned(r, "done", req[r].seen, req[r].draft, req[r].keeps) BY <1>3, Turns
  <2>2. burst' = burst /\ req[r].pc = "joining" /\ burst # {} /\ chat' = chat BY <1>3 DEF JoinConflicts
  <2>3. KnownNow' = KnownNow BY <1>3, PlainIs DEF Plain, KnownNow
  <2>4. Opens(chat', KnownNow') \subseteq Opens(chat, KnownNow) BY <2>2, <2>3
  <2> QED BY <2>1, <2>2, <2>4, ServedAway DEF Drafted
<1>4. CASE JoinCounts(r)
  <2>1. PICK b \in burst :
            \/ /\ b.live /\ Turned(r, "done", req[r].seen, req[r].draft, req[r].keeps)
               /\ burst' = {[token |-> b.token, arrivals |-> b.arrivals + 1, live |-> TRUE]}
            \/ /\ ~b.live /\ Turned(r, "waiting", req[r].seen, req[r].draft, TRUE)
               /\ burst' = {[token |-> r, arrivals |-> b.arrivals + 1, live |-> TRUE]}
    BY <1>4, JoinTurns
  <2>2. PICK n : n = b.arrivals + 1 OBVIOUS
  <2>3. CASE /\ b.live /\ Turned(r, "done", req[r].seen, req[r].draft, req[r].keeps)
             /\ burst' = {[token |-> b.token, arrivals |-> n, live |-> TRUE]}
    <3>1. PICK c : c = [token |-> b.token, arrivals |-> n, live |-> TRUE] OBVIOUS
    <3>2. c \in burst' /\ c.token = b.token /\ c.arrivals = n BY <2>3, <3>1
    <3>3. req'[b.token].pc \notin Drafted \/ n > req'[b.token].seen
      <4>1. CASE b.token = r BY <2>3, <4>1 DEF Turned, Drafted
      <4>2. CASE b.token # r
        <5>1. req'[b.token] = req[b.token] BY <1>0, <2>3, <4>2 DEF Turned
        <5>2. req[b.token].pc \in Drafted => req[b.token].seen <= b.arrivals BY DEF Lease, Drafted
        <5> QED BY <1>0, <2>2, <5>1, <5>2
      <4> QED BY <4>1, <4>2
    <3> HIDE <3>1
    <3> QED BY <3>2, <3>3, ServedQuiet
  <2>4. CASE /\ ~b.live /\ Turned(r, "waiting", req[r].seen, req[r].draft, TRUE)
             /\ burst' = {[token |-> r, arrivals |-> n, live |-> TRUE]}
    <3>1. PICK c : c = [token |-> r, arrivals |-> n, live |-> TRUE] OBVIOUS
    <3>2. c \in burst' /\ c.token = r BY <2>4, <3>1
    <3>3. req'[r].pc \notin Drafted BY <2>4 DEF Turned, Drafted
    <3> HIDE <3>1
    <3> QED BY <3>2, <3>3, ServedQuiet
  <2> QED BY <2>1, <2>2, <2>3, <2>4
<1> QED BY <1>1, <1>2, <1>3, <1>4 DEF Join

LEMMA ServedLeaves ==
  ASSUME Shape, Served, NEW r \in Requests, Leave(r), req[r].pc \in {"waiting", "written"}
  PROVE  Served'
<1>1. Turned(r, "done", req[r].seen, {}, FALSE) /\ burst' = burst BY Turns DEF Leave
<1>2. chat' = chat /\ KnownNow' = KnownNow BY DEF Leave, history, KnownNow
<1>3. Opens(chat', KnownNow') \subseteq Opens(chat, KnownNow) BY <1>2
<1>4. PICK d : d = {} OBVIOUS
<1>5. Turned(r, "done", req[r].seen, d, FALSE) BY <1>1, <1>4
<1> HIDE <1>4
<1> QED BY <1>1, <1>3, <1>5, ServedAway DEF Drafted

LEMMA ServedAnswers ==
  ASSUME Shape, Lists, Drafts, Lease, Served, NEW r \in Requests, Answer(r)
  PROVE  Served'
<1>0. Owned(chat) BY SoundOwned DEF Lists
<1>1. CASE WaitForQuiet(r)
  <2>1. req[r].pc = "waiting" BY <1>1 DEF WaitForQuiet
  <2>2. CASE Owns(r)
    <3>1. PICK b \in burst : Turned(r, "quiet", b.arrivals, req[r].draft, req[r].keeps)
      BY <1>1, <2>2, WaitTurns
    <3>2. burst' = burst /\ chat' = chat BY <1>1 DEF WaitForQuiet, Leave
    <3>3. KnownNow' = KnownNow BY <1>1, PlainIs DEF Plain, KnownNow
    <3>4. Opens(chat', KnownNow') \subseteq Opens(chat, KnownNow) BY <3>2, <3>3
    <3> QED BY <2>1, <3>1, <3>2, <3>4, ServedAway DEF Drafted
  <2>3. CASE ~Owns(r) BY <1>1, <2>1, <2>3, ServedLeaves DEF WaitForQuiet, Owns
  <2> QED BY <2>2, <2>3
<1>2. CASE DraftReply(r)
  <2>1. burst' = burst /\ chat' = chat /\ req[r].pc = "quiet" BY <1>2 DEF DraftReply
  <2>2. KnownNow' = KnownNow BY <1>2, PlainIs DEF Plain, KnownNow
  <2>3. Opens(chat', KnownNow') \subseteq Opens(chat, KnownNow) BY <2>1, <2>2
  <2>4. \A m \in Opens(chat', KnownNow') : m \in Waiting(chat) /\ Unanswered(chat) # {}
    <3> SUFFICES ASSUME NEW k \in 1..Len(chat), UserAt(chat, k), chat[k].msg \notin KnownNow
                 PROVE  k \in Unanswered(chat)
      BY <2>1, <2>2, WaitingIs DEF Opens, Owned, Waiting
    <3> QED BY <1>0, AnsweredIsPassed DEF Owned, Lists, Sound
  <2>5. CASE Unanswered(chat) = {} /\ Turned(r, "written", req[r].seen, {}, req[r].keeps)
    BY <2>4, <2>5, ServedNone
  <2>6. ASSUME NEW l, Turned(r, "written", req[r].seen,
                             {[last |-> chat[l].msg, reads |-> Waiting(chat)]}, req[r].keeps)
        PROVE  Served'
    <3>1. PICK d : d = [last |-> chat[l].msg, reads |-> Waiting(chat)] OBVIOUS
    <3>2. PICK D : D = {d} OBVIOUS
    <3>3. Turned(r, "written", req[r].seen, D, req[r].keeps) BY <2>6, <3>1, <3>2
    <3>4. \A m \in Opens(chat', KnownNow') : \E x \in D : m \in x.reads BY <2>4, <3>1, <3>2
    <3> HIDE <3>1, <3>2
    <3> QED BY <2>1, <2>3, <3>3, <3>4, ServedTurned
  <2> QED BY <1>0, <1>2, <2>5, <2>6, DraftTurns
<1>3. CASE HoldDraft(r)
  <2>1. req[r].pc = "written" BY <1>3 DEF HoldDraft
  <2>2. CASE Owns(r)
    <3>2. burst' = burst /\ chat' = chat BY <1>3 DEF HoldDraft, Leave
    <3>3. KnownNow' = KnownNow BY <1>3, PlainIs DEF Plain, KnownNow
    <3>4. Opens(chat', KnownNow') \subseteq Opens(chat, KnownNow) BY <3>2, <3>3
    <3>5. CASE Turned(r, "waiting", req[r].seen, {}, req[r].keeps)
      <4>1. PICK d : d = {} OBVIOUS
      <4>2. Turned(r, "waiting", req[r].seen, d, req[r].keeps) BY <3>5, <4>1
      <4> HIDE <4>1
      <4> QED BY <2>1, <3>2, <3>4, <4>2, ServedAway DEF Drafted
    <3>6. CASE Turned(r, "ready", req[r].seen, req[r].draft, req[r].keeps)
      BY <2>1, <3>2, <3>4, <3>6, ServedTurned DEF Drafted
    <3> QED BY <1>3, <2>2, <3>5, <3>6, HoldTurns
  <2>3. CASE ~Owns(r) BY <1>3, <2>1, <2>3, ServedLeaves DEF HoldDraft, Owns
  <2> QED BY <2>2, <2>3
<1>4. CASE CommitReply(r)
  <2>1. req[r].pc = "ready" /\ burst' = burst BY <1>4 DEF CommitReply
  <2>2. Turned(r, "shown", req[r].seen, {}, req[r].keeps) BY <1>4, Turns
  <2>3. PICK D : D = {} OBVIOUS
  <2>4. Turned(r, "shown", req[r].seen, D, req[r].keeps) BY <2>2, <2>3
  <2>5. /\ Opens(chat', KnownNow') \subseteq Opens(chat, KnownNow)
        /\ \A d \in req[r].draft : d.reads \subseteq KnownNow'
    <3>1. CASE \E d \in req[r].draft : CommitDraft(d)
      <4>1. PICK d \in req[r].draft : CommitDraft(d) BY <3>1
      <4>2. PICK i, g :
              /\ i \in 1..Len(chat)
              /\ UserAt(chat, i) /\ chat[i].msg = d.last
              /\ Comes(chat, chat', g, i) /\ FailedStay(chat, chat', g, i)
        BY <1>0, <4>1, CommitEdits
      <4>3. KnownNow' = KnownNow \union d.reads BY <4>1, CommitKnown
      <4>4. \A k \in 1..i : UserAt(chat, k) => chat[k].msg \in d.reads \union KnownNow
        BY <4>2 DEF Drafts, Fits
      <4>5. \A k \in 1..Len(chat) : UserAt(chat, k) /\ k <= i => chat[k].msg \in KnownNow'
        BY <4>2, <4>3, <4>4
      <4>6. Opens(chat', KnownNow') \subseteq Opens(chat, KnownNow)
        BY <4>2, <4>3, <4>5, OpensComes
      <4>7. \A x \in req[r].draft : x = d BY DEF Shape
      <4> QED BY <4>3, <4>6, <4>7
    <3>2. CASE /\ unserved' = unserved \union UNION {d.reads : d \in req[r].draft}
               /\ UNCHANGED <<chat, replies>>
      <4>1. KnownNow \subseteq KnownNow' BY <3>2, KnownGrows
      <4>2. \A d \in req[r].draft : d.reads \subseteq KnownNow' BY <3>2 DEF KnownNow
      <4> QED BY <3>2, <4>1, <4>2, OpensFewer
    <3> QED BY <1>4, <3>1, <3>2 DEF CommitReply
  <2>6. \A m \in Opens(chat', KnownNow') : \A d \in req[r].draft : m \notin d.reads
    BY <2>5 DEF Opens
  <2> HIDE <2>3
  <2> QED BY <2>1, <2>4, <2>5, <2>6, ServedTurned DEF Drafted
<1>5. CASE FinishBurst(r)
  <2>1. req[r].pc = "shown" /\ chat' = chat BY <1>5 DEF FinishBurst
  <2>2. KnownNow' = KnownNow BY <1>5, PlainIs DEF Plain, KnownNow
  <2>3. Opens(chat', KnownNow') = Opens(chat, KnownNow) BY <2>1, <2>2
  <2>4. CASE /\ \E b \in burst : Answered(b, r)
             /\ burst' = {} /\ Turned(r, "done", req[r].seen, req[r].draft, FALSE)
    <3>1. PICK b \in burst : Answered(b, r) BY <2>4
    <3>2. \A c \in burst : c = b BY DEF Shape
    <3>3. req[b.token].pc = "shown" /\ req[b.token].draft = {} /\ ~(b.arrivals > req[b.token].seen)
      BY <2>1, <3>1 DEF Answered, Shape, Burst
    <3>4. ASSUME NEW m \in Opens(chat, KnownNow) PROVE \E q \in Requests : req[q].pc = "saved"
      BY <3>1, <3>2, <3>3, <3>4 DEF Served
    <3>5. ASSUME NEW q \in Requests, req[q].pc = "saved" PROVE Served'
      <4>1. req'[q] = req[q] BY <2>1, <2>4, <3>5 DEF Turned
      <4> QED BY <3>5, <4>1, ServedSaved
    <3> QED BY <2>3, <3>4, <3>5, ServedNone
  <2>5. CASE burst' = burst /\ Turned(r, "waiting", req[r].seen, req[r].draft, req[r].keeps)
    BY <2>1, <2>3, <2>5, ServedAway DEF Drafted
  <2> QED BY <1>5, <2>4, <2>5, FinishTurns
<1>6. CASE Release(r)
  <2>1. chat' = chat /\ req[r].pc = "leaving" /\ replies' = replies /\ unserved \subseteq unserved'
    BY <1>6 DEF Release
  <2>2. KnownNow \subseteq KnownNow' BY <2>1, KnownGrows
  <2>3. CASE Owns(r) /\ req[r].keeps
    <3>1. unserved' = unserved \union
                   {chat[i].msg : i \in {i \in Unanswered(chat) : chat[i].status # "failed"}}
      BY <1>6, <2>3 DEF Release
    <3>2. \A k \in Unanswered(chat) : chat[k].status = "failed" \/ chat[k].msg \in KnownNow'
      BY <3>1 DEF KnownNow
    <3>3. Opens(chat, KnownNow') = {} BY <2>2, <3>2, NothingOpen DEF Lists
    <3> QED BY <2>1, <3>3, ServedNone
  <2>4. CASE ~(Owns(r) /\ req[r].keeps)
    <3>1. burst' = burst BY <1>6, <2>4 DEF Release
    <3>2. Turned(r, "done", req[r].seen, req[r].draft, FALSE) BY <1>6, Turns
    <3>3. Opens(chat', KnownNow') \subseteq Opens(chat, KnownNow) BY <2>1, <2>2, OpensFewer
    <3> QED BY <2>1, <3>1, <3>2, <3>3, ServedAway DEF Drafted
  <2> QED BY <2>3, <2>4
<1> QED BY <1>1, <1>2, <1>3, <1>4, <1>5, <1>6 DEF Answer

LEMMA ServedMishaps ==
  ASSUME Shape, Lists, Served, NEW r \in Requests,
         Fail(r) \/ Cancel(r) \/ Crash(r) \/ RenewalFails(r)
  PROVE  Served'
<1>0. Owned(chat) BY SoundOwned DEF Lists
<1>1. CASE Fail(r)
  <2>1. Turned(r, "leaving", req[r].seen, {}, req[r].keeps) /\ burst' = burst
    BY <1>1, Turns DEF Fail
  <2>2. PICK D : D = {} OBVIOUS
  <2>3. Turned(r, "leaving", req[r].seen, D, req[r].keeps) BY <2>1, <2>2
  <2>4. KnownNow' = KnownNow /\ req[r].pc \in Active BY <1>1 DEF Fail, history, KnownNow
  <2>5. Alike(chat, chat') BY <1>0, <1>1, MarkEdits
  <2>6. Comes(chat, chat', Self(chat'), 0)
    <3>1. Owned(chat') BY <2>5 DEF Alike
    <3> QED BY <2>5, <3>1, SelfComes, AlikeComes
  <2>7. FailedStay(chat, chat', Self(chat'), 0)
    <3>1. PICK N : N = chat' OBVIOUS
    <3>2. N = Marked(chat, Unanswered(chat), "failed") BY <1>1, <3>1 DEF Fail
    <3>3. /\ Len(N) = Len(chat)
          /\ \A k \in 1..Len(chat) : N[k].status = IF k \in Unanswered(chat) THEN "failed" ELSE chat[k].status
      BY <1>0, <3>2, MarkedIs DEF Owned, Status
    <3>4. \A k \in 1..Len(N) : Self(N)[k] = k BY DEF Self
    <3> QED BY <3>1, <3>3, <3>4 DEF FailedStay
  <2>8. \A k \in 1..Len(chat) : ~(k <= 0) OBVIOUS
  <2>9. Opens(chat', KnownNow') \subseteq Opens(chat, KnownNow)
    BY <2>4, <2>6, <2>7, <2>8, OpensComes
  <2> HIDE <2>2
  <2> QED BY <2>1, <2>3, <2>4, <2>9, ServedAway DEF Drafted, Active
<1>2. CASE Cancel(r)
  <2>1. Turned(r, "leaving", req[r].seen, {}, req[r].keeps) /\ burst' = burst
    BY <1>2, Turns DEF Cancel
  <2>2. PICK D : D = {} OBVIOUS
  <2>3. Turned(r, "leaving", req[r].seen, D, req[r].keeps) BY <2>1, <2>2
  <2>4. KnownNow' = KnownNow /\ chat' = chat /\ req[r].pc \in Active
    BY <1>2 DEF Cancel, history, KnownNow
  <2>5. Opens(chat', KnownNow') \subseteq Opens(chat, KnownNow) BY <2>4
  <2> HIDE <2>2
  <2> QED BY <2>1, <2>3, <2>4, <2>5, ServedAway DEF Drafted, Active
<1>3. CASE Crash(r)
  <2>1. chat' = chat /\ burst' = burst /\ replies' = replies /\ unserved \subseteq unserved'
    BY <1>3 DEF Crash
  <2>2. KnownNow \subseteq KnownNow' BY <2>1, KnownGrows
  <2>3. CASE req[r].pc \in {"saved", "joining"}
    <3>1. unserved' = unserved \union Waiting(chat) BY <1>3, <2>3 DEF Crash
    <3>2. \A k \in Unanswered(chat) : chat[k].msg \in KnownNow'
      BY <3>1 DEF KnownNow, Waiting
    <3>3. Opens(chat, KnownNow') = {} BY <2>2, <3>2, NothingOpen DEF Lists
    <3> QED BY <2>1, <3>3, ServedNone
  <2>4. CASE req[r].pc \notin {"saved", "joining"}
    <3>1. Turned(r, "dead", 0, {}, FALSE) BY <1>3, Turns
    <3>2. PICK D : D = {} OBVIOUS
    <3>3. Turned(r, "dead", 0, D, FALSE) BY <3>1, <3>2
    <3>4. Opens(chat', KnownNow') \subseteq Opens(chat, KnownNow) BY <2>1, <2>2, OpensFewer
    <3> HIDE <3>2
    <3> QED BY <2>1, <2>4, <3>3, <3>4, ServedAway DEF Drafted
  <2> QED BY <2>3, <2>4
<1>4. CASE RenewalFails(r)
  <2>1. Turned(r, req[r].pc, req[r].seen, req[r].draft, FALSE) BY <1>4, Turns
  <2>2. burst' = burst /\ chat' = chat /\ KnownNow' = KnownNow BY <1>4 DEF RenewalFails, KnownNow
  <2>3. ASSUME NEW q \in Requests PROVE req'[q].pc = req[q].pc /\ req'[q].seen = req[q].seen
                                        /\ req'[q].draft = req[q].draft
    <3>1. CASE q = r BY <2>1, <3>1 DEF Turned
    <3>2. CASE q # r BY <2>1, <3>2 DEF Turned
    <3> QED BY <3>1, <3>2
  <2>4. \A b \in burst : b.token \in Requests BY DEF Shape, Burst
  <2> QED BY <2>2, <2>3, <2>4 DEF Served
<1> QED BY <1>1, <1>2, <1>3, <1>4

LEMMA ServedOthers ==
  ASSUME Shape, Lists, Served,
         \/ LeaseExpires
         \/ \E h \in Hosts : HostReads(h) \/ HostDelivers(h)
         \/ \E e \in Erasers : EraseReads(e) \/ EraseSaves(e)
  PROVE  Served'
<1>1. ASSUME req' = req, burst' = burst, Opens(chat', KnownNow') \subseteq Opens(chat, KnownNow)
      PROVE  Served'
  BY <1>1 DEF Served
<1>2. CASE LeaseExpires
  <2>1. PICK b \in burst :
            burst' = {[token |-> b.token, arrivals |-> b.arrivals, live |-> FALSE]}
    BY <1>2, ExpiryIs
  <2>2. req' = req /\ chat' = chat /\ KnownNow' = KnownNow
    BY <1>2 DEF LeaseExpires, history, KnownNow
  <2>3. PICK c : c = [token |-> b.token, arrivals |-> b.arrivals, live |-> FALSE] OBVIOUS
  <2>4. burst' = {c} /\ c.token = b.token /\ c.arrivals = b.arrivals BY <2>1, <2>3
  <2>5. \A x \in burst : x = b BY DEF Shape
  <2> HIDE <2>3
  <2> QED BY <2>2, <2>4, <2>5 DEF Served
<1>3. ASSUME NEW h \in Hosts, HostReads(h) PROVE Served'
  BY <1>1, <1>3 DEF HostReads, history, KnownNow
<1>4. ASSUME NEW h \in Hosts, HostDelivers(h) PROVE Served'
  <2>1. req' = req /\ burst' = burst BY <1>4 DEF HostDelivers
  <2>2. Opens(chat', KnownNow') \subseteq Opens(chat, KnownNow)
    BY <1>4, HostEdits, OpensComes, OpensFewer
  <2> QED BY <1>1, <2>1, <2>2
<1>5. ASSUME NEW e \in Erasers, EraseReads(e) PROVE Served'
  BY <1>1, <1>5 DEF EraseReads, history, KnownNow
<1>6. ASSUME NEW e \in Erasers, EraseSaves(e) PROVE Served'
  <2>1. req' = req /\ burst' = burst BY <1>6 DEF EraseSaves
  <2>2. CASE erase[e].list = chat
    <3>1. \A k \in 1..Len(chat) : ~(k <= 0) OBVIOUS
    <3>2. Opens(chat', KnownNow') \subseteq Opens(chat, KnownNow)
      BY <1>6, <2>2, <3>1, EraseEdits, OpensComes
    <3> QED BY <1>1, <2>1, <3>2
  <2>3. CASE Waiting(chat') \subseteq KnownNow'
    <3>1. Sound(chat', Begun, KnownNow) /\ KnownNow \subseteq KnownNow' BY <1>6, EraseEdits
    <3>2. \A k \in Unanswered(chat') : chat'[k].msg \in KnownNow' BY <2>3 DEF Waiting
    <3>3. Opens(chat', KnownNow') = {} BY <3>1, <3>2, NothingOpen
    <3> QED BY <3>3, ServedNone
  <2> QED BY <1>6, <2>2, <2>3, EraseEdits
<1> QED BY <1>2, <1>3, <1>4, <1>5, <1>6

LEMMA ServedStep ==
  ASSUME Shape, Lists, Drafts, Lease, Served, Next
  PROVE  Served'
<1>1. ASSUME NEW r \in Requests, Post(r) \/ PostRetry(r) PROVE Served'
  <2>1. req'[r].pc = "saved" BY <1>1, Turns DEF Turned
  <2> QED BY <2>1, ServedSaved
<1> QED BY <1>1, ServedJoins, ServedAnswers, ServedMishaps, ServedOthers DEF Next

-----------------------------------------------------------------------------
(* A message is answered once.                                             *)

Keeping == \A r \in Requests : req[r].pc \in Active => req[r].keeps

LEMMA TurnedKeeps ==
  ASSUME Keeping, NEW r \in Requests, NEW p, NEW s, NEW d, NEW k, Turned(r, p, s, d, k),
         p \in Active => k
  PROVE  Keeping'
<1>1. ASSUME NEW q \in Requests, req'[q].pc \in Active PROVE req'[q].keeps
  <2>1. CASE q = r BY <1>1, <2>1 DEF Turned
  <2>2. CASE q # r
    <3>1. req'[q] = req[q] BY <2>2 DEF Turned
    <3> QED BY <1>1, <3>1 DEF Keeping
  <2> QED BY <2>1, <2>2
<1> QED BY <1>1 DEF Keeping

LEMMA KeepingStep ==
  ASSUME Shape, Owned(chat), Keeping, Next, \A r \in Requests : ~RenewalFails(r)
  PROVE  Keeping'
\* A request that was at a reply has kept its lease, and keeps it as far as the step goes.
<1>1. ASSUME NEW r \in Requests, NEW p, NEW s, NEW d, Turned(r, p, s, d, req[r].keeps),
             req[r].pc \in Active \/ p \notin Active
      PROVE  Keeping'
  BY <1>1, TurnedKeeps DEF Keeping
<1>2. ASSUME NEW r \in Requests, NEW p, NEW s, NEW d, NEW k, Turned(r, p, s, d, k), p \notin Active
      PROVE  Keeping'
  BY <1>2, TurnedKeeps
<1>3. ASSUME NEW r \in Requests, NEW d, Turned(r, "waiting", req[r].seen, d, TRUE) PROVE Keeping'
  BY <1>3, TurnedKeeps
<1>4. ASSUME NEW r \in Requests, Post(r) \/ PostRetry(r) \/ JoinFindsNone(r) \/ JoinConflicts(r)
      PROVE  Keeping'
  <2>1. PICK p \in {"saved", "joining", "done"} :
           Turned(r, p, req[r].seen, req[r].draft, req[r].keeps)
    BY <1>4, Turns
  <2> QED BY <1>1, <2>1 DEF Active
<1>5. ASSUME NEW r \in Requests, JoinInserts(r) PROVE Keeping'
  BY <1>3, <1>5, Turns DEF JoinInserts
<1>6. ASSUME NEW r \in Requests, JoinCounts(r) PROVE Keeping'
  <2>1. CASE Turned(r, "done", req[r].seen, req[r].draft, req[r].keeps) BY <1>1, <2>1 DEF Active
  <2>2. CASE Turned(r, "waiting", req[r].seen, req[r].draft, TRUE) BY <1>3, <2>2
  <2> QED BY <1>6, <2>1, <2>2, JoinTurns
<1>7. ASSUME NEW r \in Requests, Leave(r) \/ Fail(r) \/ Cancel(r) \/ Crash(r) PROVE Keeping'
  <2>1. PICK D : D = {} OBVIOUS
  <2>2. \/ Turned(r, "done", req[r].seen, D, FALSE)
        \/ Turned(r, "leaving", req[r].seen, D, req[r].keeps)
        \/ Turned(r, "dead", 0, D, FALSE)
    BY <1>7, <2>1, Turns
  <2> HIDE <2>1
  <2>3. CASE Turned(r, "done", req[r].seen, D, FALSE) BY <1>2, <2>3 DEF Active
  <2>4. CASE Turned(r, "leaving", req[r].seen, D, req[r].keeps) BY <1>2, <2>4 DEF Active
  <2>5. CASE Turned(r, "dead", 0, D, FALSE) BY <1>2, <2>5 DEF Active
  <2> QED BY <2>2, <2>3, <2>4, <2>5
<1>8. ASSUME NEW r \in Requests, WaitForQuiet(r) PROVE Keeping'
  <2>1. CASE Owns(r)
    <3>1. PICK s : Turned(r, "quiet", s, req[r].draft, req[r].keeps) BY <1>8, <2>1, WaitTurns
    <3>2. req[r].pc \in Active BY <1>8 DEF WaitForQuiet, Active
    <3> QED BY <1>1, <3>1, <3>2
  <2>2. CASE ~Owns(r) BY <1>7, <1>8, <2>2 DEF WaitForQuiet, Owns
  <2> QED BY <2>1, <2>2
<1>9. ASSUME NEW r \in Requests, DraftReply(r) PROVE Keeping'
  <2>1. req[r].pc \in Active BY <1>9 DEF DraftReply, Active
  <2>2. CASE Turned(r, "written", req[r].seen, {}, req[r].keeps) BY <1>1, <2>1, <2>2
  <2>3. ASSUME NEW l, Turned(r, "written", req[r].seen,
                             {[last |-> chat[l].msg, reads |-> Waiting(chat)]}, req[r].keeps)
        PROVE  Keeping'
    BY <1>1, <2>1, <2>3
  <2> QED BY <1>9, <2>2, <2>3, DraftTurns
<1>10. ASSUME NEW r \in Requests, HoldDraft(r) PROVE Keeping'
  <2>1. req[r].pc \in Active BY <1>10 DEF HoldDraft, Active
  <2>2. CASE Owns(r)
    <3>1. CASE Turned(r, "waiting", req[r].seen, {}, req[r].keeps) BY <1>1, <2>1, <3>1
    <3>2. CASE Turned(r, "ready", req[r].seen, req[r].draft, req[r].keeps) BY <1>1, <2>1, <3>2
    <3> QED BY <1>10, <2>2, <3>1, <3>2, HoldTurns
  <2>3. CASE ~Owns(r) BY <1>7, <1>10, <2>3 DEF HoldDraft, Owns
  <2> QED BY <2>2, <2>3
<1>11. ASSUME NEW r \in Requests, CommitReply(r) PROVE Keeping'
  <2>1. req[r].pc \in Active BY <1>11 DEF CommitReply, Active
  <2>2. Turned(r, "shown", req[r].seen, {}, req[r].keeps) BY <1>11, Turns
  <2> QED BY <1>1, <2>1, <2>2
<1>12. ASSUME NEW r \in Requests, FinishBurst(r) PROVE Keeping'
  <2>1. req[r].pc \in Active BY <1>12 DEF FinishBurst, Active
  <2>2. CASE Turned(r, "done", req[r].seen, req[r].draft, FALSE) BY <1>2, <2>2 DEF Active
  <2>3. CASE Turned(r, "waiting", req[r].seen, req[r].draft, req[r].keeps) BY <1>1, <2>1, <2>3
  <2> QED BY <1>12, <2>2, <2>3, FinishTurns
<1>13. ASSUME NEW r \in Requests, Release(r) PROVE Keeping'
  <2>1. Turned(r, "done", req[r].seen, req[r].draft, FALSE) BY <1>13, Turns
  <2> QED BY <1>2, <2>1 DEF Active
<1>14. ASSUME \/ LeaseExpires \/ \E h \in Hosts : HostReads(h) \/ HostDelivers(h)
              \/ \E e \in Erasers : EraseReads(e) \/ EraseSaves(e)
       PROVE  Keeping'
  <2>1. req' = req BY <1>14 DEF LeaseExpires, HostReads, HostDelivers, EraseReads, EraseSaves
  <2> QED BY <2>1 DEF Keeping
<1> QED BY <1>4, <1>5, <1>6, <1>7, <1>8, <1>9, <1>10, <1>11, <1>12, <1>13, <1>14
        DEF Next, Join, Answer

\* What a list made of the chat leaves waiting waited before.
LEMMA QuietStays ==
  ASSUME NEW L, NEW N, NEW g, NEW i, Comes(L, N, g, i), NewlyQuiet(L, N, g, i)
  PROVE  \A k \in Unanswered(N) : g[k] \in Unanswered(L) /\ N[k].msg = L[g[k]].msg /\ ~(g[k] <= i)
BY UnansweredIs DEF Comes, NewlyQuiet, UserAt

\* A step that commits nothing.
LEMMA OnceKept ==
  ASSUME Once, Keeping', Begun \subseteq Begun', twice => twice', replies' = replies,
         ~twice => \A k \in Unanswered(chat') : replies[chat'[k].msg] = 0,
         ~twice => \A r \in Requests : \A d \in req'[r].draft :
                      InOrder(d, chat') /\ \A m \in d.reads : replies[m] = 0
  PROVE  Once'
BY DEF Once, Keeping

\* One that brings no draft.
LEMMA OnceComes ==
  ASSUME Once, Keeping', Begun \subseteq Begun', twice => twice', replies' = replies,
         NEW g, NEW i, Comes(chat, chat', g, i), NewlyQuiet(chat, chat', g, i),
         \A r \in Requests : req'[r].draft \subseteq req[r].draft
  PROVE  Once'
<1>1. ~twice => \A k \in Unanswered(chat') : replies[chat'[k].msg] = 0
  BY QuietStays DEF Once
<1>2. ~twice => \A r \in Requests : \A d \in req'[r].draft :
                   InOrder(d, chat') /\ \A m \in d.reads : replies[m] = 0
  BY OrderComes DEF Once
<1> QED BY <1>1, <1>2, OnceKept

LEMMA OnceStep ==
  ASSUME Shape, Lists, Drafts, Lease, Once, Next
  PROVE  Once'
<1>0. Owned(chat) BY SoundOwned DEF Lists
<1>1. CASE twice'
  BY <1>1 DEF Once
<1>2. CASE twice /\ ~twice'
  <2>1. ASSUME NEW r \in Requests, Plain(r) PROVE FALSE BY <1>2, <2>1, PlainIs
  <2>2. ASSUME NEW r \in Requests,
               \/ JoinInserts(r) \/ JoinCounts(r) \/ CommitReply(r) \/ Fail(r) \/ Cancel(r)
               \/ Release(r) \/ Crash(r) \/ RenewalFails(r)
        PROVE  FALSE
    BY <1>2, <2>2 DEF JoinInserts, JoinCounts, CommitReply, Fail, Cancel, Release, Crash,
                      RenewalFails, history
  <2>3. ASSUME \/ LeaseExpires \/ \E h \in Hosts : HostReads(h) \/ HostDelivers(h)
               \/ \E e \in Erasers : EraseReads(e) \/ EraseSaves(e)
        PROVE  FALSE
    BY <1>2, <2>3 DEF LeaseExpires, HostReads, HostDelivers, EraseReads, EraseSaves, history
  <2> QED BY <2>1, <2>2, <2>3 DEF Next, Join, Answer, Plain
<1>3. CASE ~twice /\ ~twice'
  <2>1. Keeping'
    <3>1. \A r \in Requests : ~RenewalFails(r) BY <1>3 DEF RenewalFails
    <3> QED BY <1>0, <1>3, <3>1, KeepingStep DEF Once, Keeping
  <2>2. Begun \subseteq Begun' BY <1>0, BegunGrows
  <2>3. ASSUME replies' = replies, chat' = chat,
               \A r \in Requests : req'[r].draft \subseteq req[r].draft
        PROVE  Once'
    <3>1. Comes(chat, chat', Self(chat), 0) /\ NewlyQuiet(chat, chat', Self(chat), 0)
      BY <1>0, <2>3, SelfComes
    <3> QED BY <1>3, <2>1, <2>2, <2>3, <3>1, OnceComes
  <2>4. ASSUME NEW r \in Requests, DraftReply(r) PROVE Once'
    <3>1. chat' = chat /\ replies' = replies
      <4>1. chat' = chat /\ UNCHANGED history BY <2>4 DEF DraftReply
      <4> QED BY <4>1 DEF history
    <3>2. CASE Turned(r, "written", req[r].seen, {}, req[r].keeps)
      <4>1. \A q \in Requests : req'[q].draft \subseteq req[q].draft BY <3>2, TurnedDrafts
      <4> QED BY <2>3, <3>1, <4>1
    <3>3. ASSUME NEW l \in Unanswered(chat), \A j \in Unanswered(chat) : j <= l,
                 Turned(r, "written", req[r].seen,
                        {[last |-> chat[l].msg, reads |-> Waiting(chat)]}, req[r].keeps)
          PROVE  Once'
      <4>1. PICK d : d = [last |-> chat[l].msg, reads |-> Waiting(chat)] OBVIOUS
      <4>2. InOrder(d, chat) BY <3>3, <4>1, DraftFits DEF Lists
      <4>3. \A m \in d.reads : replies[m] = 0 BY <1>3, <4>1 DEF Once, Waiting
      <4>4. \A q \in Requests : \A c \in req'[q].draft : c \in req[q].draft \/ c = d
        BY <3>3, <4>1 DEF Turned
      <4> HIDE <4>1
      <4>5. \A q \in Requests : \A c \in req'[q].draft :
               InOrder(c, chat') /\ \A m \in c.reads : replies[m] = 0
        BY <1>3, <3>1, <4>2, <4>3, <4>4 DEF Once
      <4>6. \A k \in Unanswered(chat') : replies[chat'[k].msg] = 0 BY <1>3, <3>1 DEF Once
      <4> QED BY <1>3, <2>1, <2>2, <3>1, <4>5, <4>6, OnceKept
    <3> QED BY <1>0, <2>4, <3>2, <3>3, DraftTurns
  <2>5. CASE \A r \in Requests : ~DraftReply(r)
    <3>1. \A q \in Requests : req'[q].draft \subseteq req[q].draft BY <2>5, DraftsStay
    <3>2. ASSUME NEW r \in Requests, Post(r) PROVE Once'
      <4>1. replies' = replies
        <5>1. UNCHANGED history BY <3>2 DEF Post
        <5> QED BY <5>1 DEF history
      <4>2. CASE chat' = chat BY <2>3, <3>1, <4>1, <4>2
      <4>3. ASSUME NEW R, NEW e, Alike(chat, R), chat' = Append(R, e),
                   e \in Entry, e.from = "user", e.msg = r, e.status = "sending"
            PROVE  Once'
        <5>1. PICK B, C, K : B = Begun /\ C = Begun' /\ K = KnownNow OBVIOUS
        <5>2. Comes(chat, R, Self(R), 0) /\ NewlyQuiet(chat, R, Self(R), 0)
          <6>1. Owned(R) BY <4>3 DEF Alike
          <6> QED BY <4>3, <6>1, SelfComes, AlikeComes
        <5>3. \A k \in 1..Len(chat) : ~(k <= 0) OBVIOUS
        <5>4. Sound(R, B, K) BY <5>1, <5>2, <5>3, SoundComes DEF Lists
        <5>5. r \notin B /\ r \in C
          <6>1. req[r].pc = "new" BY <3>2 DEF Post
          <6>2. req'[r].pc = "saved" BY <3>2, Turns DEF Turned
          <6> QED BY <5>1, <6>1, <6>2 DEF Begun
        <5>6. /\ \A d : Fits(d, R, B, K) /\ InOrder(d, R) => InOrder(d, chat')
              /\ \A k \in Unanswered(chat') :
                    chat'[k].msg = r \/ (k \in Unanswered(R) /\ chat'[k] = R[k])
          <6>1. B \subseteq C BY <2>2, <5>1
          <6>2. \A d : Fits(d, R, B, K) /\ InOrder(d, R) => InOrder(d, Append(R, e))
            BY <4>3, <5>4, <5>5, <6>1, SentComes
          <6>3. R \in Seq(Entry) BY <4>3 DEF Alike, Owned
          <6> QED BY <4>3, <6>2, <6>3, SentWaits
        <5>7. \A k \in Unanswered(R) : replies[R[k].msg] = 0
          BY <1>3, <5>2, QuietStays DEF Once
        <5>8. replies[r] = 0 BY <1>3, <5>1, <5>5 DEF Once
        <5>9. \A k \in Unanswered(chat') : replies[chat'[k].msg] = 0 BY <5>6, <5>7, <5>8
        <5>10. ASSUME NEW q \in Requests, NEW d \in req'[q].draft
               PROVE  InOrder(d, chat') /\ \A m \in d.reads : replies[m] = 0
          <6>1. d \in req[q].draft BY <3>1
          <6>2. Fits(d, R, B, K)
            <7>1. Fits(d, chat, B, K) BY <5>1, <6>1 DEF Drafts
            <7> QED BY <5>2, <7>1, FitsComes
          <6>3. InOrder(d, chat) /\ \A m \in d.reads : replies[m] = 0 BY <1>3, <6>1 DEF Once
          <6>4. InOrder(d, R) BY <5>2, <6>3, OrderComes
          <6> QED BY <5>6, <6>2, <6>3, <6>4
        <5> QED BY <1>3, <2>1, <2>2, <4>1, <5>9, <5>10, OnceKept
      <4> QED BY <1>0, <3>2, <4>2, <4>3, PostEdits
    <3>3. ASSUME NEW r \in Requests, PostRetry(r) \/ Fail(r) PROVE Once'
      <4>1. replies' = replies
        <5>1. UNCHANGED history BY <3>3 DEF PostRetry, Fail
        <5> QED BY <5>1 DEF history
      <4>2. Alike(chat, chat') BY <1>0, <3>3, MarkEdits
      <4>3. Comes(chat, chat', Self(chat'), 0) /\ NewlyQuiet(chat, chat', Self(chat'), 0)
        <5>1. Owned(chat') BY <4>2 DEF Alike
        <5> QED BY <4>2, <5>1, SelfComes, AlikeComes
      <4> QED BY <1>3, <2>1, <2>2, <3>1, <4>1, <4>3, OnceComes
    <3>4. ASSUME NEW r \in Requests,
                 \/ JoinFindsNone(r) \/ JoinConflicts(r) \/ WaitForQuiet(r) \/ HoldDraft(r)
                 \/ FinishBurst(r)
          PROVE  Once'
      <4>1. replies' = replies BY <3>4, PlainIs DEF Plain
      <4>2. chat' = chat
        BY <3>4 DEF JoinFindsNone, JoinConflicts, WaitForQuiet, HoldDraft, FinishBurst, Leave
      <4> QED BY <2>3, <3>1, <4>1, <4>2
    <3>5. ASSUME NEW r \in Requests,
                 \/ JoinInserts(r) \/ JoinCounts(r) \/ Cancel(r) \/ Release(r) \/ Crash(r)
                 \/ RenewalFails(r)
          PROVE  Once'
      <4>1. chat' = chat /\ replies' = replies
        BY <3>5 DEF JoinInserts, JoinCounts, Cancel, Release, Crash, RenewalFails, history
      <4> QED BY <2>3, <3>1, <4>1
    <3>6. ASSUME NEW r \in Requests, CommitReply(r) PROVE Once'
      <4>1. CASE UNCHANGED <<chat, replies>> BY <2>3, <3>1, <4>1
      <4>2. ASSUME NEW d \in req[r].draft, CommitDraft(d) PROVE Once'
        <5>1. PICK i, g :
                /\ i \in 1..Len(chat)
                /\ UserAt(chat, i) /\ chat[i].msg = d.last
                /\ Comes(chat, chat', g, i) /\ NewlyQuiet(chat, chat', g, i)
          BY <1>0, <4>2, CommitEdits
        <5>2. /\ \A m \in Requests : m \notin d.reads => replies'[m] = replies[m]
              /\ \A m \in d.reads : replies[m] = 0 => replies'[m] = 1
          BY <4>2, CommitKnown
        <5>3. InOrder(d, chat) /\ \A m \in d.reads : replies[m] = 0 BY <1>3, <4>2 DEF Once
        <5>4. \A m \in Requests : replies'[m] < 2 BY <1>3, <5>2, <5>3 DEF Once
        <5>5. \A m \in Requests \ Begun' : replies'[m] = 0
          BY <1>3, <2>2, <4>2, <5>2 DEF Once, Drafts, Fits
        <5>6. ASSUME NEW k \in Unanswered(chat') PROVE replies'[chat'[k].msg] = 0
          <6>1. g[k] \in Unanswered(chat) /\ chat'[k].msg = chat[g[k]].msg /\ ~(g[k] <= i)
            BY <5>1, QuietStays
          <6>2. g[k] \in 1..Len(chat) /\ UserAt(chat, g[k]) BY <1>0, <6>1, UnansweredIs DEF Owned
          <6>3. chat[g[k]].msg \in Requests BY <1>0, <6>2 DEF Owned, UserAt
          <6>4. chat[g[k]].msg \notin d.reads BY <5>1, <5>3, <6>1, <6>2 DEF InOrder
          <6> QED BY <1>3, <5>2, <6>1, <6>3, <6>4 DEF Once
        <5>7. ASSUME NEW q \in Requests PROVE req'[q].draft = {}
          <6>1. Turned(r, "shown", req[r].seen, {}, req[r].keeps) BY <3>6, Turns
          <6>2. CASE q = r BY <6>1, <6>2 DEF Turned
          <6>3. CASE q # r
            <7>1. req[r].keeps
              <8>1. req[r].pc = "ready" BY <3>6 DEF CommitReply
              <8> QED BY <1>3, <8>1 DEF Once, Active
            <7>2. ~req[q].keeps BY <6>3, <7>1 DEF Lease, Shape
            <7>3. req[q].draft = {}
              <8>1. req[q].pc \notin {"written", "ready"} BY <1>3, <7>2 DEF Once, Active
              <8> QED BY <8>1 DEF Shape
            <7> QED BY <6>1, <6>3, <7>3 DEF Turned
          <6> QED BY <6>2, <6>3
        <5> QED BY <2>1, <5>4, <5>5, <5>6, <5>7 DEF Once, Keeping
      <4> QED BY <3>6, <4>1, <4>2 DEF CommitReply
    <3>7. ASSUME NEW h \in Hosts, HostDelivers(h) PROVE Once'
      <4>1. replies' = replies BY <3>7 DEF HostDelivers
      <4>2. CASE chat' = chat BY <2>3, <3>1, <4>1, <4>2
      <4>3. CASE /\ Comes(chat, chat', Self(chat), Len(chat))
                 /\ NewlyQuiet(chat, chat', Self(chat), Len(chat))
        BY <1>3, <2>1, <2>2, <3>1, <4>1, <4>3, OnceComes
      <4> QED BY <3>7, <4>2, <4>3, HostEdits
    <3>8. ASSUME \/ LeaseExpires \/ (\E h \in Hosts : HostReads(h))
                 \/ \E e \in Erasers : EraseReads(e)
          PROVE  Once'
      <4>1. chat' = chat /\ replies' = replies
        BY <3>8 DEF LeaseExpires, HostReads, EraseReads, history
      <4> QED BY <2>3, <3>1, <4>1
    <3>9. ASSUME NEW e \in Erasers, EraseSaves(e) PROVE Once' BY <1>3, <3>9 DEF EraseSaves
    <3> QED BY <2>5, <3>2, <3>3, <3>4, <3>5, <3>6, <3>7, <3>8, <3>9 DEF Next, Join, Answer
  <2> QED BY <2>4, <2>5
<1> QED BY <1>1, <1>2, <1>3 DEF Shape

-----------------------------------------------------------------------------
(* The invariant, and what follows from it.                                *)

LEMMA SoundNone == ASSUME NEW B, NEW K PROVE Sound(<<>>, B, K)
BY DEF Sound

LEMMA BurstInit == ASSUME Init PROVE BurstInv
<1>1. NewRequest \in Request BY ChatAssumption DEF NewRequest, Request, Gone
<1>2. \A r \in Requests : /\ req[r] = NewRequest /\ NewRequest.draft = {} /\ ~NewRequest.keeps
                          /\ NewRequest.pc = "new"
  BY DEF Init, NewRequest
<1>3. /\ host \in [Hosts -> Host] /\ \A h \in Hosts : host[h].tries < HostTries
      /\ erase \in [Erasers -> Eraser] /\ \A e \in Erasers : erase[e].list = <<>>
  <2>1. PICK n : n = [step |-> "read", at |-> 0, list |-> <<>>] OBVIOUS
  <2>2. n \in Eraser /\ n.list = <<>>
    <3>1. <<>> \in Seq(Entry) OBVIOUS
    <3> QED BY <2>1, <3>1 DEF Eraser
  <2>3. erase = [e \in Erasers |-> n] BY <2>1 DEF Init
  <2>4. PICK m : m = [step |-> "read", expected |-> 0, tries |-> 0] OBVIOUS
  <2>5. m \in Host /\ m.tries = 0 BY <2>4, ChatAssumption DEF Host
  <2>6. host = [h \in Hosts |-> m] BY <2>4 DEF Init
  <2> HIDE <2>1, <2>4
  <2> QED BY <2>2, <2>3, <2>5, <2>6, ChatAssumption
<1>4. Shape
  <2>1. burst = {} /\ req \in [Requests -> Request] BY <1>1 DEF Init
  <2>2. mishaps \in 0..MaxMishaps /\ counted = {} /\ unserved = {} /\ twice \in BOOLEAN
    <3>1. mishaps \in 0..MaxMishaps /\ counted = {} /\ unserved = {} BY ChatAssumption DEF Init
    <3>2. twice = FALSE BY DEF Init
    <3> QED BY <3>1, <3>2
  <2>3. replies \in [Requests -> 0..2] BY DEF Init
  <2>4. \A r \in Requests : req[r].draft = {} BY <1>2
  <2> QED BY <1>3, <2>1, <2>2, <2>3, <2>4 DEF Shape
<1>5. chat = <<>> BY DEF Init
<1>6. Lists BY <1>3, <1>5, SoundNone DEF Lists
<1>7. Drafts BY <1>2 DEF Drafts
<1>8. Lease BY <1>2 DEF Lease, Init
<1>9. Served BY <1>5 DEF Served, Opens
<1>10. Once
  <2>1. Unanswered(<<>>) = {} BY DEF Unanswered
  <2>2. \A m \in Requests : replies[m] = 0 BY DEF Init
  <2> QED BY <1>2, <1>5, <2>1, <2>2 DEF Once, Active
<1> QED BY <1>4, <1>6, <1>7, <1>8, <1>9, <1>10 DEF BurstInv

LEMMA BurstStep == ASSUME BurstInv, [Next]_vars PROVE BurstInv'
<1> USE DEF BurstInv
<1>1. CASE Next
  <2>1. Owned(chat) /\ \A e \in Erasers : Owned(erase[e].list) BY SoundOwned DEF Lists
  <2>2. Shape' BY <1>1, <2>1, ShapeStep
  <2>3. Lists' /\ Drafts' BY <1>1, ListsStep
  <2>4. Lease' BY <1>1, <2>1, LeaseStep
  <2>5. Served' BY <1>1, ServedStep
  <2>6. Once' BY <1>1, OnceStep
  <2> QED BY <2>2, <2>3, <2>4, <2>5, <2>6
<1>2. CASE UNCHANGED vars
  <2>1. UNCHANGED <<chat, burst, req, host, erase, mishaps, counted, replies, unserved, twice>>
    BY <1>2 DEF vars, others, history
  <2>2. Begun' = Begun /\ KnownNow' = KnownNow BY <2>1 DEF Begun, KnownNow
  <2>3. Shape' BY <2>1 DEF Shape
  <2>4. Lists' /\ Drafts' BY <2>1, <2>2 DEF Lists, Drafts
  <2>5. Lease' BY <2>1 DEF Lease
  <2>6. Served' BY <2>1, <2>2 DEF Served
  <2>7. Once' BY <2>1, <2>2 DEF Once
  <2> QED BY <2>3, <2>4, <2>5, <2>6, <2>7
<1> QED BY <1>1, <1>2

LEMMA Inductive == Spec => []BurstInv
<1>1. Init => BurstInv BY BurstInit
<1>2. BurstInv /\ [Next]_vars => BurstInv' BY BurstStep
<1> QED BY <1>1, <1>2, PTL DEF Spec

LEMMA AtMostOne == ASSUME NEW X, \A a, b \in X : a = b PROVE Cardinality(X) <= 1
<1>1. CASE X = {} BY <1>1, FS_EmptySet
<1>2. CASE X # {}
  <2>1. PICK x : X = {x} BY <1>2
  <2>2. Cardinality({x}) = 1 BY FS_Singleton
  <2> QED BY <2>1, <2>2
<1> QED BY <1>1, <1>2

\* Every variable keeps its type; the burst row is one or none, and so is a draft.
THEOREM TypeCorrect == Spec => []TypeOK
<1>1. ASSUME BurstInv PROVE TypeOK
  <2>1. chat \in Seq(Entry) BY <1>1 DEF BurstInv, Lists, Sound
  <2>2. Cardinality(burst) <= 1 BY <1>1, AtMostOne DEF BurstInv, Shape
  <2>3. \A r \in Requests : Cardinality(req[r].draft) <= 1
    <3> SUFFICES ASSUME NEW r \in Requests PROVE Cardinality(req[r].draft) <= 1 OBVIOUS
    <3>1. PICK d : d = req[r].draft OBVIOUS
    <3>2. \A x, y \in d : x = y BY <1>1, <3>1 DEF BurstInv, Shape
    <3>3. Cardinality(d) <= 1 BY <3>2, AtMostOne
    <3> QED BY <3>1, <3>3
  <2>4. Shape BY <1>1 DEF BurstInv
  <2> QED BY <2>1, <2>2, <2>3, <2>4 DEF TypeOK, Shape
<1> QED BY <1>1, Inductive, PTL

\* commit_reply puts a reply right below the message it answers: a message above a
\* reply was read by one, or is left behind in a way the code knows of.
THEOREM NoReplyHides == Spec => []NoReplyHidesAMessage
<1>1. ASSUME BurstInv PROVE NoReplyHidesAMessage
  <2> SUFFICES ASSUME NEW i \in DOMAIN chat, NEW j \in DOMAIN chat, i < j,
                      chat[i].from = "user", Stands(chat, i), chat[j].from = "reply"
               PROVE  replies[chat[i].msg] > 0 \/ chat[i].msg \in unserved
    BY DEF NoReplyHidesAMessage
  <2>1. Sound(chat, Begun, KnownNow) BY <1>1 DEF BurstInv, Lists
  <2>2. DOMAIN chat = 1..Len(chat) /\ Len(chat) \in Nat BY <2>1, LenProperties DEF Sound
  <2>3. i \in 1..Len(chat) /\ UserAt(chat, i) BY <2>2 DEF UserAt
  <2>4. Passed(chat, i)
    <3>1. j \in i..Len(chat) BY <2>2
    <3> QED BY <3>1 DEF Passed
  <2>5. chat[i].msg \in KnownNow BY <2>1, <2>3, <2>4 DEF Sound
  <2> QED BY <2>5 DEF KnownNow
<1> QED BY <1>1, Inductive, PTL

\* finish_burst deletes the row only when as many have arrived as the replier had seen:
\* with no burst open and nobody about to join, no counted message waits that a
\* failure, Omi's own message or a deletion did not leave behind.
THEOREM ClosedServes == Spec => []ClosedMeansServed
<1>1. ASSUME BurstInv PROVE ClosedMeansServed
  <2> SUFFICES ASSUME burst = {}, AllCounted, NEW m \in counted, replies[m] = 0,
                      NEW i \in Places(chat, m), chat[i].status # "failed"
               PROVE  m \in unserved
    BY DEF ClosedMeansServed, LeftBehind
  <2>1. Opens(chat, KnownNow) = {}
    BY <1>1 DEF BurstInv, Served, AllCounted
  <2>2. Sound(chat, Begun, KnownNow) BY <1>1 DEF BurstInv, Lists
  <2>3. i \in 1..Len(chat) /\ UserAt(chat, i) /\ chat[i].msg = m
    BY <2>2, LenProperties DEF Places, UserAt, Sound
  <2>4. m \in KnownNow BY <2>1, <2>3 DEF Opens
  <2> QED BY <2>4 DEF KnownNow
<1> QED BY <1>1, Inductive, PTL

\* Only the holder of the lease drafts and commits: while no lease was lost and nothing
\* deleted, no two committed replies have read the same message as unanswered.
THEOREM NobodyAnswersTwice == Spec => []AnsweredOnce
<1>1. ASSUME BurstInv PROVE AnsweredOnce BY <1>1 DEF BurstInv, Once, AnsweredOnce
<1> QED BY <1>1, Inductive, PTL
=============================================================================
