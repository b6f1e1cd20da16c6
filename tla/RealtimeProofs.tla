--------------------------- MODULE RealtimeProofs ---------------------------
(***************************************************************************)
(* Realtime delivery, from the log to the screen.  A tab that lost events, *)
(* crossed answers with recoveries and failed sends still shows the chat   *)
(* as it is (LiveChat), for any messages; and the hubs and the log deliver *)
(* what is promised and skip no row that committed ahead of a reader       *)
(* (Fanout), for any instances, sockets and publishing calls.              *)
(***************************************************************************)
EXTENDS LiveChat, Fanout, FiniteSetTheorems, SequenceTheorems, TLAPS

-----------------------------------------------------------------------------
(* Numbers and lists.                                                      *)

LEMMA NatMin == ASSUME NEW X \in SUBSET Nat, X # {} PROVE \E x \in X : \A y \in X : x <= y
<1> DEFINE Under == {0..x : x \in X}
<1>1. IsWellFoundedOn(StrictSubsetOrdering(Nat), FiniteSubsetsOf(Nat))
  BY FS_StrictSubsetOrderingWellFounded
<1>2. Under \subseteq FiniteSubsetsOf(Nat) /\ Under # {}
  <2>1. ASSUME NEW x \in X PROVE 0..x \in FiniteSubsetsOf(Nat)
    <3>1. IsFiniteSet(0..x) BY FS_Interval
    <3>2. 0..x \subseteq Nat OBVIOUS
    <3> QED BY <3>1, <3>2 DEF FiniteSubsetsOf
  <2> QED BY <2>1
<1>3. PICK b \in Under : \A c \in Under : <<c, b>> \notin StrictSubsetOrdering(Nat)
  <2> HIDE DEF Under
  <2> QED BY <1>1, <1>2, WFMin
<1>4. PICK x \in X : b = 0..x OBVIOUS
<1>5. ASSUME NEW y \in X PROVE x <= y
  <2>1. 0..y \in Under OBVIOUS
  <2>2. ~(0..y \subseteq 0..x) \/ 0..y = 0..x
    <3>1. <<0..y, 0..x>> \notin StrictSubsetOrdering(Nat) BY <1>3, <1>4, <2>1
    <3>2. 0..y \in SUBSET Nat /\ 0..x \in SUBSET Nat OBVIOUS
    <3> HIDE DEF Under
    <3> QED BY <3>1, <3>2 DEF StrictSubsetOrdering
  <2>3. x \in Nat /\ y \in Nat OBVIOUS
  <2>4. y < x => 0..y \subseteq 0..x /\ x \notin 0..y BY <2>3
  <2> QED BY <2>2, <2>3, <2>4
<1> QED BY <1>5

LEMMA MinIs == ASSUME NEW X \in SUBSET Nat, X # {} PROVE Min(X) \in X
<1>1. \E x \in X : \A y \in X : x <= y BY NatMin
<1> QED BY <1>1 DEF Min

LEMMA MaxIs == ASSUME NEW a \in Int, NEW b \in Int PROVE Max({a, b}) = IF a >= b THEN a ELSE b
<1>1. Max({a, b}) \in {a, b} /\ \A y \in {a, b} : Max({a, b}) >= y
  <2>1. \E x \in {a, b} : \A y \in {a, b} : x >= y OBVIOUS
  <2> QED BY <2>1 DEF Max
<1> HIDE DEF Max
<1> QED BY <1>1

LEMMA AppendIs ==
    ASSUME NEW S, NEW s \in Seq(S), NEW e \in S
    PROVE  /\ Append(s, e) \in Seq(S) /\ Len(Append(s, e)) = Len(s) + 1 /\ Len(s) \in Nat
           /\ \A k \in 1..Len(s) : Append(s, e)[k] = s[k]
           /\ Append(s, e)[Len(s) + 1] = e
           /\ ToSet(Append(s, e)) = ToSet(s) \union {e}
           /\ IsInjective(s) /\ e \notin ToSet(s) => IsInjective(Append(s, e))
<1> DEFINE t == Append(s, e)
<1>1. /\ t \in Seq(S) /\ Len(t) = Len(s) + 1 /\ Len(s) \in Nat
      /\ \A k \in 1..Len(s) : t[k] = s[k]
      /\ t[Len(s) + 1] = e
  BY AppendProperties, LenProperties
<1> HIDE DEF t
<1>2. DOMAIN s = 1..Len(s) /\ DOMAIN t = 1..Len(s) + 1 BY <1>1, LenProperties
<1>3. ToSet(t) = ToSet(s) \union {e}
  <2>1. ASSUME NEW x \in ToSet(t) PROVE x \in ToSet(s) \union {e}
    <3>1. PICK k \in 1..Len(s) + 1 : x = t[k] BY <1>2 DEF ToSet
    <3>2. k \in 1..Len(s) \/ k = Len(s) + 1 BY <1>1
    <3> QED BY <1>1, <1>2, <3>1, <3>2 DEF ToSet
  <2>2. ASSUME NEW x \in ToSet(s) PROVE x \in ToSet(t)
    <3>1. PICK k \in 1..Len(s) : x = s[k] BY <1>2 DEF ToSet
    <3>2. k \in 1..Len(s) + 1 /\ t[k] = x BY <1>1, <3>1
    <3> QED BY <1>2, <3>2 DEF ToSet
  <2>3. e \in ToSet(t)
    <3>1. Len(s) + 1 \in 1..Len(s) + 1 BY <1>1
    <3> QED BY <1>1, <1>2, <3>1 DEF ToSet
  <2> QED BY <2>1, <2>2, <2>3
<1>4. ASSUME IsInjective(s), e \notin ToSet(s) PROVE IsInjective(t)
  <2> SUFFICES ASSUME NEW i \in 1..Len(s) + 1, NEW j \in 1..Len(s) + 1, t[i] = t[j] PROVE i = j
    BY <1>2 DEF IsInjective
  <2>1. \A k \in 1..Len(s) : t[k] = s[k] /\ s[k] # e BY <1>1, <1>2, <1>4 DEF ToSet
  <2>2. CASE i \in 1..Len(s) /\ j \in 1..Len(s) BY <1>2, <1>4, <2>1, <2>2 DEF IsInjective
  <2>3. CASE i = Len(s) + 1 \/ j = Len(s) + 1
    <3>1. t[i] = e BY <1>1, <2>3
    <3>2. i \notin 1..Len(s) /\ j \notin 1..Len(s) BY <1>1, <2>1, <3>1
    <3> QED BY <1>1, <3>2
  <2> QED BY <1>1, <2>2, <2>3
<1> QED BY <1>1, <1>3, <1>4 DEF t

LEMMA TailIs ==
    ASSUME NEW S, NEW s \in Seq(S), s # <<>>
    PROVE  /\ Head(s) \in S /\ Tail(s) \in Seq(S)
           /\ \A e : e \in ToSet(s) <=> e = Head(s) \/ e \in ToSet(Tail(s))
<1>1. Len(s) \in Nat \ {0} /\ DOMAIN s = 1..Len(s) BY EmptySeq, LenProperties
<1>2. /\ Head(s) \in S /\ Tail(s) \in Seq(S) /\ Len(Tail(s)) = Len(s) - 1 /\ Head(s) = s[1]
      /\ \A k \in 1..Len(Tail(s)) : Tail(s)[k] = s[k + 1]
  BY HeadTailProperties
<1>3. DOMAIN Tail(s) = 1..Len(s) - 1 BY <1>2, LenProperties
<1>4. ASSUME NEW e \in ToSet(s) PROVE e = Head(s) \/ e \in ToSet(Tail(s))
  <2>1. PICK k \in 1..Len(s) : e = s[k] BY <1>1 DEF ToSet
  <2>2. CASE k = 1 BY <1>2, <2>1, <2>2
  <2>3. CASE k # 1
    <3>1. k - 1 \in 1..Len(s) - 1 /\ (k - 1) + 1 = k BY <1>1, <2>3
    <3>2. Tail(s)[k - 1] = e BY <1>2, <2>1, <3>1
    <3> QED BY <1>3, <3>1, <3>2 DEF ToSet
  <2> QED BY <2>2, <2>3
<1>5. Head(s) \in ToSet(s)
  <2>1. 1 \in 1..Len(s) BY <1>1
  <2> QED BY <1>1, <1>2, <2>1 DEF ToSet
<1>6. ASSUME NEW e \in ToSet(Tail(s)) PROVE e \in ToSet(s)
  <2>1. PICK k \in 1..Len(s) - 1 : e = Tail(s)[k] BY <1>3 DEF ToSet
  <2>2. k + 1 \in 1..Len(s) /\ e = s[k + 1] BY <1>1, <1>2, <2>1
  <2> QED BY <1>1, <2>2 DEF ToSet
<1> QED BY <1>2, <1>4, <1>5, <1>6

\* A message put into a list at place q.
LEMMA InsertIs ==
    ASSUME NEW S, NEW s \in Seq(S), NEW q \in 1..Len(s) + 1, NEW e \in S,
           NEW t, t = InsertAt(s, q, e)
    PROVE  /\ t \in Seq(S) /\ Len(t) = Len(s) + 1
           /\ \A k \in 1..q - 1 : t[k] = s[k]
           /\ t[q] = e
           /\ \A k \in q..Len(s) : t[k + 1] = s[k]
<1> DEFINE n == Len(s)
           top == SubSeq(s, 1, q - 1)
           end == SubSeq(s, q, n)
           start == top \o <<e>>
<1>0. n \in Nat /\ q \in Nat /\ 1 <= q /\ q <= n + 1 BY LenProperties
<1>1. top \in Seq(S) /\ Len(top) = q - 1 /\ \A k \in 1..q - 1 : top[k] = s[k]
  <2>1. \A k \in 1..q - 1 : s[k] \in S BY <1>0, ElementOfSeq
  <2>2. /\ top \in Seq(S) /\ Len(top) = IF 1 <= q - 1 THEN q - 1 - 1 + 1 ELSE 0
        /\ \A k \in 1..q - 1 - 1 + 1 : top[k] = s[1 + k - 1]
    BY <1>0, <2>1, SubSeqProperties
  <2> HIDE DEF top
  <2> QED BY <1>0, <2>2
<1>2. /\ end \in Seq(S) /\ Len(end) = n - q + 1
      /\ \A k \in 1..n - q + 1 : end[k] = s[q + k - 1]
  <2>1. \A k \in q..n : s[k] \in S BY <1>0, ElementOfSeq
  <2>2. /\ end \in Seq(S) /\ Len(end) = IF q <= n THEN n - q + 1 ELSE 0
        /\ \A k \in 1..n - q + 1 : end[k] = s[q + k - 1]
    BY <1>0, <2>1, SubSeqProperties
  <2> HIDE DEF end
  <2> QED BY <1>0, <2>2
<1>3. <<e>> \in Seq(S) /\ Len(<<e>>) = 1 /\ <<e>>[1] = e OBVIOUS
<1> HIDE DEF top, end
<1>4. /\ start \in Seq(S) /\ Len(start) = q
      /\ \A k \in 1..q : start[k] = IF k <= q - 1 THEN top[k] ELSE <<e>>[k - (q - 1)]
  <2>1. /\ start \in Seq(S) /\ Len(start) = Len(top) + Len(<<e>>)
        /\ \A k \in 1..Len(top) + Len(<<e>>) :
              start[k] = IF k <= Len(top) THEN top[k] ELSE <<e>>[k - Len(top)]
    BY <1>1, <1>3, ConcatProperties
  <2> HIDE DEF start
  <2>2. Len(start) = q BY <1>0, <1>1, <1>3, <2>1
  <2>3. ASSUME NEW k \in 1..q
        PROVE  start[k] = IF k <= q - 1 THEN top[k] ELSE <<e>>[k - (q - 1)]
    <3>1. k \in 1..Len(top) + Len(<<e>>) BY <1>0, <1>1, <1>3
    <3>2. start[k] = IF k <= Len(top) THEN top[k] ELSE <<e>>[k - Len(top)] BY <2>1, <3>1
    <3> QED BY <1>1, <3>2
  <2> QED BY <2>1, <2>2, <2>3
<1> HIDE DEF start
<1>9. t = start \o end BY DEF InsertAt, start, top, end, n
<1>5. /\ t \in Seq(S) /\ Len(t) = n + 1
      /\ \A k \in 1..n + 1 : t[k] = IF k <= q THEN start[k] ELSE end[k - q]
  <2>1. /\ t \in Seq(S) /\ Len(t) = Len(start) + Len(end)
        /\ \A k \in 1..Len(start) + Len(end) :
              t[k] = IF k <= Len(start) THEN start[k] ELSE end[k - Len(start)]
    BY <1>2, <1>4, <1>9, ConcatProperties
  <2> QED BY <1>0, <1>2, <1>4, <2>1
<1> HIDE DEF n
<1>6. ASSUME NEW k \in 1..q - 1 PROVE t[k] = s[k]
  <2>1. k \in 1..q /\ k \in 1..n + 1 /\ k <= q /\ k <= q - 1 BY <1>0
  <2>2. t[k] = start[k] /\ start[k] = top[k] BY <1>4, <1>5, <2>1
  <2> QED BY <1>1, <2>2
<1>7. t[q] = e
  <2>1. q \in 1..q /\ q \in 1..n + 1 /\ ~(q <= q - 1) /\ q - (q - 1) = 1 BY <1>0
  <2>2. t[q] = start[q] /\ start[q] = <<e>>[q - (q - 1)] BY <1>0, <1>4, <1>5, <2>1
  <2> QED BY <1>3, <2>1, <2>2
<1>8. ASSUME NEW k \in q..n PROVE t[k + 1] = s[k]
  <2>1. k + 1 \in 1..n + 1 /\ ~(k + 1 <= q) /\ k + 1 - q \in 1..n - q + 1 /\ q + (k + 1 - q) - 1 = k
    BY <1>0
  <2>2. t[k + 1] = end[k + 1 - q] /\ end[k + 1 - q] = s[q + (k + 1 - q) - 1] BY <1>2, <1>5, <2>1
  <2> QED BY <2>1, <2>2
<1> QED BY <1>5, <1>6, <1>7, <1>8 DEF n

\* A message taken out of a list.
LEMMA RemoveIs ==
    ASSUME NEW S, NEW s \in Seq(S), NEW n \in Nat, n = Len(s), NEW i \in 1..n,
           NEW t, t = RemoveAt(s, i)
    PROVE  t \in Seq(S) /\ ToSet(t) \subseteq ToSet(s)
<1> DEFINE top == SubSeq(s, 1, i - 1)
           end == SubSeq(s, i + 1, n)
<1>0. DOMAIN s = 1..n BY LenProperties
<1>1. top \in Seq(S) /\ Len(top) = i - 1 /\ \A k \in 1..i - 1 : top[k] = s[k]
  <2>1. \A k \in 1..i - 1 : s[k] \in S BY <1>0, ElementOfSeq
  <2>2. /\ top \in Seq(S) /\ Len(top) = IF 1 <= i - 1 THEN i - 1 - 1 + 1 ELSE 0
        /\ \A k \in 1..i - 1 - 1 + 1 : top[k] = s[1 + k - 1]
    BY <1>0, <2>1, SubSeqProperties
  <2> HIDE DEF top
  <2> QED BY <1>0, <2>2
<1>2. /\ end \in Seq(S) /\ Len(end) = n - i
      /\ \A k \in 1..n - i : end[k] = s[i + k]
  <2>1. \A k \in i + 1..n : s[k] \in S BY <1>0, ElementOfSeq
  <2>2. /\ end \in Seq(S) /\ Len(end) = IF i + 1 <= n THEN n - (i + 1) + 1 ELSE 0
        /\ \A k \in 1..n - (i + 1) + 1 : end[k] = s[i + 1 + k - 1]
    BY <1>0, <2>1, SubSeqProperties
  <2> HIDE DEF end
  <2> QED BY <1>0, <2>2
<1> HIDE DEF top, end
<1>3. t = top \o end BY DEF RemoveAt, top, end
<1>4. /\ t \in Seq(S) /\ Len(t) = n - 1
      /\ \A k \in 1..n - 1 : t[k] = IF k <= i - 1 THEN top[k] ELSE end[k - (i - 1)]
  <2>1. /\ top \o end \in Seq(S) /\ Len(top \o end) = Len(top) + Len(end)
        /\ \A k \in 1..Len(top) + Len(end) :
              (top \o end)[k] = IF k <= Len(top) THEN top[k] ELSE end[k - Len(top)]
    BY <1>1, <1>2, ConcatProperties
  <2>2. Len(top) + Len(end) = n - 1 BY <1>0, <1>1, <1>2
  <2> QED BY <1>1, <1>3, <2>1, <2>2
<1>5. DOMAIN t = 1..n - 1 BY <1>4, LenProperties
<1>6. ASSUME NEW k \in 1..n - 1 PROVE \E j \in 1..n : t[k] = s[j]
  <2>1. CASE k <= i - 1 BY <1>0, <1>1, <1>4, <2>1
  <2>2. CASE ~(k <= i - 1)
    <3>1. k - (i - 1) \in 1..n - i /\ i + (k - (i - 1)) = k + 1 /\ k + 1 \in 1..n BY <1>0, <2>2
    <3>2. t[k] = s[k + 1] BY <1>2, <1>4, <2>2, <3>1
    <3> QED BY <3>1, <3>2
  <2> QED BY <2>1, <2>2
<1>7. ASSUME NEW x \in ToSet(t) PROVE x \in ToSet(s)
  <2>1. PICK k \in 1..n - 1 : x = t[k] BY <1>5 DEF ToSet
  <2>2. PICK j \in 1..n : x = s[j] BY <1>6, <2>1
  <2> QED BY <1>0, <2>2 DEF ToSet
<1> QED BY <1>4, <1>7

-----------------------------------------------------------------------------
(* The bubbles that have not arrived.                                      *)

\* t holds the first k of the bubbles, without those that arrived.
Left(t, k, arrived) ==
    /\ t \in Seq(Users) /\ IsInjective(t)
    /\ ToSet(t) = {local[j] : j \in 1..k} \ arrived

LEMMA LeftGrows ==
    ASSUME local \in Seq(Users), IsInjective(local), NEW arrived, NEW k \in 1..Len(local), NEW t,
           Left(t, k - 1, arrived)
    PROVE  Left(IF local[k] \in arrived THEN t ELSE Append(t, local[k]), k, arrived)
<1>0. Len(local) \in Nat /\ DOMAIN local = 1..Len(local) /\ local[k] \in Users
  BY LenProperties
<1>1. {local[j] : j \in 1..k} = {local[j] : j \in 1..k - 1} \union {local[k]}
  <2>1. 1..k = (1..k - 1) \union {k} BY <1>0
  <2> QED BY <2>1
<1>2. CASE local[k] \in arrived BY <1>1, <1>2 DEF Left
<1>3. CASE local[k] \notin arrived
  <2>1. local[k] \notin {local[j] : j \in 1..k - 1} BY <1>0 DEF IsInjective
  <2>2. t \in Seq(Users) /\ IsInjective(t) /\ local[k] \notin ToSet(t) BY <2>1 DEF Left
  <2>3. /\ Append(t, local[k]) \in Seq(Users) /\ IsInjective(Append(t, local[k]))
        /\ ToSet(Append(t, local[k])) = ToSet(t) \union {local[k]}
    BY <1>0, <2>2, AppendIs
  <2> QED BY <1>1, <1>3, <2>3 DEF Left
<1> QED BY <1>2, <1>3

LEMMA OnTheirWayIs ==
    ASSUME local \in Seq(Users), IsInjective(local), NEW arrived
    PROVE  /\ OnTheirWay(arrived) \in Seq(Users) /\ IsInjective(OnTheirWay(arrived))
           /\ ToSet(OnTheirWay(arrived)) = ToSet(local) \ arrived
<1> DEFINE n == Len(local)
           Step(f, k) == IF k = 0 THEN <<>>
                         ELSE IF local[k] \in arrived THEN f[k - 1] ELSE Append(f[k - 1], local[k])
           Fills(f, k) == \A j \in 0..k : f[j] = Step(f, j)
           all == CHOOSE f : f = [k \in 0..n |-> Step(f, k)]
<1>0. n \in Nat /\ DOMAIN local = 1..n BY LenProperties
<1>1. \E f : f = [k \in 0..n |-> Step(f, k)]
  <2> DEFINE bad == {k \in Nat : k <= n /\ ~ \E f : f = [j \in 0..k |-> Step(f, j)]}
  <2>1. ASSUME bad # {} PROVE FALSE
    <3>1. PICK k \in bad : \A j \in bad : k <= j
      <4>1. bad \in SUBSET Nat OBVIOUS
      <4> HIDE DEF bad
      <4> QED BY <2>1, <4>1, NatMin
    <3>2. CASE k = 0
      <4>1. PICK g : g = [j \in 0..0 |-> <<>>] OBVIOUS
      <4>2. g = [j \in 0..0 |-> Step(g, j)] BY <4>1
      <4> QED BY <3>1, <3>2, <4>2
    <3>3. CASE k # 0
      <4>1. k - 1 \in Nat /\ k - 1 <= n /\ k - 1 \notin bad
        <5>1. k \in Nat /\ k <= n OBVIOUS
        <5> HIDE DEF bad
        <5> QED BY <1>0, <3>1, <3>3, <5>1
      <4>2. PICK f : f = [j \in 0..k - 1 |-> Step(f, j)] BY <4>1
      <4>3. PICK g : g = [j \in 0..k |-> IF j = k THEN Step(f, k) ELSE f[j]] OBVIOUS
      <4>4. ASSUME NEW j \in 0..k PROVE g[j] = Step(g, j)
        <5>1. CASE j = k
          <6>1. k - 1 \in 0..k /\ k - 1 # k /\ k \in 0..k BY <4>1
          <6>2. g[k - 1] = f[k - 1] /\ g[k] = Step(f, k) BY <4>3, <6>1
          <6> QED BY <5>1, <6>2, <3>3
        <5>2. CASE j # k
          <6>1. j \in 0..k - 1 BY <4>1, <5>2
          <6>2. g[j] = f[j] /\ f[j] = Step(f, j) BY <4>2, <4>3, <5>2, <6>1
          <6>3. CASE j = 0 BY <6>2, <6>3
          <6>4. CASE j # 0
            <7>1. j - 1 \in 0..k /\ j - 1 # k BY <4>1, <6>1, <6>4
            <7>2. g[j - 1] = f[j - 1] BY <4>3, <7>1
            <7> QED BY <6>2, <6>4, <7>2
          <6> QED BY <6>3, <6>4
        <5> QED BY <5>1, <5>2
      <4> HIDE DEF Step
      <4>5. g = [j \in 0..k |-> Step(g, j)] BY <4>3, <4>4
      <4> QED BY <3>1, <4>5
    <3> QED BY <3>2, <3>3
  <2>2. n \notin bad BY <2>1
  <2> QED BY <1>0, <2>2
<1>2. all = [k \in 0..n |-> Step(all, k)]
  <2> HIDE DEF Step
  <2> QED BY <1>1
<1>3. OnTheirWay(arrived) = all[n] BY DEF OnTheirWay
<1>4. ASSUME NEW k \in 0..n PROVE all[k] = Step(all, k)
  <2> HIDE DEF Step, all
  <2> QED BY <1>2
<1> HIDE DEF all
<1>5. \A k \in 0..n : Left(all[k], k, arrived)
  <2> DEFINE bad == {k \in Nat : k <= n /\ ~Left(all[k], k, arrived)}
  <2>1. ASSUME bad # {} PROVE FALSE
    <3>1. PICK k \in bad : \A j \in bad : k <= j
      <4>1. bad \in SUBSET Nat OBVIOUS
      <4> HIDE DEF bad
      <4> QED BY <2>1, <4>1, NatMin
    <3>2. CASE k = 0
      <4>1. all[0] = <<>> BY <1>0, <1>4
      <4>2. <<>> \in Seq(Users) /\ DOMAIN <<>> = {} OBVIOUS
      <4>3. ToSet(<<>>) = {} /\ IsInjective(<<>>) BY <4>2 DEF ToSet, IsInjective
      <4>4. {local[j] : j \in 1..0} = {} OBVIOUS
      <4> QED BY <3>1, <3>2, <4>1, <4>2, <4>3, <4>4 DEF Left
    <3>3. CASE k # 0
      <4>1. k \in 1..n /\ k - 1 \in Nat /\ k - 1 <= n /\ k - 1 \notin bad /\ k \in 0..n
        BY <1>0, <3>1, <3>3
      <4>2. Left(all[k - 1], k - 1, arrived) BY <4>1
      <4>3. all[k] = IF local[k] \in arrived THEN all[k - 1] ELSE Append(all[k - 1], local[k])
        BY <1>4, <3>3, <4>1
      <4>4. Left(all[k], k, arrived) BY <4>1, <4>2, <4>3, LeftGrows
      <4> QED BY <3>1, <4>4
    <3> QED BY <3>2, <3>3
  <2> QED BY <1>0, <2>1
<1>6. Left(OnTheirWay(arrived), n, arrived) BY <1>0, <1>3, <1>5
<1> QED BY <1>0, <1>6 DEF Left, ToSet

-----------------------------------------------------------------------------
(* Where a reply goes, and what is published with it.                      *)

LEMMA BelowIs ==
    ASSUME chat \in Seq(Messages), NEW i \in 1..Len(chat)
    PROVE  Below(i) \in i + 1..Len(chat) + 1
<1>1. Len(chat) \in Nat BY LenProperties
<1> DEFINE X == {k \in (i + 1)..(Len(chat) + 1) : k = Len(chat) + 1 \/ chat[k] \in Users}
<1>2. X \in SUBSET Nat /\ Len(chat) + 1 \in X BY <1>1
<1>3. Below(i) = Min(X) BY DEF Below
<1>4. Min(X) \in X
  <2> HIDE DEF X
  <2> QED BY <1>2, MinIs
<1> QED BY <1>3, <1>4

LEMMA FirstUnansweredIs ==
    ASSUME chat \in Seq(Messages), NEW i \in 1..Len(chat), chat[i] \in Users
    PROVE  FirstUnanswered(i) \in 1..i
<1>1. Len(chat) \in Nat BY LenProperties
<1> DEFINE X == {k \in 1..i : \A j \in k..i : chat[j] \in Users}
<1>2. X \in SUBSET Nat /\ i \in X BY <1>1
<1>3. FirstUnanswered(i) = Min(X) BY DEF FirstUnanswered
<1>4. Min(X) \in X
  <2> HIDE DEF X
  <2> QED BY <1>2, MinIs
<1> QED BY <1>3, <1>4

\* An event as it is pushed.
Event == [place : Nat \ {0}, message : Messages, moved : BOOLEAN, shifts : Nat]

\* The event that says what is at place p of a list.
Says(list, p, moved, seen) == [place |-> p, message |-> list[p], moved |-> p >= moved, shifts |-> seen]

LEMMA EventsAre ==
    ASSUME NEW list \in Seq(Messages), NEW first \in 1..Len(list), NEW moved \in Int, NEW seen \in Nat,
           NEW es, es = Events(list, first, moved, seen)
    PROVE  /\ es \in Seq(Event)
           /\ \A e : e \in ToSet(es) <=> \E p \in first..Len(list) : e = Says(list, p, moved, seen)
<1> DEFINE n == Len(list) - first + 1
           E(k) == Says(list, first + k - 1, moved, seen)
<1>0. Len(list) \in Nat /\ n \in Nat BY LenProperties
<1>1. \A k \in 1..n : first + k - 1 \in first..Len(list) /\ first + k - 1 \in 1..Len(list) BY <1>0
<1>2. \A k \in 1..n : E(k) \in Event
  <2> TAKE k \in 1..n
  <2>1. list[first + k - 1] \in Messages BY <1>0, <1>1, ElementOfSeq
  <2> QED BY <1>0, <1>1, <2>1 DEF Event, Says
<1>3. es = [k \in 1..n |-> E(k)] BY DEF Events, Says
<1> HIDE DEF E
<1>4. es \in Seq(Event) BY <1>0, <1>2, <1>3, SeqDef
<1>5. DOMAIN es = 1..n /\ \A k \in 1..n : es[k] = E(k) BY <1>3
<1>6. ASSUME NEW e \in ToSet(es) PROVE \E p \in first..Len(list) : e = Says(list, p, moved, seen)
  <2>1. PICK k \in 1..n : e = E(k) BY <1>5 DEF ToSet
  <2> QED BY <1>1, <2>1 DEF E
<1>7. ASSUME NEW p \in first..Len(list) PROVE Says(list, p, moved, seen) \in ToSet(es)
  <2>1. p - first + 1 \in 1..n /\ first + (p - first + 1) - 1 = p BY <1>0
  <2>2. es[p - first + 1] = Says(list, p, moved, seen) BY <1>5, <2>1 DEF E
  <2> QED BY <1>5, <2>1, <2>2 DEF ToSet
<1> QED BY <1>4, <1>6, <1>7

-----------------------------------------------------------------------------
(* The inductive invariant: types.                                         *)

Answer == [list : Seq(Messages), shifts : Nat]

Recovery ==
    [step : {"idle", "asked", "answered"}, after : Nat, tail : Seq(Messages), shifts : Nat]

Status == {"none", "sent", "saved", "over", "rejected"}

\* A list as it was clicked in, at a message that may be retried, or at none.
Clicked(c) ==
    /\ c \in [place : Nat, list : Seq(Messages)] /\ c.place <= Len(c.list)
    /\ c.place # 0 => c.list[c.place] \in Users

Typed ==
    /\ chat \in Seq(Messages) /\ IsInjective(chat) /\ IsFiniteSet(ToSet(chat))
    /\ draft = NoDraft \/ draft \in ToSet(chat) \intersect Users
    /\ shifts \in Nat /\ shifts <= Cardinality(Replies \intersect ToSet(chat))
    /\ pending \in [Messages -> Seq(Event)]
    /\ request \in [Users -> Status]
    /\ answer \in [Requests -> Answer]
    /\ Clicked(retry)
    /\ recovery \in Recovery /\ recovery.after <= Len(chat)
    /\ conn \in {"down", "open", "joined"} /\ connected \in BOOLEAN
    /\ known \in Seq(Messages)
    /\ local \in Seq(Users) /\ IsInjective(local)
    /\ lastSeq \in Nat /\ lastSeq <= Len(chat)
    /\ fresh \in Nat

\* What the tab shows as saved is saved, and shown once.
OnScreen ==
    /\ "guessed" \notin excuse =>
          ToSet(known) \subseteq ToSet(chat) /\ ToSet(retry.list) \subseteq ToSet(chat)
    /\ "replaced" \notin excuse => ToSet(local) \intersect ToSet(known) = {}

\* What was not sent is nowhere.
Posted ==
    \A m \in Mine : request[m] = "none" =>
        m \notin ToSet(chat) \union ToSet(local) \union ToSet(known) \union ToSet(retry.list)

\* Who is not saved has published nothing.
Unsaved == \A m \in Messages : m \notin ToSet(chat) => pending[m] = <<>>

\* An event that is on its way.
Flying(e) == \E m \in Messages : e \in ToSet(pending[m])

\* What is on its way to the tab: x at place p, read when the chat had shifted u times.
Item(p, x, u) ==
    \/ \E e \in Event : Flying(e) /\ p = e.place /\ x = e.message /\ u = e.shifts
    \/ \E r \in Requests :
          p \in 1..Len(answer[r].list) /\ x = answer[r].list[p] /\ u = answer[r].shifts
    \/ /\ recovery.step = "answered" /\ p \in Int
       /\ p - recovery.after \in 1..Len(recovery.tail)
       /\ x = recovery.tail[p - recovery.after] /\ u = recovery.shifts

\* It was there then, and is there still if the chat has not shifted since.
Read(p, x, u) ==
    /\ p \in 1..Len(chat) /\ x \in ToSet(chat)
    /\ u \in Nat /\ u <= shifts /\ (u = shifts => chat[p] = x)

Reads == \A p, x, u : Item(p, x, u) => Read(p, x, u)

Typing == Typed /\ OnScreen /\ Posted /\ Unsaved /\ Reads

\* What a step puts on its way was read just now.
NewItems ==
    \A p, x, u : Item(p, x, u)' => \/ Item(p, x, u)
                                   \/ p \in 1..Len(chat') /\ x = chat'[p] /\ u = shifts'

-----------------------------------------------------------------------------
(* The chat grows.                                                         *)

\* Message m is put at place q of the chat, and published.
Grows(m, q) ==
    /\ m \in Messages /\ m \notin ToSet(chat) /\ q \in 1..Len(chat) + 1
    /\ chat' \in Seq(Messages) /\ Len(chat') = Len(chat) + 1
    /\ \A k \in 1..q - 1 : chat'[k] = chat[k]
    /\ chat'[q] = m
    /\ \A k \in q..Len(chat) : chat'[k + 1] = chat[k]
    /\ shifts' = IF q <= Len(chat) THEN shifts + 1 ELSE shifts
    /\ q <= Len(chat) => m \in Replies
    /\ pending' \in [Messages -> Seq(Event)]
    /\ \A x \in Messages : x # m => pending'[x] = pending[x]
    /\ \A e : e \in ToSet(pending'[m]) =>
          \E p \in 1..Len(chat') : \E v \in Int : e = Says(chat', p, v, shifts')
    /\ q <= Len(chat) =>
          \A p \in q..Len(chat') : Says(chat', p, q, shifts') \in ToSet(pending'[m])
    /\ UNCHANGED <<answer, retry, recovery, connection, view, history>>

LEMMA SavedGrows ==
    ASSUME Typing, NEW m \in Messages, m \notin ToSet(chat), SaveAtEnd(m),
           UNCHANGED <<answer, retry, recovery, connection, view, history>>
    PROVE  Grows(m, Len(chat) + 1)
<1> DEFINE n == Len(chat)
           es == Events(chat', Len(chat'), Len(chat') + 1, shifts)
<1>0. chat \in Seq(Messages) /\ n \in Nat /\ shifts \in Nat /\ pending \in [Messages -> Seq(Event)]
  BY LenProperties DEF Typing, Typed
<1>1. chat' = Append(chat, m) /\ pending' = [pending EXCEPT ![m] = es] /\ shifts' = shifts
  BY DEF SaveAtEnd
<1>2. /\ chat' \in Seq(Messages) /\ Len(chat') = n + 1
      /\ \A k \in 1..n : chat'[k] = chat[k]
      /\ chat'[n + 1] = m
  BY <1>0, <1>1, AppendIs
<1>3. /\ es \in Seq(Event)
      /\ \A e : e \in ToSet(es) <=> \E p \in Len(chat')..Len(chat') : e = Says(chat', p, Len(chat') + 1, shifts)
  <2>1. PICK l \in Seq(Messages) : l = chat' BY <1>2
  <2>2. Len(l) \in 1..Len(l) /\ Len(l) + 1 \in Int /\ shifts \in Nat BY <1>0, <1>2, <2>1
  <2>3. es = Events(l, Len(l), Len(l) + 1, shifts) BY <2>1
  <2> HIDE DEF es
  <2>4. /\ es \in Seq(Event)
        /\ \A e : e \in ToSet(es) <=> \E p \in Len(l)..Len(l) : e = Says(l, p, Len(l) + 1, shifts)
    BY <2>2, <2>3, EventsAre
  <2> QED BY <2>1, <2>4
<1> HIDE DEF es
<1>4. /\ pending' \in [Messages -> Seq(Event)] /\ pending'[m] = es
      /\ \A x \in Messages : x # m => pending'[x] = pending[x]
  BY <1>0, <1>1, <1>3
<1>5. ASSUME NEW e, e \in ToSet(pending'[m])
      PROVE  \E p \in 1..Len(chat') : \E v \in Int : e = Says(chat', p, v, shifts')
  <2>1. e = Says(chat', Len(chat'), Len(chat') + 1, shifts) BY <1>0, <1>2, <1>3, <1>4, <1>5
  <2>2. Len(chat') \in 1..Len(chat') /\ Len(chat') + 1 \in Int BY <1>0, <1>2
  <2> QED BY <1>1, <2>1, <2>2
<1>6. ~(n + 1 <= n) /\ n + 1 \in 1..n + 1 BY <1>0
<1> QED BY <1>0, <1>1, <1>2, <1>4, <1>5, <1>6 DEF Grows

LEMMA CommitGrows ==
    ASSUME Typing, NEW r \in Replies, Commit(r)
    PROVE  \E q \in 1..Len(chat) + 1 : Grows(r, q)
<1> DEFINE n == Len(chat)
           i == CHOOSE k \in DOMAIN chat : chat[k] = draft
           q == Below(i)
           f == FirstUnanswered(i)
           v == IF q <= n THEN q ELSE n + 2
           es == Events(chat', f, v, shifts')
<1>0. /\ chat \in Seq(Messages) /\ n \in Nat /\ shifts \in Nat /\ pending \in [Messages -> Seq(Event)]
      /\ DOMAIN chat = 1..n /\ r \in Messages
  BY LenProperties DEF Typing, Typed, Messages, Omis
<1>1. /\ draft # NoDraft /\ r \notin ToSet(chat) /\ chat' = InsertAt(chat, q, r)
      /\ shifts' = (IF q <= n THEN shifts + 1 ELSE shifts)
      /\ pending' = [pending EXCEPT ![r] = es]
      /\ UNCHANGED <<posting, recovery, connection, view, history>>
  BY DEF Commit
<1>2. i \in 1..n /\ chat[i] = draft /\ chat[i] \in Users
  <2>1. draft \in ToSet(chat) /\ draft \in Users BY <1>1 DEF Typing, Typed
  <2>2. \E k \in DOMAIN chat : chat[k] = draft BY <2>1 DEF ToSet
  <2> QED BY <1>0, <2>1, <2>2
<1> HIDE DEF i
<1>3. q \in i + 1..n + 1 /\ f \in 1..i BY <1>0, <1>2, BelowIs, FirstUnansweredIs
<1> HIDE DEF q, f
<1>4. q \in 1..n + 1 /\ f \in 1..n + 1 /\ f <= q /\ v \in Int BY <1>0, <1>2, <1>3
<1>5. /\ chat' \in Seq(Messages) /\ Len(chat') = n + 1
      /\ \A k \in 1..q - 1 : chat'[k] = chat[k]
      /\ chat'[q] = r
      /\ \A k \in q..n : chat'[k + 1] = chat[k]
  <2>0. chat \in Seq(Messages) /\ q \in 1..Len(chat) + 1 /\ r \in Messages BY <1>0, <1>4
  <2> QED BY <1>1, <2>0, InsertIs
<1>6. shifts' \in Nat BY <1>0, <1>1
<1> HIDE DEF v
<1>7. /\ es \in Seq(Event)
      /\ \A e : e \in ToSet(es) <=> \E p \in f..Len(chat') : e = Says(chat', p, v, shifts')
  <2>1. es = Events(chat', f, v, shifts') OBVIOUS
  <2>2. chat' \in Seq(Messages) /\ f \in 1..Len(chat') /\ v \in Int /\ shifts' \in Nat
    BY <1>4, <1>5, <1>6
  <2> HIDE DEF es
  <2> QED BY <2>1, <2>2, EventsAre
<1> HIDE DEF es
<1>8. /\ pending' \in [Messages -> Seq(Event)] /\ pending'[r] = es
      /\ \A x \in Messages : x # r => pending'[x] = pending[x]
  BY <1>0, <1>1, <1>7
<1>9. ASSUME NEW e, e \in ToSet(pending'[r])
      PROVE  \E p \in 1..Len(chat') : \E w \in Int : e = Says(chat', p, w, shifts')
  <2>1. PICK p \in f..Len(chat') : e = Says(chat', p, v, shifts') BY <1>7, <1>8, <1>9
  <2>2. p \in 1..Len(chat') BY <1>0, <1>4, <1>5
  <2> QED BY <1>4, <2>1, <2>2
<1>10. ASSUME q <= n, NEW p \in q..Len(chat')
       PROVE  Says(chat', p, q, shifts') \in ToSet(pending'[r])
  <2>1. v = q /\ p \in f..Len(chat') BY <1>0, <1>4, <1>5, <1>10 DEF v
  <2> QED BY <1>7, <1>8, <2>1
<1>11. Grows(r, q) BY <1>0, <1>1, <1>4, <1>5, <1>8, <1>9, <1>10 DEF Grows, posting, view
<1> QED BY <1>4, <1>11

\* What is in a chat that grew, and what is on its way.
LEMMA GrownChat ==
    ASSUME Typing, NEW m, NEW q, Grows(m, q)
    PROVE  /\ IsInjective(chat') /\ ToSet(chat') = ToSet(chat) \union {m}
           /\ DOMAIN chat = 1..Len(chat) /\ DOMAIN chat' = 1..Len(chat) + 1 /\ Len(chat) \in Nat
           /\ \A k \in 1..Len(chat) : \E j \in 1..Len(chat') : chat'[j] = chat[k]
<1>0. /\ Len(chat) \in Nat /\ DOMAIN chat = 1..Len(chat) /\ DOMAIN chat' = 1..Len(chat) + 1
      /\ q \in 1..Len(chat) + 1 /\ m \notin ToSet(chat) /\ Len(chat') = Len(chat) + 1
      /\ \A k \in 1..q - 1 : chat'[k] = chat[k]
      /\ chat'[q] = m
      /\ \A k \in q..Len(chat) : chat'[k + 1] = chat[k]
  BY LenProperties DEF Grows, Typing, Typed
<1>1. ASSUME NEW j \in 1..Len(chat) + 1
      PROVE  \/ j = q
             \/ j < q /\ j \in 1..Len(chat) /\ chat'[j] = chat[j]
             \/ j > q /\ j - 1 \in 1..Len(chat) /\ chat'[j] = chat[j - 1]
  <2>1. CASE j < q BY <1>0, <2>1
  <2>2. CASE j > q
    <3>1. j - 1 \in q..Len(chat) /\ (j - 1) + 1 = j BY <1>0, <2>2
    <3>2. chat'[j] = chat[j - 1] BY <1>0, <3>1
    <3> QED BY <1>0, <2>2, <3>1, <3>2
  <2> QED BY <1>0, <2>1, <2>2
<1>2. ASSUME NEW k \in 1..Len(chat) PROVE \E j \in 1..Len(chat') : chat'[j] = chat[k]
  <2>1. CASE k < q
    <3>1. k \in 1..q - 1 /\ k \in 1..Len(chat') BY <1>0, <2>1
    <3> QED BY <1>0, <3>1
  <2>2. CASE ~(k < q)
    <3>1. k \in q..Len(chat) /\ k + 1 \in 1..Len(chat') BY <1>0, <2>2
    <3> QED BY <1>0, <3>1
  <2> QED BY <2>1, <2>2
<1>3. ToSet(chat') = ToSet(chat) \union {m}
  <2>1. \A j \in 1..Len(chat) + 1 : chat'[j] \in ToSet(chat) \union {m} BY <1>0, <1>1 DEF ToSet
  <2>2. \A x \in ToSet(chat) : x \in ToSet(chat') BY <1>0, <1>2 DEF ToSet
  <2>3. m \in ToSet(chat') BY <1>0 DEF ToSet
  <2>4. \A x \in ToSet(chat') : x \in ToSet(chat) \union {m} BY <1>0, <2>1 DEF ToSet
  <2> QED BY <2>2, <2>3, <2>4
<1>4. IsInjective(chat')
  <2> SUFFICES ASSUME NEW i \in 1..Len(chat) + 1, NEW j \in 1..Len(chat) + 1, chat'[i] = chat'[j]
               PROVE  i = j
    BY <1>0 DEF IsInjective
  <2>1. \A k \in 1..Len(chat) : chat[k] # m BY <1>0 DEF ToSet
  <2>2. \A a, b \in 1..Len(chat) : chat[a] = chat[b] => a = b BY <1>0 DEF Typing, Typed, IsInjective
  <2>3. CASE i = q \/ j = q BY <1>0, <1>1, <2>1, <2>3
  <2>4. CASE i < q /\ j < q BY <1>0, <1>1, <2>2, <2>4
  <2>5. CASE i > q /\ j > q
    <3>1. i - 1 \in 1..Len(chat) /\ j - 1 \in 1..Len(chat) /\ chat[i - 1] = chat[j - 1]
      BY <1>0, <1>1, <2>5
    <3>2. i - 1 = j - 1 BY <2>2, <3>1
    <3> QED BY <1>0, <3>2
  <2>6. CASE i < q /\ j > q
    <3>1. i \in 1..Len(chat) /\ j - 1 \in 1..Len(chat) /\ chat[i] = chat[j - 1]
      BY <1>0, <1>1, <2>6
    <3>2. i = j - 1 BY <2>2, <3>1
    <3> QED BY <1>0, <2>6, <3>2
  <2>7. CASE j < q /\ i > q
    <3>1. j \in 1..Len(chat) /\ i - 1 \in 1..Len(chat) /\ chat[j] = chat[i - 1]
      BY <1>0, <1>1, <2>7
    <3>2. j = i - 1 BY <2>2, <3>1
    <3> QED BY <1>0, <2>7, <3>2
  <2> QED BY <1>0, <2>3, <2>4, <2>5, <2>6, <2>7
<1> QED BY <1>0, <1>2, <1>3, <1>4

LEMMA GrownItems == ASSUME Typing, NEW m, NEW q, Grows(m, q) PROVE NewItems
<1> SUFFICES ASSUME NEW p, NEW x, NEW u, Item(p, x, u)'
             PROVE  Item(p, x, u) \/ (p \in 1..Len(chat') /\ x = chat'[p] /\ u = shifts')
    BY DEF NewItems
<1>1. answer' = answer /\ recovery' = recovery BY DEF Grows
<1>2. CASE \E e \in Event : Flying(e)' /\ p = e.place /\ x = e.message /\ u = e.shifts
  <2>1. PICK e \in Event : Flying(e)' /\ p = e.place /\ x = e.message /\ u = e.shifts BY <1>2
  <2>2. PICK y \in Messages : e \in ToSet(pending'[y]) BY <2>1 DEF Flying
  <2>3. CASE y = m
    <3>1. PICK k \in 1..Len(chat') : \E v \in Int : e = Says(chat', k, v, shifts')
      BY <2>2, <2>3 DEF Grows
    <3>2. e.place = k /\ e.message = chat'[k] /\ e.shifts = shifts' BY <3>1 DEF Says
    <3> QED BY <2>1, <3>2
  <2>4. CASE y # m
    <3>1. e \in ToSet(pending[y]) BY <2>2, <2>4 DEF Grows
    <3> QED BY <2>1, <2>2, <3>1 DEF Item, Flying
  <2> QED BY <2>3, <2>4
<1>3. CASE ~ \E e \in Event : Flying(e)' /\ p = e.place /\ x = e.message /\ u = e.shifts
  BY <1>1, <1>3 DEF Item
<1> QED BY <1>2, <1>3

LEMMA GrownTyping ==
    ASSUME Typing, NEW m, NEW q, Grows(m, q), draft' \in {draft, NoDraft},
           request' \in [Users -> Status],
           \A n \in Mine : request'[n] = "none" => request[n] = "none" /\ n # m
    PROVE  Typing'
<1>1. /\ IsInjective(chat') /\ ToSet(chat') = ToSet(chat) \union {m}
      /\ DOMAIN chat = 1..Len(chat) /\ DOMAIN chat' = 1..Len(chat) + 1 /\ Len(chat) \in Nat
  BY GrownChat
<1>2. IsFiniteSet(ToSet(chat'))
  <2>1. IsFiniteSet(ToSet(chat)) BY DEF Typing, Typed
  <2>2. IsFiniteSet(ToSet(chat) \union {m}) BY <2>1, FS_AddElement
  <2> QED BY <1>1, <2>2
<1>3. shifts' \in Nat /\ shifts' <= Cardinality(Replies \intersect ToSet(chat'))
  <2> DEFINE R == Replies \intersect ToSet(chat)
  <2>1. IsFiniteSet(R) /\ IsFiniteSet(Replies \intersect ToSet(chat'))
    BY <1>2, FS_Subset DEF Typing, Typed
  <2>2. Cardinality(R) \in Nat /\ Cardinality(Replies \intersect ToSet(chat')) \in Nat
    BY <2>1, FS_CardinalityType
  <2>3. m \notin R /\ shifts \in Nat /\ shifts <= Cardinality(R) BY DEF Grows, Typing, Typed
  <2>4. CASE m \in Replies
    <3>1. Replies \intersect ToSet(chat') = R \union {m} BY <1>1, <2>4
    <3>2. Cardinality(R \union {m}) = Cardinality(R) + 1 BY <2>1, <2>3, FS_AddElement
    <3>3. shifts' \in {shifts, shifts + 1} BY DEF Grows
    <3> HIDE DEF R
    <3> QED BY <2>2, <2>3, <3>1, <3>2, <3>3
  <2>5. CASE m \notin Replies
    <3>1. Replies \intersect ToSet(chat') = R BY <1>1, <2>5
    <3>2. shifts' = shifts BY <2>5 DEF Grows
    <3> HIDE DEF R
    <3> QED BY <2>2, <2>3, <3>1, <3>2
  <2> QED BY <2>4, <2>5
<1>4. Typed'
  <2>1. /\ UNCHANGED <<answer, retry, recovery, conn, connected, known, local, lastSeq, fresh>>
        /\ chat' \in Seq(Messages) /\ Len(chat') = Len(chat) + 1
        /\ pending' \in [Messages -> Seq(Event)]
    BY DEF Grows, connection, view, history
  <2>2. recovery.after \in Nat BY DEF Typing, Typed, Recovery
  <2> QED BY <1>1, <1>2, <1>3, <2>1, <2>2 DEF Typing, Typed
<1>5. OnScreen' /\ Posted'
  <2>1. local' = local /\ known' = known /\ retry' = retry /\ excuse' = excuse
    BY DEF Grows, view, history
  <2> QED BY <1>1, <2>1 DEF Typing, OnScreen, Posted
<1>6. Unsaved'
  <2>1. \A x \in Messages : x # m => pending'[x] = pending[x] BY DEF Grows
  <2> QED BY <1>1, <2>1 DEF Typing, Unsaved
<1>7. Reads'
  <2> SUFFICES ASSUME NEW p, NEW x, NEW u, Item(p, x, u)' PROVE Read(p, x, u)' BY DEF Reads
  <2>1. CASE p \in 1..Len(chat') /\ x = chat'[p] /\ u = shifts'
    <3>1. x \in ToSet(chat') BY <1>1, <2>1 DEF ToSet, Grows
    <3> QED BY <1>3, <2>1, <3>1 DEF Read
  <2>2. CASE Item(p, x, u)
    <3>1. /\ p \in 1..Len(chat) /\ x \in ToSet(chat)
          /\ u \in Nat /\ u <= shifts /\ (u = shifts => chat[p] = x)
      BY <2>2 DEF Typing, Reads, Read
    <3>2. shifts \in Nat BY DEF Typing, Typed
    <3>3. /\ Len(chat') = Len(chat) + 1 /\ q \in 1..Len(chat) + 1
          /\ shifts' = IF q <= Len(chat) THEN shifts + 1 ELSE shifts
          /\ \A k \in 1..q - 1 : chat'[k] = chat[k]
      BY DEF Grows
    <3>4. ASSUME u = shifts' PROVE chat'[p] = x
      <4>1. ~(q <= Len(chat)) /\ u = shifts BY <3>1, <3>2, <3>3, <3>4
      <4>2. p \in 1..q - 1 BY <1>1, <3>1, <3>3, <4>1
      <4> QED BY <3>1, <3>3, <4>1, <4>2
    <3>5. p \in 1..Len(chat') /\ u <= shifts' BY <1>1, <3>1, <3>2, <3>3
    <3> QED BY <1>1, <3>1, <3>4, <3>5 DEF Read
  <2> QED BY <2>1, <2>2, GrownItems DEF NewItems
<1> QED BY <1>4, <1>5, <1>6, <1>7 DEF Typing

-----------------------------------------------------------------------------
(* The operators the tab's list is changed with.                           *)

LEMMA SetIs ==
    ASSUME NEW S, NEW s \in Seq(S)
    PROVE  /\ Len(s) \in Nat /\ DOMAIN s = 1..Len(s) /\ ToSet(s) \subseteq S
           /\ \A x : x \in ToSet(s) <=> \E k \in 1..Len(s) : s[k] = x
<1>1. Len(s) \in Nat /\ DOMAIN s = 1..Len(s) BY LenProperties
<1>2. \A k \in 1..Len(s) : s[k] \in S BY ElementOfSeq
<1> QED BY <1>1, <1>2 DEF ToSet

LEMMA AtIs ==
    ASSUME NEW list \in Seq(Messages), NEW i \in Nat \ {0}, NEW m \in Messages,
           NEW t, t = At(list, i, m)
    PROVE  /\ t \in Seq(Messages) /\ ToSet(t) \subseteq ToSet(list) \union {m}
           /\ i > Len(list) + 1 => t = list
<1>0. Len(list) \in Nat /\ DOMAIN list = 1..Len(list) BY LenProperties
<1>1. CASE i > Len(list) + 1 BY <1>1 DEF At
<1>2. CASE i = Len(list) + 1
  <2>0. ~(i > Len(list) + 1) BY <1>0, <1>2
  <2>1. t = Append(list, m) BY <1>2, <2>0 DEF At
  <2>2. t \in Seq(Messages) /\ ToSet(t) = ToSet(list) \union {m} BY <2>1, AppendIs
  <2>3. ~(i > Len(list) + 1) BY <1>0, <1>2
  <2> QED BY <2>2, <2>3
<1>3. CASE i < Len(list) + 1
  <2>0. ~(i > Len(list) + 1) /\ i # Len(list) + 1 BY <1>0, <1>3
  <2>1. t = [list EXCEPT ![i] = m] BY <2>0 DEF At
  <2>2. i \in 1..Len(list) BY <1>0, <1>3
  <2>3. t \in Seq(Messages) BY <2>1, <2>2, ExceptSeq
  <2>4. ToSet(t) \subseteq ToSet(list) \union {m} BY <1>0, <2>1 DEF ToSet
  <2>5. ~(i > Len(list) + 1) BY <1>0, <1>3
  <2> QED BY <2>3, <2>4, <2>5
<1> QED BY <1>0, <1>1, <1>2, <1>3

LEMMA OverIs ==
    ASSUME NEW list \in Seq(Messages), NEW after \in Nat, NEW tail \in Seq(Messages),
           NEW t, t = Over(list, after, tail)
    PROVE  LET top == IF Len(list) >= after + Len(tail) THEN Len(list) ELSE after + Len(tail) IN
           /\ t \in Seq(Messages) /\ ToSet(t) \subseteq ToSet(list) \union ToSet(tail)
           /\ after > Len(list) => t = list
           /\ after <= Len(list) =>
                 /\ Len(t) = top
                 /\ \A k \in 1..top : t[k] = IF k > after /\ k <= after + Len(tail)
                                             THEN tail[k - after] ELSE list[k]
<1> DEFINE top == IF Len(list) >= after + Len(tail) THEN Len(list) ELSE after + Len(tail)
           E(k) == IF k > after /\ k <= after + Len(tail) THEN tail[k - after] ELSE list[k]
<1>0. /\ Len(list) \in Nat /\ Len(tail) \in Nat
      /\ \A x : x \in ToSet(list) <=> \E k \in 1..Len(list) : list[k] = x
      /\ \A x : x \in ToSet(tail) <=> \E k \in 1..Len(tail) : tail[k] = x
  BY SetIs
<1>1. CASE after > Len(list)
  <2>1. t = list BY <1>1 DEF Over
  <2> QED BY <1>0, <1>1, <2>1
<1>2. CASE after <= Len(list)
  <2>1. ~(after > Len(list)) /\ top \in Nat BY <1>0, <1>2
  <2>2. Max({Len(list), after + Len(tail)}) = top BY <1>0, MaxIs
  <2>3. t = [k \in 1..top |-> E(k)] BY <2>1, <2>2 DEF Over
  <2>4. ASSUME NEW k \in 1..top PROVE E(k) \in ToSet(list) \union ToSet(tail)
    <3>1. CASE k > after /\ k <= after + Len(tail)
      <4>1. k - after \in 1..Len(tail) BY <1>0, <2>1, <3>1
      <4> QED BY <1>0, <3>1, <4>1
    <3>2. CASE ~(k > after /\ k <= after + Len(tail))
      <4>1. k \in 1..Len(list) BY <1>0, <1>2, <2>1, <3>2
      <4> QED BY <1>0, <3>2, <4>1
    <3> QED BY <3>1, <3>2
  <2>5. ToSet(list) \union ToSet(tail) \subseteq Messages BY SetIs
  <2> HIDE DEF top, E
  <2>6. t \in Seq(Messages) /\ Len(t) = top
    <3>1. \A k \in 1..top : E(k) \in Messages BY <2>4, <2>5
    <3>2. t \in Seq(Messages) BY <2>1, <2>3, <3>1, SeqDef
    <3>3. DOMAIN t = 1..top BY <2>3
    <3> QED BY <2>1, <3>2, <3>3, LenProperties
  <2>7. \A k \in 1..top : t[k] = E(k) BY <2>3
  <2>8. ToSet(t) \subseteq ToSet(list) \union ToSet(tail) BY <2>3, <2>4 DEF ToSet
  <2> QED BY <2>1, <2>6, <2>7, <2>8 DEF top, E
<1> QED BY <1>0, <1>1, <1>2

\* What is stored after place a.
LEMMA TailOfChat ==
    ASSUME chat \in Seq(Messages), NEW a \in Nat, a <= Len(chat),
           NEW t, t = SubSeq(chat, a + 1, Len(chat))
    PROVE  /\ t \in Seq(Messages) /\ Len(t) = Len(chat) - a
           /\ \A k \in 1..Len(chat) - a : t[k] = chat[a + k]
<1>0. Len(chat) \in Nat BY LenProperties
<1>1. \A k \in a + 1..Len(chat) : chat[k] \in Messages BY <1>0, ElementOfSeq
<1>2. /\ t \in Seq(Messages)
      /\ Len(t) = IF a + 1 <= Len(chat) THEN Len(chat) - (a + 1) + 1 ELSE 0
      /\ \A k \in 1..Len(chat) - (a + 1) + 1 : t[k] = chat[a + 1 + k - 1]
  BY <1>0, <1>1, SubSeqProperties
<1>3. Len(t) = Len(chat) - a BY <1>0, <1>2
<1>4. \A k \in 1..Len(chat) - a : k \in 1..Len(chat) - (a + 1) + 1 /\ a + 1 + k - 1 = a + k BY <1>0
<1> QED BY <1>2, <1>3, <1>4

-----------------------------------------------------------------------------
(* The other steps leave the chat as it is.                                *)

Quiet == UNCHANGED <<chat, shifts>> /\ NewItems

LEMMA QuietReads == ASSUME Typing, Quiet PROVE Reads'
<1>0. /\ chat' = chat /\ shifts' = shifts /\ shifts \in Nat
      /\ \A k \in 1..Len(chat) : chat[k] \in ToSet(chat)
  <2>1. chat \in Seq(Messages) BY DEF Typing, Typed
  <2>2. \A x : x \in ToSet(chat) <=> \E k \in 1..Len(chat) : chat[k] = x BY <2>1, SetIs
  <2> QED BY <2>2 DEF Quiet, Typing, Typed
<1> SUFFICES ASSUME NEW p, NEW x, NEW u, Item(p, x, u)' PROVE Read(p, x, u)' BY DEF Reads
<1>1. CASE Item(p, x, u) BY <1>0, <1>1 DEF Typing, Reads, Read
<1>2. CASE p \in 1..Len(chat') /\ x = chat'[p] /\ u = shifts' BY <1>0, <1>2 DEF Read
<1> QED BY <1>1, <1>2 DEF Quiet, NewItems

LEMMA ItemsLeft ==
    ASSUME Typing, UNCHANGED <<chat, shifts>>,
           \A e : Flying(e)' => Flying(e),
           \A r \in Requests : answer'[r] \in {answer[r], NoAnswer, [list |-> chat, shifts |-> shifts]},
           \/ recovery' = recovery \/ recovery'.step # "answered"
           \/ /\ recovery'.after = recovery.after
              /\ recovery'.tail = SubSeq(chat, recovery.after + 1, Len(chat)) /\ recovery'.shifts = shifts
    PROVE  Quiet
<1>0. /\ chat \in Seq(Messages) /\ Len(chat) \in Nat /\ recovery.after \in Nat /\ recovery.after <= Len(chat)
  BY LenProperties DEF Typing, Typed, Recovery
<1> SUFFICES ASSUME NEW p, NEW x, NEW u, Item(p, x, u)'
             PROVE  Item(p, x, u) \/ (p \in 1..Len(chat) /\ x = chat[p] /\ u = shifts)
  BY DEF Quiet, NewItems
<1>1. CASE \E e \in Event : Flying(e)' /\ p = e.place /\ x = e.message /\ u = e.shifts
  BY <1>1 DEF Item
<1>2. CASE \E m \in Requests :
              p \in 1..Len(answer'[m].list) /\ x = answer'[m].list[p] /\ u = answer'[m].shifts
  <2>1. PICK m \in Requests :
            p \in 1..Len(answer'[m].list) /\ x = answer'[m].list[p] /\ u = answer'[m].shifts
    BY <1>2
  <2>2. CASE answer'[m] = answer[m] BY <2>1, <2>2 DEF Item
  <2>3. CASE answer'[m] = NoAnswer
    <3>1. Len(answer'[m].list) = 0 BY <2>3 DEF NoAnswer
    <3> QED BY <2>1, <3>1
  <2>4. CASE answer'[m] = [list |-> chat, shifts |-> shifts] BY <2>1, <2>4
  <2> QED BY <2>2, <2>3, <2>4
<1>3. CASE /\ recovery'.step = "answered" /\ p \in Int
           /\ p - recovery'.after \in 1..Len(recovery'.tail)
           /\ x = recovery'.tail[p - recovery'.after] /\ u = recovery'.shifts
  <2>1. CASE recovery' = recovery BY <1>3, <2>1 DEF Item
  <2>2. CASE /\ recovery'.after = recovery.after
             /\ recovery'.tail = SubSeq(chat, recovery.after + 1, Len(chat)) /\ recovery'.shifts = shifts
    <3>1. PICK a, t : a \in Nat /\ a = recovery.after /\ t = recovery'.tail BY <1>0
    <3>2. /\ Len(t) = Len(chat) - a
          /\ \A k \in 1..Len(chat) - a : t[k] = chat[a + k]
      BY <1>0, <2>2, <3>1, TailOfChat
    <3>3. p \in Int /\ p - a \in 1..Len(chat) - a /\ x = t[p - a] /\ u = shifts
      BY <1>3, <2>2, <3>1, <3>2
    <3>4. a + (p - a) = p /\ p \in 1..Len(chat) BY <1>0, <3>1, <3>3
    <3> QED BY <3>2, <3>3, <3>4
  <2> QED BY <1>3, <2>1, <2>2
<1> QED BY <1>1, <1>2, <1>3 DEF Item

LEMMA TakenIs ==
    ASSUME Typing, NEW m \in Messages, pending[m] # <<>>, pending' = [pending EXCEPT ![m] = Tail(@)]
    PROVE  /\ Head(pending[m]) \in Event /\ Flying(Head(pending[m]))
           /\ pending' \in [Messages -> Seq(Event)]
           /\ \A e : Flying(e)' => Flying(e)
           /\ \A e : Flying(e) => Flying(e)' \/ e = Head(pending[m])
           /\ chat' = chat => Unsaved'
<1>1. PICK s \in Seq(Event) : s = pending[m] BY DEF Typing, Typed
<1>2. /\ Head(s) \in Event /\ Tail(s) \in Seq(Event)
      /\ \A e : e \in ToSet(s) <=> e = Head(s) \/ e \in ToSet(Tail(s))
  BY <1>1, TailIs
<1>3. /\ pending' \in [Messages -> Seq(Event)] /\ pending'[m] = Tail(s)
      /\ \A x \in Messages : x # m => pending'[x] = pending[x]
  BY <1>1, <1>2 DEF Typing, Typed
<1>4. Flying(Head(pending[m])) BY <1>1, <1>2 DEF Flying
<1>5. \A e : Flying(e)' => Flying(e) BY <1>1, <1>2, <1>3 DEF Flying
<1>6. \A e : Flying(e) => Flying(e)' \/ e = Head(pending[m]) BY <1>1, <1>2, <1>3 DEF Flying
<1>7. chat' = chat => Unsaved' BY <1>1, <1>3 DEF Typing, Unsaved
<1> QED BY <1>1, <1>2, <1>3, <1>4, <1>5, <1>6, <1>7

LEMMA AskIs ==
    ASSUME lastSeq \in Nat, NEW p
    PROVE  Ask(p) \in Recovery /\ Ask(p).step = "asked" /\ Ask(p).after = lastSeq
<1>1. <<>> \in Seq(Messages) OBVIOUS
<1>2. Idle \in Recovery BY <1>1 DEF Idle, Recovery
<1>3. Ask(p) = [Idle EXCEPT !.step = "asked", !.after = lastSeq] BY DEF Ask
<1>4. Ask(p) \in Recovery BY <1>2, <1>3 DEF Recovery
<1>5. Ask(p).step = "asked" /\ Ask(p).after = lastSeq BY DEF Ask, Idle
<1> QED BY <1>4, <1>5

LEMMA IdleIs == Idle \in Recovery /\ Idle.step = "idle" /\ Idle.after = 0
<1>1. <<>> \in Seq(Messages) OBVIOUS
<1> QED BY <1>1 DEF Idle, Recovery

-----------------------------------------------------------------------------
LEMMA DraftQuiet == ASSUME Typing, Draft PROVE Typing' /\ Quiet
<1>0. UNCHANGED <<chat, shifts, pending, request, answer, retry, recovery, conn, connected,
                  known, local, lastSeq, fresh, excuse>>
  BY DEF Draft, posting, connection, view, history
<1>1. draft' \in ToSet(chat) \intersect Users
  <2>1. Len(chat) \in Nat \ {0} /\ DOMAIN chat = 1..Len(chat)
    BY EmptySeq, LenProperties DEF Draft, Typing, Typed
  <2>2. chat[Len(chat)] \in ToSet(chat)
    <3>1. Len(chat) \in DOMAIN chat BY <2>1
    <3> QED BY <3>1 DEF ToSet
  <2>3. Last(chat) = chat[Len(chat)] BY DEF Last
  <2> QED BY <2>2, <2>3 DEF Draft
<1>2. Quiet
  <2>1. \A e : Flying(e)' => Flying(e) BY <1>0 DEF Flying
  <2>2. \A r \in Requests : answer'[r] = answer[r] BY <1>0
  <2> QED BY <1>0, <2>1, <2>2, ItemsLeft
<1>3. Typed' BY <1>0, <1>1 DEF Typing, Typed
<1>4. OnScreen' /\ Posted' /\ Unsaved' BY <1>0 DEF Typing, OnScreen, Posted, Unsaved
<1> QED BY <1>2, <1>3, <1>4, QuietReads DEF Typing

LEMMA PushQuiet == ASSUME Typing, NEW m \in Messages, Push(m) PROVE Typing' /\ Quiet
<1> DEFINE e == Head(pending[m])
<1>0. /\ UNCHANGED <<chat, draft, shifts, request, answer, retry, conn, connected>>
      /\ pending[m] # <<>> /\ pending' = [pending EXCEPT ![m] = Tail(@)]
      /\ excuse \subseteq excuse'
  BY DEF Push, Applied, server, posting, connection
<1>1. /\ recovery' = IF e.place > lastSeq + 1 /\ recovery.step = "idle" THEN Ask(e.place) ELSE recovery
      /\ lastSeq' = Max({lastSeq, e.place})
      /\ known' = At(known, e.place, e.message)
      /\ IF e.place > Len(known) + 1 THEN UNCHANGED <<local, fresh>>
         ELSE local' = OnTheirWay({e.message}) /\ Applied(e.shifts)
  BY DEF Push
<1>2. /\ e \in Event /\ Flying(e) /\ pending' \in [Messages -> Seq(Event)]
      /\ \A f : Flying(f)' => Flying(f)
      /\ Unsaved'
  BY <1>0, TakenIs
<1> HIDE DEF e
<1>3. /\ e.place \in Nat \ {0} /\ e.message \in Messages /\ e.shifts \in Nat
      /\ e.place <= Len(chat) /\ e.message \in ToSet(chat)
  <2>1. Item(e.place, e.message, e.shifts) BY <1>2 DEF Item
  <2>2. Read(e.place, e.message, e.shifts) BY <2>1 DEF Typing, Reads
  <2> QED BY <1>2, <2>2 DEF Read, Event
<1>4. /\ known \in Seq(Messages) /\ local \in Seq(Users) /\ IsInjective(local)
      /\ fresh \in Nat /\ lastSeq \in Nat /\ lastSeq <= Len(chat)
      /\ recovery \in Recovery /\ recovery.after <= Len(chat)
  BY DEF Typing, Typed
<1>5. /\ known' \in Seq(Messages) /\ ToSet(known') \subseteq ToSet(known) \union {e.message}
      /\ e.place > Len(known) + 1 => known' = known
  BY <1>1, <1>3, <1>4, AtIs
<1>6. /\ lastSeq' \in Nat /\ lastSeq' <= Len(chat)
  <2>1. lastSeq' = IF lastSeq >= e.place THEN lastSeq ELSE e.place BY <1>1, <1>3, <1>4, MaxIs
  <2> QED BY <1>3, <1>4, <2>1
<1>7. recovery' \in Recovery /\ recovery'.after <= Len(chat) /\ (recovery' = recovery \/ recovery'.step # "answered")
  <2>1. CASE recovery' = recovery BY <1>4, <2>1
  <2>2. CASE recovery' = Ask(e.place)
    <3>1. Ask(e.place) \in Recovery /\ Ask(e.place).step = "asked" /\ Ask(e.place).after = lastSeq
      BY <1>4, AskIs
    <3> QED BY <1>4, <2>2, <3>1
  <2> QED BY <1>1, <2>1, <2>2
<1>8. /\ local' \in Seq(Users) /\ IsInjective(local') /\ ToSet(local') \subseteq ToSet(local)
      /\ known' = known \/ e.message \notin ToSet(local')
      /\ fresh' \in Nat
  <2>1. CASE e.place > Len(known) + 1 BY <1>1, <1>4, <1>5, <2>1
  <2>2. CASE ~(e.place > Len(known) + 1)
    <3>1. local' = OnTheirWay({e.message}) /\ fresh' = Max({fresh, e.shifts}) BY <1>1, <2>2 DEF Applied
    <3>2. /\ OnTheirWay({e.message}) \in Seq(Users) /\ IsInjective(OnTheirWay({e.message}))
          /\ ToSet(OnTheirWay({e.message})) = ToSet(local) \ {e.message}
      BY <1>4, OnTheirWayIs
    <3>3. fresh' \in Nat BY <1>3, <1>4, <3>1, MaxIs
    <3> QED BY <1>4, <1>5, <3>1, <3>2, <3>3
  <2> QED BY <2>1, <2>2
<1>9. Quiet
  <2>1. \A r \in Requests : answer'[r] = answer[r] BY <1>0
  <2> QED BY <1>0, <1>2, <1>7, <2>1, ItemsLeft
<1>10. OnScreen' BY <1>0, <1>3, <1>5, <1>8 DEF Typing, OnScreen
<1>11. Typed' BY <1>0, <1>2, <1>5, <1>6, <1>7, <1>8 DEF Typing, Typed
<1>12. Posted' BY <1>0, <1>3, <1>5, <1>8 DEF Typing, Posted
<1> QED BY <1>2, <1>9, <1>10, <1>11, <1>12, QuietReads DEF Typing

LEMMA LoseQuiet == ASSUME Typing, NEW m \in Messages, Lose(m) PROVE Typing' /\ Quiet
<1>0. /\ UNCHANGED <<chat, draft, shifts, request, answer, retry, recovery, conn, connected,
                     known, local, lastSeq, fresh>>
      /\ pending[m] # <<>> /\ pending' = [pending EXCEPT ![m] = Tail(@)]
      /\ excuse \subseteq excuse'
  BY DEF Lose, server, posting, connection, view
<1>1. /\ pending' \in [Messages -> Seq(Event)]
      /\ \A f : Flying(f)' => Flying(f)
      /\ Unsaved'
  BY <1>0, TakenIs
<1>2. Quiet
  <2>1. \A r \in Requests : answer'[r] = answer[r] BY <1>0
  <2> QED BY <1>0, <1>1, <2>1, ItemsLeft
<1>3. Typed' BY <1>0, <1>1 DEF Typing, Typed
<1>4. OnScreen' /\ Posted' BY <1>0 DEF Typing, OnScreen, Posted
<1> QED BY <1>1, <1>2, <1>3, <1>4, QuietReads DEF Typing

LEMMA ServeQuiet == ASSUME Typing, ServeRecovery PROVE Typing' /\ Quiet
<1>0. /\ UNCHANGED <<chat, draft, shifts, pending, request, answer, retry, conn, connected,
                     known, local, lastSeq, fresh, excuse>>
      /\ recovery' = [recovery EXCEPT !.step = "answered", !.shifts = shifts,
                                      !.tail = SubSeq(chat, recovery.after + 1, Len(chat))]
  BY DEF ServeRecovery, server, posting, connection, view, history
<1>1. chat \in Seq(Messages) /\ shifts \in Nat /\ recovery \in Recovery /\ recovery.after <= Len(chat)
  BY DEF Typing, Typed
<1>2. recovery.after \in Nat BY <1>1 DEF Recovery
<1>3. SubSeq(chat, recovery.after + 1, Len(chat)) \in Seq(Messages) BY <1>1, <1>2, TailOfChat
<1>4. /\ recovery' \in Recovery /\ recovery'.after = recovery.after
      /\ recovery'.tail = SubSeq(chat, recovery.after + 1, Len(chat)) /\ recovery'.shifts = shifts
  BY <1>0, <1>1, <1>3 DEF Recovery
<1>5. Quiet
  <2>1. \A e : Flying(e)' => Flying(e) BY <1>0 DEF Flying
  <2>2. \A r \in Requests : answer'[r] = answer[r] BY <1>0
  <2> QED BY <1>0, <1>4, <2>1, <2>2, ItemsLeft
<1>6. Typed' BY <1>0, <1>1, <1>4 DEF Typing, Typed
<1>7. OnScreen' /\ Posted' /\ Unsaved' BY <1>0 DEF Typing, OnScreen, Posted, Unsaved
<1> QED BY <1>5, <1>6, <1>7, QuietReads DEF Typing

LEMMA RecoverQuiet == ASSUME Typing, Recover PROVE Typing' /\ Quiet
<1>0. /\ UNCHANGED <<chat, draft, shifts, pending, request, answer, retry, conn, connected>>
      /\ excuse \subseteq excuse'
      /\ recovery.step = "answered" /\ recovery' = Idle
      /\ known' = Over(known, recovery.after, recovery.tail)
      /\ local' = OnTheirWay(ToSet(recovery.tail))
      /\ lastSeq' = Max({lastSeq, recovery.after + Len(recovery.tail)})
      /\ fresh' = Max({fresh, recovery.shifts})
  BY DEF Recover, Applied, server, posting, connection
<1>1. /\ known \in Seq(Messages) /\ local \in Seq(Users) /\ IsInjective(local)
      /\ fresh \in Nat /\ lastSeq \in Nat /\ lastSeq <= Len(chat)
      /\ recovery \in Recovery /\ recovery.after <= Len(chat) /\ Len(chat) \in Nat
  BY LenProperties DEF Typing, Typed
<1>2. PICK a \in Nat, t \in Seq(Messages) : a = recovery.after /\ t = recovery.tail BY <1>1 DEF Recovery
<1>3. Len(t) \in Nat /\ \A x : x \in ToSet(t) <=> \E k \in 1..Len(t) : t[k] = x BY SetIs
<1>4. \A k \in 1..Len(t) : a + k <= Len(chat) /\ t[k] \in ToSet(chat)
  <2> TAKE k \in 1..Len(t)
  <2>1. a + k \in Int /\ (a + k) - a = k BY <1>3
  <2>2. Item(a + k, t[k], recovery.shifts) BY <1>0, <1>2, <2>1 DEF Item
  <2>3. Read(a + k, t[k], recovery.shifts) BY <2>2 DEF Typing, Reads
  <2> QED BY <2>3 DEF Read
<1>5. ToSet(t) \subseteq ToSet(chat) BY <1>3, <1>4
<1>6. a + Len(t) <= Len(chat) BY <1>1, <1>2, <1>3, <1>4
<1>7. known' \in Seq(Messages) /\ ToSet(known') \subseteq ToSet(known) \union ToSet(t) BY <1>0, <1>1, <1>2, OverIs
<1>8. lastSeq' \in Nat /\ lastSeq' <= Len(chat)
  <2>1. lastSeq' = IF lastSeq >= a + Len(t) THEN lastSeq ELSE a + Len(t) BY <1>0, <1>1, <1>2, <1>3, MaxIs
  <2> QED BY <1>1, <1>3, <1>6, <2>1
<1>9. /\ local' \in Seq(Users) /\ IsInjective(local') /\ ToSet(local') = ToSet(local) \ ToSet(t)
  BY <1>0, <1>1, <1>2, OnTheirWayIs
<1>10. OnScreen' BY <1>0, <1>5, <1>7, <1>9 DEF Typing, OnScreen
<1>11. fresh' \in Nat
  <2>1. recovery.shifts \in Nat BY <1>1 DEF Recovery
  <2> QED BY <1>0, <1>1, <2>1, MaxIs
<1>12. recovery' \in Recovery /\ recovery'.after <= Len(chat) /\ recovery'.step # "answered"
  BY <1>0, <1>1 DEF Idle, Recovery
<1>13. Quiet
  <2>1. \A e : Flying(e)' => Flying(e) BY <1>0 DEF Flying
  <2>2. \A r \in Requests : answer'[r] = answer[r] BY <1>0
  <2> QED BY <1>0, <1>12, <2>1, <2>2, ItemsLeft
<1>14. Typed' BY <1>0, <1>7, <1>8, <1>9, <1>11, <1>12 DEF Typing, Typed
<1>15. Posted' /\ Unsaved' BY <1>0, <1>5, <1>7, <1>9 DEF Typing, Posted, Unsaved
<1> QED BY <1>10, <1>13, <1>14, <1>15, QuietReads DEF Typing

\* The connection and the recovery, nothing else.
LEMMA LinkQuiet ==
    ASSUME Typing, UNCHANGED <<server, pending, posting, view, fresh>>, excuse \subseteq excuse',
           conn' \in {"down", "open", "joined"}, connected' \in BOOLEAN,
           recovery' \in {recovery, Idle, Ask(lastSeq)}
    PROVE  Typing' /\ Quiet
<1>0. UNCHANGED <<chat, draft, shifts, pending, request, answer, retry, known, local, lastSeq, fresh>>
  BY DEF server, posting, view
<1>1. recovery' \in Recovery /\ recovery'.after <= Len(chat) /\ (recovery' = recovery \/ recovery'.step # "answered")
  <2>1. /\ recovery \in Recovery /\ recovery.after <= Len(chat) /\ lastSeq \in Nat /\ lastSeq <= Len(chat)
        /\ Len(chat) \in Nat
    BY LenProperties DEF Typing, Typed
  <2>2. CASE recovery' = recovery BY <2>1, <2>2
  <2>3. CASE recovery' = Idle BY <2>1, <2>3, IdleIs
  <2>4. CASE recovery' = Ask(lastSeq) BY <2>1, <2>4, AskIs
  <2> QED BY <2>2, <2>3, <2>4
<1>2. Quiet
  <2>1. \A e : Flying(e)' => Flying(e) BY <1>0 DEF Flying
  <2>2. \A r \in Requests : answer'[r] = answer[r] BY <1>0
  <2> QED BY <1>0, <1>1, <2>1, <2>2, ItemsLeft
<1>3. Typed' BY <1>0, <1>1 DEF Typing, Typed
<1>4. OnScreen' /\ Posted' /\ Unsaved' BY <1>0 DEF Typing, OnScreen, Posted, Unsaved
<1> QED BY <1>2, <1>3, <1>4, QuietReads DEF Typing

LEMMA LinkSteps ==
    ASSUME Typing, RecoveryFails \/ Connect \/ Join \/ Close
    PROVE  Typing' /\ Quiet
<1>0. conn \in {"down", "open", "joined"} /\ connected \in BOOLEAN BY DEF Typing, Typed
<1>1. CASE RecoveryFails
  <2>1. /\ UNCHANGED <<server, pending, posting, view, fresh>> /\ recovery' = Idle
        /\ excuse \subseteq excuse' /\ conn' = conn /\ connected' = connected
    BY <1>1 DEF RecoveryFails, connection
  <2> QED BY <1>0, <2>1, LinkQuiet
<1>2. CASE Connect
  <2>1. /\ UNCHANGED <<server, pending, posting, view, fresh>> /\ recovery' \in {Ask(lastSeq), recovery}
        /\ excuse' = excuse /\ conn' = "open" /\ connected' = TRUE
    BY <1>2 DEF Connect, history
  <2> QED BY <1>0, <2>1, LinkQuiet
<1>3. CASE Join
  <2>1. /\ UNCHANGED <<server, pending, posting, view, fresh>> /\ recovery' = recovery
        /\ excuse' = excuse /\ conn' = "joined" /\ connected' = connected
    BY <1>3 DEF Join, history
  <2> QED BY <1>0, <2>1, LinkQuiet
<1>4. CASE Close
  <2>1. /\ UNCHANGED <<server, pending, posting, view, fresh>> /\ recovery' = recovery
        /\ excuse' = excuse /\ conn' = "down" /\ connected' = connected
    BY <1>4 DEF Close, history
  <2> QED BY <1>0, <2>1, LinkQuiet
<1> QED BY <1>1, <1>2, <1>3, <1>4

\* The requests and what the tab shows, nothing else.
LEMMA PostQuiet ==
    ASSUME Typing, UNCHANGED <<server, pending, recovery, connection, lastSeq>>, OnScreen', Posted',
           request' \in [Users -> Status], Clicked(retry'),
           answer' \in [Requests -> Answer],
           \A r \in Requests : answer'[r] \in {answer[r], NoAnswer, [list |-> chat, shifts |-> shifts]},
           known' \in Seq(Messages), local' \in Seq(Users), IsInjective(local'),
           fresh' \in Nat
    PROVE  Typing' /\ Quiet
<1>0. UNCHANGED <<chat, draft, shifts, pending, recovery, conn, connected, lastSeq>>
  BY DEF server, connection
<1>1. Quiet
  <2>1. \A e : Flying(e)' => Flying(e) BY <1>0 DEF Flying
  <2> QED BY <1>0, <2>1, ItemsLeft
<1>2. Typed' BY <1>0 DEF Typing, Typed
<1>3. Unsaved' BY <1>0 DEF Typing, Unsaved
<1> QED BY <1>1, <1>2, <1>3, QuietReads DEF Typing

\* What the steps of the tab's own requests start from.
LEMMA PostFacts ==
    ASSUME Typing
    PROVE  /\ request \in [Users -> Status] /\ Clicked(retry) /\ Clicked(NoRetry)
           /\ answer \in [Requests -> Answer] /\ NoAnswer \in Answer
           /\ chat \in Seq(Messages) /\ shifts \in Nat
           /\ known \in Seq(Messages)
           /\ local \in Seq(Users) /\ IsInjective(local)
           /\ fresh \in Nat /\ ToSet(local) \subseteq Users
           /\ ToSet(NoRetry.list) = {}
<1>1. <<>> \in Seq(Messages) /\ Len(<<>>) = 0 OBVIOUS
<1>2. NoAnswer \in Answer BY <1>1 DEF NoAnswer, Answer
<1>3. local \in Seq(Users) BY DEF Typing, Typed
<1>4. ToSet(local) \subseteq Users BY <1>3, SetIs
<1>5. Clicked(NoRetry) BY <1>1 DEF Clicked, NoRetry
<1>6. ToSet(NoRetry.list) = {} BY DEF NoRetry, ToSet
<1> QED BY <1>2, <1>3, <1>4, <1>5, <1>6 DEF Typing, Typed

\* What the tab remembers of requests stays true: a message that was not sent is
\* nowhere after the step either.
LEMMA PostedStays ==
    ASSUME Typing, UNCHANGED chat,
           \A m \in Mine : request'[m] = "none" =>
               /\ request[m] = "none"
               /\ m \in ToSet(local') => m \in ToSet(local)
               /\ m \in ToSet(known') => m \in ToSet(known) \union ToSet(retry.list) \union ToSet(chat)
               /\ m \in ToSet(retry'.list) => m \in ToSet(known) \union ToSet(retry.list)
    PROVE  Posted'
BY DEF Typing, Posted

LEMMA SendQuiet == ASSUME Typing, NEW m \in Mine, Send(m) PROVE Typing' /\ Quiet
<1>0. /\ UNCHANGED <<server, pending, answer, retry, recovery, connection, known, lastSeq, fresh, excuse>>
      /\ request[m] = "none" /\ request' = [request EXCEPT ![m] = "sent"] /\ local' = Append(local, m)
  BY DEF Send, history
<1>1. m \notin ToSet(known) /\ m \notin ToSet(local) BY <1>0 DEF Typing, Posted
<1>2. /\ local' \in Seq(Users) /\ IsInjective(local') /\ ToSet(local') = ToSet(local) \union {m}
  <2>1. m \in Users BY DEF Users
  <2> QED BY <1>0, <1>1, <2>1, PostFacts, AppendIs
<1>3. /\ request' \in [Users -> Status] /\ request'[m] = "sent" /\ chat' = chat
      /\ \A n \in Users : n # m => request'[n] = request[n]
  BY <1>0, PostFacts DEF Status, Users, server
<1>4. Posted' BY <1>0, <1>2, <1>3, PostedStays DEF Users
<1>5. OnScreen' BY <1>0, <1>1, <1>2, <1>3 DEF Typing, OnScreen
<1> QED BY <1>0, <1>2, <1>3, <1>4, <1>5, PostFacts, PostQuiet

LEMMA ResendQuiet == ASSUME Typing, Resend PROVE Typing' /\ Quiet
<1>0. /\ UNCHANGED <<server, pending, answer, retry, recovery, connection, known, local, lastSeq, fresh, excuse>>
      /\ request' = [m \in Users |-> IF m \in ToSet(local) THEN "sent" ELSE request[m]]
  BY DEF Resend, history, view
<1>1. /\ request' \in [Users -> Status] /\ chat' = chat
      /\ \A n \in Users : request'[n] \in {"sent", request[n]}
  BY <1>0, PostFacts DEF Status, server
<1>2. Posted' BY <1>0, <1>1, PostedStays DEF Users
<1>3. OnScreen' BY <1>0, <1>1 DEF Typing, OnScreen
<1> QED BY <1>0, <1>1, <1>2, <1>3, PostFacts, PostQuiet

LEMMA RetryQuiet == ASSUME Typing, NEW i \in DOMAIN known, Retry(i) PROVE Typing' /\ Quiet
<1>0. /\ UNCHANGED <<server, pending, request, answer, recovery, connection, known, local, lastSeq, fresh, excuse>>
      /\ known[i] \in Users /\ retry' = [place |-> i, list |-> known]
  BY DEF Retry, history, view
<1>1. Clicked(retry')
  <2>1. i \in 1..Len(known) /\ Len(known) \in Nat /\ known \in Seq(Messages) BY PostFacts, SetIs
  <2>2. i \in Nat /\ i <= Len(known) BY <2>1
  <2> QED BY <1>0, <2>1, <2>2 DEF Clicked
<1>2. retry'.list = known /\ chat' = chat BY <1>0 DEF server
<1>3. Posted' BY <1>0, <1>2, PostedStays
<1>4. OnScreen' BY <1>0, <1>2 DEF Typing, OnScreen
<1> QED BY <1>0, <1>1, <1>3, <1>4, PostFacts, PostQuiet

\* The message that is retried.
LEMMA ClickedIs ==
    ASSUME Typing, retry.place # 0
    PROVE  /\ retry.place \in Nat /\ retry.place \in 1..Len(retry.list) /\ retry.list \in Seq(Messages)
           /\ retry.list[retry.place] \in Users /\ retry.list[retry.place] \in ToSet(retry.list)
<1>1. Clicked(retry) BY PostFacts
<1>2. PICK l \in Seq(Messages), p \in Nat : l = retry.list /\ p = retry.place BY <1>1 DEF Clicked
<1>3. p \in 1..Len(l) /\ l[p] \in Users BY <1>1, <1>2, SetIs DEF Clicked
<1>4. l[p] \in ToSet(l) BY <1>3, SetIs
<1> QED BY <1>2, <1>3, <1>4

LEMMA AcceptedQuiet == ASSUME Typing, RetryAccepted PROVE Typing' /\ Quiet
<1>0. /\ UNCHANGED <<server, pending, answer, recovery, connection, known, local, lastSeq, fresh, excuse>>
      /\ retry.place # 0 /\ retry' = NoRetry
      /\ request' = [request EXCEPT ![retry.list[retry.place]] = "saved"]
  BY DEF RetryAccepted, history, view
<1>1. PICK m \in Users : m = retry.list[retry.place] BY <1>0, ClickedIs
<1>2. /\ request' \in [Users -> Status] /\ request'[m] = "saved" /\ chat' = chat
      /\ \A n \in Users : n # m => request'[n] = request[n]
  BY <1>0, <1>1, PostFacts DEF Status, server
<1>3. Clicked(retry') /\ ToSet(retry'.list) = {} BY <1>0, PostFacts
<1>4. Posted' BY <1>0, <1>2, <1>3, PostedStays DEF Users
<1>5. OnScreen' BY <1>0, <1>2, <1>3 DEF Typing, OnScreen
<1> QED BY <1>0, <1>2, <1>3, <1>4, <1>5, PostFacts, PostQuiet

LEMMA RefusedQuiet == ASSUME Typing, RetryRefused PROVE Typing' /\ Quiet
<1>0. /\ UNCHANGED <<server, pending, answer, recovery, connection, lastSeq, fresh>>
      /\ retry.place # 0 /\ retry' = NoRetry
      /\ known' = RemoveAt(retry.list, retry.place) /\ local' = <<retry.list[retry.place]>>
      /\ request' = [request EXCEPT ![retry.list[retry.place]] = "sent"]
      /\ excuse \subseteq excuse' /\ "replaced" \in excuse'
  BY DEF RetryRefused
<1>1. PICK m \in Users : m = retry.list[retry.place] BY <1>0, ClickedIs
<1>2. /\ request' \in [Users -> Status] /\ request'[m] = "sent" /\ chat' = chat
      /\ \A n \in Users : n # m => request'[n] = request[n]
  BY <1>0, <1>1, PostFacts DEF Status, server
<1>3. Clicked(retry') /\ ToSet(retry'.list) = {} BY <1>0, PostFacts
<1>4. known' \in Seq(Messages) /\ ToSet(known') \subseteq ToSet(retry.list)
  <2>0. PICK l \in Seq(Messages), n \in Nat : l = retry.list /\ n = Len(l) BY <1>0, ClickedIs, SetIs
  <2>1. PICK p \in 1..n : p = retry.place BY <1>0, <2>0, ClickedIs
  <2>2. PICK t : t = RemoveAt(l, p) OBVIOUS
  <2>3. t \in Seq(Messages) /\ ToSet(t) \subseteq ToSet(l) BY <2>0, <2>2, RemoveIs
  <2> QED BY <1>0, <2>0, <2>1, <2>2, <2>3
<1>5. local' \in Seq(Users) /\ IsInjective(local') /\ ToSet(local') = {m}
  <2>1. local' = <<m>> /\ <<m>> \in Seq(Users) /\ DOMAIN <<m>> = {1} /\ <<m>>[1] = m BY <1>0, <1>1
  <2> QED BY <2>1 DEF IsInjective, ToSet
<1>6. Posted' BY <1>2, <1>3, <1>4, <1>5, PostedStays DEF Users
<1>7. OnScreen' BY <1>0, <1>2, <1>3, <1>4 DEF Typing, OnScreen
<1> QED BY <1>0, <1>2, <1>3, <1>4, <1>5, <1>6, <1>7, PostFacts, PostQuiet

LEMMA TurnedAwayQuiet == ASSUME Typing, RetryTurnedAway PROVE Typing' /\ Quiet
<1>0. /\ UNCHANGED <<server, pending, request, answer, recovery, connection, lastSeq, fresh>>
      /\ retry.place # 0 /\ retry' = NoRetry
      /\ known' = retry.list /\ local' = <<>> /\ excuse \subseteq excuse'
  BY DEF RetryTurnedAway
<1>1. known' \in Seq(Messages) BY <1>0, ClickedIs
<1>2. Clicked(retry') /\ ToSet(retry'.list) = {} BY <1>0, PostFacts
<1>3. local' \in Seq(Users) /\ IsInjective(local') /\ ToSet(local') = {}
  <2>1. local' = <<>> /\ <<>> \in Seq(Users) /\ DOMAIN <<>> = {} BY <1>0
  <2> QED BY <2>1 DEF IsInjective, ToSet
<1>4. chat' = chat /\ ToSet(known') = ToSet(retry.list) BY <1>0 DEF server
<1>5. Posted' BY <1>0, <1>2, <1>3, <1>4, PostedStays
<1>6. OnScreen' BY <1>0, <1>2, <1>3, <1>4 DEF Typing, OnScreen
<1> QED BY <1>0, <1>1, <1>2, <1>3, <1>5, <1>6, PostFacts, PostQuiet

LEMMA FailsQuiet == ASSUME Typing, RetryFails PROVE Typing' /\ Quiet
<1>0. /\ UNCHANGED <<server, pending, request, answer, recovery, connection, known, local, lastSeq, fresh, excuse>>
      /\ retry' = NoRetry
  BY DEF RetryFails, history, view
<1>1. Clicked(retry') /\ ToSet(retry'.list) = {} /\ chat' = chat BY <1>0, PostFacts DEF server
<1>2. Posted' BY <1>0, <1>1, PostedStays
<1>3. OnScreen' BY <1>0, <1>1 DEF Typing, OnScreen
<1> QED BY <1>0, <1>1, <1>2, <1>3, PostFacts, PostQuiet

\* An answer that is written, and one the tab is done with.
LEMMA AnswerGiven ==
    ASSUME Typing, NEW r \in Requests, NEW a, a \in {NoAnswer, [list |-> chat, shifts |-> shifts]},
           answer' = [answer EXCEPT ![r] = a]
    PROVE  /\ answer' \in [Requests -> Answer] /\ answer'[r] = a
           /\ \A n \in Requests : answer'[n] \in {answer[n], NoAnswer, [list |-> chat, shifts |-> shifts]}
<1>1. a \in Answer BY PostFacts DEF Answer
<1>2. PICK A : A = Answer OBVIOUS
<1>3. answer \in [Requests -> A] /\ a \in A BY <1>1, <1>2, PostFacts
<1>4. /\ answer' \in [Requests -> A] /\ answer'[r] = a
      /\ \A n \in Requests : answer'[n] \in {answer[n], a}
  BY <1>3
<1> QED BY <1>2, <1>4

\* What was answered is saved.
LEMMA AnswerSaved ==
    ASSUME Typing, NEW r \in Requests
    PROVE  /\ answer[r].list \in Seq(Messages) /\ answer[r].shifts \in Nat
           /\ ToSet(answer[r].list) \subseteq ToSet(chat)
<1>1. answer[r] \in Answer BY PostFacts
<1>2. PICK l \in Seq(Messages) : l = answer[r].list BY <1>1 DEF Answer
<1>3. Len(l) \in Nat /\ \A x : x \in ToSet(l) <=> \E k \in 1..Len(l) : l[k] = x BY SetIs
<1>4. ASSUME NEW k \in 1..Len(l) PROVE l[k] \in ToSet(chat)
  <2>1. Item(k, l[k], answer[r].shifts) BY <1>2 DEF Item
  <2> QED BY <2>1 DEF Typing, Reads, Read
<1> QED BY <1>1, <1>2, <1>3, <1>4 DEF Answer

LEMMA RespondQuiet == ASSUME Typing, NEW m \in Users, Respond(m) PROVE Typing' /\ Quiet
<1>0. /\ UNCHANGED <<server, pending, request, retry, recovery, connection, known, local, lastSeq, fresh, excuse>>
      /\ answer' = [answer EXCEPT ![m] = [list |-> chat, shifts |-> shifts]]
  BY DEF Respond, history, view
<1>1. /\ answer' \in [Requests -> Answer]
      /\ \A n \in Requests : answer'[n] \in {answer[n], NoAnswer, [list |-> chat, shifts |-> shifts]}
  <2>1. m \in Requests BY DEF Requests
  <2> QED BY <1>0, <2>1, AnswerGiven
<1>2. Posted' /\ OnScreen' BY <1>0 DEF Typing, Posted, OnScreen, server
<1> QED BY <1>0, <1>1, <1>2, PostFacts, PostQuiet

LEMMA MergeQuiet == ASSUME Typing, NEW m \in Users, Merge(m) PROVE Typing' /\ Quiet
<1>0. /\ UNCHANGED <<server, pending, retry, recovery, connection, lastSeq>>
      /\ request' = [request EXCEPT ![m] = "over"]
      /\ known' = Longer(answer[m].list)
      /\ local' = OnTheirWay(ToSet(answer[m].list) \union ToSet(known))
      /\ answer' = [answer EXCEPT ![m] = NoAnswer]
      /\ IF Len(answer[m].list) >= Len(known) THEN Applied(answer[m].shifts) ELSE UNCHANGED history
  BY DEF Merge
<1>1. m \in Requests BY DEF Requests
<1>2. PICK l \in Seq(Messages), s \in Nat :
          l = answer[m].list /\ s = answer[m].shifts /\ ToSet(l) \subseteq ToSet(chat)
  BY <1>1, AnswerSaved
<1>3. known' \in {l, known} /\ known' \in Seq(Messages) BY <1>0, <1>2, PostFacts DEF Longer
<1>4. /\ local' \in Seq(Users) /\ IsInjective(local')
      /\ ToSet(local') = ToSet(local) \ (ToSet(l) \union ToSet(known))
  BY <1>0, <1>2, PostFacts, OnTheirWayIs
<1>5. fresh' \in Nat /\ excuse \subseteq excuse'
  <2>1. CASE Len(l) >= Len(known)
    <3>1. Applied(s) BY <1>0, <1>2, <2>1
    <3>2. fresh' = Max({fresh, s}) /\ excuse \subseteq excuse' BY <3>1 DEF Applied
    <3>3. fresh \in Nat BY PostFacts
    <3>4. Max({fresh, s}) \in Nat BY <3>3, MaxIs
    <3> QED BY <3>2, <3>4
  <2>2. CASE ~(Len(l) >= Len(known)) BY <1>0, <1>2, <2>2, PostFacts DEF history
  <2> QED BY <2>1, <2>2
<1>6. /\ request' \in [Users -> Status] /\ request'[m] = "over" /\ chat' = chat
      /\ \A n \in Users : n # m => request'[n] = request[n]
  BY <1>0, PostFacts DEF Status, server
<1>7. Posted' BY <1>0, <1>2, <1>3, <1>4, <1>6, PostedStays DEF Users
<1>8. OnScreen' BY <1>0, <1>2, <1>3, <1>4, <1>5, <1>6 DEF Typing, OnScreen
<1>9. /\ answer' \in [Requests -> Answer]
      /\ \A n \in Requests : answer'[n] \in {answer[n], NoAnswer, [list |-> chat, shifts |-> shifts]}
  BY <1>0, <1>1, AnswerGiven
<1> QED BY <1>0, <1>3, <1>4, <1>5, <1>6, <1>7, <1>8, <1>9, PostFacts, PostQuiet

LEMMA PrefixInChat ==
    ASSUME NEW s \in Seq(Messages), NEW t \in Seq(Messages), IsPrefix(s, t)
    PROVE  ToSet(s) \subseteq ToSet(t)
<1>1. Len(s) \in Nat /\ DOMAIN s = 1..Len(s) /\ Len(t) \in Nat /\ DOMAIN t = 1..Len(t) BY LenProperties
<1>2. \A k \in 1..Len(s) : k \in 1..Len(t) /\ s[k] = t[k] BY <1>1 DEF IsPrefix
<1> QED BY <1>1, <1>2 DEF ToSet

LEMMA ReplyFailsQuiet == ASSUME Typing, NEW m \in Users, ReplyFails(m) PROVE Typing' /\ Quiet
<1>0. /\ UNCHANGED <<server, pending, answer, retry, recovery, connection, lastSeq, fresh>>
      /\ request' = [request EXCEPT ![m] = "over"]
      /\ local' = OnTheirWay({m})
      /\ known' = IF m \in ToSet(local) THEN Append(known, m) ELSE known
      /\ excuse \subseteq excuse'
      /\ m \in ToSet(local) /\ ~IsPrefix(known', chat) => "guessed" \in excuse'
  BY DEF ReplyFails
<1>1. m \in Messages /\ chat \in Seq(Messages) BY PostFacts DEF Messages
<1>2. known' \in Seq(Messages) /\ ToSet(known') \subseteq ToSet(known) \union {m}
      /\ (m \notin ToSet(local) => known' = known)
  <2>1. CASE m \in ToSet(local)
    <3>1. Append(known, m) \in Seq(Messages) /\ ToSet(Append(known, m)) = ToSet(known) \union {m}
      BY <1>1, PostFacts, AppendIs
    <3> QED BY <1>0, <2>1, <3>1
  <2>2. CASE m \notin ToSet(local) BY <1>0, <2>2, PostFacts
  <2> QED BY <2>1, <2>2
<1>3. local' \in Seq(Users) /\ IsInjective(local') /\ ToSet(local') = ToSet(local) \ {m}
  BY <1>0, PostFacts, OnTheirWayIs
<1>4. /\ request' \in [Users -> Status] /\ request'[m] = "over" /\ chat' = chat
      /\ \A n \in Users : n # m => request'[n] = request[n]
  BY <1>0, PostFacts DEF Status, server
<1>5. m \in ToSet(local) /\ "guessed" \notin excuse' => ToSet(known') \subseteq ToSet(chat)
  <2>1. m \in ToSet(local) /\ "guessed" \notin excuse' => IsPrefix(known', chat) BY <1>0
  <2>2. PICK k \in Seq(Messages) : k = known' BY <1>2
  <2>3. IsPrefix(k, chat) => ToSet(k) \subseteq ToSet(chat) BY <1>1, PrefixInChat
  <2> QED BY <2>1, <2>2, <2>3
<1>6. Posted'
  <2>1. \A n \in Mine : n \in ToSet(known') => n \in ToSet(known) \/ n = m BY <1>2
  <2> QED BY <1>0, <1>3, <1>4, <2>1, PostedStays DEF Users
<1>7. OnScreen' BY <1>0, <1>2, <1>3, <1>4, <1>5 DEF Typing, OnScreen
<1> QED BY <1>0, <1>2, <1>3, <1>4, <1>6, <1>7, PostFacts, PostQuiet

LEMMA NoReplyQuiet == ASSUME Typing, NEW m \in Users, NoReply(m) PROVE Typing' /\ Quiet
<1>0. /\ UNCHANGED <<server, pending, retry, recovery, connection, known, local, lastSeq, fresh, excuse>>
      /\ request' = [request EXCEPT ![m] = "over"] /\ answer' = [answer EXCEPT ![m] = NoAnswer]
  BY DEF NoReply, history, view
<1>1. /\ request' \in [Users -> Status] /\ request'[m] = "over" /\ chat' = chat
      /\ \A n \in Users : n # m => request'[n] = request[n]
  BY <1>0, PostFacts DEF Status, server
<1>2. Posted' BY <1>0, <1>1, PostedStays DEF Users
<1>3. OnScreen' BY <1>0, <1>1 DEF Typing, OnScreen
<1>4. /\ answer' \in [Requests -> Answer]
      /\ \A n \in Requests : answer'[n] \in {answer[n], NoAnswer, [list |-> chat, shifts |-> shifts]}
  <2>1. m \in Requests BY DEF Requests
  <2> QED BY <1>0, <2>1, AnswerGiven
<1> QED BY <1>0, <1>1, <1>2, <1>3, <1>4, PostFacts, PostQuiet

LEMMA RejectQuiet == ASSUME Typing, NEW m \in Users, Reject(m) PROVE Typing' /\ Quiet
<1>0. /\ UNCHANGED <<server, pending, answer, retry, recovery, connection, known, lastSeq, fresh, excuse>>
      /\ request' = [request EXCEPT ![m] = "rejected"] /\ local' = OnTheirWay({m})
  BY DEF Reject, history
<1>1. local' \in Seq(Users) /\ IsInjective(local') /\ ToSet(local') = ToSet(local) \ {m}
  BY <1>0, PostFacts, OnTheirWayIs
<1>2. /\ request' \in [Users -> Status] /\ request'[m] = "rejected" /\ chat' = chat
      /\ \A n \in Users : n # m => request'[n] = request[n]
  BY <1>0, PostFacts DEF Status, server
<1>3. Posted' BY <1>0, <1>1, <1>2, PostedStays DEF Users
<1>4. OnScreen' BY <1>0, <1>1, <1>2 DEF Typing, OnScreen
<1> QED BY <1>0, <1>1, <1>2, <1>3, <1>4, PostFacts, PostQuiet

LEMMA SettingsQuiet ==
    ASSUME Typing, ChangeSettings \/ ShowSettings \/ SettingsLost PROVE Typing' /\ Quiet
<1>0. /\ UNCHANGED <<server, pending, request, retry, recovery, connection, lastSeq>>
      /\ Settings \in Requests /\ chat' = chat /\ excuse \subseteq excuse'
  BY DEF ChangeSettings, ShowSettings, SettingsLost, view, history, server, Requests
<1>1. PICK a : a \in {NoAnswer, [list |-> chat, shifts |-> shifts]}
               /\ answer' = [answer EXCEPT ![Settings] = a]
  BY DEF ChangeSettings, ShowSettings, SettingsLost
<1>2. /\ answer' \in [Requests -> Answer]
      /\ \A n \in Requests : answer'[n] \in {answer[n], NoAnswer, [list |-> chat, shifts |-> shifts]}
  BY <1>0, <1>1, AnswerGiven
<1>3. CASE ShowSettings
  <2>1. PICK l \in Seq(Messages), s \in Nat :
            l = answer[Settings].list /\ s = answer[Settings].shifts /\ ToSet(l) \subseteq ToSet(chat)
    BY <1>0, AnswerSaved
  <2>2. known' = l /\ local' = <<>> /\ fresh' = Max({fresh, s}) BY <1>3, <2>1 DEF ShowSettings
  <2>3. fresh' \in Nat BY <2>2, PostFacts, MaxIs
  <2>4. local' \in Seq(Users) /\ IsInjective(local') /\ ToSet(local') = {}
    <3>1. <<>> \in Seq(Users) /\ DOMAIN <<>> = {} OBVIOUS
    <3> QED BY <2>2, <3>1 DEF IsInjective, ToSet
  <2>5. Posted' BY <1>0, <2>1, <2>2, <2>4, PostedStays
  <2>6. OnScreen' BY <1>0, <2>1, <2>2, <2>4 DEF Typing, OnScreen
  <2> QED BY <1>0, <1>2, <2>2, <2>3, <2>4, <2>5, <2>6, PostFacts, PostQuiet
<1>4. CASE ChangeSettings \/ SettingsLost
  <2>1. UNCHANGED <<known, local, fresh, excuse>> BY <1>4 DEF ChangeSettings, SettingsLost, view, history
  <2>2. Posted' /\ OnScreen' BY <1>0, <2>1 DEF Typing, Posted, OnScreen
  <2> QED BY <1>0, <1>2, <2>1, <2>2, PostFacts, PostQuiet
<1> QED BY <1>3, <1>4

LEMMA ArriveGrows ==
    ASSUME Typing, NEW m \in Elsewhere \union Nudges, Arrive(m)
    PROVE  Typing' /\ Grows(m, Len(chat) + 1)
<1>0. /\ m \in Messages /\ m \notin ToSet(chat) /\ SaveAtEnd(m)
      /\ UNCHANGED <<request, answer, retry, recovery, connection, view, history>>
  BY DEF Arrive, posting, Messages, Users, Omis
<1>1. m \notin Mine BY LiveChatAssumption DEF Omis
<1>2. Grows(m, Len(chat) + 1) BY <1>0, SavedGrows
<1>3. draft' = draft BY <1>0 DEF SaveAtEnd
<1>4. \A n \in Mine : request'[n] = "none" => request[n] = "none" /\ n # m BY <1>0, <1>1
<1> QED BY <1>0, <1>2, <1>3, <1>4, GrownTyping DEF Typing, Typed

\* A saved message: it was saved already, or the chat grows at its end.
LEMMA SaveTyping ==
    ASSUME Typing, NEW m \in Users, Save(m)
    PROVE  /\ Typing'
           /\ \/ Quiet /\ UNCHANGED <<pending, answer, retry, recovery, connection, view, history>>
              \/ Grows(m, Len(chat) + 1)
           /\ \A n \in Users : request[n] \in {"none", "rejected"} <=> request'[n] \in {"none", "rejected"}
<1>0. /\ request[m] \in {"sent", "over"}
      /\ request' = [request EXCEPT ![m] = IF @ = "sent" THEN "saved" ELSE @]
      /\ UNCHANGED <<answer, retry, recovery, connection, view, history>>
      /\ m \in Messages
  BY DEF Save, Messages
<1>1. /\ request' \in [Users -> Status]
      /\ request'[m] \in {"saved", "over"}
      /\ \A n \in Users : n # m => request'[n] = request[n]
  BY <1>0, PostFacts DEF Status
<1>2. \A n \in Users : request[n] \in {"none", "rejected"} <=> request'[n] \in {"none", "rejected"}
  BY <1>0, <1>1
<1>3. CASE m \in ToSet(chat)
  <2>1. UNCHANGED <<server, pending>> BY <1>3 DEF Save
  <2>2. UNCHANGED <<chat, known, local, lastSeq, fresh, excuse>> BY <1>0, <2>1 DEF view, history, server
  <2>3. Posted' BY <1>0, <1>1, <2>2, PostedStays DEF Users
  <2>4. OnScreen' BY <1>0, <2>2 DEF Typing, OnScreen
  <2>5. Typing' /\ Quiet BY <1>0, <1>1, <2>1, <2>2, <2>3, <2>4, PostFacts, PostQuiet
  <2> QED BY <1>0, <1>2, <2>1, <2>5
<1>4. CASE m \notin ToSet(chat)
  <2>1. SaveAtEnd(m) BY <1>4 DEF Save
  <2>2. Grows(m, Len(chat) + 1) BY <1>0, <1>4, <2>1, SavedGrows
  <2>3. draft' = draft BY <2>1 DEF SaveAtEnd
  <2>4. \A n \in Mine : request'[n] = "none" => request[n] = "none" /\ n # m BY <1>0, <1>1 DEF Users
  <2>5. Typing' BY <1>1, <2>2, <2>3, <2>4, GrownTyping
  <2> QED BY <1>2, <2>2, <2>5
<1> QED BY <1>3, <1>4

LEMMA CommitTyping ==
    ASSUME Typing, NEW r \in Replies, Commit(r)
    PROVE  Typing' /\ \E q \in 1..Len(chat) + 1 : Grows(r, q)
<1>1. PICK q \in 1..Len(chat) + 1 : Grows(r, q) BY CommitGrows
<1>2. request' = request /\ draft' = NoDraft BY DEF Commit, posting
<1>3. r \notin Mine BY LiveChatAssumption DEF Omis
<1>4. \A n \in Mine : request'[n] = "none" => request[n] = "none" /\ n # r BY <1>2, <1>3
<1>5. Typing' BY <1>1, <1>2, <1>4, GrownTyping DEF Typing, Typed
<1> QED BY <1>1, <1>5

LEMMA TypingInit == ASSUME ChatInit PROVE Typing
<1>1. <<>> \in Seq(Messages) /\ <<>> \in Seq(Event) /\ <<>> \in Seq(Users) /\ Len(<<>>) = 0 OBVIOUS
<1>2. ToSet(<<>>) = {} /\ IsInjective(<<>>) BY DEF ToSet, IsInjective
<1>3. NoAnswer \in Answer /\ NoAnswer.list = <<>> BY <1>1 DEF NoAnswer, Answer
<1>4. /\ chat = <<>> /\ draft = NoDraft /\ shifts = 0 /\ pending = [m \in Messages |-> <<>>]
      /\ request = [m \in Users |-> IF m \in Mine THEN "none" ELSE "over"]
      /\ answer = [r \in Requests |-> NoAnswer] /\ retry = NoRetry
      /\ recovery = Idle /\ conn = "down" /\ connected = FALSE
      /\ known = <<>> /\ local = <<>> /\ lastSeq = 0 /\ fresh = 0
  BY DEF ChatInit
<1>5. IsFiniteSet(ToSet(chat)) BY <1>2, <1>4, FS_EmptySet
<1>6. shifts <= Cardinality(Replies \intersect ToSet(chat))
  <2>1. Replies \intersect ToSet(chat) = {} BY <1>2, <1>4
  <2>2. Cardinality(Replies \intersect ToSet(chat)) = 0 BY <2>1, FS_EmptySet
  <2> QED BY <1>4, <2>2
<1>7. answer \in [Requests -> Answer]
  <2>1. PICK a \in Answer : a = NoAnswer BY <1>3
  <2> QED BY <1>4, <2>1
<1>8. Typed
  <2>1. pending \in [Messages -> Seq(Event)] BY <1>1, <1>4
  <2>2. recovery \in Recovery /\ recovery.after <= Len(chat) BY <1>1, <1>4, IdleIs
  <2>3. /\ chat \in Seq(Messages) /\ IsInjective(chat) /\ draft = NoDraft /\ shifts \in Nat
        /\ known \in Seq(Messages)
    BY <1>1, <1>2, <1>4
  <2>4. /\ local \in Seq(Users) /\ IsInjective(local)
        /\ lastSeq \in Nat /\ lastSeq <= Len(chat) /\ fresh \in Nat
    BY <1>1, <1>2, <1>4
  <2>5. /\ request \in [Users -> Status]
        /\ conn \in {"down", "open", "joined"} /\ connected \in BOOLEAN
    BY <1>4 DEF Status
  <2>6. Clicked(retry)
    <3>1. <<>> \in Seq(Messages) /\ Len(<<>>) = 0 OBVIOUS
    <3> QED BY <1>4, <3>1 DEF Clicked, NoRetry
  <2> HIDE <1>4
  <2> QED BY <1>5, <1>6, <1>7, <2>1, <2>2, <2>3, <2>4, <2>5, <2>6 DEF Typed
<1>9. OnScreen /\ Posted /\ Unsaved
  <2>1. retry.list = <<>> BY <1>4 DEF NoRetry
  <2> QED BY <1>2, <1>4, <2>1 DEF OnScreen, Posted, Unsaved
<1>10. Reads
  <2>1. \A e : ~Flying(e) BY <1>2, <1>4 DEF Flying
  <2>2. \A r \in Requests : Len(answer[r].list) = 0 BY <1>1, <1>3, <1>4
  <2>3. recovery.step # "answered" BY <1>4, IdleIs
  <2>4. \A p, x, u : ~Item(p, x, u) BY <2>1, <2>2, <2>3 DEF Item
  <2> QED BY <2>4 DEF Reads
<1> QED BY <1>8, <1>9, <1>10 DEF Typing

LEMMA TypingStep == ASSUME Typing, [ChatNext]_chatVars PROVE Typing'
<1>1. CASE UNCHANGED chatVars
  <2>1. UNCHANGED <<chat, draft, shifts, pending, request, answer, retry, recovery, conn, connected,
                    known, local, lastSeq, fresh, excuse>>
    BY <1>1 DEF chatVars, server, posting, connection, view, history
  <2>2. Typed' BY <2>1 DEF Typing, Typed
  <2>3. OnScreen' /\ Posted' /\ Unsaved' BY <2>1 DEF Typing, OnScreen, Posted, Unsaved
  <2>4. Quiet
    <3>1. \A e : Flying(e)' => Flying(e) BY <2>1 DEF Flying
    <3>2. \A r \in Requests : answer'[r] = answer[r] BY <2>1
    <3> QED BY <2>1, <3>1, <3>2, ItemsLeft
  <2> QED BY <2>2, <2>3, <2>4, QuietReads DEF Typing
<1>2. CASE \E m \in Elsewhere \union Nudges : Arrive(m) BY <1>2, ArriveGrows
<1>3. CASE Draft BY <1>3, DraftQuiet
<1>4. CASE \E r \in Replies : Commit(r) BY <1>4, CommitTyping
<1>5. CASE \E m \in Messages : Push(m) \/ Lose(m) BY <1>5, PushQuiet, LoseQuiet
<1>6. CASE ServeRecovery \/ Recover BY <1>6, ServeQuiet, RecoverQuiet
<1>7. CASE RecoveryFails \/ Connect \/ Join \/ Close BY <1>7, LinkSteps
<1>8. CASE \E m \in Mine : Send(m) BY <1>8, SendQuiet
<1>9. CASE \E m \in Users : Save(m) \/ Respond(m) \/ Merge(m) \/ ReplyFails(m) \/ NoReply(m) \/ Reject(m)
  BY <1>9, SaveTyping, RespondQuiet, MergeQuiet, ReplyFailsQuiet, NoReplyQuiet, RejectQuiet
<1>10. CASE Resend \/ \E i \in DOMAIN known : Retry(i) BY <1>10, ResendQuiet, RetryQuiet
<1>11. CASE RetryAccepted \/ RetryRefused \/ RetryTurnedAway \/ RetryFails
  BY <1>11, AcceptedQuiet, RefusedQuiet, TurnedAwayQuiet, FailsQuiet
<1>12. CASE ChangeSettings \/ ShowSettings \/ SettingsLost BY <1>12, SettingsQuiet
<1> QED BY <1>1, <1>2, <1>3, <1>4, <1>5, <1>6, <1>7, <1>8, <1>9, <1>10, <1>11, <1>12 DEF ChatNext

LEMMA TypesHold == ChatSpec => []Typing
<1>1. ChatInit => Typing BY TypingInit
<1>2. Typing /\ [ChatNext]_chatVars => Typing' BY TypingStep
<1> QED BY <1>1, <1>2, PTL DEF ChatSpec

\* The stored chat, the tab's list and what is on its way stay what they should
\* be: nothing is twice in the chat or among the bubbles, what the tab is sent is
\* in the chat, and so is what it shows unless a failed reply was guessed at; no
\* bubble shows what the list has unless an older list was put back.
THEOREM ChatTypeCorrect == ChatSpec => []ChatTypeOK
<1>1. ASSUME Typing PROVE ChatTypeOK
  <2>1. Typed /\ Reads BY <1>1 DEF Typing
  <2>2. ASSUME NEW m \in Messages, NEW e \in ToSet(pending[m])
        PROVE  e.place \in 1..Len(chat) /\ e.message \in ToSet(chat)
    <3>1. e \in Event
      <4>1. pending[m] \in Seq(Event) BY <2>1 DEF Typed
      <4> QED BY <4>1, SetIs
    <3>2. Item(e.place, e.message, e.shifts) BY <3>1 DEF Item, Flying
    <3> QED BY <2>1, <3>2 DEF Reads, Read
  <2>3. \A r \in Requests : ToSet(answer[r].list) \subseteq ToSet(chat) BY <1>1, AnswerSaved
  <2>4. shifts \in 0..Cardinality(Replies \intersect ToSet(chat))
    <3>1. IsFiniteSet(Replies \intersect ToSet(chat)) BY <2>1, FS_Subset DEF Typed
    <3>2. Cardinality(Replies \intersect ToSet(chat)) \in Nat BY <3>1, FS_CardinalityType
    <3>3. shifts \in Nat /\ shifts <= Cardinality(Replies \intersect ToSet(chat)) BY <2>1 DEF Typed
    <3> QED BY <3>2, <3>3
  <2>5. ToSet(local) \subseteq Users /\ lastSeq \in 0..Len(chat) /\ draft \in ToSet(chat) \union {NoDraft}
    <3>1. local \in Seq(Users) /\ chat \in Seq(Messages) BY <2>1 DEF Typed
    <3>2. ToSet(local) \subseteq Users /\ Len(chat) \in Nat BY <3>1, SetIs
    <3>3. lastSeq \in Nat /\ lastSeq <= Len(chat) /\ (draft = NoDraft \/ draft \in ToSet(chat)) BY <2>1 DEF Typed
    <3> QED BY <3>2, <3>3
  <2>6. recovery.step \in {"idle", "asked", "answered"} BY <2>1 DEF Typed, Recovery
  <2>7. /\ chat \in Seq(Messages) /\ IsInjective(chat) /\ IsInjective(local)
        /\ request \in [Users -> {"none", "sent", "saved", "over", "rejected"}]
        /\ conn \in {"down", "open", "joined"} /\ connected \in BOOLEAN
    BY <2>1 DEF Typed, Status
  <2>8. /\ "guessed" \notin excuse => ToSet(known) \subseteq ToSet(chat)
        /\ "replaced" \notin excuse => ToSet(local) \intersect ToSet(known) = {}
    BY <1>1 DEF Typing, OnScreen
  <2>9. retry.place \in 0..Len(retry.list)
    <3>1. PICK l \in Seq(Messages), p \in Nat : l = retry.list /\ p = retry.place /\ p <= Len(l)
      BY <1>1, PostFacts DEF Clicked
    <3>2. Len(l) \in Nat BY SetIs
    <3> QED BY <3>1, <3>2
  <2> QED BY <2>2, <2>3, <2>4, <2>5, <2>6, <2>7, <2>8, <2>9 DEF ChatTypeOK
<1> QED BY <1>1, TypesHold, PTL

-----------------------------------------------------------------------------
(* The inductive invariant: what will set the tab's list right.            *)

\* An event of a moved message that says what is at place p, newer than u.
Sent(p, u) ==
    \E e \in Event : Flying(e) /\ e.moved /\ e.place = p /\ e.message = chat[p] /\ e.shifts > u

\* A recovery asked for will bring place p.
Asked(p) == recovery.step = "asked" /\ recovery.after < p

\* An answered one brings it, newer than u.
Answered(p, u) ==
    /\ recovery.step = "answered" /\ recovery.shifts > u
    /\ recovery.after < p /\ p <= recovery.after + Len(recovery.tail)
    /\ recovery.tail[p - recovery.after] = chat[p]

Cure(p, u) == Sent(p, u) \/ Asked(p) \/ Answered(p, u)

Shown(p) == p <= Len(known) /\ known[p] = chat[p]

Covered(p) == Shown(p) \/ Cure(p, -1)

\* x is on screen where it belongs, or will be.
Safe(x) == \E j \in 1..Len(chat) : chat[j] = x /\ Covered(j)

\* Applying x at place p does no harm that is not undone: it belongs there, or
\* the tab has seen a newer list, or a newer list has yet to reach this place.
Fit(p, x, u) == chat[p] = x \/ (Safe(x) /\ (fresh > u \/ Cure(p, u)))

Fits == \A p, x, u : Item(p, x, u) => Fit(p, x, u)

\* What the tab shows in the wrong place is set right, and is not lost by it.
KnownIn ==
    /\ Len(known) <= Len(chat)
    /\ \A p \in 1..Len(known) : Covered(p) /\ Safe(known[p])

Own == \A m \in Mine : request[m] \notin {"none", "rejected"} => m \in ToSet(local) \/ Safe(m)

\* What the tab has counted it shows, or a recovery under way will bring it.
Gap ==
    /\ recovery.step = "idle" => lastSeq <= Len(known)
    /\ recovery.step # "idle" => recovery.after <= Len(known)
    /\ recovery.step = "answered" =>
          lastSeq <= Len(known) \/ lastSeq <= recovery.after + Len(recovery.tail)

\* The message that is retried is on screen where it belongs, or will be.
Held == retry.place # 0 => Safe(retry.list[retry.place])

Kept == Fits /\ KnownIn /\ Own /\ Gap /\ Held

ListInv == Typing /\ (excuse = {} => Kept)

-----------------------------------------------------------------------------
(* What a step keeps.                                                      *)

CuresStay ==
    \A p \in 1..Len(chat) : \A u \in Int :
        u < shifts /\ Cure(p, u) => Cure(p, u)' \/ (Shown(p)' /\ fresh' > u)

ShownStays == \A p \in 1..Len(chat) : Shown(p) => Covered(p)'

LEMMA CureWeakens ==
    ASSUME Typing, NEW p, NEW u \in Int, NEW w \in Int, w <= u, Cure(p, u)
    PROVE  Cure(p, w)
<1>1. CASE Sent(p, u)
  <2>1. PICK e \in Event : Flying(e) /\ e.moved /\ e.place = p /\ e.message = chat[p] /\ e.shifts > u
    BY <1>1 DEF Sent
  <2>2. e.shifts \in Nat BY DEF Event
  <2>3. e.shifts > w BY <2>1, <2>2
  <2> QED BY <2>1, <2>3 DEF Sent, Cure
<1>2. CASE Asked(p) BY <1>2 DEF Cure
<1>3. CASE Answered(p, u)
  <2>1. recovery.shifts \in Nat BY DEF Typing, Typed, Recovery
  <2>2. recovery.shifts > u BY <1>3 DEF Answered
  <2>3. recovery.shifts > w BY <2>1, <2>2
  <2> QED BY <1>3, <2>3 DEF Answered, Cure
<1> QED BY <1>1, <1>2, <1>3 DEF Cure

\* What was read before the last shift and does not belong is harmless, or cured.
LEMMA Misplaced ==
    ASSUME Typing, Fits, NEW p, NEW x, NEW u, Item(p, x, u), chat[p] # x
    PROVE  /\ Safe(x) /\ p \in 1..Len(chat) /\ u \in Nat /\ u < shifts
           /\ fresh > u \/ (Cure(p, u) /\ Covered(p))
<1>1. Read(p, x, u) /\ Fit(p, x, u) BY DEF Typing, Reads, Fits
<1>2. p \in 1..Len(chat) /\ u \in Nat /\ u < shifts
  <2>1. u \in Nat /\ u <= shifts /\ u # shifts /\ shifts \in Nat BY <1>1 DEF Read, Typing, Typed
  <2> QED BY <1>1, <2>1 DEF Read
<1>3. Cure(p, u) => Covered(p)
  <2>1. u \in Int /\ -1 \in Int /\ -1 <= u BY <1>2
  <2> QED BY <2>1, CureWeakens DEF Covered
<1> QED BY <1>1, <1>2, <1>3 DEF Fit

LEMMA Carry ==
    ASSUME Typing, Quiet, CuresStay, ShownStays, fresh' \in Nat, fresh' >= fresh
    PROVE  /\ \A p \in 1..Len(chat) : Covered(p) => Covered(p)'
           /\ \A x : Safe(x) => Safe(x)'
           /\ Fits => Fits'
<1>0. chat' = chat /\ shifts' = shifts /\ shifts \in Nat /\ fresh \in Nat BY DEF Quiet, Typing, Typed
<1>1. ASSUME NEW p \in 1..Len(chat), Covered(p) PROVE Covered(p)'
  <2>1. CASE Shown(p) BY <2>1 DEF ShownStays
  <2>2. CASE Cure(p, -1)
    <3>1. -1 \in Int /\ -1 < shifts BY <1>0
    <3>2. Cure(p, -1)' \/ Shown(p)' BY <2>2, <3>1 DEF CuresStay
    <3> QED BY <3>2 DEF Covered
  <2> QED BY <1>1, <2>1, <2>2 DEF Covered
<1>2. ASSUME NEW x, Safe(x) PROVE Safe(x)'
  <2>1. PICK j \in 1..Len(chat) : chat[j] = x /\ Covered(j) BY <1>2 DEF Safe
  <2>2. j \in 1..Len(chat') /\ chat'[j] = x /\ Covered(j)' BY <1>0, <1>1, <2>1
  <2> QED BY <2>2 DEF Safe
<1>3. ASSUME Fits, NEW p, NEW x, NEW u, Item(p, x, u)' PROVE Fit(p, x, u)'
  <2>1. CASE p \in 1..Len(chat') /\ x = chat'[p] /\ u = shifts' BY <2>1 DEF Fit
  <2>2. CASE chat[p] = x BY <1>0, <2>2 DEF Fit
  <2>3. CASE Item(p, x, u) /\ chat[p] # x
    <3>1. /\ Safe(x) /\ p \in 1..Len(chat) /\ u \in Nat /\ u < shifts
          /\ fresh > u \/ Cure(p, u)
      BY <1>3, <2>3, Misplaced
    <3>2. Safe(x)' BY <1>2, <3>1
    <3>3. fresh' > u \/ Cure(p, u)'
      <4>1. CASE fresh > u BY <1>0, <3>1, <4>1
      <4>2. CASE Cure(p, u)
        <5>1. u \in Int BY <3>1
        <5> QED BY <3>1, <4>2, <5>1 DEF CuresStay
      <4> QED BY <3>1, <4>1, <4>2
    <3> QED BY <3>2, <3>3 DEF Fit
  <2> QED BY <1>3, <2>1, <2>2, <2>3 DEF Quiet, NewItems
<1>4. Fits => Fits' BY <1>3 DEF Fits
<1> QED BY <1>1, <1>2, <1>4

LEMMA HeldStays ==
    ASSUME Held, \A x : Safe(x) => Safe(x)', retry' \in {retry, NoRetry}
    PROVE  Held'
<1>1. CASE retry' = NoRetry BY <1>1 DEF Held, NoRetry
<1>2. CASE retry' = retry
  <2>1. PICK x : x = retry.list[retry.place] OBVIOUS
  <2>2. retry.place # 0 => Safe(x)' BY <2>1 DEF Held
  <2> QED BY <1>2, <2>1, <2>2 DEF Held, Safe
<1> QED BY <1>1, <1>2

\* A bubble that leaves is on screen or will be.
LEMMA OwnCarry ==
    ASSUME Own, KnownIn', \A x : Safe(x) => Safe(x)', known' \in Seq(Messages),
           \A m \in Mine : m \in ToSet(local) => m \in ToSet(local') \/ m \in ToSet(known') \/ Safe(m)',
           \A m \in Mine : request'[m] \notin {"none", "rejected"} =>
                              request[m] \notin {"none", "rejected"} \/ m \in ToSet(local')
    PROVE  Own'
<1> SUFFICES ASSUME NEW m \in Mine, request'[m] \notin {"none", "rejected"}
             PROVE  m \in ToSet(local') \/ Safe(m)'
  BY DEF Own
<1>1. m \in ToSet(known') => Safe(m)'
  <2>1. \A x : x \in ToSet(known') <=> \E k \in 1..Len(known') : known'[k] = x BY SetIs
  <2> QED BY <2>1 DEF KnownIn
<1> QED BY <1>1 DEF Own

\* The cures of a step that takes no event of a moved message.
LEMMA CuresLeft ==
    ASSUME chat' = chat, \A e \in Event : Flying(e) /\ e.moved => Flying(e)',
           recovery' = recovery \/ recovery.step = "idle"
    PROVE  CuresStay
<1>1. ASSUME NEW p, NEW u, Sent(p, u) PROVE Sent(p, u)' BY <1>1 DEF Sent
<1>2. ASSUME NEW p, NEW u, Asked(p) \/ Answered(p, u) PROVE (Asked(p) \/ Answered(p, u))'
  BY <1>2 DEF Asked, Answered
<1> QED BY <1>1, <1>2 DEF CuresStay, Cure

\* The cures and the list are as they were.
LEMMA ListLeft ==
    ASSUME Typing, Quiet, Kept, known' = known, fresh' = fresh, CuresStay
    PROVE  /\ Fits' /\ KnownIn' /\ \A x : Safe(x) => Safe(x)'
<1>0. /\ chat' = chat /\ fresh \in Nat /\ known \in Seq(Messages) /\ Len(known) \in Nat
      /\ Len(known) <= Len(chat) /\ Len(chat) \in Nat
  BY LenProperties DEF Quiet, Typing, Typed, Kept, KnownIn
<1>1. ShownStays BY <1>0 DEF ShownStays, Shown, Covered
<1>2. /\ \A p \in 1..Len(chat) : Covered(p) => Covered(p)'
      /\ \A x : Safe(x) => Safe(x)'
      /\ Fits'
  <2>1. fresh' \in Nat /\ fresh' >= fresh BY <1>0
  <2> QED BY <1>1, <2>1, Carry DEF Kept
<1>3. KnownIn'
  <2>1. \A p \in 1..Len(known) : p \in 1..Len(chat) BY <1>0
  <2> QED BY <1>0, <1>2, <2>1 DEF Kept, KnownIn
<1> QED BY <1>2, <1>3

\* Steps that leave the list, what has been counted and the recovery alone.
LEMMA AsideKeeps ==
    ASSUME Typing, Typing', Quiet, Kept, UNCHANGED <<known, lastSeq, recovery, fresh>>,
           \A e \in Event : Flying(e) /\ e.moved => Flying(e)',
           \A m \in Mine : m \in ToSet(local) => m \in ToSet(local') \/ request'[m] \in {"none", "rejected"},
           \A m \in Mine : request'[m] \notin {"none", "rejected"} =>
                              request[m] \notin {"none", "rejected"} \/ m \in ToSet(local') \/ Safe(m),
           retry' \in {retry, NoRetry} \/ \E i \in DOMAIN known : retry' = [place |-> i, list |-> known]
    PROVE  Kept'
<1>1. CuresStay BY CuresLeft DEF Quiet
<1>2. Fits' /\ KnownIn' /\ \A x : Safe(x) => Safe(x)' BY <1>1, ListLeft
<1>3. Own' BY <1>2 DEF Own, Kept
<1>4. Gap' BY DEF Gap, Kept
<1>5. Held'
  <2>1. CASE retry' \in {retry, NoRetry} BY <1>2, <2>1, HeldStays DEF Kept
  <2>2. ASSUME NEW i \in DOMAIN known, retry' = [place |-> i, list |-> known] PROVE Held'
    <3>1. i \in 1..Len(known) BY PostFacts, SetIs
    <3>2. PICK x : x = known[i] OBVIOUS
    <3>3. Safe(x)' BY <1>2, <3>1, <3>2 DEF Kept, KnownIn
    <3>4. retry'.list[retry'.place] = x BY <2>2, <3>2
    <3> QED BY <3>3, <3>4 DEF Held, Safe
  <2> QED BY <2>1, <2>2
<1> QED BY <1>2, <1>3, <1>4, <1>5 DEF Kept

LEMMA AsideSteps ==
    ASSUME Typing, Typing', Quiet, Kept, excuse' = {},
           \/ UNCHANGED chatVars \/ Draft \/ Join \/ Close
           \/ \E m \in Mine : Send(m)
           \/ \E m \in Users : Respond(m) \/ NoReply(m) \/ Reject(m)
           \/ ChangeSettings \/ SettingsLost
    PROVE  Kept'
<1>0. /\ request \in [Users -> Status] /\ local \in Seq(Users) /\ IsInjective(local)
  BY PostFacts
<1>1. CASE UNCHANGED chatVars \/ Draft \/ Join \/ Close \/ ChangeSettings \/ SettingsLost
  <2>1. UNCHANGED <<pending, request, retry, recovery, known, local, lastSeq, fresh>>
    BY <1>1 DEF chatVars, Draft, Join, Close, ChangeSettings, SettingsLost,
                server, posting, connection, view, history
  <2>2. \A e \in Event : Flying(e) => Flying(e)' BY <2>1 DEF Flying
  <2> QED BY <2>1, <2>2, AsideKeeps
<1>2. ASSUME NEW m \in Mine, Send(m) PROVE Kept'
  <2>1. /\ UNCHANGED <<pending, retry, recovery, known, lastSeq, fresh>>
        /\ request' = [request EXCEPT ![m] = "sent"] /\ local' = Append(local, m)
    BY <1>2 DEF Send, server, view, history
  <2>2. \A e \in Event : Flying(e) => Flying(e)' BY <2>1 DEF Flying
  <2>3. ToSet(local') = ToSet(local) \union {m}
    <3>1. m \in Users BY DEF Users
    <3> QED BY <1>0, <2>1, <3>1, AppendIs
  <2>4. \A n \in Mine : n # m => request'[n] = request[n] BY <1>0, <2>1
  <2>5. \A n \in Mine : request'[n] \notin {"none", "rejected"} =>
                            request[n] \notin {"none", "rejected"} \/ n \in ToSet(local')
    BY <2>3, <2>4
  <2> QED BY <2>1, <2>2, <2>3, <2>5, AsideKeeps
<1>3. ASSUME NEW m \in Users, Respond(m) \/ NoReply(m) PROVE Kept'
  <2>1. /\ UNCHANGED <<pending, retry, recovery, known, local, lastSeq, fresh>>
        /\ request[m] \in {"sent", "saved"} /\ request' \in {request, [request EXCEPT ![m] = "over"]}
    BY <1>3 DEF Respond, NoReply, server, view, history
  <2>2. \A e \in Event : Flying(e) => Flying(e)' BY <2>1 DEF Flying
  <2>3. \A n \in Mine : request'[n] \notin {"none", "rejected"} => request[n] \notin {"none", "rejected"}
    BY <1>0, <2>1 DEF Users
  <2> QED BY <2>1, <2>2, <2>3, AsideKeeps
<1>4. ASSUME NEW m \in Users, Reject(m) PROVE Kept'
  <2>1. /\ UNCHANGED <<pending, retry, recovery, known, lastSeq, fresh>>
        /\ request' = [request EXCEPT ![m] = "rejected"] /\ local' = OnTheirWay({m})
    BY <1>4 DEF Reject, server, history
  <2>2. \A e \in Event : Flying(e) => Flying(e)' BY <2>1 DEF Flying
  <2>3. ToSet(local') = ToSet(local) \ {m} BY <1>0, <2>1, OnTheirWayIs
  <2>4. request'[m] = "rejected" /\ \A n \in Users : n # m => request'[n] = request[n] BY <1>0, <2>1
  <2>5. \A n \in Mine : /\ n \in ToSet(local) => n \in ToSet(local') \/ request'[n] \in {"none", "rejected"}
                        /\ request'[n] \notin {"none", "rejected"} => request[n] \notin {"none", "rejected"}
    BY <2>3, <2>4 DEF Users
  <2> QED BY <2>1, <2>2, <2>5, AsideKeeps
<1> QED BY <1>1, <1>2, <1>3, <1>4

\* Sends again, and retries that put no older list back.
LEMMA RetrySteps ==
    ASSUME Typing, Typing', Quiet, Kept, excuse' = {},
           \/ Resend \/ \E i \in DOMAIN known : Retry(i)
           \/ RetryAccepted \/ RetryRefused \/ RetryTurnedAway \/ RetryFails
    PROVE  Kept'
<1>1. CASE Resend
  <2>1. /\ UNCHANGED <<pending, retry, recovery, known, local, lastSeq, fresh>>
        /\ request' = [m \in Users |-> IF m \in ToSet(local) THEN "sent" ELSE request[m]]
    BY <1>1 DEF Resend, server, view, history
  <2>2. \A e \in Event : Flying(e) => Flying(e)' BY <2>1 DEF Flying
  <2>3. \A n \in Mine : request'[n] \notin {"none", "rejected"} =>
                            request[n] \notin {"none", "rejected"} \/ n \in ToSet(local')
    BY <2>1 DEF Users
  <2> QED BY <2>1, <2>2, <2>3, AsideKeeps
<1>2. ASSUME NEW i \in DOMAIN known, Retry(i) PROVE Kept'
  <2>1. /\ UNCHANGED <<pending, request, recovery, known, local, lastSeq, fresh>>
        /\ retry' = [place |-> i, list |-> known]
    BY <1>2 DEF Retry, server, view, history
  <2>2. \A e \in Event : Flying(e) => Flying(e)' BY <2>1 DEF Flying
  <2> QED BY <2>1, <2>2, AsideKeeps
<1>3. CASE RetryAccepted
  <2>1. /\ UNCHANGED <<pending, recovery, known, local, lastSeq, fresh>>
        /\ retry.place # 0 /\ retry' = NoRetry
        /\ request' = [request EXCEPT ![retry.list[retry.place]] = "saved"]
    BY <1>3 DEF RetryAccepted, server, view, history
  <2>2. \A e \in Event : Flying(e) => Flying(e)' BY <2>1 DEF Flying
  <2>3. PICK x : x = retry.list[retry.place] OBVIOUS
  <2>4. Safe(x) BY <2>1, <2>3 DEF Kept, Held
  <2>5. \A n \in Mine : n # x => request'[n] = request[n] BY <2>1, <2>3, PostFacts
  <2>6. \A n \in Mine : request'[n] \notin {"none", "rejected"} =>
                            request[n] \notin {"none", "rejected"} \/ Safe(n)
    BY <2>4, <2>5
  <2> QED BY <2>1, <2>2, <2>6, AsideKeeps
<1>4. CASE RetryRefused BY <1>4 DEF RetryRefused
<1>5. CASE RetryTurnedAway
  <2>1. /\ UNCHANGED <<pending, request, recovery, lastSeq, fresh>> /\ retry' = NoRetry
        /\ known' = retry.list /\ local' = <<>>
        /\ excuse' = IF known # retry.list \/ local # <<>> THEN excuse \union {"replaced"} ELSE excuse
    BY <1>5 DEF RetryTurnedAway, server
  <2>2. known' = known /\ local' = local BY <2>1
  <2>3. \A e \in Event : Flying(e) => Flying(e)' BY <2>1 DEF Flying
  <2> QED BY <2>1, <2>2, <2>3, AsideKeeps
<1>6. CASE RetryFails
  <2>1. UNCHANGED <<pending, request, recovery, known, local, lastSeq, fresh>> /\ retry' = NoRetry
    BY <1>6 DEF RetryFails, server, view, history
  <2>2. \A e \in Event : Flying(e) => Flying(e)' BY <2>1 DEF Flying
  <2> QED BY <2>1, <2>2, AsideKeeps
<1> QED BY <1>1, <1>2, <1>3, <1>4, <1>5, <1>6

\* A lost event was of no moved message, or the loss is counted.
LEMMA LoseKeeps ==
    ASSUME Typing, Typing', Quiet, Kept, NEW m \in Messages, Lose(m), excuse' = {}
    PROVE  Kept'
<1>1. /\ UNCHANGED <<known, local, lastSeq, recovery, fresh, request, retry>>
      /\ pending[m] # <<>> /\ pending' = [pending EXCEPT ![m] = Tail(@)]
      /\ ~Head(pending[m]).moved
  BY DEF Lose, view, posting
<1>2. \A e : Flying(e) => Flying(e)' \/ e = Head(pending[m]) BY <1>1, TakenIs
<1>3. \A e \in Event : Flying(e) /\ e.moved => Flying(e)' BY <1>1, <1>2
<1> QED BY <1>1, <1>3, AsideKeeps

\* A recovery that is asked for starts at what is shown.
LEMMA ConnectKeeps == ASSUME Typing, Typing', Quiet, Kept, Connect PROVE Kept'
<1>1. /\ UNCHANGED <<pending, request, retry, known, local, lastSeq, fresh>>
      /\ recovery' = recovery \/ (recovery.step = "idle" /\ recovery' = Ask(lastSeq))
  BY DEF Connect, posting, view, history
<1>2. \A e \in Event : Flying(e) => Flying(e)' BY <1>1 DEF Flying
<1>3. CASE recovery' = recovery BY <1>1, <1>2, <1>3, AsideKeeps
<1>4. CASE recovery.step = "idle" /\ recovery' = Ask(lastSeq)
  <2>1. CuresStay BY <1>2, <1>4, CuresLeft DEF Quiet
  <2>2. Fits' /\ KnownIn' /\ \A x : Safe(x) => Safe(x)' BY <1>1, <2>1, ListLeft
  <2>3. Own' BY <1>1, <2>2 DEF Own, Kept
  <2>4. Gap'
    <3>1. lastSeq \in Nat BY DEF Typing, Typed
    <3>2. recovery'.step = "asked" /\ recovery'.after = lastSeq BY <1>4, <3>1, AskIs
    <3>3. lastSeq <= Len(known) BY <1>4 DEF Kept, Gap
    <3> QED BY <1>1, <3>2, <3>3 DEF Gap
  <2>5. Held' BY <1>1, <2>2, HeldStays DEF Kept
  <2> QED BY <2>2, <2>3, <2>4, <2>5 DEF Kept
<1> QED BY <1>1, <1>3, <1>4

\* The tail is read as it is now: it has what was asked for.
LEMMA ServeKeeps == ASSUME Typing, Typing', Quiet, Kept, ServeRecovery PROVE Kept'
<1>1. /\ UNCHANGED <<pending, request, retry, known, local, lastSeq, fresh>>
      /\ recovery.step = "asked"
      /\ recovery' = [recovery EXCEPT !.step = "answered", !.shifts = shifts,
                                      !.tail = SubSeq(chat, recovery.after + 1, Len(chat))]
  BY DEF ServeRecovery, posting, view, history
<1>2. /\ chat \in Seq(Messages) /\ Len(chat) \in Nat /\ recovery \in Recovery /\ recovery.after <= Len(chat)
      /\ recovery.after \in Nat /\ lastSeq <= Len(chat) /\ shifts \in Nat /\ lastSeq \in Nat
  BY LenProperties DEF Typing, Typed, Recovery
<1>3. PICK a, t : a \in Nat /\ a = recovery.after /\ t = SubSeq(chat, a + 1, Len(chat)) BY <1>2
<1>4. recovery'.step = "answered" /\ recovery'.after = a /\ recovery'.shifts = shifts /\ recovery'.tail = t
  BY <1>1, <1>2, <1>3 DEF Recovery
<1>5. Len(t) = Len(chat) - a /\ \A k \in 1..Len(chat) - a : t[k] = chat[a + k] BY <1>2, <1>3, TailOfChat
<1>6. CuresStay
  <2> SUFFICES ASSUME NEW p \in 1..Len(chat), NEW u \in Int, u < shifts, Cure(p, u) PROVE Cure(p, u)'
    BY DEF CuresStay
  <2>0. chat' = chat BY DEF Quiet
  <2>1. CASE Sent(p, u)
    <3>1. Sent(p, u)' BY <1>1, <2>0, <2>1 DEF Sent, Flying
    <3> QED BY <3>1 DEF Cure
  <2>2. CASE Asked(p)
    <3>1. a < p /\ p - a \in 1..Len(chat) - a /\ a + (p - a) = p BY <1>2, <1>3, <2>2 DEF Asked
    <3>2. t[p - a] = chat[a + (p - a)] BY <1>5, <3>1
    <3>3. p <= a + Len(t) /\ shifts > u BY <1>2, <1>3, <1>5
    <3>4. t[p - a] = chat[p] /\ p <= a + Len(t) /\ shifts > u BY <3>1, <3>2, <3>3
    <3>5. Answered(p, u)' BY <1>4, <2>0, <3>1, <3>4 DEF Answered
    <3> QED BY <3>5 DEF Cure
  <2>3. ~Answered(p, u) BY <1>1 DEF Answered
  <2> QED BY <2>1, <2>2, <2>3 DEF Cure
<1>7. Fits' /\ KnownIn' /\ \A x : Safe(x) => Safe(x)' BY <1>1, <1>6, ListLeft
<1>8. Own' BY <1>1, <1>7 DEF Own, Kept
<1>9. Gap'
  <2>1. recovery.after <= Len(known) BY <1>1 DEF Kept, Gap
  <2>2. lastSeq <= a + Len(t) BY <1>2, <1>3, <1>5
  <2> QED BY <1>1, <1>3, <1>4, <2>1, <2>2 DEF Gap
<1>10. Held' BY <1>1, <1>7, HeldStays DEF Kept
<1> QED BY <1>7, <1>8, <1>9, <1>10 DEF Kept

\* The list after a step, place by place.
LEMMA KnownFrom ==
    ASSUME Len(known') <= Len(chat'),
           \A p \in 1..Len(known') : \A x : x = known'[p] => Covered(p)' /\ Safe(x)'
    PROVE  KnownIn'
<1>1. ASSUME NEW p \in 1..Len(known') PROVE Covered(p)' /\ Safe(known[p])'
  <2>1. PICK x : x = known'[p] OBVIOUS
  <2>2. Covered(p)' /\ Safe(x)' BY <2>1
  <2>3. Safe(known[p])' BY <2>1, <2>2 DEF Safe
  <2> QED BY <2>2, <2>3
<1> QED BY <1>1 DEF KnownIn

\* The recovered tail is laid over the list.
LEMMA RecoverKeeps == ASSUME Typing, Typing', Quiet, Kept, Recover, excuse' = {} PROVE Kept'
<1>0. /\ UNCHANGED <<pending, request, retry>>
      /\ recovery.step = "answered" /\ recovery' = Idle
      /\ known' = Over(known, recovery.after, recovery.tail)
      /\ local' = OnTheirWay(ToSet(recovery.tail))
      /\ lastSeq' = Max({lastSeq, recovery.after + Len(recovery.tail)})
      /\ fresh' = Max({fresh, recovery.shifts}) /\ ~(recovery.shifts < fresh)
  BY DEF Recover, Applied, posting
<1>1. /\ known \in Seq(Messages) /\ local \in Seq(Users) /\ IsInjective(local)
      /\ fresh \in Nat /\ lastSeq \in Nat /\ recovery \in Recovery
      /\ Len(chat) \in Nat /\ Len(known) \in Nat /\ known' \in Seq(Messages) /\ chat' = chat /\ shifts \in Nat
  BY LenProperties DEF Typing, Typed, Quiet
<1>2. PICK a \in Nat, t \in Seq(Messages), w \in Nat :
            a = recovery.after /\ t = recovery.tail /\ w = recovery.shifts
  BY <1>1 DEF Recovery
<1>3. /\ Len(t) \in Nat /\ \A x : x \in ToSet(t) <=> \E k \in 1..Len(t) : t[k] = x BY SetIs
<1>4. a <= Len(known) /\ (lastSeq <= Len(known) \/ lastSeq <= a + Len(t))
  BY <1>0, <1>2 DEF Kept, Gap
<1>5. PICK top \in Nat : top = IF Len(known) >= a + Len(t) THEN Len(known) ELSE a + Len(t) BY <1>1, <1>3
<1>6. /\ Len(known') = top
      /\ \A k \in 1..top : known'[k] = IF k > a /\ k <= a + Len(t) THEN t[k - a] ELSE known[k]
  <2>1. known' = Over(known, a, t) BY <1>0, <1>2
  <2> QED BY <1>1, <1>4, <1>5, <2>1, OverIs
<1>7. fresh' = w /\ w >= fresh
  <2>1. w >= fresh BY <1>0, <1>1, <1>2
  <2>2. fresh' = IF fresh >= w THEN fresh ELSE w BY <1>0, <1>1, <1>2, MaxIs
  <2> QED BY <1>1, <2>1, <2>2
<1>8. ASSUME NEW p \in Int, p > a, p <= a + Len(t)
      PROVE  Item(p, t[p - a], w) /\ p \in 1..top /\ known'[p] = t[p - a]
  <2>1. p - a \in 1..Len(t) /\ p \in 1..top BY <1>1, <1>2, <1>3, <1>5, <1>8
  <2>2. Item(p, t[p - a], w) BY <1>0, <1>2, <2>1 DEF Item
  <2> QED BY <1>6, <1>8, <2>1, <2>2
<1>9. CuresStay
  <2> SUFFICES ASSUME NEW p \in 1..Len(chat), NEW u \in Int, u < shifts, Cure(p, u)
               PROVE  Cure(p, u)' \/ (Shown(p)' /\ fresh' > u)
    BY DEF CuresStay
  <2>1. CASE Sent(p, u)
    <3>1. Sent(p, u)' BY <1>0, <1>1, <2>1 DEF Sent, Flying
    <3> QED BY <3>1 DEF Cure
  <2>2. CASE Answered(p, u)
    <3>1. w > u /\ p > a /\ p <= a + Len(t) /\ t[p - a] = chat[p] BY <1>2, <2>2 DEF Answered
    <3>2. p \in 1..top /\ known'[p] = chat[p] BY <1>8, <3>1
    <3>3. p <= Len(known') BY <1>6, <3>2
    <3> QED BY <1>1, <1>7, <3>1, <3>2, <3>3 DEF Shown
  <2>3. ~Asked(p) BY <1>0 DEF Asked
  <2> QED BY <2>1, <2>2, <2>3 DEF Cure
<1>10. ASSUME NEW p \in Int, p > a, p <= a + Len(t)
       PROVE  /\ p \in 1..Len(chat)
              /\ t[p - a] = chat[p] \/ (Safe(t[p - a]) /\ (Cure(p, -1)' \/ Shown(p)'))
  <2>1. Item(p, t[p - a], w) BY <1>8, <1>10
  <2>2. p \in 1..Len(chat) BY <2>1 DEF Typing, Reads, Read
  <2>3. CASE t[p - a] # chat[p]
    <3>1. Safe(t[p - a]) /\ w < shifts /\ (fresh > w \/ Cure(p, w)) BY <2>1, <2>3, Misplaced DEF Kept
    <3>2. Cure(p, w) BY <1>1, <1>7, <3>1
    <3>3. -1 \in Int /\ -1 <= w /\ w \in Int /\ -1 < shifts BY <1>1
    <3>4. Cure(p, -1) BY <3>2, <3>3, CureWeakens
    <3>5. Cure(p, -1)' \/ Shown(p)' BY <1>9, <2>2, <3>3, <3>4 DEF CuresStay
    <3> QED BY <2>2, <3>1, <3>5
  <2> QED BY <2>2, <2>3
<1>11. ASSUME NEW p \in 1..Len(chat), p > a, p <= a + Len(t) PROVE Covered(p)'
  <2>1. CASE t[p - a] = chat[p]
    <3>1. p \in 1..top /\ known'[p] = chat[p] BY <1>8, <1>11, <2>1
    <3>2. p <= Len(known') BY <1>6, <3>1
    <3> QED BY <1>1, <3>1, <3>2 DEF Shown, Covered
  <2> QED BY <1>10, <1>11, <2>1 DEF Covered
<1>12. ShownStays
  <2> SUFFICES ASSUME NEW p \in 1..Len(chat), Shown(p) PROVE Covered(p)' BY DEF ShownStays
  <2>1. CASE p > a /\ p <= a + Len(t) BY <1>11, <2>1
  <2>2. CASE ~(p > a /\ p <= a + Len(t))
    <3>1. p \in 1..top /\ p <= Len(known') BY <1>1, <1>3, <1>5, <1>6 DEF Shown
    <3>2. known'[p] = known[p] BY <1>6, <2>2, <3>1
    <3> QED BY <1>1, <3>1, <3>2 DEF Shown, Covered
  <2> QED BY <2>1, <2>2
<1>13. /\ \A p \in 1..Len(chat) : Covered(p) => Covered(p)'
       /\ \A x : Safe(x) => Safe(x)'
       /\ Fits'
  <2>1. fresh' \in Nat /\ fresh' >= fresh BY <1>7
  <2> QED BY <1>9, <1>12, <2>1, Carry DEF Kept
<1>14. KnownIn'
  <2>1. Len(known') <= Len(chat')
    <3>1. Len(known) <= Len(chat) BY DEF Kept, KnownIn
    <3>2. CASE Len(t) = 0 BY <1>1, <1>4, <1>5, <1>6, <3>1, <3>2
    <3>3. CASE Len(t) > 0
      <4>1. a + Len(t) \in Int /\ a + Len(t) > a /\ a + Len(t) <= a + Len(t) BY <1>3, <3>3
      <4>2. a + Len(t) \in 1..Len(chat) BY <1>10, <4>1
      <4> QED BY <1>1, <1>5, <1>6, <3>1, <4>2
    <3> QED BY <1>3, <3>2, <3>3
  <2>2. ASSUME NEW p \in 1..Len(known'), NEW x, x = known'[p] PROVE Covered(p)' /\ Safe(x)'
    <3>0. p \in Int /\ p \in 1..top BY <1>6
    <3>1. CASE p > a /\ p <= a + Len(t)
      <4>1. p \in 1..Len(chat) /\ x = t[p - a] BY <1>8, <1>10, <2>2, <3>0, <3>1
      <4>2. Covered(p)' BY <1>11, <3>1, <4>1
      <4>3. CASE t[p - a] = chat[p] BY <1>1, <4>1, <4>2, <4>3 DEF Safe
      <4>4. CASE t[p - a] # chat[p]
        <5>1. Safe(x) BY <1>10, <3>0, <3>1, <4>1, <4>4
        <5> QED BY <1>13, <4>2, <5>1
      <4> QED BY <4>3, <4>4
    <3>2. CASE ~(p > a /\ p <= a + Len(t))
      <4>1. p \in 1..Len(known) /\ x = known[p]
        <5>1. p \in 1..Len(known) BY <1>1, <1>3, <1>4, <1>5, <3>0, <3>2
        <5> QED BY <1>6, <2>2, <3>0, <3>2, <5>1
      <4>2. Len(known) <= Len(chat) /\ Covered(p) /\ Safe(x) BY <4>1 DEF Kept, KnownIn
      <4>3. p \in 1..Len(chat) BY <1>1, <4>1, <4>2
      <4> QED BY <1>13, <4>2, <4>3
    <3> QED BY <3>1, <3>2
  <2> QED BY <1>1, <2>1, <2>2, KnownFrom
<1>15. Own'
  <2>1. ToSet(local') = ToSet(local) \ ToSet(t) BY <1>0, <1>1, <1>2, OnTheirWayIs
  <2>2. ToSet(t) \subseteq ToSet(known')
    <3>1. \A x : x \in ToSet(known') <=> \E k \in 1..Len(known') : known'[k] = x BY <1>1, SetIs
    <3>2. ASSUME NEW k \in 1..Len(t) PROVE t[k] \in ToSet(known')
      <4>1. a + k \in Int /\ a + k > a /\ a + k <= a + Len(t) /\ (a + k) - a = k BY <1>3
      <4>2. a + k \in 1..top /\ known'[a + k] = t[(a + k) - a] BY <1>8, <4>1
      <4> QED BY <1>6, <3>1, <4>1, <4>2
    <3> QED BY <1>3, <3>2
  <2>3. \A m \in Mine : m \in ToSet(local) => m \in ToSet(local') \/ m \in ToSet(known')
    BY <2>1, <2>2
  <2> QED BY <1>0, <1>1, <1>13, <1>14, <2>3, OwnCarry DEF Kept
<1>16. Gap'
  <2>1. recovery'.step = "idle" BY <1>0, IdleIs
  <2>2. lastSeq' = IF lastSeq >= a + Len(t) THEN lastSeq ELSE a + Len(t)
    <3>1. lastSeq' = Max({lastSeq, a + Len(t)}) BY <1>0, <1>2
    <3>2. PICK b \in Int : b = a + Len(t) BY <1>3
    <3> QED BY <1>1, <3>1, <3>2, MaxIs
  <2>3. lastSeq' <= Len(known') BY <1>1, <1>3, <1>4, <1>5, <1>6, <2>2
  <2> QED BY <2>1, <2>3 DEF Gap
<1>17. Held' BY <1>0, <1>13, HeldStays DEF Kept
<1> QED BY <1>13, <1>14, <1>15, <1>16, <1>17 DEF Kept

\* Message x put at place q.
LEMMA PutIs ==
    ASSUME known \in Seq(Messages), NEW q \in Nat \ {0}, NEW x \in Messages, known' = At(known, q, x)
    PROVE  /\ q > Len(known) + 1 => known' = known
           /\ q <= Len(known) + 1 => /\ known'[q] = x /\ q <= Len(known')
                                     /\ Len(known') = IF q = Len(known) + 1 THEN q ELSE Len(known)
           /\ \A k \in 1..Len(known) : k # q => known'[k] = known[k]
<1>0. Len(known) \in Nat BY LenProperties
<1>1. CASE q > Len(known) + 1
  <2>1. known' = known BY <1>1 DEF At
  <2> QED BY <1>0, <1>1, <2>1
<1>2. CASE q = Len(known) + 1
  <2>1. known' = Append(known, x) BY <1>0, <1>2 DEF At
  <2>2. PICK s : s = Append(known, x) OBVIOUS
  <2>3. Len(s) = Len(known) + 1 /\ (\A k \in 1..Len(known) : s[k] = known[k]) /\ s[Len(known) + 1] = x
    BY <2>2, AppendIs
  <2> QED BY <1>0, <1>2, <2>1, <2>2, <2>3
<1>3. CASE q < Len(known) + 1
  <2>1. known' = [known EXCEPT ![q] = x] BY <1>0, <1>3 DEF At
  <2>2. q \in 1..Len(known) BY <1>0, <1>3
  <2>3. Len(known') = Len(known) /\ known'[q] = x BY <2>1, <2>2, ExceptSeq
  <2>4. \A k \in 1..Len(known) : k # q => known'[k] = known[k] BY <2>1
  <2> QED BY <1>0, <1>3, <2>3, <2>4
<1> QED BY <1>0, <1>1, <1>2, <1>3

\* An event is put into the list, or a recovery brings it.
LEMMA PushKeeps ==
    ASSUME Typing, Typing', Quiet, Kept, NEW m \in Messages, Push(m), excuse' = {}
    PROVE  Kept'
<1>1. PICK e : e = Head(pending[m]) OBVIOUS
<1>2. /\ UNCHANGED <<request, retry>>
      /\ pending[m] # <<>> /\ pending' = [pending EXCEPT ![m] = Tail(@)]
      /\ recovery' = IF e.place > lastSeq + 1 /\ recovery.step = "idle" THEN Ask(e.place) ELSE recovery
      /\ lastSeq' = Max({lastSeq, e.place})
      /\ known' = At(known, e.place, e.message)
      /\ IF e.place > Len(known) + 1
         THEN UNCHANGED <<local, fresh>> /\ recovery.step # "answered"
         ELSE /\ local' = OnTheirWay({e.message}) /\ fresh' = Max({fresh, e.shifts})
              /\ ~(e.shifts < fresh)
  BY <1>1 DEF Push, Applied, posting
<1>3. /\ e \in Event /\ Flying(e) /\ \A f : Flying(f) => Flying(f)' \/ f = e
  BY <1>1, <1>2, TakenIs
<1>4. PICK q \in Nat \ {0}, x \in Messages, w \in Nat : q = e.place /\ x = e.message /\ w = e.shifts
  BY <1>3 DEF Event
<1>5. Item(q, x, w) BY <1>3, <1>4 DEF Item
<1>6. q \in 1..Len(chat) BY <1>5 DEF Typing, Reads, Read
<1>7. /\ known \in Seq(Messages) /\ local \in Seq(Users) /\ IsInjective(local)
      /\ fresh \in Nat /\ lastSeq \in Nat /\ recovery \in Recovery
      /\ Len(chat) \in Nat /\ Len(known) \in Nat /\ known' \in Seq(Messages)
      /\ chat' = chat /\ shifts \in Nat
  BY LenProperties DEF Typing, Typed, Quiet
<1>8. /\ q > Len(known) + 1 => known' = known
      /\ q <= Len(known) + 1 => /\ known'[q] = x /\ q <= Len(known')
                                /\ Len(known') = IF q = Len(known) + 1 THEN q ELSE Len(known)
      /\ \A k \in 1..Len(known) : k # q => known'[k] = known[k]
  <2>1. known' = At(known, q, x) BY <1>2, <1>4
  <2> QED BY <1>7, <2>1, PutIs
<1>9. Len(known) <= Len(known') /\ Len(known') <= Len(chat)
      /\ \A k \in 1..Len(known') : k \in 1..Len(known) \/ (k = q /\ q <= Len(known) + 1)
  <2>1. Len(known) <= Len(chat) BY DEF Kept, KnownIn
  <2> QED BY <1>6, <1>7, <1>8, <2>1
<1>10. q <= Len(known) + 1 => fresh' >= w /\ w >= fresh
  <2>1. CASE q <= Len(known) + 1
    <3>1. fresh' = Max({fresh, w}) /\ ~(w < fresh) BY <1>2, <1>4, <1>7, <2>1
    <3> QED BY <1>7, <3>1, MaxIs
  <2> QED BY <2>1
<1>11. fresh' \in Nat /\ fresh' >= fresh
  <2>1. fresh' \in Nat BY DEF Typing, Typed
  <2>2. CASE q <= Len(known) + 1 BY <1>7, <1>10, <2>1, <2>2
  <2>3. CASE ~(q <= Len(known) + 1) BY <1>2, <1>4, <1>7, <2>1, <2>3
  <2> QED BY <2>2, <2>3
<1>12. /\ recovery' = recovery \/ (recovery.step = "idle" /\ recovery'.step = "asked" /\ recovery'.after = lastSeq)
       /\ recovery' = recovery /\ recovery.step = "idle" => q <= lastSeq + 1
  <2>1. Ask(e.place).step = "asked" /\ Ask(e.place).after = lastSeq BY <1>7, AskIs
  <2>2. recovery' = IF q > lastSeq + 1 /\ recovery.step = "idle" THEN Ask(e.place) ELSE recovery BY <1>2, <1>4
  <2>3. CASE q > lastSeq + 1 /\ recovery.step = "idle"
    <3>1. recovery'.step = "asked" BY <2>1, <2>2, <2>3
    <3> QED BY <2>1, <2>2, <2>3, <3>1
  <2>4. CASE ~(q > lastSeq + 1 /\ recovery.step = "idle") BY <1>7, <2>2, <2>4
  <2> QED BY <2>3, <2>4
<1>13. q > Len(known) + 1 => Asked(q)'
  <2>1. CASE q > Len(known) + 1
    <3>1. recovery.step \in {"idle", "asked"} BY <1>2, <1>4, <1>7, <2>1 DEF Recovery
    <3>2. CASE recovery.step = "asked"
      <4>1. recovery' = recovery /\ recovery.after <= Len(known) /\ recovery.after \in Nat
        BY <1>7, <1>12, <3>2 DEF Kept, Gap, Recovery
      <4>2. recovery.after < q BY <1>7, <2>1, <4>1
      <4> QED BY <3>2, <4>1, <4>2 DEF Asked
    <3>3. CASE recovery.step = "idle"
      <4>1. lastSeq <= Len(known) BY <3>3 DEF Kept, Gap
      <4>2. ~(q <= lastSeq + 1) /\ lastSeq < q BY <1>7, <2>1, <4>1
      <4>3. recovery'.step = "asked" /\ recovery'.after = lastSeq BY <1>12, <3>3, <4>2
      <4> QED BY <4>2, <4>3 DEF Asked
    <3> QED BY <3>1, <3>2, <3>3
  <2> QED BY <2>1
<1>14. CuresStay
  <2> SUFFICES ASSUME NEW p \in 1..Len(chat), NEW u \in Int, u < shifts, Cure(p, u)
               PROVE  Cure(p, u)' \/ (Shown(p)' /\ fresh' > u)
    BY DEF CuresStay
  <2>1. CASE Sent(p, u)
    <3>1. PICK f \in Event : Flying(f) /\ f.moved /\ f.place = p /\ f.message = chat[p] /\ f.shifts > u
      BY <2>1 DEF Sent
    <3>2. CASE Flying(f)'
      <4>1. Sent(p, u)' BY <1>7, <3>1, <3>2 DEF Sent
      <4> QED BY <4>1 DEF Cure
    <3>3. CASE f = e
      <4>1. p = q /\ x = chat[p] /\ w > u BY <1>4, <3>1, <3>3
      <4>2. CASE q > Len(known) + 1 BY <1>13, <4>1, <4>2 DEF Cure
      <4>3. CASE q <= Len(known) + 1
        <5>1. fresh' > u BY <1>10, <1>11, <4>1, <4>3
        <5> QED BY <1>7, <1>8, <4>1, <4>3, <5>1 DEF Shown
      <4> QED BY <1>7, <4>2, <4>3
    <3> QED BY <1>3, <3>1, <3>2, <3>3
  <2>2. CASE Asked(p) \/ Answered(p, u)
    <3>1. recovery' = recovery BY <1>12, <2>2 DEF Asked, Answered
    <3>2. (Asked(p) \/ Answered(p, u))' BY <1>7, <2>2, <3>1 DEF Asked, Answered
    <3> QED BY <3>2 DEF Cure
  <2> QED BY <2>1, <2>2 DEF Cure
<1>15. q <= Len(known) + 1 => /\ Covered(q)'
                              /\ chat[q] # x => Safe(x)
  <2>1. CASE q <= Len(known) + 1 /\ chat[q] = x BY <1>7, <1>8, <2>1 DEF Shown, Covered
  <2>2. CASE q <= Len(known) + 1 /\ chat[q] # x
    <3>1. Safe(x) /\ (fresh > w \/ Cure(q, w)) BY <1>5, <2>2, Misplaced DEF Kept
    <3>2. Cure(q, w) BY <1>7, <1>10, <2>2, <3>1
    <3>3. -1 \in Int /\ -1 <= w /\ w \in Int /\ -1 < shifts BY <1>7
    <3>4. Cure(q, -1) BY <3>2, <3>3, CureWeakens
    <3>5. Cure(q, -1)' \/ Shown(q)' BY <1>6, <1>14, <3>3, <3>4 DEF CuresStay
    <3> QED BY <3>1, <3>5 DEF Covered
  <2> QED BY <2>1, <2>2
<1>16. ShownStays
  <2> SUFFICES ASSUME NEW p \in 1..Len(chat), Shown(p) PROVE Covered(p)' BY DEF ShownStays
  <2>1. p \in 1..Len(known) /\ known[p] = chat[p] BY <1>7 DEF Shown
  <2>2. CASE p = q
    <3>1. q <= Len(known) + 1 BY <1>7, <2>1, <2>2
    <3> QED BY <1>15, <2>2, <3>1
  <2>3. CASE p # q
    <3>1. known'[p] = chat[p] /\ p <= Len(known') BY <1>7, <1>8, <1>9, <2>1, <2>3
    <3> QED BY <1>7, <3>1 DEF Shown, Covered
  <2> QED BY <2>2, <2>3
<1>17. /\ \A p \in 1..Len(chat) : Covered(p) => Covered(p)'
       /\ \A y : Safe(y) => Safe(y)'
       /\ Fits'
  BY <1>11, <1>14, <1>16, Carry DEF Kept
<1>18. KnownIn'
  <2>1. ASSUME NEW p \in 1..Len(known'), NEW y, y = known'[p] PROVE Covered(p)' /\ Safe(y)'
    <3>1. CASE p = q /\ q <= Len(known) + 1
      <4>1. y = x /\ Covered(q)' BY <1>8, <1>15, <2>1, <3>1
      <4>2. CASE chat[q] = x BY <1>6, <1>7, <3>1, <4>1, <4>2 DEF Safe
      <4>3. CASE chat[q] # x BY <1>15, <1>17, <3>1, <4>1, <4>3
      <4> QED BY <3>1, <4>1, <4>2, <4>3
    <3>2. CASE p \in 1..Len(known) /\ ~(p = q /\ q <= Len(known) + 1)
      <4>1. y = known[p] BY <1>7, <1>8, <2>1, <3>2
      <4>2. Covered(p) /\ Safe(y) /\ p \in 1..Len(chat) BY <1>7, <1>9, <3>2, <4>1 DEF Kept, KnownIn
      <4> QED BY <1>17, <4>2
    <3> QED BY <1>9, <3>1, <3>2
  <2> QED BY <1>7, <1>9, <2>1, KnownFrom
<1>19. Own'
  <2>1. ASSUME NEW n \in Mine, n \in ToSet(local) PROVE n \in ToSet(local') \/ n \in ToSet(known')
    <3>1. CASE q > Len(known) + 1 BY <1>2, <1>4, <2>1, <3>1
    <3>2. CASE ~(q > Len(known) + 1)
      <4>1. local' = OnTheirWay({x}) BY <1>2, <1>4, <3>2
      <4>2. ToSet(local') = ToSet(local) \ {x} BY <1>7, <4>1, OnTheirWayIs
      <4>3. q <= Len(known) + 1 BY <1>7, <3>2
      <4>4. known'[q] = x /\ q \in 1..Len(known') BY <1>7, <1>8, <1>9, <4>3
      <4>5. x \in ToSet(known') BY <1>7, <4>4, SetIs
      <4> QED BY <2>1, <4>2, <4>5
    <3> QED BY <3>1, <3>2
  <2> QED BY <1>2, <1>7, <1>17, <1>18, <2>1, OwnCarry DEF Kept
<1>20. Gap'
  <2>1. lastSeq' = IF lastSeq >= q THEN lastSeq ELSE q
    <3>1. lastSeq' = Max({lastSeq, q}) BY <1>2, <1>4
    <3> QED BY <1>7, <3>1, MaxIs
  <2>2. CASE recovery' = recovery /\ recovery.step = "idle"
    <3>1. lastSeq <= Len(known) /\ q <= lastSeq + 1 BY <1>12, <2>2 DEF Kept, Gap
    <3>2. q <= Len(known) + 1 BY <1>7, <3>1
    <3>3. lastSeq' <= Len(known') BY <1>7, <1>8, <1>9, <2>1, <3>1, <3>2
    <3> QED BY <2>2, <3>3 DEF Gap
  <2>3. CASE recovery' = recovery /\ recovery.step = "asked"
    <3>1. recovery.after <= Len(known) /\ recovery.after \in Nat BY <1>7, <2>3 DEF Kept, Gap, Recovery
    <3>2. recovery.after <= Len(known') BY <1>7, <1>9, <3>1
    <3> QED BY <2>3, <3>2 DEF Gap
  <2>4. CASE recovery' = recovery /\ recovery.step = "answered"
    <3>1. PICK a \in Nat, l \in Nat : a = recovery.after /\ l = Len(recovery.tail)
      BY <1>7, LenProperties DEF Recovery
    <3>2. a <= Len(known) /\ (lastSeq <= Len(known) \/ lastSeq <= a + l) BY <2>4, <3>1 DEF Kept, Gap
    <3>3. ~(q > Len(known) + 1) BY <1>2, <1>4, <2>4
    <3>4. q <= Len(known') BY <1>7, <1>8, <3>3
    <3>5. a <= Len(known') /\ (lastSeq' <= Len(known') \/ lastSeq' <= a + l)
      BY <1>7, <1>9, <2>1, <3>2, <3>4
    <3> QED BY <2>4, <3>1, <3>5 DEF Gap
  <2>5. CASE recovery.step = "idle" /\ recovery'.step = "asked" /\ recovery'.after = lastSeq
    <3>1. lastSeq <= Len(known) BY <2>5 DEF Kept, Gap
    <3>2. recovery'.after <= Len(known') BY <1>7, <1>9, <2>5, <3>1
    <3> QED BY <2>5, <3>2 DEF Gap
  <2> QED BY <1>7, <1>12, <2>2, <2>3, <2>4, <2>5 DEF Recovery
<1>21. Held' BY <1>2, <1>17, HeldStays DEF Kept
<1> QED BY <1>17, <1>18, <1>19, <1>20, <1>21 DEF Kept

LEMMA PrefixIs ==
    ASSUME NEW S, NEW s \in Seq(S), NEW t \in Seq(S)
    PROVE  IsPrefix(s, t) <=> Len(s) <= Len(t) /\ \A k \in 1..Len(s) : s[k] = t[k]
<1> DEFINE n == Len(s)
           a == SubSeq(s, 1, n)
           b == SubSeq(t, 1, n)
<1>0. n \in Nat /\ Len(t) \in Nat BY LenProperties
<1>1. ASSUME n <= Len(t)
      PROVE  a = b <=> \A k \in 1..n : s[k] = t[k]
  <2>1. (\A k \in 1..n : s[k] \in S) /\ (\A k \in 1..n : t[k] \in S)
    <3>1. \A k \in 1..n : k \in 1..Len(t) BY <1>0, <1>1
    <3> QED BY <3>1, ElementOfSeq
  <2>2. /\ a \in Seq(S) /\ Len(a) = IF 1 <= n THEN n - 1 + 1 ELSE 0
        /\ \A k \in 1..n - 1 + 1 : a[k] = s[1 + k - 1]
    BY <1>0, <2>1, SubSeqProperties
  <2>3. /\ b \in Seq(S) /\ Len(b) = IF 1 <= n THEN n - 1 + 1 ELSE 0
        /\ \A k \in 1..n - 1 + 1 : b[k] = t[1 + k - 1]
    BY <1>0, <2>1, SubSeqProperties
  <2> HIDE DEF a, b
  <2>4. Len(a) = n /\ Len(b) = n BY <1>0, <2>2, <2>3
  <2>5. \A k \in 1..n : a[k] = s[k] /\ b[k] = t[k]
    <3> TAKE k \in 1..n
    <3>1. k \in 1..n - 1 + 1 /\ 1 + k - 1 = k BY <1>0
    <3> QED BY <2>2, <2>3, <3>1
  <2>6. (\A k \in 1..n : s[k] = t[k]) => a = b BY <2>2, <2>3, <2>4, <2>5, SeqEqual
  <2> QED BY <2>5, <2>6
<1> QED BY <1>1 DEF IsPrefix

\* A list that does not get shorter has no new gap.
LEMMA GapStays ==
    ASSUME Typing, Gap, UNCHANGED <<recovery, lastSeq>>, Len(known') >= Len(known), Len(known') \in Nat
    PROVE  Gap'
<1>1. PICK a \in Nat, b \in Nat : a = recovery.after /\ b = Len(recovery.tail)
  BY LenProperties DEF Typing, Typed, Recovery
<1>2. /\ recovery.step = "idle" => lastSeq <= Len(known)
      /\ recovery.step # "idle" => a <= Len(known)
      /\ recovery.step = "answered" => lastSeq <= Len(known) \/ lastSeq <= a + b
  BY <1>1 DEF Gap
<1>3. lastSeq \in Nat /\ Len(known) \in Nat BY LenProperties DEF Typing, Typed
<1>4. /\ recovery.step = "idle" => lastSeq <= Len(known')
      /\ recovery.step # "idle" => a <= Len(known')
      /\ recovery.step = "answered" => lastSeq <= Len(known') \/ lastSeq <= a + b
  BY <1>1, <1>2, <1>3
<1> QED BY <1>1, <1>4 DEF Gap

\* An answer that is no shorter than the list, and no older, replaces it.
LEMMA AnswerKeeps ==
    ASSUME Typing, Typing', Quiet, Kept, NEW r \in Requests,
           UNCHANGED <<pending, recovery, lastSeq, retry>>,
           known' = answer[r].list, Len(answer[r].list) >= Len(known),
           fresh' = answer[r].shifts, answer[r].shifts >= fresh,
           \A n \in Mine : n \in ToSet(local) => n \in ToSet(local') \/ n \in ToSet(known'),
           \A n \in Mine : request'[n] \notin {"none", "rejected"} => request[n] \notin {"none", "rejected"}
    PROVE  Kept'
<1>1. /\ known \in Seq(Messages) /\ fresh \in Nat /\ known' \in Seq(Messages)
      /\ Len(chat) \in Nat /\ Len(known) \in Nat /\ chat' = chat /\ shifts \in Nat
  BY LenProperties DEF Typing, Typed, Quiet
<1>2. PICK l \in Seq(Messages), w \in Nat : l = answer[r].list /\ w = answer[r].shifts BY AnswerSaved
<1>3. Len(l) \in Nat /\ \A x : x \in ToSet(l) <=> \E k \in 1..Len(l) : l[k] = x BY SetIs
<1>4. known' = l /\ Len(l) >= Len(known) /\ fresh' = w /\ w >= fresh BY <1>2
<1>5. ASSUME NEW p \in 1..Len(l) PROVE Item(p, l[p], w) /\ p \in 1..Len(chat)
  <2>1. Item(p, l[p], w) BY <1>2 DEF Item
  <2> QED BY <2>1 DEF Typing, Reads, Read
<1>6. CuresStay
  <2>1. \A e : Flying(e) => Flying(e)' BY DEF Flying
  <2> QED BY <1>1, <2>1, CuresLeft
<1>7. ASSUME NEW p \in 1..Len(l)
      PROVE  Covered(p)' /\ (l[p] = chat[p] \/ Safe(l[p]))
  <2>1. Item(p, l[p], w) /\ p \in 1..Len(chat) BY <1>5
  <2>2. CASE l[p] = chat[p]
    <3>1. p <= Len(known') /\ known'[p] = chat'[p] BY <1>1, <1>3, <1>4, <2>2
    <3> QED BY <2>2, <3>1 DEF Shown, Covered
  <2>3. CASE l[p] # chat[p]
    <3>1. Safe(l[p]) /\ w < shifts /\ (fresh > w \/ Cure(p, w)) BY <2>1, <2>3, Misplaced DEF Kept
    <3>2. Cure(p, w) BY <1>1, <1>4, <3>1
    <3>3. -1 \in Int /\ -1 <= w /\ w \in Int /\ -1 < shifts BY <1>1
    <3>4. Cure(p, -1) BY <3>2, <3>3, CureWeakens
    <3>5. Cure(p, -1)' \/ Shown(p)' BY <1>6, <2>1, <3>3, <3>4 DEF CuresStay
    <3> QED BY <3>1, <3>5 DEF Covered
  <2> QED BY <2>2, <2>3
<1>8. ShownStays
  <2> SUFFICES ASSUME NEW p \in 1..Len(chat), Shown(p) PROVE Covered(p)' BY DEF ShownStays
  <2>1. p \in 1..Len(l) BY <1>1, <1>3, <1>4 DEF Shown
  <2> QED BY <1>7, <2>1
<1>9. (\A x : Safe(x) => Safe(x)') /\ Fits'
  <2>1. fresh' \in Nat /\ fresh' >= fresh BY <1>4
  <2> QED BY <1>6, <1>8, <2>1, Carry DEF Kept
<1>10. KnownIn'
  <2>1. Len(l) <= Len(chat)
    <3>1. Len(l) > 0 => Len(l) \in 1..Len(l) BY <1>3
    <3> QED BY <1>1, <1>3, <1>5, <3>1
  <2>2. ASSUME NEW p \in 1..Len(known'), NEW x, x = known'[p] PROVE Covered(p)' /\ Safe(x)'
    <3>1. p \in 1..Len(l) /\ x = l[p] BY <1>4, <2>2
    <3>2. Covered(p)' /\ p \in 1..Len(chat) BY <1>5, <1>7, <3>1
    <3>3. CASE l[p] = chat[p] BY <1>1, <3>1, <3>2, <3>3 DEF Safe
    <3>4. CASE l[p] # chat[p]
      <4>1. Safe(x) BY <1>7, <3>1, <3>4
      <4> QED BY <1>9, <3>2, <4>1
    <3> QED BY <3>3, <3>4
  <2> QED BY <1>1, <1>4, <2>1, <2>2, KnownFrom
<1>11. Own' BY <1>1, <1>9, <1>10, OwnCarry DEF Kept
<1>12. Gap'
  <2>1. Len(known') >= Len(known) /\ Len(known') \in Nat BY <1>3, <1>4
  <2> QED BY <2>1, GapStays DEF Kept
<1>13. Held' BY <1>9, HeldStays DEF Kept
<1> QED BY <1>9, <1>10, <1>11, <1>12, <1>13 DEF Kept

\* The answer to the tab's own send replaces its list, or is older and only
\* clears its bubbles.
LEMMA MergeKeeps ==
    ASSUME Typing, Typing', Quiet, Kept, NEW m \in Users, Merge(m), excuse' = {}, excuse = {}
    PROVE  Kept'
<1>0. /\ UNCHANGED <<pending, recovery, lastSeq, retry>>
      /\ request[m] = "saved" /\ request' = [request EXCEPT ![m] = "over"]
      /\ known' = Longer(answer[m].list)
      /\ local' = OnTheirWay(ToSet(answer[m].list) \union ToSet(known))
      /\ m \in Requests
  BY DEF Merge, Requests
<1>1. /\ known \in Seq(Messages) /\ local \in Seq(Users) /\ IsInjective(local)
      /\ ToSet(local) \intersect ToSet(known) = {}
      /\ fresh \in Nat /\ known' \in Seq(Messages) /\ Len(chat) \in Nat /\ Len(known) \in Nat
      /\ chat' = chat /\ shifts \in Nat
  BY LenProperties DEF Typing, Typed, OnScreen, Quiet
<1>2. PICK l \in Seq(Messages), w \in Nat : l = answer[m].list /\ w = answer[m].shifts
  BY <1>0, AnswerSaved
<1>3. Len(l) \in Nat /\ \A x : x \in ToSet(l) <=> \E k \in 1..Len(l) : l[k] = x BY SetIs
<1>4. known' = IF Len(l) >= Len(known) THEN l ELSE known BY <1>0, <1>2 DEF Longer
<1>5. /\ Len(l) >= Len(known) => fresh' = w /\ w >= fresh
      /\ ~(Len(l) >= Len(known)) => fresh' = fresh
  <2>1. CASE Len(l) >= Len(known)
    <3>1. Applied(w) BY <1>2, <2>1 DEF Merge
    <3>2. fresh' = Max({fresh, w}) /\ ~(w < fresh) BY <3>1 DEF Applied
    <3>3. fresh' = IF fresh >= w THEN fresh ELSE w BY <1>1, <3>2, MaxIs
    <3> QED BY <1>1, <2>1, <3>2, <3>3
  <2>2. CASE ~(Len(l) >= Len(known)) BY <1>2, <2>2 DEF Merge, history
  <2> QED BY <2>1, <2>2
<1>6. ToSet(local') = ToSet(local) \ (ToSet(l) \union ToSet(known)) BY <1>0, <1>1, <1>2, OnTheirWayIs
<1>7. \A n \in Mine : request'[n] \notin {"none", "rejected"} => request[n] \notin {"none", "rejected"}
  BY <1>0, PostFacts DEF Users
<1>8. CASE Len(l) >= Len(known)
  <2>1. known' = l /\ fresh' = w /\ w >= fresh BY <1>4, <1>5, <1>8
  <2>2. \A n \in Mine : n \in ToSet(local) => n \in ToSet(local') \/ n \in ToSet(known')
    BY <1>1, <1>6, <2>1
  <2> QED BY <1>0, <1>2, <1>7, <1>8, <2>1, <2>2, AnswerKeeps
<1>9. CASE ~(Len(l) >= Len(known))
  <2>1. known' = known /\ fresh' = fresh BY <1>4, <1>5, <1>9
  <2>2. CuresStay
    <3>1. \A e : Flying(e) => Flying(e)' BY <1>0 DEF Flying
    <3> QED BY <1>0, <1>1, <3>1, CuresLeft
  <2>3. Fits' /\ KnownIn' /\ \A x : Safe(x) => Safe(x)' BY <2>1, <2>2, ListLeft
  <2>4. ASSUME NEW n \in ToSet(l) PROVE Safe(n)
    <3>1. PICK p \in 1..Len(l) : l[p] = n BY <1>3
    <3>2. Item(p, n, w) /\ p \in 1..Len(chat)
      <4>1. Item(p, n, w) BY <1>0, <1>2, <3>1 DEF Item
      <4> QED BY <4>1 DEF Typing, Reads, Read
    <3>3. CASE chat[p] = n
      <4>1. p \in 1..Len(known) BY <1>1, <1>3, <1>9
      <4>2. Covered(p) BY <4>1 DEF Kept, KnownIn
      <4> QED BY <3>2, <3>3, <4>2 DEF Safe
    <3>4. CASE chat[p] # n BY <3>2, <3>4, Misplaced DEF Kept
    <3> QED BY <3>3, <3>4
  <2>5. Own'
    <3>1. \A n \in Mine : n \in ToSet(local) => n \in ToSet(local') \/ Safe(n)'
      BY <1>1, <1>6, <2>3, <2>4
    <3> QED BY <1>1, <1>7, <2>3, <3>1, OwnCarry DEF Kept
  <2>6. Gap' BY <1>0, <2>1 DEF Gap, Kept
  <2>7. Held' BY <1>0, <2>3, HeldStays DEF Kept
  <2> QED BY <2>3, <2>5, <2>6, <2>7 DEF Kept
<1> QED BY <1>8, <1>9

\* So does the answer to new settings, with nothing of the list or its bubbles
\* left out.
LEMMA SettingsKeeps ==
    ASSUME Typing, Typing', Quiet, Kept, ShowSettings, excuse' = {}
    PROVE  Kept'
<1>0. /\ UNCHANGED <<pending, request, retry, recovery, lastSeq>> /\ Settings \in Requests
      /\ known' = answer[Settings].list /\ local' = <<>>
      /\ fresh' = Max({fresh, answer[Settings].shifts})
      /\ ~(answer[Settings].shifts < fresh)
      /\ ~(Len(answer[Settings].list) < Len(known))
      /\ OnTheirWay(ToSet(answer[Settings].list)) = <<>>
  BY DEF ShowSettings, Requests
<1>1. /\ Len(known) \in Nat /\ local \in Seq(Users) /\ IsInjective(local) /\ fresh \in Nat
  BY LenProperties DEF Typing, Typed
<1>2. PICK l \in Seq(Messages), w \in Nat : l = answer[Settings].list /\ w = answer[Settings].shifts
  BY <1>0, AnswerSaved
<1>3. Len(l) \in Nat /\ Len(l) >= Len(known)
  <2>1. Len(l) \in Nat BY SetIs
  <2> QED BY <1>0, <1>1, <1>2, <2>1
<1>4. fresh' = w /\ w >= fresh
  <2>1. fresh' = Max({fresh, w}) /\ ~(w < fresh) BY <1>0, <1>2
  <2>2. fresh' = IF fresh >= w THEN fresh ELSE w BY <1>1, <2>1, MaxIs
  <2> QED BY <1>1, <2>1, <2>2
<1>5. ToSet(local) \subseteq ToSet(l)
  <2>1. ToSet(OnTheirWay(ToSet(l))) = ToSet(local) \ ToSet(l) BY <1>1, OnTheirWayIs
  <2>2. ToSet(OnTheirWay(ToSet(l))) = {} BY <1>0, <1>2 DEF ToSet
  <2> QED BY <2>1, <2>2
<1>6. \A n \in Mine : n \in ToSet(local) => n \in ToSet(local') \/ n \in ToSet(known')
  BY <1>0, <1>2, <1>5
<1> QED BY <1>0, <1>2, <1>3, <1>4, <1>6, AnswerKeeps

\* A failed reply's bubble joined the list where it belongs, or the guess is
\* counted.
LEMMA ReplyFailsKeeps ==
    ASSUME Typing, Typing', Quiet, Kept, NEW m \in Users, ReplyFails(m), excuse' = {}
    PROVE  Kept'
<1>0. /\ UNCHANGED <<pending, recovery, retry, lastSeq, fresh>>
      /\ request[m] \in {"sent", "saved"} /\ request' = [request EXCEPT ![m] = "over"]
      /\ local' = OnTheirWay({m})
  BY DEF ReplyFails
<1>1. /\ known \in Seq(Messages) /\ local \in Seq(Users) /\ IsInjective(local)
      /\ fresh \in Nat /\ known' \in Seq(Messages) /\ Len(chat) \in Nat /\ Len(known) \in Nat
      /\ chat' = chat /\ chat \in Seq(Messages) /\ m \in Messages
  BY LenProperties DEF Typing, Typed, Quiet, Messages, Users
<1>2. ToSet(local') = ToSet(local) \ {m} BY <1>0, <1>1, OnTheirWayIs
<1>3. \A n \in Mine : request'[n] \notin {"none", "rejected"} => request[n] \notin {"none", "rejected"}
  <2>1. \A n \in Users : n # m => request'[n] = request[n] BY <1>0, PostFacts
  <2> QED BY <1>0, <2>1 DEF Users
<1>4. \A e : Flying(e) => Flying(e)' BY <1>0 DEF Flying
<1>5. CASE m \notin ToSet(local)
  <2>1. known' = known BY <1>5 DEF ReplyFails
  <2>2. \A n \in Mine : n \in ToSet(local) => n \in ToSet(local') BY <1>2, <1>5
  <2> QED BY <1>0, <1>3, <1>4, <2>1, <2>2, AsideKeeps
<1>6. CASE m \in ToSet(local)
  <2>1. known' = Append(known, m) BY <1>6 DEF ReplyFails
  <2>2. IsPrefix(known', chat)
    <3>1. excuse' = IF m \in ToSet(local) /\ ~IsPrefix(known', chat)
                    THEN excuse \union {"guessed"} ELSE excuse
      BY DEF ReplyFails
    <3> QED BY <1>6, <3>1
  <2>3. PICK s \in Seq(Messages) : s = known' BY <1>1
  <2>4. Len(s) <= Len(chat) /\ \A k \in 1..Len(s) : s[k] = chat[k] BY <1>1, <2>2, <2>3, PrefixIs
  <2>5. Len(s) = Len(known) + 1 /\ ToSet(s) = ToSet(known) \union {m} BY <1>1, <2>1, <2>3, AppendIs
  <2>6. ASSUME NEW p \in 1..Len(s) PROVE Shown(p)' /\ p \in 1..Len(chat)
    BY <1>1, <2>3, <2>4, <2>5 DEF Shown
  <2>7. CuresStay BY <1>0, <1>1, <1>4, CuresLeft
  <2>8. ShownStays
    <3> SUFFICES ASSUME NEW p \in 1..Len(chat), Shown(p) PROVE Covered(p)' BY DEF ShownStays
    <3>1. p \in 1..Len(s) BY <1>1, <2>5 DEF Shown
    <3> QED BY <2>6, <3>1 DEF Covered
  <2>9. (\A x : Safe(x) => Safe(x)') /\ Fits'
    <3>1. fresh' \in Nat /\ fresh' >= fresh BY <1>0, <1>1
    <3> QED BY <2>7, <2>8, <3>1, Carry DEF Kept
  <2>10. KnownIn'
    <3>1. ASSUME NEW p \in 1..Len(known'), NEW x, x = known'[p] PROVE Covered(p)' /\ Safe(x)'
      <4>1. p \in 1..Len(s) /\ x = s[p] BY <2>3, <3>1
      <4>2. Covered(p)' /\ p \in 1..Len(chat) /\ x = chat[p] BY <2>4, <2>6, <4>1 DEF Covered
      <4>3. Safe(x)' BY <1>1, <4>2 DEF Safe
      <4> QED BY <4>2, <4>3
    <3> QED BY <1>1, <2>3, <2>4, <3>1, KnownFrom
  <2>11. Own'
    <3>1. \A n \in Mine : n \in ToSet(local) => n \in ToSet(local') \/ n \in ToSet(known')
      BY <1>2, <2>3, <2>5
    <3> QED BY <1>1, <1>3, <2>9, <2>10, <3>1, OwnCarry DEF Kept
  <2>12. Gap'
    <3>1. Len(known') >= Len(known) /\ Len(known') \in Nat BY <1>1, <2>3, <2>5
    <3> QED BY <1>0, <3>1, GapStays DEF Kept
  <2>13. Held' BY <1>0, <2>9, HeldStays DEF Kept
  <2> QED BY <2>9, <2>10, <2>11, <2>12, <2>13 DEF Kept
<1> QED BY <1>5, <1>6

\* A message that is put above others is published with all it moved.
LEMMA MovedAreSent ==
    ASSUME Typing', NEW m, NEW q, Grows(m, q), q <= Len(chat),
           NEW p \in q..Len(chat'), NEW u \in Int, u < shifts'
    PROVE  Sent(p, u)'
<1>1. m \in Messages /\ pending' \in [Messages -> Seq(Event)] BY DEF Grows
<1>2. PICK e : e = Says(chat', p, q, shifts') OBVIOUS
<1>3. e \in ToSet(pending'[m]) BY <1>2 DEF Grows
<1>4. e \in Event
  <2>1. PICK es \in Seq(Event) : es = pending'[m] BY <1>1
  <2> QED BY <1>3, <2>1, SetIs
<1>5. Flying(e)' BY <1>1, <1>3 DEF Flying
<1>6. q \in Int BY DEF Grows
<1>7. p >= q BY <1>6
<1>8. e.moved BY <1>2, <1>7 DEF Says
<1>9. e.place = p /\ e.message = chat'[p] /\ e.shifts > u BY <1>2 DEF Says
<1> QED BY <1>4, <1>5, <1>8, <1>9 DEF Sent

LEMMA GrowKeeps ==
    ASSUME Typing, Typing', Kept, NEW m, NEW q, Grows(m, q),
           \A n \in Mine : request[n] \in {"none", "rejected"} <=> request'[n] \in {"none", "rejected"}
    PROVE  Kept'
<1>0. UNCHANGED <<answer, retry, recovery, known, local, lastSeq, fresh>> BY DEF Grows, view, history
<1>1. /\ m \in Messages /\ m \notin ToSet(chat) /\ q \in 1..Len(chat) + 1
      /\ Len(chat') = Len(chat) + 1
      /\ \A k \in 1..q - 1 : chat'[k] = chat[k]
      /\ \A k \in q..Len(chat) : chat'[k + 1] = chat[k]
      /\ shifts' = IF q <= Len(chat) THEN shifts + 1 ELSE shifts
      /\ \A y \in Messages : y # m => pending'[y] = pending[y]
  BY DEF Grows
<1>2. Len(chat) \in Nat /\ shifts \in Nat /\ Len(known) \in Nat /\ known \in Seq(Messages) /\ fresh \in Nat
  BY LenProperties DEF Typing, Typed
<1>3. \A e : Flying(e) => Flying(e)'
  <2>1. ToSet(pending[m]) = {}
    <3>1. pending[m] = <<>> BY <1>1 DEF Typing, Unsaved
    <3> QED BY <3>1 DEF ToSet
  <2> QED BY <1>1, <2>1 DEF Flying
<1>4. ASSUME NEW p \in 1..q - 1
      PROVE  /\ \A u : Cure(p, u) => Cure(p, u)'
             /\ Shown(p) => Shown(p)'
  <2>1. chat'[p] = chat[p] BY <1>1
  <2>2. ASSUME NEW u, Sent(p, u) PROVE Sent(p, u)' BY <1>3, <2>1, <2>2 DEF Sent
  <2>3. ASSUME NEW u, Asked(p) \/ Answered(p, u) PROVE (Asked(p) \/ Answered(p, u))'
    BY <1>0, <2>1, <2>3 DEF Asked, Answered
  <2>4. Shown(p) => Shown(p)' BY <1>0, <2>1 DEF Shown
  <2> QED BY <2>2, <2>3, <2>4 DEF Cure
<1>5. ASSUME q <= Len(chat), NEW p \in q..Len(chat'), NEW u \in Int, u < shifts'
      PROVE  Cure(p, u)'
  <2>1. Sent(p, u)' BY <1>5, MovedAreSent
  <2> QED BY <2>1 DEF Cure
<1>6. ASSUME q <= Len(chat), NEW p \in q..Len(chat') PROVE Covered(p)'
  <2>1. -1 \in Int /\ -1 < shifts' BY <1>1, <1>2
  <2> QED BY <1>5, <1>6, <2>1 DEF Covered
<1>7. ASSUME NEW p \in 1..Len(chat), Covered(p) PROVE Covered(p)'
  <2>1. CASE p < q
    <3>1. p \in 1..q - 1 BY <1>1, <1>2, <2>1
    <3> QED BY <1>4, <1>7, <3>1 DEF Covered
  <2>2. CASE ~(p < q)
    <3>1. q <= Len(chat) /\ p \in q..Len(chat') BY <1>1, <1>2, <2>2
    <3> QED BY <1>6, <3>1
  <2> QED BY <2>1, <2>2
<1>8. ASSUME q <= Len(chat), NEW j \in q..Len(chat), NEW x, chat[j] = x PROVE Safe(x)'
  <2>1. j + 1 \in 1..Len(chat') /\ j + 1 \in q..Len(chat') /\ chat'[j + 1] = x BY <1>1, <1>2, <1>8
  <2>2. Covered(j + 1)' BY <1>6, <1>8, <2>1
  <2> QED BY <2>1, <2>2 DEF Safe
<1>9. ASSUME NEW x, Safe(x) PROVE Safe(x)'
  <2>1. PICK j \in 1..Len(chat) : chat[j] = x /\ Covered(j) BY <1>9 DEF Safe
  <2>2. CASE j < q
    <3>1. j \in 1..q - 1 /\ j \in 1..Len(chat') BY <1>1, <1>2, <2>2
    <3>2. chat'[j] = x /\ Covered(j)' BY <1>1, <1>7, <2>1, <3>1
    <3> QED BY <3>1, <3>2 DEF Safe
  <2>3. CASE ~(j < q)
    <3>1. q <= Len(chat) /\ j \in q..Len(chat) BY <1>1, <1>2, <2>3
    <3> QED BY <1>8, <2>1, <3>1
  <2> QED BY <2>2, <2>3
<1>10. Fits'
  <2> SUFFICES ASSUME NEW p, NEW x, NEW u, Item(p, x, u)' PROVE Fit(p, x, u)' BY DEF Fits
  <2>1. CASE p \in 1..Len(chat') /\ x = chat'[p] /\ u = shifts' BY <2>1 DEF Fit
  <2>2. CASE Item(p, x, u)
    <3>1. Fit(p, x, u) /\ p \in 1..Len(chat) /\ u \in Nat /\ u <= shifts
      BY <2>2 DEF Kept, Fits, Typing, Reads, Read
    <3>2. CASE p < q
      <4>1. p \in 1..q - 1 BY <1>1, <1>2, <3>1, <3>2
      <4>2. CASE chat[p] = x BY <1>1, <4>1, <4>2 DEF Fit
      <4>3. CASE Safe(x) /\ fresh > u BY <1>0, <1>9, <4>3 DEF Fit
      <4>4. CASE Safe(x) /\ Cure(p, u) BY <1>4, <1>9, <4>1, <4>4 DEF Fit
      <4> QED BY <3>1, <4>2, <4>3, <4>4 DEF Fit
    <3>3. CASE ~(p < q)
      <4>1. q <= Len(chat) /\ p \in q..Len(chat) /\ p \in q..Len(chat') BY <1>1, <1>2, <3>1, <3>3
      <4>2. u \in Int /\ u < shifts' BY <1>1, <1>2, <3>1, <4>1
      <4>3. Cure(p, u)' BY <1>5, <4>1, <4>2
      <4>4. CASE chat[p] = x BY <1>8, <4>1, <4>3, <4>4 DEF Fit
      <4>5. CASE chat[p] # x BY <1>9, <3>1, <4>3, <4>5 DEF Fit
      <4> QED BY <4>4, <4>5
    <3> QED BY <3>2, <3>3
  <2>3. NewItems BY GrownItems
  <2> QED BY <2>1, <2>2, <2>3 DEF NewItems
<1>11. KnownIn'
  <2>1. Len(known) <= Len(chat) /\ \A p \in 1..Len(known) : Covered(p) /\ Safe(known[p])
    BY DEF Kept, KnownIn
  <2>2. ASSUME NEW p \in 1..Len(known'), NEW x, x = known'[p] PROVE Covered(p)' /\ Safe(x)'
    <3>1. p \in 1..Len(chat) /\ Covered(p) /\ Safe(x) BY <1>0, <1>2, <2>1, <2>2
    <3> QED BY <1>7, <1>9, <3>1
  <2> QED BY <1>0, <1>1, <1>2, <2>1, <2>2, KnownFrom
<1>12. Own' BY <1>0, <1>9 DEF Kept, Own
<1>13. Gap' BY <1>0 DEF Kept, Gap
<1>14. Held' BY <1>0, <1>9, HeldStays DEF Kept
<1> QED BY <1>10, <1>11, <1>12, <1>13, <1>14 DEF Kept

LEMMA ListInit == ASSUME ChatInit PROVE ListInv
<1>1. Typing BY TypingInit
<1>2. /\ recovery = Idle /\ known = <<>> /\ chat = <<>> /\ lastSeq = 0
      /\ pending = [m \in Messages |-> <<>>] /\ retry = NoRetry
      /\ request = [m \in Users |-> IF m \in Mine THEN "none" ELSE "over"]
  BY DEF ChatInit
<1>3. Len(known) = 0 /\ Len(chat) = 0 BY <1>2
<1>4. Fits
  <2>1. \A p, x, u : Item(p, x, u) => p \in 1..Len(chat) BY <1>1 DEF Typing, Reads, Read
  <2> QED BY <1>3, <2>1 DEF Fits
<1>5. KnownIn BY <1>3 DEF KnownIn
<1>6. Own BY <1>2 DEF Own, Users
<1>7. Gap BY <1>2, <1>3, IdleIs DEF Gap
<1>8. Held BY <1>2 DEF Held, NoRetry
<1> QED BY <1>1, <1>4, <1>5, <1>6, <1>7, <1>8 DEF ListInv, Kept

\* What happened is not taken back.
LEMMA ExcusesStay == ASSUME [ChatNext]_chatVars, excuse' = {} PROVE excuse = {}
<1>1. CASE UNCHANGED chatVars BY <1>1 DEF chatVars, history
<1>2. CASE \E m \in Elsewhere \union Nudges : Arrive(m) BY <1>2 DEF Arrive, history
<1>3. CASE Draft BY <1>3 DEF Draft, history
<1>4. CASE \E r \in Replies : Commit(r) BY <1>4 DEF Commit, history
<1>5. ASSUME NEW m \in Messages, Push(m) PROVE excuse = {}
  <2> DEFINE dropped == Head(pending[m]).place > Len(known) + 1
  <2>1. CASE dropped
    <3>1. excuse' = IF recovery.step = "answered" THEN excuse \union {"overrun"} ELSE excuse
      BY <1>5, <2>1 DEF Push
    <3> QED BY <3>1
  <2>2. CASE ~dropped
    <3>1. Applied(Head(pending[m]).shifts) BY <1>5, <2>2 DEF Push
    <3> QED BY <3>1 DEF Applied
  <2> QED BY <2>1, <2>2
<1>6. CASE \E m \in Messages : Lose(m) BY <1>6 DEF Lose
<1>7. CASE ServeRecovery BY <1>7 DEF ServeRecovery, history
<1>8. CASE Recover BY <1>8 DEF Recover, Applied
<1>9. CASE RecoveryFails BY <1>9 DEF RecoveryFails
<1>10. CASE Connect \/ Join \/ Close BY <1>10 DEF Connect, Join, Close, history
<1>11. CASE (\E m \in Mine : Send(m)) \/ \E m \in Users : Save(m) \/ Respond(m) \/ NoReply(m) \/ Reject(m)
  BY <1>11 DEF Send, Save, Respond, NoReply, Reject, history
<1>12. ASSUME NEW m \in Users, Merge(m) PROVE excuse = {}
  <2>1. Applied(answer[m].shifts) \/ excuse' = excuse BY <1>12 DEF Merge, history
  <2> QED BY <2>1 DEF Applied
<1>13. ASSUME NEW m \in Users, ReplyFails(m) PROVE excuse = {} BY <1>13 DEF ReplyFails
<1>14. CASE Resend \/ (\E i \in DOMAIN known : Retry(i)) \/ RetryAccepted \/ RetryFails
  BY <1>14 DEF Resend, Retry, RetryAccepted, RetryFails, history
<1>15. CASE RetryRefused \/ RetryTurnedAway BY <1>15 DEF RetryRefused, RetryTurnedAway
<1>16. CASE ChangeSettings \/ ShowSettings \/ SettingsLost
  BY <1>16 DEF ChangeSettings, ShowSettings, SettingsLost, history
<1> QED BY <1>1, <1>2, <1>3, <1>4, <1>5, <1>6, <1>7, <1>8, <1>9, <1>10, <1>11, <1>12, <1>13, <1>14,
          <1>15, <1>16
        DEF ChatNext

LEMMA ListStep == ASSUME ListInv, [ChatNext]_chatVars PROVE ListInv'
<1>0. Typing BY DEF ListInv
<1>1. Typing' BY <1>0, TypingStep
<1> SUFFICES ASSUME excuse' = {} PROVE Kept' BY <1>1 DEF ListInv
<1>2. Kept /\ excuse = {} BY ExcusesStay DEF ListInv
<1>3. CASE UNCHANGED chatVars
  <2>1. /\ UNCHANGED <<chat, shifts, answer, recovery>> /\ \A e : Flying(e)' => Flying(e)
    BY <1>3 DEF chatVars, server, posting, Flying
  <2>2. Quiet BY <1>0, <2>1, ItemsLeft
  <2> QED BY <1>0, <1>1, <1>2, <1>3, <2>2, AsideSteps
<1>4. ASSUME NEW m \in Elsewhere \union Nudges, Arrive(m) PROVE Kept'
  <2>1. Grows(m, Len(chat) + 1) /\ request' = request BY <1>0, <1>4, ArriveGrows DEF Arrive, posting
  <2> QED BY <1>0, <1>1, <1>2, <2>1, GrowKeeps
<1>5. CASE Draft BY <1>0, <1>1, <1>2, <1>5, DraftQuiet, AsideSteps
<1>6. ASSUME NEW r \in Replies, Commit(r) PROVE Kept'
  <2>1. PICK q \in 1..Len(chat) + 1 : Grows(r, q) BY <1>0, <1>6, CommitTyping
  <2>2. request' = request BY <1>6 DEF Commit, posting
  <2> QED BY <1>0, <1>1, <1>2, <2>1, <2>2, GrowKeeps
<1>7. ASSUME NEW m \in Messages, Push(m) PROVE Kept' BY <1>0, <1>1, <1>2, <1>7, PushQuiet, PushKeeps
<1>8. ASSUME NEW m \in Messages, Lose(m) PROVE Kept' BY <1>0, <1>1, <1>2, <1>8, LoseQuiet, LoseKeeps
<1>9. CASE ServeRecovery BY <1>0, <1>1, <1>2, <1>9, ServeQuiet, ServeKeeps
<1>10. CASE Recover BY <1>0, <1>1, <1>2, <1>10, RecoverQuiet, RecoverKeeps
<1>11. CASE RecoveryFails BY <1>11 DEF RecoveryFails
<1>12. CASE Connect BY <1>0, <1>1, <1>2, <1>12, LinkSteps, ConnectKeeps
<1>13. CASE Join \/ Close BY <1>0, <1>1, <1>2, <1>13, LinkSteps, AsideSteps
<1>14. CASE (\E m \in Mine : Send(m)) \/ \E m \in Users : Respond(m) \/ NoReply(m) \/ Reject(m)
  <2>1. Quiet BY <1>0, <1>14, SendQuiet, RespondQuiet, NoReplyQuiet, RejectQuiet
  <2> QED BY <1>0, <1>1, <1>2, <1>14, <2>1, AsideSteps
<1>15. ASSUME NEW m \in Users, Save(m) PROVE Kept'
  <2>1. \A n \in Mine : request[n] \in {"none", "rejected"} <=> request'[n] \in {"none", "rejected"}
    BY <1>0, <1>15, SaveTyping DEF Users
  <2>2. CASE Grows(m, Len(chat) + 1) BY <1>0, <1>1, <1>2, <2>1, <2>2, GrowKeeps
  <2>3. CASE Quiet /\ UNCHANGED <<pending, answer, retry, recovery, connection, view, history>>
    <3>1. UNCHANGED <<known, local, lastSeq, recovery, fresh>> /\ \A e \in Event : Flying(e) => Flying(e)'
      BY <2>3 DEF view, history, Flying
    <3> QED BY <1>0, <1>1, <1>2, <2>1, <2>3, <3>1, AsideKeeps
  <2> QED BY <1>0, <1>15, <2>2, <2>3, SaveTyping
<1>16. ASSUME NEW m \in Users, Merge(m) PROVE Kept' BY <1>0, <1>1, <1>2, <1>16, MergeQuiet, MergeKeeps
<1>17. ASSUME NEW m \in Users, ReplyFails(m) PROVE Kept'
  BY <1>0, <1>1, <1>2, <1>17, ReplyFailsQuiet, ReplyFailsKeeps
<1>18. CASE \/ Resend \/ \E i \in DOMAIN known : Retry(i)
            \/ RetryAccepted \/ RetryRefused \/ RetryTurnedAway \/ RetryFails
  <2>1. Quiet BY <1>0, <1>18, ResendQuiet, RetryQuiet, AcceptedQuiet, RefusedQuiet, TurnedAwayQuiet, FailsQuiet
  <2> QED BY <1>0, <1>1, <1>2, <1>18, <2>1, RetrySteps
<1>19. CASE ChangeSettings \/ SettingsLost BY <1>0, <1>1, <1>2, <1>19, SettingsQuiet, AsideSteps
<1>20. CASE ShowSettings BY <1>0, <1>1, <1>2, <1>20, SettingsQuiet, SettingsKeeps
<1> QED BY <1>3, <1>4, <1>5, <1>6, <1>7, <1>8, <1>9, <1>10, <1>11, <1>12, <1>13, <1>14, <1>15, <1>16, <1>17,
          <1>18, <1>19, <1>20
        DEF ChatNext

LEMMA ListHolds == ChatSpec => []ListInv
<1>1. ChatInit => ListInv BY ListInit
<1>2. ListInv /\ [ChatNext]_chatVars => ListInv' BY ListStep
<1> QED BY <1>1, <1>2, PTL DEF ChatSpec

-----------------------------------------------------------------------------
\* Once nothing is on its way to the tab and none of the six things that the
\* code does not repair has happened, its list is the chat up to some message,
\* and nothing it has counted is missing: however events were lost, and the
\* answers to sends, retries and new settings, recoveries and events were
\* interleaved (realtime.ts, messageQueue.ts, ChatPage.tsx).
THEOREM TabShowsAPrefix == ChatSpec => []ShowsAPrefix
<1>1. ASSUME ListInv PROVE ShowsAPrefix
  <2> SUFFICES ASSUME Settled, excuse = {} PROVE IsPrefix(known, chat) /\ lastSeq <= Len(known)
    BY DEF ShowsAPrefix
  <2>1. Kept /\ Typing BY <1>1 DEF ListInv
  <2>2. \A e : ~Flying(e)
    <3>1. ToSet(<<>>) = {} BY DEF ToSet
    <3> QED BY <3>1 DEF Settled, Flying
  <2>3. recovery.step = "idle" BY IdleIs DEF Settled
  <2>4. ASSUME NEW p \in 1..Len(known) PROVE known[p] = chat[p]
    <3>1. Covered(p) BY <2>1 DEF Kept, KnownIn
    <3> QED BY <2>2, <2>3, <3>1 DEF Covered, Cure, Sent, Asked, Answered, Shown
  <2>5. known \in Seq(Messages) /\ chat \in Seq(Messages) /\ Len(known) <= Len(chat)
    BY <2>1 DEF Typing, Typed, Kept, KnownIn
  <2>6. IsPrefix(known, chat) BY <2>4, <2>5, PrefixIs
  <2>7. lastSeq <= Len(known) BY <2>1, <2>3 DEF Kept, Gap
  <2> QED BY <2>6, <2>7
<1> QED BY <1>1, ListHolds, PTL

\* Unless one of those things has happened, a bubble the user wrote and that was
\* not turned away is on screen, or on its way back to it (messageQueue.ts:5).
THEOREM BubbleNeverVanishes == ChatSpec => []OwnBubbleKept
<1>1. ASSUME ListInv PROVE OwnBubbleKept
  <2> SUFFICES ASSUME excuse = {}, NEW m \in Mine, request[m] \notin {"none", "rejected"}
               PROVE  \/ m \in ToSet(known) \union ToSet(local) \union ToSet(recovery.tail)
                      \/ recovery.step = "asked" /\ m \in ToSet(SubSeq(chat, recovery.after + 1, Len(chat)))
                      \/ \E p \in Messages : \E e \in ToSet(pending[p]) : e.message = m
                      \/ \E q \in Requests : m \in ToSet(answer[q].list)
    BY DEF OwnBubbleKept
  <2>1. Kept /\ Typing BY <1>1 DEF ListInv
  <2>2. m \in ToSet(local) \/ Safe(m) BY <2>1 DEF Kept, Own
  <2>3. ASSUME NEW j \in 1..Len(chat), chat[j] = m, Covered(j)
        PROVE  \/ m \in ToSet(known) \union ToSet(recovery.tail)
               \/ recovery.step = "asked" /\ m \in ToSet(SubSeq(chat, recovery.after + 1, Len(chat)))
               \/ \E p \in Messages : \E e \in ToSet(pending[p]) : e.message = m
    <3>0. /\ chat \in Seq(Messages) /\ Len(chat) \in Nat /\ known \in Seq(Messages) /\ recovery \in Recovery
          /\ recovery.after <= Len(chat)
      BY <2>1, LenProperties DEF Typing, Typed
    <3>1. PICK a \in Nat, t \in Seq(Messages) : a = recovery.after /\ t = recovery.tail BY <3>0 DEF Recovery
    <3>2. CASE Shown(j)
      <4>1. Len(known) \in Nat /\ \A x : x \in ToSet(known) <=> \E k \in 1..Len(known) : known[k] = x
        BY <3>0, SetIs
      <4>2. j \in 1..Len(known) /\ known[j] = m BY <2>3, <3>2, <4>1 DEF Shown
      <4> QED BY <4>1, <4>2
    <3>3. CASE Sent(j, -1) BY <2>3, <3>3 DEF Sent, Flying
    <3>4. CASE Asked(j)
      <4>1. PICK s : s = SubSeq(chat, a + 1, Len(chat)) OBVIOUS
      <4>2. /\ s \in Seq(Messages) /\ Len(s) = Len(chat) - a
            /\ \A k \in 1..Len(chat) - a : s[k] = chat[a + k]
        BY <3>0, <3>1, <4>1, TailOfChat
      <4>3. j - a \in 1..Len(s) /\ a + (j - a) = j BY <3>0, <3>1, <3>4, <4>2 DEF Asked
      <4>4. s[j - a] = m BY <2>3, <4>2, <4>3
      <4>5. m \in ToSet(s) BY <4>2, <4>3, <4>4, SetIs
      <4> QED BY <3>1, <3>4, <4>1, <4>5 DEF Asked
    <3>5. CASE Answered(j, -1)
      <4>1. Len(t) \in Nat /\ \A x : x \in ToSet(t) <=> \E k \in 1..Len(t) : t[k] = x BY SetIs
      <4>2. a < j /\ j <= a + Len(t) /\ t[j - a] = m BY <2>3, <3>1, <3>5 DEF Answered
      <4>3. j - a \in 1..Len(t) BY <4>1, <4>2
      <4> QED BY <3>1, <4>1, <4>2, <4>3
    <3> QED BY <2>3, <3>2, <3>3, <3>4, <3>5 DEF Covered, Cure
  <2> QED BY <2>2, <2>3 DEF Safe
<1> QED BY <1>1, ListHolds, PTL

-----------------------------------------------------------------------------
(* The hubs and the log: Fanout.                                           *)

Notice == Calls \X Nat
Call == [n : Nat \ {0}, step : {"send", "append", "commit"}, id : Nat]

\* How many events call p has published.
Out(c) == IF c.step = "send" THEN c.n - 1 ELSE c.n

Issued(p) == Out(call[p])

Has(s, e) == \E k \in DOMAIN got[s] : got[s][k] = e

InBatch(i, r) == \E k \in DOMAIN batch[i] : batch[i][k] = r

Shape ==
    /\ socket \in [Sockets -> {"open", "broken", "closed"}]
    /\ rooms \in [Sockets -> SUBSET Chats]
    /\ \A s \in Sockets : rooms[s] # {} => socket[s] \in {"open", "broken"}
    /\ got \in [Sockets -> Seq(Notice)]
    /\ call \in [Calls -> Call]
    /\ \A p \in Calls : /\ call[p].n <= Sends[p] + 1 /\ call[p].id <= lastId
                        /\ call[p].step = "commit" => call[p].id > 0
    /\ lastId \in Nat /\ log \subseteq Row /\ \A r \in log : r.id \in 1..lastId
    /\ mark \in [Instances -> Int] /\ \A i \in Instances : mark[i] \in None..lastId
    /\ batch \in [Instances -> Seq(Row)]
    /\ waiting \in [Sockets -> SUBSET Row]

\* The rows of one call: of events it has left behind, in the order of its events.
Logged ==
    /\ \A r \in log : /\ r.from = From[r.call] /\ r.n \in 1..call[r.call].n - 1
                      /\ call[r.call].step = "commit" => r.id < call[r.call].id
    /\ \A q, r \in log : q.call = r.call /\ q.id < r.id => q.n < r.n

\* A batch is ahead of the mark, in the order of the log.
Ordered ==
    \A i \in Instances :
        /\ batch[i] # <<>> => mark[i] # None
        /\ \A k \in DOMAIN batch[i] :
              batch[i][k] \in log /\ batch[i][k].from # i /\ mark[i] < batch[i][k].id
        /\ \A j, k \in DOMAIN batch[i] : j < k => batch[i][j].id < batch[i][k].id

\* An event a socket has came from its own instance or from a row behind the mark.
Rightly(s, e) ==
    IF From[e[1]] = Home[s] THEN e[2] <= Issued(e[1])
    ELSE \E q \in log : q.call = e[1] /\ q.n = e[2] /\ q.id <= mark[Home[s]]

Given == \A s \in Sockets : \A k \in DOMAIN got[s] : Rightly(s, got[s][k])

\* A row that is waited for has arrived or is in the batch or past it.
Coming(s, r) ==
    /\ mark[Home[s]] < r.id
    /\ InBatch(Home[s], r) \/ \A k \in DOMAIN batch[Home[s]] : batch[Home[s]][k].id < r.id

Watched ==
    \A s \in Sockets : \A r \in waiting[s] :
        /\ r \in log /\ r.from # Home[s] /\ socket[s] = "open" /\ About[r.call] \in rooms[s]
        /\ mark[Home[s]] # None
        /\ Has(s, <<r.call, r.n>>) \/ Coming(s, r)

FanInv == Shape /\ Logged /\ Ordered /\ Given /\ Watched

-----------------------------------------------------------------------------
(* Lists.                                                                  *)

LEMMA AppendAdds ==
  ASSUME NEW S, NEW x \in Seq(S), NEW e \in S
  PROVE  /\ Append(x, e) \in Seq(S)
         /\ \A k \in DOMAIN Append(x, e) : \/ k \in DOMAIN x /\ Append(x, e)[k] = x[k]
                                          \/ Append(x, e)[k] = e
         /\ \A k \in DOMAIN x : k \in DOMAIN Append(x, e) /\ Append(x, e)[k] = x[k]
         /\ \E k \in DOMAIN Append(x, e) : Append(x, e)[k] = e
  BY LenProperties

LEMMA TailDrops ==
  ASSUME NEW S, NEW x \in Seq(S), x # <<>>
  PROVE  /\ Head(x) = x[1] /\ Head(x) \in S /\ 1 \in DOMAIN x /\ Tail(x) \in Seq(S)
         /\ DOMAIN x \subseteq Int /\ \A k \in DOMAIN x : k >= 1
         /\ \A k \in DOMAIN Tail(x) : k \in Int /\ k >= 1 /\ k + 1 \in DOMAIN x /\ Tail(x)[k] = x[k + 1]
         /\ \A k \in DOMAIN x : k = 1 \/ (k - 1 \in DOMAIN Tail(x) /\ Tail(x)[k - 1] = x[k])
<1>1. Len(x) \in Nat \ {0} /\ DOMAIN x = 1..Len(x) BY EmptySeq, LenProperties
<1>2. /\ Head(x) \in S /\ Tail(x) \in Seq(S) /\ Len(Tail(x)) = Len(x) - 1
      /\ \A k \in 1..Len(Tail(x)) : Tail(x)[k] = x[k + 1]
  BY HeadTailProperties
<1>3. DOMAIN Tail(x) = 1..Len(x) - 1 BY <1>2, LenProperties
<1>4. Head(x) = x[1] OBVIOUS
<1> QED BY <1>1, <1>2, <1>3, <1>4

\* A push on an instance: who has what afterwards, and who still waits.
LEMMA LocalPush ==
  ASSUME Shape, NEW i \in Instances, NEW p \in Calls, NEW n \in Nat, PublishLocal(i, p, n)
  PROVE  /\ socket' \in [Sockets -> {"open", "broken", "closed"}]
         /\ rooms' \in [Sockets -> SUBSET Chats]
         /\ \A s \in Sockets : rooms'[s] # {} => socket'[s] \in {"open", "broken"}
         /\ got' \in [Sockets -> Seq(Notice)]
         /\ waiting' \in [Sockets -> SUBSET Row]
         /\ \A s \in Sockets : \A k \in DOMAIN got'[s] :
               \/ k \in DOMAIN got[s] /\ got'[s][k] = got[s][k]
               \/ got'[s][k] = <<p, n>> /\ Home[s] = i
         /\ \A s \in Sockets : \A e : Has(s, e) => Has(s, e)'
         /\ \A s \in Sockets : Home[s] = i /\ About[p] \in rooms[s] /\ socket[s] = "open"
               => Has(s, <<p, n>>)'
         /\ \A s \in Sockets : socket[s] = "open" => socket'[s] = "open"
         /\ \A s \in Sockets : waiting'[s] \subseteq waiting[s]
               /\ \A w \in waiting'[s] : About[w.call] \in rooms'[s]
<1> DEFINE members == {s \in Sockets : Home[s] = i /\ About[p] \in rooms[s]}
           stale == {s \in members : socket[s] = "broken"}
<1>1. /\ got' = [s \in Sockets |-> IF s \in members /\ socket[s] = "open"
                                   THEN Append(got[s], <<p, n>>) ELSE got[s]]
      /\ socket' = [s \in Sockets |-> IF s \in stale THEN "closed" ELSE socket[s]]
      /\ rooms' = [s \in Sockets |-> IF s \in stale THEN {} ELSE rooms[s]]
      /\ waiting' = [s \in Sockets |-> {w \in waiting[s] : About[w.call] \in rooms'[s]}]
  BY DEF PublishLocal, Move, Without
<1>2. \A s \in stale : s \in Sockets /\ socket[s] = "broken" OBVIOUS
<1>3. <<p, n>> \in Notice BY DEF Notice
<1>4. ASSUME NEW s \in Sockets
      PROVE  /\ got'[s] \in Seq(Notice)
             /\ \A k \in DOMAIN got'[s] : \/ k \in DOMAIN got[s] /\ got'[s][k] = got[s][k]
                                          \/ got'[s][k] = <<p, n>> /\ Home[s] = i
             /\ \A k \in DOMAIN got[s] : k \in DOMAIN got'[s] /\ got'[s][k] = got[s][k]
             /\ Home[s] = i /\ About[p] \in rooms[s] /\ socket[s] = "open" => Has(s, <<p, n>>)'
  <2>1. got[s] \in Seq(Notice) BY DEF Shape
  <2>2. CASE s \in members /\ socket[s] = "open"
    <3> DEFINE e == <<p, n>>
    <3>1. got'[s] = Append(got[s], e) /\ Home[s] = i BY <1>1, <2>2
    <3>2. e \in Notice BY <1>3
    <3> HIDE DEF e, members
    <3>3. /\ got'[s] \in Seq(Notice)
          /\ \A k \in DOMAIN got'[s] : (k \in DOMAIN got[s] /\ got'[s][k] = got[s][k]) \/ got'[s][k] = e
          /\ \A k \in DOMAIN got[s] : k \in DOMAIN got'[s] /\ got'[s][k] = got[s][k]
          /\ \E k \in DOMAIN got'[s] : got'[s][k] = e
      BY <2>1, <3>1, <3>2, AppendAdds
    <3> USE DEF e
    <3> QED BY <3>1, <3>3 DEF Has
  <2>3. CASE ~(s \in members /\ socket[s] = "open")
    <3>1. got'[s] = got[s] /\ DOMAIN got'[s] = DOMAIN got[s] BY <1>1, <2>3
    <3>2. ~(Home[s] = i /\ About[p] \in rooms[s] /\ socket[s] = "open") BY <2>3
    <3>3. got'[s] \in Seq(Notice) BY <2>1, <3>1
    <3>4. \A k \in DOMAIN got[s] : k \in DOMAIN got'[s] /\ got'[s][k] = got[s][k] BY <3>1
    <3> QED BY <3>1, <3>2, <3>3, <3>4
  <2> QED BY <2>2, <2>3
<1>5. got' \in [Sockets -> Seq(Notice)] BY <1>1, <1>4
<1>6. \A s \in Sockets : \A e : Has(s, e) => Has(s, e)' BY <1>4 DEF Has
<1> HIDE DEF stale, members
<1>7. /\ socket' \in [Sockets -> {"open", "broken", "closed"}]
      /\ rooms' \in [Sockets -> SUBSET Chats]
      /\ \A s \in Sockets : rooms'[s] # {} => socket'[s] \in {"open", "broken"}
      /\ waiting' \in [Sockets -> SUBSET Row]
  BY <1>1 DEF Shape
<1>8. /\ \A s \in Sockets : socket[s] = "open" => socket'[s] = "open"
      /\ \A s \in Sockets : waiting'[s] \subseteq waiting[s]
               /\ \A w \in waiting'[s] : About[w.call] \in rooms'[s]
  BY <1>1, <1>2
<1> QED BY <1>4, <1>5, <1>6, <1>7, <1>8

-----------------------------------------------------------------------------
(* The steps.                                                              *)

\* Sockets and rooms move: who waits is narrowed to who is still there.
LEMMA HubStep ==
  ASSUME FanInv, UNCHANGED <<got, publishing, reading>>,
         socket' \in [Sockets -> {"open", "broken", "closed"}],
         rooms' \in [Sockets -> SUBSET Chats],
         waiting' \in [Sockets -> SUBSET Row],
         \A s \in Sockets : rooms'[s] # {} => socket'[s] \in {"open", "broken"},
         \A s \in Sockets : \A w \in waiting'[s] :
            w \in waiting[s] /\ socket'[s] = "open" /\ About[w.call] \in rooms'[s]
  PROVE  FanInv'
<1>1. Shape' BY DEF FanInv, Shape, publishing, reading, Notice, Call, Row, None
<1>2. Logged' BY DEF FanInv, Logged, publishing
<1>3. Ordered' BY DEF FanInv, Ordered, publishing, reading
<1>4. Given' BY DEF FanInv, Given, Rightly, Issued, Out, publishing, reading
<1>5. Watched' BY DEF FanInv, Watched, Has, Coming, InBatch, publishing, reading
<1> QED BY <1>1, <1>2, <1>3, <1>4, <1>5 DEF FanInv

\* Subscribe, unsubscribe, break and disconnect.
LEMMA SocketSteps ==
  ASSUME FanInv, NEW s \in Sockets,
         Break(s) \/ Disconnect(s) \/ \E c \in Chats : Subscribe(s, c) \/ Unsubscribe(s, c)
  PROVE  FanInv'
<1>1. \A t \in Sockets : \A w \in waiting[t] : socket[t] = "open" /\ About[w.call] \in rooms[t]
  BY DEF FanInv, Watched
<1>2. CASE Break(s)
  <2>1. \A t \in Sockets : \A w \in waiting'[t] :
           w \in waiting[t] /\ socket'[t] = "open" /\ About[w.call] \in rooms'[t]
    BY <1>1, <1>2 DEF Break, FanInv, Shape
  <2> QED BY <1>2, <2>1, HubStep DEF Break, FanInv, Shape
<1>3. CASE Disconnect(s)
  <2>1. \A t \in Sockets : \A w \in waiting'[t] :
           w \in waiting[t] /\ socket'[t] = "open" /\ About[w.call] \in rooms'[t]
    BY <1>1, <1>3 DEF Disconnect, Move, Without, FanInv, Shape
  <2> QED BY <1>3, <2>1, HubStep DEF Disconnect, Move, Without, FanInv, Shape
<1>4. ASSUME NEW c \in Chats, Subscribe(s, c) \/ Unsubscribe(s, c) PROVE FanInv'
  <2>1. PICK r \in [Sockets -> SUBSET Chats] :
           /\ \A t \in Sockets : t # s => r[t] = rooms[t]
           /\ Move(r) /\ UNCHANGED <<socket, got, publishing, reading>> /\ socket[s] = "open"
    <3>1. CASE Subscribe(s, c)
      BY <3>1 DEF Subscribe, FanInv, Shape
    <3>2. CASE Unsubscribe(s, c)
      BY <3>2 DEF Unsubscribe, FanInv, Shape
    <3> QED BY <1>4, <3>1, <3>2
  <2>2. \A t \in Sockets : \A w \in waiting'[t] :
           w \in waiting[t] /\ socket'[t] = "open" /\ About[w.call] \in rooms'[t]
    BY <1>1, <2>1 DEF Move, FanInv, Shape
  <2> QED BY <2>1, <2>2, HubStep DEF Move, FanInv, Shape
<1> QED BY <1>2, <1>3, <1>4

\* A call's program counter moves on: it publishes no less than before.
LEMMA CallMoves ==
  ASSUME Shape, NEW p \in Calls, NEW c \in Call, NEW a \in Call,
         c = call[p], call' = [call EXCEPT ![p] = a],
         c.n <= a.n, Out(c) <= Out(a)
  PROVE  /\ call' \in [Calls -> Call] /\ call'[p] = a
         /\ \A q \in Calls : q # p => call'[q] = call[q]
         /\ \A q \in Calls : call[q].n \in Nat /\ call'[q].n \in Nat /\ call[q].n <= call'[q].n
         /\ \A q \in Calls : Issued(q) \in Int /\ Issued(q)' \in Int /\ Issued(q) <= Issued(q)'
<1>1. call \in [Calls -> Call] BY DEF Shape
<1>2. call' \in [Calls -> Call] /\ call'[p] = a /\ \A q \in Calls : q # p => call'[q] = call[q]
  BY <1>1
<1>3. \A b \in Call : b.n \in Nat /\ Out(b) \in Int BY DEF Call, Out
<1>4. ASSUME NEW q \in Calls
      PROVE  /\ call[q].n \in Nat /\ call'[q].n \in Nat /\ call[q].n <= call'[q].n
             /\ Issued(q) \in Int /\ Issued(q)' \in Int /\ Issued(q) <= Issued(q)'
  <2>1. CASE q = p
    <3>1. Issued(q) = Out(c) /\ Issued(q)' = Out(a) BY <2>1, <1>2 DEF Issued, Out
    <3> QED BY <2>1, <3>1, <1>2, <1>3
  <2>2. CASE q # p
    <3>1. call'[q] = call[q] /\ call[q] \in Call BY <2>2, <1>1, <1>2
    <3>2. Issued(q)' = Issued(q) BY <3>1 DEF Issued, Out
    <3>3. Issued(q) \in Int /\ call[q].n \in Nat BY <1>3, <3>1 DEF Issued
    <3> QED BY <3>1, <3>2, <3>3
  <2> QED BY <2>1, <2>2
<1> QED BY <1>2, <1>4

\* What sockets had stays right, and what they get is.
LEMMA GivenStays ==
  ASSUME FanInv,
         \A s \in Sockets : \A e \in Notice : Rightly(s, e) => Rightly(s, e)',
         \A s \in Sockets : \A k \in DOMAIN got'[s] :
            \/ k \in DOMAIN got[s] /\ got'[s][k] = got[s][k]
            \/ \E e \in Notice : got'[s][k] = e /\ Rightly(s, e)'
  PROVE  Given'
<1> SUFFICES ASSUME NEW s \in Sockets, NEW k \in DOMAIN got'[s] PROVE Rightly(s, got[s][k])'
  BY DEF Given
<1>1. PICK e : e = got'[s][k] OBVIOUS
<1>2. CASE k \in DOMAIN got[s] /\ got'[s][k] = got[s][k]
  <2>1. e \in Notice BY <1>1, <1>2, LenProperties DEF FanInv, Shape
  <2>2. Rightly(s, e) BY <1>1, <1>2 DEF FanInv, Given
  <2> QED BY <1>1, <2>1, <2>2 DEF Rightly
<1>3. CASE \E f \in Notice : got'[s][k] = f /\ Rightly(s, f)'
  BY <1>3 DEF Rightly
<1> QED BY <1>2, <1>3

\* An event is published on its own instance.
LEMMA SendStep == ASSUME FanInv, NEW p \in Calls, SendLocal(p) PROVE FanInv'
<1>1. PICK n \in Nat : n = call[p].n BY DEF FanInv, Shape, Call
<1>2. PICK i \in Instances : i = From[p] BY FanoutAssumption
<1>3. /\ PublishLocal(i, p, n) /\ Sending(p, "send")
      /\ call' = [call EXCEPT ![p].step = "append"]
      /\ UNCHANGED <<lastId, log, mark, batch>>
  BY <1>1, <1>2 DEF SendLocal, reading
<1>4. /\ call' \in [Calls -> Call] /\ \A q \in Calls : call'[q].n = call[q].n /\ call'[q].id = call[q].id
      /\ \A q \in Calls : call'[q].step = "commit" => call[q].step = "commit"
      /\ \A q \in Calls : Issued(q) <= Issued(q)' /\ Issued(q) \in Int /\ Issued(q)' \in Int
      /\ Issued(p)' = n
  <2>1. PICK c \in Call : c = call[p] BY DEF FanInv, Shape
  <2>2. PICK a : a = [c EXCEPT !.step = "append"] OBVIOUS
  <2>3. /\ a \in Call /\ c.n = n /\ c.step = "send" /\ a.n = n /\ a.id = c.id /\ a.step = "append"
    BY <1>1, <1>3, <2>1, <2>2 DEF Call, Sending
  <2>4. call' = [call EXCEPT ![p] = a] BY <1>3, <2>1, <2>2
  <2>5. /\ call' \in [Calls -> Call] /\ call'[p] = a
        /\ \A q \in Calls : q # p => call'[q] = call[q]
        /\ \A q \in Calls : Issued(q) <= Issued(q)' /\ Issued(q) \in Int /\ Issued(q)' \in Int
    <3>1. Shape /\ c.n <= a.n /\ Out(c) <= Out(a) BY <1>1, <2>3 DEF FanInv, Out
    <3> QED BY <2>1, <2>3, <2>4, <3>1, CallMoves
  <2>6. Issued(p)' = n BY <2>3, <2>5 DEF Issued, Out
  <2> QED BY <2>1, <2>3, <2>5, <2>6
<1>5. Shape BY DEF FanInv
<1>6. Shape'
  <2>1. /\ socket' \in [Sockets -> {"open", "broken", "closed"}]
        /\ rooms' \in [Sockets -> SUBSET Chats]
        /\ \A s \in Sockets : rooms'[s] # {} => socket'[s] \in {"open", "broken"}
        /\ got' \in [Sockets -> Seq(Notice)]
        /\ waiting' \in [Sockets -> SUBSET Row]
    BY <1>3, <1>5, LocalPush
  <2>2. \A q \in Calls : /\ call'[q].n <= Sends[q] + 1 /\ call'[q].id <= lastId'
                         /\ call'[q].step = "commit" => call'[q].id > 0
    BY <1>3, <1>4, <1>5 DEF Shape
  <2> QED BY <1>3, <1>4, <1>5, <2>1, <2>2 DEF Shape
<1>7. Logged' BY <1>3, <1>4 DEF FanInv, Shape, Logged, Row
<1>8. Ordered' BY <1>3 DEF FanInv, Ordered
<1>9. Given'
  <2>1. ASSUME NEW s \in Sockets, NEW e \in Notice, Rightly(s, e) PROVE Rightly(s, e)'
    <3>1. e[1] \in Calls /\ e[2] \in Nat BY DEF Notice
    <3> QED BY <3>1, <2>1, <1>3, <1>4 DEF Rightly
  <2>2. ASSUME NEW s \in Sockets, NEW k \in DOMAIN got'[s]
        PROVE  \/ k \in DOMAIN got[s] /\ got'[s][k] = got[s][k]
               \/ \E e \in Notice : got'[s][k] = e /\ Rightly(s, e)'
    <3>1. PICK e : e = <<p, n>> OBVIOUS
    <3>2. e \in Notice /\ e[1] = p /\ e[2] = n BY <3>1 DEF Notice
    <3>3. Home[s] = i => Rightly(s, e)' BY <3>2, <1>2, <1>4 DEF Rightly
    <3>4. \/ k \in DOMAIN got[s] /\ got'[s][k] = got[s][k]
          \/ got'[s][k] = <<p, n>> /\ Home[s] = i
      BY <1>3, <1>5, LocalPush
    <3> QED BY <3>1, <3>2, <3>3, <3>4
  <2> QED BY <2>1, <2>2, GivenStays
<1>10. Watched'
  <2> SUFFICES ASSUME NEW s \in Sockets, NEW r \in waiting'[s]
               PROVE /\ r \in log' /\ r.from # Home[s] /\ socket'[s] = "open"
                     /\ About[r.call] \in rooms'[s] /\ mark'[Home[s]] # None
                     /\ Has(s, <<r.call, r.n>>)' \/ Coming(s, r)'
    BY DEF Watched
  <2>1. r \in waiting[s] /\ About[r.call] \in rooms'[s]
        /\ (socket[s] = "open" => socket'[s] = "open")
        /\ \A e : Has(s, e) => Has(s, e)'
    BY <1>3, <1>5, LocalPush
  <2>2. /\ r \in log /\ r.from # Home[s] /\ socket[s] = "open" /\ mark[Home[s]] # None
        /\ Has(s, <<r.call, r.n>>) \/ Coming(s, r)
    BY <2>1 DEF FanInv, Watched
  <2>3. Coming(s, r) => Coming(s, r)' BY <1>3 DEF Coming, InBatch
  <2> QED BY <1>3, <2>1, <2>2, <2>3
<1> QED BY <1>6, <1>7, <1>8, <1>9, <1>10 DEF FanInv

\* Nothing is pushed: what sockets have stays right as log and marks grow.
LEMMA GivenGrows ==
  ASSUME FanInv, got' = got, log \subseteq log',
         \A q \in Calls : Issued(q) \in Int /\ Issued(q)' \in Int /\ Issued(q) <= Issued(q)',
         \A i \in Instances : mark'[i] \in Int /\ mark[i] <= mark'[i]
  PROVE  Given'
<1>1. ASSUME NEW s \in Sockets, NEW e \in Notice, Rightly(s, e) PROVE Rightly(s, e)'
  <2>1. e[1] \in Calls /\ e[2] \in Nat BY DEF Notice
  <2>2. CASE From[e[1]] = Home[s]
    BY <2>1, <2>2, <1>1 DEF Rightly
  <2>3. CASE From[e[1]] # Home[s]
    <3>1. PICK q \in log : q.call = e[1] /\ q.n = e[2] /\ q.id <= mark[Home[s]]
      BY <2>3, <1>1 DEF Rightly
    <3>2. /\ q.id \in Nat /\ q \in log' /\ mark[Home[s]] \in Int /\ mark'[Home[s]] \in Int
          /\ mark[Home[s]] <= mark'[Home[s]]
      BY FanoutAssumption DEF FanInv, Shape, Row
    <3> QED BY <2>3, <3>1, <3>2 DEF Rightly
  <2> QED BY <2>2, <2>3
<1>2. \A s \in Sockets : \A k \in DOMAIN got'[s] : k \in DOMAIN got[s] /\ got'[s][k] = got[s][k]
  OBVIOUS
<1> QED BY <1>1, <1>2, GivenStays

\* The hub, the log and the readers are as they were: the watchers are too.
LEMMA WatchStays ==
  ASSUME FanInv, UNCHANGED <<hub, got, waiting, reading>>, log \subseteq log'
  PROVE  Watched'
BY DEF FanInv, Watched, Has, Coming, InBatch, hub, reading

\* An id is taken, or the append fails.
LEMMA AppendSteps == ASSUME FanInv, NEW p \in Calls, TakeId(p) \/ AppendFails(p) PROVE FanInv'
<1>1. /\ call' \in [Calls -> Call] /\ lastId' \in Nat /\ lastId <= lastId'
      /\ \A q \in Calls : call[q].n <= call'[q].n /\ Issued(q) \in Int /\ Issued(q)' \in Int /\ Issued(q) <= Issued(q)'
      /\ \A q \in Calls : /\ call'[q].n <= Sends[q] + 1 /\ call'[q].id <= lastId'
                          /\ call'[q].step = "commit" => call'[q].id > 0
      /\ \A q \in Calls : call'[q].step = "commit" =>
            (call[q].step = "commit" /\ call'[q].id = call[q].id) \/ call'[q].id = lastId + 1
  <2>1. PICK c \in Call : c = call[p] BY DEF FanInv, Shape
  <2>2. /\ lastId \in Nat /\ c.n \in Nat \ {0} /\ c.n <= Sends[p] /\ c.step \in {"append", "commit"}
        /\ Sends[p] \in Nat
        /\ \A q \in Calls : /\ call[q].n <= Sends[q] + 1 /\ call[q].id <= lastId /\ call[q].id \in Nat
                            /\ call[q].step = "commit" => call[q].id > 0
    BY <2>1, FanoutAssumption DEF FanInv, Shape, Call, TakeId, AppendFails, Sending
  <2>3. CASE TakeId(p)
    <3>1. PICK a : a = [c EXCEPT !.step = "commit", !.id = lastId + 1] OBVIOUS
    <3>2. a \in Call /\ a.n = c.n /\ a.step = "commit" /\ a.id = lastId + 1
      <4>1. lastId + 1 \in Nat BY <2>2
      <4> QED BY <4>1, <3>1 DEF Call
    <3>3. call' = [call EXCEPT ![p] = a] /\ lastId' = lastId + 1
      BY <2>1, <2>3, <3>1 DEF TakeId
    <3>4. /\ call' \in [Calls -> Call] /\ call'[p] = a
          /\ \A q \in Calls : q # p => call'[q] = call[q]
          /\ \A q \in Calls : call[q].n <= call'[q].n /\ Issued(q) \in Int /\ Issued(q)' \in Int /\ Issued(q) <= Issued(q)'
      <4>1. Shape /\ c.n <= a.n /\ Out(c) <= Out(a) BY <2>2, <3>2 DEF FanInv, Out
      <4> QED BY <2>1, <3>2, <3>3, <4>1, CallMoves
    <3> QED BY <2>2, <3>2, <3>3, <3>4
  <2>4. CASE AppendFails(p)
    <3>1. PICK a : a = [n |-> c.n + 1, step |-> "send", id |-> 0] OBVIOUS
    <3>2. a \in Call /\ a.n = c.n + 1 /\ a.step = "send" /\ a.id = 0
      BY <2>1, <2>2, <3>1 DEF Call
    <3>3. call' = [call EXCEPT ![p] = a] /\ lastId' = lastId
      BY <2>1, <2>4, <3>1 DEF AppendFails, NextEvent
    <3>4. /\ call' \in [Calls -> Call] /\ call'[p] = a
          /\ \A q \in Calls : q # p => call'[q] = call[q]
          /\ \A q \in Calls : call[q].n <= call'[q].n /\ Issued(q) \in Int /\ Issued(q)' \in Int /\ Issued(q) <= Issued(q)'
      <4>1. Shape /\ c.n <= a.n /\ Out(c) <= Out(a) BY <2>2, <3>2 DEF FanInv, Out
      <4> QED BY <2>1, <3>2, <3>3, <4>1, CallMoves
    <3> QED BY <2>2, <3>2, <3>3, <3>4
  <2> QED BY <2>3, <2>4
<1>2. UNCHANGED <<socket, rooms, got, waiting, log, mark, batch>>
  BY DEF TakeId, AppendFails, hub, reading
<1>3. Shape'
  <2>1. \A r \in log' : r.id \in 1..lastId' BY <1>1, <1>2 DEF FanInv, Shape
  <2>2. \A i \in Instances : mark'[i] \in None..lastId' BY <1>1, <1>2 DEF FanInv, Shape, None
  <2> QED BY <1>1, <1>2, <2>1, <2>2 DEF FanInv, Shape
<1>4. Logged'
  <2>1. ASSUME NEW r \in log
        PROVE  /\ r.from = From[r.call] /\ r.n \in 1..call'[r.call].n - 1
               /\ call'[r.call].step = "commit" => r.id < call'[r.call].id
    <3>1. /\ r.call \in Calls /\ r.id \in 1..lastId /\ r.from = From[r.call]
          /\ r.n \in 1..call[r.call].n - 1
          /\ call[r.call].step = "commit" => r.id < call[r.call].id
      BY DEF FanInv, Shape, Row, Logged
    <3>2. call[r.call].n \in Nat /\ call'[r.call].n \in Nat /\ lastId \in Nat
      BY <1>1, <3>1 DEF FanInv, Shape, Call
    <3> QED BY <1>1, <3>1, <3>2
  <2> QED BY <1>2, <2>1 DEF FanInv, Logged
<1>5. Ordered' BY <1>2 DEF FanInv, Ordered
<1>6. Given' BY <1>1, <1>2, GivenGrows DEF FanInv, Shape
<1>7. Watched' BY <1>2, WatchStays DEF hub, reading
<1> QED BY <1>3, <1>4, <1>5, <1>6, <1>7 DEF FanInv

\* A row commits.
LEMMA CommitStep == ASSUME FanInv, NEW p \in Calls, CommitRow(p) PROVE FanInv'
<1>1. PICK r : r = [id |-> call[p].id, from |-> From[p], call |-> p, n |-> call[p].n] OBVIOUS
<1>2. /\ log' = log \union {r} /\ UNCHANGED <<socket, rooms, got, lastId, mark, batch>>
      /\ waiting' = [s \in Sockets |-> waiting[s] \union (IF Awaited(s, r) THEN {r} ELSE {})]
      /\ call' = [call EXCEPT ![p] = [n |-> @.n + 1, step |-> "send", id |-> 0]]
      /\ call[p].step = "commit" /\ call[p].n <= Sends[p]
  BY <1>1 DEF CommitRow, NextEvent, Sending, hub, reading
<1>3. /\ r.id = call[p].id /\ r.from = From[p] /\ r.call = p /\ r.n = call[p].n
      /\ call[p] \in Call /\ r \in Row /\ r.id \in 1..lastId /\ r.n > 0
  <2>1. PICK c \in Call : c = call[p] BY DEF FanInv, Shape
  <2>2. /\ c.id <= lastId /\ (c.step = "commit" => c.id > 0) /\ c.step = "commit" /\ lastId \in Nat
    BY <1>2, <2>1 DEF FanInv, Shape
  <2>3. c.n \in Nat \ {0} /\ c.id \in 1..lastId BY <2>2 DEF Call
  <2> QED BY <1>1, <2>1, <2>3, FanoutAssumption DEF Row
<1>4. /\ call' \in [Calls -> Call] /\ call'[p].n = r.n + 1 /\ call'[p].step = "send"
      /\ \A q \in Calls : q # p => call'[q] = call[q]
      /\ \A q \in Calls : /\ call'[q].n <= Sends[q] + 1 /\ call'[q].id <= lastId'
                          /\ call'[q].step = "commit" => call'[q].id > 0
      /\ \A q \in Calls : Issued(q) \in Int /\ Issued(q)' \in Int /\ Issued(q) <= Issued(q)'
  <2>1. PICK c \in Call : c = call[p] BY DEF FanInv, Shape
  <2>2. /\ lastId \in Nat /\ c.n \in Nat \ {0} /\ c.n <= Sends[p] /\ c.step = "commit" /\ c.n = r.n
        /\ Sends[p] \in Nat
        /\ \A q \in Calls : /\ call[q].n <= Sends[q] + 1 /\ call[q].id <= lastId /\ call[q].id \in Nat
                            /\ call[q].step = "commit" => call[q].id > 0
    BY <1>2, <1>3, <2>1, FanoutAssumption DEF FanInv, Shape, Call
  <2>3. PICK a : a = [n |-> c.n + 1, step |-> "send", id |-> 0] OBVIOUS
  <2>4. a \in Call /\ a.n = c.n + 1 /\ a.step = "send" /\ a.id = 0 BY <2>1, <2>2, <2>3 DEF Call
  <2>5. call' = [call EXCEPT ![p] = a] BY <1>2, <2>1, <2>3
  <2>6. /\ call' \in [Calls -> Call] /\ call'[p] = a
        /\ \A q \in Calls : q # p => call'[q] = call[q]
        /\ \A q \in Calls : Issued(q) \in Int /\ Issued(q)' \in Int /\ Issued(q) <= Issued(q)'
    <3>1. Shape /\ c.n <= a.n /\ Out(c) <= Out(a) BY <2>2, <2>4 DEF FanInv, Out
    <3> QED BY <2>1, <2>4, <2>5, <3>1, CallMoves
  <2> QED BY <1>2, <2>2, <2>4, <2>6
<1>5. Shape'
  <2>1. waiting' \in [Sockets -> SUBSET Row] BY <1>2, <1>3 DEF FanInv, Shape
  <2>2. log' \subseteq Row /\ \A q \in log' : q.id \in 1..lastId' BY <1>2, <1>3 DEF FanInv, Shape
  <2> QED BY <1>2, <1>4, <2>1, <2>2 DEF FanInv, Shape
<1>6. ASSUME NEW q \in log
      PROVE  /\ q.from = From[q.call] /\ q.n \in 1..call'[q.call].n - 1
             /\ call'[q.call].step = "commit" => q.id < call'[q.call].id
             /\ q.call = p => q.id < r.id /\ q.n < r.n
  <2>1. /\ q \in Row /\ q.from = From[q.call] /\ q.n \in 1..call[q.call].n - 1
        /\ call[q.call].step = "commit" => q.id < call[q.call].id
    BY DEF FanInv, Shape, Logged
  <2> QED BY <1>2, <1>3, <1>4, <2>1 DEF Row, Call
<1>7. Logged'
  <2>1. r.n \in 1..call'[r.call].n - 1 /\ ~(call'[r.call].step = "commit")
    BY <1>3, <1>4 DEF Call
  <2>2. \A q, u \in log' : q.call = u.call /\ q.id < u.id => q.n < u.n
    <3>1. \A q, u \in log : q.call = u.call /\ q.id < u.id => q.n < u.n BY DEF FanInv, Logged
    <3>2. \A q \in log : q.call = r.call => q.id < r.id /\ q.n < r.n BY <1>3, <1>6
    <3>3. \A q \in log' : q \in log \/ q = r BY <1>2
    <3>4. \A q \in log : q.id \in Int BY DEF FanInv, Shape, Row
    <3>5. r.id \in Int BY <1>3
    <3> QED BY <3>1, <3>2, <3>3, <3>4, <3>5
  <2> QED BY <1>2, <1>3, <1>6, <2>1, <2>2 DEF Logged
<1>8. Ordered' BY <1>2 DEF FanInv, Ordered
<1>9. Given' BY <1>2, <1>4, GivenGrows DEF FanInv, Shape
<1>10. ASSUME NEW s \in Sockets, Awaited(s, r)
       PROVE  /\ r.from # Home[s] /\ socket[s] = "open" /\ About[r.call] \in rooms[s]
              /\ mark[Home[s]] # None /\ Coming(s, r)
  <2>1. /\ socket[s] = "open" /\ About[r.call] \in rooms[s] /\ Home[s] # r.from
        /\ Reached(Home[s]) \in 0..(r.id - 1)
    BY <1>10 DEF Awaited
  <2>2. PICK i \in Instances : i = Home[s] BY FanoutAssumption
  <2>3. CASE batch[i] = <<>>
    BY <1>3, <2>1, <2>2, <2>3 DEF Reached, Coming, None
  <2>4. CASE batch[i] # <<>>
    <3>1. batch[i] \in Seq(Row) /\ mark[i] \in Int BY DEF FanInv, Shape
    <3>2. PICK l \in Nat : l = Len(batch[i]) /\ l > 0 /\ DOMAIN batch[i] = 1..l
      BY <2>4, <3>1, EmptySeq, LenProperties
    <3>3. Last(batch[i]) = batch[i][l] BY <3>2 DEF Last
    <3>4. \A k \in 1..l : batch[i][k].id \in Int
      <4>1. \A k \in 1..l : batch[i][k] \in Row BY <3>1, <3>2
      <4> QED BY <4>1 DEF Row
    <3>5. \A k \in 1..l : mark[i] < batch[i][k].id /\ batch[i][k].id <= batch[i][l].id
      BY <3>2, <3>4 DEF FanInv, Ordered
    <3>6. batch[i][l].id <= r.id - 1 BY <2>1, <2>2, <2>4, <3>3, <1>3 DEF Reached
    <3>7. mark[i] < r.id /\ \A k \in 1..l : batch[i][k].id < r.id
      BY <1>3, <3>1, <3>2, <3>4, <3>5, <3>6
    <3>8. mark[i] # None BY <2>4 DEF FanInv, Ordered
    <3> QED BY <2>1, <2>2, <3>2, <3>7, <3>8 DEF Coming
  <2> QED BY <2>3, <2>4
<1>11. Watched'
  <2> SUFFICES ASSUME NEW s \in Sockets, NEW w \in waiting'[s]
               PROVE /\ w \in log' /\ w.from # Home[s] /\ socket'[s] = "open"
                     /\ About[w.call] \in rooms'[s] /\ mark'[Home[s]] # None
                     /\ Has(s, <<w.call, w.n>>)' \/ Coming(s, w)'
    BY DEF Watched
  <2>1. Coming(s, w) => Coming(s, w)' BY <1>2 DEF Coming, InBatch
  <2>2. Has(s, <<w.call, w.n>>) => Has(s, <<w.call, w.n>>)' BY <1>2 DEF Has
  <2>3. CASE w \in waiting[s]
    BY <1>2, <2>1, <2>2, <2>3 DEF FanInv, Watched
  <2>4. CASE w \notin waiting[s]
    <3>1. w = r /\ Awaited(s, r) BY <1>2, <2>4
    <3> QED BY <1>2, <1>10, <2>1, <3>1
  <2> QED BY <2>3, <2>4
<1> QED BY <1>5, <1>7, <1>8, <1>9, <1>11 DEF FanInv

\* A reader starts: nobody on its instance waits for a row yet.
LEMMA StartStep == ASSUME FanInv, NEW i \in Instances, StartReader(i) PROVE FanInv'
<1>1. PICK m \in {r.id : r \in log} \union {0} : mark' = [mark EXCEPT ![i] = m]
  BY DEF StartReader
<1>2. UNCHANGED <<socket, rooms, got, waiting, call, lastId, log, batch>> /\ mark[i] = None
  BY DEF StartReader, hub, publishing
<1>3. m \in 0..lastId /\ lastId \in Nat BY <1>1 DEF FanInv, Shape
<1>4. /\ mark' \in [Instances -> Int] /\ mark'[i] = m
      /\ \A j \in Instances : j # i => mark'[j] = mark[j]
      /\ \A j \in Instances : mark'[j] \in None..lastId /\ mark[j] <= mark'[j]
  BY <1>1, <1>2, <1>3 DEF FanInv, Shape, None
<1>5. Shape' BY <1>2, <1>4 DEF FanInv, Shape
<1>6. Logged' BY <1>2 DEF FanInv, Logged
<1>7. DOMAIN batch[i] = {} /\ batch[i] = <<>> BY <1>2 DEF FanInv, Ordered
<1>8. Ordered' BY <1>2, <1>4, <1>7 DEF FanInv, Ordered
<1>9. \A q \in Calls : Issued(q) \in Int /\ Issued(q)' = Issued(q)
  <2>1. \A c \in Call : Out(c) \in Int BY DEF Call, Out
  <2> QED BY <1>2, <2>1 DEF FanInv, Shape, Issued, Out
<1>10. Given' BY <1>2, <1>4, <1>9, GivenGrows
<1>11. Watched'
  <2>1. \A s \in Sockets : \A r \in waiting[s] : Home[s] # i BY <1>2 DEF FanInv, Watched
  <2>2. \A s \in Sockets : \A r \in waiting[s] : mark'[Home[s]] = mark[Home[s]]
    BY <1>4, <2>1, FanoutAssumption
  <2> QED BY <1>2, <2>2 DEF FanInv, Watched, Has, Coming, InBatch
<1> QED BY <1>5, <1>6, <1>8, <1>10, <1>11 DEF FanInv

\* A batch is read: every unread row is in it or behind all of it.
LEMMA ReadStep == ASSUME FanInv, NEW i \in Instances, ReadLog(i) PROVE FanInv'
<1>1. PICK b \in NextBatch(i) : batch' = [batch EXCEPT ![i] = b] BY DEF ReadLog
<1>2. UNCHANGED <<socket, rooms, got, waiting, call, lastId, log, mark>> /\ mark[i] # None
  BY DEF ReadLog, hub, publishing
<1>3. \A r \in Unread(i) : r \in log /\ r \in Row /\ mark[i] < r.id /\ r.from # i
  BY DEF FanInv, Shape, Unread, Row
<1>4. /\ b \in Seq(Unread(i))
      /\ \A j, k \in DOMAIN b : j < k => b[j].id < b[k].id
      /\ \A r \in Unread(i) \ ToSet(b) : \A j \in DOMAIN b : b[j].id < r.id
  <2>1. PICK l \in 0..Limit : b \in [1..l -> Unread(i)] BY DEF NextBatch, SeqOf
  <2>2. l \in Nat BY FanoutAssumption
  <2> QED BY <2>1, <2>2, SeqDef DEF NextBatch
<1>5. b \in Seq(Row) /\ \A k \in DOMAIN b : b[k] \in Unread(i)
  <2>1. \A k \in DOMAIN b : b[k] \in Unread(i) BY <1>4, LenProperties
  <2>2. PICK l \in Nat : b \in [1..l -> Unread(i)] BY <1>4, SeqDef
  <2>3. b \in [1..l -> Row] BY <1>3, <2>2
  <2> QED BY <2>1, <2>3, SeqDef
<1>6. /\ batch' \in [Instances -> Seq(Row)] /\ batch'[i] = b
      /\ \A j \in Instances : j # i => batch'[j] = batch[j]
  BY <1>1, <1>5 DEF FanInv, Shape
<1>7. Shape' BY <1>2, <1>6 DEF FanInv, Shape
<1>8. Logged' BY <1>2 DEF FanInv, Logged
<1>9. Ordered'
  <2> SUFFICES ASSUME NEW j \in Instances
               PROVE /\ batch'[j] # <<>> => mark'[j] # None
                     /\ \A k \in DOMAIN batch'[j] :
                          /\ batch'[j][k] \in log' /\ batch'[j][k].from # j
                          /\ mark'[j] < batch'[j][k].id
                     /\ \A k, l \in DOMAIN batch'[j] : k < l => batch'[j][k].id < batch'[j][l].id
    BY DEF Ordered
  <2>1. CASE j = i BY <1>2, <1>3, <1>4, <1>5, <1>6, <2>1
  <2>2. CASE j # i BY <1>2, <1>6, <2>2 DEF FanInv, Ordered
  <2> QED BY <2>1, <2>2
<1>10. \A q \in Calls : Issued(q) \in Int /\ Issued(q)' = Issued(q)
  <2>1. \A c \in Call : Out(c) \in Int BY DEF Call, Out
  <2> QED BY <1>2, <2>1 DEF FanInv, Shape, Issued, Out
<1>11. Given' BY <1>2, <1>10, GivenGrows DEF FanInv, Shape
<1>12. Watched'
  <2> SUFFICES ASSUME NEW s \in Sockets, NEW r \in waiting'[s]
               PROVE /\ r \in log' /\ r.from # Home[s] /\ socket'[s] = "open"
                     /\ About[r.call] \in rooms'[s] /\ mark'[Home[s]] # None
                     /\ Has(s, <<r.call, r.n>>)' \/ Coming(s, r)'
    BY DEF Watched
  <2>1. /\ r \in log /\ r.from # Home[s] /\ socket[s] = "open"
        /\ About[r.call] \in rooms[s] /\ mark[Home[s]] # None
        /\ Has(s, <<r.call, r.n>>) \/ Coming(s, r)
    BY <1>2 DEF FanInv, Watched
  <2>2. Has(s, <<r.call, r.n>>) => Has(s, <<r.call, r.n>>)' BY <1>2 DEF Has
  <2>3. ASSUME Coming(s, r) PROVE Coming(s, r)'
    <3>1. mark'[Home[s]] < r.id BY <1>2, <2>3 DEF Coming
    <3>2. CASE Home[s] = i
      <4>1. r \in Unread(i) BY <2>1, <3>1, <3>2, <1>2 DEF Unread, FanInv, Shape, Row
      <4>2. (\E k \in DOMAIN b : b[k] = r) \/ \A k \in DOMAIN b : b[k].id < r.id
        BY <1>4, <4>1 DEF ToSet
      <4> QED BY <1>6, <3>1, <3>2, <4>2 DEF Coming, InBatch
    <3>3. CASE Home[s] # i
      <4>1. batch'[Home[s]] = batch[Home[s]] BY <1>6, <3>3, FanoutAssumption
      <4> QED BY <2>3, <3>1, <4>1 DEF Coming, InBatch
    <3> QED BY <3>2, <3>3
  <2> QED BY <1>2, <2>1, <2>2, <2>3
<1> QED BY <1>7, <1>8, <1>9, <1>11, <1>12 DEF FanInv

\* What the row a reader pushes is.
LEMMA HeadRow ==
  ASSUME FanInv, NEW i \in Instances, PushRow(i)
  PROVE  \E r \in log : \E x \in Seq(Row) :
            /\ r \in Row /\ r.call \in Calls /\ r.n \in Nat /\ r.from # i /\ mark[i] < r.id
            /\ r = Head(batch[i]) /\ r = batch[i][1] /\ x = Tail(batch[i])
            /\ \A k \in DOMAIN x : /\ k \in Int /\ k >= 1 /\ k + 1 \in DOMAIN batch[i]
                                   /\ x[k] = batch[i][k + 1] /\ r.id < x[k].id
            /\ \A k \in DOMAIN batch[i] : k = 1 \/ (k - 1 \in DOMAIN x /\ x[k - 1] = batch[i][k])
            /\ 1 \in DOMAIN batch[i]
            /\ mark' = [mark EXCEPT ![i] = r.id] /\ batch' = [batch EXCEPT ![i] = x]
            /\ PublishLocal(i, r.call, r.n) /\ UNCHANGED <<call, lastId, log>>
<1>1. PICK b \in Seq(Row) : b = batch[i] /\ b # <<>> BY DEF FanInv, Shape, PushRow
<1>2. PICK x : x = Tail(b) OBVIOUS
<1>3. PICK r : r = Head(b) OBVIOUS
<1>4. /\ r = b[1] /\ r \in Row /\ 1 \in DOMAIN b /\ x \in Seq(Row) /\ DOMAIN b \subseteq Int
      /\ \A k \in DOMAIN x : k \in Int /\ k >= 1 /\ k + 1 \in DOMAIN b /\ x[k] = b[k + 1]
      /\ \A k \in DOMAIN b : k = 1 \/ (k - 1 \in DOMAIN x /\ x[k - 1] = b[k])
  BY <1>1, <1>2, <1>3, TailDrops
<1>5. /\ \A k \in DOMAIN b : b[k] \in log /\ b[k].from # i /\ mark[i] < b[k].id
      /\ \A j, k \in DOMAIN b : j < k => b[j].id < b[k].id
  BY <1>1 DEF FanInv, Ordered
<1>6. \A k \in DOMAIN x : r.id < x[k].id
  <2> SUFFICES ASSUME NEW k \in DOMAIN x PROVE r.id < x[k].id OBVIOUS
  <2>1. k + 1 \in DOMAIN b /\ 1 < k + 1 /\ x[k] = b[k + 1] BY <1>4
  <2> QED BY <1>4, <1>5, <2>1
<1>7. /\ mark' = [mark EXCEPT ![i] = r.id] /\ batch' = [batch EXCEPT ![i] = x]
      /\ PublishLocal(i, r.call, r.n) /\ UNCHANGED <<call, lastId, log>>
  BY <1>1, <1>2, <1>3 DEF PushRow, publishing
<1>8. r.call \in Calls /\ r.n \in Nat BY <1>4 DEF Row
<1>9. r \in log /\ r.from # i /\ mark[i] < r.id BY <1>4, <1>5
<1> QED BY <1>1, <1>2, <1>3, <1>4, <1>6, <1>7, <1>8, <1>9

\* A row is pushed: who waited for it has it, who waits for another keeps waiting.
LEMMA PushStep == ASSUME FanInv, NEW i \in Instances, PushRow(i) PROVE FanInv'
<1>1. PICK r \in log, x \in Seq(Row) :
            /\ r \in Row /\ r.call \in Calls /\ r.n \in Nat /\ r.from # i /\ mark[i] < r.id
            /\ r = Head(batch[i]) /\ r = batch[i][1] /\ x = Tail(batch[i])
            /\ \A k \in DOMAIN x : /\ k \in Int /\ k >= 1 /\ k + 1 \in DOMAIN batch[i]
                                   /\ x[k] = batch[i][k + 1] /\ r.id < x[k].id
            /\ \A k \in DOMAIN batch[i] : k = 1 \/ (k - 1 \in DOMAIN x /\ x[k - 1] = batch[i][k])
            /\ 1 \in DOMAIN batch[i]
            /\ mark' = [mark EXCEPT ![i] = r.id] /\ batch' = [batch EXCEPT ![i] = x]
            /\ PublishLocal(i, r.call, r.n) /\ UNCHANGED <<call, lastId, log>>
  BY HeadRow
<1>2. PICK p \in Calls, n \in Nat : p = r.call /\ n = r.n BY <1>1
<1>3. PublishLocal(i, p, n) /\ Shape BY <1>1, <1>2 DEF FanInv
<1>4. /\ batch' \in [Instances -> Seq(Row)] /\ batch'[i] = x
      /\ \A j \in Instances : j # i => batch'[j] = batch[j]
  BY <1>1 DEF FanInv, Shape
<1>5. r.id \in 1..lastId /\ lastId \in Nat BY <1>1 DEF FanInv, Shape
<1>6. /\ mark' \in [Instances -> Int] /\ mark'[i] = r.id
      /\ \A j \in Instances : j # i => mark'[j] = mark[j]
      /\ \A j \in Instances : mark'[j] \in None..lastId /\ mark[j] <= mark'[j]
  BY <1>1, <1>5 DEF FanInv, Shape, None
<1>7. Shape'
  <2>1. /\ socket' \in [Sockets -> {"open", "broken", "closed"}]
        /\ rooms' \in [Sockets -> SUBSET Chats]
        /\ \A s \in Sockets : rooms'[s] # {} => socket'[s] \in {"open", "broken"}
        /\ got' \in [Sockets -> Seq(Notice)]
        /\ waiting' \in [Sockets -> SUBSET Row]
    BY <1>3, LocalPush
  <2> QED BY <1>1, <1>4, <1>6, <2>1 DEF FanInv, Shape
<1>8. Logged' BY <1>1 DEF FanInv, Logged
<1>9. Ordered'
  <2> SUFFICES ASSUME NEW j \in Instances
               PROVE /\ batch'[j] # <<>> => mark'[j] # None
                     /\ \A k \in DOMAIN batch'[j] :
                          /\ batch'[j][k] \in log' /\ batch'[j][k].from # j
                          /\ mark'[j] < batch'[j][k].id
                     /\ \A k, l \in DOMAIN batch'[j] : k < l => batch'[j][k].id < batch'[j][l].id
    BY DEF Ordered
  <2>1. CASE j = i
    <3>1. \A k \in DOMAIN x : x[k] \in log /\ x[k].from # i BY <1>1 DEF FanInv, Ordered
    <3>2. \A k, l \in DOMAIN x : k < l => x[k].id < x[l].id
      <4> SUFFICES ASSUME NEW k \in DOMAIN x, NEW l \in DOMAIN x, k < l PROVE x[k].id < x[l].id
        OBVIOUS
      <4>1. k + 1 \in DOMAIN batch[i] /\ l + 1 \in DOMAIN batch[i] /\ k + 1 < l + 1
            /\ x[k] = batch[i][k + 1] /\ x[l] = batch[i][l + 1]
        BY <1>1
      <4> QED BY <4>1 DEF FanInv, Ordered
    <3>3. mark'[i] # None BY <1>5, <1>6 DEF None
    <3> QED BY <1>1, <1>4, <1>6, <2>1, <3>1, <3>2, <3>3
  <2>2. CASE j # i BY <1>1, <1>4, <1>6, <2>2 DEF FanInv, Ordered
  <2> QED BY <2>1, <2>2
<1>10. \A q \in Calls : Issued(q) \in Int /\ Issued(q)' = Issued(q)
  <2>1. \A c \in Call : Out(c) \in Int BY DEF Call, Out
  <2> QED BY <1>1, <2>1 DEF FanInv, Shape, Issued, Out
<1>11. Given'
  <2>1. ASSUME NEW s \in Sockets, NEW e \in Notice, Rightly(s, e) PROVE Rightly(s, e)'
    <3>1. e[1] \in Calls /\ e[2] \in Nat BY DEF Notice
    <3>2. CASE From[e[1]] = Home[s]
      BY <1>10, <2>1, <3>1, <3>2 DEF Rightly
    <3>3. CASE From[e[1]] # Home[s]
      <4>1. PICK q \in log : q.call = e[1] /\ q.n = e[2] /\ q.id <= mark[Home[s]]
        BY <2>1, <3>3 DEF Rightly
      <4>2. /\ q.id \in Nat /\ q \in log' /\ mark[Home[s]] \in Int /\ mark'[Home[s]] \in Int
            /\ mark[Home[s]] <= mark'[Home[s]]
        BY <1>1, <1>6, FanoutAssumption DEF FanInv, Shape, Row
      <4> QED BY <3>3, <4>1, <4>2 DEF Rightly
    <3> QED BY <3>2, <3>3
  <2>2. ASSUME NEW s \in Sockets, NEW k \in DOMAIN got'[s]
        PROVE  \/ k \in DOMAIN got[s] /\ got'[s][k] = got[s][k]
               \/ \E e \in Notice : got'[s][k] = e /\ Rightly(s, e)'
    <3>1. PICK e : e = <<p, n>> OBVIOUS
    <3>2. e \in Notice /\ e[1] = p /\ e[2] = n BY <3>1 DEF Notice
    <3>3. From[p] # i /\ r \in log' /\ r.id <= mark'[i]
      BY <1>1, <1>2, <1>5, <1>6 DEF FanInv, Logged
    <3>4. Home[s] = i => Rightly(s, e)' BY <1>2, <3>2, <3>3 DEF Rightly
    <3>5. \/ k \in DOMAIN got[s] /\ got'[s][k] = got[s][k]
          \/ got'[s][k] = <<p, n>> /\ Home[s] = i
      BY <1>3, LocalPush
    <3> QED BY <3>1, <3>2, <3>4, <3>5
  <2> QED BY <2>1, <2>2, GivenStays
<1>12. Watched'
  <2> SUFFICES ASSUME NEW s \in Sockets, NEW w \in waiting'[s]
               PROVE /\ w \in log' /\ w.from # Home[s] /\ socket'[s] = "open"
                     /\ About[w.call] \in rooms'[s] /\ mark'[Home[s]] # None
                     /\ Has(s, <<w.call, w.n>>)' \/ Coming(s, w)'
    BY DEF Watched
  <2>1. /\ w \in waiting[s] /\ About[w.call] \in rooms'[s]
        /\ (socket[s] = "open" => socket'[s] = "open")
        /\ \A e : Has(s, e) => Has(s, e)'
        /\ Home[s] = i /\ About[p] \in rooms[s] /\ socket[s] = "open" => Has(s, <<p, n>>)'
    BY <1>3, LocalPush
  <2>2. /\ w \in log /\ w.from # Home[s] /\ socket[s] = "open" /\ About[w.call] \in rooms[s]
        /\ mark[Home[s]] # None
        /\ Has(s, <<w.call, w.n>>) \/ Coming(s, w)
    BY <2>1 DEF FanInv, Watched
  <2>3. mark'[Home[s]] # None BY <1>5, <1>6, <2>2, FanoutAssumption DEF None
  <2>4. ASSUME Coming(s, w) PROVE Has(s, <<w.call, w.n>>)' \/ Coming(s, w)'
    <3>1. CASE Home[s] # i
      <4>1. batch'[Home[s]] = batch[Home[s]] /\ mark'[Home[s]] = mark[Home[s]]
        BY <1>4, <1>6, <3>1, FanoutAssumption
      <4> QED BY <2>4, <4>1 DEF Coming, InBatch
    <3>2. CASE Home[s] = i /\ w = r
      BY <1>2, <2>1, <2>2, <3>2
    <3>3. CASE Home[s] = i /\ w # r /\ InBatch(i, w)
      <4>1. PICK k \in DOMAIN batch[i] : batch[i][k] = w BY <3>3 DEF InBatch
      <4>2. k - 1 \in DOMAIN x /\ x[k - 1] = w BY <1>1, <3>3, <4>1
      <4>3. r.id < w.id BY <1>1, <4>2
      <4> QED BY <1>4, <1>6, <3>3, <4>2, <4>3 DEF Coming, InBatch
    <3>4. CASE Home[s] = i /\ \A k \in DOMAIN batch[i] : batch[i][k].id < w.id
      <4>1. r.id < w.id /\ \A k \in DOMAIN x : x[k].id < w.id BY <1>1, <3>4
      <4> QED BY <1>4, <1>6, <3>4, <4>1 DEF Coming
    <3> QED BY <2>4, <3>1, <3>2, <3>3, <3>4 DEF Coming
  <2> QED BY <1>1, <2>1, <2>2, <2>3, <2>4
<1> QED BY <1>7, <1>8, <1>9, <1>11, <1>12 DEF FanInv

LEMMA FanInit == ASSUME Init PROVE FanInv
<1>1. Shape
  <2>1. <<>> \in Seq(Notice) /\ <<>> \in Seq(Row) OBVIOUS
  <2>2. call \in [Calls -> Call] BY DEF Init, Call
  <2>3. \A p \in Calls : /\ call[p].n <= Sends[p] + 1 /\ call[p].id <= lastId
                         /\ call[p].step = "commit" => call[p].id > 0
    BY FanoutAssumption DEF Init
  <2> QED BY <2>1, <2>2, <2>3 DEF Init, Shape, None
<1>2. Logged BY DEF Init, Logged
<1>3. Ordered BY DEF Init, Ordered
<1>4. Given BY DEF Init, Given
<1>5. Watched BY DEF Init, Watched
<1> QED BY <1>1, <1>2, <1>3, <1>4, <1>5 DEF FanInv

LEMMA FanStep == ASSUME FanInv, [Next]_vars PROVE FanInv'
<1>1. CASE UNCHANGED vars
  <2>1. UNCHANGED <<socket, rooms, got, waiting, call, lastId, log, mark, batch>>
    BY <1>1 DEF vars, hub, publishing, reading
  <2>2. Shape' BY <2>1 DEF FanInv, Shape
  <2>3. Logged' BY <2>1 DEF FanInv, Logged
  <2>4. Ordered' BY <2>1 DEF FanInv, Ordered
  <2>5. Given' BY <2>1 DEF FanInv, Given, Rightly, Issued, Out
  <2>6. Watched' BY <2>1, WatchStays DEF hub, reading
  <2> QED BY <2>2, <2>3, <2>4, <2>5, <2>6 DEF FanInv
<1>2. CASE \E s \in Sockets : \/ Break(s) \/ Disconnect(s)
                              \/ \E c \in Chats : Subscribe(s, c) \/ Unsubscribe(s, c)
  BY <1>2, SocketSteps
<1>3. CASE \E p \in Calls : SendLocal(p) \/ TakeId(p) \/ CommitRow(p) \/ AppendFails(p)
  BY <1>3, SendStep, AppendSteps, CommitStep
<1>4. CASE \E i \in Instances : StartReader(i) \/ ReadLog(i) \/ PushRow(i)
  BY <1>4, StartStep, ReadStep, PushStep
<1> QED BY <1>1, <1>2, <1>3, <1>4 DEF Next

LEMMA Inductive == Spec => []FanInv
<1>1. Init => FanInv BY FanInit
<1>2. FanInv /\ [Next]_vars => FanInv' BY FanStep
<1> QED BY <1>1, <1>2, PTL DEF Spec

-----------------------------------------------------------------------------
\* Every variable of the hubs, the log and the readers has its type.
THEOREM TypeCorrect == Spec => []TypeOK
<1>1. ASSUME FanInv PROVE TypeOK
  <2>1. ASSUME NEW p \in Calls
        PROVE  /\ call[p].n \in 1..(Sends[p] + 1) /\ call[p].id \in 0..lastId
               /\ call[p].step \in {"send", "append", "commit"}
    <3>1. call[p] \in Call /\ call[p].n <= Sends[p] + 1 /\ call[p].id <= lastId /\ lastId \in Nat
      BY <1>1 DEF FanInv, Shape
    <3> QED BY <3>1, FanoutAssumption DEF Call
  <2>2. \A i \in Instances : ToSet(batch[i]) \subseteq log BY <1>1 DEF FanInv, Ordered, ToSet
  <2> QED BY <1>1, <2>1, <2>2 DEF FanInv, Shape, TypeOK
<1> QED BY <1>1, Inductive, PTL

\* A row committed ahead of a reader's mark reaches every socket that was in
\* the room and has stayed, or is still ahead: RealtimeFanout.drain skips none.
THEOREM NothingSkippedAhead == Spec => []NothingAheadIsSkipped
<1>1. ASSUME FanInv PROVE NothingAheadIsSkipped
  <2> SUFFICES ASSUME NEW s \in Sockets, NEW r \in waiting[s]
               PROVE <<r.call, r.n>> \in ToSet(got[s]) \/ r.id > mark[Home[s]]
    BY DEF NothingAheadIsSkipped
  <2>1. Has(s, <<r.call, r.n>>) \/ mark[Home[s]] < r.id BY <1>1 DEF FanInv, Watched, Coming
  <2>2. r \in Row /\ mark[Home[s]] \in Int BY <1>1, FanoutAssumption DEF FanInv, Shape
  <2>3. r.id \in Int BY <2>2 DEF Row
  <2> QED BY <2>1, <2>2, <2>3 DEF Has, ToSet
<1> QED BY <1>1, Inductive, PTL

-----------------------------------------------------------------------------
(* The refinement of Delivery.                                             *)

\* Publishing: the sockets of this instance have only earlier events of the call.
LEMMA SendPromised ==
  ASSUME FanInv, FanInv', NEW p \in Calls, SendLocal(p)
  PROVE  Promise!Publish(p)
<1>1. PICK n \in Nat : n = call[p].n BY DEF FanInv, Shape, Call
<1>2. PICK i \in Instances : i = From[p] BY FanoutAssumption
<1>3. PICK c \in Call : c = call[p] BY DEF FanInv, Shape
<1>4. /\ PublishLocal(i, p, n) /\ call' = [call EXCEPT ![p].step = "append"] /\ c.step = "send" /\ c.n = n
  BY <1>1, <1>2, <1>3 DEF SendLocal, Sending
<1>5. Published[p] = n - 1 /\ Published \in [Calls -> Int]
  <2>1. \A q \in Calls : Published[q] = Out(call[q]) /\ call[q] \in Call
    BY DEF Published, Out, FanInv, Shape
  <2>2. \A d \in Call : Out(d) \in Int BY DEF Call, Out
  <2>3. Published \in [Calls -> Int] BY <2>1, <2>2 DEF Published
  <2> QED BY <1>3, <1>4, <2>1, <2>3 DEF Out
<1>6. Published' = [Published EXCEPT ![p] = n]
  <2>1. call'[p].step = "append" /\ call'[p].n = n /\ \A q \in Calls : q # p => call'[q] = call[q]
    BY <1>3, <1>4 DEF FanInv, Shape
  <2> QED BY <2>1 DEF Published
<1>7. PICK S : S = {s \in Sockets : Home[s] = i /\ About[p] \in rooms[s] /\ socket[s] = "open"}
  OBVIOUS
<1>8. got' = [s \in Sockets |-> IF s \in S THEN Append(got[s], <<p, n>>) ELSE got[s]]
  BY <1>4, <1>7 DEF PublishLocal
<1>9. ASSUME NEW s \in S PROVE s \in Promise!Members(p) /\ Promise!Takes(s, p, n)
  <2>1. s \in Sockets /\ Home[s] = i /\ About[p] \in rooms[s] BY <1>7
  <2>2. ASSUME NEW k \in DOMAIN got[s], got[s][k][1] = p PROVE got[s][k][2] < n
    <3>1. PICK e \in Notice : e = got[s][k] BY <2>1, LenProperties DEF FanInv, Shape
    <3>2. e[1] = p /\ e[2] \in Nat BY <2>2, <3>1 DEF Notice
    <3>3. Rightly(s, e) BY <2>1, <3>1 DEF FanInv, Given
    <3>4. e[2] <= Issued(p) BY <1>2, <2>1, <3>2, <3>3 DEF Rightly
    <3>5. Issued(p) = n - 1 BY <1>3, <1>4 DEF Issued, Out
    <3> QED BY <3>1, <3>2, <3>4, <3>5
  <2> QED BY <2>1, <2>2 DEF Promise!Members, Promise!Takes
<1>10. Promise!PushSome(p, n)
  <2>1. S \in SUBSET {s \in Promise!Members(p) : Promise!Takes(s, p, n)} BY <1>9
  <2> QED BY <1>8, <2>1 DEF Promise!PushSome, Promise!Push
<1>11. Published[p] + 1 = n BY <1>5
<1> QED BY <1>5, <1>6, <1>10, <1>11 DEF Promise!Publish

\* Forwarding: what a socket has of the call came from rows behind the mark, and
\* rows of one call are in the order of its events.
LEMMA PushPromised ==
  ASSUME FanInv, NEW i \in Instances, PushRow(i)
  PROVE  \E p \in Calls : Promise!Forward(p)
<1>1. PICK r \in log, x \in Seq(Row) :
            /\ r \in Row /\ r.call \in Calls /\ r.n \in Nat /\ r.from # i /\ mark[i] < r.id
            /\ PublishLocal(i, r.call, r.n) /\ UNCHANGED <<call, lastId, log>>
  BY HeadRow
<1>2. PICK p \in Calls, n \in Nat : p = r.call /\ n = r.n BY <1>1
<1>3. PublishLocal(i, p, n) BY <1>1, <1>2
<1>4. From[p] # i /\ n \in 1..call[p].n - 1 BY <1>1, <1>2 DEF FanInv, Logged
<1>5. n \in 1..Published[p]
  <2>1. PICK c \in Call : c = call[p] BY DEF FanInv, Shape
  <2>2. Published[p] = Out(c) BY <2>1 DEF Published, Out
  <2>3. n \in 1..c.n - 1 /\ c.n \in Nat BY <1>4, <2>1 DEF Call
  <2> QED BY <2>2, <2>3 DEF Out
<1>6. Published' = Published BY <1>1 DEF Published
<1>7. PICK S : S = {s \in Sockets : Home[s] = i /\ About[p] \in rooms[s] /\ socket[s] = "open"}
  OBVIOUS
<1>8. got' = [s \in Sockets |-> IF s \in S THEN Append(got[s], <<p, n>>) ELSE got[s]]
  BY <1>3, <1>7 DEF PublishLocal
<1>9. ASSUME NEW s \in S PROVE s \in Promise!Members(p) /\ Promise!Takes(s, p, n)
  <2>1. s \in Sockets /\ Home[s] = i /\ About[p] \in rooms[s] BY <1>7
  <2>2. ASSUME NEW k \in DOMAIN got[s], got[s][k][1] = p PROVE got[s][k][2] < n
    <3>1. PICK e \in Notice : e = got[s][k] BY <2>1, LenProperties DEF FanInv, Shape
    <3>2. e[1] = p BY <2>2, <3>1
    <3>3. Rightly(s, e) BY <2>1, <3>1 DEF FanInv, Given
    <3>4. PICK q \in log : q.call = p /\ q.n = e[2] /\ q.id <= mark[i]
      BY <1>4, <2>1, <3>2, <3>3 DEF Rightly
    <3>5. q.id < r.id
      <4>1. q.id \in Int /\ r.id \in Int /\ mark[i] \in Int BY <1>1 DEF FanInv, Shape, Row
      <4> QED BY <1>1, <3>4, <4>1
    <3> QED BY <1>2, <3>1, <3>4, <3>5 DEF FanInv, Logged
  <2> QED BY <2>1, <2>2 DEF Promise!Members, Promise!Takes
<1>10. Promise!PushSome(p, n)
  <2>1. S \in SUBSET {s \in Promise!Members(p) : Promise!Takes(s, p, n)} BY <1>9
  <2> QED BY <1>8, <2>1 DEF Promise!PushSome, Promise!Push
<1> QED BY <1>5, <1>6, <1>10 DEF Promise!Forward

\* Appending to the log publishes nothing more.
LEMMA AppendIsQuiet ==
  ASSUME FanInv, NEW p \in Calls, TakeId(p) \/ CommitRow(p) \/ AppendFails(p)
  PROVE  UNCHANGED <<Published, got>>
<1>1. PICK c \in Call : c = call[p] BY DEF FanInv, Shape
<1>2. got' = got /\ c.step \in {"append", "commit"} /\ c.n \in Nat /\ Published[p] = c.n
  BY <1>1 DEF TakeId, CommitRow, AppendFails, Sending, Published, Call
<1>3. PICK a : a = call'[p] OBVIOUS
<1>4. \/ a.step = "commit" /\ a.n = c.n
      \/ a.step = "send" /\ a.n = c.n + 1
  <2>1. PICK C : C = Call OBVIOUS
  <2>2. call \in [Calls -> C] BY <2>1 DEF FanInv, Shape
  <2>3. CASE TakeId(p)
    <3>1. a = [[c EXCEPT !.step = "commit"] EXCEPT !.id = lastId + 1]
      BY <1>1, <1>3, <2>2, <2>3 DEF TakeId
    <3> QED BY <3>1 DEF Call
  <2>4. CASE CommitRow(p) \/ AppendFails(p)
    <3>1. a = [n |-> c.n + 1, step |-> "send", id |-> 0]
      BY <1>1, <1>3, <2>2, <2>4 DEF CommitRow, AppendFails, NextEvent
    <3> QED BY <3>1
  <2> QED BY <2>3, <2>4
<1>5. \A q \in Calls : q # p => call'[q] = call[q]
  BY DEF TakeId, CommitRow, AppendFails, NextEvent, FanInv, Shape
<1>6. (IF a.step = "send" THEN a.n - 1 ELSE a.n) = c.n BY <1>2, <1>4
<1>7. Published' = [q \in Calls |-> IF call'[q].step = "send" THEN call'[q].n - 1 ELSE call'[q].n]
  BY DEF Published
<1>8. \A q \in Calls : Published'[q] = Published[q]
  BY <1>2, <1>3, <1>5, <1>6, <1>7 DEF Published
<1>9. Published' = Published BY <1>7, <1>8 DEF Published
<1> QED BY <1>2, <1>9

\* The hubs and the log do what Delivery promises a browser: an event comes at
\* most once over both paths, in the order of its call, and only into its room.
THEOREM DeliveryRefined == Spec => DeliversAsPromised
<1>1. Init => Promise!Init BY DEF Init, Promise!Init, Published
<1>2. ASSUME FanInv, FanInv', [Next]_vars PROVE [Promise!Next]_<<Published, got>>
  <2>1. CASE UNCHANGED vars BY <2>1 DEF vars, publishing, Published
  <2>2. CASE \E s \in Sockets : \/ Break(s) \/ Disconnect(s)
                                \/ \E c \in Chats : Subscribe(s, c) \/ Unsubscribe(s, c)
    BY <2>2 DEF Break, Disconnect, Subscribe, Unsubscribe, publishing, Published
  <2>3. CASE \E p \in Calls : SendLocal(p)
    BY <1>2, <2>3, SendPromised DEF Promise!Next
  <2>4. CASE \E p \in Calls : TakeId(p) \/ CommitRow(p) \/ AppendFails(p)
    BY <1>2, <2>4, AppendIsQuiet
  <2>5. CASE \E i \in Instances : StartReader(i) \/ ReadLog(i)
    BY <2>5 DEF StartReader, ReadLog, publishing, Published
  <2>6. CASE \E i \in Instances : PushRow(i)
    BY <1>2, <2>6, PushPromised DEF Promise!Next
  <2> QED BY <1>2, <2>1, <2>2, <2>3, <2>4, <2>5, <2>6 DEF Next
<1> QED BY <1>1, <1>2, Inductive, PTL DEF Spec, DeliversAsPromised, Promise!Spec
=============================================================================
