--------------------------- MODULE VibeCardProofs ---------------------------
(***************************************************************************)
(* What the user removed, chose, wrote or deleted stands on the vibe card, *)
(* for any number of areas, messages, browsers, runs and deletions, and    *)
(* however many attempts an update has.                                    *)
(***************************************************************************)
EXTENDS VibeCard, TLAPS

\* Omi's intro is on its way in r.
Underway(r) == r.step = "writing" \/ r.change.intro.by = "omi"

\* What a writer w may have in hand: a removal alone, an extra only as a
\* browser, and as a deletion the proof that is left, where some is.
Fits(w, r) ==
    /\ r \in Works
    /\ r.change.reject # {} => r.change.over = {} /\ ~IsExtra(r.change)
    /\ r.change.intro.by = "none" => r.change.intro = NoIntro
    /\ w \notin Tabs => r.step # "writing" /\ ~IsExtra(r.change)
    /\ w \in Deletions => r.change.reject = {} /\ \A a \in r.change.over : r.change.line[a] # {}

\* A deletion at work has deleted its message.
GoneIsErased == \A d \in Deletions : Busy(d) => work[d].gone \in erased

\* A removal not made up for is marked on the card, with the time it happened;
\* a line that shows carries no mark.
RemovalMarked ==
    \A a \in Areas :
        /\ removed[a] # Never => card.line[a] = {} /\ card.mark[a] = removed[a]
        /\ card.line[a] # {} => card.mark[a] = Never

\* While the user's own intro stands unchallenged, nobody writes another.
OwnUnchallenged ==
    own = "yes" => card.intro.by = "user" /\ \A w \in Writers : ~Underway(work[w])

CardInv ==
    /\ TypeOK
    /\ \A w \in Writers : Fits(w, work[w])
    /\ GoneIsErased
    /\ RemovalMarked
    /\ card.consent = chosen \/ unsaved
    /\ OwnUnchallenged

-----------------------------------------------------------------------------
(* What the pieces of a step are.                                          *)

LEMMA ConstantTypes ==
    /\ NoLines \in Lines /\ NoIntro \in Intros /\ NoChange \in Changes /\ NoCard \in Cards
    /\ Idle \in Works
  BY VibeAssumption DEF NoLines, Lines, NoIntro, Intros, NoChange, Changes, NoCard, Cards,
     Idle, Works, Steps, Consents, Messages, Never

LEMMA NoChangeIsPlain ==
    /\ NoChange.over = {} /\ NoChange.reject = {} /\ NoChange.line = NoLines
    /\ NoChange.intro = NoIntro /\ NoIntro.by = "none" /\ NoChange.consent = "never"
    /\ ~IsExtra(NoChange)
  BY DEF NoChange, NoIntro, IsExtra

\* A writer at rest, and one that looks something up or is about to write.
At(step) == [Idle EXCEPT !.step = step]
Reading(step, base) == [Idle EXCEPT !.step = step, !.base = base]
Erased(m) == [Idle EXCEPT !.step = "erased", !.gone = m]
About(k, m) == [Idle EXCEPT !.step = "update", !.change = k, !.gone = m]

LEMMA IdleFits ==
  ASSUME NEW w \in Writers, NEW s \in Steps \ {"writing"}
  PROVE  /\ Fits(w, At(s)) /\ ~Underway(At(s)) /\ At(s).change = NoChange
         /\ At(s).step = s /\ At(s).base = NoLines /\ At(s).gone = 0
  BY ConstantTypes, NoChangeIsPlain DEF Fits, Underway, Idle, Works, At

LEMMA ReadingFits ==
  ASSUME NEW w \in Writers, NEW s \in Steps, NEW b \in Lines, s = "writing" => w \in Tabs
  PROVE  /\ Fits(w, Reading(s, b)) /\ Reading(s, b).change = NoChange
         /\ Reading(s, b).step = s /\ Reading(s, b).base = b /\ Reading(s, b).gone = 0
         /\ Underway(Reading(s, b)) => s = "writing"
  BY ConstantTypes, NoChangeIsPlain DEF Fits, Underway, Idle, Works, Reading

LEMMA ErasedFits ==
  ASSUME NEW w \in Writers, NEW m \in 0..MaxMessages
  PROVE  /\ Fits(w, Erased(m)) /\ ~Underway(Erased(m)) /\ Erased(m).change = NoChange
         /\ Erased(m).step = "erased" /\ Erased(m).base = NoLines /\ Erased(m).gone = m
  BY ConstantTypes, NoChangeIsPlain DEF Fits, Underway, Idle, Works, Steps, Erased

\* A change that is about to be made.
LEMMA ChangeFits ==
  ASSUME NEW w \in Writers, NEW k \in Changes, NEW m \in 0..MaxMessages,
         k.reject # {} => k.over = {} /\ ~IsExtra(k),
         k.intro.by = "none" => k.intro = NoIntro,
         w \notin Tabs => ~IsExtra(k),
         w \in Deletions => k.reject = {} /\ \A a \in k.over : k.line[a] # {}
  PROVE  /\ Fits(w, About(k, m)) /\ About(k, m).change = k /\ About(k, m).gone = m
         /\ About(k, m).step = "update" /\ About(k, m).base = NoLines
         /\ Underway(About(k, m)) <=> k.intro.by = "omi"
  BY ConstantTypes, NoChangeIsPlain DEF Fits, Underway, Idle, Works, Steps, About

LEMMA DoneFits ==
  ASSUME NEW w \in Writers
  PROVE  /\ Fits(w, Done(w)) /\ ~Underway(Done(w)) /\ Done(w).change = NoChange
         /\ Done(w).step \in {"idle", "over"} /\ Done(w).base = NoLines /\ Done(w).gone = 0
         /\ Fits(w, Idle) /\ ~Underway(Idle) /\ Idle.change = NoChange
         /\ Idle.step = "idle" /\ Idle.base = NoLines /\ Idle.gone = 0
  BY ConstantTypes, NoChangeIsPlain DEF Fits, Underway, Idle, Works, Steps, Done

\* What the merge and the extras make of a card.
LEMMA MergedIs ==
  ASSUME NEW c \in Cards, NEW k \in Changes, sent \in 0..MaxMessages
  PROVE  /\ Merged(c, k) \in Cards
         /\ Merged(c, k).intro = c.intro /\ Merged(c, k).consent = c.consent
         /\ \A a \in Areas :
               LET mark == IF a \in k.reject THEN sent ELSE c.mark[a]
                   proof == {m \in k.line[a] : m > mark}
               IN  IF a \in k.over /\ proof # {}
                   THEN Merged(c, k).line[a] = proof /\ Merged(c, k).mark[a] = Never
                   ELSE /\ Merged(c, k).mark[a] = mark
                        /\ Merged(c, k).line[a] = IF a \in k.reject \union k.drop THEN {} ELSE c.line[a]
<1> DEFINE mark == [a \in Areas |-> IF a \in k.reject THEN sent ELSE c.mark[a]]
           proof == ProofAfterRejection(k.line, mark)
           over == {a \in k.over : proof[a] # {}}
           line2 == [a \in Areas |-> IF a \in over THEN proof[a]
                                     ELSE IF a \in k.reject \union k.drop THEN {} ELSE c.line[a]]
           mark2 == [a \in Areas |-> IF a \in over THEN Never ELSE mark[a]]
<1>1. mark \in [Areas -> Never..MaxMessages]
  BY VibeAssumption DEF Cards, Never
<1>2. proof \in Lines /\ \A a \in Areas : proof[a] = {m \in k.line[a] : m > mark[a]}
  BY DEF ProofAfterRejection, Lines, Changes
<1>3. line2 \in Lines
  <2> HIDE DEF mark, proof, over
  <2> QED BY <1>2 DEF Lines, Cards
<1>4. mark2 \in [Areas -> Never..MaxMessages]
  <2> HIDE DEF mark, proof, over
  <2> QED BY <1>1, VibeAssumption DEF Never
<1>5. Merged(c, k) = [c EXCEPT !.row = TRUE, !.line = line2, !.mark = mark2]
  BY DEF Merged
<1>6. /\ Merged(c, k) \in Cards /\ Merged(c, k).line = line2 /\ Merged(c, k).mark = mark2
      /\ Merged(c, k).intro = c.intro /\ Merged(c, k).consent = c.consent
  <2> HIDE DEF line2, mark2
  <2> QED BY <1>3, <1>4, <1>5 DEF Cards
<1>7. ASSUME NEW a \in Areas
      PROVE  LET mk == IF a \in k.reject THEN sent ELSE c.mark[a]
                 pf == {m \in k.line[a] : m > mk}
             IN  IF a \in k.over /\ pf # {}
                 THEN Merged(c, k).line[a] = pf /\ Merged(c, k).mark[a] = Never
                 ELSE /\ Merged(c, k).mark[a] = mk
                      /\ Merged(c, k).line[a] = IF a \in k.reject \union k.drop THEN {} ELSE c.line[a]
  <2>1. mark[a] = IF a \in k.reject THEN sent ELSE c.mark[a] OBVIOUS
  <2>2. a \in over <=> a \in k.over /\ {m \in k.line[a] : m > mark[a]} # {} BY <1>2
  <2> QED BY <1>2, <1>6, <2>1, <2>2
<1> QED BY <1>6, <1>7

LEMMA ExtrasAre ==
  ASSUME NEW c \in Cards, NEW k \in Changes
  PROVE  /\ WithExtras(c, k) \in Cards
         /\ WithExtras(c, k).line = c.line /\ WithExtras(c, k).mark = c.mark
         /\ WithExtras(c, k).intro = IF k.intro = NoIntro THEN c.intro ELSE k.intro
         /\ WithExtras(c, k).consent = IF k.consent = "never" THEN c.consent ELSE k.consent
  BY DEF WithExtras, Cards, Changes

-----------------------------------------------------------------------------
(* The card's invariant: nobody but WriteCard touches the card.            *)

\* A step of w that leaves the card alone keeps the invariant, if what w then
\* has in hand fits.
LEMMA QuietStep ==
  ASSUME CardInv, NEW w \in Writers, NEW r, Becomes(w, r), Fits(w, r),
         own = "yes" => ~Underway(r),
         w \in Deletions /\ r.step \notin {"idle", "over"} => r.gone \in erased',
         UNCHANGED <<card, sent, removed, own>>,
         erased \subseteq erased', erased' \subseteq 1..sent, late' \subseteq erased',
         asked' \in 0..MaxAsks, mishaps' \in 0..MaxMishaps,
         chosen' \in Consents, unsaved' \in BOOLEAN, card.consent = chosen' \/ unsaved'
  PROVE  CardInv'
<1>1. work \in [Writers -> Works] /\ r \in Works BY DEF CardInv, TypeOK, Fits
<1>2. \A v \in Writers : work'[v] = IF v = w THEN r ELSE work[v] BY <1>1 DEF Becomes
<1>3. work' \in [Writers -> Works] BY <1>1 DEF Becomes
<1>4. TypeOK' BY <1>3 DEF CardInv, TypeOK
<1>5. \A v \in Writers : Fits(v, work'[v]) BY <1>2 DEF CardInv
<1>6. GoneIsErased'
  BY <1>2 DEF CardInv, GoneIsErased, Busy, Writers
<1>7. RemovalMarked' BY DEF CardInv, RemovalMarked
<1>8. OwnUnchallenged' BY <1>2 DEF CardInv, OwnUnchallenged
<1>9. (\A v \in Writers : Fits(v, work[v]))' BY <1>5 DEF Fits
<1> QED BY <1>4, <1>6, <1>7, <1>8, <1>9 DEF CardInv

\* A step of w that changes nothing else at all.
LEMMA OnlyWork ==
  ASSUME CardInv, NEW w \in Writers, NEW r, Becomes(w, r), Fits(w, r),
         own = "yes" => ~Underway(r),
         w \in Deletions /\ r.step \notin {"idle", "over"} => r.gone \in erased,
         UNCHANGED <<card, sent, erased, removed, own, late, chosen, unsaved>>,
         asked' \in 0..MaxAsks, mishaps' \in 0..MaxMishaps
  PROVE  CardInv'
<1>1. /\ erased \subseteq 1..sent /\ late \subseteq erased /\ chosen \in Consents /\ unsaved \in BOOLEAN
      /\ card.consent = chosen \/ unsaved
  BY DEF CardInv, TypeOK
<1> QED BY <1>1, QuietStep

\* Reading the card, and reading it again after a lost race.
LEMMA CardRead ==
  ASSUME CardInv, NEW w \in Writers, ReadCard(w) \/ LoseRace(w) PROVE CardInv'
<1>1. work[w] \in Works /\ Fits(w, work[w]) /\ card \in Cards BY DEF CardInv, TypeOK
<1>2. asked' \in 0..MaxAsks /\ mishaps' \in 0..MaxMishaps
  BY DEF CardInv, TypeOK, ReadCard, LoseRace, history
<1>3. CASE ReadCard(w)
  <2> DEFINE r == [work[w] EXCEPT !.step = "merging", !.seen = card, !.overtaken = FALSE]
  <2>1. r \in Works /\ r.change = work[w].change /\ r.gone = work[w].gone /\ r.step = "merging"
    BY <1>1 DEF Works, Steps
  <2>2. Fits(w, r) BY <1>1, <2>1 DEF Fits
  <2>3. own = "yes" => ~Underway(r)
    BY <1>3, <2>1 DEF CardInv, OwnUnchallenged, Underway
  <2>4. w \in Deletions => r.gone \in erased
    BY <1>3, <2>1 DEF CardInv, GoneIsErased, Busy, ReadCard
  <2>5. Becomes(w, r) /\ UNCHANGED <<card, sent, erased, removed, own, late, chosen, unsaved>>
    BY <1>3 DEF ReadCard, history
  <2> HIDE DEF r
  <2> QED BY <1>2, <2>2, <2>3, <2>4, <2>5, OnlyWork
<1>4. CASE LoseRace(w)
  <2> DEFINE r == [work[w] EXCEPT !.step = "update", !.seen = NoCard, !.tries = @ + 1]
  <2>1. work[w].tries + 1 \in 0..WriteAttempts - 1
    BY <1>1, <1>4, VibeAssumption DEF LoseRace, Works
  <2>2. r \in Works /\ r.change = work[w].change /\ r.gone = work[w].gone /\ r.step = "update"
    BY <1>1, <2>1, ConstantTypes DEF Works, Steps
  <2>3. Fits(w, r) BY <1>1, <2>2 DEF Fits
  <2>4. own = "yes" => ~Underway(r)
    BY <1>4, <2>2 DEF CardInv, OwnUnchallenged, Underway
  <2>5. w \in Deletions => r.gone \in erased
    BY <1>4, <2>2 DEF CardInv, GoneIsErased, Busy, LoseRace
  <2>6. Becomes(w, r) /\ UNCHANGED <<card, sent, erased, removed, own, late, chosen, unsaved>>
    BY <1>4 DEF LoseRace, history
  <2> HIDE DEF r
  <2> QED BY <1>2, <2>3, <2>4, <2>5, <2>6, OnlyWork
<1> QED BY <1>3, <1>4

\* What a writer is left with after its last attempt or its write.
LEMMA EndedFits ==
  ASSUME NEW w \in Writers, Fits(w, work[w])
  PROVE  /\ Fits(w, Ended(w)) /\ ~Underway(Ended(w)) /\ Ended(w).change = NoChange
         /\ w \notin Tabs => Ended(w).step \in {"idle", "over"}
         /\ Ended(w).step \in {"idle", "over", "again"} /\ Ended(w).base = NoLines
<1>1. CASE work[w].change.intro.by = "reset"
  <2>1. Ended(w) = At("again") BY <1>1 DEF Ended, At
  <2>2. w \in Tabs BY <1>1, NoChangeIsPlain DEF Fits, IsExtra
  <2>3. "again" \in Steps \ {"writing"} BY DEF Steps
  <2> QED BY <2>1, <2>2, <2>3, IdleFits
<1>2. CASE work[w].change.intro.by # "reset"
  BY <1>2, DoneFits DEF Ended
<1> QED BY <1>1, <1>2

LEMMA CardGivenUp ==
  ASSUME CardInv, NEW w \in Writers, GiveUp(w) \/ Die(w) PROVE CardInv'
<1>1. Fits(w, work[w]) /\ work[w] \in Works BY DEF CardInv, TypeOK
<1>2. /\ erased \subseteq 1..sent /\ late \subseteq erased /\ chosen \in Consents /\ unsaved \in BOOLEAN
      /\ (card.consent = chosen \/ unsaved) /\ asked \in 0..MaxAsks /\ mishaps \in 0..MaxMishaps
  BY DEF CardInv, TypeOK
<1>3. CASE GiveUp(w)
  <2>1. Becomes(w, Ended(w)) /\ UNCHANGED <<card, sent, erased, asked, mishaps, removed, own>>
    BY <1>3 DEF GiveUp
  <2>2. late' \subseteq erased'
    BY <1>2, <1>3 DEF CardInv, GoneIsErased, Busy, GiveUp
  <2>3. chosen' \in Consents /\ unsaved' \in BOOLEAN /\ (card.consent = chosen' \/ unsaved')
    BY <1>1, <1>2, <1>3 DEF GiveUp, NoteChoice, Works, Changes
  <2>4. w \in Deletions => Ended(w).step \in {"idle", "over"}
    BY <1>1, EndedFits, VibeAssumption
  <2>5. erased' = erased /\ asked' \in 0..MaxAsks /\ mishaps' \in 0..MaxMishaps BY <1>2, <2>1
  <2> DEFINE x == Ended(w)
  <2>6. Fits(w, x) /\ ~Underway(x) /\ Becomes(w, x) BY <1>1, <2>1, EndedFits
  <2>7. w \in Deletions => x.step \in {"idle", "over"} BY <2>4
  <2> HIDE DEF x
  <2> QED BY <1>2, <2>1, <2>2, <2>3, <2>5, <2>6, <2>7, QuietStep
<1>4. CASE Die(w)
  <2>1. Becomes(w, Done(w)) /\ UNCHANGED <<card, sent, erased, asked, removed, chosen, unsaved, own>>
    BY <1>4 DEF Die
  <2>2. late' \subseteq erased'
    BY <1>2, <1>4 DEF CardInv, GoneIsErased, Die
  <2>3. mishaps' \in 0..MaxMishaps BY <1>2, <1>4, VibeAssumption DEF Die
  <2> QED BY <1>2, <2>1, <2>2, <2>3, DoneFits, QuietStep
<1> QED BY <1>3, <1>4

LEMMA CardRun ==
  ASSUME CardInv, NEW r \in Runs, ReadInputs(r) \/ \E areas \in SUBSET Areas : ProveLines(r, areas)
  PROVE  CardInv'
<1>1. r \in Writers /\ r \notin Deletions /\ r \notin Tabs BY VibeAssumption DEF Writers
<1>2. /\ work[r] \in Works /\ asked \in 0..MaxAsks /\ mishaps \in 0..MaxMishaps
      /\ sent \in 0..MaxMessages
  BY <1>1 DEF CardInv, TypeOK
<1>3. UNCHANGED <<card, sent, erased, asked, mishaps, removed, own, late, chosen, unsaved>>
  BY DEF ReadInputs, ProveLines, history
<1>4. CASE ReadInputs(r)
  <2>1. Citable(r) \in Lines
    BY <1>2, VibeAssumption DEF Citable, Lines, Messages
  <2>2. "asking" \in Steps BY DEF Steps
  <2> DEFINE x == Reading("asking", Citable(r))
  <2>3. Fits(r, x) /\ ~Underway(x) BY <1>1, <2>1, <2>2, ReadingFits
  <2>4. Becomes(r, x) BY <1>4 DEF ReadInputs, Reading
  <2> HIDE DEF x
  <2> QED BY <1>1, <1>2, <1>3, <2>3, <2>4, OnlyWork
<1>5. ASSUME NEW areas \in SUBSET Areas, ProveLines(r, areas) PROVE CardInv'
  <2>1. PICK kept \in Lines :
          /\ areas = {a \in Areas : kept[a] # {}}
          /\ IF areas = {} THEN Becomes(r, Done(r))
             ELSE Update(r, [NoChange EXCEPT !.over = areas, !.line = kept])
    BY <1>5 DEF ProveLines
  <2>2. CASE Becomes(r, Done(r))
    BY <1>1, <1>2, <1>3, <2>2, DoneFits, OnlyWork
  <2>3. CASE Update(r, [NoChange EXCEPT !.over = areas, !.line = kept])
    <3> DEFINE k == [NoChange EXCEPT !.over = areas, !.line = kept]
               x == About(k, work[r].gone)
    <3>1. k \in Changes /\ k.reject = {} /\ ~IsExtra(k) /\ k.intro = NoIntro
      BY ConstantTypes, NoChangeIsPlain DEF Changes, IsExtra
    <3>2. work[r].gone \in 0..MaxMessages BY <1>2 DEF Works
    <3>3. Becomes(r, x) BY <2>3 DEF Update, About
    <3>4. Fits(r, x) /\ ~Underway(x)
      <4> HIDE DEF k
      <4> QED BY <1>1, <3>1, <3>2, ChangeFits, NoChangeIsPlain
    <3> HIDE DEF x
    <3> QED BY <1>1, <1>2, <1>3, <3>3, <3>4, OnlyWork
  <2> QED BY <2>1, <2>2, <2>3
<1> QED BY <1>4, <1>5

LEMMA CardErase ==
  ASSUME CardInv, NEW d \in Deletions, FindProof(d) \/ \E m \in Messages : Erase(d, m)
  PROVE  CardInv'
<1>1. d \in Writers /\ d \notin Tabs BY VibeAssumption DEF Writers
<1>2. /\ work[d] \in Works /\ asked \in 0..MaxAsks /\ mishaps \in 0..MaxMishaps
      /\ erased \subseteq 1..sent /\ late \subseteq erased /\ sent \in 0..MaxMessages
      /\ chosen \in Consents /\ unsaved \in BOOLEAN /\ (card.consent = chosen \/ unsaved)
      /\ card \in Cards
  BY <1>1 DEF CardInv, TypeOK
<1>3. ASSUME NEW m \in Messages, Erase(d, m) PROVE CardInv'
  <2>1. /\ m \in 1..sent /\ erased' = erased \union {m}
        /\ UNCHANGED <<card, sent, asked, mishaps, history>>
    BY <1>3 DEF Erase
  <2>2. m \in 0..MaxMessages BY VibeAssumption DEF Messages
  <2> DEFINE x == Erased(m)
  <2>3. Fits(d, x) /\ ~Underway(x) /\ x.gone = m BY <1>1, <2>2, ErasedFits
  <2>4. Becomes(d, x) BY <1>3 DEF Erase, Erased
  <2> HIDE DEF x
  <2> QED BY <1>1, <1>2, <2>1, <2>3, <2>4, QuietStep DEF history
<1>4. CASE FindProof(d)
  <2> DEFINE m == work[d].gone
             touched == {a \in Areas : m \in card.line[a]}
             left == [a \in Areas |-> IF a \in touched THEN card.line[a] \ {m} ELSE {}]
             over == {a \in touched : left[a] # {}}
             drop == {a \in touched : left[a] = {}}
             k == [NoChange EXCEPT !.over = over, !.line = left, !.drop = drop]
             x == About(k, m)
  <2>1. m \in erased /\ m \in 0..MaxMessages
    BY <1>2, <1>4 DEF CardInv, GoneIsErased, Busy, FindProof, Works
  <2>2. late' \subseteq erased /\ UNCHANGED <<card, sent, erased, asked, mishaps, removed, chosen, unsaved, own>>
    BY <1>2, <1>4, <2>1 DEF FindProof, NoteDeletion
  <2>3. CASE Becomes(d, Done(d))
    BY <1>1, <1>2, <2>2, <2>3, DoneFits, QuietStep
  <2>4. CASE Update(d, k)
    <3>1. left \in Lines BY <1>2 DEF Lines, Cards
    <3>2. over \subseteq Areas /\ drop \subseteq Areas /\ \A a \in over : left[a] # {} OBVIOUS
    <3>3. k \in Changes /\ k.reject = {} /\ ~IsExtra(k) /\ k.intro = NoIntro
          /\ k.over = over /\ k.line = left
      <4> HIDE DEF over, drop, left
      <4> QED BY <3>1, <3>2, ConstantTypes, NoChangeIsPlain DEF Changes, IsExtra
    <3>4. Fits(d, x) /\ ~Underway(x) /\ x.gone = m
      <4> HIDE DEF k, m
      <4> QED BY <1>1, <2>1, <3>2, <3>3, ChangeFits, NoChangeIsPlain
    <3>5. Becomes(d, x) BY <2>4 DEF Update, About
    <3> HIDE DEF x, m
    <3> QED BY <1>1, <1>2, <2>1, <2>2, <3>4, <3>5, QuietStep
  <2>5. Becomes(d, Done(d)) \/ Update(d, k) BY <1>4 DEF FindProof
  <2> QED BY <2>3, <2>4, <2>5
<1> QED BY <1>3, <1>4

\* A request that makes one change to the card, and no other intro than the user's.
LEMMA CardRequest ==
  ASSUME CardInv, NEW p \in Tabs, NEW k \in Changes, Ask(p), Update(p, k),
         k.reject # {} => k.over = {} /\ ~IsExtra(k),
         k.intro.by = "none" => k.intro = NoIntro, k.intro.by # "omi",
         UNCHANGED <<card, sent, erased, mishaps, history>>
  PROVE  CardInv'
<1>1. p \in Writers /\ p \notin Deletions BY VibeAssumption DEF Writers
<1>2. /\ work[p].gone \in 0..MaxMessages /\ mishaps' \in 0..MaxMishaps /\ asked \in 0..MaxAsks
  BY <1>1 DEF CardInv, TypeOK, Works
<1>3. asked' \in 0..MaxAsks BY <1>2, VibeAssumption DEF Ask
<1> DEFINE x == About(k, work[p].gone)
<1>4. Fits(p, x) /\ ~Underway(x) BY <1>1, <1>2, ChangeFits
<1>5. Becomes(p, x) BY DEF Update, About
<1> HIDE DEF x
<1> QED BY <1>1, <1>2, <1>3, <1>4, <1>5, OnlyWork DEF history

LEMMA CardAsked ==
  ASSUME CardInv, NEW p \in Tabs,
         \/ \E a \in Areas : Reject(p, a)
         \/ \E c \in {"yes", "no"} : Choose(p, c)
         \/ EditIntro(p) \/ ResetIntro(p)
  PROVE  CardInv'
<1>1. ASSUME NEW a \in Areas, Reject(p, a) PROVE CardInv'
  <2> DEFINE k == [NoChange EXCEPT !.reject = {a}]
  <2>1. k \in Changes /\ k.over = {} /\ ~IsExtra(k) /\ k.intro = NoIntro
    BY ConstantTypes, NoChangeIsPlain DEF Changes, IsExtra
  <2>2. Ask(p) /\ Update(p, k) /\ UNCHANGED <<card, sent, erased, mishaps, history>>
    BY <1>1 DEF Reject
  <2> HIDE DEF k
  <2> QED BY <2>1, <2>2, CardRequest, NoChangeIsPlain
<1>2. ASSUME NEW c \in {"yes", "no"}, Choose(p, c) PROVE CardInv'
  <2> DEFINE k == [NoChange EXCEPT !.consent = c]
  <2>1. k \in Changes /\ k.reject = {} /\ k.intro = NoIntro
    BY ConstantTypes, NoChangeIsPlain DEF Changes, Consents
  <2>2. Ask(p) /\ Update(p, k) /\ UNCHANGED <<card, sent, erased, mishaps, history>>
    BY <1>2 DEF Choose
  <2> HIDE DEF k
  <2> QED BY <2>1, <2>2, CardRequest, NoChangeIsPlain
<1>3. ASSUME NEW by \in {"user", "reset"},
             Ask(p), Update(p, [NoChange EXCEPT !.intro = [by |-> by, of |-> NoLines]]),
             UNCHANGED <<card, sent, erased, mishaps, history>>
      PROVE  CardInv'
  <2> DEFINE k == [NoChange EXCEPT !.intro = [by |-> by, of |-> NoLines]]
  <2>1. [by |-> by, of |-> NoLines] \in Intros BY ConstantTypes DEF Intros
  <2>2. k \in Changes /\ k.reject = {} /\ k.intro.by = by
    BY <2>1, ConstantTypes, NoChangeIsPlain DEF Changes
  <2>3. Update(p, k) BY <1>3
  <2> HIDE DEF k
  <2> QED BY <1>3, <2>2, <2>3, CardRequest
<1>4. CASE EditIntro(p) BY <1>3, <1>4 DEF EditIntro
<1>5. CASE ResetIntro(p) BY <1>3, <1>5 DEF ResetIntro
<1> QED BY <1>1, <1>2, <1>4, <1>5

\* Omi writes an intro only while the user's own is not on the card.
LEMMA CardVisit ==
  ASSUME CardInv, NEW p \in Tabs, VisitProfile(p) \/ IntroWritten(p) \/ IntroFails(p)
  PROVE  CardInv'
<1>1. p \in Writers /\ p \notin Deletions BY VibeAssumption DEF Writers
<1>2. /\ work[p] \in Works /\ work[p].gone \in 0..MaxMessages /\ mishaps \in 0..MaxMishaps
      /\ asked \in 0..MaxAsks /\ card \in Cards
  BY <1>1 DEF CardInv, TypeOK, Works
<1>3. asked' \in 0..MaxAsks /\ UNCHANGED <<card, sent, erased, mishaps, history>>
  BY <1>2, VibeAssumption DEF VisitProfile, IntroWritten, IntroFails, Ask
<1>4. CASE Becomes(p, Idle)
  BY <1>1, <1>2, <1>3, <1>4, DoneFits, OnlyWork DEF history
<1>5. CASE VisitProfile(p) /\ NeedsIntro
  <2>1. PublicLines \in Lines BY <1>2 DEF PublicLines, Lines, Cards
  <2>2. "writing" \in Steps BY DEF Steps
  <2> DEFINE x == Reading("writing", PublicLines)
  <2>3. Fits(p, x) BY <1>1, <2>1, <2>2, ReadingFits
  <2>4. own # "yes" BY <1>5 DEF NeedsIntro, CardInv, OwnUnchallenged
  <2>5. Becomes(p, x) BY <1>5 DEF VisitProfile, Reading
  <2> HIDE DEF x
  <2> QED BY <1>1, <1>2, <1>3, <2>3, <2>4, <2>5, OnlyWork DEF history
<1>6. CASE IntroWritten(p)
  <2> DEFINE i == [by |-> "omi", of |-> work[p].base]
             k == [NoChange EXCEPT !.intro = i]
             x == About(k, work[p].gone)
  <2>1. i \in Intros /\ i.by = "omi" BY <1>2 DEF Intros, Works
  <2>2. k \in Changes /\ k.reject = {} /\ k.intro = i
    <3> HIDE DEF i
    <3> QED BY <2>1, ConstantTypes, NoChangeIsPlain DEF Changes
  <2>3. Fits(p, x)
    <3> HIDE DEF k
    <3> QED BY <1>1, <1>2, <2>1, <2>2, ChangeFits
  <2>4. own # "yes" BY <1>1, <1>6 DEF IntroWritten, CardInv, OwnUnchallenged, Underway
  <2>5. Becomes(p, x) BY <1>6 DEF IntroWritten, Update, About
  <2> HIDE DEF x
  <2> QED BY <1>1, <1>2, <1>3, <2>3, <2>4, <2>5, OnlyWork DEF history
<1> QED BY <1>4, <1>5, <1>6 DEF VisitProfile, IntroFails

\* What a write leaves in the hands of the writers.
LEMMA WriteLeaves ==
  ASSUME CardInv, NEW w \in Writers, WriteCard(w)
  PROVE  /\ work' \in [Writers -> Works] /\ work'[w] = Ended(w)
         /\ \A v \in Writers \ {w} :
               /\ work'[v].step = work[v].step /\ work'[v].base = work[v].base
               /\ work'[v].gone = work[v].gone /\ work'[v].change = work[v].change
         /\ \A v \in Writers : Fits(v, work'[v])
<1>1. /\ \A v \in Writers : Fits(v, work[v]) /\ work[v] \in Works
      /\ work' = [v \in Writers |-> IF v = w THEN Ended(w)
                    ELSE [work[v] EXCEPT !.overtaken = @ \/ work[v].step = "merging"]]
  BY DEF CardInv, TypeOK, WriteCard
<1>2. Fits(w, Ended(w)) /\ Ended(w) \in Works BY <1>1, EndedFits DEF Fits
<1>3. ASSUME NEW v \in Writers \ {w}
      PROVE  /\ work'[v].step = work[v].step /\ work'[v].base = work[v].base
             /\ work'[v].gone = work[v].gone /\ work'[v].change = work[v].change
             /\ work'[v] \in Works
  <2>1. work'[v] = [work[v] EXCEPT !.overtaken = @ \/ work[v].step = "merging"] BY <1>1
  <2>2. work[v] \in Works BY <1>1
  <2> QED BY <2>1, <2>2 DEF Works
<1>4. \A v \in Writers \ {w} : Fits(v, work'[v]) BY <1>1, <1>3 DEF Fits
<1>5. work'[w] = Ended(w) BY <1>1
<1>6. work' \in [Writers -> Works] BY <1>1, <1>2, <1>3
<1> QED BY <1>2, <1>3, <1>4, <1>5, <1>6

\* What a write makes of the card.
LEMMA WriteMakes ==
  ASSUME CardInv, NEW w \in Writers, WriteCard(w)
  PROVE  LET k == work[w].change IN
         /\ card' \in Cards /\ k \in Changes
         /\ card'.consent = IF k.consent = "never" THEN card.consent ELSE k.consent
         /\ card'.intro = IF k.intro = NoIntro THEN card.intro ELSE k.intro
         /\ IsExtra(k) => card'.line = card.line /\ card'.mark = card.mark
         /\ ~IsExtra(k) => card' = Merged(card, k)
<1>1. card \in Cards /\ work[w].change \in Changes /\ sent \in 0..MaxMessages
  BY DEF CardInv, TypeOK, Works
<1>2. card' = Written(card, work[w].change) BY DEF WriteCard, Unchanged
<1> QED BY <1>1, <1>2, MergedIs, ExtrasAre DEF Written, IsExtra

LEMMA CardWritten == ASSUME CardInv, NEW w \in Writers, WriteCard(w) PROVE CardInv'
<1> DEFINE k == work[w].change
<1>1. /\ work[w] \in Works /\ Fits(w, work[w]) /\ k \in Changes /\ card \in Cards
      /\ sent \in 0..MaxMessages /\ erased \subseteq 1..sent /\ late \subseteq erased
      /\ removed \in [Areas -> Never..sent]
  BY DEF CardInv, TypeOK, Works
<1>2. UNCHANGED <<sent, erased, asked, mishaps>> BY DEF WriteCard
<1>3. removed' \in [Areas -> Never..sent]
  BY <1>1 DEF WriteCard, NoteRemoval, Never
<1>4. late' \subseteq erased
  BY <1>1 DEF WriteCard, NoteDeletion, CardInv, GoneIsErased, Busy
<1>5. chosen' \in Consents /\ unsaved' \in BOOLEAN /\ own' \in {"no", "yes", "raced"}
  BY <1>1 DEF WriteCard, NoteChoice, NoteIntro, CardInv, TypeOK, Changes
<1>6. TypeOK'
  BY <1>2, <1>3, <1>4, <1>5, WriteLeaves, WriteMakes DEF CardInv, TypeOK
<1>7. (\A v \in Writers : Fits(v, work[v]))' BY WriteLeaves DEF Fits
<1>8. GoneIsErased'
  <2> SUFFICES ASSUME NEW d \in Deletions, Busy(d)' PROVE work'[d].gone \in erased'
    BY DEF GoneIsErased
  <2>1. d \in Writers BY DEF Writers
  <2>2. CASE d = w
    <3>1. w \notin Tabs BY <2>2, VibeAssumption
    <3> QED BY <1>1, <2>1, <2>2, <3>1, EndedFits, WriteLeaves DEF Busy
  <2>3. CASE d # w
    BY <1>2, <2>1, <2>3, WriteLeaves DEF Busy, CardInv, GoneIsErased
  <2> QED BY <2>2, <2>3
<1>9. RemovalMarked'
  <2> SUFFICES ASSUME NEW a \in Areas
               PROVE  /\ removed'[a] # Never => card'.line[a] = {} /\ card'.mark[a] = removed'[a]
                      /\ card'.line[a] # {} => card'.mark[a] = Never
    BY DEF RemovalMarked
  <2>1. removed'[a] = IF a \in k.reject THEN sent
                      ELSE IF card'.line[a] # {} /\ \A m \in card'.line[a] : m > removed[a] THEN Never
                      ELSE removed[a]
    BY DEF WriteCard, NoteRemoval
  <2>2. /\ removed[a] # Never => card.line[a] = {} /\ card.mark[a] = removed[a]
        /\ card.line[a] # {} => card.mark[a] = Never
    BY DEF CardInv, RemovalMarked
  <2>3. CASE IsExtra(k)
    BY <1>1, <2>1, <2>2, <2>3, WriteMakes DEF Fits
  <2>4. CASE ~IsExtra(k)
    <3> DEFINE mark == IF a \in k.reject THEN sent ELSE card.mark[a]
               proof == {m \in k.line[a] : m > mark}
    <3>1. card' = Merged(card, k) BY <2>4, WriteMakes
    <3>2. IF a \in k.over /\ proof # {}
          THEN card'.line[a] = proof /\ card'.mark[a] = Never
          ELSE /\ card'.mark[a] = mark
               /\ card'.line[a] = IF a \in k.reject \union k.drop THEN {} ELSE card.line[a]
      BY <1>1, <3>1, MergedIs
    <3>3. a \in k.reject => a \notin k.over BY <1>1 DEF Fits
    <3>4. CASE a \in k.over /\ proof # {}
      <4>1. removed[a] # Never => \A m \in proof : m > removed[a] BY <2>2, <3>3, <3>4
      <4> QED BY <2>1, <3>2, <3>3, <3>4, <4>1
    <3>5. CASE ~(a \in k.over /\ proof # {})
      <4> HIDE DEF proof
      <4> QED BY <2>1, <2>2, <3>2, <3>5
    <3> QED BY <3>4, <3>5
  <2> QED BY <2>3, <2>4
<1>10. card'.consent = chosen' \/ unsaved'
  BY WriteMakes DEF WriteCard, NoteChoice, CardInv
<1>11. OwnUnchallenged'
  <2> SUFFICES ASSUME own' = "yes"
               PROVE  card'.intro.by = "user" /\ \A v \in Writers : ~Underway(work'[v])
    BY DEF OwnUnchallenged, Underway
  <2>1. \A v \in Writers \ {w} : Underway(work'[v]) <=> Underway(work[v])
    BY WriteLeaves DEF Underway
  <2>2. ~Underway(work'[w]) BY <1>1, EndedFits, WriteLeaves
  <2>3. CASE k.intro.by = "user"
    <3>1. \A v \in Tabs \ {w} : ~IntroUnderway(v)
      BY <2>3 DEF WriteCard, NoteIntro
    <3>2. \A v \in Writers : Underway(work[v]) => v \in Tabs
      BY NoChangeIsPlain DEF CardInv, Fits, Underway, IsExtra
    <3>3. \A v \in Writers \ {w} : ~Underway(work[v])
      BY <3>1, <3>2 DEF IntroUnderway, Underway
    <3>4. card'.intro.by = "user" BY <2>3, NoChangeIsPlain, WriteMakes
    <3> QED BY <2>1, <2>2, <3>3, <3>4
  <2>4. CASE k.intro.by # "user"
    <3>1. own = "yes" /\ k.intro.by # "reset"
      BY <2>4 DEF WriteCard, NoteIntro
    <3>2. card.intro.by = "user" /\ \A v \in Writers : ~Underway(work[v])
      BY <3>1 DEF CardInv, OwnUnchallenged
    <3>3. k.intro.by = "none" BY <1>1, <2>4, <3>1, <3>2 DEF Underway, Changes, Intros
    <3>4. card'.intro = card.intro BY <1>1, <3>3, WriteMakes DEF Fits
    <3> QED BY <2>1, <2>2, <3>2, <3>4
  <2> QED BY <2>3, <2>4
<1> QED BY <1>6, <1>7, <1>8, <1>9, <1>10, <1>11 DEF CardInv

-----------------------------------------------------------------------------
(* What the user removed, chose and wrote stands.                          *)

LEMMA CardInit == Init => CardInv
<1> SUFFICES ASSUME Init PROVE CardInv OBVIOUS
<1>1. /\ work = [w \in Writers |-> Idle] /\ card = NoCard
      /\ removed = [a \in Areas |-> Never] /\ chosen = "never" /\ own = "no"
      /\ NoCard.consent = "never" /\ NoCard.line = NoLines
  BY DEF Init, NoCard
<1>2. TypeOK
  <2>1. 0 \in 0..MaxMessages /\ 0 \in 0..MaxAsks /\ 0 \in 0..MaxMishaps /\ Never \in Never..0
    BY VibeAssumption DEF Never
  <2>2. work \in [Writers -> Works] /\ card \in Cards /\ removed \in [Areas -> Never..0]
    BY <1>1, <2>1, ConstantTypes
  <2> QED BY <1>1, <2>1, <2>2 DEF Init, TypeOK, Consents
<1>3. \A w \in Writers : Fits(w, work[w]) BY <1>1, DoneFits
<1>4. GoneIsErased BY <1>1, DoneFits DEF GoneIsErased, Busy, Writers
<1>5. RemovalMarked BY <1>1 DEF RemovalMarked, NoLines
<1>6. OwnUnchallenged BY <1>1 DEF OwnUnchallenged
<1> QED BY <1>1, <1>2, <1>3, <1>4, <1>5, <1>6 DEF CardInv

LEMMA CardSaid == ASSUME CardInv, Say PROVE CardInv'
<1>1. sent < MaxMessages /\ sent' = sent + 1 /\ UNCHANGED <<card, erased, work, asked, mishaps, history>>
  BY DEF Say
<1>2. sent \in 0..MaxMessages BY DEF CardInv, TypeOK
<1>3. sent' \in 0..MaxMessages /\ 1..sent \subseteq 1..sent' /\ Never..sent \subseteq Never..sent'
  BY <1>1, <1>2, VibeAssumption DEF Never
<1>4. TypeOK'
  <2>1. removed' \in [Areas -> Never..sent'] BY <1>1, <1>3 DEF CardInv, TypeOK, history
  <2> QED BY <1>1, <1>3, <2>1 DEF CardInv, TypeOK, history
<1>5. (\A w \in Writers : Fits(w, work[w]))' BY <1>1 DEF CardInv, Fits
<1>6. GoneIsErased' /\ RemovalMarked' /\ OwnUnchallenged' /\ (card.consent = chosen \/ unsaved)'
  BY <1>1 DEF CardInv, GoneIsErased, Busy, RemovalMarked, OwnUnchallenged, Underway, history
<1> QED BY <1>4, <1>5, <1>6 DEF CardInv

LEMMA CardStep == CardInv /\ [Next]_vars => CardInv'
<1> SUFFICES ASSUME CardInv, [Next]_vars PROVE CardInv' OBVIOUS
<1>1. CASE Say BY <1>1, CardSaid
<1>2. ASSUME NEW w \in Writers, ReadCard(w) \/ WriteCard(w) \/ LoseRace(w) \/ GiveUp(w) \/ Die(w)
      PROVE  CardInv'
  BY <1>2, CardRead, CardWritten, CardGivenUp
<1>3. ASSUME NEW r \in Runs, ReadInputs(r) \/ \E areas \in SUBSET Areas : ProveLines(r, areas)
      PROVE  CardInv'
  BY <1>3, CardRun
<1>4. ASSUME NEW d \in Deletions, FindProof(d) \/ \E m \in Messages : Erase(d, m)
      PROVE  CardInv'
  BY <1>4, CardErase
<1>5. ASSUME NEW p \in Tabs,
             \/ \E a \in Areas : Reject(p, a)
             \/ \E c \in {"yes", "no"} : Choose(p, c)
             \/ EditIntro(p) \/ ResetIntro(p) \/ VisitProfile(p)
             \/ IntroWritten(p) \/ IntroFails(p)
      PROVE  CardInv'
  BY <1>5, CardAsked, CardVisit
<1>6. CASE UNCHANGED vars
  BY <1>6 DEF vars, CardInv, TypeOK, Fits, GoneIsErased, Busy, RemovalMarked, OwnUnchallenged, Underway
<1> QED BY <1>1, <1>2, <1>3, <1>4, <1>5, <1>6 DEF Next

\* The variables keep their types: no attempt is made beyond the last, and only
\* a deleted message is excused.
THEOREM TypeCorrect == Spec => []TypeOK
<1>1. CardInv => TypeOK BY DEF CardInv
<1> QED BY <1>1, CardInit, CardStep, PTL DEF Spec

\* A line the user marked "not right" stays gone until newer proof comes.
THEOREM RemovedCorrect == Spec => []RemovedStaysGone
<1>1. CardInv => RemovedStaysGone BY DEF CardInv, RemovalMarked, RemovedStaysGone
<1> QED BY <1>1, CardInit, CardStep, PTL DEF Spec

\* The consent and the intro on the card are the user's last.
THEOREM ExtrasCorrect == Spec => []ExtrasStand
<1>1. CardInv => ExtrasStand BY DEF CardInv, OwnUnchallenged, ExtrasStand
<1> QED BY <1>1, CardInit, CardStep, PTL DEF Spec

-----------------------------------------------------------------------------
(* A deleted message that is not excused is either gone from the card and  *)
(* from every hand, or a deletion is about to look for it, or one has seen *)
(* every line it is on and nobody can bring it to another.                 *)

NoBackfill(m) == \A r \in Runs \ Leased, a \in Areas : m \notin work[r].base[a]

OnCardOrInHand(m, a) == m \in card.line[a] \/ \E v \in Writers : m \in work[v].change.line[a]

Lost(m) == NoBackfill(m) /\ \A a \in Areas : ~OnCardOrInHand(m, a)

Pending(d, m) == work[d].gone = m /\ work[d].step = "erased"

Covers(d, m) ==
    /\ work[d].gone = m /\ work[d].step \in {"update", "merging"}
    /\ NoBackfill(m)
    /\ \A a \in Areas :
        /\ m \notin work[d].change.line[a]
        /\ OnCardOrInHand(m, a) => a \in work[d].change.over \union work[d].change.drop

ProofInv ==
    \A m \in erased \ late : Lost(m) \/ \E d \in Deletions : Pending(d, m) \/ Covers(d, m)

\* A step of w that leaves the card alone keeps the invariant, if what w then has
\* in hand comes from the card, from its own hand or from what it had read, and a
\* deletion gives account of its message.
LEMMA QuietProof ==
  ASSUME CardInv, ProofInv, NEW w \in Writers, NEW r, Becomes(w, r), UNCHANGED card,
         late \subseteq late',
         \A m \in erased, a \in Areas :
             /\ m \in r.change.line[a] => \/ OnCardOrInHand(m, a)
                                          \/ w \in Runs \ Leased /\ m \in work[w].base[a]
             /\ w \in Runs \ Leased /\ m \in r.base[a] => m \in work[w].base[a],
         \A m \in erased \ late' :
             w \in Deletions /\ (Pending(w, m) \/ Covers(w, m))
                => (Lost(m) \/ Pending(w, m) \/ Covers(w, m))',
         \A m \in erased' \ erased : w \in Deletions /\ Pending(w, m)'
  PROVE  ProofInv'
<1>1. \A v \in Writers : work'[v] = IF v = w THEN r ELSE work[v]
  BY DEF CardInv, TypeOK, Becomes
<1>2. Runs \subseteq Writers /\ Deletions \subseteq Writers BY DEF Writers
<1>3. ASSUME NEW m \in erased, NoBackfill(m)
      PROVE  NoBackfill(m)' /\ \A a \in Areas : OnCardOrInHand(m, a)' => OnCardOrInHand(m, a)
  BY <1>1, <1>2, <1>3 DEF NoBackfill, OnCardOrInHand
<1>4. ASSUME NEW m \in erased' \ late'
      PROVE  (Lost(m) \/ \E d \in Deletions : Pending(d, m) \/ Covers(d, m))'
  <2>1. CASE m \notin erased BY <1>4, <2>1
  <2>2. CASE m \in erased /\ Lost(m) BY <1>3, <2>2 DEF Lost
  <2>3. ASSUME m \in erased, NEW d \in Deletions, Pending(d, m) \/ Covers(d, m)
        PROVE  (Lost(m) \/ \E e \in Deletions : Pending(e, m) \/ Covers(e, m))'
    <3>1. CASE d = w BY <1>4, <2>3, <3>1
    <3>2. CASE d # w
      <4>1. work'[d] = work[d] BY <1>1, <1>2, <3>2
      <4>2. CASE Pending(d, m) BY <4>1, <4>2 DEF Pending
      <4>3. CASE Covers(d, m) BY <1>3, <2>3, <4>1, <4>3 DEF Covers
      <4> QED BY <2>3, <4>2, <4>3
    <3> QED BY <3>1, <3>2
  <2> QED BY <1>4, <2>1, <2>2, <2>3 DEF ProofInv
<1> QED BY <1>4 DEF ProofInv

\* The same of a writer that is no deletion, and puts nothing new in its hand.
LEMMA QuietHand ==
  ASSUME CardInv, ProofInv, NEW w \in Writers \ Deletions, NEW r, Becomes(w, r),
         UNCHANGED <<card, late, erased>>,
         \A m \in erased, a \in Areas :
             /\ m \in r.change.line[a] => \/ OnCardOrInHand(m, a)
                                          \/ w \in Runs \ Leased /\ m \in work[w].base[a]
             /\ w \in Runs \ Leased /\ m \in r.base[a] => m \in work[w].base[a]
  PROVE  ProofInv'
  BY QuietProof

\* The same of a step to where w has nothing in hand.
LEMMA EmptyQuiet ==
  ASSUME CardInv, ProofInv, NEW w \in Writers \ Deletions, NEW r, Becomes(w, r),
         UNCHANGED <<card, late, erased>>, r.change.line = NoLines,
         w \in Runs => r.base = NoLines
  PROVE  ProofInv'
  BY QuietHand DEF NoLines

LEMMA ProofRead ==
  ASSUME CardInv, ProofInv, NEW w \in Writers, ReadCard(w) \/ LoseRace(w) PROVE ProofInv'
<1>1. work \in [Writers -> Works] BY DEF CardInv, TypeOK
<1>2. /\ work[w].step \in {"update", "merging"}
      /\ UNCHANGED <<card, late, erased>>
  BY DEF ReadCard, LoseRace, history
<1>3. PICK r : /\ Becomes(w, r) /\ r.change = work[w].change /\ r.gone = work[w].gone
               /\ r.base = work[w].base /\ r.step \in {"update", "merging"}
  <2>1. CASE ReadCard(w)
    <3> DEFINE r == [work[w] EXCEPT !.step = "merging", !.seen = card, !.overtaken = FALSE]
    <3>1. work[w] \in Works BY <1>1
    <3>2. Becomes(w, r) BY <2>1 DEF ReadCard
    <3>3. /\ r.change = work[w].change /\ r.gone = work[w].gone /\ r.base = work[w].base
          /\ r.step = "merging"
      BY <3>1 DEF Works
    <3> HIDE DEF r
    <3> QED BY <3>2, <3>3
  <2>2. CASE LoseRace(w)
    <3> DEFINE r == [work[w] EXCEPT !.step = "update", !.seen = NoCard, !.tries = @ + 1]
    <3>1. work[w] \in Works BY <1>1
    <3>2. Becomes(w, r) BY <2>2 DEF LoseRace
    <3>3. /\ r.change = work[w].change /\ r.gone = work[w].gone /\ r.base = work[w].base
          /\ r.step = "update"
      BY <3>1 DEF Works
    <3> HIDE DEF r
    <3> QED BY <3>2, <3>3
  <2> QED BY <2>1, <2>2
<1>4. \A v \in Writers : /\ work'[v].change = work[v].change /\ work'[v].gone = work[v].gone
                         /\ work'[v].base = work[v].base
                         /\ work'[v].step \in {"update", "merging"} \/ v # w
  BY <1>1, <1>3 DEF Becomes
<1>5. \A m, a : OnCardOrInHand(m, a)' <=> OnCardOrInHand(m, a)
  BY <1>2, <1>4 DEF OnCardOrInHand
<1>6. \A m : NoBackfill(m)' <=> NoBackfill(m) BY <1>4 DEF NoBackfill, Writers
<1>7. \A m : ~Pending(w, m) /\ (Covers(w, m) => Covers(w, m)')
  BY <1>2, <1>4, <1>5, <1>6 DEF Pending, Covers
<1>8. \A m \in erased, a \in Areas : m \in r.change.line[a] => OnCardOrInHand(m, a)
  BY <1>3 DEF OnCardOrInHand
<1> QED BY <1>2, <1>3, <1>7, <1>8, QuietProof

LEMMA ProofGivenUp ==
  ASSUME CardInv, ProofInv, NEW w \in Writers, GiveUp(w) \/ Die(w) PROVE ProofInv'
<1>1. Fits(w, work[w]) BY DEF CardInv
<1>2. /\ UNCHANGED <<card, erased>>
      /\ late' = IF w \in Deletions THEN late \union {work[w].gone} ELSE late
      /\ Becomes(w, Ended(w)) \/ Becomes(w, Done(w))
  BY DEF GiveUp, Die
<1>3. PICK r : Becomes(w, r) /\ r.change.line = NoLines /\ r.base = NoLines
  BY <1>1, <1>2, EndedFits, DoneFits, NoChangeIsPlain
<1>4. \A m \in erased \ late' : ~(w \in Deletions /\ (Pending(w, m) \/ Covers(w, m)))
  BY <1>2 DEF Pending, Covers
<1> QED BY <1>2, <1>3, <1>4, QuietProof DEF NoLines

LEMMA ProofRun ==
  ASSUME CardInv, ProofInv, NEW r \in Runs,
         ReadInputs(r) \/ \E areas \in SUBSET Areas : ProveLines(r, areas)
  PROVE  ProofInv'
<1>1. r \in Writers \ Deletions BY VibeAssumption DEF Writers
<1>2. UNCHANGED <<card, late, erased>> BY DEF ReadInputs, ProveLines, history
<1>3. work[r] \in Works BY <1>1 DEF CardInv, TypeOK
<1>4. CASE ReadInputs(r)
  <2> DEFINE x == Reading("asking", Citable(r))
  <2>1. \A m \in erased, a \in Areas : m \notin Citable(r)[a] BY DEF Citable
  <2>2. x.change.line = NoLines /\ x.base = Citable(r)
    BY NoChangeIsPlain DEF Reading, Idle
  <2>3. Becomes(r, x) BY <1>4 DEF ReadInputs, Reading
  <2> HIDE DEF x
  <2> QED BY <1>1, <1>2, <2>1, <2>2, <2>3, QuietHand DEF NoLines
<1>5. ASSUME NEW areas \in SUBSET Areas, ProveLines(r, areas) PROVE ProofInv'
  <2>1. PICK kept \in Lines :
          /\ \A a \in Areas : kept[a] \subseteq work[r].base[a] \ (IF r \in Leased THEN erased ELSE {})
          /\ IF areas = {} THEN Becomes(r, Done(r))
             ELSE Update(r, [NoChange EXCEPT !.over = areas, !.line = kept])
    BY <1>5 DEF ProveLines
  <2>2. CASE Becomes(r, Done(r))
    BY <1>1, <1>2, <2>2, DoneFits, NoChangeIsPlain, EmptyQuiet
  <2>3. CASE Update(r, [NoChange EXCEPT !.over = areas, !.line = kept])
    <3> DEFINE k == [NoChange EXCEPT !.over = areas, !.line = kept]
               x == About(k, work[r].gone)
    <3>1. k.line = kept BY DEF NoChange
    <3>2. Becomes(r, x) BY <2>3 DEF Update, About
    <3>3. x.change.line = kept /\ x.base = NoLines
      <4> HIDE DEF k
      <4> QED BY <3>1 DEF About, Idle
    <3>4. \A m \in erased, a \in Areas : m \in kept[a] => r \in Runs \ Leased /\ m \in work[r].base[a]
      BY <2>1
    <3> HIDE DEF x
    <3> QED BY <1>1, <1>2, <3>2, <3>3, <3>4, QuietHand DEF NoLines
  <2> QED BY <2>1, <2>2, <2>3
<1> QED BY <1>4, <1>5

LEMMA ProofAsked ==
  ASSUME CardInv, ProofInv, NEW p \in Tabs,
         \/ \E a \in Areas : Reject(p, a)
         \/ \E c \in {"yes", "no"} : Choose(p, c)
         \/ EditIntro(p) \/ ResetIntro(p) \/ VisitProfile(p)
         \/ IntroWritten(p) \/ IntroFails(p)
  PROVE  ProofInv'
<1>1. p \in Writers \ Deletions /\ p \notin Runs BY VibeAssumption DEF Writers
<1>2. UNCHANGED <<card, late, erased>>
  BY DEF Reject, Choose, EditIntro, ResetIntro, VisitProfile, IntroWritten, IntroFails, history
<1>3. ASSUME NEW k, k.line = NoLines, Update(p, k) PROVE ProofInv'
  <2> DEFINE x == About(k, work[p].gone)
  <2>1. x.change.line = NoLines BY <1>3 DEF About, Idle
  <2>2. Becomes(p, x) BY <1>3 DEF Update, About
  <2> HIDE DEF x
  <2> QED BY <1>1, <1>2, <2>1, <2>2, EmptyQuiet
<1>4. ASSUME NEW a \in Areas, Reject(p, a) PROVE ProofInv'
  <2> DEFINE k == [NoChange EXCEPT !.reject = {a}]
  <2>1. k.line = NoLines BY DEF NoChange
  <2>2. Update(p, k) BY <1>4 DEF Reject
  <2> HIDE DEF k
  <2> QED BY <1>3, <2>1, <2>2
<1>5. ASSUME NEW c \in {"yes", "no"}, Choose(p, c) PROVE ProofInv'
  <2> DEFINE k == [NoChange EXCEPT !.consent = c]
  <2>1. k.line = NoLines BY DEF NoChange
  <2>2. Update(p, k) BY <1>5 DEF Choose
  <2> HIDE DEF k
  <2> QED BY <1>3, <2>1, <2>2
<1>6. ASSUME NEW i, Update(p, [NoChange EXCEPT !.intro = i]) PROVE ProofInv'
  <2> DEFINE k == [NoChange EXCEPT !.intro = i]
  <2>1. k.line = NoLines BY DEF NoChange
  <2>2. Update(p, k) BY <1>6
  <2> HIDE DEF k
  <2> QED BY <1>3, <2>1, <2>2
<1>7. CASE Becomes(p, Idle)
  BY <1>1, <1>2, <1>7, DoneFits, NoChangeIsPlain, EmptyQuiet
<1>8. CASE Becomes(p, Reading("writing", PublicLines))
  <2> DEFINE x == Reading("writing", PublicLines)
  <2>1. x.change.line = NoLines BY NoChangeIsPlain DEF Reading, Idle
  <2>2. Becomes(p, x) BY <1>8
  <2> HIDE DEF x
  <2> QED BY <1>1, <1>2, <2>1, <2>2, EmptyQuiet
<1>9. VisitProfile(p) => Becomes(p, Idle) \/ Becomes(p, Reading("writing", PublicLines))
  BY DEF VisitProfile, Reading
<1>10. EditIntro(p) \/ ResetIntro(p) \/ IntroWritten(p)
         => \E i : Update(p, [NoChange EXCEPT !.intro = i])
  BY DEF EditIntro, ResetIntro, IntroWritten
<1> QED BY <1>4, <1>5, <1>6, <1>7, <1>8, <1>9, <1>10 DEF IntroFails

\* A deletion: its message is looked for, and what is left of each line is made.
LEMMA ProofErase ==
  ASSUME CardInv, ProofInv, NEW d \in Deletions, FindProof(d) \/ \E m \in Messages : Erase(d, m)
  PROVE  ProofInv'
<1>1. d \in Writers /\ d \notin Runs BY VibeAssumption DEF Writers
<1>2. work[d] \in Works /\ card \in Cards /\ work \in [Writers -> Works]
  BY <1>1 DEF CardInv, TypeOK
<1>3. ASSUME NEW m \in Messages, Erase(d, m) PROVE ProofInv'
  <2> DEFINE x == Erased(m)
  <2>1. x.change.line = NoLines /\ x.gone = m /\ x.step = "erased"
    BY NoChangeIsPlain DEF Erased, Idle
  <2>2. Becomes(d, x) BY <1>3 DEF Erase, Erased
  <2>3. UNCHANGED <<card, late>> /\ erased' = erased \union {m} /\ work[d].step = "idle"
    BY <1>3 DEF Erase, history
  <2>4. Pending(d, m)' BY <1>1, <1>2, <2>1, <2>2 DEF Pending, Becomes
  <2>5. \A n : ~Pending(d, n) /\ ~Covers(d, n) BY <2>3 DEF Pending, Covers
  <2> HIDE DEF x
  <2> QED BY <1>1, <2>1, <2>2, <2>3, <2>4, <2>5, QuietProof DEF NoLines
<1>4. CASE FindProof(d)
  <2>0. PICK m : m = work[d].gone OBVIOUS
  <2> DEFINE touched == {a \in Areas : m \in card.line[a]}
             left == [a \in Areas |-> IF a \in touched THEN card.line[a] \ {m} ELSE {}]
             over == {a \in touched : left[a] # {}}
             drop == {a \in touched : left[a] = {}}
             k == [NoChange EXCEPT !.over = over, !.line = left, !.drop = drop]
             x == About(k, m)
  <2>1. /\ work[d].step = "erased" /\ UNCHANGED <<card, erased>>
        /\ late' = IF Held(d, m) THEN late \union {m} ELSE late
        /\ IF touched = {} THEN Becomes(d, Done(d)) ELSE Update(d, k)
    BY <1>4, <2>0 DEF FindProof, NoteDeletion
  <2>2. \A n : ~Covers(d, n) /\ (Pending(d, n) => n = m)
    BY <2>0, <2>1 DEF Covers, Pending
  <2>3. m \notin late' => NoBackfill(m) /\ \A v \in Writers \ {d}, a \in Areas : m \notin work[v].change.line[a]
    <3>1. ASSUME ~Held(d, m), NEW r \in Runs \ Leased, NEW a \in Areas PROVE m \notin work[r].base[a]
      <4>1. r \in Writers \ {d} BY <1>1 DEF Writers
      <4> QED BY <3>1, <4>1 DEF Held
    <3> QED BY <2>1, <3>1 DEF Held, NoBackfill
  <2>4. CASE touched = {}
    <3>1. Becomes(d, Done(d)) BY <2>1, <2>4
    <3>2. ASSUME m \notin late' PROVE Lost(m)'
      <4>1. \A v \in Writers : work'[v] = IF v = d THEN Done(d) ELSE work[v]
        BY <1>2, <3>1 DEF Becomes
      <4>2. NoBackfill(m)' BY <1>1, <2>3, <3>2, <4>1 DEF NoBackfill, Writers
      <4>3. \A a \in Areas : m \notin card'.line[a] BY <2>1, <2>4
      <4>4. Done(d).change.line = NoLines BY <1>1, DoneFits, NoChangeIsPlain
      <4>5. \A v \in Writers, a \in Areas : m \notin work'[v].change.line[a]
        BY <2>3, <3>2, <4>1, <4>4 DEF NoLines
      <4> QED BY <4>2, <4>3, <4>5 DEF Lost, OnCardOrInHand
    <3>3. Done(d).change.line = NoLines BY <1>1, DoneFits, NoChangeIsPlain
    <3>4. late \subseteq late' BY <2>1
    <3> QED BY <1>1, <2>1, <2>2, <3>1, <3>2, <3>3, <3>4, QuietProof DEF NoLines
  <2>5. CASE Update(d, k)
    <3>1. k.line = left /\ k.over = over /\ k.drop = drop
      <4> HIDE DEF left, over, drop
      <4> QED BY DEF NoChange
    <3>2. /\ x.change = k /\ x.gone = m /\ x.step = "update"
      <4> HIDE DEF k
      <4> QED BY DEF About, Idle
    <3>3. Becomes(d, x) BY <2>0, <2>5 DEF Update, About
    <3>4. \A a \in Areas : left[a] \subseteq card.line[a] /\ m \notin left[a] OBVIOUS
    <3>5. \A n \in erased, a \in Areas : n \in x.change.line[a] => OnCardOrInHand(n, a)
      <4> HIDE DEF left, k, x
      <4> QED BY <3>1, <3>2, <3>4 DEF OnCardOrInHand
    <3>6. ASSUME m \notin late' PROVE Covers(d, m)'
      <4>1. \A v \in Writers : work'[v] = IF v = d THEN x ELSE work[v]
        BY <1>2, <3>3 DEF Becomes
      <4>2. NoBackfill(m)' BY <1>1, <2>3, <3>6, <4>1 DEF NoBackfill, Writers
      <4>3. work'[d].gone = m /\ work'[d].step = "update" /\ work'[d].change = k
        BY <1>1, <3>2, <4>1
      <4>4. ASSUME NEW a \in Areas, OnCardOrInHand(m, a)' PROVE a \in over \union drop
        <5>1. \A v \in Writers : m \notin work'[v].change.line[a]
          <6> HIDE DEF left, k, x
          <6> QED BY <2>3, <3>1, <3>2, <3>4, <3>6, <4>1
        <5>2. m \in card.line[a] BY <2>1, <4>4, <5>1 DEF OnCardOrInHand
        <5> QED BY <5>2
      <4>5. \A a \in Areas : m \notin k.line[a]
        <5> HIDE DEF left, k
        <5> QED BY <3>1, <3>4
      <4> HIDE DEF left, over, drop, k, x
      <4> QED BY <3>1, <4>2, <4>3, <4>4, <4>5 DEF Covers
    <3>7. late \subseteq late' BY <2>1
    <3> HIDE DEF left, over, drop, k, x
    <3> QED BY <1>1, <2>1, <2>2, <3>3, <3>5, <3>6, <3>7, QuietProof
  <2> QED BY <2>1, <2>4, <2>5
<1> QED BY <1>3, <1>4

\* A write: what was neither on the card nor in hand stays so, and what a
\* deletion covers is on no line it leaves.
LEMMA ProofWritten == ASSUME CardInv, ProofInv, NEW w \in Writers, WriteCard(w) PROVE ProofInv'
<1> DEFINE k == work[w].change
<1>1. /\ work[w] \in Works /\ Fits(w, work[w]) /\ k \in Changes /\ card \in Cards
      /\ sent \in 0..MaxMessages /\ work[w].step = "merging"
  BY DEF CardInv, TypeOK, Works, WriteCard
<1>2. /\ erased' = erased
      /\ late' = IF w \in Deletions /\ Held(w, work[w].gone) THEN late \union {work[w].gone} ELSE late
  BY DEF WriteCard, NoteDeletion
<1>3. /\ work'[w].change.line = NoLines /\ work'[w].base = NoLines
      /\ \A v \in Writers \ {w} :
            /\ work'[v].step = work[v].step /\ work'[v].base = work[v].base
            /\ work'[v].gone = work[v].gone /\ work'[v].change = work[v].change
  BY <1>1, WriteLeaves, EndedFits, NoChangeIsPlain
<1>4. ~IsExtra(k) => \A a \in Areas :
         LET mark == IF a \in k.reject THEN sent ELSE card.mark[a]
             proof == {m \in k.line[a] : m > mark}
         IN  IF a \in k.over /\ proof # {} THEN card'.line[a] = proof
             ELSE card'.line[a] = IF a \in k.reject \union k.drop THEN {} ELSE card.line[a]
  BY <1>1, WriteMakes, MergedIs
<1>5. \A m, a : a \in Areas /\ m \in card'.line[a] => m \in card.line[a] \/ m \in k.line[a]
  <2> SUFFICES ASSUME NEW m, NEW a \in Areas, m \in card'.line[a]
               PROVE  m \in card.line[a] \/ m \in k.line[a]
    OBVIOUS
  <2>1. CASE IsExtra(k) BY <2>1, WriteMakes
  <2>2. CASE ~IsExtra(k) BY <1>4, <2>2
  <2> QED BY <2>1, <2>2
<1>6. ASSUME NEW m, NoBackfill(m)
      PROVE  NoBackfill(m)' /\ \A a \in Areas : OnCardOrInHand(m, a)' => OnCardOrInHand(m, a)
  <2>1. NoBackfill(m)' BY <1>3, <1>6 DEF NoBackfill, NoLines, Writers
  <2>2. \A a \in Areas : OnCardOrInHand(m, a)' => OnCardOrInHand(m, a)
    BY <1>3, <1>5 DEF OnCardOrInHand, NoLines
  <2> QED BY <2>1, <2>2
<1>7. ASSUME NEW m \in erased \ late', w \in Deletions, Covers(w, m) PROVE Lost(m)'
  <2>1. w \notin Tabs /\ ~IsExtra(k) /\ k.reject = {} /\ \A a \in k.over : k.line[a] # {}
    BY <1>1, <1>7, VibeAssumption DEF Fits
  <2>2. work[w].gone = m /\ ~Held(w, m) BY <1>2, <1>7 DEF Covers
  <2>3. NoBackfill(m)' BY <1>6, <1>7 DEF Covers
  <2>4. \A v \in Writers, a \in Areas : m \notin work'[v].change.line[a]
    BY <1>3, <2>2 DEF Held, NoLines
  <2>5. ASSUME NEW a \in Areas PROVE m \notin card'.line[a]
    <3>1. m \notin k.line[a] BY <1>7 DEF Covers
    <3>2. CASE m \in card.line[a]
      <4>1. a \in k.over \union k.drop BY <1>7, <3>2 DEF Covers, OnCardOrInHand
      <4>2. card.mark[a] = Never BY <3>2 DEF CardInv, RemovalMarked
      <4>3. \A n \in k.line[a] : n > card.mark[a]
        BY <1>1, <4>2 DEF Changes, Lines, Messages, Never
      <4>4. {n \in k.line[a] : n > card.mark[a]} = k.line[a] BY <4>3
      <4> QED BY <1>4, <2>1, <3>1, <4>1, <4>4
    <3>3. CASE m \notin card.line[a] BY <1>5, <3>1, <3>3
    <3> QED BY <3>2, <3>3
  <2> QED BY <2>3, <2>4, <2>5 DEF Lost, OnCardOrInHand
<1>8. ASSUME NEW m \in erased \ late'
      PROVE  (Lost(m) \/ \E d \in Deletions : Pending(d, m) \/ Covers(d, m))'
  <2>1. CASE Lost(m) BY <1>6, <2>1 DEF Lost
  <2>2. ASSUME NEW d \in Deletions, Pending(d, m) \/ Covers(d, m)
        PROVE  (Lost(m) \/ \E e \in Deletions : Pending(e, m) \/ Covers(e, m))'
    <3>1. d \in Writers BY DEF Writers
    <3>2. CASE d = w /\ Covers(d, m) BY <1>7, <1>8, <3>2
    <3>3. CASE d = w /\ Pending(d, m) BY <1>1, <3>3 DEF Pending
    <3>4. CASE d # w /\ Pending(d, m) BY <1>3, <3>1, <3>4 DEF Pending
    <3>5. CASE d # w /\ Covers(d, m) BY <1>3, <1>6, <3>1, <3>5 DEF Covers
    <3> QED BY <2>2, <3>2, <3>3, <3>4, <3>5
  <2> QED BY <1>2, <1>8, <2>1, <2>2 DEF ProofInv
<1> QED BY <1>2, <1>8 DEF ProofInv

LEMMA ProofStep == CardInv /\ ProofInv /\ [Next]_vars => ProofInv'
<1> SUFFICES ASSUME CardInv, ProofInv, [Next]_vars PROVE ProofInv' OBVIOUS
<1>1. CASE Say \/ UNCHANGED vars
  BY <1>1 DEF Say, vars, history, ProofInv, Lost, Pending, Covers, NoBackfill, OnCardOrInHand
<1>2. ASSUME NEW w \in Writers, ReadCard(w) \/ WriteCard(w) \/ LoseRace(w) \/ GiveUp(w) \/ Die(w)
      PROVE  ProofInv'
  BY <1>2, ProofRead, ProofWritten, ProofGivenUp
<1>3. ASSUME NEW r \in Runs, ReadInputs(r) \/ \E areas \in SUBSET Areas : ProveLines(r, areas)
      PROVE  ProofInv'
  BY <1>3, ProofRun
<1>4. ASSUME NEW d \in Deletions, FindProof(d) \/ \E m \in Messages : Erase(d, m)
      PROVE  ProofInv'
  BY <1>4, ProofErase
<1>5. ASSUME NEW p \in Tabs,
             \/ \E a \in Areas : Reject(p, a)
             \/ \E c \in {"yes", "no"} : Choose(p, c)
             \/ EditIntro(p) \/ ResetIntro(p) \/ VisitProfile(p)
             \/ IntroWritten(p) \/ IntroFails(p)
      PROVE  ProofInv'
  BY <1>5, ProofAsked
<1> QED BY <1>1, <1>2, <1>3, <1>4, <1>5 DEF Next

\* No line stands on a deleted message once its deletion has gone through, unless
\* another writer had the message in hand.
THEOREM ProofCorrect == Spec => []ProofStands
<1>1. Init => ProofInv BY DEF Init, ProofInv
<1>2. ProofInv => ProofStands
  BY DEF ProofInv, ProofStands, Lost, OnCardOrInHand, Pending, Covers, Busy
<1> QED BY <1>1, <1>2, CardInit, CardStep, ProofStep, PTL DEF Spec
=============================================================================
