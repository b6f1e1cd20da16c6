------------------------------ MODULE VibeCard ------------------------------
(***************************************************************************)
(* The vibe card of one user: one row that background runs, deletions and  *)
(* the user's own requests write, from any instance and without a lock.    *)
(* A writer reads the row, merges its change onto it and replaces it only  *)
(* while it still reads the same, a few times at most.  What a writer puts *)
(* into its change it has often read long before.                          *)
(***************************************************************************)
EXTENDS Integers, FiniteSets

CONSTANTS
    Areas,          \* the parts of the card that hold a line
    Private,        \* those an intro leaves out
    Tabs,           \* browsers of the user, one request at a time each
    Runs,           \* background runs and backfills, each of them once
    Leased,         \* those among them that hold the user's lease
    Deletions,      \* requests that delete a message, each of them once
    MinLines,       \* INTRO_MIN_LINES
    WriteAttempts,  \* WRITE_ATTEMPTS
    MaxMessages, MaxAsks, MaxMishaps    \* bounds of the model

ASSUME VibeAssumption ==
    /\ Private \subseteq Areas /\ Leased \subseteq Runs
    /\ Tabs \cap Runs = {} /\ Tabs \cap Deletions = {} /\ Runs \cap Deletions = {}
    /\ MinLines \in Nat /\ WriteAttempts \in Nat \ {0}
    /\ MaxMessages \in Nat /\ MaxAsks \in Nat /\ MaxMishaps \in Nat

VARIABLES
    card,       \* the row of agent_vibe_cards
    sent,       \* the user's messages so far; a message is its number, and its time
    erased,     \* those that were deleted
    work,       \* work[w]: what a writer is doing
    asked,      \* the user's requests so far
    mishaps,
    \* History, which no action looks at:
    removed,    \* removed[a]: when the user removed the line of a, until newer proof came
    late,       \* deleted messages another writer had in hand while their proof was dropped
    chosen,     \* the user's last answered choice about private areas
    unsaved,    \* the last choice was answered and could not be saved
    own         \* the user's own intro was saved last; "raced" while Omi's was on its way

vars == <<card, sent, erased, work, asked, mishaps, removed, late, chosen, unsaved, own>>
history == <<removed, late, chosen, unsaved, own>>

Writers == Tabs \union Runs \union Deletions
Messages == 1..MaxMessages
Never == -1                                 \* no mark: every message is newer
Lines == [Areas -> SUBSET Messages]         \* a line is known by its proof
NoLines == [a \in Areas |-> {}]

\* An intro and the lines it was written from; the user's own has none.
Intros == [by : {"none", "omi", "user", "reset"}, of : Lines]
NoIntro == [by |-> "none", of |-> NoLines]
Consents == {"never", "no", "yes"}

Cards == [row : BOOLEAN, line : Lines, mark : [Areas -> Never..MaxMessages],
          intro : Intros, consent : Consents]
NoCard == [row |-> FALSE, line |-> NoLines, mark |-> [a \in Areas |-> Never],
           intro |-> NoIntro, consent |-> "never"]

\* What a writer asks the update to change: areas with new proof in place of
\* the old, areas marked wrong, areas without proof left, the two extras.
Changes == [over : SUBSET Areas, line : Lines, reject : SUBSET Areas, drop : SUBSET Areas,
            intro : Intros, consent : Consents]
NoChange == [over |-> {}, line |-> NoLines, reject |-> {}, drop |-> {},
             intro |-> NoIntro, consent |-> "never"]

\* base: the proof a run may find for a line, or the lines an intro is made of.
Idle == [step |-> "idle", base |-> NoLines, gone |-> 0,
         change |-> NoChange, seen |-> NoCard, tries |-> 0, overtaken |-> FALSE]

Steps == {"idle", "asking", "erased", "writing", "update", "merging", "again", "over"}
Works == [step : Steps, base : Lines, gone : 0..MaxMessages,
          change : Changes, seen : Cards,
          tries : 0..WriteAttempts - 1, overtaken : BOOLEAN]

Busy(w) == work[w].step \notin {"idle", "over"}
Becomes(w, r) == work' = [work EXCEPT ![w] = r]
\* A tab asks again, a run and a deletion are over.
Done(w) == [Idle EXCEPT !.step = IF w \in Tabs THEN "idle" ELSE "over"]

\* An update begins: the change is made, the card not read yet.
Update(w, k) == Becomes(w, [Idle EXCEPT !.step = "update", !.change = k, !.gone = work[w].gone])

-----------------------------------------------------------------------------
(* The update: read, merge, replace if unchanged.                          *)

\* Mutant of ProofAfterRejection: any proof counts.
ProofOfAnyTime(line, mark) == line

\* For a line marked wrong only proof sent after the mark counts.
ProofAfterRejection(line, mark) == [a \in Areas |-> {m \in line[a] : m > mark[a]}]

Merged(c, k) ==
    LET mark == [a \in Areas |-> IF a \in k.reject THEN sent ELSE c.mark[a]]
        proof == ProofAfterRejection(k.line, mark)
        over == {a \in k.over : proof[a] # {}}
    IN  [c EXCEPT !.row = TRUE,
                  !.line = [a \in Areas |-> IF a \in over THEN proof[a]
                                            ELSE IF a \in k.reject \union k.drop THEN {}
                                            ELSE c.line[a]],
                  !.mark = [a \in Areas |-> IF a \in over THEN Never ELSE mark[a]]]

\* set_vibe_intro and set_private_matching_consent keep everything else.
WithExtras(c, k) ==
    [c EXCEPT !.row = TRUE,
              !.intro = IF k.intro = NoIntro THEN @ ELSE k.intro,
              !.consent = IF k.consent = "never" THEN @ ELSE k.consent]

IsExtra(k) == k.intro # NoIntro \/ k.consent # "never"
Written(c, k) == IF IsExtra(k) THEN WithExtras(c, k) ELSE Merged(c, k)

\* Mutant of Unchanged: the row is replaced whatever it reads.
AnyCard(w) == TRUE

\* The row reads as it did: the UPDATE's condition, or no row to collide with.
Unchanged(w) == card = work[w].seen

\* A row written since then may read the same and still be stored as another
\* text: encrypted anew, or with other words on the same proof.
ReadsAnew(w) == ~Unchanged(w) \/ work[w].overtaken

ReadCard(w) ==
    /\ work[w].step = "update"
    /\ Becomes(w, [work[w] EXCEPT !.step = "merging", !.seen = card, !.overtaken = FALSE])
    /\ UNCHANGED <<card, sent, erased, asked, mishaps, history>>

\* A request is answered, and a reset goes on like a visit.
Ended(w) == IF work[w].change.intro.by = "reset" THEN [Idle EXCEPT !.step = "again"] ELSE Done(w)

\* Another writer has the message in hand, past the last look at the chat.
Held(w, m) ==
    \E v \in Writers \ {w}, a \in Areas :
        \/ m \in work[v].change.line[a]
        \/ v \in Runs \ Leased /\ m \in work[v].base[a]
NoteDeletion(w) ==
    late' = IF w \in Deletions /\ Held(w, work[w].gone) THEN late \union {work[w].gone} ELSE late
\* The choice is answered, saved or not.
NoteChoice(w, saved) ==
    LET c == work[w].change.consent IN
    /\ chosen' = IF c = "never" THEN chosen ELSE c
    /\ unsaved' = IF c = "never" THEN unsaved ELSE ~saved
\* A line comes back with nothing but newer proof.
NoteRemoval(w) ==
    removed' = [a \in Areas |->
        IF a \in work[w].change.reject THEN sent
        ELSE IF card'.line[a] # {} /\ \A m \in card'.line[a] : m > removed[a] THEN Never
        ELSE removed[a]]
IntroUnderway(v) == work[v].step = "writing" \/ work[v].change.intro.by = "omi"
NoteIntro(w) ==
    own' = CASE work[w].change.intro.by = "user" ->
                    IF \E v \in Tabs \ {w} : IntroUnderway(v) THEN "raced" ELSE "yes"
             [] work[w].change.intro.by = "reset" -> "no"
             [] OTHER -> own

WriteCard(w) ==
    /\ work[w].step = "merging" /\ Unchanged(w)
    /\ card' = Written(work[w].seen, work[w].change)
    /\ work' = [v \in Writers |-> IF v = w THEN Ended(w)
                                  ELSE [work[v] EXCEPT !.overtaken = @ \/ work[v].step = "merging"]]
    /\ NoteRemoval(w) /\ NoteDeletion(w) /\ NoteChoice(w, TRUE) /\ NoteIntro(w)
    /\ UNCHANGED <<sent, erased, asked, mishaps>>

\* Mutant of LoseRace: tries for as long as it takes.
LoseAnyRace(w) ==
    /\ work[w].step = "merging" /\ ReadsAnew(w)
    /\ Becomes(w, [work[w] EXCEPT !.step = "update", !.seen = NoCard, !.tries = @ + 1])
    /\ UNCHANGED <<card, sent, erased, asked, mishaps, history>>

LoseRace(w) ==
    /\ work[w].step = "merging" /\ ReadsAnew(w)
    /\ work[w].tries + 1 < WriteAttempts
    /\ Becomes(w, [work[w] EXCEPT !.step = "update", !.seen = NoCard, !.tries = @ + 1])
    /\ UNCHANGED <<card, sent, erased, asked, mishaps, history>>

\* The last attempt: an error for a line, silence for an extra.
GiveUp(w) ==
    /\ work[w].step = "merging" /\ ReadsAnew(w)
    /\ work[w].tries + 1 = WriteAttempts
    /\ Becomes(w, Ended(w))
    /\ late' = IF w \in Deletions THEN late \union {work[w].gone} ELSE late
    /\ NoteChoice(w, FALSE)
    /\ UNCHANGED <<card, sent, erased, asked, mishaps, removed, own>>

-----------------------------------------------------------------------------
(* Background runs.                                                        *)

\* Mutant of Citable: a deleted message can still be cited.
CitableErased(r) == [a \in Areas |-> {m \in 1..sent : r \in Leased \/ m > card.mark[a]}]

\* The messages a model may cite; a backfill leaves out those a removal covers.
Citable(r) == [a \in Areas |-> {m \in 1..sent \ erased : r \in Leased \/ m > card.mark[a]}]

\* A run holds the user's lease for as long as it works; a backfill has none.
ReadInputs(r) ==
    /\ work[r].step = "idle"
    /\ r \in Leased => \A q \in Leased : ~Busy(q)
    /\ Becomes(r, [Idle EXCEPT !.step = "asking", !.base = Citable(r)])
    /\ UNCHANGED <<card, sent, erased, asked, mishaps, history>>

\* The model has cited messages for some areas.  A run looks them and the old
\* proof up again in the chats, a backfill in the chats it has read; a second
\* model keeps those that show the line.
ProveLines(r, areas) ==
    /\ work[r].step = "asking"
    /\ \E kept \in Lines :
        /\ \A a \in Areas : kept[a] \subseteq work[r].base[a] \ (IF r \in Leased THEN erased ELSE {})
        /\ areas = {a \in Areas : kept[a] # {}}
        /\ IF areas = {} THEN Becomes(r, Done(r))
           ELSE Update(r, [NoChange EXCEPT !.over = areas, !.line = kept])
    /\ UNCHANGED <<card, sent, erased, asked, mishaps, history>>

-----------------------------------------------------------------------------
(* Deleting a message, and the proof that was in it.                       *)

Erase(d, m) ==
    /\ work[d].step = "idle"
    /\ m \in 1..sent \ erased
    /\ erased' = erased \union {m}
    /\ Becomes(d, [Idle EXCEPT !.step = "erased", !.gone = m])
    /\ UNCHANGED <<card, sent, asked, mishaps, history>>

\* drop_vibe_proof_from_conversation: what is left of each line is made from
\* this reading of the card, and written onto a later one.
FindProof(d) ==
    LET m == work[d].gone
        touched == {a \in Areas : m \in card.line[a]}
        left == [a \in Areas |-> IF a \in touched THEN card.line[a] \ {m} ELSE {}]
    IN  /\ work[d].step = "erased"
        /\ IF touched = {}
           THEN Becomes(d, Done(d))
           ELSE Update(d, [NoChange EXCEPT !.over = {a \in touched : left[a] # {}}, !.line = left,
                                         !.drop = {a \in touched : left[a] = {}}])
        /\ NoteDeletion(d)
        /\ UNCHANGED <<card, sent, erased, asked, mishaps, removed, chosen, unsaved, own>>

-----------------------------------------------------------------------------
(* The user's requests.                                                    *)

Say ==
    /\ sent < MaxMessages /\ sent' = sent + 1
    /\ UNCHANGED <<card, erased, work, asked, mishaps, history>>

Ask(p) == work[p].step = "idle" /\ asked < MaxAsks /\ asked' = asked + 1

Reject(p, a) ==
    /\ Ask(p)
    /\ Update(p, [NoChange EXCEPT !.reject = {a}])
    /\ UNCHANGED <<card, sent, erased, mishaps, history>>

Choose(p, c) ==
    /\ Ask(p)
    /\ Update(p, [NoChange EXCEPT !.consent = c])
    /\ UNCHANGED <<card, sent, erased, mishaps, history>>

EditIntro(p) ==
    /\ Ask(p)
    /\ Update(p, [NoChange EXCEPT !.intro = [by |-> "user", of |-> NoLines]])
    /\ UNCHANGED <<card, sent, erased, mishaps, history>>

ResetIntro(p) ==
    /\ Ask(p)
    /\ Update(p, [NoChange EXCEPT !.intro = [by |-> "reset", of |-> NoLines]])
    /\ UNCHANGED <<card, sent, erased, mishaps, history>>

PublicLines == [a \in Areas |-> IF a \in Private THEN {} ELSE card.line[a]]

\* GET /api/me/intro writes an intro: not over the user's own, with enough
\* lines to write from, and when those have changed.
NeedsIntro ==
    /\ card.intro.by # "user"
    /\ Cardinality({a \in Areas : PublicLines[a] # {}}) >= MinLines
    /\ ~(card.intro.by = "omi" /\ card.intro.of = PublicLines)

VisitProfile(p) ==
    /\ \/ Ask(p) /\ NeedsIntro
       \/ work[p].step = "again" /\ UNCHANGED asked
    /\ Becomes(p, IF NeedsIntro THEN [Idle EXCEPT !.step = "writing", !.base = PublicLines] ELSE Idle)
    /\ UNCHANGED <<card, sent, erased, mishaps, history>>

IntroWritten(p) ==
    /\ work[p].step = "writing"
    /\ Update(p, [NoChange EXCEPT !.intro = [by |-> "omi", of |-> work[p].base]])
    /\ UNCHANGED <<card, sent, erased, asked, mishaps, history>>

IntroFails(p) ==
    /\ work[p].step = "writing"
    /\ Becomes(p, Idle)
    /\ UNCHANGED <<card, sent, erased, asked, mishaps, history>>

\* The process dies with whatever it was about to write.
Die(w) ==
    /\ Busy(w) /\ mishaps < MaxMishaps /\ mishaps' = mishaps + 1
    /\ Becomes(w, Done(w))
    /\ late' = IF w \in Deletions THEN late \union {work[w].gone} ELSE late
    /\ UNCHANGED <<card, sent, erased, asked, removed, chosen, unsaved, own>>

-----------------------------------------------------------------------------

Init ==
    /\ card = NoCard /\ sent = 0 /\ erased = {} /\ asked = 0 /\ mishaps = 0
    /\ work = [w \in Writers |-> Idle]
    /\ removed = [a \in Areas |-> Never] /\ late = {}
    /\ chosen = "never" /\ unsaved = FALSE /\ own = "no"

Next ==
    \/ Say
    \/ \E w \in Writers : ReadCard(w) \/ WriteCard(w) \/ LoseRace(w) \/ GiveUp(w) \/ Die(w)
    \/ \E r \in Runs : ReadInputs(r) \/ \E areas \in SUBSET Areas : ProveLines(r, areas)
    \/ \E d \in Deletions : FindProof(d) \/ \E m \in Messages : Erase(d, m)
    \/ \E p \in Tabs :
        \/ \E a \in Areas : Reject(p, a)
        \/ \E c \in {"yes", "no"} : Choose(p, c)
        \/ EditIntro(p) \/ ResetIntro(p) \/ VisitProfile(p)
        \/ IntroWritten(p) \/ IntroFails(p)

Spec == Init /\ [][Next]_vars

-----------------------------------------------------------------------------
(* What must hold.                                                         *)

TypeOK ==
    /\ card \in Cards /\ sent \in 0..MaxMessages /\ erased \subseteq 1..sent
    /\ work \in [Writers -> Works] /\ asked \in 0..MaxAsks /\ mishaps \in 0..MaxMishaps
    /\ removed \in [Areas -> Never..sent] /\ late \subseteq erased
    /\ chosen \in Consents /\ unsaved \in BOOLEAN /\ own \in {"no", "yes", "raced"}

\* "Not right" removes a line, and it stays gone until a line comes with nothing
\* but newer proof, whatever runs, deletions and other requests write meanwhile.
RemovedStaysGone == \A a \in Areas : removed[a] # Never => card.line[a] = {}

\* When a deletion has gone through, no line stands on the deleted message, unless
\* another writer had it in hand while the deletion looked for it.
ProofStands ==
    \A m \in erased \ late :
        (\A d \in Deletions : work[d].gone = m => ~Busy(d)) => \A a \in Areas : m \notin card.line[a]

\* The choice about private areas that matching reads is the one the user last
\* got an answer for, unless that could not be saved; and an intro in the user's
\* own words stays until the user resets it, unless Omi's was being written when
\* it was saved.
ExtrasStand ==
    /\ card.consent = chosen \/ unsaved
    /\ own = "yes" => card.intro.by = "user"

=============================================================================
