------------------------- MODULE ChannelLinksProofs -------------------------
(***************************************************************************)
(* Safety of links, codes and webhook messages for every number of users,  *)
(* chats, codes and deliveries, whichever messages those deliver.          *)
(***************************************************************************)
EXTENDS ChannelLinks, TLAPS

AllLinks == [user : Users, chat : Chats, last : Nat, row : Nat]
Messages == [chat : Chats, what : Codes \union {"text", "stop"}]
Handlers == [step : Steps, user : Users \union {None}, row : Nat, doomed : SUBSET Nat]

\* The type of every variable.
Shape ==
    /\ channel \in {"telegram", "whatsapp"}
    /\ asked \in [Codes -> [step : {"new", "writing", "given"}, doomed : SUBSET Codes]]
    /\ codes \in SUBSET Codes /\ links \in SUBSET AllLinks /\ rows \in Nat
    /\ sent \in Seq(Messages) /\ origin \in Seq(AllLinks \union {NoLink}) /\ Len(origin) = Len(sent)
    /\ seen \in SUBSET (1..Len(sent)) /\ saved \in SUBSET Deliveries
    /\ handler \in [Deliveries -> Handlers]
    /\ ended \in [Deliveries -> SUBSET Deliveries]
    /\ \A d \in Deliveries : handler[d].step # "waiting" => Number[d] <= Len(sent)
    /\ \A n \in 1..Len(sent) : \E d \in Deliveries : Number[d] = n

\* A chat and an account have one link at most, and no row's number comes back.
Linked ==
    /\ \A l \in links : l.row \in 1..rows
    /\ \A l, k \in links : l.row = k.row \/ l.user = k.user \/ l.chat = k.chat => l = k
    /\ \A d \in Deliveries : handler[d].row <= rows
    /\ \A n \in 1..Len(sent) :
          /\ origin[n].row <= rows /\ (origin[n] # NoLink => origin[n].row # 0)
          /\ \A l \in links : l.row = origin[n].row => l.chat = sent[n].chat

\* A code that was sent was given, one that is connected with is gone for good,
\* and who finds a code after that is told that it does not work.
Coded ==
    /\ \A n \in 1..Len(sent) : sent[n].what \in Codes => asked[sent[n].what].step = "given"
    /\ \A d \in Deliveries :
          /\ handler[d].step \in {"code", "take", "connect", "insert", "used", "failed"} =>
                 Said(d).what \in Codes
          /\ handler[d].step \in {"connect", "insert", "used"} => Said(d).what \notin codes
          /\ handler[d].step = "stopped" => Said(d).what = "stop"
          /\ ended[d] # {} => handler[d].step = "told"

\* Past the claim of its message.
Claimed(d) == handler[d].step \notin {"waiting", "claim", "dropped", "dead"}

\* Past the claim of its update, and saved or about to be.
Acted(d) == handler[d].step \in {"act", "saved"}

\* A message passes its claim once: by its number on WhatsApp, once a link by
\* the newest update on Telegram.
Kept ==
    /\ \A d \in saved : handler[d].step = "saved"
    /\ channel = "whatsapp" =>
          /\ \A d \in Deliveries : Claimed(d) => Number[d] \in seen
          /\ \A d, e \in Deliveries : Claimed(d) /\ Claimed(e) /\ Number[d] = Number[e] => d = e
    /\ channel = "telegram" =>
          /\ \A d \in Deliveries : \A l \in links :
                Acted(d) /\ l.row = handler[d].row => Number[d] <= l.last
          /\ \A d, e \in Deliveries :
                Acted(d) /\ Acted(e) /\ Number[d] = Number[e] /\ handler[d].row = handler[e].row => d = e

\* Past the claim of its update, whatever came of it.
Handled(d) == handler[d].step \in {"act", "saved", "stopped", "told", "dead"}

\* What was claimed was claimed by a delivery that went on, and what was dropped
\* while its link lasted was no newer than the link's last update.
Dropped ==
    /\ channel = "whatsapp" => \A n \in seen : \E d \in Deliveries :
          Number[d] = n /\ handler[d].step \notin {"waiting", "claim", "dropped"}
    /\ \A l \in links : l.last # 0 => \E d \in Deliveries : Number[d] = l.last /\ Handled(d)
    /\ channel = "whatsapp" =>
          \A d \in Deliveries : handler[d].step = "dropped" => Number[d] \in seen
    /\ channel = "telegram" =>
          \A d \in Deliveries : \A l \in links :
              handler[d].step = "dropped" /\ l.row = origin[Number[d]].row => Number[d] <= l.last

LinkInv == Shape /\ Linked /\ Coded /\ Kept /\ Dropped

-----------------------------------------------------------------------------
\* Writing one field of a handler keeps the others, and the other handlers.
LEMMA StepWritten ==
    ASSUME NEW h \in [Deliveries -> Handlers], NEW d \in Deliveries, NEW s \in Steps,
           NEW g, g = [h EXCEPT ![d].step = s]
    PROVE  /\ g \in [Deliveries -> Handlers] /\ \A e \in Deliveries \ {d} : g[e] = h[e]
           /\ g[d].step = s /\ g[d].row = h[d].row
<1>1. h[d] \in Handlers /\ g = [h EXCEPT ![d] = [h[d] EXCEPT !.step = s]]
  OBVIOUS
<1>2. [h[d] EXCEPT !.step = s] \in Handlers
  BY <1>1 DEF Handlers
<1>3. /\ [h[d] EXCEPT !.step = s].step = s
      /\ [h[d] EXCEPT !.step = s].row = h[d].row
  BY <1>1 DEF Handlers
<1> QED BY <1>1, <1>2, <1>3

LEMMA UserWritten ==
    ASSUME NEW h \in [Deliveries -> Handlers], NEW d \in Deliveries, NEW u \in Users \union {None},
           NEW g, g = [h EXCEPT ![d].user = u]
    PROVE  /\ g \in [Deliveries -> Handlers] /\ \A e \in Deliveries \ {d} : g[e] = h[e]
           /\ g[d].step = h[d].step
<1>1. h[d] \in Handlers /\ g = [h EXCEPT ![d] = [h[d] EXCEPT !.user = u]]
  OBVIOUS
<1>2. [h[d] EXCEPT !.user = u] \in Handlers
  BY <1>1 DEF Handlers
<1>3. [h[d] EXCEPT !.user = u].step = h[d].step
  BY <1>1 DEF Handlers
<1> QED BY <1>1, <1>2, <1>3

LEMMA RowWritten ==
    ASSUME NEW h \in [Deliveries -> Handlers], NEW d \in Deliveries, NEW r \in Nat,
           NEW g, g = [h EXCEPT ![d].row = r]
    PROVE  /\ g \in [Deliveries -> Handlers] /\ \A e \in Deliveries \ {d} : g[e] = h[e]
           /\ g[d].row = r /\ g[d].step = h[d].step
<1>1. h[d] \in Handlers /\ g = [h EXCEPT ![d] = [h[d] EXCEPT !.row = r]]
  OBVIOUS
<1>2. [h[d] EXCEPT !.row = r] \in Handlers
  BY <1>1 DEF Handlers
<1>3. /\ [h[d] EXCEPT !.row = r].row = r
      /\ [h[d] EXCEPT !.row = r].step = h[d].step
  BY <1>1 DEF Handlers
<1> QED BY <1>1, <1>2, <1>3

LEMMA DoomedWritten ==
    ASSUME NEW h \in [Deliveries -> Handlers], NEW d \in Deliveries, NEW D \in SUBSET Nat,
           NEW g, g = [h EXCEPT ![d].doomed = D]
    PROVE  /\ g \in [Deliveries -> Handlers] /\ \A e \in Deliveries \ {d} : g[e] = h[e]
           /\ g[d].step = h[d].step /\ g[d].row = h[d].row
<1>1. h[d] \in Handlers /\ g = [h EXCEPT ![d] = [h[d] EXCEPT !.doomed = D]]
  OBVIOUS
<1>2. [h[d] EXCEPT !.doomed = D] \in Handlers
  BY <1>1 DEF Handlers
<1>3. /\ [h[d] EXCEPT !.doomed = D].step = h[d].step
      /\ [h[d] EXCEPT !.doomed = D].row = h[d].row
  BY <1>1 DEF Handlers
<1> QED BY <1>1, <1>2, <1>3

\* A handler that goes on changes its step alone, and no other handler changes.
LEMMA Goes ==
    ASSUME Shape, NEW d \in Deliveries, NEW s \in Steps, Go(d, s)
    PROVE  /\ handler' \in [Deliveries -> Handlers]
           /\ handler'[d].step = s
           /\ \A e \in Deliveries : handler'[e].row = handler[e].row
           /\ \A e \in Deliveries \ {d} : handler'[e] = handler[e]
<1> handler \in [Deliveries -> Handlers] /\ handler' = [handler EXCEPT ![d].step = s]
    BY DEF Shape, Go
<1> QED BY StepWritten

\* The same for the steps that note a link row as well.
LEMMA GoesWithRow ==
    ASSUME Shape, NEW d \in Deliveries, NEW s \in Steps, NEW u \in Users \union {None}, NEW r \in Nat
    PROVE  \/ handler' = [handler EXCEPT ![d].step = s, ![d].user = u, ![d].row = r]
           \/ handler' = [handler EXCEPT ![d].step = s, ![d].row = r]
           => /\ handler' \in [Deliveries -> Handlers]
              /\ handler'[d].step = s /\ handler'[d].row = r
              /\ \A e \in Deliveries \ {d} : handler'[e] = handler[e]
<1> DEFINE Good(g) == /\ g \in [Deliveries -> Handlers] /\ g[d].step = s
                      /\ \A e \in Deliveries \ {d} : g[e] = handler[e]
           h1 == [handler EXCEPT ![d].step = s]
           h2 == [h1 EXCEPT ![d].user = u]
           h3 == [h2 EXCEPT ![d].row = r]
           h4 == [h1 EXCEPT ![d].row = r]
<1>1. Good(h1)
  <2>1. h1 = [handler EXCEPT ![d].step = s] /\ handler \in [Deliveries -> Handlers]
    BY DEF Shape
  <2> HIDE DEF h1
  <2> QED BY <2>1, StepWritten
<1>2. Good(h2)
  <2>1. h2 = [h1 EXCEPT ![d].user = u]
    OBVIOUS
  <2> HIDE DEF h1, h2
  <2> QED BY <1>1, <2>1, UserWritten
<1>3. Good(h3) /\ h3[d].row = r
  <2>1. h3 = [h2 EXCEPT ![d].row = r]
    OBVIOUS
  <2> HIDE DEF h2, h3
  <2> QED BY <1>2, <2>1, RowWritten
<1>4. Good(h4) /\ h4[d].row = r
  <2>1. h4 = [h1 EXCEPT ![d].row = r]
    OBVIOUS
  <2> HIDE DEF h1, h4
  <2> QED BY <1>1, <2>1, RowWritten
<1>5. \/ handler' = [handler EXCEPT ![d].step = s, ![d].user = u, ![d].row = r]
      \/ handler' = [handler EXCEPT ![d].step = s, ![d].row = r]
      => handler' = h3 \/ handler' = h4
  OBVIOUS
<1>6. handler' = h3 \/ handler' = h4 => Good(handler') /\ handler'[d].row = r
  <2> HIDE DEF h3, h4
  <2> QED BY <1>3, <1>4
<1> QED BY <1>5, <1>6

\* And for the step that notes which link rows will go.
LEMMA GoesWithDoomed ==
    ASSUME Shape, NEW d \in Deliveries, NEW s \in Steps, NEW D \in SUBSET Nat
    PROVE  handler' = [handler EXCEPT ![d].step = s, ![d].doomed = D] =>
              /\ handler' \in [Deliveries -> Handlers]
              /\ handler'[d].step = s
              /\ \A e \in Deliveries : handler'[e].row = handler[e].row
              /\ \A e \in Deliveries \ {d} : handler'[e] = handler[e]
<1> DEFINE Good(g) == /\ g \in [Deliveries -> Handlers] /\ g[d].step = s /\ g[d].row = handler[d].row
                      /\ \A e \in Deliveries \ {d} : g[e] = handler[e]
           h1 == [handler EXCEPT ![d].step = s]
           h2 == [h1 EXCEPT ![d].doomed = D]
<1>1. Good(h1)
  <2>1. h1 = [handler EXCEPT ![d].step = s] /\ handler \in [Deliveries -> Handlers]
    BY DEF Shape
  <2> HIDE DEF h1
  <2> QED BY <2>1, StepWritten
<1>2. Good(h2)
  <2>1. h2 = [h1 EXCEPT ![d].doomed = D]
    OBVIOUS
  <2> HIDE DEF h1, h2
  <2> QED BY <1>1, <2>1, DoomedWritten
<1>3. handler' = [handler EXCEPT ![d].step = s, ![d].doomed = D] => handler' = h2
  OBVIOUS
<1>4. handler' = h2 => Good(handler')
  <2> HIDE DEF h2
  <2> QED BY <1>2
<1> QED BY <1>3, <1>4

\* The link of a chat is one of the links, or there is none.
LEMMA LinkFound ==
    ASSUME Shape, NEW c
    PROVE  /\ (LinkOf(c) \in links /\ LinkOf(c).chat = c) \/ LinkOf(c) = NoLink
           /\ NoLink \notin links
           /\ LinkOf(c) \in AllLinks \union {NoLink} /\ LinkOf(c).row \in Nat
           /\ LinkOf(c).user \in Users \union {None}
           /\ Linked => \A l \in links : l.chat = c => l = LinkOf(c)
<1>1. NoLink \notin links
  BY ChannelLinksAssumption DEF Shape, AllLinks, NoLink
<1>2. CASE \E l \in links : l.chat = c
  <2>1. LinkOf(c) \in links /\ LinkOf(c).chat = c
    <3> DEFINE l == CHOOSE l \in links : l.chat = c
    <3>1. l \in links /\ l.chat = c
      BY <1>2
    <3> QED BY <1>2, <3>1 DEF LinkOf
  <2>2. LinkOf(c) \in AllLinks
    BY <2>1 DEF Shape
  <2>3. Linked => \A l \in links : l.chat = c => l = LinkOf(c)
    BY <2>1 DEF Linked
  <2> QED BY <1>1, <2>1, <2>2, <2>3 DEF AllLinks
<1>3. CASE ~\E l \in links : l.chat = c
  <2>1. LinkOf(c) = NoLink
    BY <1>3 DEF LinkOf
  <2> QED BY <1>1, <1>3, <2>1 DEF NoLink
<1> QED BY <1>2, <1>3

\* A message a handler has is one that was sent.
LEMMA SaidTyped ==
    ASSUME Shape, NEW d \in Deliveries, handler[d].step # "waiting"
    PROVE  Number[d] \in 1..Len(sent) /\ Said(d) \in Messages
BY ChannelLinksAssumption DEF Shape, Said

\* A delivery's step is one of the handler's.
LEMMA OpeningTyped == ASSUME NEW m PROVE Opening(m) \in Steps
BY DEF Opening, Steps

\* Where the account's link goes: the links left are links.
LEMMA UnlinkTyped == ASSUME Shape, NEW u, Unlink(u) PROVE links' \in SUBSET links
BY DEF Unlink

\* Every step keeps the types.
LEMMA ShapeStep == Shape /\ Coded /\ [Next]_vars => Shape'
<1> SUFFICES ASSUME Shape, Coded, [Next]_vars PROVE Shape'
    OBVIOUS
<1> USE ChannelLinksAssumption
<1>1. ASSUME NEW k \in Codes, AskForCode(k) PROVE Shape'
  BY <1>1 DEF AskForCode, Shape, linking
<1>2. ASSUME NEW k \in Codes, GiveCode(k) PROVE Shape'
  BY <1>2 DEF GiveCode, Shape
<1>3. ASSUME NEW u \in Users, Disconnect(u) PROVE Shape'
  BY <1>3, UnlinkTyped DEF Disconnect, Shape
<1>4. ASSUME NEW c \in Chats, NEW what \in Codes \union {"text", "stop"}, Write(c, what)
      PROVE  Shape'
  <2>1. [chat |-> c, what |-> what] \in Messages
    BY DEF Messages
  <2>2. sent' \in Seq(Messages) /\ Len(sent') = Len(sent) + 1
    BY <1>4, <2>1 DEF Write, Shape
  <2>3. origin' \in Seq(AllLinks \union {NoLink}) /\ Len(origin') = Len(origin) + 1
    BY <1>4, LinkFound DEF Write, Shape
  <2>4. \A n \in 1..Len(sent') : \E d \in Deliveries : Number[d] = n
    <3> TAKE n \in 1..Len(sent')
    <3>1. n \in 1..Len(sent) \/ n = Len(sent) + 1
      BY <2>2 DEF Shape
    <3> QED BY <1>4, <3>1 DEF Write, Shape
  <2>5. \A d \in Deliveries : handler[d].step # "waiting" => Number[d] <= Len(sent')
    BY <2>2 DEF Shape
  <2>6. seen \in SUBSET (1..Len(sent'))
    BY <2>2 DEF Shape
  <2> QED BY <1>4, <2>2, <2>3, <2>4, <2>5, <2>6 DEF Write, Shape, linking
<1>5. ASSUME NEW d \in Deliveries, NEW s \in Steps, Go(d, s), handler[d].step # "waiting" \/ Number[d] <= Len(sent),
             UNCHANGED <<channel, asked, sent, origin>>, codes' \in SUBSET codes, links' \in SUBSET links,
             rows' = rows, seen' \in SUBSET (1..Len(sent)), saved' \in SUBSET Deliveries,
             ended' \in [Deliveries -> SUBSET Deliveries]
      PROVE  Shape'
  <2>1. /\ handler' \in [Deliveries -> Handlers]
        /\ \A e \in Deliveries \ {d} : handler'[e] = handler[e]
    BY <1>5, Goes
  <2>2. \A e \in Deliveries : handler'[e].step # "waiting" => Number[e] <= Len(sent)
    BY <1>5, <2>1 DEF Shape
  <2> QED BY <1>5, <2>1, <2>2 DEF Shape, Handlers
<1>6. ASSUME NEW d \in Deliveries, Receive(d) PROVE Shape'
  <2>1. (IF channel = "whatsapp" THEN "claim" ELSE Opening(Said(d))) \in Steps
    BY OpeningTyped DEF Steps
  <2> QED BY <1>5, <1>6, <2>1 DEF Receive, linking, Shape
<1>7. ASSUME NEW d \in Deliveries, ClaimMessage(d) PROVE Shape'
  <2>1. (IF Number[d] \in seen THEN "dropped" ELSE Opening(Said(d))) \in Steps
    BY OpeningTyped DEF Steps
  <2>2. Number[d] \in 1..Len(sent)
    BY <1>7, SaidTyped DEF ClaimMessage, At
  <2>3. seen' \in SUBSET (1..Len(sent))
    BY <1>7, <2>2 DEF ClaimMessage, Shape
  <2> QED BY <1>5, <1>7, <2>1, <2>3 DEF ClaimMessage, linking, At, Shape
<1>8. ASSUME NEW d \in Deliveries, LookUp(d) PROVE Shape'
  <2> DEFINE l == LinkOf(Said(d).chat)
             s == IF l = NoLink THEN "told" ELSE IF channel = "telegram" THEN "claim" ELSE "act"
  <2>1. s \in Steps /\ l.user \in Users \union {None} /\ l.row \in Nat
    BY LinkFound DEF Steps
  <2>2. handler' = [handler EXCEPT ![d].step = s, ![d].user = l.user, ![d].row = l.row]
    BY <1>8 DEF LookUp
  <2> HIDE DEF s, l
  <2>3. handler' \in [Deliveries -> Handlers] /\ \A e \in Deliveries \ {d} : handler'[e] = handler[e]
    BY <2>1, <2>2, GoesWithRow
  <2>4. Number[d] <= Len(sent)
    BY <1>8, SaidTyped DEF LookUp, At
  <2> QED BY <1>8, <2>3, <2>4 DEF LookUp, Shape, Handlers, linking
<1>9. ASSUME NEW d \in Deliveries, ClaimUpdate(d) PROVE Shape'
  <2> DEFINE l == LinkOf(Said(d).chat)
  <2>0. Number[d] \in 1..Len(sent) /\ "act" \in Steps /\ "dropped" \in Steps
    BY <1>9, SaidTyped DEF ClaimUpdate, At, Steps
  <2>1. CASE l # NoLink /\ IsNewer(l, Number[d])
    <3>1. l \in links /\ l \in AllLinks
      BY <2>1, LinkFound DEF Shape
    <3>2. [l EXCEPT !.last = Number[d]] \in AllLinks
      BY <2>0, <3>1 DEF AllLinks
    <3>3. links' = (links \ {l}) \union {[l EXCEPT !.last = Number[d]]}
      BY <1>9, <2>1 DEF ClaimUpdate
    <3>4. links' \in SUBSET AllLinks
      BY <3>2, <3>3 DEF Shape
    <3>5. handler' = [handler EXCEPT ![d].step = "act", ![d].row = l.row] /\ l.row \in Nat
      BY <1>9, <2>1, <3>1 DEF ClaimUpdate, AllLinks
    <3> HIDE DEF l
    <3>6. handler' \in [Deliveries -> Handlers] /\ \A e \in Deliveries \ {d} : handler'[e] = handler[e]
      BY <2>0, <3>5, GoesWithRow
    <3>7. \A e \in Deliveries : handler'[e].step # "waiting" => Number[e] <= Len(sent)
      BY <2>0, <3>6 DEF Shape
    <3> QED BY <1>9, <3>4, <3>6, <3>7 DEF ClaimUpdate, Shape
  <2>2. CASE ~(l # NoLink /\ IsNewer(l, Number[d]))
    <3>1. Go(d, "dropped") /\ links' = links
      BY <1>9, <2>2 DEF ClaimUpdate
    <3>2. /\ UNCHANGED <<channel, asked, sent, origin, codes, rows, seen, saved, ended>>
          /\ handler[d].step # "waiting"
      BY <1>9 DEF ClaimUpdate, At
    <3>3. /\ codes' \in SUBSET codes /\ links' \in SUBSET links /\ seen' \in SUBSET (1..Len(sent))
          /\ saved' \in SUBSET Deliveries /\ ended' \in [Deliveries -> SUBSET Deliveries]
      BY <3>1, <3>2 DEF Shape
    <3> QED BY <1>5, <2>0, <3>1, <3>2, <3>3
  <2> QED BY <2>1, <2>2
<1>10. ASSUME NEW d \in Deliveries, Stop(d) PROVE Shape'
  <2>1. "stopped" \in Steps /\ links' \in SUBSET links
    BY <1>10, UnlinkTyped DEF Stop, Steps
  <2> QED BY <1>5, <1>10, <2>1 DEF Stop, At, Shape
<1>11. ASSUME NEW d \in Deliveries, SaveText(d) PROVE Shape'
  <2>1. "saved" \in Steps /\ "told" \in Steps /\ saved' \in SUBSET Deliveries
    BY <1>11 DEF SaveText, Steps, Shape
  <2> QED BY <1>5, <1>11, <2>1 DEF SaveText, At, Shape, linking
<1>12. ASSUME NEW d \in Deliveries, ReadCode(d) PROVE Shape'
  <2>1. (IF Said(d).what \in codes THEN "take" ELSE "told") \in Steps
    BY DEF Steps
  <2>2. ended' \in [Deliveries -> SUBSET Deliveries]
    BY <1>12 DEF ReadCode, Shape
  <2> QED BY <1>5, <1>12, <2>1, <2>2 DEF ReadCode, At, Shape, linking
<1>13. ASSUME NEW d \in Deliveries, TakeCode(d) PROVE Shape'
  <2>1. "connect" \in Steps /\ "told" \in Steps /\ codes' \in SUBSET codes
    BY <1>13 DEF TakeCode, Taken, Steps
  <2> QED BY <1>5, <1>13, <2>1 DEF TakeCode, At, Shape
<1>14. ASSUME NEW d \in Deliveries, Unlinking(d) PROVE Shape'
  <2> DEFINE S == {l.row : l \in {k \in links : Meets(k, Owner[Said(d).what], Said(d).chat)}}
  <2>1. S \in SUBSET Nat /\ "insert" \in Steps
    BY DEF Shape, AllLinks, Steps
  <2>2. handler' = [handler EXCEPT ![d].step = "insert", ![d].doomed = S]
    BY <1>14 DEF Unlinking
  <2> HIDE DEF S
  <2>3. handler' \in [Deliveries -> Handlers] /\ \A e \in Deliveries \ {d} : handler'[e] = handler[e]
    BY <2>1, <2>2, GoesWithDoomed
  <2>4. Number[d] <= Len(sent)
    BY <1>14, SaidTyped DEF Unlinking, At
  <2> QED BY <1>14, <2>3, <2>4 DEF Unlinking, Shape, Handlers, linking
<1>15. ASSUME NEW d \in Deliveries, Link(d) PROVE Shape'
  <2> DEFINE u == Owner[Said(d).what]
             c == Said(d).chat
             left == {l \in links : l.row \notin handler[d].doomed}
             new == [user |-> u, chat |-> c, last |-> 0, row |-> rows + 1]
  <2>0. Said(d).what \in Codes /\ "used" \in Steps /\ "failed" \in Steps
    BY <1>15 DEF Link, At, Steps, Coded
  <2>1. CASE \E l \in left : Meets(l, u, c)
    <3>1. Go(d, "failed") /\ links' = links /\ rows' = rows
      BY <1>15, <2>1 DEF Link
    <3> QED BY <1>5, <1>15, <2>0, <3>1 DEF Link, At, Shape
  <2>2. CASE ~\E l \in left : Meets(l, u, c)
    <3>1. Go(d, "used") /\ links' = left \union {new} /\ rows' = rows + 1
      BY <1>15, <2>2 DEF Link
    <3>2. new \in AllLinks
      <4>1. Said(d) \in Messages
        BY <1>15, SaidTyped DEF Link, At
      <4> QED BY <2>0, <4>1 DEF AllLinks, Messages, Shape
    <3>3. links' \in SUBSET AllLinks /\ rows' \in Nat
      BY <3>1, <3>2 DEF Shape
    <3>4. /\ handler' \in [Deliveries -> Handlers]
          /\ \A e \in Deliveries \ {d} : handler'[e] = handler[e]
      BY <2>0, <3>1, Goes
    <3>5. \A e \in Deliveries : handler'[e].step # "waiting" => Number[e] <= Len(sent)
      BY <1>15, <3>4 DEF Shape, Link, At
    <3> QED BY <1>15, <3>3, <3>4, <3>5 DEF Link, Shape
  <2> QED BY <2>1, <2>2
<1>16. ASSUME NEW d \in Deliveries, Die(d) PROVE Shape'
  <2>1. "dead" \in Steps
    BY DEF Steps
  <2> QED BY <1>5, <1>16, <2>1 DEF Die, Shape, linking
<1>17. CASE UNCHANGED vars
  BY <1>17 DEF vars, linking, Shape
<1> QED BY <1>1, <1>2, <1>3, <1>4, <1>6, <1>7, <1>8, <1>9, <1>10, <1>11, <1>12, <1>13, <1>14,
           <1>15, <1>16, <1>17 DEF Next

-----------------------------------------------------------------------------
\* The steps that write a step alone change no row a handler has noted.
LEMMA Stepping ==
    ASSUME Shape, NEW d \in Deliveries,
           \/ Receive(d) \/ ClaimMessage(d) \/ Stop(d) \/ SaveText(d) \/ ReadCode(d) \/ TakeCode(d)
           \/ Unlinking(d) \/ Link(d) \/ Die(d)
    PROVE  /\ \A e \in Deliveries : handler'[e].row = handler[e].row
           /\ \A e \in Deliveries \ {d} : handler'[e] = handler[e]
<1>1. ASSUME NEW s \in Steps, Go(d, s)
      PROVE  /\ \A e \in Deliveries : handler'[e].row = handler[e].row
             /\ \A e \in Deliveries \ {d} : handler'[e] = handler[e]
  BY <1>1, Goes
<1>2. CASE Unlinking(d)
  <2> DEFINE D == {l.row : l \in {k \in links : Meets(k, Owner[Said(d).what], Said(d).chat)}}
  <2>1. D \in SUBSET Nat /\ "insert" \in Steps
    BY DEF Shape, AllLinks, Steps
  <2>2. handler' = [handler EXCEPT ![d].step = "insert", ![d].doomed = D]
    BY <1>2 DEF Unlinking
  <2> HIDE DEF D
  <2> QED BY <2>1, <2>2, GoesWithDoomed
<1>3. CASE Receive(d) \/ ClaimMessage(d)
  BY <1>1, <1>3, OpeningTyped DEF Receive, ClaimMessage, Steps
<1>4. CASE Stop(d) \/ SaveText(d) \/ ReadCode(d) \/ TakeCode(d) \/ Link(d) \/ Die(d)
  BY <1>1, <1>4 DEF Stop, SaveText, ReadCode, TakeCode, Link, Die, Steps
<1> QED BY <1>2, <1>3, <1>4

\* What LookUp and ClaimUpdate do to the handlers.
LEMMA Looking ==
    ASSUME Shape, NEW d \in Deliveries, LookUp(d)
    PROVE  /\ handler'[d].row = LinkOf(Said(d).chat).row
           /\ handler'[d].step = IF LinkOf(Said(d).chat) = NoLink THEN "told"
                                 ELSE IF channel = "telegram" THEN "claim" ELSE "act"
           /\ \A e \in Deliveries \ {d} : handler'[e] = handler[e]
<1> DEFINE l == LinkOf(Said(d).chat)
           s == IF l = NoLink THEN "told" ELSE IF channel = "telegram" THEN "claim" ELSE "act"
<1>1. s \in Steps /\ l.user \in Users \union {None} /\ l.row \in Nat
  BY LinkFound DEF Steps
<1>2. handler' = [handler EXCEPT ![d].step = s, ![d].user = l.user, ![d].row = l.row]
  BY DEF LookUp
<1> HIDE DEF s, l
<1>3. /\ handler' \in [Deliveries -> Handlers]
      /\ handler'[d].step = s /\ handler'[d].row = l.row
      /\ \A e \in Deliveries \ {d} : handler'[e] = handler[e]
  BY ONLY Shape, d \in Deliveries, <1>1, <1>2, GoesWithRow
<1> QED BY <1>3 DEF s, l

LEMMA Claiming ==
    ASSUME Shape, NEW d \in Deliveries, ClaimUpdate(d)
    PROVE  /\ \A e \in Deliveries \ {d} : handler'[e] = handler[e]
           /\ \/ \E l \in links : /\ l = LinkOf(Said(d).chat) /\ IsNewer(l, Number[d])
                                  /\ links' = (links \ {l}) \union {[l EXCEPT !.last = Number[d]]}
                                  /\ handler'[d].step = "act" /\ handler'[d].row = l.row
              \/ /\ \A l \in links : l = LinkOf(Said(d).chat) => ~IsNewer(l, Number[d])
                 /\ links' = links /\ handler'[d].step = "dropped" /\ handler'[d].row = handler[d].row
<1> DEFINE l == LinkOf(Said(d).chat)
<1>1. CASE l # NoLink /\ IsNewer(l, Number[d])
  <2>1. l \in links /\ l.row \in Nat /\ "act" \in Steps /\ l.user \in Users \union {None}
    BY <1>1, LinkFound DEF Steps
  <2>2. /\ handler' = [handler EXCEPT ![d].step = "act", ![d].row = l.row]
        /\ links' = (links \ {l}) \union {[l EXCEPT !.last = Number[d]]}
    BY <1>1 DEF ClaimUpdate
  <2> HIDE DEF l
  <2>3. /\ handler' \in [Deliveries -> Handlers]
        /\ handler'[d].step = "act" /\ handler'[d].row = l.row
        /\ \A e \in Deliveries \ {d} : handler'[e] = handler[e]
    BY ONLY Shape, d \in Deliveries, <2>1, <2>2, GoesWithRow
  <2> QED BY <1>1, <2>1, <2>2, <2>3 DEF l
<1>2. CASE ~(l # NoLink /\ IsNewer(l, Number[d]))
  <2>1. Go(d, "dropped") /\ links' = links /\ "dropped" \in Steps
    BY <1>2 DEF ClaimUpdate, Steps
  <2>2. /\ handler'[d].step = "dropped" /\ handler'[d].row = handler[d].row
        /\ \A e \in Deliveries \ {d} : handler'[e] = handler[e]
    BY <2>1, Goes
  <2> QED BY <1>2, <2>1, <2>2, LinkFound
<1> QED BY <1>1, <1>2

\* What Link does to the links.
LEMMA Linking ==
    ASSUME Shape, Coded, NEW d \in Deliveries, Link(d)
    PROVE  /\ \A e \in Deliveries \ {d} : handler'[e] = handler[e]
           /\ \/ links' = links /\ rows' = rows /\ handler'[d].step = "failed"
              \/ /\ rows' = rows + 1 /\ handler'[d].step = "used"
                 /\ \E k \in AllLinks : \E left \in SUBSET links :
                       /\ links' = left \union {k} /\ k.row = rows + 1 /\ k.last = 0
                       /\ \A l \in left : l.user # k.user /\ l.chat # k.chat
<1> DEFINE u == Owner[Said(d).what]
           c == Said(d).chat
           left == {l \in links : l.row \notin handler[d].doomed}
           new == [user |-> u, chat |-> c, last |-> 0, row |-> rows + 1]
<1>0. Said(d).what \in Codes /\ Said(d) \in Messages /\ "used" \in Steps /\ "failed" \in Steps
  BY SaidTyped DEF Link, At, Steps, Coded
<1>1. CASE \E l \in left : Meets(l, u, c)
  <2>1. Go(d, "failed") /\ links' = links /\ rows' = rows
    BY <1>1 DEF Link
  <2> QED BY <1>0, <2>1, Goes
<1>2. CASE ~\E l \in left : Meets(l, u, c)
  <2>1. Go(d, "used") /\ links' = left \union {new} /\ rows' = rows + 1
    BY <1>2 DEF Link
  <2>2. new \in AllLinks
    BY <1>0, ChannelLinksAssumption DEF AllLinks, Messages, Shape
  <2>3. handler'[d].step = "used" /\ \A e \in Deliveries \ {d} : handler'[e] = handler[e]
    BY <1>0, <2>1, Goes
  <2>4. \A l \in left : l.user # new.user /\ l.chat # new.chat
    BY <1>2 DEF Meets
  <2>5. new.row = rows + 1 /\ new.last = 0 /\ left \in SUBSET links
    OBVIOUS
  <2> HIDE DEF new, left
  <2> QED BY <2>1, <2>2, <2>3, <2>4, <2>5
<1> QED BY <1>1, <1>2

\* Chats and accounts keep one link each, and row numbers are not used twice.
LEMMA LinkedStep == Shape /\ Coded /\ Linked /\ [Next]_vars => Linked'
<1> SUFFICES ASSUME Shape, Coded, Linked, [Next]_vars PROVE Linked'
    OBVIOUS
<1>1. ASSUME links' \in SUBSET links, UNCHANGED <<rows, sent, origin>>,
             \A e \in Deliveries : handler'[e].row <= rows
      PROVE  Linked'
  BY <1>1 DEF Linked
<1>2. ASSUME UNCHANGED handler PROVE \A e \in Deliveries : handler'[e].row <= rows
  BY <1>2 DEF Linked
<1>3. ASSUME NEW k \in Codes, AskForCode(k) \/ GiveCode(k) PROVE Linked'
  BY <1>1, <1>2, <1>3 DEF AskForCode, GiveCode, linking
<1>4. ASSUME NEW u \in Users, Disconnect(u) PROVE Linked'
  BY <1>1, <1>2, <1>4 DEF Disconnect, Unlink
<1>5. ASSUME NEW c \in Chats, NEW what \in Codes \union {"text", "stop"}, Write(c, what) PROVE Linked'
  <2>1. /\ \A n \in 1..Len(sent) : sent'[n] = sent[n] /\ origin'[n] = origin[n]
        /\ Len(sent') = Len(sent) + 1 /\ sent'[Len(sent) + 1].chat = c
        /\ origin'[Len(sent) + 1] = LinkOf(c)
    BY <1>5 DEF Write, Shape
  <2>2. UNCHANGED <<links, rows, handler>>
    BY <1>5 DEF Write, linking
  <2>3. /\ LinkOf(c).row <= rows /\ (LinkOf(c) # NoLink => LinkOf(c).row # 0)
        /\ \A l \in links : l.row = LinkOf(c).row => l.chat = c
    <3>1. CASE LinkOf(c) = NoLink
      BY <3>1 DEF NoLink, Linked, Shape
    <3>2. CASE LinkOf(c) # NoLink
      BY <3>2, LinkFound DEF Linked
    <3> QED BY <3>1, <3>2
  <2>4. \A n \in 1..Len(sent') : n \in 1..Len(sent) \/ n = Len(sent) + 1
    BY <2>1 DEF Shape
  <2> QED BY <2>1, <2>2, <2>3, <2>4 DEF Linked
<1>6. ASSUME NEW d \in Deliveries, Receive(d) \/ ClaimMessage(d) \/ Stop(d) \/ SaveText(d) \/ ReadCode(d)
                                  \/ TakeCode(d) \/ Unlinking(d) \/ Die(d)
      PROVE  Linked'
  <2>1. \A e \in Deliveries : handler'[e].row <= rows
    BY <1>6, Stepping DEF Linked
  <2>2. links' \in SUBSET links /\ UNCHANGED <<rows, sent, origin>>
    BY <1>6 DEF Receive, ClaimMessage, Stop, SaveText, ReadCode, TakeCode, Unlinking, Die, Unlink, linking
  <2> QED BY <1>1, <2>1, <2>2
<1>7. ASSUME NEW d \in Deliveries, LookUp(d) PROVE Linked'
  <2>1. LinkOf(Said(d).chat).row <= rows
    BY LinkFound DEF NoLink, Linked, Shape
  <2>2. \A e \in Deliveries : handler'[e].row <= rows
    BY <1>7, <2>1, Looking DEF Linked
  <2>3. UNCHANGED <<links, rows, sent, origin>>
    BY <1>7 DEF LookUp, linking
  <2> QED BY <1>1, <2>2, <2>3
<1>8. ASSUME NEW d \in Deliveries, ClaimUpdate(d) PROVE Linked'
  <2>0. UNCHANGED <<rows, sent, origin>>
    BY <1>8 DEF ClaimUpdate
  <2>1. CASE links' = links /\ handler'[d].row = handler[d].row
    BY <1>1, <1>8, <2>0, <2>1, Claiming DEF Linked
  <2>2. ASSUME NEW l \in links, links' = (links \ {l}) \union {[l EXCEPT !.last = Number[d]]},
               handler'[d].row = l.row
        PROVE  Linked'
    <3> DEFINE k == [l EXCEPT !.last = Number[d]]
    <3>1. k.row = l.row /\ k.user = l.user /\ k.chat = l.chat
      BY DEF Shape, AllLinks
    <3>2. \A e \in Deliveries : handler'[e].row <= rows
      BY <1>8, <2>2, Claiming DEF Linked
    <3>3. links' = (links \ {l}) \union {k}
      BY <2>2
    <3> HIDE DEF k
    <3> QED BY <2>0, <3>1, <3>2, <3>3 DEF Linked
  <2> QED BY <1>8, <2>1, <2>2, Claiming
<1>9. ASSUME NEW d \in Deliveries, Link(d) PROVE Linked'
  <2>0. UNCHANGED <<sent, origin>> /\ \A e \in Deliveries : handler'[e].row = handler[e].row
    BY <1>9, Stepping DEF Link
  <2>1. CASE links' = links /\ rows' = rows
    BY <1>1, <2>0, <2>1 DEF Linked
  <2>2. ASSUME NEW k \in AllLinks, NEW left \in SUBSET links,
               rows' = rows + 1, links' = left \union {k}, k.row = rows + 1,
               \A l \in left : l.user # k.user /\ l.chat # k.chat
        PROVE  Linked'
    <3>1. rows \in Nat /\ (\A e \in Deliveries : handler[e].row \in Nat) /\ \A n \in 1..Len(sent) : origin[n].row \in Nat
      <4>1. \A n \in 1..Len(sent) : origin[n] \in AllLinks \union {NoLink}
        BY DEF Shape
      <4> QED BY <4>1 DEF Shape, Handlers, AllLinks, NoLink
    <3>2. \A l \in links : l.row \in 1..rows /\ l.row # rows + 1
      BY <3>1 DEF Linked
    <3>3. \A l \in links' : l.row \in 1..rows'
      BY <2>2, <3>1, <3>2
    <3>4. \A l, j \in links' : l.row = j.row \/ l.user = j.user \/ l.chat = j.chat => l = j
      BY <2>2, <3>2 DEF Linked
    <3>5. \A e \in Deliveries : handler'[e].row <= rows'
      BY <2>0, <2>2, <3>1 DEF Linked
    <3>6. \A n \in 1..Len(sent) : origin[n].row <= rows' /\ origin[n].row # rows + 1
      BY <2>2, <3>1 DEF Linked
    <3> QED BY <2>0, <2>2, <3>3, <3>4, <3>5, <3>6 DEF Linked
  <2> QED BY <1>9, <2>1, <2>2, Linking
<1>10. CASE UNCHANGED vars
  BY <1>1, <1>2, <1>10 DEF vars, linking
<1> QED BY <1>3, <1>4, <1>5, <1>6, <1>7, <1>8, <1>9, <1>10 DEF Next

-----------------------------------------------------------------------------
\* From which step to which an action takes its handler.
LEMMA Moves ==
    ASSUME Shape, NEW d \in Deliveries
    PROVE  /\ Receive(d) => /\ handler[d].step = "waiting" /\ Number[d] <= Len(sent)
                            /\ \/ channel = "whatsapp" /\ handler'[d].step = "claim"
                               \/ channel # "whatsapp" /\ handler'[d].step = Opening(Said(d))
           /\ ClaimMessage(d) => /\ handler[d].step = "claim"
                                 /\ \/ Number[d] \in seen /\ handler'[d].step = "dropped"
                                    \/ Number[d] \notin seen /\ handler'[d].step = Opening(Said(d))
           /\ Stop(d) => handler[d].step = "act" /\ handler'[d].step = "stopped" /\ Said(d).what = "stop"
           /\ SaveText(d) => /\ handler[d].step = "act"
                             /\ \/ handler'[d].step = "saved" /\ saved' = saved \union {d}
                                \/ handler'[d].step = "told" /\ saved' = saved
           /\ ReadCode(d) => /\ handler[d].step = "code"
                             /\ \/ handler'[d].step = "take" /\ Said(d).what \in codes
                                \/ handler'[d].step = "told"
           /\ TakeCode(d) => handler[d].step = "take" /\ handler'[d].step \in {"connect", "told"}
           /\ Unlinking(d) => handler[d].step = "connect" /\ handler'[d].step = "insert"
           /\ Die(d) => handler[d].step \notin Over \union {"waiting"} /\ handler'[d].step = "dead"
<1>1. ASSUME NEW s \in Steps, Go(d, s) PROVE handler'[d].step = s
  BY <1>1, Goes
<1>2. Receive(d) => /\ handler[d].step = "waiting" /\ Number[d] <= Len(sent)
                    /\ \/ channel = "whatsapp" /\ handler'[d].step = "claim"
                       \/ channel # "whatsapp" /\ handler'[d].step = Opening(Said(d))
  BY <1>1, OpeningTyped DEF Receive, At, Steps
<1>3. ClaimMessage(d) => /\ handler[d].step = "claim"
                         /\ \/ Number[d] \in seen /\ handler'[d].step = "dropped"
                            \/ Number[d] \notin seen /\ handler'[d].step = Opening(Said(d))
  BY <1>1, OpeningTyped DEF ClaimMessage, At, Steps
<1>4. Unlinking(d) => handler[d].step = "connect" /\ handler'[d].step = "insert"
  <2> SUFFICES ASSUME Unlinking(d) PROVE handler[d].step = "connect" /\ handler'[d].step = "insert"
      OBVIOUS
  <2> DEFINE D == {l.row : l \in {k \in links : Meets(k, Owner[Said(d).what], Said(d).chat)}}
  <2>1. D \in SUBSET Nat /\ "insert" \in Steps
    BY DEF Shape, AllLinks, Steps
  <2>2. handler' = [handler EXCEPT ![d].step = "insert", ![d].doomed = D] /\ handler[d].step = "connect"
    BY DEF Unlinking, At
  <2> HIDE DEF D
  <2> QED BY <2>1, <2>2, GoesWithDoomed
<1>5. Stop(d) => handler[d].step = "act" /\ handler'[d].step = "stopped" /\ Said(d).what = "stop"
  BY <1>1 DEF Stop, At, Steps
<1>6. SaveText(d) => /\ handler[d].step = "act"
                     /\ \/ handler'[d].step = "saved" /\ saved' = saved \union {d}
                        \/ handler'[d].step = "told" /\ saved' = saved
  BY <1>1 DEF SaveText, At, Steps
<1>7. ReadCode(d) => /\ handler[d].step = "code"
                     /\ \/ handler'[d].step = "take" /\ Said(d).what \in codes
                        \/ handler'[d].step = "told"
  BY <1>1 DEF ReadCode, At, Steps
<1>8. TakeCode(d) => handler[d].step = "take" /\ handler'[d].step \in {"connect", "told"}
  BY <1>1 DEF TakeCode, At, Steps
<1>9. Die(d) => handler[d].step \notin Over \union {"waiting"} /\ handler'[d].step = "dead"
  BY <1>1 DEF Die, Steps
<1> QED BY <1>2, <1>3, <1>4, <1>5, <1>6, <1>7, <1>8, <1>9

\* What was sent stays as it is.
LEMMA SentKept ==
    ASSUME Shape, NEW c \in Chats, NEW what \in Codes \union {"text", "stop"}, Write(c, what)
    PROVE  /\ Len(sent') = Len(sent) + 1 /\ sent'[Len(sent) + 1] = [chat |-> c, what |-> what]
           /\ origin'[Len(sent) + 1] = LinkOf(c)
           /\ \A n \in 1..Len(sent) : sent'[n] = sent[n] /\ origin'[n] = origin[n]
           /\ \A n \in 1..Len(sent') : n \in 1..Len(sent) \/ n = Len(sent) + 1
           /\ UNCHANGED <<channel, asked, codes, links, rows, seen, handler, saved, ended>>
BY DEF Write, Shape, linking

\* A code works for the deliveries that found it and for no later one.
LEMMA CodedStep == Shape /\ Coded /\ [Next]_vars => Coded'
<1> SUFFICES ASSUME Shape, Coded, [Next]_vars PROVE Coded'
    OBVIOUS
<1> DEFINE Good(d) ==
      /\ handler[d].step \in {"code", "take", "connect", "insert", "used", "failed"} =>
             Said(d).what \in Codes
      /\ handler[d].step \in {"connect", "insert", "used"} => Said(d).what \notin codes
      /\ handler[d].step = "stopped" => Said(d).what = "stop"
      /\ ended[d] # {} => handler[d].step = "told"
<1>0. \A d \in Deliveries : Good(d)
  BY DEF Coded
<1>1. ASSUME NEW d \in Deliveries, \A e \in Deliveries \ {d} : handler'[e] = handler[e] /\ ended'[e] = ended[e],
             UNCHANGED <<asked, sent>>, codes' \in SUBSET codes, Good(d)'
      PROVE  Coded'
  <2>1. ASSUME NEW e \in Deliveries PROVE Good(e)'
    <3>1. CASE e = d
      BY <1>1, <3>1
    <3>2. CASE e # d
      BY <1>0, <1>1, <3>2 DEF Said
    <3> QED BY <3>1, <3>2
  <2> QED BY <1>1, <2>1 DEF Coded
<1>2. ASSUME NEW d \in Deliveries, \A e \in Deliveries \ {d} : handler'[e] = handler[e],
             UNCHANGED <<asked, sent, ended>>, codes' \in SUBSET codes, handler[d].step # "told",
             handler'[d].step \in {"code", "take", "connect", "insert", "used", "failed"} => Said(d).what \in Codes,
             handler'[d].step \in {"connect", "insert", "used"} => Said(d).what \notin codes',
             handler'[d].step = "stopped" => Said(d).what = "stop"
      PROVE  Coded'
  <2>1. Good(d)'
    BY <1>0, <1>2 DEF Said
  <2>2. \A e \in Deliveries \ {d} : handler'[e] = handler[e] /\ ended'[e] = ended[e]
    BY <1>2
  <2> QED BY <1>1, <1>2, <2>1, <2>2
<1>3. ASSUME NEW k \in Codes, AskForCode(k) PROVE Coded'
  <2>1. UNCHANGED <<codes, sent, handler, ended>>
    BY <1>3 DEF AskForCode, linking
  <2>2. \A j \in Codes : asked[j].step = "given" => asked'[j].step = "given"
    BY <1>3 DEF AskForCode, Shape
  <2> QED BY <2>1, <2>2 DEF Coded, Said
<1>4. ASSUME NEW k \in Codes, GiveCode(k) PROVE Coded'
  <2>1. UNCHANGED <<sent, handler, ended>> /\ codes' \in SUBSET (codes \union {k}) /\ asked[k].step = "writing"
    BY <1>4 DEF GiveCode
  <2>2. \A j \in Codes : asked[j].step = "given" => asked'[j].step = "given"
    BY <1>4 DEF GiveCode, Shape
  <2>3. ASSUME NEW d \in Deliveries, handler[d].step \in {"connect", "insert", "used"}
        PROVE  Said(d).what \notin codes'
    <3>1. Number[d] \in 1..Len(sent) /\ Said(d).what \in Codes
      BY <2>3, SaidTyped DEF Coded
    <3>2. asked[Said(d).what].step = "given"
      BY <3>1 DEF Coded, Said
    <3> QED BY <2>1, <2>3, <3>2 DEF Coded
  <2> QED BY <2>1, <2>2, <2>3 DEF Coded, Said
<1>5. ASSUME NEW u \in Users, Disconnect(u) PROVE Coded'
  BY <1>5 DEF Disconnect, Coded, Said
<1>6. ASSUME NEW c \in Chats, NEW what \in Codes \union {"text", "stop"}, Write(c, what) PROVE Coded'
  <2>1. \A d \in Deliveries : handler[d].step # "waiting" => Said(d)' = Said(d)
    BY <1>6, SentKept, SaidTyped DEF Said
  <2>2. \A d \in Deliveries : Good(d)'
    BY <1>0, <1>6, <2>1, SentKept
  <2>3. what \in Codes => asked[what].step = "given"
    BY <1>6 DEF Write
  <2>4. ASSUME NEW n \in 1..Len(sent'), sent'[n].what \in Codes PROVE asked'[sent'[n].what].step = "given"
    <3>1. CASE n \in 1..Len(sent)
      <4>1. sent'[n] = sent[n] /\ asked' = asked
        BY <1>6, <3>1, SentKept
      <4>2. asked[sent[n].what].step = "given"
        BY <2>4, <3>1, <4>1 DEF Coded
      <4> QED BY <4>1, <4>2
    <3>2. CASE n = Len(sent) + 1
      <4>1. sent'[Len(sent) + 1] = [chat |-> c, what |-> what] /\ asked' = asked
        BY <1>6, SentKept
      <4>2. sent'[n].what = what
        BY <3>2, <4>1
      <4> QED BY <2>3, <2>4, <4>1, <4>2
    <3> QED BY <1>6, <3>1, <3>2, SentKept
  <2> QED BY <2>2, <2>4 DEF Coded
<1>7. ASSUME NEW d \in Deliveries, Receive(d) \/ ClaimMessage(d) PROVE Coded'
  <2>1. handler'[d].step \in {"claim", "dropped", "look"} \/ (handler'[d].step = "code" /\ Said(d).what \in Codes)
    BY <1>7, Moves DEF Opening
  <2>2. handler[d].step # "told" /\ UNCHANGED <<asked, codes, sent, ended>>
    BY <1>7, Moves DEF Receive, ClaimMessage, linking
  <2> QED BY <1>2, <1>7, <2>1, <2>2, Stepping
<1>8. ASSUME NEW d \in Deliveries, LookUp(d) PROVE Coded'
  <2>1. handler[d].step # "told" /\ UNCHANGED <<asked, codes, sent, ended>>
    BY <1>8 DEF LookUp, linking, At
  <2>2. handler'[d].step \in {"told", "claim", "act"}
    BY <1>8, Looking
  <2> QED BY <1>2, <1>8, <2>1, <2>2, Looking
<1>9. ASSUME NEW d \in Deliveries, ClaimUpdate(d) PROVE Coded'
  <2>1. handler[d].step # "told" /\ UNCHANGED <<asked, codes, sent, ended>>
    BY <1>9 DEF ClaimUpdate, At
  <2>2. handler'[d].step \in {"act", "dropped"}
    BY <1>9, Claiming
  <2> QED BY <1>2, <1>9, <2>1, <2>2, Claiming
<1>10. ASSUME NEW d \in Deliveries, Stop(d) \/ SaveText(d) PROVE Coded'
  <2>1. handler[d].step # "told" /\ UNCHANGED <<asked, codes, sent, ended>>
    BY <1>10, Moves DEF Stop, SaveText, linking
  <2>2. handler'[d].step \in {"saved", "told"} \/ (handler'[d].step = "stopped" /\ Said(d).what = "stop")
    BY <1>10, Moves
  <2> QED BY <1>2, <1>10, <2>1, <2>2, Stepping
<1>11. ASSUME NEW d \in Deliveries, ReadCode(d) PROVE Coded'
  <2> DEFINE E == {e \in Deliveries : At(e, "used") /\ Said(e).what = Said(d).what}
  <2>1. UNCHANGED <<asked, codes, sent>> /\ ended' = [ended EXCEPT ![d] = E]
    BY <1>11 DEF ReadCode, linking
  <2>2. ended'[d] = E /\ \A e \in Deliveries \ {d} : ended'[e] = ended[e]
    BY <2>1 DEF Shape
  <2>3. Said(d).what \in codes => E = {}
    BY <1>0 DEF At
  <2>4. Said(d).what \in Codes
    BY <1>0, <1>11, Moves
  <2>5. \/ handler'[d].step = "take" /\ Said(d).what \in codes
        \/ handler'[d].step = "told"
    BY <1>11, Moves
  <2> HIDE DEF E
  <2>6. Good(d)'
    BY <2>1, <2>2, <2>3, <2>4, <2>5 DEF Said
  <2>7. \A e \in Deliveries \ {d} : handler'[e] = handler[e]
    BY <1>11, Stepping
  <2> QED BY <1>1, <2>1, <2>2, <2>6, <2>7
<1>12. ASSUME NEW d \in Deliveries, TakeCode(d) PROVE Coded'
  <2>1. handler[d].step # "told" /\ UNCHANGED <<asked, sent, ended>> /\ codes' = codes \ {Said(d).what}
    BY <1>12, Moves DEF TakeCode, Taken
  <2>2. handler'[d].step \in {"connect", "told"} /\ Said(d).what \in Codes
    BY <1>0, <1>12, Moves
  <2> QED BY <1>2, <1>12, <2>1, <2>2, Stepping
<1>13. ASSUME NEW d \in Deliveries, Unlinking(d) \/ Link(d) PROVE Coded'
  <2>1. UNCHANGED <<asked, codes, sent, ended>> /\ handler[d].step \in {"connect", "insert"}
    BY <1>13 DEF Unlinking, Link, linking, At
  <2>2. handler'[d].step \in {"insert", "used", "failed"}
    BY <1>13, Moves, Linking
  <2>3. Said(d).what \in Codes /\ Said(d).what \notin codes
    BY <1>0, <2>1
  <2> QED BY <1>2, <1>13, <2>1, <2>2, <2>3, Stepping
<1>14. ASSUME NEW d \in Deliveries, Die(d) PROVE Coded'
  <2>1. handler[d].step # "told" /\ UNCHANGED <<asked, codes, sent, ended>> /\ handler'[d].step = "dead"
    BY <1>14, Moves DEF Die, linking, Over
  <2> QED BY <1>2, <1>14, <2>1, Stepping
<1>15. CASE UNCHANGED vars
  BY <1>15 DEF vars, linking, Coded, Said
<1> QED BY <1>3, <1>4, <1>5, <1>6, <1>7, <1>8, <1>9, <1>10, <1>11, <1>12, <1>13, <1>14, <1>15 DEF Next

-----------------------------------------------------------------------------
\* The delivery steps but for the three that claim or link.
Plain(d) == \/ Receive(d) \/ LookUp(d) \/ Stop(d) \/ SaveText(d) \/ ReadCode(d) \/ TakeCode(d)
            \/ Unlinking(d) \/ Die(d)

\* What such a step does to the rest of the state and to where its handler is.
LEMMA PlainSteps ==
    ASSUME Shape, NEW d \in Deliveries, Plain(d)
    PROVE  /\ UNCHANGED <<channel, rows, sent, seen, origin>> /\ links' \in SUBSET links
           /\ \A e \in Deliveries \ {d} : handler'[e] = handler[e]
           /\ handler[d].step # "saved"
           /\ saved' = saved \/ (saved' = saved \union {d} /\ handler'[d].step = "saved")
           /\ channel = "whatsapp" /\ Claimed(d)' => Claimed(d)
           /\ channel = "telegram" /\ Acted(d)' => Acted(d) /\ handler'[d].row = handler[d].row
           /\ handler[d].step \in {"waiting", "claim", "dropped"} \/
                  handler'[d].step \notin {"waiting", "claim", "dropped"} \/ channel = "telegram"
           /\ Handled(d) => Handled(d)'
           /\ handler'[d].step # "dropped"
<1>1. /\ UNCHANGED <<channel, rows, sent, seen, origin>> /\ links' \in SUBSET links
  BY DEF Plain, Receive, LookUp, Stop, SaveText, ReadCode, TakeCode, Unlinking, Die, Unlink, linking
<1>2. CASE LookUp(d)
  <2>1. handler[d].step = "look" /\ saved' = saved
    BY <1>2 DEF LookUp, At
  <2>2. handler'[d].step \in {"told", "claim", "act"} /\ (channel = "telegram" => handler'[d].step # "act")
        /\ (channel = "whatsapp" => handler'[d].step # "claim")
        /\ \A e \in Deliveries \ {d} : handler'[e] = handler[e]
    BY <1>2, Looking
  <2> QED BY <1>1, <2>1, <2>2 DEF Claimed, Acted, Handled, Shape
<1>3. CASE Receive(d)
  <2>1. saved' = saved /\ handler[d].step = "waiting"
    BY <1>3 DEF Receive, At
  <2>2. handler'[d].step \in {"claim", "code", "look"} /\ (channel = "whatsapp" => handler'[d].step = "claim")
    BY <1>3, Moves DEF Opening
  <2> QED BY <1>1, <1>3, <2>1, <2>2, Stepping DEF Claimed, Acted, Handled
<1>4. CASE Stop(d) \/ SaveText(d)
  <2>1. /\ handler[d].step = "act" /\ handler'[d].step \in {"stopped", "saved", "told"}
        /\ saved' = saved \/ (saved' = saved \union {d} /\ handler'[d].step = "saved")
    BY <1>4, Moves DEF Stop
  <2> QED BY <1>1, <1>4, <2>1, Stepping DEF Claimed, Acted, Handled
<1>5. CASE ReadCode(d) \/ TakeCode(d) \/ Unlinking(d)
  <2>1. /\ handler[d].step \in {"code", "take", "connect"} /\ saved' = saved
        /\ handler'[d].step \in {"take", "told", "connect", "insert"}
    BY <1>5, Moves DEF ReadCode, TakeCode, Unlinking
  <2> QED BY <1>1, <1>5, <2>1, Stepping DEF Claimed, Acted, Handled
<1>6. CASE Die(d)
  <2>1. handler[d].step \notin Over \union {"waiting"} /\ handler'[d].step = "dead" /\ saved' = saved
    BY <1>6, Moves DEF Die
  <2> QED BY <1>1, <1>6, <2>1, Stepping DEF Claimed, Acted, Handled, Over
<1> QED BY <1>2, <1>3, <1>4, <1>5, <1>6 DEF Plain

\* No message passes its claim twice.
LEMMA KeptStep == Shape /\ Linked /\ Coded /\ Kept /\ [Next]_vars => Kept'
<1> SUFFICES ASSUME Shape, Linked, Coded, Kept, [Next]_vars PROVE Kept'
    OBVIOUS
<1>1. ASSUME UNCHANGED <<channel, seen, handler, saved>>, links' \in SUBSET links PROVE Kept'
  BY <1>1 DEF Kept, Claimed, Acted
<1>2. ASSUME NEW k \in Codes, AskForCode(k) \/ GiveCode(k) PROVE Kept'
  BY <1>1, <1>2 DEF AskForCode, GiveCode, linking
<1>3. ASSUME NEW u \in Users, Disconnect(u) PROVE Kept'
  BY <1>1, <1>3 DEF Disconnect, Unlink
<1>4. ASSUME NEW c \in Chats, NEW what \in Codes \union {"text", "stop"}, Write(c, what) PROVE Kept'
  BY <1>1, <1>4 DEF Write, linking
<1>5. ASSUME NEW d \in Deliveries, Plain(d) PROVE Kept'
  <2>1. \A e \in saved' : handler'[e].step = "saved"
    BY <1>5, PlainSteps DEF Kept, Shape
  <2>2. CASE channel = "whatsapp"
    <3>1. \A e \in Deliveries : Claimed(e)' => Claimed(e)
      BY <1>5, <2>2, PlainSteps DEF Claimed
    <3>2. UNCHANGED <<channel, seen>>
      BY <1>5, PlainSteps
    <3> QED BY <2>1, <2>2, <3>1, <3>2 DEF Kept
  <2>3. CASE channel = "telegram"
    <3>1. \A e \in Deliveries : Acted(e)' => Acted(e) /\ handler'[e].row = handler[e].row
      BY <1>5, <2>3, PlainSteps DEF Acted
    <3>2. UNCHANGED channel /\ links' \in SUBSET links
      BY <1>5, PlainSteps
    <3> QED BY <2>1, <2>3, <3>1, <3>2 DEF Kept
  <2> QED BY <2>2, <2>3 DEF Shape
<1>6. ASSUME NEW d \in Deliveries, ClaimMessage(d) PROVE Kept'
  <2>0. /\ channel = "whatsapp" /\ channel' = channel /\ saved' = saved /\ seen' = seen \union {Number[d]}
        /\ handler[d].step = "claim" /\ \A e \in Deliveries \ {d} : handler'[e] = handler[e]
    BY <1>6, Moves, Stepping DEF ClaimMessage
  <2>1. \A e \in saved' : handler'[e].step = "saved"
    BY <2>0 DEF Kept, Shape
  <2>2. \A e \in Deliveries \ {d} : Claimed(e)' => Claimed(e) /\ Number[e] \in seen
    BY <2>0 DEF Claimed, Kept
  <2>3. Claimed(d)' => Number[d] \notin seen
    BY <1>6, Moves DEF Claimed
  <2>4. \A e, f \in Deliveries : Claimed(e)' /\ Claimed(f)' /\ Number[e] = Number[f] => e = f
    BY <2>0, <2>2, <2>3 DEF Kept
  <2>5. \A e \in Deliveries : Claimed(e)' => Number[e] \in seen'
    BY <2>0, <2>2
  <2> QED BY <2>0, <2>1, <2>4, <2>5 DEF Kept
<1>7. ASSUME NEW d \in Deliveries, ClaimUpdate(d) PROVE Kept'
  <2>0. /\ channel = "telegram" /\ channel' = channel /\ saved' = saved
        /\ handler[d].step = "claim" /\ \A e \in Deliveries \ {d} : handler'[e] = handler[e]
    BY <1>7, Claiming DEF ClaimUpdate, At
  <2>1. \A e \in saved' : handler'[e].step = "saved"
    BY <2>0 DEF Kept, Shape
  <2>2. CASE links' = links /\ handler'[d].step = "dropped"
    <3>1. \A e \in Deliveries : Acted(e)' => Acted(e) /\ handler'[e] = handler[e]
      BY <2>0, <2>2 DEF Acted
    <3> QED BY <2>0, <2>1, <2>2, <3>1 DEF Kept
  <2>3. ASSUME NEW l \in links, IsNewer(l, Number[d]), links' = (links \ {l}) \union {[l EXCEPT !.last = Number[d]]},
               handler'[d].step = "act", handler'[d].row = l.row
        PROVE  Kept'
    <3> DEFINE k == [l EXCEPT !.last = Number[d]]
    <3>1. k.row = l.row /\ k.last = Number[d] /\ l.last < Number[d] /\ l.last \in Nat
      BY <2>3 DEF Shape, AllLinks, IsNewer
    <3>2. \A j \in links \ {l} : j.row # l.row
      BY DEF Linked
    <3>3. \A e \in Deliveries : Number[e] \in Nat
      BY ChannelLinksAssumption
    <3>4. \A e \in Deliveries \ {d} : Acted(e)' => Acted(e) /\ handler'[e].row = handler[e].row
      BY <2>0 DEF Acted
    <3>5. links' = (links \ {l}) \union {k}
      BY <2>3
    <3> HIDE DEF k
    <3>6. \A e \in Deliveries \ {d} : Acted(e)' /\ handler'[e].row = l.row => Number[e] < Number[d]
      BY <2>0, <3>1, <3>3, <3>4 DEF Kept
    <3>7. ASSUME NEW e \in Deliveries, NEW j \in links', Acted(e)', j.row = handler'[e].row
          PROVE  Number[e] <= j.last
      <4>1. CASE e = d
        BY <2>3, <3>1, <3>2, <3>3, <3>5, <3>7, <4>1
      <4>2. CASE e # d /\ j = k
        <5>1. handler'[e].row = l.row
          BY <3>1, <3>7, <4>2
        <5> QED BY <3>1, <3>3, <3>6, <3>7, <4>2, <5>1
      <4>3. CASE e # d /\ j \in links
        BY <2>0, <3>4, <3>7, <4>3 DEF Kept
      <4> QED BY <3>5, <4>1, <4>2, <4>3
    <3>8. ASSUME NEW e \in Deliveries, NEW f \in Deliveries, Acted(e)', Acted(f)', Number[e] = Number[f],
                 handler'[e].row = handler'[f].row
          PROVE  e = f
      <4>1. CASE e = d \/ f = d
        BY <2>3, <3>3, <3>6, <3>8, <4>1
      <4>2. CASE e # d /\ f # d
        BY <2>0, <3>4, <3>8, <4>2 DEF Kept
      <4> QED BY <4>1, <4>2
    <3> QED BY <2>0, <2>1, <3>7, <3>8 DEF Kept
  <2> QED BY <1>7, <2>2, <2>3, Claiming
<1>8. ASSUME NEW d \in Deliveries, Link(d) PROVE Kept'
  <2>0. /\ channel' = channel /\ seen' = seen /\ saved' = saved
        /\ handler[d].step = "insert" /\ handler'[d].step \in {"used", "failed"}
        /\ \A e \in Deliveries : handler'[e].row = handler[e].row
        /\ \A e \in Deliveries \ {d} : handler'[e] = handler[e]
    BY <1>8, Linking, Stepping DEF Link, At
  <2>1. \A e \in saved' : handler'[e].step = "saved"
    BY <2>0 DEF Kept, Shape
  <2>2. \A e \in Deliveries : (Claimed(e)' => Claimed(e)) /\ (Acted(e)' => Acted(e))
    BY <2>0 DEF Claimed, Acted
  <2>3. \A l \in links' : l \in links \/ l.row = rows + 1
    BY <1>8, Linking
  <2>4. \A e \in Deliveries : handler'[e].row # rows + 1
    BY <2>0 DEF Linked, Shape, Handlers
  <2>5. \A e \in Deliveries : \A l \in links' : l.row = handler'[e].row => l \in links
    BY <2>3, <2>4
  <2> QED BY <2>0, <2>1, <2>2, <2>5 DEF Kept
<1>9. CASE UNCHANGED vars
  BY <1>1, <1>9 DEF vars, linking
<1> QED BY <1>2, <1>3, <1>4, <1>5, <1>6, <1>7, <1>8, <1>9 DEF Next, Plain

-----------------------------------------------------------------------------
\* What is dropped was claimed by another delivery or is behind its link.
LEMMA DroppedStep == Shape /\ Linked /\ Coded /\ Dropped /\ [Next]_vars => Dropped'
<1> SUFFICES ASSUME Shape, Linked, Coded, Dropped, [Next]_vars PROVE Dropped'
    OBVIOUS
<1> DEFINE Past(d) == handler[d].step \notin {"waiting", "claim", "dropped"}
           Behind(d, l) == l.row = origin[Number[d]].row => Number[d] <= l.last
<1>0. \A d \in Deliveries : handler[d].step # "waiting" => Number[d] \in 1..Len(sent)
  BY SaidTyped
<1>1. ASSUME UNCHANGED <<channel, seen, origin>>, links' \in SUBSET links,
             channel = "whatsapp" => \A d \in Deliveries : Past(d) => Past(d)',
             \A d \in Deliveries : Handled(d) => Handled(d)',
             \A d \in Deliveries : handler'[d].step = "dropped" => handler[d].step = "dropped"
      PROVE  Dropped'
  BY <1>1 DEF Dropped
<1>2. ASSUME UNCHANGED <<channel, seen, origin, handler>>, links' \in SUBSET links PROVE Dropped'
  BY <1>1, <1>2 DEF Handled
<1>3. ASSUME NEW k \in Codes, AskForCode(k) \/ GiveCode(k) PROVE Dropped'
  BY <1>2, <1>3 DEF AskForCode, GiveCode, linking
<1>4. ASSUME NEW u \in Users, Disconnect(u) PROVE Dropped'
  BY <1>2, <1>4 DEF Disconnect, Unlink
<1>5. ASSUME NEW c \in Chats, NEW what \in Codes \union {"text", "stop"}, Write(c, what) PROVE Dropped'
  <2>1. UNCHANGED <<channel, seen, links, handler>>
    BY <1>5 DEF Write, linking
  <2>2. \A d \in Deliveries : handler[d].step = "dropped" => origin'[Number[d]] = origin[Number[d]]
    BY <1>0, <1>5, SentKept
  <2> QED BY <2>1, <2>2 DEF Dropped, Handled
<1>6. ASSUME NEW d \in Deliveries, Plain(d) PROVE Dropped'
  <2>1. /\ channel = "whatsapp" => (Past(d) => Past(d)')
        /\ Handled(d) => Handled(d)'
        /\ handler'[d].step # "dropped"
    BY <1>6, PlainSteps DEF Shape
  <2>2. /\ \A e \in Deliveries \ {d} : handler'[e] = handler[e]
        /\ UNCHANGED <<channel, seen, origin>> /\ links' \in SUBSET links
    BY <1>6, PlainSteps
  <2> QED BY <1>1, <2>1, <2>2 DEF Handled
<1>7. ASSUME NEW d \in Deliveries, ClaimMessage(d) PROVE Dropped'
  <2>0. /\ channel = "whatsapp" /\ UNCHANGED <<channel, links, origin>> /\ seen' = seen \union {Number[d]}
        /\ handler[d].step = "claim" /\ \A e \in Deliveries \ {d} : handler'[e] = handler[e]
    BY <1>7, Moves, Stepping DEF ClaimMessage, linking
  <2>1. \/ Number[d] \in seen /\ handler'[d].step = "dropped"
        \/ Number[d] \notin seen /\ handler'[d].step \in {"code", "look"}
    BY <1>7, Moves DEF Opening
  <2>2. \A e \in Deliveries : Past(e) \/ Handled(e) => e # d
    BY <2>0 DEF Handled
  <2>3. \A n \in seen' : \E e \in Deliveries : Number[e] = n /\ Past(e)'
    <3> TAKE n \in seen'
    <3>1. CASE n \in seen
      BY <2>0, <2>2, <3>1 DEF Dropped
    <3>2. CASE n \notin seen
      BY <2>0, <2>1, <3>2
    <3> QED BY <3>1, <3>2
  <2>4. \A l \in links' : l.last # 0 => \E e \in Deliveries : Number[e] = l.last /\ Handled(e)'
    BY <2>0, <2>2 DEF Dropped, Handled
  <2>5. \A e \in Deliveries : handler'[e].step = "dropped" => Number[e] \in seen'
    BY <2>0, <2>1 DEF Dropped
  <2> QED BY <2>0, <2>3, <2>4, <2>5 DEF Dropped
<1>8. ASSUME NEW d \in Deliveries, ClaimUpdate(d) PROVE Dropped'
  <2>0. /\ channel = "telegram" /\ UNCHANGED <<channel, seen, origin>> /\ handler[d].step = "claim"
        /\ \A e \in Deliveries \ {d} : handler'[e] = handler[e]
    BY <1>8, Claiming DEF ClaimUpdate, At
  <2>1. ASSUME links' = links, handler'[d].step = "dropped",
               \A l \in links : l = LinkOf(Said(d).chat) => ~IsNewer(l, Number[d])
        PROVE  Dropped'
    <3>1. \A l \in links : Behind(d, l)
      <4> SUFFICES ASSUME NEW l \in links, l.row = origin[Number[d]].row PROVE Number[d] <= l.last
          OBVIOUS
      <4>1. Number[d] \in 1..Len(sent)
        BY <1>0, <2>0
      <4>2. l.chat = Said(d).chat
        BY <4>1 DEF Linked, Said
      <4>3. ~IsNewer(l, Number[d])
        BY <2>1, <4>2, LinkFound
      <4>4. l.last \in Nat /\ Number[d] \in Nat
        BY <4>1 DEF Shape, AllLinks
      <4> QED BY <4>3, <4>4 DEF IsNewer
    <3>2. \A e \in Deliveries : Handled(e) => Handled(e)'
      BY <2>0 DEF Handled
    <3>3. \A e \in Deliveries : handler'[e].step = "dropped" => \A l \in links : Behind(e, l)
      BY <2>0, <3>1 DEF Dropped
    <3> QED BY <2>0, <2>1, <3>2, <3>3 DEF Dropped
  <2>2. ASSUME NEW l \in links, IsNewer(l, Number[d]), links' = (links \ {l}) \union {[l EXCEPT !.last = Number[d]]},
               handler'[d].step = "act"
        PROVE  Dropped'
    <3> DEFINE k == [l EXCEPT !.last = Number[d]]
    <3>1. k.row = l.row /\ k.last = Number[d] /\ l.last < Number[d] /\ l.last \in Nat /\ Number[d] \in Nat
      BY <2>2, ChannelLinksAssumption DEF Shape, AllLinks, IsNewer
    <3>2. links' = (links \ {l}) \union {k}
      BY <2>2
    <3> HIDE DEF k
    <3>3. \A e \in Deliveries : Handled(e) => Handled(e)'
      BY <2>0 DEF Handled
    <3>4. Handled(d)'
      BY <2>2 DEF Handled
    <3>5. \A j \in links' : j.last # 0 => \E e \in Deliveries : Number[e] = j.last /\ Handled(e)'
      BY <3>1, <3>2, <3>3, <3>4 DEF Dropped
    <3>6. ASSUME NEW e \in Deliveries, NEW j \in links', handler'[e].step = "dropped", j.row = origin[Number[e]].row
          PROVE  Number[e] <= j.last
      <4>1. handler[e].step = "dropped" /\ Number[e] \in Nat
        BY <2>0, <2>2, <3>6, ChannelLinksAssumption
      <4>2. CASE j \in links
        BY <2>0, <3>6, <4>1, <4>2 DEF Dropped
      <4>3. CASE j = k
        <5>1. Number[e] <= l.last
          BY <2>0, <3>1, <3>6, <4>1, <4>3 DEF Dropped
        <5> QED BY <3>1, <4>1, <4>3, <5>1
      <4> QED BY <3>2, <4>2, <4>3
    <3> QED BY <2>0, <3>5, <3>6 DEF Dropped
  <2> QED BY <1>8, <2>1, <2>2, Claiming
<1>9. ASSUME NEW d \in Deliveries, Link(d) PROVE Dropped'
  <2>0. /\ UNCHANGED <<channel, seen, origin>>
        /\ handler[d].step = "insert" /\ handler'[d].step \in {"used", "failed"}
        /\ \A e \in Deliveries \ {d} : handler'[e] = handler[e]
    BY <1>9, Linking DEF Link, At
  <2>1. \A l \in links' : l \in links \/ (l.row = rows + 1 /\ l.last = 0)
    BY <1>9, Linking
  <2>2. \A e \in Deliveries : (Handled(e) => Handled(e)') /\ (Past(e) => Past(e)')
    BY <2>0 DEF Handled
  <2>3. \A e \in Deliveries : handler'[e].step = "dropped" => handler[e].step = "dropped"
    BY <2>0
  <2>4. ASSUME NEW e \in Deliveries, handler[e].step = "dropped" PROVE origin[Number[e]].row # rows + 1
    <3>1. Number[e] \in 1..Len(sent)
      BY <1>0, <2>4
    <3>2. origin[Number[e]] \in AllLinks \union {NoLink} /\ origin[Number[e]].row <= rows
      BY <3>1 DEF Shape, Linked
    <3> QED BY <3>2 DEF Shape, AllLinks, NoLink
  <2> QED BY <2>0, <2>1, <2>2, <2>3, <2>4 DEF Dropped
<1>10. CASE UNCHANGED vars
  BY <1>2, <1>10 DEF vars, linking
<1> QED BY <1>3, <1>4, <1>5, <1>6, <1>7, <1>8, <1>9, <1>10 DEF Next, Plain

-----------------------------------------------------------------------------
\* The inductive invariant: types, links, codes, and who passed a claim.
THEOREM LinksInvariant == Spec => []LinkInv
<1>1. Init => LinkInv
  <2> SUFFICES ASSUME Init PROVE LinkInv
      OBVIOUS
  <2>1. sent = <<>> /\ origin = <<>> /\ Len(sent) = 0 /\ Len(origin) = 0 /\ 1..Len(sent) = {}
    BY DEF Init
  <2>2. \A d \in Deliveries : handler[d].step = "waiting" /\ handler[d].row = 0 /\ ended[d] = {}
    BY DEF Init
  <2>3. Shape
    BY <2>1 DEF Init, Shape, Handlers, Steps
  <2>4. Linked /\ Coded /\ Kept /\ Dropped
    BY <2>1, <2>2 DEF Init, Linked, Coded, Kept, Claimed, Acted, Dropped, Handled
  <2> QED BY <2>3, <2>4 DEF LinkInv
<1>2. LinkInv /\ [Next]_vars => LinkInv'
  BY ShapeStep, LinkedStep, CodedStep, KeptStep, DroppedStep DEF LinkInv
<1> QED BY <1>1, <1>2, PTL DEF Spec

\* The rows of the two tables keep their types, and ux_channel_links_chat and the
\* primary key are never violated: an account has one chat, a chat one account.
THEOREM TypeCorrect == Spec => []TypeOK
<1>1. LinkInv => TypeOK
  BY DEF LinkInv, Shape, Linked, TypeOK, AllLinks, Handlers
<1> QED BY <1>1, LinksInvariant, PTL

\* claim_channel_message and claim_channel_update let a message through once, for
\* any number of deliveries, and chats, but when a Telegram link is made anew.
THEOREM MessagesAreSavedOnce == Spec => []SavedOnce
<1>1. LinkInv => SavedOnce
  <2> SUFFICES ASSUME LinkInv, NEW d \in saved, NEW e \in saved, d # e, Number[d] = Number[e]
               PROVE  channel = "telegram" /\ handler[d].row # handler[e].row
      BY DEF SavedOnce
  <2>1. /\ d \in Deliveries /\ e \in Deliveries /\ handler[d].step = "saved" /\ handler[e].step = "saved"
        /\ channel \in {"telegram", "whatsapp"}
    BY DEF LinkInv, Shape, Kept
  <2> QED BY <2>1 DEF LinkInv, Kept, Claimed, Acted
<1> QED BY <1>1, LinksInvariant, PTL

\* consume_channel_link_code: who reads a code after it was used is told that it
\* does not work, however many read it before and whatever is asked for since.
THEOREM CodesEndWithTheirUse == Spec => []CodeEndsWithItsUse
<1>1. LinkInv => CodeEndsWithItsUse
  BY DEF LinkInv, Coded, CodeEndsWithItsUse
<1> QED BY <1>1, LinksInvariant, PTL

\* The webhook loses no text of a linked chat without a word but where a crash
\* or, on Telegram, a newer message came first.
THEOREM TextsAreNotLost == Spec => []LostOnlyOnTheWay
<1>1. LinkInv => LostOnlyOnTheWay
  <2> SUFFICES ASSUME LinkInv, NEW n \in 1..Len(sent), sent[n].what = "text", origin[n] # NoLink,
                      LinkOf(sent[n].chat).row = origin[n].row,
                      \A d \in Deliveries : Number[d] = n => handler[d].step \in Over
               PROVE  \/ \E d \in Deliveries : Number[d] = n /\ handler[d].step \in {"saved", "told", "dead"}
                      \/ channel = "telegram" /\ LinkOf(sent[n].chat).last > n
      BY DEF LostOnlyOnTheWay
  <2> DEFINE l == LinkOf(sent[n].chat)
  <2>0. Shape /\ Linked /\ Coded /\ Kept /\ Dropped
    BY DEF LinkInv
  <2>1. \A d \in Deliveries : Number[d] = n => handler[d].step \notin {"used", "failed", "stopped"}
    BY <2>0, ChannelLinksAssumption DEF Coded, Said
  <2>2. SUFFICES ASSUME \A d \in Deliveries : Number[d] = n => handler[d].step = "dropped"
                 PROVE  channel = "telegram" /\ l.last > n
    BY <2>1 DEF Over
  <2>3. PICK d \in Deliveries : Number[d] = n
    BY <2>0 DEF Shape
  <2>4. channel = "telegram"
    BY <2>0, <2>2, <2>3 DEF Shape, Dropped
  <2>5. l \in links
    <3>1. origin[n].row # 0
      BY <2>0 DEF Linked
    <3> QED BY <2>0, <3>1, LinkFound DEF NoLink
  <2>6. n <= l.last
    BY <2>0, <2>2, <2>3, <2>4, <2>5 DEF Dropped
  <2>7. l.last # n
    <3> SUFFICES ASSUME l.last = n PROVE FALSE
        OBVIOUS
    <3>1. PICK e \in Deliveries : Number[e] = n /\ Handled(e)
      <4>1. l.last # 0
        OBVIOUS
      <4> QED BY <2>0, <2>5, <4>1 DEF Dropped
    <3> QED BY <2>2, <3>1 DEF Handled
  <2>8. l.last \in Nat
    BY <2>0, <2>5 DEF Shape, AllLinks
  <2> QED BY <2>0, <2>4, <2>6, <2>7, <2>8 DEF Shape
<1> QED BY <1>1, LinksInvariant, PTL
=============================================================================
