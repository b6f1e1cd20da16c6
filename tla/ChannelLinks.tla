---------------------------- MODULE ChannelLinks ----------------------------
(***************************************************************************)
(* Connecting a Telegram or WhatsApp chat to an account, and what the      *)
(* webhook does with a message before Omi answers it.                      *)
(*                                                                         *)
(*   src/src/storage/channel_links.py    codes, links, newest update       *)
(*   src/src/storage/channel_bursts.py   deliveries seen (WhatsApp)        *)
(*   src/src/api/routes/telegram.py, whatsapp.py   the webhooks            *)
(*                                                                         *)
(* The app may deliver a message more than once, to any instance, and in   *)
(* any order; a handler may die at any step.  Each database transaction is *)
(* a step, and two where it reads before it writes.  The two channels keep *)
(* separate rows and never meet, so a behaviour is about one of them.      *)
(* unlink_channel's read and delete are one step: what is deleted is       *)
(* decided by the delete alone.  From a saved message on, it is ReplyBurst. *)
(***************************************************************************)
EXTENDS Integers, Sequences, FiniteSets

CONSTANTS
    Users,      \* accounts
    Chats,      \* chats of the messaging app
    Codes,      \* link codes, each given out at most once
    Owner,      \* Owner[k]: the account code k is for
    Deliveries, \* webhook deliveries
    Number,     \* Number[d]: the message d delivers, by the order of sending
    None

ASSUME ChannelLinksAssumption ==
    /\ Owner \in [Codes -> Users] /\ Number \in [Deliveries -> Nat \ {0}]
    /\ None \notin Users \union Chats \union Codes /\ {"text", "stop"} \intersect Codes = {}

VARIABLES
    channel,  \* "telegram" or "whatsapp"
    asked,    \* asked[k]: the request that creates code k
    codes,    \* the rows of channel_link_codes
    links,    \* the rows of channel_links
    rows,     \* how many link rows there have been (a new row has no update)
    sent,     \* the messages users have sent, in order
    seen,     \* channel_seen_messages (WhatsApp)
    handler,  \* handler[d]: where the handling of delivery d is
    saved,    \* the deliveries whose message was saved
    \* history, read by the properties only
    ended,    \* ended[d]: the deliveries done with d's code when d read it
    origin    \* origin[n]: the link of its chat when message n was sent

linking == <<codes, links, rows>>
vars == <<channel, asked, linking, sent, seen, handler, saved, ended, origin>>

-----------------------------------------------------------------------------
Steps == {"waiting", "claim", "code", "take", "connect", "insert", "look", "act",
          "used", "saved", "stopped", "told", "dropped", "failed", "dead"}

Over == {"used", "saved", "stopped", "told", "dropped", "failed", "dead"}

NoLink == [user |-> None, chat |-> None, last |-> 0, row |-> 0]

TypeOK ==
    /\ channel \in {"telegram", "whatsapp"}
    /\ codes \subseteq Codes
    /\ \A l \in links : l.user \in Users /\ l.chat \in Chats /\ l.row \in 1..rows
    \* ux_channel_links_chat and the primary key
    /\ \A l, k \in links : l.user = k.user \/ l.chat = k.chat => l = k
    /\ \A d \in Deliveries : /\ handler[d].step \in Steps
                             /\ handler[d].user \in Users \union {None}
                             /\ handler[d].step # "waiting" => Number[d] <= Len(sent)
    /\ saved \subseteq Deliveries /\ seen \subseteq 1..Len(sent)

Init ==
    /\ channel \in {"telegram", "whatsapp"}
    /\ asked = [k \in Codes |-> [step |-> "new", doomed |-> {}]]
    /\ codes = {} /\ links = {} /\ rows = 0 /\ sent = <<>> /\ seen = {}
    /\ handler = [d \in Deliveries |->
                    [step |-> "waiting", user |-> None, row |-> 0, doomed |-> {}]]
    /\ saved = {} /\ ended = [d \in Deliveries |-> {}] /\ origin = <<>>

-----------------------------------------------------------------------------
(* The account's side.                                                     *)

\* create_channel_link_code: the user's earlier codes go ...
AskForCode(k) ==
    /\ asked[k].step = "new"
    /\ asked' = [asked EXCEPT ![k] = [step |-> "writing",
                                      doomed |-> {j \in codes : Owner[j] = Owner[k]}]]
    /\ UNCHANGED <<channel, linking, sent, seen, handler, saved, ended, origin>>

\* ... and the new one is inserted, in the same transaction.
GiveCode(k) ==
    /\ asked[k].step = "writing"
    /\ codes' = (codes \ asked[k].doomed) \union {k}
    /\ asked' = [asked EXCEPT ![k] = [step |-> "given", doomed |-> {}]]
    /\ UNCHANGED <<channel, links, rows, sent, seen, handler, saved, ended, origin>>

LinkOf(c) == IF \E l \in links : l.chat = c THEN CHOOSE l \in links : l.chat = c ELSE NoLink

\* unlink_channel
Unlink(u) == links' = {l \in links : l.user # u}

\* DELETE /api/channels/...
Disconnect(u) ==
    /\ \E l \in links : l.user = u
    /\ Unlink(u)
    /\ UNCHANGED <<channel, asked, codes, rows, sent, seen, handler, saved, ended, origin>>

\* A user writes in the app: a code that was given, a text, or a stop word.
Write(c, what) ==
    /\ \E d \in Deliveries : Number[d] = Len(sent) + 1
    /\ what \in Codes => asked[what].step = "given"
    /\ sent' = Append(sent, [chat |-> c, what |-> what])
    /\ origin' = Append(origin, LinkOf(c))
    /\ UNCHANGED <<channel, asked, linking, seen, handler, saved, ended>>

-----------------------------------------------------------------------------
(* The webhook.                                                            *)

Said(d) == sent[Number[d]]

At(d, step) == handler[d].step = step
Go(d, step) == handler' = [handler EXCEPT ![d].step = step]

\* The step that begins the handling of message m, once it is not a repeat.
Opening(m) == IF m.what \in Codes THEN "code" ELSE "look"

\* The app delivers a message: WhatsApp's is claimed first of all.
Receive(d) ==
    /\ At(d, "waiting") /\ Number[d] <= Len(sent)
    /\ Go(d, IF channel = "whatsapp" THEN "claim" ELSE Opening(Said(d)))
    /\ UNCHANGED <<channel, asked, linking, sent, seen, saved, ended, origin>>

\* claim_channel_message, then the 200 and the rest in the background.
ClaimMessage(d) ==
    /\ channel = "whatsapp" /\ At(d, "claim")
    /\ seen' = seen \union {Number[d]}
    /\ Go(d, IF Number[d] \in seen THEN "dropped" ELSE Opening(Said(d)))
    /\ UNCHANGED <<channel, asked, linking, sent, saved, ended, origin>>

\* channel_link_for_chat
LookUp(d) ==
    /\ At(d, "look")
    /\ LET l == LinkOf(Said(d).chat) IN
       handler' = [handler EXCEPT
           ![d].step = IF l = NoLink THEN "told" ELSE IF channel = "telegram" THEN "claim" ELSE "act",
           ![d].user = l.user, ![d].row = l.row]
    /\ UNCHANGED <<channel, asked, linking, sent, seen, saved, ended, origin>>

\* Mutant of IsNewer: a repeat of the newest update passes.
IsNoOlder(l, n) == l.last <= n

\* Mutant of IsNewer: two updates ahead of the last one handled.
IsMuchNewer(l, n) == l.last + 1 < n

\* last_update_id < update_id, or none yet (0).
IsNewer(l, n) == l.last < n

\* claim_channel_update: on the chat's row as it is now.
ClaimUpdate(d) ==
    /\ channel = "telegram" /\ At(d, "claim")
    /\ LET l == LinkOf(Said(d).chat) IN
       IF l # NoLink /\ IsNewer(l, Number[d])
       THEN /\ links' = (links \ {l}) \union {[l EXCEPT !.last = Number[d]]}
            /\ handler' = [handler EXCEPT ![d].step = "act", ![d].row = l.row]
       ELSE Go(d, "dropped") /\ UNCHANGED links
    /\ UNCHANGED <<channel, asked, codes, rows, sent, seen, saved, ended, origin>>

\* A stop word disconnects the account looked up.
Stop(d) ==
    /\ At(d, "act") /\ Said(d).what = "stop"
    /\ Unlink(handler[d].user)
    /\ Go(d, "stopped")
    /\ UNCHANGED <<channel, asked, codes, rows, sent, seen, saved, ended, origin>>

\* handle_channel_message: saved for the account looked up, or the user is told.
SaveText(d) ==
    /\ At(d, "act") /\ Said(d).what = "text"
    /\ \/ saved' = saved \union {d} /\ Go(d, "saved")
       \/ Go(d, "told") /\ UNCHANGED saved
    /\ UNCHANGED <<channel, asked, linking, sent, seen, ended, origin>>

\* consume_channel_link_code: the row is read ...
ReadCode(d) ==
    /\ At(d, "code")
    /\ Go(d, IF Said(d).what \in codes THEN "take" ELSE "told")
    /\ ended' = [ended EXCEPT ![d] = {e \in Deliveries : At(e, "used") /\ Said(e).what = Said(d).what}]
    /\ UNCHANGED <<channel, asked, linking, sent, seen, saved, origin>>

\* Mutant of Taken: the row stays.
NotTaken(k) == codes

\* The rows left once code k is taken.
Taken(k) == codes \ {k}

\* ... and deleted, however many rows that is.  Then its time is checked: it may
\* be past its fifteen minutes.
TakeCode(d) ==
    /\ At(d, "take")
    /\ codes' = Taken(Said(d).what)
    /\ Go(d, "connect") \/ Go(d, "told")
    /\ UNCHANGED <<channel, asked, links, rows, sent, seen, saved, ended, origin>>

\* Mutant of Meets: the account's other chat stays.
MeetsChat(l, u, c) == l.chat = c

\* Link l is of account u or of chat c: at most one may be.
Meets(l, u, c) == l.user = u \/ l.chat = c

\* link_channel_chat: the rows of this account and of this chat go ...
Unlinking(d) ==
    /\ At(d, "connect")
    /\ handler' = [handler EXCEPT ![d].step = "insert",
           ![d].doomed = {l.row : l \in {k \in links : Meets(k, Owner[Said(d).what], Said(d).chat)}}]
    /\ UNCHANGED <<channel, asked, linking, sent, seen, saved, ended, origin>>

\* ... and the new one is inserted, unless another handler has linked one of
\* them meanwhile: then the transaction fails, and the request with it.
Link(d) ==
    /\ At(d, "insert")
    /\ LET u == Owner[Said(d).what]
           c == Said(d).chat
           left == {l \in links : l.row \notin handler[d].doomed} IN
       IF \E l \in left : Meets(l, u, c)
       THEN Go(d, "failed") /\ UNCHANGED <<links, rows>>
       ELSE /\ links' = left \union {[user |-> u, chat |-> c, last |-> 0, row |-> rows + 1]}
            /\ rows' = rows + 1
            /\ Go(d, "used")
    /\ UNCHANGED <<channel, asked, codes, sent, seen, saved, ended, origin>>

\* The instance dies under a handler; what it has committed stays.
Die(d) ==
    /\ handler[d].step \notin Over \union {"waiting"}
    /\ Go(d, "dead")
    /\ UNCHANGED <<channel, asked, linking, sent, seen, saved, ended, origin>>

-----------------------------------------------------------------------------
Next ==
    \/ \E k \in Codes : AskForCode(k) \/ GiveCode(k)
    \/ \E u \in Users : Disconnect(u)
    \/ \E c \in Chats : \E what \in Codes \union {"text", "stop"} : Write(c, what)
    \/ \E d \in Deliveries : \/ Receive(d) \/ ClaimMessage(d) \/ LookUp(d) \/ ClaimUpdate(d)
                             \/ Stop(d) \/ SaveText(d) \/ ReadCode(d) \/ TakeCode(d)
                             \/ Unlinking(d) \/ Link(d) \/ Die(d)

Spec == Init /\ [][Next]_vars

-----------------------------------------------------------------------------
\* A message is saved once, however often and wherever it is delivered.  Only on
\* Telegram, where a link made anew forgets what was handled on the old one, is
\* an older message delivered again after it saved again.
SavedOnce ==
    \A d, e \in saved : d # e /\ Number[d] = Number[e] =>
        channel = "telegram" /\ handler[d].row # handler[e].row

\* A text sent in a linked chat is not lost without a word while that link
\* lasts: once every delivery is over it is saved or the user was told, unless
\* the instance died with it in hand, or on Telegram a newer message came first.
LostOnlyOnTheWay ==
    \A n \in 1..Len(sent) :
        LET mine == {d \in Deliveries : Number[d] = n} IN
        /\ sent[n].what = "text" /\ LinkOf(sent[n].chat).row = origin[n].row /\ origin[n] # NoLink
        /\ \A d \in mine : handler[d].step \in Over
        => \/ \E d \in mine : handler[d].step \in {"saved", "told", "dead"}
           \/ channel = "telegram" /\ LinkOf(sent[n].chat).last > n

\* "A code works once": a handler that finds a code began before any other had
\* connected a chat with it.  (Two that read it together both connect.)
CodeEndsWithItsUse ==
    \A d \in Deliveries : ended[d] # {} => handler[d].step \in {"code", "told", "dead"}
=============================================================================
