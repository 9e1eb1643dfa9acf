------------------------------ MODULE Telegram ------------------------------
(***************************************************************************)
(* The Telegram bot (telegram.py, routes_telegram.py): a chat is linked    *)
(* with a one-time code, its commands are fetched and answered by a job,   *)
(* which also sends what other threads queued, while an alert is sent by   *)
(* the thread that raised it.  The offset, the codes and the links are in  *)
(* the database; the queue and the count of wrong codes are in memory.     *)
(*                                                                         *)
(* A code that expired is one that is not there.  What a read-only command *)
(* answers is left out.                                                    *)
(***************************************************************************)
EXTENDS Naturals, Sequences

CONSTANTS
    Users, Chats,
    Groups,         \* chats that are not private
    Nobody,
    MaxBad,         \* wrong codes a chat may send within the window (telegram.py 36)
    MaxQueued,      \* texts the queue holds (telegram.py 41)
    MaxCodes, MaxUpdates, MaxTexts, MaxFaults   \* bounds

NoCode == 0

VARIABLES
    issued,         \* history: whose each code was, in order
    code,           \* [Users -> the code that can be redeemed, or NoCode]
    link,           \* [Chats -> the code that linked it, or NoCode]
    muted,          \* the linked users who turned the bot off
    inbox,          \* what was written to the bot: [chat, command, code]
    offset,         \* the first update that was not taken
    bad,            \* [Chats -> wrong codes lately]
    outbox,         \* the users of the queued texts
    poll,           \* the job: [at, id, last, pending, chat]
    push,           \* an alert on its way from another thread: [user, chat]
    handled,        \* history: the updates handled, in order
    told,           \* history: who was sent what is whose, [user, chat]
    texts, faults

vars == <<issued, code, link, muted, inbox, offset, bad, outbox, poll, push, handled, told, texts, faults>>

Idle   == [at |-> "idle", id |-> 0, last |-> 0, pending |-> <<>>, chat |-> Nobody]
NoPush == [user |-> Nobody, chat |-> Nobody]

Codes    == 1..MaxCodes
Commands == [chat : Chats, command : {"start", "stop", "other"}, code : {NoCode} \cup Codes]

TypeOK ==
    /\ issued \in Seq(Users) /\ Len(issued) <= MaxCodes
    /\ code \in [Users -> {NoCode} \cup Codes] /\ link \in [Chats -> {NoCode} \cup Codes]
    /\ muted \subseteq Users /\ inbox \in Seq(Commands) /\ offset \in 1..(MaxUpdates + 1)
    /\ bad \in [Chats -> 0..MaxBad] /\ Len(outbox) <= MaxQueued /\ outbox \in Seq(Users)
    /\ poll.at \in {"idle", "updates", "handling", "replying", "sending", "calling"}
    /\ push.user \in Users \cup {Nobody} /\ push.chat \in Chats \cup {Nobody}
    /\ handled \in Seq(1..MaxUpdates) /\ told \subseteq [user : Users, chat : Chats]
    /\ texts \in 0..MaxTexts /\ faults \in 0..MaxFaults

Init ==
    /\ issued = <<>> /\ code = [u \in Users |-> NoCode] /\ link = [c \in Chats |-> NoCode] /\ muted = {}
    /\ inbox = <<>> /\ offset = 1 /\ bad = [c \in Chats |-> 0] /\ outbox = <<>>
    /\ poll = Idle /\ push = NoPush /\ handled = <<>> /\ told = {} /\ texts = 0 /\ faults = 0

Linked(u, c) == link[c] # NoCode /\ issued[link[c]] = u
LinkedChats(u) == {c \in Chats : Linked(u, c)}

(***************************************************************************)
(* The settings page and the chats.                                        *)
(***************************************************************************)
\* issue_code: a fresh code replaces the user's earlier one.
issue_code(u) ==
    /\ Len(issued) < MaxCodes
    /\ issued' = Append(issued, u) /\ code' = [code EXCEPT ![u] = Len(issued) + 1]
    /\ UNCHANGED <<link, muted, inbox, offset, bad, outbox, poll, push, handled, told, texts, faults>>

Expire(u) ==
    /\ code[u] # NoCode /\ code' = [code EXCEPT ![u] = NoCode]
    /\ UNCHANGED <<issued, link, muted, inbox, offset, bad, outbox, poll, push, handled, told, texts, faults>>

set_enabled(u, on) ==
    /\ LinkedChats(u) # {} /\ muted' = (IF on THEN muted \ {u} ELSE muted \cup {u}) /\ muted' # muted
    /\ UNCHANGED <<issued, code, link, inbox, offset, bad, outbox, poll, push, handled, told, texts, faults>>

unlink(u) ==
    /\ LinkedChats(u) # {}
    /\ link' = [c \in Chats |-> IF Linked(u, c) THEN NoCode ELSE link[c]] /\ muted' = muted \ {u}
    /\ UNCHANGED <<issued, code, inbox, offset, bad, outbox, poll, push, handled, told, texts, faults>>

\* A chat writes: a code it was given, a guess, or another command.
Write(c, command, k) ==
    /\ Len(inbox) < MaxUpdates /\ k <= Len(issued) /\ (k # NoCode => command = "start")
    /\ inbox' = Append(inbox, [chat |-> c, command |-> command, code |-> k])
    /\ UNCHANGED <<issued, code, link, muted, offset, bad, outbox, poll, push, handled, told, texts, faults>>

WindowPasses(c) ==
    /\ bad[c] > 0 /\ bad' = [bad EXCEPT ![c] = 0]
    /\ UNCHANGED <<issued, code, link, muted, inbox, offset, outbox, poll, push, handled, told, texts, faults>>

(***************************************************************************)
(* The updates.                                                            *)
(***************************************************************************)
\* poll: everything from the offset on is fetched.
PollBegins ==
    /\ poll.at = "idle" /\ poll' = [Idle EXCEPT !.at = "updates", !.id = offset - 1, !.last = Len(inbox)]
    /\ UNCHANGED <<issued, code, link, muted, inbox, offset, bad, outbox, push, handled, told, texts, faults>>

\* The offset is stored before the update is handled.
Store(id) == offset' = id + 1

Take ==
    /\ poll.at = "updates" /\ poll.id < poll.last
    /\ poll' = [poll EXCEPT !.at = "handling", !.id = @ + 1] /\ Store(poll.id + 1)
    /\ UNCHANGED <<issued, code, link, muted, inbox, bad, outbox, push, handled, told, texts, faults>>

Private(u)  == u.chat \notin Groups
Tries(u)    == Private(u) /\ u.command = "start" /\ bad[u.chat] < MaxBad
\* redeem_telegram_code: the owner of a code that is still there.
Owners(u)   == {o \in Users : Tries(u) /\ u.code # NoCode /\ code[o] = u.code}
LinkedBy(u) == {o \in Users : Linked(o, u.chat)}

\* handle: a code links its chat and is spent, with the links that chat and that user had;
\* /stop unlinks; everything is answered.
Handle ==
    LET u == inbox[poll.id] IN
    /\ poll.at = "handling"
    /\ \/ /\ Owners(u) # {}
          /\ code' = [o \in Users |-> IF o \in Owners(u) THEN NoCode ELSE code[o]]
          /\ link' = [c \in Chats |-> CASE c = u.chat -> u.code
                                        [] c # u.chat /\ \E o \in Owners(u) : Linked(o, c) -> NoCode
                                        [] OTHER -> link[c]]
          /\ muted' = muted \ (Owners(u) \cup LinkedBy(u)) /\ UNCHANGED bad
       \/ /\ Owners(u) = {} /\ Tries(u) /\ bad' = [bad EXCEPT ![u.chat] = @ + 1]
          /\ UNCHANGED <<code, link, muted>>
       \/ /\ Private(u) /\ u.command = "stop"
          /\ link' = [link EXCEPT ![u.chat] = NoCode] /\ muted' = muted \ LinkedBy(u)
          /\ UNCHANGED <<code, bad>>
       \/ /\ ~Tries(u) /\ ~(Private(u) /\ u.command = "stop") /\ UNCHANGED <<code, link, muted, bad>>
    /\ handled' = Append(handled, poll.id) /\ poll' = [poll EXCEPT !.at = "replying"]
    /\ UNCHANGED <<issued, inbox, offset, outbox, push, told, texts, faults>>

Replied ==
    /\ poll.at = "replying" /\ poll' = [poll EXCEPT !.at = "updates"]
    /\ UNCHANGED <<issued, code, link, muted, inbox, offset, bad, outbox, push, handled, told, texts, faults>>

Fault == faults < MaxFaults /\ faults' = faults + 1

\* A reply that cannot be sent ends the job; the queue waits for the next one.
ReplyFails ==
    /\ poll.at = "replying" /\ Fault /\ poll' = Idle
    /\ UNCHANGED <<issued, code, link, muted, inbox, offset, bad, outbox, push, handled, told, texts>>

(***************************************************************************)
(* The texts.                                                              *)
(***************************************************************************)
\* queue: from any thread; a full queue drops its oldest.
queue(u) ==
    /\ texts < MaxTexts /\ texts' = texts + 1
    /\ outbox' = Append(IF Len(outbox) = MaxQueued THEN Tail(outbox) ELSE outbox, u)
    /\ UNCHANGED <<issued, code, link, muted, inbox, offset, bad, poll, push, handled, told, faults>>

Sending(left) == IF left = <<>> THEN Idle ELSE [Idle EXCEPT !.at = "sending", !.pending = left]

Flush ==
    /\ poll.at = "updates" /\ poll.id >= poll.last
    /\ poll' = Sending(outbox) /\ outbox' = <<>>
    /\ UNCHANGED <<issued, code, link, muted, inbox, offset, bad, push, handled, told, texts, faults>>

\* send_to_user: the link is looked up ...
Reads(u, c) == Linked(u, c) /\ u \notin muted

SendReads ==
    /\ poll.at = "sending"
    /\ \/ \E c \in Chats : Reads(Head(poll.pending), c) /\ poll' = [poll EXCEPT !.at = "calling", !.chat = c]
       \/ /\ \A c \in Chats : ~Reads(Head(poll.pending), c)
          /\ poll' = Sending(Tail(poll.pending))
    /\ UNCHANGED <<issued, code, link, muted, inbox, offset, bad, outbox, push, handled, told, texts, faults>>

\* ... and the chat that was found is written to; a failure is logged and the text is gone.
Sent ==
    /\ poll.at = "calling" /\ poll' = Sending(Tail(poll.pending))
    /\ \/ told' = told \cup {[user |-> Head(poll.pending), chat |-> poll.chat]} /\ UNCHANGED faults
       \/ Fault /\ UNCHANGED told
    /\ UNCHANGED <<issued, code, link, muted, inbox, offset, bad, outbox, push, handled, texts>>

\* push_alert, in the thread of a request: the same two steps.
PushReads(u, c) ==
    /\ push = NoPush /\ texts < MaxTexts /\ texts' = texts + 1
    /\ Reads(u, c) /\ push' = [user |-> u, chat |-> c]
    /\ UNCHANGED <<issued, code, link, muted, inbox, offset, bad, outbox, poll, handled, told, faults>>

PushSent ==
    /\ push # NoPush /\ push' = NoPush
    /\ \/ told' = told \cup {push} /\ UNCHANGED faults
       \/ Fault /\ UNCHANGED told
    /\ UNCHANGED <<issued, code, link, muted, inbox, offset, bad, outbox, poll, handled, texts>>

\* The process dies: the queue, the counts and whatever was under way are gone.
Crash ==
    /\ Fault /\ outbox' = <<>> /\ bad' = [c \in Chats |-> 0] /\ poll' = Idle /\ push' = NoPush
    /\ UNCHANGED <<issued, code, link, muted, inbox, offset, handled, told, texts>>

Thread == PollBegins \/ Take \/ Handle \/ Replied \/ Flush \/ SendReads \/ Sent

Next ==
    \/ \E u \in Users :
          \/ issue_code(u) \/ Expire(u) \/ unlink(u) \/ queue(u)
          \/ \E on \in BOOLEAN : set_enabled(u, on)
          \/ \E c \in Chats : PushReads(u, c)
    \/ \E c \in Chats :
          \/ WindowPasses(c)
          \/ \E command \in {"start", "stop", "other"}, k \in {NoCode} \cup Codes : Write(c, command, k)
    \/ Thread \/ ReplyFails \/ PushSent \/ Crash

\* The job comes round every few seconds.
Spec == Init /\ [][Next]_vars /\ WF_vars(Thread)

\* No update is handled twice, and none before one that was written earlier, whatever fails or
\* restarts: "a restart never replays a command" (telegram.py 13-14).
CommandsRunOnce == \A i, j \in DOMAIN handled : i < j => handled[i] < handled[j]

\* The chat wrote a code of that user.
Proved(u, c) == \E i \in DOMAIN inbox : inbox[i].chat = c /\ inbox[i].code # NoCode /\ issued[inbox[i].code] = u

\* A linked chat is private, wrote the code that links it, and is its user's only one.
LinksAreProved ==
    \A c \in Chats : link[c] # NoCode =>
        /\ c \notin Groups /\ Proved(issued[link[c]], c)
        /\ \A d \in Chats : Linked(issued[link[c]], d) => d = c

\* What is a user's is sent only to a chat that wrote a code of theirs, however the links moved while
\* it was under way.
NewsGoesToItsOwner == \A t \in told : Proved(t.user, t.chat)

\* What is written is taken, and what is queued is sent or dropped.
UpdatesAreTaken == \A i \in 1..MaxUpdates : Len(inbox) >= i ~> offset > i
QueueDrains     == outbox # <<>> ~> outbox = <<>>

\* "Unlinked. Nothing more will be sent here." (telegram.py 213): not a text whose link was looked up
\* before.
NothingAfterStop == [][ \A t \in told' \ told : link[t.chat] # NoCode ]_vars
=============================================================================
