------------------------------- MODULE Outbox -------------------------------
(***************************************************************************)
(* The outbox of telegrambot.py: broadcast() never blocks its caller and   *)
(* puts messages on a bounded queue, from the engine, the event handlers   *)
(* and the background scripts at once; one sender thread delivers them to  *)
(* the chats in order, until stop().  It waits half a minute for a chat and *)
(* then takes the next, but what it submitted may still arrive.  The queue  *)
(* itself is thread-safe: a put and a get are one step each, and a full     *)
(* broadcast is three of them.                                              *)
(***************************************************************************)
EXTENDS Naturals, Sequences, FiniteSets

CONSTANTS
    Producers,      \* threads that broadcast
    Chats,          \* the broadcast chats, in order
    Size,           \* _OUTBOX_SIZE
    MaxBroadcasts,  \* bound: broadcasts of one thread
    MaxLate         \* bound: submissions to one chat that are late at a time

ASSUME OutboxAssumption == /\ Size \in Nat \ {0}
                           /\ MaxBroadcasts \in Nat
                           /\ MaxLate \in Nat

VARIABLES
    outbox,     \* the queue, oldest first
    caller,     \* statement of broadcast() that each producer is at
    count,      \* broadcasts each producer has begun
    sender,     \* statement of _drain_outbox
    message,    \* the message it delivers
    chat,       \* position of the next chat to deliver it to
    late,       \* submissions to each chat given up but still under way
    stopping,   \* _stopping
    gone,       \* history: messages dropped from the queue to make room
    lost,       \* history: messages that found no room after that
    overtaken,  \* history: producers that another put has overtaken
    last,       \* history: the last message of every producer at each chat
    newest      \* history: the newest of them

queue == <<outbox, caller, count>>
thread == <<sender, message, chat>>
chats == <<last, newest>>
history == <<gone, lost, overtaken, chats>>
vars == <<queue, thread, late, stopping, history>>

\* The k-th broadcast of a thread.
Messages == Producers \X (1..MaxBroadcasts)
Own(p) == <<p, count[p]>>

\* The chats that broadcasts go to, and the messages on the queue.
Receivers == {Chats[n] : n \in DOMAIN Chats}
Queued == {outbox[n] : n \in DOMAIN outbox}

Full == Len(outbox) >= Size
Goto(p, label) == caller' = [caller EXCEPT ![p] = label]

-----------------------------------------------------------------------------
(* broadcast                                                               *)

\* Whoever is between its drop and its second put is now overtaken.
Overtake(p) == overtaken' = (overtaken \cup {q \in Producers : caller[q] = "retry"}) \ {p}

\* put_nowait.
Put(p) ==
    /\ caller[p] = "idle"
    /\ count[p] < MaxBroadcasts
    /\ count' = [count EXCEPT ![p] = @ + 1]
    /\ IF Full
       THEN Goto(p, "full") /\ UNCHANGED <<outbox, overtaken>>
       ELSE /\ outbox' = Append(outbox, <<p, count'[p]>>)
            /\ UNCHANGED caller
            /\ Overtake(p)
    /\ UNCHANGED <<thread, late, stopping, gone, lost, chats>>

\* Mutant: nothing was dropped, the second put finds the queue as it was.
DropNothing(p) ==
    /\ caller[p] = "full"
    /\ Goto(p, "retry")
    /\ UNCHANGED <<outbox, count, thread, late, stopping, history>>

\* get_nowait; the sender may have emptied the queue meanwhile.
Drop(p) ==
    /\ caller[p] = "full"
    /\ Goto(p, "retry")
    /\ IF outbox = <<>>
       THEN UNCHANGED <<outbox, gone>>
       ELSE /\ outbox' = Tail(outbox)
            /\ gone' = gone \cup {Head(outbox)}
    /\ UNCHANGED <<count, thread, late, stopping, lost, overtaken, chats>>

\* Mutant: the second put goes to the front of the queue.
PutAgainFirst(p) ==
    /\ caller[p] = "retry"
    /\ Goto(p, "idle")
    /\ IF Full
       THEN /\ lost' = lost \cup {Own(p)}
            /\ overtaken' = overtaken \ {p}
            /\ UNCHANGED outbox
       ELSE /\ outbox' = <<Own(p)>> \o outbox
            /\ Overtake(p)
            /\ UNCHANGED lost
    /\ UNCHANGED <<count, thread, late, stopping, gone, chats>>

\* put_nowait again; a queue that is full again swallows the message.
PutAgain(p) ==
    /\ caller[p] = "retry"
    /\ Goto(p, "idle")
    /\ IF Full
       THEN /\ lost' = lost \cup {Own(p)}
            /\ overtaken' = overtaken \ {p}
            /\ UNCHANGED outbox
       ELSE /\ outbox' = Append(outbox, Own(p))
            /\ Overtake(p)
            /\ UNCHANGED lost
    /\ UNCHANGED <<count, thread, late, stopping, gone, chats>>

-----------------------------------------------------------------------------
(* _drain_outbox                                                           *)

SenderStart ==
    /\ sender = "new"
    /\ sender' = "top"
    /\ UNCHANGED <<queue, message, chat, late, stopping, history>>

\* The test of _stopping, once per message or second.
SenderTop ==
    /\ sender = "top"
    /\ sender' = IF stopping THEN "exit" ELSE "get"
    /\ UNCHANGED <<queue, message, chat, late, stopping, history>>

\* The get waits for a second.
SenderGet ==
    /\ sender = "get"
    /\ IF outbox = <<>>
       THEN sender' = "top" /\ UNCHANGED <<outbox, message, chat>>
       ELSE /\ outbox' = Tail(outbox)
            /\ message' = Head(outbox)
            /\ chat' = 1
            /\ sender' = "send"
    /\ UNCHANGED <<caller, count, late, stopping, history>>

\* Message m reaches chat c.
Reaches(c, m) ==
    /\ last' = [last EXCEPT ![c][m[1]] = m[2]]
    /\ newest' = [newest EXCEPT ![c][m[1]] = IF m[2] > @ THEN m[2] ELSE @]

\* Mutant: a chat that cannot be reached ends the thread.
SenderSendOrDie ==
    /\ sender = "send"
    /\ chat \in DOMAIN Chats
    /\ chat' = chat + 1
    /\ \/ Reaches(Chats[chat], message) /\ UNCHANGED sender
       \/ sender' = "dead" /\ UNCHANGED chats
    /\ UNCHANGED <<queue, message, late, stopping, gone, lost, overtaken>>

\* One chat; a failure is logged and the next chat is tried.  After 30 seconds
\* without an answer the message is given up, but not cancelled.
SenderSend ==
    /\ sender = "send"
    /\ chat \in DOMAIN Chats
    /\ chat' = chat + 1
    /\ \/ Reaches(Chats[chat], message) /\ UNCHANGED late
       \/ UNCHANGED <<late, chats>>
       \/ /\ Cardinality(late[Chats[chat]]) < MaxLate
          /\ late' = [late EXCEPT ![Chats[chat]] = @ \cup {message}]
          /\ UNCHANGED chats
    /\ UNCHANGED <<queue, sender, message, stopping, gone, lost, overtaken>>

\* What was given up arrives after all, or fails.
LateSend(c) ==
    \E m \in late[c] :
        /\ late' = [late EXCEPT ![c] = @ \ {m}]
        /\ Reaches(c, m) \/ UNCHANGED chats
        /\ UNCHANGED <<queue, thread, stopping, gone, lost, overtaken>>

SenderNext ==
    /\ sender = "send"
    /\ chat \notin DOMAIN Chats
    /\ sender' = "top"
    /\ UNCHANGED <<queue, message, chat, late, stopping, history>>

\* stop(); the join gives up after five seconds.
Stop ==
    /\ ~ stopping
    /\ stopping' = TRUE
    /\ UNCHANGED <<queue, thread, late, history>>

-----------------------------------------------------------------------------

Init ==
    /\ outbox = <<>>
    /\ caller = [p \in Producers |-> "idle"]
    /\ count = [p \in Producers |-> 0]
    /\ sender = "new"
    /\ message = <<>>
    /\ chat = 1
    /\ stopping = FALSE
    /\ gone = {}
    /\ lost = {}
    /\ overtaken = {}
    /\ late = [c \in Receivers |-> {}]
    /\ last = [c \in Receivers |-> [p \in Producers |-> 0]]
    /\ newest = last

Sender == SenderStart \/ SenderTop \/ SenderGet \/ SenderSend \/ SenderNext

Broadcast(p) == Put(p) \/ Drop(p) \/ PutAgain(p)

Next == \/ \E p \in Producers : Broadcast(p)
        \/ Sender
        \/ \E c \in Receivers : LateSend(c)
        \/ Stop

Spec == Init /\ [][Next]_vars

\* The sender thread runs, and every submission to the bot loop comes back
\* (with an error after 30 seconds at the latest).  Nothing is assumed of what is
\* late: it may never arrive.
FairSpec == Spec /\ WF_vars(Sender)

-----------------------------------------------------------------------------
(* Properties                                                              *)

TypeOK ==
    /\ outbox \in Seq(Messages)
    /\ Len(outbox) <= Size
    /\ caller \in [Producers -> {"idle", "full", "retry"}]
    /\ count \in [Producers -> 0..MaxBroadcasts]
    /\ sender \in {"new", "top", "get", "send", "exit"}
    /\ message \in Messages \cup {<<>>}
    /\ chat \in Nat \ {0}
    /\ stopping \in BOOLEAN
    /\ gone \in SUBSET Messages
    /\ lost \in SUBSET Messages
    /\ overtaken \in SUBSET Producers
    /\ late \in [Receivers -> SUBSET Messages]
    /\ {last, newest} \subseteq [Receivers -> [Producers -> 0..MaxBroadcasts]]

\* Every chat gets the messages of one thread in the order it broadcast them,
\* with gaps at most: an old state of the observatory comes after a newer one only
\* if its own submission had been given up after half a minute and was still
\* under way.
InOrder ==
    [][\A c \in Receivers, p \in Producers :
          last'[c][p] # last[c][p] /\ last'[c][p] < newest[c][p]
              => <<p, last'[c][p]>> \in late[c]]_vars

\* The newest message is swallowed only when another thread has put one
\* between the drop and the second put.
LostOnlyWhenOvertaken ==
    [][\A p \in Producers : Own(p) \in lost' \ lost => p \in overtaken]_vars

\* A message on the queue is taken to the chats or dropped for a newer one,
\* unless the bot stops: no chat that cannot be reached ends the deliveries.
QueueMoves == \A m \in Messages : m \in Queued ~> (m \notin Queued \/ stopping)
=============================================================================
