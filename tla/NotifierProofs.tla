--------------------------- MODULE NotifierProofs ---------------------------
(***************************************************************************)
(* Proofs about the two halves of the Telegram notifier: the queue of      *)
(* outgoing messages, Outbox.tla, for any threads, chats and size of the   *)
(* queue, and the questions, Questions.tla, for any number of questions,   *)
(* updates and listen chats.                                               *)
(***************************************************************************)
EXTENDS Outbox, Questions, TLAPS


-----------------------------------------------------------------------------
(* The queue as a sequence                                                 *)

LEMMA AppendFacts ==
    ASSUME NEW s \in Seq(Messages), NEW m \in Messages
    PROVE  /\ Append(s, m) \in Seq(Messages)
           /\ Len(Append(s, m)) = Len(s) + 1
           /\ DOMAIN Append(s, m) = 1..(Len(s) + 1)
           /\ \A n \in 1..Len(s) : Append(s, m)[n] = s[n]
           /\ Append(s, m)[Len(s) + 1] = m
  OBVIOUS

LEMMA TailFacts ==
    ASSUME NEW s \in Seq(Messages), s # <<>>
    PROVE  /\ Tail(s) \in Seq(Messages)
           /\ Len(s) \in Nat \ {0}
           /\ Len(Tail(s)) = Len(s) - 1
           /\ DOMAIN Tail(s) = 1..(Len(s) - 1)
           /\ \A n \in 1..(Len(s) - 1) : Tail(s)[n] = s[n + 1]
           /\ Head(s) = s[1]
           /\ Head(s) \in Messages
  OBVIOUS

-----------------------------------------------------------------------------
(* Types, in three parts: what producers change, what the sender changes,  *)
(* and the Boolean that both read.  A producer that is not idle has begun  *)
(* a broadcast, and the sender has a message when it is at the send.       *)

QueueOK ==
    /\ outbox \in Seq(Messages)
    /\ Len(outbox) <= Size
    /\ caller \in [Producers -> {"idle", "full", "retry"}]
    /\ count \in [Producers -> 0..MaxBroadcasts]
    /\ gone \in SUBSET Messages
    /\ lost \in SUBSET Messages
    /\ overtaken \in SUBSET Producers
    /\ \A p \in Producers : caller[p] # "idle" => count[p] > 0

SenderOK ==
    /\ sender \in {"new", "top", "get", "send", "exit"}
    /\ message \in Messages \cup {<<>>}
    /\ sender = "send" => message \in Messages
    /\ chat \in Nat \ {0}
    /\ late \in [Receivers -> SUBSET Messages]
    /\ last \in [Receivers -> [Producers -> 0..MaxBroadcasts]]
    /\ newest \in [Receivers -> [Producers -> 0..MaxBroadcasts]]

StoppingOK == stopping \in BOOLEAN

TypeInv == QueueOK /\ SenderOK /\ StoppingOK

LEMMA TypeParts == TypeInv => TypeOK
<1> SUFFICES ASSUME TypeInv
             PROVE  TypeOK
  OBVIOUS
<1>1. {last, newest} \subseteq [Receivers -> [Producers -> 0..MaxBroadcasts]]
  BY DEF TypeInv, SenderOK
<1> QED
  BY <1>1, Zenon DEF TypeInv, TypeOK, QueueOK, SenderOK, StoppingOK

LEMMA TypeInit == OutboxAssumption /\ Init => TypeInv
<1> SUFFICES ASSUME OutboxAssumption, Init
             PROVE  TypeInv
  OBVIOUS
<1>1. outbox \in Seq(Messages) /\ Len(outbox) <= Size
  BY DEF Init, OutboxAssumption
<1>2. count \in [Producers -> 0..MaxBroadcasts]
  BY DEF Init, OutboxAssumption
<1>3. last \in [Receivers -> [Producers -> 0..MaxBroadcasts]] /\ newest = last
  BY DEF Init, OutboxAssumption
<1>4. QueueOK
  BY <1>1, <1>2 DEF Init, QueueOK
<1>5. SenderOK
  BY <1>3 DEF Init, SenderOK
<1>6. StoppingOK
  BY Zenon DEF Init, StoppingOK
<1> QED
  BY <1>4, <1>5, <1>6 DEF TypeInv

LEMMA OwnMessage ==
    ASSUME OutboxAssumption, QueueOK, NEW p \in Producers, caller[p] # "idle"
    PROVE  Own(p) \in Messages
  BY DEF QueueOK, Own, Messages, OutboxAssumption

\* A broadcast leaves the sender alone.
LEMMA BroadcastAlone ==
    ASSUME NEW p \in Producers, Broadcast(p)
    PROVE  UNCHANGED <<thread, late, stopping, chats>>
  BY Zenon DEF Broadcast, Put, Drop, PutAgain

LEMMA BroadcastTypes ==
    ASSUME OutboxAssumption, QueueOK, NEW p \in Producers, Broadcast(p)
    PROVE  QueueOK'
<1> USE DEF OutboxAssumption, QueueOK
<1>1. CASE Put(p)
  <2>1. count' \in [Producers -> 0..MaxBroadcasts] /\ count'[p] > 0
    BY <1>1 DEF Put
  <2>2. <<p, count'[p]>> \in Messages
    BY <2>1 DEF Messages
  <2>3. CASE Full
    BY <1>1, <2>1, <2>3 DEF Put, Goto
  <2>4. CASE ~ Full
    <3>1. outbox' \in Seq(Messages) /\ Len(outbox') <= Size
      <4>1. outbox' = Append(outbox, <<p, count'[p]>>)
        BY <1>1, <2>4 DEF Put
      <4>2. Len(outbox) \in Nat /\ Len(outbox) < Size
        BY <2>4 DEF Full
      <4>3. /\ Append(outbox, <<p, count'[p]>>) \in Seq(Messages)
            /\ Len(Append(outbox, <<p, count'[p]>>)) = Len(outbox) + 1
        BY <2>2, AppendFacts
      <4> QED
        BY <4>1, <4>2, <4>3
    <3>2. overtaken' \in SUBSET Producers
      BY <1>1, <2>4 DEF Put, Overtake
    <3>3. UNCHANGED <<caller, gone, lost>>
      BY <1>1, <2>4 DEF Put
    <3>4. \A q \in Producers : count'[q] >= count[q]
      BY <1>1 DEF Put
    <3>5. \A q \in Producers : caller'[q] # "idle" => count'[q] > 0
      BY <2>1, <3>3, <3>4
    <3> QED
      BY <2>1, <3>1, <3>2, <3>3, <3>5
  <2> QED
    BY <2>3, <2>4
<1>2. CASE Drop(p)
  <2>1. CASE outbox = <<>>
    BY <1>2, <2>1 DEF Drop, Goto
  <2>2. CASE outbox # <<>>
    <3> HIDE DEF OutboxAssumption, QueueOK
    <3>1. outbox' = Tail(outbox) /\ gone' = gone \cup {Head(outbox)}
      BY <1>2, <2>2 DEF Drop
    <3>2. outbox \in Seq(Messages) /\ Len(outbox) <= Size /\ gone \in SUBSET Messages
      BY DEF QueueOK
    <3>3. Size \in Nat
      BY DEF OutboxAssumption
    <3>4. /\ Tail(outbox) \in Seq(Messages)
          /\ Len(Tail(outbox)) = Len(outbox) - 1 /\ Len(outbox) \in Nat
          /\ Head(outbox) \in Messages
      BY <2>2, <3>2, TailFacts
    <3>5. outbox' \in Seq(Messages) /\ Len(outbox') <= Size /\ gone' \in SUBSET Messages
      BY <3>1, <3>2, <3>3, <3>4
    <3> USE DEF OutboxAssumption, QueueOK
    <3> QED
      BY <1>2, <3>5 DEF Drop, Goto
  <2> QED
    BY <2>1, <2>2
<1>3. CASE PutAgain(p)
  <2>1. Own(p) \in Messages
    BY <1>3, OwnMessage DEF PutAgain
  <2>2. CASE Full
    BY <1>3, <2>1, <2>2 DEF PutAgain, Goto
  <2>3. CASE ~ Full
    <3>1. outbox' \in Seq(Messages) /\ Len(outbox') <= Size
      <4>1. outbox' = Append(outbox, Own(p))
        BY <1>3, <2>3 DEF PutAgain
      <4>2. Len(outbox) \in Nat /\ Len(outbox) < Size
        BY <2>3 DEF Full
      <4>3. /\ Append(outbox, Own(p)) \in Seq(Messages)
            /\ Len(Append(outbox, Own(p))) = Len(outbox) + 1
        BY <2>1, AppendFacts
      <4> QED
        BY <4>1, <4>2, <4>3
    <3>2. overtaken' \in SUBSET Producers
      BY <1>3, <2>3 DEF PutAgain, Overtake
    <3> QED
      BY <1>3, <2>3, <3>1, <3>2 DEF PutAgain, Goto
  <2> QED
    BY <2>2, <2>3
<1> QED
  BY <1>1, <1>2, <1>3 DEF Broadcast

LEMMA LastTyped ==
    ASSUME NEW f \in [Receivers -> [Producers -> 0..MaxBroadcasts]],
           NEW c \in Receivers, NEW p \in Producers, NEW k \in 0..MaxBroadcasts
    PROVE  [f EXCEPT ![c][p] = k] \in [Receivers -> [Producers -> 0..MaxBroadcasts]]
<1>1. [f[c] EXCEPT ![p] = k] \in [Producers -> 0..MaxBroadcasts]
  OBVIOUS
<1> QED
  BY <1>1

\* What reaches a chat is a message of a producer.
LEMMA ReachTyped ==
    ASSUME OutboxAssumption, SenderOK, NEW c \in Receivers, NEW m \in Messages,
           Reaches(c, m)
    PROVE  /\ last' \in [Receivers -> [Producers -> 0..MaxBroadcasts]]
           /\ newest' \in [Receivers -> [Producers -> 0..MaxBroadcasts]]
<1>1. m[1] \in Producers /\ m[2] \in 0..MaxBroadcasts
  BY DEF Messages, OutboxAssumption
<1>2. /\ last \in [Receivers -> [Producers -> 0..MaxBroadcasts]]
      /\ newest \in [Receivers -> [Producers -> 0..MaxBroadcasts]]
  BY DEF SenderOK
<1>3. PICK k \in 0..MaxBroadcasts : newest' = [newest EXCEPT ![c][m[1]] = k]
  <2>1. newest[c][m[1]] \in 0..MaxBroadcasts
    BY <1>1, <1>2
  <2> QED
    BY <1>1, <1>2, <2>1 DEF Reaches
<1>4. last' = [last EXCEPT ![c][m[1]] = m[2]]
  BY DEF Reaches
<1> QED
  BY <1>1, <1>2, <1>3, <1>4, LastTyped

\* What was given up is of a producer as well, and nothing else is late.
LEMMA LateTyped ==
    ASSUME OutboxAssumption, QueueOK, SenderOK, NEW c \in Receivers, LateSend(c)
    PROVE  QueueOK' /\ SenderOK'
<1>1. PICK m \in late[c] : /\ late' = [late EXCEPT ![c] = @ \ {m}]
                           /\ Reaches(c, m) \/ UNCHANGED chats
  BY Zenon DEF LateSend
<1>2. UNCHANGED <<queue, thread, stopping, gone, lost, overtaken>>
  BY Zenon DEF LateSend
<1>3. m \in Messages
  BY DEF SenderOK
<1>4. late' \in [Receivers -> SUBSET Messages]
  BY <1>1 DEF SenderOK
<1>5. /\ last' \in [Receivers -> [Producers -> 0..MaxBroadcasts]]
      /\ newest' \in [Receivers -> [Producers -> 0..MaxBroadcasts]]
  BY <1>1, <1>3, ReachTyped DEF SenderOK, chats
<1> QED
  BY <1>2, <1>4, <1>5 DEF QueueOK, SenderOK, queue, thread

LEMMA SenderTypes ==
    ASSUME OutboxAssumption, QueueOK, SenderOK, Sender
    PROVE  QueueOK' /\ SenderOK'
<1> USE DEF OutboxAssumption, QueueOK, SenderOK
<1>1. CASE SenderStart \/ SenderTop \/ SenderNext
  BY <1>1 DEF SenderStart, SenderTop, SenderNext, queue, history, chats
<1>2. CASE SenderGet
  <2>1. CASE outbox = <<>>
    BY <1>2, <2>1 DEF SenderGet, history, chats
  <2>2. CASE outbox # <<>>
    <3>1. outbox' \in Seq(Messages) /\ Len(outbox') <= Size /\ message' \in Messages
      <4>1. outbox' = Tail(outbox) /\ message' = Head(outbox)
        BY <1>2, <2>2 DEF SenderGet
      <4> QED
        BY <2>2, <4>1, TailFacts
    <3>2. sender' = "send" /\ chat' = 1
      BY <1>2, <2>2 DEF SenderGet
    <3>3. UNCHANGED <<caller, count, late, gone, lost, overtaken, last, newest>>
      BY <1>2 DEF SenderGet, history, chats
    <3> QED
      BY <3>1, <3>2, <3>3
  <2> QED
    BY <2>1, <2>2
<1>3. CASE SenderSend
  <2>1. Chats[chat] \in Receivers
    BY <1>3 DEF SenderSend, Receivers
  <2>2. message \in Messages
    BY <1>3 DEF SenderSend
  <2>3. /\ last' \in [Receivers -> [Producers -> 0..MaxBroadcasts]]
        /\ newest' \in [Receivers -> [Producers -> 0..MaxBroadcasts]]
    <3>1. Reaches(Chats[chat], message) \/ UNCHANGED chats
      BY <1>3, Zenon DEF SenderSend
    <3>2. CASE Reaches(Chats[chat], message)
      <4> HIDE DEF QueueOK, SenderOK, OutboxAssumption
      <4> QED
        BY <2>1, <2>2, <3>2, ReachTyped
    <3> QED
      BY <3>1, <3>2 DEF chats
  <2>4. late' \in [Receivers -> SUBSET Messages]
    <3>1. late' = late \/ late' = [late EXCEPT ![Chats[chat]] = @ \cup {message}]
      BY <1>3, Zenon DEF SenderSend
    <3>2. late \in [Receivers -> SUBSET Messages]
      OBVIOUS
    <3>3. late[Chats[chat]] \cup {message} \in SUBSET Messages
      BY <2>1, <2>2, <3>2
    <3> HIDE DEF QueueOK, SenderOK, OutboxAssumption
    <3> QED
      BY <2>1, <3>1, <3>2, <3>3
  <2>5. QueueOK'
    BY <1>3 DEF SenderSend, queue
  <2>6. chat' \in Nat \ {0} /\ UNCHANGED <<sender, message>>
    BY <1>3 DEF SenderSend
  <2> QED
    BY <2>2, <2>3, <2>4, <2>5, <2>6
<1> QED
  BY <1>1, <1>2, <1>3 DEF Sender

LEMMA TypeStep == OutboxAssumption /\ TypeInv /\ [Next]_vars => TypeInv'
<1> SUFFICES ASSUME OutboxAssumption, TypeInv, [Next]_vars
             PROVE  TypeInv'
  OBVIOUS
<1>1. ASSUME NEW p \in Producers, Broadcast(p)
      PROVE  TypeInv'
  <2>1. UNCHANGED <<thread, late, stopping, chats>>
    BY <1>1, BroadcastAlone
  <2>2. SenderOK' /\ StoppingOK'
    BY Zenon, <2>1 DEF TypeInv, SenderOK, StoppingOK, thread, chats
  <2> QED
    BY <1>1, <2>2, BroadcastTypes DEF TypeInv
<1>2. CASE Sender
  <2>1. StoppingOK'
    BY Zenon, <1>2 DEF TypeInv, StoppingOK, Sender, SenderStart, SenderTop,
                       SenderGet, SenderSend, SenderNext
  <2> QED
    BY <1>2, <2>1, SenderTypes DEF TypeInv
<1>3. CASE Stop
  <2>1. StoppingOK'
    BY Zenon, <1>3 DEF Stop, StoppingOK
  <2> QED
    BY Zenon, <1>3, <2>1
       DEF Stop, TypeInv, QueueOK, SenderOK, queue, thread, history, chats
<1>4. CASE UNCHANGED vars
  BY Zenon, <1>4 DEF TypeInv, QueueOK, SenderOK, StoppingOK, vars, queue, thread,
                     history, chats
<1>5. ASSUME NEW c \in Receivers, LateSend(c)
      PROVE  TypeInv'
  <2>1. StoppingOK'
    BY Zenon, <1>5 DEF LateSend, TypeInv, StoppingOK
  <2> QED
    BY <1>5, <2>1, LateTyped DEF TypeInv
<1> QED
  BY <1>1, <1>2, <1>3, <1>4, <1>5 DEF Next

LEMMA TypeInvariant == OutboxAssumption => (Spec => []TypeInv)
<1> SUFFICES ASSUME OutboxAssumption
             PROVE  Spec => []TypeInv
  OBVIOUS
<1>1. Init => TypeInv
  BY TypeInit
<1>2. TypeInv /\ [Next]_vars => TypeInv'
  BY TypeStep
<1> QED
  BY <1>1, <1>2, PTL DEF Spec

\* The queue never outgrows its bound, and the rest of the types.
THEOREM OutboxTypeOK == OutboxAssumption => (Spec => []TypeOK)
  BY TypeInvariant, TypeParts, PTL

-----------------------------------------------------------------------------
(* Room for the second put                                                 *)

\* A thread between its drop and its second put finds room, unless another
\* put came in between.
RetryRoom ==
    \A p \in Producers :
        caller[p] = "retry" /\ p \notin overtaken => Len(outbox) < Size

LEMMA RoomStep ==
    ASSUME OutboxAssumption, TypeInv, RetryRoom, [Next]_vars
    PROVE  RetryRoom'
<1> USE DEF OutboxAssumption, RetryRoom
<1> SUFFICES ASSUME NEW p \in Producers, caller'[p] = "retry", p \notin overtaken'
             PROVE  Len(outbox') < Size
  OBVIOUS
<1>1. outbox \in Seq(Messages) /\ Len(outbox) <= Size
  BY DEF TypeInv, QueueOK
<1>2. caller \in [Producers -> {"idle", "full", "retry"}]
  BY DEF TypeInv, QueueOK
<1>3. ASSUME NEW q \in Producers, Put(q)
      PROVE  Len(outbox') < Size
  BY <1>1, <1>2, <1>3 DEF Put, Goto, Overtake
<1>4. ASSUME NEW q \in Producers, Drop(q)
      PROVE  Len(outbox') < Size
  <2>1. CASE outbox = <<>>
    BY <1>4, <2>1 DEF Drop
  <2>2. CASE outbox # <<>>
    <3>1. outbox' = Tail(outbox)
      BY <1>4, <2>2 DEF Drop
    <3> QED
      BY <1>1, <2>2, <3>1, TailFacts
  <2> QED
    BY <2>1, <2>2
<1>5. ASSUME NEW q \in Producers, PutAgain(q)
      PROVE  Len(outbox') < Size
  BY <1>1, <1>2, <1>5 DEF PutAgain, Goto, Overtake
<1>6. CASE SenderGet
  <2>1. Len(outbox') <= Len(outbox) /\ Len(outbox) \in Nat /\ Len(outbox') \in Nat
    <3>1. CASE outbox = <<>>
      BY <1>1, <1>6, <3>1 DEF SenderGet
    <3>2. CASE outbox # <<>>
      <4>1. outbox' = Tail(outbox)
        BY <1>6, <3>2 DEF SenderGet
      <4> QED
        BY <1>1, <3>2, <4>1, TailFacts
    <3> QED
      BY <3>1, <3>2
  <2>2. UNCHANGED <<caller, overtaken>>
    BY <1>6 DEF SenderGet, history
  <2> QED
    BY <2>1, <2>2
<1>7. CASE \/ SenderStart \/ SenderTop \/ SenderSend \/ SenderNext
           \/ (\E c \in Receivers : LateSend(c)) \/ Stop \/ UNCHANGED vars
  <2>1. UNCHANGED <<outbox, caller, overtaken>>
    BY Zenon, <1>7 DEF SenderStart, SenderTop, SenderSend, SenderNext, LateSend, Stop,
                       vars, queue, history
  <2> QED
    BY <2>1
<1> QED
  BY <1>3, <1>4, <1>5, <1>6, <1>7 DEF Next, Broadcast, Sender

\* A message is swallowed only by a put that finds the queue full again, and
\* with the room kept it is then overtaken.
LEMMA LostStep ==
    ASSUME OutboxAssumption, TypeInv, RetryRoom, [Next]_vars,
           NEW p \in Producers, Own(p) \in lost' \ lost
    PROVE  p \in overtaken
<1>1. ASSUME NEW q \in Producers, PutAgain(q)
      PROVE  p \in overtaken
  <2>1. Full /\ lost' = lost \cup {Own(q)} /\ caller[q] = "retry"
    BY <1>1 DEF PutAgain
  <2>2. p = q
    BY <2>1 DEF Own
  <2>3. ~ (Len(outbox) < Size)
    BY <2>1 DEF Full, TypeInv, QueueOK, OutboxAssumption
  <2> QED
    BY <2>1, <2>2, <2>3 DEF RetryRoom
<1>2. CASE lost' = lost
  BY <1>2
<1>3. ASSUME NEW q \in Producers, Put(q) \/ Drop(q)
      PROVE  lost' = lost
  BY Zenon, <1>3 DEF Put, Drop
<1>4. CASE Sender \/ (\E c \in Receivers : LateSend(c)) \/ Stop \/ UNCHANGED vars
  <2>1. lost' = lost
    BY Zenon, <1>4 DEF Sender, SenderStart, SenderTop, SenderGet, SenderSend,
                       SenderNext, LateSend, Stop, vars, history
  <2> QED
    BY <2>1
<1> QED
  BY <1>1, <1>2, <1>3, <1>4 DEF Next, Broadcast

\* The newest broadcast of a thread is swallowed only when another thread has
\* put a message between its drop and its second put.
THEOREM OnlyOvertakenAreLost == OutboxAssumption => (Spec => LostOnlyWhenOvertaken)
<1> SUFFICES ASSUME OutboxAssumption
             PROVE  Spec => LostOnlyWhenOvertaken
  OBVIOUS
<1>1. Init => RetryRoom
  BY DEF Init, RetryRoom
<1>2. TypeInv /\ RetryRoom /\ [Next]_vars => RetryRoom'
  BY RoomStep
<1>3. TypeInv /\ RetryRoom /\ [Next]_vars
        => [\A p \in Producers : Own(p) \in lost' \ lost => p \in overtaken]_vars
  BY LostStep
<1> QED
  BY <1>1, <1>2, <1>3, TypeInvariant, PTL DEF Spec, LostOnlyWhenOvertaken

-----------------------------------------------------------------------------
(* Order of the messages                                                   *)

\* The number of the next message of p that will join the queue.
Upcoming ==
    [p \in Producers |-> IF caller[p] = "idle" THEN count[p] + 1 ELSE count[p]]

\* The messages of a thread are queued in the order of their numbers, all of
\* them older than the next one.
QueueOrdered ==
    \A i, j \in DOMAIN outbox :
        i < j /\ outbox[i][1] = outbox[j][1] => outbox[i][2] < outbox[j][2]

QueueBelow == \A n \in DOMAIN outbox : outbox[n][2] < Upcoming[outbox[n][1]]

\* What the sender has at hand is older than what is queued ...
MessageFirst ==
    sender = "send" =>
        /\ message[2] < Upcoming[message[1]]
        /\ \A n \in DOMAIN outbox :
               outbox[n][1] = message[1] => message[2] < outbox[n][2]

\* ... and older still is the k-th message of p, if a chat has it or it is late.
Old(p, k) ==
    /\ k < Upcoming[p]
    /\ \A n \in DOMAIN outbox : outbox[n][1] = p => k < outbox[n][2]
    /\ sender = "send" /\ message[1] = p => k <= message[2]

ReceivedFirst == \A c \in Receivers, p \in Producers : Old(p, newest[c][p])
LateFirst == \A c \in Receivers : \A m \in late[c] : Old(m[1], m[2])

OrderInv == QueueOrdered /\ QueueBelow /\ MessageFirst /\ ReceivedFirst /\ LateFirst

LEMMA MessagePairs ==
    \A m \in Messages : m[1] \in Producers /\ m[2] \in Nat /\ m = <<m[1], m[2]>>
  BY DEF Messages

\* What was old stays old: nothing more is asked of a step in which no message
\* reaches a chat and none is given up.
LEMMA OldStays ==
    ASSUME OutboxAssumption, TypeInv, ReceivedFirst, LateFirst,
           UNCHANGED <<newest, late>>,
           \A p \in Producers, k \in Nat : Old(p, k) => Old(p, k)'
    PROVE  ReceivedFirst' /\ LateFirst'
<1>1. \A c \in Receivers, p \in Producers : newest[c][p] \in Nat
  BY DEF TypeInv, SenderOK, OutboxAssumption
<1>2. \A c \in Receivers : \A m \in late[c] : m[1] \in Producers /\ m[2] \in Nat
  BY MessagePairs DEF TypeInv, SenderOK
<1>3. ASSUME NEW c \in Receivers, NEW p \in Producers
      PROVE  Old(p, newest[c][p])'
  <2>1. PICK k \in Nat : k = newest[c][p] /\ Old(p, k)
    BY <1>1 DEF ReceivedFirst
  <2>2. Old(p, k)' /\ newest'[c][p] = k
    BY <2>1
  <2> QED
    BY <2>2, Zenon DEF Old
<1>4. ASSUME NEW c \in Receivers, NEW m \in late[c]
      PROVE  Old(m[1], m[2])'
  BY <1>2 DEF LateFirst
<1> QED
  BY <1>3, <1>4 DEF ReceivedFirst, LateFirst

\* A message with the next number of its thread joins at the end.
LEMMA AppendOrder ==
    ASSUME OutboxAssumption, TypeInv, OrderInv,
           NEW p \in Producers, NEW m \in Messages,
           m[1] = p, m[2] = Upcoming[p], outbox' = Append(outbox, m),
           \A q \in Producers : Upcoming'[q] >= Upcoming[q],
           Upcoming'[p] > Upcoming[p],
           UNCHANGED <<sender, message, newest, late>>,
           \A q \in Producers : Upcoming[q] \in Nat /\ Upcoming'[q] \in Nat
    PROVE  OrderInv'
<1>1. /\ DOMAIN outbox' = 1..(Len(outbox) + 1)
      /\ \A n \in 1..Len(outbox) : outbox'[n] = outbox[n]
      /\ outbox'[Len(outbox) + 1] = m
  BY AppendFacts DEF TypeInv, QueueOK
<1>2. /\ Len(outbox) \in Nat
      /\ DOMAIN outbox = 1..Len(outbox)
      /\ \A n \in DOMAIN outbox : outbox[n][1] \in Producers /\ outbox[n][2] \in Nat
  BY DEF TypeInv, QueueOK, Messages
<1>3. sender = "send" => message[1] \in Producers /\ message[2] \in Nat
  BY DEF TypeInv, SenderOK, Messages
<1>5. \A n \in DOMAIN outbox' : n \in DOMAIN outbox \/ outbox'[n] = m
  BY <1>1, <1>2
<1>6. QueueOrdered'
  BY <1>1, <1>2 DEF OrderInv, QueueOrdered, QueueBelow
<1>7. QueueBelow'
  <2> SUFFICES ASSUME NEW n \in DOMAIN outbox'
               PROVE  outbox'[n][2] < Upcoming'[outbox'[n][1]]
    BY DEF QueueBelow
  <2>1. CASE n \in DOMAIN outbox
    <3>1. /\ outbox'[n] = outbox[n]
          /\ outbox[n][2] < Upcoming[outbox[n][1]]
      BY <1>1, <1>2, <2>1 DEF OrderInv, QueueBelow
    <3>2. PICK q \in Producers : q = outbox[n][1]
      BY <1>2, <2>1
    <3>3. Upcoming'[q] >= Upcoming[q] /\ outbox[n][2] < Upcoming[q]
      BY <3>1, <3>2
    <3>4. outbox[n][2] < Upcoming'[q]
      BY <1>2, <2>1, <3>3
    <3> QED
      BY <3>1, <3>2, <3>4
  <2>2. CASE outbox'[n] = m
    BY <2>2
  <2> QED
    BY <1>5, <2>1, <2>2
<1>8. MessageFirst'
  BY <1>1, <1>2, <1>3 DEF OrderInv, MessageFirst
<1>9. ASSUME NEW q \in Producers, NEW k \in Nat, Old(q, k)
      PROVE  Old(q, k)'
  <2>1. k < Upcoming'[q]
    BY <1>9 DEF Old
  <2>2. ASSUME NEW n \in DOMAIN outbox', outbox'[n][1] = q
        PROVE  k < outbox'[n][2]
    <3>1. CASE n \in DOMAIN outbox
      BY <1>1, <1>2, <1>9, <2>2, <3>1 DEF Old
    <3>2. CASE outbox'[n] = m
      BY <1>9, <2>2, <3>2 DEF Old
    <3> QED
      BY <1>5, <3>1, <3>2
  <2>3. sender' = "send" /\ message'[1] = q => k <= message'[2]
    BY <1>9 DEF Old
  <2> QED
    BY <2>1, <2>2, <2>3 DEF Old
<1>10. ReceivedFirst' /\ LateFirst'
  BY <1>9, OldStays DEF OrderInv
<1> QED
  BY <1>6, <1>7, <1>8, <1>10 DEF OrderInv

\* A queue that only loses its head keeps the order of the rest.
LEMMA TailOrder ==
    ASSUME OutboxAssumption, TypeInv, OrderInv,
           outbox # <<>>, outbox' = Tail(outbox),
           UNCHANGED <<sender, message, newest, late>>,
           Upcoming' = Upcoming
    PROVE  OrderInv'
<1>1. /\ Len(outbox) \in Nat \ {0}
      /\ DOMAIN outbox = 1..Len(outbox)
      /\ DOMAIN outbox' = 1..(Len(outbox) - 1)
      /\ \A n \in 1..(Len(outbox) - 1) : outbox'[n] = outbox[n + 1]
      /\ \A n \in DOMAIN outbox : outbox[n][1] \in Producers
  BY TailFacts DEF TypeInv, QueueOK, Messages
<1>2. \A n \in DOMAIN outbox' : n + 1 \in DOMAIN outbox /\ outbox'[n] = outbox[n + 1]
  BY <1>1
<1>3. sender = "send" => message[1] \in Producers
  BY DEF TypeInv, SenderOK, Messages
<1>4. QueueOrdered'
  BY <1>1, <1>2 DEF OrderInv, QueueOrdered
<1>5. QueueBelow'
  BY <1>1, <1>2 DEF OrderInv, QueueBelow
<1>6. MessageFirst'
  BY <1>2, <1>3 DEF OrderInv, MessageFirst
<1>7. \A q \in Producers, k \in Nat : Old(q, k) => Old(q, k)'
  BY <1>2 DEF Old
<1>8. ReceivedFirst' /\ LateFirst'
  BY <1>7, OldStays DEF OrderInv
<1> QED
  BY <1>4, <1>5, <1>6, <1>8 DEF OrderInv

\* The order says nothing else about the state.
LEMMA SameOrder ==
    ASSUME OutboxAssumption, TypeInv, OrderInv,
           UNCHANGED <<outbox, message, newest, late>>,
           sender' = "send" => sender = "send",
           Upcoming' = Upcoming
    PROVE  OrderInv'
<1>1. \A n \in DOMAIN outbox : outbox[n][1] \in Producers
  BY DEF TypeInv, QueueOK, Messages
<1>2. sender = "send" => message[1] \in Producers
  BY DEF TypeInv, SenderOK, Messages
<1>3. QueueOrdered' /\ QueueBelow'
  BY <1>1 DEF OrderInv, QueueOrdered, QueueBelow
<1>4. MessageFirst'
  BY <1>2 DEF OrderInv, MessageFirst
<1>5. \A q \in Producers, k \in Nat : Old(q, k) => Old(q, k)'
  BY DEF Old
<1>6. ReceivedFirst' /\ LateFirst'
  BY <1>5, OldStays DEF OrderInv
<1> QED
  BY <1>3, <1>4, <1>6 DEF OrderInv

\* A message that is swallowed only takes its number with it.
LEMMA LaterOrder ==
    ASSUME OutboxAssumption, TypeInv, OrderInv,
           UNCHANGED <<outbox, sender, message, newest, late>>,
           \A q \in Producers :
               /\ Upcoming[q] \in Nat
               /\ Upcoming'[q] \in Nat
               /\ Upcoming'[q] >= Upcoming[q]
    PROVE  OrderInv'
<1>1. \A n \in DOMAIN outbox : outbox[n][1] \in Producers /\ outbox[n][2] \in Nat
  BY DEF TypeInv, QueueOK, Messages
<1>2. sender = "send" => message[1] \in Producers /\ message[2] \in Nat
  BY DEF TypeInv, SenderOK, Messages
<1>4. QueueOrdered'
  BY DEF OrderInv, QueueOrdered
<1>5. QueueBelow'
  BY <1>1 DEF OrderInv, QueueBelow
<1>6. MessageFirst'
  BY <1>2 DEF OrderInv, MessageFirst
<1>7. \A q \in Producers, k \in Nat : Old(q, k) => Old(q, k)'
  BY DEF Old
<1>8. ReceivedFirst' /\ LateFirst'
  BY <1>7, OldStays DEF OrderInv
<1> QED
  BY <1>4, <1>5, <1>6, <1>8 DEF OrderInv

\* The head of the queue is newer than what the chats have and older than the
\* rest of its thread.
LEMMA GetOrder ==
    ASSUME OutboxAssumption, TypeInv, OrderInv, outbox # <<>>,
           outbox' = Tail(outbox), message' = Head(outbox), sender' = "send",
           UNCHANGED <<newest, late>>, Upcoming' = Upcoming
    PROVE  OrderInv'
<1>1. /\ Len(outbox) \in Nat \ {0}
      /\ DOMAIN outbox = 1..Len(outbox)
      /\ DOMAIN outbox' = 1..(Len(outbox) - 1)
      /\ \A n \in 1..(Len(outbox) - 1) : outbox'[n] = outbox[n + 1]
      /\ \A n \in DOMAIN outbox : outbox[n][1] \in Producers /\ outbox[n][2] \in Nat
      /\ message' = outbox[1]
  BY TailFacts DEF TypeInv, QueueOK, Messages
<1>2. /\ 1 \in DOMAIN outbox
      /\ \A n \in DOMAIN outbox' :
             n \in Nat \ {0} /\ n + 1 \in DOMAIN outbox /\ outbox'[n] = outbox[n + 1]
  BY <1>1
<1>4. QueueOrdered'
  <2> SUFFICES ASSUME NEW i \in DOMAIN outbox', NEW j \in DOMAIN outbox',
                      i < j, outbox'[i][1] = outbox'[j][1]
               PROVE  outbox'[i][2] < outbox'[j][2]
    BY DEF QueueOrdered
  <2>1. /\ i + 1 \in DOMAIN outbox /\ j + 1 \in DOMAIN outbox /\ i + 1 < j + 1
        /\ outbox'[i] = outbox[i + 1] /\ outbox'[j] = outbox[j + 1]
    BY <1>2
  <2> QED
    BY <2>1 DEF OrderInv, QueueOrdered
<1>5. QueueBelow'
  BY <1>1, <1>2 DEF OrderInv, QueueBelow
<1>6. MessageFirst'
  <2>1. message'[2] < Upcoming'[message'[1]]
    BY <1>1, <1>2 DEF OrderInv, QueueBelow
  <2>2. ASSUME NEW n \in DOMAIN outbox', outbox'[n][1] = message'[1]
        PROVE  message'[2] < outbox'[n][2]
    <3>1. /\ 1 \in DOMAIN outbox /\ n + 1 \in DOMAIN outbox /\ 1 < n + 1
          /\ outbox'[n] = outbox[n + 1] /\ message' = outbox[1]
      BY <1>1, <1>2
    <3>2. outbox[1][1] = outbox[n + 1][1]
      BY <2>2, <3>1
    <3> QED
      BY <3>1, <3>2 DEF OrderInv, QueueOrdered
  <2> QED
    BY <2>1, <2>2 DEF MessageFirst
<1>7. ASSUME NEW q \in Producers, NEW k \in Nat, Old(q, k)
      PROVE  Old(q, k)'
  <2>1. message'[1] = q => k <= message'[2]
    BY <1>1, <1>2, <1>7 DEF Old
  <2> QED
    BY <1>1, <1>2, <1>7, <2>1 DEF Old
<1>8. ReceivedFirst' /\ LateFirst'
  BY <1>7, OldStays DEF OrderInv
<1> QED
  BY <1>4, <1>5, <1>6, <1>8 DEF OrderInv

\* A message that reaches a chat, or is given up, is an old one from now on.
LEMMA ReachOrder ==
    ASSUME OutboxAssumption, TypeInv, TypeInv', OrderInv,
           UNCHANGED <<outbox, sender, message>>, Upcoming' = Upcoming,
           NEW c \in Receivers, NEW m \in Messages, Old(m[1], m[2]),
           Reaches(c, m) \/ UNCHANGED chats,
           \A r \in Receivers : late'[r] \subseteq late[r] \cup {m}
    PROVE  OrderInv'
<1>1. QueueOrdered' /\ QueueBelow' /\ MessageFirst'
  BY DEF OrderInv, QueueOrdered, QueueBelow, MessageFirst
<1>2. \A p, k : Old(p, k) <=> Old(p, k)'
  BY DEF Old
<1>3. LateFirst'
  BY <1>2 DEF LateFirst, OrderInv
<1>4. ReceivedFirst'
  <2> SUFFICES ASSUME NEW r \in Receivers, NEW p \in Producers
               PROVE  Old(p, newest[r][p])'
    BY DEF ReceivedFirst
  <2>1. Old(p, newest[r][p])
    BY DEF ReceivedFirst, OrderInv
  <2>2. \/ newest'[r][p] = newest[r][p]
        \/ p = m[1] /\ newest'[r][p] = m[2]
    <3>1. newest \in [Receivers -> [Producers -> 0..MaxBroadcasts]]
      BY DEF TypeInv, SenderOK
    <3>2. \/ UNCHANGED newest
          \/ \E k \in {m[2], newest[c][m[1]]} : newest' = [newest EXCEPT ![c][m[1]] = k]
      BY Zenon DEF Reaches, chats
    <3> QED
      BY <3>1, <3>2
  <2>3. PICK k : k = newest'[r][p] /\ Old(p, k)
    BY <2>1, <2>2
  <2> QED
    BY <2>3 DEF Old
<1> QED
  BY <1>1, <1>3, <1>4 DEF OrderInv

\* It arrives behind a newer one only if it was given up before.
LEMMA ReachInOrder ==
    ASSUME TypeInv, NEW c \in Receivers, NEW m \in Messages, Reaches(c, m),
           NEW r \in Receivers, NEW p \in Producers, last'[r][p] # last[r][p]
    PROVE  r = c /\ <<p, last'[r][p]>> = m
<1>1. r = c /\ p = m[1] /\ last'[r][p] = m[2]
  BY DEF Reaches, TypeInv, SenderOK
<1> QED
  BY <1>1, MessagePairs

LEMMA UpcomingTypes == OutboxAssumption /\ TypeInv => Upcoming \in [Producers -> Nat]
  BY DEF TypeInv, QueueOK, Upcoming, OutboxAssumption

LEMMA OrderInit == OutboxAssumption /\ Init => OrderInv
<1> SUFFICES ASSUME OutboxAssumption, Init
             PROVE  OrderInv
  OBVIOUS
<1>1. DOMAIN outbox = {} /\ sender # "send"
  BY DEF Init
<1>2. \A c \in Receivers, p \in Producers : newest[c][p] = 0 /\ Upcoming[p] = 1
  <2>1. \A p \in Producers : Upcoming[p] = 1
    <3> SUFFICES ASSUME NEW p \in Producers
                 PROVE  Upcoming[p] = 1
      OBVIOUS
    <3>1. caller[p] = "idle" /\ count[p] = 0
      BY Zenon DEF Init
    <3>2. Upcoming[p] = count[p] + 1
      BY Zenon, <3>1 DEF Upcoming
    <3> QED
      BY <3>1, <3>2
  <2>2. \A c \in Receivers, p \in Producers : newest[c][p] = 0
    BY DEF Init
  <2> QED
    BY <2>1, <2>2
<1>3. ReceivedFirst
  BY <1>1, <1>2 DEF ReceivedFirst, Old
<1>4. LateFirst
  BY DEF Init, LateFirst
<1> QED
  BY <1>1, <1>3, <1>4 DEF OrderInv, QueueOrdered, QueueBelow, MessageFirst

LEMMA BroadcastOrder ==
    ASSUME OutboxAssumption, TypeInv, TypeInv', OrderInv,
           NEW p \in Producers, Broadcast(p)
    PROVE  OrderInv'
<1>1. UNCHANGED <<sender, message, newest, late>>
  BY BroadcastAlone DEF thread, chats
<1>2. Upcoming \in [Producers -> Nat] /\ Upcoming' \in [Producers -> Nat]
  <2>1. Upcoming \in [Producers -> Nat]
    BY UpcomingTypes
  <2>2. Upcoming' \in [Producers -> Nat]
    BY DEF TypeInv, QueueOK, Upcoming, OutboxAssumption
  <2> QED
    BY <2>1, <2>2
<1>3. /\ caller \in [Producers -> {"idle", "full", "retry"}]
      /\ count \in [Producers -> 0..MaxBroadcasts]
  BY DEF TypeInv, QueueOK
<1>4. CASE Put(p)
  <2>1. CASE Full
    <3>1. outbox' = outbox /\ count' = [count EXCEPT ![p] = @ + 1]
          /\ caller[p] = "idle" /\ caller' = [caller EXCEPT ![p] = "full"]
      BY <1>4, <2>1 DEF Put, Goto
    <3>2. Upcoming' = Upcoming
      BY <1>3, <3>1 DEF Upcoming
    <3> QED
      BY <1>1, <3>1, <3>2, SameOrder
  <2>2. CASE ~ Full
    <3>1. /\ outbox' = Append(outbox, <<p, count'[p]>>)
          /\ count' = [count EXCEPT ![p] = @ + 1]
          /\ caller[p] = "idle" /\ caller' = caller
      BY <1>4, <2>2 DEF Put
    <3>2. count'[p] = Upcoming[p]
      BY <1>3, <3>1 DEF Upcoming
    <3>3. <<p, count'[p]>> \in Messages
      <4>1. count'[p] \in 0..MaxBroadcasts /\ count'[p] = count[p] + 1
            /\ count[p] \in Nat
        BY <1>3, <3>1 DEF TypeInv, QueueOK, OutboxAssumption
      <4> QED
        BY <4>1 DEF Messages, OutboxAssumption
    <3>4. Upcoming'[p] > Upcoming[p] /\ \A q \in Producers : Upcoming'[q] >= Upcoming[q]
      BY <1>3, <3>1 DEF Upcoming, OutboxAssumption
    <3>5. PICK m \in Messages : m = <<p, count'[p]>>
      BY <3>3
    <3>6. m[1] = p /\ m[2] = Upcoming[p] /\ outbox' = Append(outbox, m)
      BY <3>1, <3>2, <3>5
    <3> QED
      BY <1>1, <1>2, <3>4, <3>6, AppendOrder
  <2> QED
    BY <2>1, <2>2
<1>5. CASE Drop(p)
  <2>1. caller[p] = "full" /\ caller' = [caller EXCEPT ![p] = "retry"] /\ count' = count
    BY <1>5 DEF Drop, Goto
  <2>2. Upcoming' = Upcoming
    BY <1>3, <2>1 DEF Upcoming
  <2>3. CASE outbox = <<>>
    <3>1. outbox' = outbox
      BY <1>5, <2>3 DEF Drop
    <3> QED
      BY <1>1, <2>2, <3>1, SameOrder
  <2>4. CASE outbox # <<>>
    <3>1. outbox' = Tail(outbox)
      BY <1>5, <2>4 DEF Drop
    <3> QED
      BY <1>1, <2>2, <2>4, <3>1, TailOrder
  <2> QED
    BY <2>3, <2>4
<1>6. CASE PutAgain(p)
  <2>1. caller[p] = "retry" /\ caller' = [caller EXCEPT ![p] = "idle"] /\ count' = count
    BY <1>6 DEF PutAgain, Goto
  <2>2. Upcoming'[p] > Upcoming[p] /\ \A q \in Producers : Upcoming'[q] >= Upcoming[q]
    BY <1>3, <2>1 DEF Upcoming, OutboxAssumption
  <2>3. CASE Full
    <3>1. outbox' = outbox
      BY <1>6, <2>3 DEF PutAgain
    <3> QED
      BY <1>1, <1>2, <2>2, <3>1, LaterOrder
  <2>4. CASE ~ Full
    <3>1. outbox' = Append(outbox, Own(p))
      BY <1>6, <2>4 DEF PutAgain
    <3>2. Own(p) \in Messages
      BY <2>1, OwnMessage DEF TypeInv
    <3>3. PICK m \in Messages : m = Own(p)
      BY <3>2
    <3>4. m[1] = p /\ m[2] = Upcoming[p] /\ outbox' = Append(outbox, m)
      BY <2>1, <3>1, <3>3 DEF Own, Upcoming
    <3> QED
      BY <1>1, <1>2, <2>2, <3>4, AppendOrder
  <2> QED
    BY <2>3, <2>4
<1> QED
  BY <1>4, <1>5, <1>6 DEF Broadcast

LEMMA SenderOrder ==
    ASSUME OutboxAssumption, TypeInv, TypeInv', OrderInv, Sender
    PROVE  OrderInv' /\ (UNCHANGED chats \/ (SenderSend /\ Reaches(Chats[chat], message)))
<1>1. UNCHANGED <<caller, count>>
  BY Zenon DEF Sender, SenderStart, SenderTop, SenderGet, SenderSend, SenderNext, queue
<1>2. Upcoming' = Upcoming
  BY <1>1 DEF Upcoming
<1>3. CASE SenderStart \/ SenderTop \/ SenderNext
  <2>1. UNCHANGED <<outbox, message, newest, late, chats>> /\ sender' # "send"
    BY <1>3 DEF SenderStart, SenderTop, SenderNext, queue, history, chats
  <2> QED
    BY <1>2, <2>1, SameOrder
<1>4. CASE SenderGet
  <2>1. UNCHANGED <<newest, late, chats>>
    BY <1>4 DEF SenderGet, history, chats
  <2>2. CASE outbox = <<>>
    <3>1. UNCHANGED <<outbox, message>> /\ sender' # "send"
      BY <1>4, <2>2 DEF SenderGet
    <3> QED
      BY <1>2, <2>1, <3>1, SameOrder
  <2>3. CASE outbox # <<>>
    <3>1. outbox' = Tail(outbox) /\ message' = Head(outbox) /\ sender' = "send"
      BY <1>4, <2>3 DEF SenderGet
    <3> QED
      BY <1>2, <2>1, <2>3, <3>1, GetOrder
  <2> QED
    BY <2>2, <2>3
<1>5. CASE SenderSend
  <2>1. UNCHANGED <<outbox, message, sender>> /\ sender = "send"
    BY <1>5 DEF SenderSend, queue
  <2>2. message \in Messages /\ Chats[chat] \in Receivers
    BY <1>5, <2>1 DEF SenderSend, Receivers, TypeInv, SenderOK
  <2>3. Old(message[1], message[2])
    BY <2>1, <2>2, MessagePairs DEF OrderInv, MessageFirst, Old
  <2>4. Reaches(Chats[chat], message) \/ UNCHANGED chats
    BY <1>5, Zenon DEF SenderSend
  <2>5. late' = late \/ late' = [late EXCEPT ![Chats[chat]] = @ \cup {message}]
    BY <1>5, Zenon DEF SenderSend
  <2>6. \A r \in Receivers : late'[r] \subseteq late[r] \cup {message}
    BY <2>2, <2>5 DEF TypeInv, SenderOK
  <2> QED
    BY <1>2, <1>5, <2>1, <2>2, <2>3, <2>4, <2>6, ReachOrder
<1> QED
  BY <1>3, <1>4, <1>5 DEF Sender

LEMMA LateOrder ==
    ASSUME OutboxAssumption, TypeInv, TypeInv', OrderInv, NEW c \in Receivers, LateSend(c)
    PROVE  /\ OrderInv'
           /\ UNCHANGED chats \/ \E m \in late[c] : m \in Messages /\ Reaches(c, m)
<1>1. PICK m \in late[c] : /\ late' = [late EXCEPT ![c] = @ \ {m}]
                           /\ Reaches(c, m) \/ UNCHANGED chats
  BY Zenon DEF LateSend
<1>2. UNCHANGED <<outbox, caller, count, sender, message>>
  BY Zenon DEF LateSend, queue, thread
<1>3. Upcoming' = Upcoming
  BY <1>2 DEF Upcoming
<1>4. m \in Messages
  BY DEF TypeInv, SenderOK
<1>5. Old(m[1], m[2])
  BY DEF OrderInv, LateFirst
<1>6. \A r \in Receivers : late'[r] \subseteq late[r] \cup {m}
  BY <1>1 DEF TypeInv, SenderOK
<1>7. OrderInv'
  BY <1>1, <1>2, <1>3, <1>4, <1>5, <1>6, ReachOrder
<1> QED
  BY <1>1, <1>4, <1>7

LEMMA OrderStep == OutboxAssumption /\ TypeInv /\ TypeInv' /\ OrderInv /\ [Next]_vars
                   => OrderInv'
<1> SUFFICES ASSUME OutboxAssumption, TypeInv, TypeInv', OrderInv, [Next]_vars
             PROVE  OrderInv'
  OBVIOUS
<1>1. CASE Stop \/ UNCHANGED vars
  <2>1. UNCHANGED <<outbox, caller, count, sender, message, newest, late>>
    BY Zenon, <1>1 DEF Stop, vars, queue, thread, history, chats
  <2>2. Upcoming' = Upcoming
    BY <2>1 DEF Upcoming
  <2> QED
    BY <2>1, <2>2, SameOrder
<1> QED
  BY <1>1, BroadcastOrder, SenderOrder, LateOrder DEF Next

LEMMA ChatStep ==
    ASSUME OutboxAssumption, TypeInv, TypeInv', OrderInv, [Next]_vars,
           NEW r \in Receivers, NEW p \in Producers,
           last'[r][p] # last[r][p], last'[r][p] < newest[r][p]
    PROVE  <<p, last'[r][p]>> \in late[r]
<1>1. ~ UNCHANGED chats
  BY DEF chats
<1>2. CASE Sender
  <2>1. SenderSend /\ Reaches(Chats[chat], message)
    BY <1>1, <1>2, SenderOrder
  <2>2. sender = "send" /\ message \in Messages /\ Chats[chat] \in Receivers
    BY <2>1 DEF SenderSend, Receivers, TypeInv, SenderOK
  <2>3. <<p, last'[r][p]>> = message
    BY <2>1, <2>2, ReachInOrder
  <2>4. newest[r][p] <= last'[r][p]
    BY <2>2, <2>3 DEF OrderInv, ReceivedFirst, Old
  <2>5. newest[r][p] \in Nat /\ last'[r][p] \in Nat
    BY DEF TypeInv, SenderOK, OutboxAssumption
  <2> QED
    BY <2>4, <2>5
<1>3. ASSUME NEW c \in Receivers, LateSend(c)
      PROVE  <<p, last'[r][p]>> \in late[r]
  <2>1. PICK m \in late[c] : m \in Messages /\ Reaches(c, m)
    BY <1>1, <1>3, LateOrder
  <2> QED
    BY <2>1, ReachInOrder
<1>4. ASSUME NEW q \in Producers
      PROVE  ~ Broadcast(q)
  BY <1>1, BroadcastAlone
<1>5. ~ Stop /\ ~ UNCHANGED vars
  BY <1>1, Zenon DEF Stop, vars, history
<1> QED
  BY <1>2, <1>3, <1>4, <1>5 DEF Next

\* No chat ever gets a message of a thread after a later one of that thread,
\* unless its submission had been given up before and was still under way.
THEOREM ChatsGetTheOrder == OutboxAssumption => (Spec => InOrder)
<1> SUFFICES ASSUME OutboxAssumption
             PROVE  Spec => InOrder
  OBVIOUS
<1>1. Init => OrderInv
  BY OrderInit
<1>2. TypeInv /\ TypeInv' /\ OrderInv /\ [Next]_vars => OrderInv'
  BY OrderStep
<1>3. TypeInv /\ TypeInv' /\ OrderInv /\ [Next]_vars
        => [\A c \in Receivers, p \in Producers :
               last'[c][p] # last[c][p] /\ last'[c][p] < newest[c][p]
                   => <<p, last'[c][p]>> \in late[c]]_vars
  BY ChatStep
<1> QED
  BY <1>1, <1>2, <1>3, TypeInvariant, PTL DEF Spec, InOrder

-----------------------------------------------------------------------------
(* The questions                                                           *)


\* What the bot may be at.
BotUpdate == Update \cup {NoUpdate, [Command("run") EXCEPT !.at = "running"]}
             \cup {[Press(t, a) EXCEPT !.at = "set"] : t \in Tokens, a \in Answers}

\* A press under way was pressed.
Genuine(u) == u.kind = "press" => <<u.token, u.answer>> \in pressed

\* A thread at ask() has asked a question.
AskerInv == /\ asker # "idle" => token \in Tokens
            /\ asker = "send" => sent < Listeners

\* A "yes" is traced from the button through the queue, the bot and the answer
\* to what ask() returns.
YesInv ==
    /\ \A n \in DOMAIN updates : Genuine(updates[n])
    /\ Genuine(bot)
    /\ \A t \in Tokens : answer[t] = "yes" => <<t, "yes">> \in pressed
    /\ YesWasPressed

QuestionsInv == AskTypeOK /\ AskerInv /\ YesInv

\* The shapes of an update.
LEMMA Setting ==
    \A t, a : [Press(t, a) EXCEPT !.at = "set"] =
                 [kind |-> "press", token |-> t, answer |-> a, at |-> "set"]
  BY DEF Press

LEMMA Running ==
    [Command("run") EXCEPT !.at = "running"] =
        [kind |-> "run", token |-> 0, answer |-> None, at |-> "running"]
  BY DEF Command

LEMMA Shapes ==
    ASSUME NEW u \in BotUpdate
    PROVE  /\ u.at \in {"look", "set"} =>
                 u.kind = "press" /\ u.token \in Tokens /\ u.answer \in Answers
           /\ u.at = "look" => u = Press(u.token, u.answer)
<1>1. CASE u \in {Press(t, a) : t \in Tokens, a \in Answers}
  BY <1>1 DEF Press
<1>2. CASE u \in {Command("run"), Command("reload"), NoUpdate}
  BY <1>2 DEF Command, NoUpdate
<1>3. CASE u = [Command("run") EXCEPT !.at = "running"]
  BY <1>3, Running
<1>4. CASE u \in {[Press(t, a) EXCEPT !.at = "set"] : t \in Tokens, a \in Answers}
  <2>1. PICK t \in Tokens, a \in Answers : u = [Press(t, a) EXCEPT !.at = "set"]
    BY <1>4
  <2>2. u = [kind |-> "press", token |-> t, answer |-> a, at |-> "set"]
    BY <2>1, Setting, Zenon
  <2> QED
    BY <2>2
<1> QED
  BY <1>1, <1>2, <1>3, <1>4 DEF BotUpdate, Update

LEMMA AskTypeStep == QuestionsInv /\ [AskNext]_askVars => AskTypeOK' /\ AskerInv'
<1> SUFFICES ASSUME QuestionsInv, [AskNext]_askVars
             PROVE  AskTypeOK' /\ AskerInv'
  OBVIOUS
<1> USE QuestionsAssumption DEF QuestionsInv, AskerInv, Tokens
<1>1. CASE CycleBegin \/ CycleEnd
  BY <1>1 DEF CycleBegin, CycleEnd, AskTypeOK, question, askHistory
<1>2. CASE Ask
  BY <1>2 DEF Ask, AskTypeOK, askHistory
<1>3. CASE AskSend
  BY <1>3 DEF AskSend, AskTypeOK
<1>4. CASE AskWake \/ AskTimeout \/ AskPop
  BY <1>4 DEF AskWake, AskTimeout, AskPop, AskTypeOK, askHistory
<1>5. CASE AskReturn
  BY <1>5 DEF AskReturn, AskTypeOK, Answers
<1>6. CASE Operator
  <2>1. /\ UNCHANGED <<holder, token, asker, sent, pending, answer, event, bot, shown, result>>
        /\ pressed' \subseteq Tokens \X Answers
        /\ \E u \in Update : Arrives(u)
    <3>1. ASSUME NEW t \in Tokens, NEW a \in Answers, Answer(t, a)
          PROVE  pressed' \subseteq Tokens \X Answers /\ Arrives(Press(t, a))
      BY <3>1 DEF Answer, AskTypeOK
    <3>2. ASSUME NEW kind \in {"run", "reload"}, Type(kind)
          PROVE  pressed' \subseteq Tokens \X Answers /\ Arrives(Command(kind))
      BY <3>2 DEF Type, askHistory, AskTypeOK
    <3>3. UNCHANGED <<holder, token, asker, sent, pending, answer, event, bot, shown, result>>
      BY <1>6 DEF Operator, Answer, Type, question, askHistory
    <3> QED
      BY <1>6, <3>1, <3>2, <3>3 DEF Operator, Update
  <2>2. arrived' \in 0..MaxUpdates /\ updates' \in Seq(Update)
    BY <2>1 DEF Arrives, AskTypeOK
  <2> QED
    BY <2>1, <2>2 DEF AskTypeOK
<1>7. CASE BotTake
  BY <1>7 DEF BotTake, AskTypeOK, question, askHistory
<1>8. CASE BotLook
  <2>1. bot \in BotUpdate /\ bot.at = "look"
    BY <1>8 DEF BotLook, AskTypeOK, BotUpdate
  <2>2. bot' \in BotUpdate
    <3>1. [bot EXCEPT !.at = "set"] \in BotUpdate
      BY <2>1, Shapes DEF BotUpdate
    <3> QED
      BY <1>8, <3>1 DEF BotLook, BotUpdate
  <2>3. \/ bot' \in Update \cup {NoUpdate, [Command("run") EXCEPT !.at = "running"]}
        \/ bot' \in {[Press(t, a) EXCEPT !.at = "set"] : t \in Tokens, a \in Answers}
    BY <2>2 DEF BotUpdate
  <2>4. UNCHANGED <<holder, token, asker, sent, pending, answer, event, updates, arrived,
                    shown, pressed, result>>
    BY <1>8, Zenon DEF BotLook, question, askHistory
  <2> QED
    BY <2>3, <2>4 DEF AskTypeOK
<1>9. CASE BotSet
  <2>1. bot.token \in Tokens /\ bot.answer \in Answers
    BY <1>9, Shapes DEF BotSet, AskTypeOK, BotUpdate
  <2> QED
    BY <1>9, <2>1 DEF BotSet, AskTypeOK
<1>10. CASE RunEnter \/ RunRefused \/ RunLeave \/ Reload \/ ReloadFails
  BY <1>10 DEF RunEnter, RunRefused, RunLeave, Reload, ReloadFails, AskTypeOK,
                 question, askHistory
<1>11. CASE UNCHANGED askVars
  BY <1>11 DEF askVars, AskTypeOK, question, askHistory
<1> QED
  BY <1>1, <1>2, <1>3, <1>4, <1>5, <1>6, <1>7, <1>8, <1>9, <1>10, <1>11
     DEF AskNext, Asking, Bot

\* A press keeps its question and its answer on the way to the answer table.
LEMMA YesStep == QuestionsInv /\ [AskNext]_askVars => YesInv'
<1> SUFFICES ASSUME QuestionsInv, [AskNext]_askVars
             PROVE  YesInv'
  OBVIOUS
<1>0. AskTypeOK /\ YesInv /\ AskerInv
  BY DEF QuestionsInv
<1> USE <1>0
<1>1. CASE \/ CycleBegin \/ CycleEnd \/ Ask \/ AskSend \/ AskWake \/ AskTimeout
           \/ AskPop \/ UNCHANGED askVars
  <2>1. UNCHANGED <<updates, bot, answer, result, pressed>>
    BY <1>1, Zenon DEF CycleBegin, CycleEnd, Ask, AskSend, AskWake, AskTimeout, AskPop,
       askVars, question, askHistory
  <2> QED
    BY <2>1 DEF YesInv, Genuine, YesWasPressed
<1>2. CASE AskReturn
  <2>1. /\ UNCHANGED <<updates, bot, answer, pressed>> /\ token \in Tokens
        /\ result' = [result EXCEPT ![token] = IF answer[token] = None THEN "no"
                                              ELSE answer[token]]
    BY <1>2 DEF AskReturn, AskerInv
  <2>2. \A t \in Tokens : result'[t] = "yes" => result[t] = "yes" \/ answer[t] = "yes"
    BY <2>1 DEF AskTypeOK
  <2> QED
    BY <2>1, <2>2 DEF YesInv, Genuine, YesWasPressed
<1>3. ASSUME NEW t \in Tokens, NEW a \in Answers, Answer(t, a)
      PROVE  YesInv'
  <2>1. /\ UNCHANGED <<bot, answer, result>>
        /\ pressed \subseteq pressed' /\ <<t, a>> \in pressed'
        /\ updates' = Append(updates, Press(t, a))
    BY <1>3 DEF Answer, Arrives, question
  <2>2. \A n \in DOMAIN updates' :
           \/ updates'[n] = Press(t, a)
           \/ n \in DOMAIN updates /\ updates'[n] = updates[n]
    <3>1. updates \in Seq(Update)
      BY DEF AskTypeOK
    <3> QED
      BY <2>1, <3>1
  <2>3. ASSUME NEW n \in DOMAIN updates', updates'[n].kind = "press"
        PROVE  <<updates'[n].token, updates'[n].answer>> \in pressed'
    <3>1. CASE updates'[n] = Press(t, a)
      <4>1. Press(t, a).token = t /\ Press(t, a).answer = a
        BY DEF Press
      <4>2. updates'[n].token = t /\ updates'[n].answer = a
        BY <3>1, <4>1, Zenon
      <4> QED
        BY <2>1, <4>2
    <3>2. CASE n \in DOMAIN updates /\ updates'[n] = updates[n]
      <4>1. Genuine(updates[n])
        BY <3>2 DEF YesInv
      <4> QED
        BY <2>1, <2>3, <3>2, <4>1 DEF Genuine
    <3> QED
      BY <2>2, <3>1, <3>2
  <2>4. Genuine(bot)'
    BY <2>1 DEF Genuine, YesInv
  <2>5. \A q \in Tokens : answer'[q] = "yes" => <<q, "yes">> \in pressed'
    BY <2>1 DEF YesInv
  <2>6. YesWasPressed'
    BY <2>1 DEF YesInv, YesWasPressed
  <2> QED
    BY <2>3, <2>4, <2>5, <2>6 DEF YesInv, Genuine
<1>4. ASSUME NEW kind \in {"run", "reload"}, Type(kind)
      PROVE  YesInv'
  <2>1. /\ UNCHANGED <<bot, answer, result, pressed>>
        /\ updates' = Append(updates, Command(kind))
    BY <1>4 DEF Type, Arrives, question, askHistory
  <2>2. \A n \in DOMAIN updates' :
           \/ updates'[n] = Command(kind)
           \/ n \in DOMAIN updates /\ updates'[n] = updates[n]
    <3>1. updates \in Seq(Update)
      BY DEF AskTypeOK
    <3> QED
      BY <2>1, <3>1
  <2> QED
    BY <2>1, <2>2 DEF YesInv, Genuine, YesWasPressed, Command
<1>5. CASE BotTake
  <2>1. /\ UNCHANGED <<answer, result, pressed>> /\ updates # <<>>
        /\ bot' = Head(updates) /\ updates' = Tail(updates)
    BY <1>5 DEF BotTake, question, askHistory
  <2>2. /\ 1 \in DOMAIN updates /\ bot' = updates[1]
        /\ \A n \in DOMAIN updates' : n + 1 \in DOMAIN updates /\ updates'[n] = updates[n + 1]
    BY <2>1 DEF AskTypeOK
  <2> QED
    BY <2>1, <2>2 DEF YesInv, Genuine, YesWasPressed
<1>6. CASE BotLook
  <2>1. bot \in BotUpdate /\ bot.at = "look" /\ UNCHANGED <<updates, answer, result, pressed>>
    BY <1>6 DEF BotLook, AskTypeOK, BotUpdate, question, askHistory
  <2>2. Genuine(bot)'
    <3>1. CASE bot' = NoUpdate
      BY <3>1 DEF Genuine, NoUpdate
    <3>2. CASE bot' = [bot EXCEPT !.at = "set"]
      <4>1. bot = Press(bot.token, bot.answer) /\ bot.kind = "press"
        BY <2>1, Shapes
      <4>2. bot' = [kind |-> "press", token |-> bot.token, answer |-> bot.answer, at |-> "set"]
        BY <3>2, <4>1, Setting
      <4> QED
        BY <2>1, <4>1, <4>2 DEF YesInv, Genuine
    <3> QED
      BY <1>6, <3>1, <3>2 DEF BotLook
  <2> QED
    BY <2>1, <2>2 DEF YesInv, Genuine, YesWasPressed
<1>7. CASE BotSet
  <2>1. /\ bot.token \in Tokens /\ bot.kind = "press"
        /\ bot' = NoUpdate
        /\ UNCHANGED <<updates, result, pressed>>
        /\ answer' = [answer EXCEPT ![bot.token] = bot.answer]
    BY <1>7, Shapes DEF BotSet, AskTypeOK, BotUpdate
  <2>2. \A t \in Tokens : answer'[t] = IF t = bot.token THEN bot.answer ELSE answer[t]
    BY <2>1 DEF AskTypeOK
  <2> QED
    BY <2>1, <2>2 DEF YesInv, Genuine, YesWasPressed, NoUpdate
<1>8. CASE RunEnter \/ RunRefused \/ RunLeave \/ Reload \/ ReloadFails
  <2>1. /\ UNCHANGED <<updates, answer, result, pressed>>
        /\ bot' \in {NoUpdate, [Command("run") EXCEPT !.at = "running"]}
    BY <1>8 DEF RunEnter, RunRefused, RunLeave, Reload, ReloadFails, question, askHistory
  <2>2. bot'.kind # "press"
    BY <2>1, Running DEF NoUpdate
  <2> QED
    BY <2>1, <2>2 DEF YesInv, Genuine, YesWasPressed
<1> QED
  BY <1>1, <1>2, <1>3, <1>4, <1>5, <1>6, <1>7, <1>8 DEF AskNext, Asking, Operator, Bot

THEOREM QuestionsAreSound == AskSpec => []QuestionsInv
<1>1. AskInit => QuestionsInv
  <2> SUFFICES ASSUME AskInit
               PROVE  QuestionsInv
    OBVIOUS
  <2>1. updates \in Seq(Update) /\ DOMAIN updates = {}
    BY DEF AskInit
  <2>2. bot \in Update \cup {NoUpdate, [Command("run") EXCEPT !.at = "running"]}
    BY Zenon DEF AskInit
  <2>3. AskTypeOK
    BY <2>1, <2>2, QuestionsAssumption DEF AskInit, AskTypeOK
  <2>4. AskerInv /\ Genuine(bot)
    BY DEF AskInit, AskerInv, Genuine, NoUpdate
  <2>5. YesWasPressed /\ \A t \in Tokens : answer[t] # "yes"
    BY DEF AskInit, YesWasPressed, None
  <2> QED
    BY <2>1, <2>3, <2>4, <2>5 DEF QuestionsInv, YesInv
<1>2. QuestionsInv /\ [AskNext]_askVars => QuestionsInv'
  BY AskTypeStep, YesStep DEF QuestionsInv
<1> QED
  BY <1>1, <1>2, PTL DEF AskSpec

\* The types.
THEOREM QuestionsTypeOK == AskSpec => []AskTypeOK
<1>1. QuestionsInv => AskTypeOK
  BY DEF QuestionsInv
<1> QED
  BY <1>1, QuestionsAreSound, PTL

\* A yes is a yes to that question.
THEOREM YesMeansYes == AskSpec => []YesWasPressed
<1>1. QuestionsInv => YesWasPressed
  BY DEF QuestionsInv, YesInv
<1> QED
  BY <1>1, QuestionsAreSound, PTL
=============================================================================
