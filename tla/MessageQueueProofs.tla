------------------------- MODULE MessageQueueProofs -------------------------
(***************************************************************************)
(* No message is forgotten in a MessageQueue, and each producer's arrive   *)
(* in order, for any number of producers and messages, any bound of the    *)
(* queue and any size of the pipe.                                         *)
(*                                                                         *)
(* The queue inside is a ConcurrentQueue, so what ConcurrentQueueProofs    *)
(* shows of it holds here.                                                 *)
(***************************************************************************)
EXTENDS MessageQueue, FiniteSetTheorems, SequenceTheorems, TLAPS

QP == INSTANCE ConcurrentQueueProofs WITH
        Threads <- Producers \cup {LoopThread},
        Items <- Messages,
        MaxLen <- MaxMessages * Cardinality(Producers)

Sent == sent \in [Producers -> 0 .. MaxMessages]

(* The constants keep the assumptions of ConcurrentQueue. *)
LEMMA QueueAssumptions ==
    /\ IsFiniteSet(Producers \cup {LoopThread})
    /\ Messages # {}
    /\ max_size \in Nat /\ MaxMessages * Cardinality(Producers) \in Nat
<1>1. IsFiniteSet(Producers \cup {LoopThread})
  BY PipeAssumption, FS_AddElement
<1>2. Messages # {}
  <2>1. PICK p \in Producers : TRUE
    BY PipeAssumption
  <2>2. [from |-> p, n |-> 0] \in Messages
    BY PipeAssumption DEF Messages
  <2> QED
    BY <2>2
<1>3. Cardinality(Producers) \in Nat
  BY PipeAssumption, FS_CardinalityType
<1> QED
  BY <1>1, <1>2, <1>3, PipeAssumption

(* Every step is a step of the queue, or does not concern it. *)
LEMMA StepIsQueueStep == Sent /\ [Next]_vars => Sent' /\ [QP!Next]_(QP!vars)
<1> SUFFICES ASSUME Sent, [Next]_vars
             PROVE  Sent' /\ (QP!Next \/ UNCHANGED QP!vars)
  OBVIOUS
<1>1. ASSUME NEW p \in Producers, Push(p)
      PROVE  Sent' /\ QP!Next
  <2>1. sent[p] \in 0 .. MaxMessages /\ sent[p] < MaxMessages /\ MaxMessages \in Nat
    BY <1>1, PipeAssumption DEF Push, Sent
  <2>2. [from |-> p, n |-> sent[p] + 1] \in Messages
    BY <2>1 DEF Messages
  <2>3. Sent'
    BY <1>1, <2>1 DEF Push, Sent
  <2>4. QP!Next
    BY <1>1, <2>2 DEF Push, Q!CallPush, QP!CallPush, QP!Call, QP!Next
  <2> QED
    BY <2>3, <2>4
<1>2. ASSUME NEW p \in Producers, PushItem(p)
      PROVE  QP!Next /\ UNCHANGED sent
  BY <1>2 DEF PushItem, QP!Next, QP!Critical, Q!PushWaits, QP!PushWaits, Q!push, QP!push,
     Q!pushBack, QP!pushBack, Q!fullNoLock, QP!fullNoLock, Q!notifyOne, QP!notifyOne,
     Q!Waiting, QP!Waiting, Q!Retry, QP!Retry
<1>3. ASSUME NEW p \in Producers, SpuriousWakeup(p)
      PROVE  QP!Next /\ UNCHANGED sent
  BY <1>3 DEF SpuriousWakeup, QP!Next, Q!SpuriousWakeup, QP!SpuriousWakeup, Q!Retry, QP!Retry
<1>4. ASSUME Pop
      PROVE  QP!Next /\ UNCHANGED sent
  BY <1>4 DEF Pop, QP!Next, QP!Call, Q!popIfNotEmpty, QP!popIfNotEmpty, Q!popFront,
     QP!popFront, Q!notifyOne, QP!notifyOne, Q!Waiting, QP!Waiting, Q!Retry, QP!Retry
<1>5. ASSUME \/ \E p \in Producers : PushByte(p)
             \/ yield \/ Signal
             \/ EpollWait \/ ReadPipe \/ CallRecv \/ RecvReturns
             \/ EpollSignal \/ ReadSignal \/ NoMoreSignals
             \/ UNCHANGED vars
      PROVE  UNCHANGED <<queue, pc, item, sent>>
  BY <1>5 DEF PushByte, yield, Signal, EpollWait, ReadPipe, CallRecv, RecvReturns,
     EpollSignal, ReadSignal, NoMoreSignals, vars, messageVars
<1>6. UNCHANGED <<queue, pc, item, sent>> => Sent' /\ UNCHANGED QP!vars
  BY DEF Sent, QP!vars
<1>7. UNCHANGED sent => Sent'
  BY DEF Sent
<1> QED
  BY <1>1, <1>2, <1>3, <1>4, <1>5, <1>6, <1>7 DEF Next, Producer, Loop

(* The queue of the MessageQueue behaves as ConcurrentQueue says. *)
LEMMA ImplementsConcurrentQueue == Spec => QP!Spec
<1>1. Init => Sent /\ QP!Init
  BY PipeAssumption DEF Init, Sent, Q!Init, QP!Init
<1> QED
  BY <1>1, StepIsQueueStep, PTL DEF Spec, QP!Spec

(* The queue inside is never over its bound, and no producer sleeps in push  *)
(* through room that pop made.                                               *)
THEOREM QueueIsSound == Spec => []QP!TypeOK /\ []QP!NoLostNotification
<1>1. /\ QP!ThreadsAssumption
      /\ QP!ItemsAssumption
      /\ QP!SizeAssumption
  <2>1. QP!ThreadsAssumption
    BY QueueAssumptions DEF QP!ThreadsAssumption, IsFiniteSet, QP!IsFiniteSet
  <2>2. QP!ItemsAssumption
    BY QueueAssumptions DEF QP!ItemsAssumption
  <2>3. QP!SizeAssumption
    BY QueueAssumptions DEF QP!SizeAssumption
  <2> QED
    BY <2>1, <2>2, <2>3
<1>2. QP!Spec => []QP!TypeOK
  BY <1>1, QP!TypeCorrect
<1>3. QP!Spec => []QP!NoLostNotification
  BY <1>1, QP!NotificationsAreNeverLost
<1> QED
  BY <1>2, <1>3, ImplementsConcurrentQueue, PTL

----------------------------------------------------------------------------
(* Only the producers push and wait; the loop's thread never blocks.       *)
Places ==
    /\ Q!TypeOK
    /\ pc[LoopThread] = "idle"
    /\ \A p \in Producers : pc[p] \in {"idle", "push", "not_full"}

(* What a notification does: a waiting producer goes back to the test for  *)
(* room, and only t, which returns, becomes idle.                          *)
LEMMA Notified ==
    ASSUME Places, NEW t \in Producers \cup {LoopThread}, pc[t] \in {"idle", "push"},
           NEW cond \in {"not_full", "not_empty"},
           Q!notifyOne(cond, [pc EXCEPT ![t] = "idle"])
    PROVE  /\ pc' \in [Producers \cup {LoopThread} ->
                          {"idle", "push", "not_full", "pop", "not_empty"}]
           /\ pc'[LoopThread] = "idle"
           /\ \A p \in Producers : pc'[p] \in {"idle", "push", "not_full"}
           /\ \A p \in Producers : pc'[p] = "idle" <=> p = t \/ pc[p] = "idle"
<1>1. pc \in [Producers \cup {LoopThread} -> {"idle", "push", "not_full", "pop", "not_empty"}]
  BY DEF Places, Q!TypeOK
<1>2. CASE Q!Waiting(cond) = {}
  <2>1. pc' = [pc EXCEPT ![t] = "idle"]
    BY <1>2 DEF Q!notifyOne
  <2> QED
    BY <1>1, <2>1, PipeAssumption DEF Places
<1>3. CASE Q!Waiting(cond) # {}
  <2>1. PICK u \in Q!Waiting(cond) :
            pc' = [[pc EXCEPT ![t] = "idle"] EXCEPT ![u] = Q!Retry(cond)]
    BY <1>3 DEF Q!notifyOne
  <2>2. u \in Producers \cup {LoopThread} /\ pc[u] = cond
    BY <2>1 DEF Q!Waiting
  <2>3. u \in Producers /\ cond = "not_full" /\ u # t
    BY <2>2, PipeAssumption DEF Places
  <2>4. pc' = [v \in Producers \cup {LoopThread} |->
                  IF v = u THEN "push" ELSE IF v = t THEN "idle" ELSE pc[v]]
    BY <1>1, <2>1, <2>2, <2>3 DEF Q!Retry
  <2> QED
    BY <1>1, <2>2, <2>3, <2>4, PipeAssumption DEF Places
<1> QED
  BY <1>2, <1>3

(* Where a message that is taken over by push has got to. *)
Pushed(p) == IF pc[p] = "idle" THEN sent[p] ELSE sent[p] - 1

(* What a producer in push holds; and the queue holds, for each producer,  *)
(* the messages after the last received one up to the last appended one,   *)
(* each once and in their order.                                           *)
Held ==
    \A p \in Producers : pc[p] # "idle" => sent[p] >= 1 /\ item[p] = [from |-> p, n |-> sent[p]]

(* How many messages of a producer were received. *)
Got(p) == Len(received[p])

Between ==
    \A i \in 1 .. Len(queue) :
        /\ Got(queue[i].from) < queue[i].n
        /\ queue[i].n <= Pushed(queue[i].from)

Ordered ==
    \A i, j \in 1 .. Len(queue) :
        i < j /\ queue[i].from = queue[j].from => queue[i].n < queue[j].n

Complete ==
    \A p \in Producers : \A n \in 1 .. MaxMessages :
        Got(p) < n /\ n <= Pushed(p) =>
            \E i \in 1 .. Len(queue) : queue[i].from = p /\ queue[i].n = n

NotAhead == \A p \in Producers : Got(p) <= Pushed(p)

Order == Held /\ Between /\ Ordered /\ Complete /\ NotAhead

IInv == TypeOK /\ Places /\ NoMessageForgotten /\ Order /\ ReceivedInOrder

LEMMA GotIsNat == TypeOK => \A q \in Producers : Got(q) \in Nat
BY DEF TypeOK, Got

LEMMA InitIInv == Init => IInv
<1> SUFFICES ASSUME Init PROVE IInv
  OBVIOUS
<1>1. Q!TypeOK
  <2>1. (CHOOSE x \in Messages : TRUE) \in Messages
    BY QueueAssumptions
  <2> QED
    BY <2>1, PipeAssumption DEF Init, Q!Init, Q!TypeOK
<1>2. TypeOK /\ Places /\ NoMessageForgotten
  BY <1>1, PipeAssumption DEF Init, Q!Init, TypeOK, Places, NoMessageForgotten
<1>3. \A p \in Producers : Got(p) = 0
  BY DEF Init, Got
<1>4. Order
  BY <1>3, PipeAssumption
     DEF Init, Q!Init, Order, Held, Between, Ordered, Complete, NotAhead, Pushed
<1>5. ReceivedInOrder
  BY DEF Init, ReceivedInOrder
<1> QED
  BY <1>2, <1>4, <1>5 DEF IInv

(* Every entry of the queue is a message of a producer. *)
LEMMA Entries ==
    ASSUME queue \in Seq(Messages)
    PROVE  /\ Len(queue) \in Nat
           /\ \A i \in 1 .. Len(queue) : queue[i] \in Messages
           /\ \A i \in 1 .. Len(queue) : queue[i].from \in Producers
                                         /\ queue[i].n \in 0 .. MaxMessages
<1>1. Len(queue) \in Nat /\ \A i \in 1 .. Len(queue) : queue[i] \in Messages
  OBVIOUS
<1>2. \A m \in Messages : m.from \in Producers /\ m.n \in 0 .. MaxMessages
  BY DEF Messages
<1> QED
  BY <1>1, <1>2

(* A producer that comes to push takes a message that is not pushed yet.   *)
LEMMA PushKeepsIInv == ASSUME IInv, NEW p \in Producers, Push(p) PROVE IInv'
<1>1. /\ pc \in [Producers \cup {LoopThread} -> {"idle", "push", "not_full", "pop", "not_empty"}]
      /\ item \in [Producers \cup {LoopThread} -> Messages]
      /\ sent \in [Producers -> 0 .. MaxMessages]
      /\ \A q \in Producers : Got(q) \in Nat
      /\ MaxMessages \in Nat
  BY PipeAssumption, GotIsNat DEF IInv, TypeOK, Q!TypeOK
<1>2. /\ pc[p] = "idle" /\ p # LoopThread
      /\ sent[p] < MaxMessages
      /\ pc' = [pc EXCEPT ![p] = "push"]
      /\ sent' = [sent EXCEPT ![p] = sent[p] + 1]
      /\ item' = [item EXCEPT ![p] = [from |-> p, n |-> sent[p] + 1]]
      /\ p \notin owes
      /\ UNCHANGED <<queue, owes, pipe, loop, yields, received>>
  BY PipeAssumption DEF Push, Q!CallPush
<1>3. sent[p] + 1 \in 0 .. MaxMessages
  BY <1>1, <1>2
<1>4. [from |-> p, n |-> sent[p] + 1] \in Messages
  BY <1>3 DEF Messages
<1>5. Q!TypeOK'
  BY <1>1, <1>2, <1>4 DEF IInv, TypeOK, Q!TypeOK
<1>6. TypeOK'
  BY <1>1, <1>2, <1>3, <1>5 DEF IInv, TypeOK
<1>7. Places'
  BY <1>1, <1>2, <1>5 DEF IInv, Places
<1>8. NoMessageForgotten'
  BY <1>2 DEF IInv, NoMessageForgotten
<1>9. \A q \in Producers : Pushed(q)' = Pushed(q)
  BY <1>1, <1>2 DEF Pushed
<1>10. Held'
  BY <1>1, <1>2, <1>3 DEF IInv, Order, Held
<1>11. \A i \in 1 .. Len(queue) : queue[i].from \in Producers
  BY Entries DEF IInv, TypeOK, Q!TypeOK
<1>12. Between' /\ Ordered' /\ Complete' /\ NotAhead'
  BY <1>2, <1>9, <1>11 DEF IInv, Order, Between, Ordered, Complete, NotAhead, Got
<1>13. ReceivedInOrder'
  BY <1>2 DEF IInv, ReceivedInOrder
<1> QED
  BY <1>6, <1>7, <1>8, <1>10, <1>12, <1>13 DEF IInv, Order

(* What does not touch the messages, and makes no thread idle, keeps their *)
(* order.                                                                  *)
LEMMA FrameKeepsOrder ==
    ASSUME IInv, UNCHANGED <<queue, item, sent, received>>,
           \A q \in Producers : pc'[q] = "idle" <=> pc[q] = "idle"
    PROVE  Order'
<1>1. \A q \in Producers : Pushed(q)' = Pushed(q)
  BY DEF Pushed
<1>2. \A i \in 1 .. Len(queue) : queue[i].from \in Producers
  BY Entries DEF IInv, TypeOK, Q!TypeOK
<1> QED
  BY <1>1, <1>2 DEF IInv, Order, Held, Between, Ordered, Complete, NotAhead, Got

(* The message p holds comes behind all others of p.                       *)
LEMMA AppendKeepsOrder ==
    ASSUME IInv, NEW p \in Producers, pc[p] = "push",
           queue' = Append(queue, item[p]),
           UNCHANGED <<item, sent, received>>,
           \A q \in Producers : pc'[q] = "idle" <=> q = p \/ pc[q] = "idle"
    PROVE  Order'
<1>1. /\ queue \in Seq(Messages) /\ item[p] \in Messages
      /\ sent \in [Producers -> 0 .. MaxMessages]
      /\ \A q \in Producers : Got(q) \in Nat
      /\ MaxMessages \in Nat
  BY PipeAssumption, GotIsNat DEF IInv, TypeOK, Q!TypeOK
<1>2. sent[p] >= 1 /\ item[p].from = p /\ item[p].n = sent[p]
  <2>1. sent[p] >= 1 /\ item[p] = [from |-> p, n |-> sent[p]]
    <3>1. pc[p] # "idle"
      OBVIOUS
    <3> QED
      BY <3>1 DEF IInv, Order, Held
  <2> QED
    BY <2>1
<1>3. /\ Len(queue) \in Nat
      /\ Len(queue') = Len(queue) + 1
      /\ queue'[Len(queue) + 1] = item[p]
      /\ \A i \in 1 .. Len(queue) : queue'[i] = queue[i] /\ queue[i].from \in Producers
                                     /\ queue[i].n \in 0 .. MaxMessages
  BY <1>1, Entries
<1>4. \A q \in Producers : Pushed(q)' = IF q = p THEN Pushed(q) + 1 ELSE Pushed(q)
  BY <1>1 DEF Pushed
<1>5. Pushed(p) = sent[p] - 1 /\ Pushed(p)' = sent[p] /\ \A q \in Producers : Pushed(q) \in Int
  BY <1>1, <1>4 DEF Pushed
<1>11. \A q \in Producers : Got(q)' = Got(q)
  BY DEF Got
<1>6. Held'
  <2>1. \A q \in Producers : pc'[q] # "idle" => pc[q] # "idle"
    OBVIOUS
  <2> QED
    BY <2>1 DEF IInv, Order, Held
<1>7. NotAhead'
  BY <1>1, <1>4, <1>5, <1>11, SMTT(30) DEF IInv, Order, NotAhead
<1>8. Between'
  <2> SUFFICES ASSUME NEW i \in 1 .. Len(queue')
               PROVE  (Got(queue[i].from) < queue[i].n
                          /\ queue[i].n <= Pushed(queue[i].from))'
    BY DEF Between
  <2>1. CASE i \in 1 .. Len(queue)
    <3>1. Got(queue[i].from) < queue[i].n /\ queue[i].n <= Pushed(queue[i].from)
      BY <2>1 DEF IInv, Order, Between
    <3>2. queue'[i] = queue[i] /\ queue[i].from \in Producers /\ queue[i].n \in Int
      BY <1>3, <2>1
    <3> QED
      BY <1>4, <1>5, <1>11, <3>1, <3>2
  <2>2. CASE i = Len(queue) + 1
    <3>1. Got(p) <= sent[p] - 1 /\ Got(p) \in Int /\ sent[p] \in Int
      BY <1>1, <1>5 DEF IInv, Order, NotAhead
    <3> QED
      BY <1>2, <1>3, <1>5, <1>11, <2>2, <3>1
  <2> QED
    BY <1>3, <2>1, <2>2
<1>9. Ordered'
  <2> SUFFICES ASSUME NEW i \in 1 .. Len(queue'), NEW j \in 1 .. Len(queue'), i < j,
                      queue'[i].from = queue'[j].from
               PROVE  queue'[i].n < queue'[j].n
    BY DEF Ordered
  <2>1. i \in 1 .. Len(queue)
    BY <1>3
  <2>2. CASE j \in 1 .. Len(queue)
    BY <1>3, <2>1, <2>2 DEF IInv, Order, Ordered
  <2>3. CASE j = Len(queue) + 1
    <3>1. queue[i].n <= sent[p] - 1
      BY <1>2, <1>3, <1>5, <2>1, <2>3 DEF IInv, Order, Between
    <3>2. queue[i].n \in Int /\ sent[p] \in Int
      BY <1>1, <1>3, <2>1
    <3> QED
      BY <1>2, <1>3, <2>1, <2>3, <3>1, <3>2
  <2> QED
    BY <1>3, <2>2, <2>3
<1>10. Complete'
  <2> SUFFICES ASSUME NEW q \in Producers, NEW n \in 1 .. MaxMessages,
                      Got(q) < n, n <= Pushed(q)'
               PROVE  \E i \in 1 .. Len(queue') : queue'[i].from = q /\ queue'[i].n = n
    BY <1>11 DEF Complete
  <2>1. CASE n <= Pushed(q)
    <3>1. PICK i \in 1 .. Len(queue) : queue[i].from = q /\ queue[i].n = n
      BY <2>1 DEF IInv, Order, Complete
    <3> QED
      BY <1>3, <3>1
  <2>2. CASE ~ (n <= Pushed(q))
    <3>1. q = p /\ n = sent[p]
      <4>1. q = p
        BY <1>4, <2>2
      <4>2. sent[p] \in Int /\ n \in Int
        BY <1>1
      <4> QED
        BY <1>5, <2>2, <4>1, <4>2
    <3>2. Len(queue) + 1 \in 1 .. Len(queue')
      BY <1>3
    <3> QED
      BY <1>2, <1>3, <3>1, <3>2
  <2> QED
    BY <2>1, <2>2
<1> QED
  BY <1>6, <1>7, <1>8, <1>9, <1>10 DEF Order

LEMMA PushItemKeepsIInv == ASSUME IInv, NEW p \in Producers, PushItem(p) PROVE IInv'
<1>1. /\ pc \in [Producers \cup {LoopThread} -> {"idle", "push", "not_full", "pop", "not_empty"}]
      /\ item \in [Producers \cup {LoopThread} -> Messages]
      /\ queue \in Seq(Messages) /\ item[p] \in Messages
      /\ max_size \in Nat /\ p # LoopThread
  BY PipeAssumption DEF IInv, TypeOK, Q!TypeOK
<1>2. pc[p] = "push" /\ UNCHANGED <<item, sent, pipe, loop, yields, received>>
  BY DEF PushItem, Q!PushWaits, Q!push
<1>5. ReceivedInOrder'
  BY <1>2 DEF IInv, ReceivedInOrder
<1>3. CASE Q!PushWaits(p) /\ UNCHANGED owes
  <2>1. pc' = [pc EXCEPT ![p] = "not_full"] /\ UNCHANGED <<queue, owes>>
    BY <1>3 DEF Q!PushWaits
  <2>2. TypeOK' /\ Places' /\ NoMessageForgotten'
    BY <1>1, <1>2, <2>1 DEF IInv, TypeOK, Places, NoMessageForgotten, Q!TypeOK
  <2>3. Order'
    BY <1>1, <1>2, <2>1, FrameKeepsOrder
  <2> QED
    BY <1>5, <2>2, <2>3 DEF IInv
<1>4. CASE Q!push(p) /\ owes' = owes \cup {p}
  <2>1. /\ queue' = Append(queue, item[p])
        /\ Q!notifyOne("not_empty", [pc EXCEPT ![p] = "idle"])
        /\ ~ Q!fullNoLock
    BY <1>4 DEF Q!push, Q!pushBack
  <2>2. /\ pc' \in [Producers \cup {LoopThread} ->
                       {"idle", "push", "not_full", "pop", "not_empty"}]
        /\ pc'[LoopThread] = "idle"
        /\ \A q \in Producers : pc'[q] \in {"idle", "push", "not_full"}
        /\ \A q \in Producers : pc'[q] = "idle" <=> q = p \/ pc[q] = "idle"
    BY <1>2, <2>1, Notified DEF IInv
  <2>3. Order'
    BY <1>2, <2>1, <2>2, AppendKeepsOrder
  <2>4. Q!TypeOK'
    <3>1. queue' \in Seq(Messages) /\ Len(queue') = Len(queue) + 1 /\ Len(queue) \in Nat
      BY <1>1, <2>1
    <3>2. max_size # 0 => Len(queue) < max_size
      BY <1>1, <2>1, <3>1 DEF Q!fullNoLock
    <3>3. max_size # 0 => Len(queue') <= max_size
      BY <1>1, <3>1, <3>2
    <3> QED
      BY <1>1, <1>2, <2>2, <3>1, <3>3 DEF Q!TypeOK
  <2>5. TypeOK' /\ Places' /\ NoMessageForgotten'
    BY <1>2, <1>4, <2>2, <2>4 DEF IInv, TypeOK, Places, NoMessageForgotten
  <2> QED
    BY <1>5, <2>3, <2>5 DEF IInv
<1> QED
  BY <1>3, <1>4 DEF PushItem

LEMMA SpuriousKeepsIInv == ASSUME IInv, NEW p \in Producers, SpuriousWakeup(p) PROVE IInv'
<1>1. /\ pc \in [Producers \cup {LoopThread} -> {"idle", "push", "not_full", "pop", "not_empty"}]
      /\ p # LoopThread
  BY PipeAssumption DEF IInv, TypeOK, Q!TypeOK
<1>2. /\ pc[p] = "not_full"
      /\ pc' = [pc EXCEPT ![p] = "push"]
      /\ UNCHANGED <<queue, item, sent, owes, pipe, loop, yields, received>>
  BY DEF SpuriousWakeup, Q!SpuriousWakeup, Q!Retry, IInv, Places
<1>3. TypeOK' /\ Places' /\ NoMessageForgotten'
  BY <1>1, <1>2 DEF IInv, TypeOK, Places, NoMessageForgotten, Q!TypeOK
<1>4. Order'
  BY <1>1, <1>2, FrameKeepsOrder
<1>5. ReceivedInOrder'
  BY <1>2 DEF IInv, ReceivedInOrder
<1> QED
  BY <1>3, <1>4, <1>5 DEF IInv

(* The message at the head is the one after the last received from its     *)
(* producer.                                                               *)
LEMMA HeadIsNext ==
    ASSUME IInv, queue # <<>>
    PROVE  Head(queue).from \in Producers /\ Head(queue).n = Got(Head(queue).from) + 1
<1> DEFINE p == Head(queue).from
           n == Head(queue).n
<1>1. queue \in Seq(Messages) /\ MaxMessages \in Nat /\ \A q \in Producers : Got(q) \in Nat
  BY PipeAssumption, GotIsNat DEF IInv, TypeOK, Q!TypeOK
<1>2. Len(queue) \in Nat /\ 1 \in 1 .. Len(queue) /\ Head(queue) = queue[1] /\ queue[1] \in Messages
  BY <1>1
<1>3. p \in Producers /\ n \in 0 .. MaxMessages /\ queue[1].from = p /\ queue[1].n = n
  BY <1>2 DEF Messages
<1>4. Got(p) < n /\ n <= Pushed(p) /\ Got(p) \in Nat /\ n \in Nat /\ Pushed(p) \in Int
  <2>1. Got(p) < n /\ n <= Pushed(p)
    BY <1>2, <1>3 DEF IInv, Order, Between
  <2>2. sent \in [Producers -> 0 .. MaxMessages]
    BY DEF IInv, TypeOK
  <2>3. sent[p] \in Int
    BY <1>1, <1>3, <2>2
  <2>4. Pushed(p) \in Int
    BY <2>3 DEF Pushed
  <2> QED
    BY <1>1, <1>3, <2>1, <2>4
<1>5. CASE Got(p) + 1 < n
  <2>1. Got(p) + 1 \in 1 .. MaxMessages /\ Got(p) + 1 <= Pushed(p)
        /\ Got(p) < Got(p) + 1
    BY <1>1, <1>3, <1>4, <1>5
  <2>2. PICK i \in 1 .. Len(queue) : queue[i].from = p /\ queue[i].n = Got(p) + 1
    BY <1>3, <2>1 DEF IInv, Order, Complete
  <2>3. i # 1
    BY <1>3, <1>4, <1>5, <2>2
  <2>4. 1 < i
    BY <1>2, <2>2, <2>3
  <2>5. queue[1].n < queue[i].n
    BY <1>2, <1>3, <2>2, <2>4 DEF IInv, Order, Ordered
  <2> QED
    BY <1>3, <1>4, <1>5, <2>2, <2>5
<1> QED
  BY <1>3, <1>4, <1>5

(* What is left after a pop follows the message popped.                    *)
LEMMA PopKeepsOrder ==
    ASSUME IInv, queue # <<>>, queue' = Tail(queue),
           received' = [received EXCEPT ![Head(queue).from] = Append(@, Head(queue).n)],
           UNCHANGED <<item, sent>>,
           \A q \in Producers : pc'[q] = "idle" <=> pc[q] = "idle"
    PROVE  Order'
<1> DEFINE p == Head(queue).from
           n == Head(queue).n
<1>1. /\ queue \in Seq(Messages) /\ MaxMessages \in Nat
      /\ \A q \in Producers : Got(q) \in Nat
      /\ sent \in [Producers -> 0 .. MaxMessages]
      /\ received \in [Producers -> Seq(0 .. MaxMessages)]
  BY PipeAssumption, GotIsNat DEF IInv, TypeOK, Q!TypeOK
<1>2. p \in Producers /\ n = Got(p) + 1
  BY HeadIsNext
<1>3. /\ Len(queue) \in Nat /\ Len(queue) >= 1
      /\ queue[1].from = p /\ queue[1].n = n
      /\ \A i \in 1 .. Len(queue) : queue[i].from \in Producers
                                     /\ queue[i].n \in 0 .. MaxMessages
  BY <1>1, Entries
<1>4. Len(queue') = Len(queue) - 1 /\ \A i \in 1 .. Len(queue') :
          i + 1 \in 1 .. Len(queue) /\ queue'[i] = queue[i + 1]
  BY <1>1
<1>5. \A q \in Producers : Got(q)' = IF q = p THEN n ELSE Got(q)
  <2>1. /\ received'[p] = Append(received[p], n)
        /\ \A q \in Producers : q # p => received'[q] = received[q]
    BY <1>1, <1>2
  <2>2. Len(received'[p]) = Len(received[p]) + 1
    BY <1>1, <1>2, <2>1
  <2> QED
    BY <1>2, <2>1, <2>2 DEF Got
<1>6. \A q \in Producers : Pushed(q)' = Pushed(q)
  BY DEF Pushed
<1>7. Held'
  <2>1. \A q \in Producers : pc'[q] # "idle" => pc[q] # "idle"
    OBVIOUS
  <2> QED
    BY <2>1 DEF IInv, Order, Held
<1>8. n <= Pushed(p)
  BY <1>3 DEF IInv, Order, Between
<1>9. NotAhead'
  BY <1>2, <1>5, <1>6, <1>8 DEF IInv, Order, NotAhead
<1>10. Between'
  <2> SUFFICES ASSUME NEW i \in 1 .. Len(queue')
               PROVE  (Got(queue[i].from) < queue[i].n
                          /\ queue[i].n <= Pushed(queue[i].from))'
    BY DEF Between
  <2>1. i + 1 \in 1 .. Len(queue) /\ queue'[i] = queue[i + 1] /\ i + 1 # 1 /\ 1 < i + 1
    BY <1>4
  <2>2. /\ Got(queue[i + 1].from) < queue[i + 1].n
        /\ queue[i + 1].n <= Pushed(queue[i + 1].from)
        /\ queue[i + 1].from \in Producers
    BY <1>3, <2>1 DEF IInv, Order, Between
  <2>3. queue[i + 1].from = p => n < queue[i + 1].n
    <3>1. 1 \in 1 .. Len(queue)
      BY <1>3
    <3> QED
      BY <1>3, <2>1, <3>1 DEF IInv, Order, Ordered
  <2> QED
    BY <1>5, <1>6, <2>1, <2>2, <2>3
<1>11. Ordered'
  <2> SUFFICES ASSUME NEW i \in 1 .. Len(queue'), NEW j \in 1 .. Len(queue'), i < j,
                      queue'[i].from = queue'[j].from
               PROVE  queue'[i].n < queue'[j].n
    BY DEF Ordered
  <2>1. i + 1 \in 1 .. Len(queue) /\ j + 1 \in 1 .. Len(queue) /\ i + 1 < j + 1
        /\ queue'[i] = queue[i + 1] /\ queue'[j] = queue[j + 1]
    BY <1>4
  <2> QED
    BY <2>1 DEF IInv, Order, Ordered
<1>12. Complete'
  <2> SUFFICES ASSUME NEW q \in Producers, NEW k \in 1 .. MaxMessages,
                      Got(q)' < k, k <= Pushed(q)'
               PROVE  \E i \in 1 .. Len(queue') : queue'[i].from = q /\ queue'[i].n = k
    BY DEF Complete
  <2>1. Got(q) < k /\ k <= Pushed(q)
    <3>1. Got(q) \in Nat /\ n \in Nat /\ k \in Nat
      BY <1>1, <1>2
    <3>2. Got(q) <= Got(q)'
      BY <1>2, <1>5, <3>1
    <3> QED
      BY <1>2, <1>5, <1>6, <3>1, <3>2
  <2>2. PICK i \in 1 .. Len(queue) : queue[i].from = q /\ queue[i].n = k
    BY <2>1 DEF IInv, Order, Complete
  <2>3. i # 1
    BY <1>2, <1>3, <1>5, <2>2
  <2>4. i - 1 \in 1 .. Len(queue') /\ (i - 1) + 1 = i
    BY <1>3, <1>4, <2>3
  <2>5. queue'[i - 1] = queue[i]
    BY <1>4, <2>4
  <2> QED
    BY <2>2, <2>4, <2>5
<1> QED
  BY <1>7, <1>9, <1>10, <1>11, <1>12 DEF Order

LEMMA PopKeepsIInv == ASSUME IInv, Pop PROVE IInv'
<1>1. /\ pc \in [Producers \cup {LoopThread} -> {"idle", "push", "not_full", "pop", "not_empty"}]
      /\ queue \in Seq(Messages) /\ max_size \in Nat
      /\ received \in [Producers -> Seq(0 .. MaxMessages)] /\ MaxMessages \in Nat
  BY PipeAssumption DEF IInv, TypeOK, Q!TypeOK
<1>2. /\ queue # <<>> /\ queue' = Tail(queue) /\ loop' = "popped"
      /\ received' = [received EXCEPT ![Head(queue).from] = Append(@, Head(queue).n)]
      /\ Q!notifyOne("not_full", [pc EXCEPT ![LoopThread] = "idle"])
      /\ UNCHANGED <<item, sent, owes, pipe, yields>>
  BY DEF Pop, Q!popIfNotEmpty, Q!popFront
<1>3. /\ pc' \in [Producers \cup {LoopThread} ->
                     {"idle", "push", "not_full", "pop", "not_empty"}]
      /\ pc'[LoopThread] = "idle"
      /\ \A q \in Producers : pc'[q] \in {"idle", "push", "not_full"}
      /\ \A q \in Producers : pc'[q] = "idle" <=> q = LoopThread \/ pc[q] = "idle"
  BY <1>2, Notified DEF IInv, Places
<1>4. \A q \in Producers : pc'[q] = "idle" <=> pc[q] = "idle"
  BY <1>3, PipeAssumption
<1>5. Order'
  BY <1>2, <1>4, PopKeepsOrder
<1>6. Q!TypeOK'
  <2>1. queue' \in Seq(Messages) /\ Len(queue') = Len(queue) - 1 /\ Len(queue) \in Nat
    BY <1>1, <1>2
  <2>2. max_size # 0 => Len(queue') <= max_size
    BY <1>1, <2>1 DEF IInv, TypeOK, Q!TypeOK
  <2> QED
    BY <1>2, <1>3, <2>1, <2>2 DEF IInv, TypeOK, Q!TypeOK
<1> DEFINE p == Head(queue).from
           n == Head(queue).n
<1>7. received' \in [Producers -> Seq(0 .. MaxMessages)] /\ ReceivedInOrder'
  <2>1. p \in Producers /\ n = Len(received[p]) + 1
    BY <1>2, HeadIsNext DEF Got
  <2>2. n \in 0 .. MaxMessages
    BY <1>1, <1>2, Entries
  <2>3. received' = [received EXCEPT ![p] = Append(received[p], n)]
    BY <1>2
  <2> HIDE DEF p, n
  <2>4. Append(received[p], n) \in Seq(0 .. MaxMessages)
    BY <1>1, <2>1, <2>2
  <2>5. /\ received' \in [Producers -> Seq(0 .. MaxMessages)]
        /\ received'[p] = Append(received[p], n)
        /\ \A q \in Producers : q # p => received'[q] = received[q]
    BY <1>1, <2>1, <2>3, <2>4
  <2>6. \A k \in 1 .. Len(received[p]) : received[p][k] = k
    BY <2>1 DEF IInv, ReceivedInOrder
  <2>7. \A k \in 1 .. Len(received'[p]) : received'[p][k] = k
    BY <1>1, <2>1, <2>5, <2>6
  <2> QED
    BY <2>5, <2>7 DEF IInv, ReceivedInOrder
<1>8. TypeOK' /\ Places' /\ NoMessageForgotten'
  <2>1. \A q \in owes : pc'[q] = "idle"
    BY <1>4 DEF IInv, TypeOK
  <2>2. TypeOK'
    BY <1>2, <1>3, <1>6, <1>7, <2>1 DEF IInv, TypeOK
  <2> QED
    BY <1>2, <1>3, <1>6, <2>2 DEF Places, NoMessageForgotten
<1> QED
  BY <1>5, <1>7, <1>8 DEF IInv

(* The steps about the pipe leave the queue alone.                         *)
LEMMA PipeKeepsIInv ==
    ASSUME IInv,
           \/ \E p \in Producers : PushByte(p)
           \/ yield \/ Signal
           \/ EpollWait \/ ReadPipe \/ CallRecv \/ RecvReturns
           \/ EpollSignal \/ ReadSignal \/ NoMoreSignals
           \/ UNCHANGED vars
    PROVE  IInv'
<1>1. UNCHANGED <<queue, pc, item, sent, received>>
  BY DEF PushByte, yield, Signal, EpollWait, ReadPipe, CallRecv, RecvReturns,
     EpollSignal, ReadSignal, NoMoreSignals, vars, messageVars
<1>2. Places'
  BY <1>1 DEF IInv, Places, Q!TypeOK
<1>3. Order'
  BY <1>1, FrameKeepsOrder
<1>4. /\ pipe \in Nat /\ pipe <= PipeSize /\ PipeSize \in Nat \ {0} /\ ReadSize \in Nat \ {0}
      /\ yields \in 0 .. MaxYields /\ MaxYields \in Nat /\ owes \subseteq Producers
      /\ loop \in {"epoll_wait", "read", "recv_message_cb", "popped", "signal"}
  BY PipeAssumption DEF IInv, TypeOK
<1>5. pipeWrite => pipe' \in 0 .. PipeSize /\ pipe' > 0
  BY <1>4 DEF pipeWrite
<1>6. /\ pipe' \in 0 .. PipeSize /\ yields' \in 0 .. MaxYields /\ owes' \subseteq owes
      /\ loop' \in {"epoll_wait", "read", "recv_message_cb", "popped", "signal"}
  <2>1. CASE ReadPipe
    BY <1>4, <2>1 DEF ReadPipe, messageVars
  <2>2. CASE \E p \in Producers : PushByte(p)
    BY <1>4, <1>5, <2>2 DEF PushByte
  <2>3. CASE yield
    BY <1>4, <1>5, <2>3 DEF yield
  <2>4. CASE RecvReturns
    BY <1>4, <1>5, <2>4 DEF RecvReturns
  <2>5. CASE \/ Signal \/ EpollWait \/ CallRecv
             \/ EpollSignal \/ ReadSignal \/ NoMoreSignals \/ UNCHANGED vars
    BY <1>4, <2>5 DEF Signal, EpollWait, CallRecv, EpollSignal, ReadSignal,
       NoMoreSignals, vars, messageVars
  <2> QED
    BY <2>1, <2>2, <2>3, <2>4, <2>5
<1>7. TypeOK'
  BY <1>1, <1>2, <1>6 DEF IInv, TypeOK, Places
<1>8. NoMessageForgotten'
  BY <1>1, <1>5 DEF IInv, NoMessageForgotten, PushByte, yield, Signal, EpollWait, ReadPipe,
     CallRecv, RecvReturns, EpollSignal, ReadSignal, NoMoreSignals, vars, messageVars
<1>9. ReceivedInOrder'
  BY <1>1 DEF IInv, ReceivedInOrder
<1> QED
  BY <1>2, <1>3, <1>7, <1>8, <1>9 DEF IInv

LEMMA NextIInv == IInv /\ [Next]_vars => IInv'
BY PushKeepsIInv, PushItemKeepsIInv, SpuriousKeepsIInv, PopKeepsIInv, PipeKeepsIInv
   DEF Next, Producer, Loop

LEMMA Invariance == Spec => []IInv
BY InitIInv, NextIInv, PTL DEF Spec

(* A message in the queue is never left without somebody, or some byte,    *)
(* that will bring the loop to it: push appends before it writes its byte, *)
(* and the loop empties the pipe before it pops.                           *)
THEOREM MessagesAreNotForgotten == Spec => []NoMessageForgotten
<1>1. IInv => NoMessageForgotten
  BY DEF IInv
<1> QED
  BY <1>1, Invariance, PTL

(* The loop receives each producer's messages each once, one after the     *)
(* other, as they were given to push.                                      *)
THEOREM MessagesComeInOrder == Spec => []ReceivedInOrder
<1>1. IInv => ReceivedInOrder
  BY DEF IInv
<1> QED
  BY <1>1, Invariance, PTL
=============================================================================
