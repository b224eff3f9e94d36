-------------------------- MODULE ConcurrentQueue --------------------------
(***************************************************************************)
(* The blocking queue threads share (concurrent_queue.h).  Every method    *)
(* holds data_mutex_ from its first line to its last, except while it      *)
(* waits on a condition variable, so an action is what a thread does       *)
(* between taking the mutex and giving it up.  A thread that is woken has  *)
(* still to take the mutex, and others may take it first.                  *)
(*                                                                         *)
(* pushIfNotFull and popIfNotEmpty that return false, peek, size, empty    *)
(* and full change nothing and are left out.                               *)
(***************************************************************************)
EXTENDS Naturals, Sequences, FiniteSets

CONSTANTS
    Threads,
    Items,
    max_size,    \* max_size_: 0 for a queue that is not bounded
    MaxLen       \* bound: items in a queue that is not bounded

ASSUME ThreadsAssumption == IsFiniteSet(Threads)

ASSUME ItemsAssumption == Items # {}

ASSUME SizeAssumption == max_size \in Nat /\ MaxLen \in Nat

VARIABLES
    queue,       \* queue_
    pc,          \* where each thread is, see TypeOK
    item         \* the argument of each thread's push

vars == <<queue, pc, item>>

Init ==
    /\ queue = <<>>
    /\ pc = [t \in Threads |-> "idle"]
    /\ item = [t \in Threads |-> CHOOSE x \in Items : TRUE]

(* Faulty variant: the room that is left is counted one too high. *)
fullNoLock_OffByOne == max_size # 0 /\ Len(queue) > max_size

fullNoLock == max_size # 0 /\ Len(queue) >= max_size

(* The threads waiting on a condition variable, and those on their way to  *)
(* the mutex to test its condition.                                        *)
Waiting(cond) == {t \in Threads : pc[t] = cond}
Testing(method) == {t \in Threads : pc[t] = method}

(* The method whose while loop waits on a condition variable. *)
Retry(cond) == IF cond = "not_full" THEN "push" ELSE "pop"

(* Faulty variant: a waiter is woken only when the queue leaves the state  *)
(* it waits for the end of.                                                *)
notifyOne_OnEdge(cond, pcs) ==
    IF /\ Waiting(cond) # {}
       /\ IF cond = "not_full" THEN fullNoLock ELSE queue = <<>>
    THEN \E t \in Waiting(cond) : pc' = [pcs EXCEPT ![t] = Retry(cond)]
    ELSE pc' = pcs

(* One of the waiting threads, if there is one, is woken; pcs is where the *)
(* threads are otherwise.                                                  *)
notifyOne(cond, pcs) ==
    IF Waiting(cond) # {}
    THEN \E t \in Waiting(cond) : pc' = [pcs EXCEPT ![t] = Retry(cond)]
    ELSE pc' = pcs

(* Faulty variant: the item is put at the end items are taken from. *)
pushBack_Front(t, x) ==
    /\ max_size = 0 => Len(queue) < MaxLen
    /\ queue' = <<x>> \o queue
    /\ notifyOne("not_empty", [pc EXCEPT ![t] = "idle"])

(* push_back and the notification, by a thread that then returns. *)
pushBack(t, x) ==
    /\ max_size = 0 => Len(queue) < MaxLen
    /\ queue' = Append(queue, x)
    /\ notifyOne("not_empty", [pc EXCEPT ![t] = "idle"])

popFront(t) ==
    /\ queue' = Tail(queue)
    /\ notifyOne("not_full", [pc EXCEPT ![t] = "idle"])
    /\ UNCHANGED item

----------------------------------------------------------------------------
CallPush(t, x) ==
    /\ pc[t] = "idle"
    /\ pc' = [pc EXCEPT ![t] = "push"]
    /\ item' = [item EXCEPT ![t] = x]
    /\ UNCHANGED queue

PushWaits(t) ==
    /\ pc[t] = "push"
    /\ fullNoLock
    /\ pc' = [pc EXCEPT ![t] = "not_full"]
    /\ UNCHANGED <<queue, item>>

push(t) ==
    /\ pc[t] = "push"
    /\ ~ fullNoLock
    /\ pushBack(t, item[t])
    /\ UNCHANGED item

pushIfNotFull(t, x) ==
    /\ pc[t] = "idle"
    /\ ~ fullNoLock
    /\ pushBack(t, x)
    /\ UNCHANGED item

CallPop(t) ==
    /\ pc[t] = "idle"
    /\ pc' = [pc EXCEPT ![t] = "pop"]
    /\ UNCHANGED <<queue, item>>

PopWaits(t) ==
    /\ pc[t] = "pop"
    /\ queue = <<>>
    /\ pc' = [pc EXCEPT ![t] = "not_empty"]
    /\ UNCHANGED <<queue, item>>

pop(t) ==
    /\ pc[t] = "pop"
    /\ queue # <<>>
    /\ popFront(t)

popIfNotEmpty(t) ==
    /\ pc[t] = "idle"
    /\ queue # <<>>
    /\ popFront(t)

(* pthread_cond_wait may return without a notification. *)
SpuriousWakeup(t) ==
    \E cond \in {"not_full", "not_empty"} :
        /\ pc[t] = cond
        /\ pc' = [pc EXCEPT ![t] = Retry(cond)]
        /\ UNCHANGED <<queue, item>>

Critical(t) == PushWaits(t) \/ push(t) \/ PopWaits(t) \/ pop(t)

Call(t) ==
    \/ CallPop(t)
    \/ popIfNotEmpty(t)
    \/ \E x \in Items : CallPush(t, x) \/ pushIfNotFull(t, x)

Next == \E t \in Threads : Critical(t) \/ Call(t) \/ SpuriousWakeup(t)

Spec == Init /\ [][Next]_vars

(* A thread that asks for the mutex gets it, and no thread has to call. *)
FairSpec == Spec /\ \A t \in Threads : WF_vars(Critical(t))

----------------------------------------------------------------------------
(* The variables have their types, and a bounded queue never holds more    *)
(* than max_size items, however pushes and pops interleave.                *)
TypeOK ==
    /\ queue \in Seq(Items)
    /\ max_size # 0 => Len(queue) <= max_size
    /\ pc \in [Threads -> {"idle", "push", "not_full", "pop", "not_empty"}]
    /\ item \in [Threads -> Items]

(* While threads wait in push, as many threads are on their way to test    *)
(* for room as there are free places: no notification of the pop methods   *)
(* is lost, though pushIfNotFull may take the place a woken thread was     *)
(* told of.                                                                *)
NoLostNotFull ==
    Waiting("not_full") # {} =>
        max_size <= Len(queue) + Cardinality(Testing("push"))

(* While threads wait in pop, as many threads are on their way to test for *)
(* items as there are items.                                               *)
NoLostNotEmpty ==
    Waiting("not_empty") # {} =>
        Len(queue) <= Cardinality(Testing("pop"))

(* No notification of either condition variable is lost, whichever of the  *)
(* methods of the queue the threads call.                                  *)
NoLostNotification == NoLostNotFull /\ NoLostNotEmpty

(* Threads never sleep on: one that waits in pop while the queue holds     *)
(* items sees the queue emptied by others or is woken, and likewise push.  *)
WaitersAreServed ==
    /\ (queue # <<>> /\ Waiting("not_empty") # {})
          ~> (queue = <<>> \/ Waiting("not_empty") = {})
    /\ (~ fullNoLock /\ Waiting("not_full") # {})
          ~> (fullNoLock \/ Waiting("not_full") = {})
=============================================================================
