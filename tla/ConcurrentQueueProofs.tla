----------------------- MODULE ConcurrentQueueProofs -----------------------
(***************************************************************************)
(* No notification of ConcurrentQueue is lost, for every number of threads *)
(* and every size of the queue.  The two properties are inductive together *)
(* with the types: counting the threads that are awake is what makes them  *)
(* so, since a place or an item may go to a thread that was not woken for  *)
(* it.                                                                     *)
(***************************************************************************)
EXTENDS ConcurrentQueue, FiniteSetTheorems, TLAPS

IInv == TypeOK /\ NoLostNotFull /\ NoLostNotEmpty

(* The set of threads at a place is finite, so it has a size. *)
LEMMA TestingFinite ==
    ASSUME NEW m
    PROVE  IsFiniteSet(Testing(m)) /\ Cardinality(Testing(m)) \in Nat
<1>1. Testing(m) \subseteq Threads
  BY DEF Testing
<1>2. IsFiniteSet(Testing(m))
  BY <1>1, ThreadsAssumption, FS_Subset
<1> QED
  BY <1>2, FS_CardinalityType

(* What a notification by the returning thread t does to the sets of       *)
(* threads: one waiter on cond, if any is left or not, is awake again, and *)
(* no other thread but t moves.                                            *)
LEMMA Notified ==
    ASSUME TypeOK, NEW t \in Threads, NEW cond \in {"not_full", "not_empty"},
           NEW other \in {"not_full", "not_empty"}, other # cond,
           pc[t] \notin {"not_full", "not_empty"},
           notifyOne(cond, [pc EXCEPT ![t] = "idle"])
    PROVE  /\ pc' \in [Threads -> {"idle", "push", "not_full", "pop", "not_empty"}]
           /\ Waiting(other)' = Waiting(other)
           /\ Testing(Retry(other))' = Testing(Retry(other)) \ {t}
           /\ \/ Waiting(cond)' = {}
              \/ \E u \in Waiting(cond) :
                    /\ u # t
                    /\ Testing(Retry(cond))' = (Testing(Retry(cond)) \ {t}) \cup {u}
<1>1. pc \in [Threads -> {"idle", "push", "not_full", "pop", "not_empty"}]
  BY DEF TypeOK
<1>2. CASE Waiting(cond) = {}
  <2>1. pc' = [pc EXCEPT ![t] = "idle"]
    BY <1>2 DEF notifyOne
  <2>2. Waiting(cond)' = {}
    BY <1>1, <1>2, <2>1 DEF Waiting
  <2> QED
    BY <1>1, <2>1, <2>2 DEF Waiting, Testing, Retry
<1>3. CASE Waiting(cond) # {}
  <2>1. PICK u \in Waiting(cond) :
            pc' = [[pc EXCEPT ![t] = "idle"] EXCEPT ![u] = Retry(cond)]
    BY <1>3 DEF notifyOne
  <2>2. u \in Threads /\ pc[u] = cond /\ u # t
    BY <2>1 DEF Waiting
  <2>3. Retry(cond) \in {"push", "pop"} /\ Retry(other) # Retry(cond)
        /\ Retry(other) \in {"push", "pop"}
    BY DEF Retry
  <2>4. pc' = [v \in Threads |-> IF v = u THEN Retry(cond)
                                 ELSE IF v = t THEN "idle" ELSE pc[v]]
    BY <1>1, <2>1, <2>2
  <2>5. pc' \in [Threads -> {"idle", "push", "not_full", "pop", "not_empty"}]
    BY <1>1, <2>3, <2>4
  <2>6. Waiting(other)' = Waiting(other)
    BY <2>2, <2>3, <2>4 DEF Waiting
  <2>7. Testing(Retry(other))' = Testing(Retry(other)) \ {t}
    BY <2>2, <2>3, <2>4 DEF Testing, Retry
  <2>8. Testing(Retry(cond))' = (Testing(Retry(cond)) \ {t}) \cup {u}
    BY <2>2, <2>3, <2>4 DEF Testing, Retry
  <2> QED
    BY <2>2, <2>5, <2>6, <2>7, <2>8
<1> QED
  BY <1>2, <1>3

(* The same in numbers: while threads are left waiting on cond, one more   *)
(* thread is awake to test it.                                             *)
LEMMA NotifiedCount ==
    ASSUME TypeOK, NEW t \in Threads, NEW cond \in {"not_full", "not_empty"},
           pc[t] \notin {"not_full", "not_empty"},
           notifyOne(cond, [pc EXCEPT ![t] = "idle"]),
           pc[t] # Retry(cond), Waiting(cond)' # {}
    PROVE  /\ Waiting(cond) # {}
           /\ Cardinality(Testing(Retry(cond)))' = Cardinality(Testing(Retry(cond))) + 1
<1>1. PICK other \in {"not_full", "not_empty"} : other # cond
  OBVIOUS
<1>2. PICK u \in Waiting(cond) :
          /\ u # t
          /\ Testing(Retry(cond))' = (Testing(Retry(cond)) \ {t}) \cup {u}
  BY <1>1, Notified
<1>3. t \notin Testing(Retry(cond)) /\ u \notin Testing(Retry(cond))
  BY <1>2 DEF Testing, Waiting, Retry
<1>4. Testing(Retry(cond))' = Testing(Retry(cond)) \cup {u}
  BY <1>2, <1>3
<1>5. Cardinality(Testing(Retry(cond)) \cup {u}) = Cardinality(Testing(Retry(cond))) + 1
  BY <1>3, TestingFinite, FS_AddElement
<1> QED
  BY <1>2, <1>4, <1>5

(* A thread that leaves the tests makes them one fewer. *)
LEMMA LeavesTest ==
    ASSUME NEW m, NEW t \in Testing(m)
    PROVE  Cardinality(Testing(m) \ {t}) = Cardinality(Testing(m)) - 1
BY TestingFinite, FS_RemoveElement

(* The invariant holds at the start: no thread waits. *)
LEMMA InitIInv == Init => IInv
<1> SUFFICES ASSUME Init PROVE IInv
  OBVIOUS
<1>1. TypeOK
  BY ItemsAssumption, SizeAssumption DEF Init, TypeOK
<1>2. Waiting("not_full") = {} /\ Waiting("not_empty") = {}
  BY DEF Init, Waiting
<1> QED
  BY <1>1, <1>2 DEF IInv, NoLostNotFull, NoLostNotEmpty

(* A thread that appends an item takes a place its own test accounts for,  *)
(* or one that was there for the others too, and wakes a thread for it.    *)
LEMMA PushKeepsIInv ==
    ASSUME IInv, NEW t \in Threads, NEW x \in Items, ~ fullNoLock,
           pc[t] \in {"idle", "push"}, pushBack(t, x), UNCHANGED item
    PROVE  IInv'
<1>1. TypeOK /\ NoLostNotFull /\ NoLostNotEmpty
  BY DEF IInv
<1>2. queue' \in Seq(Items) /\ Len(queue') = Len(queue) + 1
  BY <1>1 DEF pushBack, TypeOK
<1>3. notifyOne("not_empty", [pc EXCEPT ![t] = "idle"])
  BY DEF pushBack
<1>4. /\ pc' \in [Threads -> {"idle", "push", "not_full", "pop", "not_empty"}]
      /\ Waiting("not_full")' = Waiting("not_full")
      /\ Testing("push")' = Testing("push") \ {t}
  BY <1>1, <1>3, Notified DEF Retry
<1>5. Len(queue) \in Nat /\ (max_size # 0 => Len(queue) < max_size)
  BY <1>1, SizeAssumption DEF TypeOK, fullNoLock
<1>6. TypeOK'
  BY <1>1, <1>2, <1>4, <1>5, SizeAssumption DEF TypeOK
<1>7. NoLostNotFull'
  <2>1. CASE t \in Testing("push")
    BY <1>1, <1>2, <1>4, <1>5, <2>1, LeavesTest, TestingFinite, SizeAssumption
       DEF NoLostNotFull
  <2>2. CASE t \notin Testing("push")
    <3>1. Testing("push")' = Testing("push")
      BY <1>4, <2>2
    <3> QED
      BY <1>1, <1>2, <1>4, <1>5, <3>1, TestingFinite, SizeAssumption
         DEF NoLostNotFull
  <2> QED
    BY <2>1, <2>2
<1>8. NoLostNotEmpty'
  <2> SUFFICES ASSUME Waiting("not_empty")' # {}
               PROVE  Len(queue') <= Cardinality(Testing("pop"))'
    BY DEF NoLostNotEmpty
  <2>1. /\ Waiting("not_empty") # {}
        /\ Cardinality(Testing("pop"))' = Cardinality(Testing("pop")) + 1
    BY <1>1, <1>3, NotifiedCount DEF Retry
  <2> QED
    BY <1>1, <1>2, <1>5, <2>1, TestingFinite DEF NoLostNotEmpty
<1> QED
  BY <1>6, <1>7, <1>8 DEF IInv

(* A thread that takes an item is the mirror image. *)
LEMMA PopKeepsIInv ==
    ASSUME IInv, NEW t \in Threads, queue # <<>>,
           pc[t] \in {"idle", "pop"}, popFront(t)
    PROVE  IInv'
<1>1. TypeOK /\ NoLostNotFull /\ NoLostNotEmpty
  BY DEF IInv
<1>2. /\ queue' \in Seq(Items) /\ Len(queue') = Len(queue) - 1
      /\ Len(queue) \in Nat /\ Len(queue) > 0
  BY <1>1 DEF popFront, TypeOK
<1>3. notifyOne("not_full", [pc EXCEPT ![t] = "idle"]) /\ UNCHANGED item
  BY DEF popFront
<1>4. /\ pc' \in [Threads -> {"idle", "push", "not_full", "pop", "not_empty"}]
      /\ Waiting("not_empty")' = Waiting("not_empty")
      /\ Testing("pop")' = Testing("pop") \ {t}
  BY <1>1, <1>3, Notified DEF Retry
<1>5. TypeOK'
  BY <1>1, <1>2, <1>3, <1>4, SizeAssumption DEF TypeOK
<1>6. NoLostNotEmpty'
  <2>1. CASE t \in Testing("pop")
    BY <1>1, <1>2, <1>4, <2>1, LeavesTest, TestingFinite DEF NoLostNotEmpty
  <2>2. CASE t \notin Testing("pop")
    <3>1. Testing("pop")' = Testing("pop")
      BY <1>4, <2>2
    <3> QED
      BY <1>1, <1>2, <1>4, <3>1, TestingFinite DEF NoLostNotEmpty
  <2> QED
    BY <2>1, <2>2
<1>7. NoLostNotFull'
  <2> SUFFICES ASSUME Waiting("not_full")' # {}
               PROVE  max_size <= Len(queue') + Cardinality(Testing("push"))'
    BY DEF NoLostNotFull
  <2>1. /\ Waiting("not_full") # {}
        /\ Cardinality(Testing("push"))' = Cardinality(Testing("push")) + 1
    BY <1>1, <1>3, NotifiedCount DEF Retry
  <2> QED
    BY <1>1, <1>2, <2>1, TestingFinite, SizeAssumption DEF NoLostNotFull
<1> QED
  BY <1>5, <1>6, <1>7 DEF IInv

(* A thread that only moves keeps the invariant when it leaves the tests   *)
(* of a condition only to wait where nothing is to be had.                 *)
LEMMA MoveKeepsIInv ==
    ASSUME IInv, NEW t \in Threads,
           NEW new \in {"push", "not_full", "pop", "not_empty"},
           pc' = [pc EXCEPT ![t] = new], UNCHANGED queue,
           item' \in [Threads -> Items],
           \/ new \in {"push", "pop"} /\ pc[t] \notin {"push", "pop"}
           \/ new = "not_full" /\ pc[t] = "push" /\ fullNoLock
           \/ new = "not_empty" /\ pc[t] = "pop" /\ queue = <<>>
    PROVE  IInv'
<1>1. TypeOK /\ NoLostNotFull /\ NoLostNotEmpty
  BY DEF IInv
<1>2. /\ pc \in [Threads -> {"idle", "push", "not_full", "pop", "not_empty"}]
      /\ Len(queue) \in Nat
  BY <1>1 DEF TypeOK
<1>3. TypeOK'
  BY <1>1, <1>2 DEF TypeOK
<1>4. \A m \in {"push", "pop"} : IsFiniteSet(Testing(m)')
  <2>1. \A m \in {"push", "pop"} : Testing(m)' \subseteq Threads
    BY DEF Testing
  <2> QED
    BY <2>1, ThreadsAssumption, FS_Subset
<1>5. \A m \in {"push", "pop"} : Cardinality(Testing(m)') \in Nat
  BY <1>4, FS_CardinalityType
<1>6. NoLostNotFull'
  <2>1. CASE new = "not_full"
    BY <1>2, <1>5, <2>1, SizeAssumption DEF NoLostNotFull, fullNoLock
  <2>2. CASE new # "not_full"
    <3>1. Testing("push") \subseteq Testing("push")'
      BY <1>2, <2>2 DEF Testing
    <3>2. Cardinality(Testing("push")) <= Cardinality(Testing("push")')
      BY <1>4, <3>1, FS_Subset
    <3>3. Waiting("not_full")' \subseteq Waiting("not_full")
      BY <1>2, <2>2 DEF Waiting
    <3> QED
      BY <1>1, <1>2, <1>5, <3>2, <3>3, TestingFinite, SizeAssumption
         DEF NoLostNotFull
  <2> QED
    BY <2>1, <2>2
<1>7. NoLostNotEmpty'
  <2>1. CASE new = "not_empty"
    BY <1>2, <1>5, <2>1 DEF NoLostNotEmpty
  <2>2. CASE new # "not_empty"
    <3>1. Testing("pop") \subseteq Testing("pop")'
      BY <1>2, <2>2 DEF Testing
    <3>2. Cardinality(Testing("pop")) <= Cardinality(Testing("pop")')
      BY <1>4, <3>1, FS_Subset
    <3>3. Waiting("not_empty")' \subseteq Waiting("not_empty")
      BY <1>2, <2>2 DEF Waiting
    <3> QED
      BY <1>1, <1>2, <1>5, <3>2, <3>3, TestingFinite DEF NoLostNotEmpty
  <2> QED
    BY <2>1, <2>2
<1> QED
  BY <1>3, <1>6, <1>7 DEF IInv

(* Every step keeps the invariant. *)
LEMMA NextIInv == IInv /\ [Next]_vars => IInv'
<1> SUFFICES ASSUME IInv, [Next]_vars PROVE IInv'
  OBVIOUS
<1>0. item \in [Threads -> Items]
  BY DEF IInv, TypeOK
<1>1. CASE UNCHANGED vars
  BY <1>1 DEF vars, IInv, TypeOK, NoLostNotFull, NoLostNotEmpty, Waiting, Testing
<1>2. ASSUME NEW t \in Threads, Critical(t) \/ Call(t) \/ SpuriousWakeup(t)
      PROVE  IInv'
  <2>1. CASE PushWaits(t)
    BY <1>0, <2>1, MoveKeepsIInv DEF PushWaits
  <2>2. CASE push(t)
    BY <1>0, <2>2, PushKeepsIInv DEF push
  <2>3. CASE PopWaits(t)
    BY <1>0, <2>3, MoveKeepsIInv DEF PopWaits
  <2>4. CASE pop(t)
    BY <2>4, PopKeepsIInv DEF pop
  <2>5. CASE CallPop(t)
    BY <1>0, <2>5, MoveKeepsIInv DEF CallPop
  <2>6. CASE popIfNotEmpty(t)
    BY <2>6, PopKeepsIInv DEF popIfNotEmpty
  <2>7. ASSUME NEW x \in Items, CallPush(t, x) PROVE IInv'
    BY <1>0, <2>7, MoveKeepsIInv DEF CallPush
  <2>8. ASSUME NEW x \in Items, pushIfNotFull(t, x) PROVE IInv'
    BY <2>8, PushKeepsIInv DEF pushIfNotFull
  <2>9. CASE SpuriousWakeup(t)
    <3>1. PICK cond \in {"not_full", "not_empty"} :
              /\ pc[t] = cond
              /\ pc' = [pc EXCEPT ![t] = Retry(cond)]
              /\ UNCHANGED <<queue, item>>
      BY <2>9 DEF SpuriousWakeup
    <3>2. Retry(cond) \in {"push", "pop"}
      BY DEF Retry
    <3> QED
      BY <1>0, <3>1, <3>2, MoveKeepsIInv
  <2> QED
    BY <1>2, <2>1, <2>2, <2>3, <2>4, <2>5, <2>6, <2>7, <2>8, <2>9
       DEF Critical, Call
<1> QED
  BY <1>1, <1>2 DEF Next

(* The inductive invariant holds throughout. *)
LEMMA AlwaysIInv == Spec => []IInv
BY InitIInv, NextIInv, PTL DEF Spec

(* A bounded queue never exceeds max_size_, and the types hold. *)
THEOREM TypeCorrect == Spec => []TypeOK
<1>1. IInv => TypeOK
  BY DEF IInv
<1> QED
  BY <1>1, AlwaysIInv, PTL

(* No notification of not_full_cond_ is lost: while threads wait for room, *)
(* every free place has an awake thread on its way to it.                  *)
THEOREM NotFullIsNeverLost == Spec => []NoLostNotFull
<1>1. IInv => NoLostNotFull
  BY DEF IInv
<1> QED
  BY <1>1, AlwaysIInv, PTL

(* No notification of not_empty_cond_ is lost: while threads wait for      *)
(* items, every item has an awake thread on its way to it.                 *)
THEOREM NotEmptyIsNeverLost == Spec => []NoLostNotEmpty
<1>1. IInv => NoLostNotEmpty
  BY DEF IInv
<1> QED
  BY <1>1, AlwaysIInv, PTL

(* No notification is lost, for any number of threads and any size. *)
THEOREM NotificationsAreNeverLost == Spec => []NoLostNotification
BY NotFullIsNeverLost, NotEmptyIsNeverLost, PTL DEF NoLostNotification
=============================================================================
