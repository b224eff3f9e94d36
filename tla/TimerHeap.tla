----------------------------- MODULE TimerHeap -----------------------------
(***************************************************************************)
(* The timers of the loop (timer_heap.cc, with Timestamp and the sleep of  *)
(* IOService::loop): a binary heap in an array, each timer holding its     *)
(* position in the array, and a map from ids to timers.                    *)
(*                                                                         *)
(* Slot 0 of the array is unused in the code, so a sequence has the same   *)
(* indices.  Time is counted in 1/Res of a millisecond: the heap compares  *)
(* whole timestamps, checkTimeout compares milliseconds.  Time passes in   *)
(* epoll_wait only; callbacks are instantaneous.  Timeouts are int64_t, and *)
(* the code keeps them in an int in two places; ToInt is that conversion.  *)
(***************************************************************************)
EXTENDS Integers, Sequences, FiniteSets

CONSTANTS
    MaxTimers,   \* bound: timers alive at once (the lowest free id is reused)
    Res,         \* parts of a millisecond the clock tells apart
    Delays,      \* timeout_ms values given to addTimer
    CallTimes,   \* call_times values given to addTimer; -1 is for ever
    MaxNow,      \* bound: where the clock stops
    INT_MAX,
    MAX_EPOLL_TIMEOUT_MSEC   \* the longest sleep there is, if there is one

ASSUME TimerAssumption ==
    /\ MaxTimers \in Nat \ {0} /\ Res \in Nat \ {0} /\ MaxNow \in Nat
    /\ Delays \subseteq Int
    /\ INT_MAX \in Nat /\ MAX_EPOLL_TIMEOUT_MSEC \in Nat
    /\ CallTimes \subseteq {-1} \cup (Nat \ {0})

Ids == 1 .. MaxTimers

VARIABLES
    pc,      \* "sleep": epoll_wait; "app": callbacks of devices;
             \* "check": in checkTimeout; "callback": in a timer's callback
    now,     \* the clock
    heap,    \* timer_min_heap_: sequence of ids
    timers,  \* timers_: [live id -> [at, timeout, left, pos]]
    fired    \* timestamp and timeout of the timer whose callback runs

vars == <<pc, now, heap, timers, fired>>

Live   == DOMAIN timers
Ms(t)  == t \div Res

(* What an int keeps of an int64_t. *)
ToInt(x) == ((x + INT_MAX + 1) % (2 * INT_MAX + 2)) - (INT_MAX + 1)

-----------------------------------------------------------------------------
(* The heap.  A loop works on the array h and the timers ts from the index *)
(* cur.  It is run for as many turns as the array is long: once it has met *)
(* its break a turn changes nothing, and no loop takes more.               *)

(* One turn that goes on: two setHeapPos calls, the std::swap, cur_index. *)
Swap(l, i) ==
    [h   |-> [l.h EXCEPT ![l.cur] = l.h[i], ![i] = l.h[l.cur]],
     ts  |-> [l.ts EXCEPT ![l.h[l.cur]].pos = i, ![l.h[i]].pos = l.cur],
     cur |-> i]

Less(l, i, j) == l.ts[l.h[i]].at < l.ts[l.h[j]].at

UpTurn(l) ==
    LET parent == l.cur \div 2 IN
    IF parent = 0 \/ Less(l, parent, l.cur) THEN l ELSE Swap(l, parent)

SiftUp(l) ==
    LET turn[n \in 0 .. Len(l.h)] == IF n = 0 THEN l ELSE UpTurn(turn[n - 1])
    IN  turn[Len(l.h)]

minHeapInsert(h, ts, id) ==
    SiftUp([h   |-> Append(h, id),
            ts  |-> [ts EXCEPT ![id].pos = Len(h) + 1],
            cur |-> Len(h) + 1])

MinChild(l) ==
    IF 2 * l.cur + 1 <= Len(l.h) /\ Less(l, 2 * l.cur + 1, 2 * l.cur)
    THEN 2 * l.cur + 1
    ELSE 2 * l.cur

DownTurn(l) ==
    IF 2 * l.cur > Len(l.h) \/ Less(l, l.cur, MinChild(l))
    THEN l
    ELSE Swap(l, MinChild(l))

SiftDown(l) ==
    LET turn[n \in 0 .. Len(l.h)] == IF n = 0 THEN l ELSE DownTurn(turn[n - 1])
    IN  turn[Len(l.h)]

(* The last timer goes where the one at cur was. *)
FillHole(h, cur) == SubSeq([h EXCEPT ![cur] = h[Len(h)]], 1, Len(h) - 1)

(* Faulty variant: the position of the timer that fills the hole is not set. *)
minHeapErase_StalePos(h, ts, id) ==
    LET cur == ts[id].pos
    IN  SiftDown([h |-> FillHole(h, cur), ts |-> ts, cur |-> cur])

(* Faulty variant: the hole is filled and the order is not restored. *)
minHeapErase_NoSift(h, ts, id) ==
    LET cur == ts[id].pos
    IN  [h   |-> FillHole(h, cur),
         ts  |-> [ts EXCEPT ![id].pos = -1, ![h[Len(h)]].pos = cur],
         cur |-> cur]

(* The last timer fills the hole and moves down; it is never moved up. *)
minHeapErase(h, ts, id) ==
    LET cur == ts[id].pos
    IN  SiftDown([h   |-> FillHole(h, cur),
                  ts  |-> [ts EXCEPT ![id].pos = -1, ![h[Len(h)]].pos = cur],
                  cur |-> cur])

minHeapTop == heap[1]

(* timers_ without id *)
Forget(ts, id) == [x \in DOMAIN ts \ {id} |-> ts[x]]

Overdue == timers[minHeapTop].at < now

(* Faulty variant: the distance is rounded up by one millisecond. *)
getNextTimeoutMillisecond_Late ==
    IF heap = <<>> THEN -1
    ELSE IF Overdue THEN 0
    ELSE Ms(timers[minHeapTop].at) - Ms(now) + 1

(* -1 without timers, 0 when the top is overdue, else the distance to it. *)
getNextTimeoutMillisecond ==
    IF heap = <<>> THEN -1
    ELSE IF Overdue THEN 0
    ELSE Ms(timers[minHeapTop].at) - Ms(now)

-----------------------------------------------------------------------------
Init ==
    /\ pc = "app"
    /\ now = 0
    /\ heap = <<>>
    /\ timers = <<>>
    /\ fired = [at |-> 0, timeout |-> 0]

Calling == pc \in {"app", "callback"}

(* startTimer -> addTimer: a negative delay counts as 0. *)
addTimer(id, delay, times) ==
    /\ Calling
    /\ id \notin Live /\ 1 .. id - 1 \subseteq Live
    /\ times # 1 => ToInt(delay) > 0   \* else checkTimeout would never end
    /\ LET timeout == IF delay < 0 THEN 0 ELSE delay
           timer == [at |-> now + timeout * Res, timeout |-> timeout,
                     left |-> times, pos |-> -1]
           s == minHeapInsert(heap, [x \in Live \cup {id} |->
                                       IF x = id THEN timer ELSE timers[x]], id)
       IN heap' = s.h /\ timers' = s.ts
    /\ UNCHANGED <<pc, now, fired>>

(* stopTimer -> removeTimer; an unknown id is ignored. *)
removeTimer(id) ==
    /\ Calling
    /\ id \in Live
    /\ LET s == minHeapErase(heap, timers, id)
       IN heap' = s.h /\ timers' = Forget(s.ts, id)
    /\ UNCHANGED <<pc, now, fired>>

(* epoll_wait returns at an event, or when the next timeout has passed, the
   smaller of timer_timeout and the maximum.  It is negative when there is no
   timer, and may be when the next one is further away than an int can say:
   then there is no limit. *)
Sleep(t) ==
    /\ pc = "sleep"
    /\ t >= now
    /\ LET timer_timeout == ToInt(getNextTimeoutMillisecond)
       IN timer_timeout >= 0 => /\ t <= now + timer_timeout * Res
                                /\ t <= now + MAX_EPOLL_TIMEOUT_MSEC * Res
    /\ now' = t
    /\ pc' = "app"
    /\ UNCHANGED <<heap, timers, fired>>

BeginCheck ==
    /\ pc = "app"
    /\ pc' = "check"
    /\ UNCHANGED <<now, heap, timers, fired>>

(* One turn of checkTimeout: the top is due.  It leaves the heap; the last
   call deletes it, else it goes back in with its next timestamp, its timeout
   later: getTimeout returns an int. *)
Fire ==
    /\ pc = "check"
    /\ heap # <<>>
    /\ Ms(now) >= Ms(timers[minHeapTop].at)
    /\ LET id == minHeapTop
           timer == timers[id]
           s == minHeapErase(heap, timers, id)
           again == [s.ts EXCEPT ![id].left = IF @ > 0 THEN @ - 1 ELSE @,
                                 ![id].at = @ + ToInt(timer.timeout) * Res]
           r == minHeapInsert(s.h, again, id)
       IN /\ fired' = [at |-> timer.at, timeout |-> timer.timeout]
          /\ IF timer.left = 1
             THEN heap' = s.h /\ timers' = Forget(s.ts, id)
             ELSE heap' = r.h /\ timers' = r.ts
    /\ pc' = "callback"
    /\ UNCHANGED now

EndCallback ==
    /\ pc = "callback"
    /\ pc' = "check"
    /\ fired' = [at |-> 0, timeout |-> 0]
    /\ UNCHANGED <<now, heap, timers>>

(* checkTimeout returns: nothing, or nothing due, at the top. *)
EndCheck ==
    /\ pc = "check"
    /\ heap # <<>> => Ms(now) < Ms(timers[minHeapTop].at)
    /\ pc' = "sleep"
    /\ UNCHANGED <<now, heap, timers, fired>>

Next ==
    \/ \E id \in Ids, delay \in Delays, times \in CallTimes : addTimer(id, delay, times)
    \/ \E id \in Ids : removeTimer(id)
    \/ \E t \in 0 .. MaxNow : Sleep(t)
    \/ BeginCheck
    \/ Fire
    \/ EndCallback
    \/ EndCheck

Spec == Init /\ [][Next]_vars

-----------------------------------------------------------------------------
(* The array and the map hold the same timers, each once, and every timer
   knows its position: removeTimer, which trusts heap_pos_, erases the timer
   it was asked to. *)
HeapIndexed ==
    /\ \A i \in 1 .. Len(heap) : heap[i] \in Live /\ timers[heap[i]].pos = i
    /\ Cardinality(Live) = Len(heap)

(* No timer is above one that is due earlier. *)
MinHeap ==
    \A i \in 2 .. Len(heap) : timers[heap[i \div 2]].at <= timers[heap[i]].at

(* A timer fires in the millisecond it was set for: not before it, and not
   later because the loop slept too long or looked at the wrong timer.  Only
   timers whose timeout no int can hold may be late, as the loop may sleep
   without limit while it waits for such a one; they delay no other. *)
OnTime ==
    pc = "callback" =>
        /\ Ms(fired.at) <= Ms(now)
        /\ fired.timeout <= INT_MAX => Ms(fired.at) = Ms(now)

(* checkTimeout leaves no due timer behind, also when its callbacks added and
   removed timers. *)
NothingDueIsLeft == pc = "sleep" => \A id \in Live : Ms(timers[id].at) > Ms(now)
=============================================================================
