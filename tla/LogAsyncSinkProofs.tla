------------------------- MODULE LogAsyncSinkProofs -------------------------
(***************************************************************************)
(* For any number of loggers, buffers and messages.                        *)
(*                                                                         *)
(* First the Thread objects (T, the module Thread): what joins and         *)
(* detaches keep true, whatever else the threads do.  The program around a *)
(* LogAsyncSink uses them only through their methods, so it holds there.   *)
(*                                                                         *)
(* The buffers: SinkInv says who uses which methods when (Roles, Ending),  *)
(* that a buffer that is in use is in one place, in the hands of a thread, *)
(* in the queue or in the pool (OneOwner), what is in it there (Contents), *)
(* and that the messages of a logger are written, queued and in its hands  *)
(* in the order in which it logged them (Order).                           *)
(*                                                                         *)
(* LogCore: a sink has one owner, a logger, or was deleted (Tidy),         *)
(* whatever is called in which order.                                      *)
(***************************************************************************)
EXTENDS LogAsyncSink, FiniteSetTheorems, SequenceTheorems, NaturalsInduction,
        WellFoundedInduction, TLAPS

(* Threads that are to call pthread_join or have just come back from it.   *)
Joining(c) == at[c] \in {"pthread_join", "pthread_joined"}

(* join_started_ is the right to release the handle: who set it has it,    *)
(* alone, until joined_ is set, and the handle is released on the way.     *)
OneJoiner ==
    /\ joined \subseteq join_started
    /\ \A o \in Objects :
          /\ o \notin join_started => released[o] = 0
          /\ o \in joined => released[o] = 1
          /\ o \in join_started \ joined => \E c \in Threads : of[c] = o /\ Joining(c)
    /\ \A c \in Threads :
          Joining(c) =>
             /\ of[c] \in join_started \ joined
             /\ released[of[c]] = IF at[c] = "pthread_join" THEN 0 ELSE 1
             /\ \A d \in Threads : Joining(d) /\ of[d] = of[c] => d = c

(* What the two waits of join wait for has not happened. *)
WaitsInVain ==
    \A c \in Threads :
        /\ at[c] = "done_wait" => of[c] \notin done
        /\ at[c] \in {"rejoin", "joined_wait"} => of[c] \in join_started
        /\ at[c] = "joined_wait" => of[c] \notin joined

ThreadInv == T!ThreadTypeOK /\ OneJoiner /\ WaitsInVain

----------------------------------------------------------------------------
(* Nothing is started, nothing released and nobody waits. *)
LEMMA ThreadInitInv == T!ThreadInit => ThreadInv
<1>1. (CHOOSE o \in Objects : TRUE) \in Objects
  BY DEF Objects
<1>2. T!ThreadInit => T!ThreadTypeOK
  <2> DEFINE first == CHOOSE o \in Objects : TRUE
  <2>1. first \in Objects
    BY <1>1
  <2>2. T!ThreadInit => of = [c \in Threads |-> first]
    BY DEF T!ThreadInit
  <2> HIDE DEF first
  <2>3. T!ThreadInit => of \in [Threads -> Objects]
    BY <2>1, <2>2
  <2>4. T!ThreadInit => /\ at = [c \in Threads |-> "no"]
                      /\ run = [o \in Objects |-> "none"]
                      /\ released = [o \in Objects |-> 0]
                      /\ started = {} /\ done = {} /\ join_started = {} /\ joined = {}
    BY Zenon DEF T!ThreadInit
  <2> QED
    BY <2>3, <2>4 DEF T!ThreadTypeOK
<1>3. T!ThreadInit => OneJoiner /\ WaitsInVain
  BY DEF T!ThreadInit, OneJoiner, WaitsInVain, Joining
<1> QED
  BY <1>2, <1>3 DEF ThreadInv

(* notifyAll moves only those who wait for o, to where they test again.    *)
LEMMA NotifyAll ==
    ASSUME NEW o \in Objects, T!ThreadTypeOK,
           NEW where \in [Threads -> {"no", "join", "done_wait", "pthread_join",
                                      "pthread_joined", "rejoin", "joined_wait"}],
           T!notifyAll(o, where)
    PROVE  /\ at' \in [Threads -> {"no", "join", "done_wait", "pthread_join",
                                   "pthread_joined", "rejoin", "joined_wait"}]
           /\ \A c \in Threads :
                 /\ of[c] # o => at'[c] = where[c]
                 /\ of[c] = o => at'[c] \notin {"done_wait", "joined_wait"}
                 /\ where[c] \notin {"done_wait", "joined_wait"} => at'[c] = where[c]
                 /\ where[c] = "done_wait" => at'[c] \in {"join", "done_wait"}
                 /\ where[c] = "joined_wait" => at'[c] \in {"rejoin", "joined_wait"}
BY DEF T!notifyAll, T!ThreadTypeOK

LEMMA StartInv ==
    ASSUME ThreadInv, NEW o \in Objects, T!start(o) \/ T!FuncReturns(o)
    PROVE  ThreadInv'
BY DEF ThreadInv, T!ThreadTypeOK, OneJoiner, WaitsInVain, Joining, T!start, T!FuncReturns, T!flagVars

(* done_ and the notification of all who wait for it are one step. *)
LEMMA ProxyInv ==
    ASSUME ThreadInv, NEW o \in Objects, T!threadProxy(o)
    PROVE  ThreadInv'
<1> USE DEF ThreadInv
<1>1. at \in [Threads -> {"no", "join", "done_wait", "pthread_join",
                          "pthread_joined", "rejoin", "joined_wait"}]
  BY DEF T!ThreadTypeOK
<1>2. T!notifyAll(o, at)
  BY DEF T!threadProxy
<1>3. /\ at' \in [Threads -> {"no", "join", "done_wait", "pthread_join",
                              "pthread_joined", "rejoin", "joined_wait"}]
      /\ \A c \in Threads :
            /\ of[c] # o => at'[c] = at[c]
            /\ of[c] = o => at'[c] \notin {"done_wait", "joined_wait"}
            /\ at[c] \notin {"done_wait", "joined_wait"} => at'[c] = at[c]
            /\ at[c] = "done_wait" => at'[c] \in {"join", "done_wait"}
            /\ at[c] = "joined_wait" => at'[c] \in {"rejoin", "joined_wait"}
  BY <1>1, <1>2, NotifyAll
<1>4. \A c \in Threads : (Joining(c))' <=> Joining(c)
  BY <1>1, <1>3 DEF Joining
<1>5. T!ThreadTypeOK'
  BY <1>3 DEF T!ThreadTypeOK, T!threadProxy
<1>6. OneJoiner'
  BY <1>1, <1>3, <1>4 DEF OneJoiner, Joining, T!threadProxy, T!ThreadTypeOK
<1>7. WaitsInVain'
  BY <1>1, <1>3 DEF WaitsInVain, T!threadProxy, T!ThreadTypeOK
<1> QED
  BY <1>5, <1>6, <1>7

LEMMA CallJoinInv ==
    ASSUME ThreadInv, NEW c \in Threads, NEW o \in Objects, T!CallJoin(c, o)
    PROVE  ThreadInv'
BY DEF ThreadInv, T!ThreadTypeOK, OneJoiner, WaitsInVain, Joining, T!CallJoin, T!flagVars

LEMMA JoinWaitsInv ==
    ASSUME ThreadInv, NEW c \in Threads, T!JoinWaits(c) \/ T!SpuriousJoin(c)
    PROVE  ThreadInv'
BY DEF ThreadInv, T!ThreadTypeOK, OneJoiner, WaitsInVain, Joining, T!JoinWaits, T!SpuriousJoin, T!flagVars

LEMMA JoinFirstInv ==
    ASSUME ThreadInv, NEW c \in Threads, T!JoinFirst(c)
    PROVE  ThreadInv'
BY DEF ThreadInv, T!ThreadTypeOK, OneJoiner, WaitsInVain, Joining, T!JoinFirst

(* Who finds join_started_ set waits only if the handle's owner is still   *)
(* on the way.                                                             *)
LEMMA JoinOtherInv ==
    ASSUME ThreadInv, NEW c \in Threads, T!JoinOther(c)
    PROVE  ThreadInv'
BY DEF ThreadInv, T!ThreadTypeOK, OneJoiner, WaitsInVain, Joining, T!JoinOther, T!flagVars

LEMMA PthreadJoinInv ==
    ASSUME ThreadInv, NEW c \in Threads, T!PthreadJoin(c)
    PROVE  ThreadInv'
BY DEF ThreadInv, T!ThreadTypeOK, OneJoiner, WaitsInVain, Joining, T!PthreadJoin, T!flagVars

(* joined_ and the notification of all who wait for it are one step. *)
LEMMA SetJoinedInv ==
    ASSUME ThreadInv, NEW c \in Threads, T!SetJoined(c)
    PROVE  ThreadInv'
<1> USE DEF ThreadInv
<1> DEFINE where == [at EXCEPT ![c] = "no"]
<1>1. where \in [Threads -> {"no", "join", "done_wait", "pthread_join",
                             "pthread_joined", "rejoin", "joined_wait"}]
  BY DEF T!ThreadTypeOK
<1>2. /\ of[c] \in Objects
      /\ T!notifyAll(of[c], where)
  BY DEF T!SetJoined, T!ThreadTypeOK
<1>3. /\ at' \in [Threads -> {"no", "join", "done_wait", "pthread_join",
                              "pthread_joined", "rejoin", "joined_wait"}]
      /\ \A d \in Threads :
            /\ of[d] # of[c] => at'[d] = where[d]
            /\ of[d] = of[c] => at'[d] \notin {"done_wait", "joined_wait"}
            /\ where[d] \notin {"done_wait", "joined_wait"} => at'[d] = where[d]
            /\ where[d] = "done_wait" => at'[d] \in {"join", "done_wait"}
            /\ where[d] = "joined_wait" => at'[d] \in {"rejoin", "joined_wait"}
  <2> HIDE DEF where
  <2> QED
    BY <1>1, <1>2, NotifyAll
<1>4. /\ at'[c] = "no"
      /\ \A d \in Threads \ {c} : where[d] = at[d]
  BY <1>1, <1>3 DEF T!ThreadTypeOK
<1> HIDE DEF where
<1>5. \A d \in Threads \ {c} : at[d] \in {"pthread_join", "pthread_joined"} \/ at'[d] \in {"pthread_join", "pthread_joined"} => at'[d] = at[d]
  BY <1>1, <1>3, <1>4
<1>6. T!ThreadTypeOK'
  BY <1>3 DEF T!ThreadTypeOK, T!SetJoined
<1>7. /\ of[c] \in join_started \ joined
      /\ released[of[c]] = 1
      /\ \A d \in Threads \ {c} : Joining(d) => of[d] # of[c]
  BY DEF OneJoiner, Joining, T!SetJoined
<1>8. OneJoiner'
  BY <1>4, <1>5, <1>7 DEF OneJoiner, Joining, T!SetJoined, T!ThreadTypeOK
<1>9. WaitsInVain'
  BY <1>1, <1>3, <1>4 DEF WaitsInVain, T!SetJoined, T!ThreadTypeOK
<1> QED
  BY <1>6, <1>8, <1>9

(* detach takes the right nobody has taken; nobody waits for joined_ yet. *)
LEMMA DetachInv ==
    ASSUME ThreadInv, NEW c \in Threads, NEW o \in Objects, T!detach(c, o)
    PROVE  ThreadInv'
BY DEF ThreadInv, T!ThreadTypeOK, OneJoiner, WaitsInVain, Joining, T!detach

LEMMA ThreadNextInv == ThreadInv /\ [T!ThreadNext]_(T!threadVars) => ThreadInv'
<1> SUFFICES ASSUME ThreadInv, [T!ThreadNext]_(T!threadVars)
             PROVE  ThreadInv'
  OBVIOUS
<1>1. ASSUME NEW o \in Objects, T!start(o) \/ T!FuncReturns(o) \/ T!threadProxy(o)
      PROVE  ThreadInv'
  BY <1>1, StartInv, ProxyInv
<1>2. ASSUME NEW c \in Threads, T!join(c) \/ T!SpuriousJoin(c)
      PROVE  ThreadInv'
  BY <1>2, JoinWaitsInv, JoinFirstInv, JoinOtherInv, PthreadJoinInv, SetJoinedInv DEF T!join
<1>3. ASSUME NEW c \in Threads, NEW o \in Objects, T!CallJoin(c, o) \/ T!detach(c, o)
      PROVE  ThreadInv'
  BY <1>3, CallJoinInv, DetachInv
<1>4. CASE UNCHANGED T!threadVars
  BY <1>4 DEF ThreadInv, T!ThreadTypeOK, OneJoiner, WaitsInVain, Joining, T!threadVars, T!flagVars
<1> QED
  BY <1>1, <1>2, <1>3, <1>4 DEF T!ThreadNext

----------------------------------------------------------------------------
(* The flags, the positions of the joiners and the counts of releases keep *)
(* their types, and the invariant above holds.                             *)
THEOREM ThreadInvariant == T!ThreadSpec => []ThreadInv
BY ThreadInitInv, ThreadNextInv, PTL DEF T!ThreadSpec

(* join and detach release the handle of a thread once, whatever their     *)
(* number and order.                                                       *)
LEMMA HandleIsReleasedOnce == T!ThreadSpec => []T!HandleReleasedOnce
<1>1. ThreadInv => T!HandleReleasedOnce
  <2> SUFFICES ASSUME ThreadInv, NEW o \in Objects
               PROVE  released[o] <= 1 /\ (o \in joined => released[o] = 1)
    BY DEF T!HandleReleasedOnce
  <2>1. released[o] \in {0, 1}
    BY DEF ThreadInv, T!ThreadTypeOK, OneJoiner, Joining
  <2>2. o \in joined => released[o] = 1
    BY DEF ThreadInv, OneJoiner
  <2> QED
    BY <2>1, <2>2
<1> QED
  BY <1>1, ThreadInvariant, PTL

(* No wake-up of join is lost. *)
LEMMA JoinIsNeverLost == T!ThreadSpec => []T!NoLostJoin
<1>1. ThreadInv => T!NoLostJoin
  BY DEF ThreadInv, T!ThreadTypeOK, OneJoiner, WaitsInVain, Joining, T!NoLostJoin
<1> QED
  BY <1>1, ThreadInvariant, PTL

----------------------------------------------------------------------------
(* The flags say where the thread is, and a join that is past its first    *)
(* loop has seen done_.                                                    *)
EndSeen ==
    /\ \A o \in Objects : /\ o \in started <=> run[o] # "none"
                          /\ o \in done <=> run[o] = "exited"
    /\ \A c \in Threads :
          at[c] \in {"pthread_join", "pthread_joined", "rejoin", "joined_wait"} => of[c] \in done

(* A join goes on about the object it was called for, and returns when     *)
(* that object's thread has left its function.                             *)
JoinStep ==
    \A c \in Threads :
        at[c] # "no" => of'[c] = of[c] /\ (at'[c] = "no" => of[c] \in done)

LEMMA NextEndSeen == ThreadInv /\ EndSeen /\ [T!ThreadNext]_(T!threadVars) => EndSeen' /\ JoinStep
<1> SUFFICES ASSUME ThreadInv, EndSeen, [T!ThreadNext]_(T!threadVars)
             PROVE  EndSeen' /\ JoinStep
  OBVIOUS
<1> DEFINE JoinPlaces == {"no", "join", "done_wait", "pthread_join", "pthread_joined", "rejoin",
                      "joined_wait"}
<1>1. /\ T!ThreadTypeOK
      /\ at \in [Threads -> JoinPlaces] /\ of \in [Threads -> Objects]
      /\ run \in [Objects -> {"none", "func", "proxy", "exited"}]
  BY DEF ThreadInv, T!ThreadTypeOK
<1>2. ASSUME NEW o \in Objects, T!start(o) \/ T!FuncReturns(o)
      PROVE  EndSeen' /\ JoinStep
  BY <1>1, <1>2 DEF EndSeen, JoinStep, T!start, T!FuncReturns, T!flagVars
<1>3. ASSUME NEW o \in Objects, T!threadProxy(o)
      PROVE  EndSeen' /\ JoinStep
  <2>1. /\ \A c \in Threads : at[c] \notin {"done_wait", "joined_wait"} => at'[c] = at[c]
        /\ \A c \in Threads : at[c] = "done_wait" => at'[c] \in {"join", "done_wait"}
        /\ \A c \in Threads : at[c] = "joined_wait" => at'[c] \in {"rejoin", "joined_wait"}
    BY <1>1, <1>3, NotifyAll DEF T!threadProxy
  <2>2. /\ run' = [run EXCEPT ![o] = "exited"] /\ run[o] = "proxy"
        /\ done' = done \cup {o} /\ UNCHANGED <<started, of>>
    BY <1>3 DEF T!threadProxy
  <2>3. \A c \in Threads :
            at'[c] \in {"pthread_join", "pthread_joined", "rejoin", "joined_wait"} =>
                at[c] \in {"pthread_join", "pthread_joined", "rejoin", "joined_wait"}
    BY <1>1, <2>1
  <2>4. EndSeen'
    BY <1>1, <2>2, <2>3 DEF EndSeen
  <2>5. \A c \in Threads : at[c] # "no" => at'[c] # "no"
    BY <1>1, <2>1
  <2> QED
    BY <2>2, <2>4, <2>5 DEF JoinStep
<1>4. ASSUME NEW c \in Threads, T!JoinWaits(c) \/ T!JoinFirst(c) \/ T!JoinOther(c) \/ T!PthreadJoin(c)
                                 \/ T!SpuriousJoin(c)
      PROVE  EndSeen' /\ JoinStep
  BY <1>1, <1>4 DEF EndSeen, JoinStep, T!JoinWaits, T!JoinFirst, T!JoinOther, T!PthreadJoin, T!SpuriousJoin,
     T!flagVars
<1>5. ASSUME NEW c \in Threads, T!SetJoined(c)
      PROVE  EndSeen' /\ JoinStep
  <2> DEFINE where == [at EXCEPT ![c] = "no"]
  <2>1. where \in [Threads -> JoinPlaces] /\ of[c] \in Objects /\ at[c] = "pthread_joined"
        /\ \A d \in Threads : where[d] = IF d = c THEN "no" ELSE at[d]
    BY <1>1, <1>5 DEF T!SetJoined
  <2>2. T!notifyAll(of[c], where) /\ UNCHANGED <<started, done, run, of>>
    BY <1>5 DEF T!SetJoined
  <2> HIDE DEF where
  <2>3. /\ \A d \in Threads : where[d] \notin {"done_wait", "joined_wait"} => at'[d] = where[d]
        /\ \A d \in Threads : where[d] = "done_wait" => at'[d] \in {"join", "done_wait"}
        /\ \A d \in Threads : where[d] = "joined_wait" => at'[d] \in {"rejoin", "joined_wait"}
    BY <1>1, <2>1, <2>2, NotifyAll
  <2>4. \A d \in Threads :
            at'[d] \in {"pthread_join", "pthread_joined", "rejoin", "joined_wait"} =>
                at[d] \in {"pthread_join", "pthread_joined", "rejoin", "joined_wait"}
    BY <1>1, <2>1, <2>3
  <2>5. EndSeen'
    BY <2>2, <2>4 DEF EndSeen
  <2>6. \A d \in Threads : at[d] # "no" /\ at'[d] = "no" => d = c
    BY <1>1, <2>1, <2>3
  <2> QED
    BY <2>1, <2>2, <2>5, <2>6 DEF JoinStep, EndSeen
<1>6. ASSUME NEW c \in Threads, NEW o \in Objects, T!CallJoin(c, o) \/ T!detach(c, o)
      PROVE  EndSeen' /\ JoinStep
  BY <1>1, <1>6 DEF EndSeen, JoinStep, T!CallJoin, T!detach, T!flagVars
<1>7. CASE UNCHANGED T!threadVars
  BY <1>7 DEF EndSeen, JoinStep, T!threadVars, T!flagVars
<1> QED
  BY <1>2, <1>3, <1>4, <1>5, <1>6, <1>7 DEF T!ThreadNext, T!join

(* done_ and started_ are true to the thread: threadProxy sets done_ when    *)
(* the function has returned, and no method sets it earlier.                 *)
THEOREM FlagsAreTrue == T!ThreadSpec => []EndSeen
<1>1. T!ThreadInit => EndSeen
  BY DEF T!ThreadInit, EndSeen
<1> QED
  BY <1>1, NextEndSeen, ThreadInvariant, PTL DEF T!ThreadSpec

(* join does not return before the function of the thread has, not even if *)
(* the thread was detached meanwhile.                                      *)
THEOREM JoinReturnsAtTheEnd == T!ThreadSpec => [][JoinStep]_(T!threadVars)
BY NextEndSeen, FlagsAreTrue, ThreadInvariant, PTL DEF T!ThreadSpec

----------------------------------------------------------------------------
(* Every step of the program is a step of its threads, or does not concern *)
(* them.                                                                   *)
LEMMA StepIsThreadStep == [Next]_vars => [T!ThreadNext]_(T!threadVars)
<1> SUFFICES ASSUME [Next]_vars
             PROVE  T!ThreadNext \/ UNCHANGED T!threadVars
  OBVIOUS
<1> USE DEF T!threadVars, T!flagVars, threadVars
<1>1. ASSUME NEW o \in Objects, T!start(o) \/ T!FuncReturns(o) \/ T!threadProxy(o)
      PROVE  T!ThreadNext
  BY <1>1 DEF T!ThreadNext
<1>2. ASSUME NEW t \in Threads, T!join(t) \/ T!SpuriousJoin(t)
      PROVE  T!ThreadNext
  BY <1>2 DEF T!ThreadNext
<1>3. ASSUME NEW t \in Threads, NEW o \in Objects, T!CallJoin(t, o) \/ T!detach(t, o)
      PROVE  T!ThreadNext
  BY <1>3 DEF T!ThreadNext
<1>4. LogThread \in Objects /\ Main \in Threads /\ Loggers \subseteq Objects
      /\ Objects \subseteq Threads
  BY DEF Objects, Threads
<1>5. CASE MainStep
  BY <1>1, <1>2, <1>3, <1>4, <1>5
     DEF MainStep, Start, Join, InJoin, DestroyPush, DestroyJoin, Delete
<1>6. CASE LogThreadStep
  BY <1>1, <1>4, <1>6
     DEF LogThreadStep, logThreadFunc, PopBuffer, Write, returnObject, Proxy
<1>7. ASSUME NEW l \in Loggers, LoggerStep(l) \/ Detach(l)
      PROVE  T!ThreadNext \/ UNCHANGED T!threadVars
  BY <1>1, <1>2, <1>3, <1>4, <1>7
     DEF LoggerStep, Detach, log, LogGet, LogFill, LogPush, Join, InJoin,
         LoggerReturns, Proxy
<1>8. ASSUME NEW t \in Threads, Spurious(t)
      PROVE  T!ThreadNext \/ UNCHANGED T!threadVars
  BY <1>2, <1>8 DEF Spurious
<1>9. CASE Terminated \/ UNCHANGED vars
  BY <1>9 DEF Terminated, vars
<1> QED
  BY <1>5, <1>6, <1>7, <1>8, <1>9 DEF Next

(* The threads of the program behave as Thread says. *)
LEMMA ImplementsThread == Spec => T!ThreadSpec
<1>1. Init => T!ThreadInit
  BY DEF Init
<1> QED
  BY <1>1, StepIsThreadStep, PTL DEF Spec, T!ThreadSpec

(* thread.cc gives every handle back once, although main detaches threads  *)
(* that it and others join.                                                *)
THEOREM HandlesAreReleasedOnce == Spec => []HandleReleasedOnce
BY ImplementsThread, HandleIsReleasedOnce, PTL DEF HandleReleasedOnce

(* No thread of the program sleeps in join for what has happened.          *)
THEOREM JoinsAreNeverLost == Spec => []NoLostJoin
BY ImplementsThread, JoinIsNeverLost, PTL DEF NoLostJoin

----------------------------------------------------------------------------
(* What the program relies on from its threads. *)
ThreadFacts == T!ThreadTypeOK /\ EndSeen

LEMMA ThreadsBehave == Spec => []ThreadFacts /\ [][JoinStep]_(T!threadVars)
<1>1. ThreadInv => T!ThreadTypeOK
  BY DEF ThreadInv
<1> QED
  BY <1>1, ImplementsThread, ThreadInvariant, FlagsAreTrue, JoinReturnsAtTheEnd, PTL
     DEF ThreadFacts

LEMMA Distinct ==
    /\ Main \in Threads /\ LogThread \in Threads /\ LogThread \in Objects /\ Main # LogThread
    /\ \A l \in Loggers : l \in Threads /\ l \in Objects /\ l # Main /\ l # LogThread
BY SinkAssumption DEF Threads, Objects

Places == {"idle", "push", "not_full", "pop", "not_empty"}

(* The variables that are not about the threads have their types. *)
SinkTypes ==
    /\ queue \in Seq(Buffers \cup {NULL}) /\ Len(queue) <= max_size
    /\ pc \in [Threads -> Places]
    /\ item \in [Threads -> Buffers \cup {NULL}]
    /\ used \subseteq Buffers
    /\ pool \in Seq(Buffers)
    /\ content \in [Buffers -> Seq(Loggers \X (1 .. MaxLogs))]
    /\ holds \in [Threads -> Buffers \cup {NULL}]
    /\ logged \in [Loggers -> 0 .. MaxLogs]
    /\ written \in [Loggers -> 0 .. MaxLogs]
    /\ writing \in Seq(Loggers \X (1 .. MaxLogs))
    /\ main \in {"run", "push", "join", "delete", "deleted"}
    /\ left \in [Threads -> SUBSET Objects]

InPool(b) == \E i \in 1 .. Len(pool) : pool[i] = b
InQueue(b) == \E i \in 1 .. Len(queue) : queue[i] = b
InHands(b) == \E t \in Threads : holds[t] = b

(* The roles of the threads: who can be where in the queue, and what it    *)
(* holds there.                                                            *)
Roles ==
    /\ holds[Main] = NULL
    /\ \A l \in Loggers :
          /\ pc[l] \in {"idle", "push", "not_full"}
          /\ pc[l] # "idle" => holds[l] # NULL /\ item[l] = holds[l]
          /\ holds[l] # NULL => run[l] = "func" /\ logged[l] >= 1
    /\ pc[Main] \in {"idle", "push", "not_full"}
    /\ pc[Main] # "idle" <=> main = "push"
    /\ pc[Main] # "idle" => item[Main] = NULL
    /\ pc[LogThread] \in {"idle", "pop", "not_empty"}
    /\ pc[LogThread] # "idle" => holds[LogThread] = NULL
    /\ holds[LogThread] # NULL => run[LogThread] = "func"
    /\ writing # <<>> => holds[LogThread] # NULL

(* A buffer that was made is in one place, once. *)
OneOwner ==
    /\ \A i, j \in 1 .. Len(pool) : pool[i] = pool[j] => i = j
    /\ \A i, j \in 1 .. Len(queue) : queue[i] = queue[j] /\ queue[i] # NULL => i = j
    /\ \A t, u \in Threads : holds[t] = holds[u] /\ holds[t] # NULL => t = u
    /\ \A b \in Buffers :
          /\ b \in used <=> InPool(b) \/ InQueue(b) \/ InHands(b)
          /\ ~ (InPool(b) /\ InQueue(b))
          /\ ~ (InPool(b) /\ InHands(b))
          /\ ~ (InQueue(b) /\ InHands(b))

(* How the program ends: the threads main has joined have exited, the NULL *)
(* comes last, and when the log thread has popped it nothing is left.      *)
Ending ==
    /\ \A l \in Loggers : l \in left[Main] \/ run[l] = "exited" \/ (at[Main] # "no" /\ of[Main] = l)
    /\ main # "run" => \A l \in Loggers : run[l] = "exited"
    /\ \A i \in 1 .. Len(queue) : queue[i] = NULL => i = Len(queue) /\ main \notin {"run", "push"}
    /\ run[LogThread] \in {"proxy", "exited"} => queue = <<>> /\ main \notin {"run", "push"}
    /\ main = "delete" => run[LogThread] = "exited" \/ (at[Main] # "no" /\ of[Main] = LogThread)
    /\ main = "deleted" => run[LogThread] = "exited"

(* The buffers on their way to the adapted sink, and the message in each.  *)
pending == IF holds[LogThread] # NULL /\ writing = <<>> THEN <<holds[LogThread]>> \o queue ELSE queue

Appended(l) == IF holds[l] = NULL THEN logged[l] ELSE logged[l] - 1

From(b) == content[b][1][1]
Number(b) == content[b][1][2]

Contents ==
    /\ \A b \in Buffers : b \notin used \/ InPool(b) => content[b] = <<>>
    /\ \A l \in Loggers : holds[l] # NULL =>
          content[holds[l]] = IF pc[l] = "idle" THEN <<>> ELSE << <<l, logged[l]>> >>
    /\ writing # <<>> => content[holds[LogThread]] = <<>>
    /\ \A i \in 1 .. Len(pending) : pending[i] # NULL =>
          \E l \in Loggers, n \in 1 .. MaxLogs : content[pending[i]] = << <<l, n>> >>

Order ==
    /\ \A i \in 1 .. Len(pending) : pending[i] # NULL =>
          written[From(pending[i])] < Number(pending[i]) /\ Number(pending[i]) <= Appended(From(pending[i]))
    /\ \A i, j \in 1 .. Len(pending) :
          pending[i] # NULL /\ pending[j] # NULL /\ i < j /\ From(pending[i]) = From(pending[j])
             => Number(pending[i]) < Number(pending[j])
    /\ \A l \in Loggers : \A n \in 1 .. MaxLogs :
          written[l] < n /\ n <= Appended(l) =>
              \E i \in 1 .. Len(pending) : pending[i] # NULL /\ From(pending[i]) = l /\ Number(pending[i]) = n
    /\ \A l \in Loggers : written[l] <= Appended(l)


SinkInv == SinkTypes /\ Roles /\ OneOwner /\ Ending /\ Contents /\ Order

(* Nobody but t goes anywhere, or a waiting thread is woken. *)
OthersStay(t) ==
    \A u \in Threads : u # t =>
        \/ pc'[u] = pc[u]
        \/ pc[u] = "not_full" /\ pc'[u] = "push"
        \/ pc[u] = "not_empty" /\ pc'[u] = "pop"

LEMMA Notified ==
    ASSUME pc \in [Threads -> Places], NEW t \in Threads, pc[t] \notin {"not_full", "not_empty"},
           NEW cond \in {"not_full", "not_empty"},
           Q!notifyOne(cond, [pc EXCEPT ![t] = "idle"])
    PROVE  pc' \in [Threads -> Places] /\ pc'[t] = "idle" /\ OthersStay(t)
<1>1. CASE Q!Waiting(cond) = {}
  <2>1. pc' = [pc EXCEPT ![t] = "idle"]
    BY <1>1 DEF Q!notifyOne
  <2> QED
    BY <2>1 DEF Places, OthersStay
<1>2. CASE Q!Waiting(cond) # {}
  <2>1. PICK u \in Q!Waiting(cond) :
            pc' = [[pc EXCEPT ![t] = "idle"] EXCEPT ![u] = Q!Retry(cond)]
    BY <1>2 DEF Q!notifyOne
  <2>2. u \in Threads /\ pc[u] = cond /\ u # t
    BY <2>1 DEF Q!Waiting
  <2>3. \/ cond = "not_full" /\ Q!Retry(cond) = "push"
        \/ cond = "not_empty" /\ Q!Retry(cond) = "pop"
    BY DEF Q!Retry
  <2> QED
    BY <2>1, <2>2, <2>3 DEF Places, OthersStay
<1> QED
  BY <1>1, <1>2

LEMMA InitSinkInv == Init => SinkInv
<1> SUFFICES ASSUME Init PROVE SinkInv
  OBVIOUS
<1>1. /\ queue = <<>> /\ pc = [t \in Threads |-> "idle"]
      /\ item = [t \in Threads |-> CHOOSE x \in Buffers \cup {NULL} : TRUE]
      /\ used = {} /\ pool = <<>>
      /\ content = [b \in Buffers |-> <<>>]
      /\ holds = [t \in Threads |-> NULL]
      /\ logged = [l \in Loggers |-> 0]
      /\ written = [l \in Loggers |-> 0]
      /\ writing = <<>> /\ main = "run"
      /\ run = [o \in Objects |-> "none"]
  BY DEF Init, Q!Init, T!ThreadInit
<1>2. (CHOOSE x \in Buffers \cup {NULL} : TRUE) \in Buffers \cup {NULL}
  OBVIOUS
<1>3. left \in [Threads -> SUBSET Objects] /\ Loggers \subseteq left[Main]
  <2> DEFINE owes(t) == CASE t = Main      -> Objects
                          [] t \in Joiners -> Loggers \ Joiners
                          [] OTHER         -> {}
  <2>1. \A t \in Threads : owes(t) \in SUBSET Objects
    BY DEF Objects
  <2>2. owes(Main) = Objects
    BY SinkAssumption DEF Objects
  <2>3. left = [t \in Threads |-> owes(t)]
    BY DEF Init
  <2> HIDE DEF owes
  <2> QED
    BY <2>1, <2>2, <2>3, Distinct DEF Objects
<1>4. SinkTypes
  BY <1>1, <1>2, <1>3, SinkAssumption DEF SinkTypes, Places
<1>5. Roles
  BY <1>1, Distinct DEF Roles
<1>6. OneOwner
  BY <1>1, SinkAssumption DEF OneOwner, InPool, InQueue, InHands
<1>7. Ending
  BY <1>1, <1>3, Distinct DEF Ending
<1>8. pending = <<>>
  BY <1>1, Distinct DEF pending
<1>9. Contents
  BY <1>1, <1>8, Distinct DEF Contents
<1>10. Order
  BY <1>1, <1>8, Distinct, SinkAssumption DEF Order, Appended
<1> QED
  BY <1>4, <1>5, <1>6, <1>7, <1>9, <1>10 DEF SinkInv

----------------------------------------------------------------------------
(* A step that touches no buffer and no message.                           *)
LEMMA FrameKeepsBuffers ==
    ASSUME SinkInv, UNCHANGED <<queue, sinkVars>>,
           \A l \in Loggers : pc'[l] = "idle" <=> pc[l] = "idle"
    PROVE  OneOwner' /\ Contents' /\ Order'
<1>1. UNCHANGED <<queue, used, pool, content, holds, logged, written, writing>>
  BY DEF sinkVars, poolVars
<1>2. /\ UNCHANGED pending
      /\ \A b : InPool(b)' = InPool(b) /\ InQueue(b)' = InQueue(b) /\ InHands(b)' = InHands(b)
      /\ \A b : From(b)' = From(b) /\ Number(b)' = Number(b)
      /\ \A l : Appended(l)' = Appended(l)
  BY <1>1 DEF pending, InPool, InQueue, InHands, From, Number, Appended
<1>3. OneOwner'
  BY <1>1, <1>2 DEF SinkInv, OneOwner
<1>4. Contents'
  BY <1>1, <1>2 DEF SinkInv, Contents
<1>5. Order'
  BY <1>1, <1>2 DEF SinkInv, Order
<1> QED
  BY <1>3, <1>4, <1>5

(* In the queue nobody but the one who returns becomes idle, and everyone  *)
(* keeps to the method of his role.                                        *)
LEMMA OthersKeepRoles ==
    ASSUME SinkInv, NEW t \in Threads, OthersStay(t)
    PROVE  /\ \A u \in Threads : u # t => (pc'[u] = "idle" <=> pc[u] = "idle")
           /\ \A l \in Loggers : l # t => pc'[l] \in {"idle", "push", "not_full"}
           /\ Main # t => pc'[Main] \in {"idle", "push", "not_full"}
           /\ LogThread # t => pc'[LogThread] \in {"idle", "pop", "not_empty"}
BY Distinct DEF SinkInv, SinkTypes, Roles, OthersStay

(* The steps inside the queue that only change who waits.                  *)
LEMMA WaitKeepsInv ==
    ASSUME SinkInv, NEW t \in Threads,
           \/ Q!PushWaits(t)
           \/ Q!PopWaits(t)
           \/ Q!SpuriousWakeup(t)
           \/ t = LogThread /\ Q!CallPop(t) /\ holds[t] = NULL,
           UNCHANGED <<run, at, of, sinkVars, mainVars>>
    PROVE  SinkInv'
<1>1. UNCHANGED <<queue, item, used, pool, content, holds, logged, written, writing, main, left>>
  BY DEF Q!PushWaits, Q!PopWaits, Q!SpuriousWakeup, Q!CallPop, sinkVars, poolVars, mainVars
<1>2. pc \in [Threads -> Places]
  BY DEF SinkInv, SinkTypes
<1>3. CASE Q!PushWaits(t) \/ Q!PopWaits(t) \/ Q!SpuriousWakeup(t)
  <2>1. /\ pc' \in [Threads -> Places]
        /\ \A u \in Threads : u # t => pc'[u] = pc[u]
        /\ \/ pc[t] = "push" /\ pc'[t] = "not_full"
           \/ pc[t] = "pop" /\ pc'[t] = "not_empty"
           \/ pc[t] = "not_full" /\ pc'[t] = "push"
           \/ pc[t] = "not_empty" /\ pc'[t] = "pop"
    BY <1>2, <1>3 DEF Q!PushWaits, Q!PopWaits, Q!SpuriousWakeup, Q!Retry, Places
  <2>2. \A u \in Threads : pc'[u] = "idle" <=> pc[u] = "idle"
    BY <2>1
  <2>3. OneOwner' /\ Contents' /\ Order'
    BY <1>1, <2>2, Distinct, FrameKeepsBuffers DEF sinkVars, poolVars
  <2>4. SinkTypes' /\ Ending'
    BY <1>1, <2>1 DEF SinkInv, SinkTypes, Ending
  <2>5. /\ \A l \in Loggers : pc'[l] \in {"idle", "push", "not_full"}
        /\ pc'[Main] \in {"idle", "push", "not_full"}
        /\ pc'[LogThread] \in {"idle", "pop", "not_empty"}
    BY <2>1, Distinct DEF SinkInv, Roles
  <2>6. Roles'
    BY <1>1, <2>2, <2>5, Distinct DEF SinkInv, Roles
  <2> QED
    BY <2>3, <2>4, <2>6 DEF SinkInv
<1>4. CASE t = LogThread /\ Q!CallPop(t) /\ holds[t] = NULL
  <2>1. pc' = [pc EXCEPT ![LogThread] = "pop"]
    BY <1>4 DEF Q!CallPop
  <2>2. \A l \in Loggers : pc'[l] = pc[l]
    BY <1>2, <2>1, Distinct
  <2>3. OneOwner' /\ Contents' /\ Order'
    BY <1>1, <2>2, FrameKeepsBuffers DEF sinkVars, poolVars
  <2>4. SinkTypes' /\ Ending'
    BY <1>1, <2>1 DEF SinkInv, SinkTypes, Ending, Places
  <2>5. pc'[Main] = pc[Main] /\ pc'[LogThread] = "pop"
    BY <1>2, <2>1, Distinct
  <2>6. Roles'
    BY <1>1, <1>4, <2>2, <2>5 DEF SinkInv, Roles
  <2> QED
    BY <2>3, <2>4, <2>6 DEF SinkInv
<1> QED
  BY <1>3, <1>4

(* What getObject gives: a buffer that is empty and nobody else's.         *)
LEMMA GetObject ==
    ASSUME SinkInv, NEW l \in Loggers, getObject(l)
    PROVE  \E b \in Buffers :
              /\ holds' = [holds EXCEPT ![l] = b]
              /\ content[b] = <<>> /\ ~ InQueue(b) /\ ~ InHands(b)
              /\ used' = used \cup {b}
              /\ pool' \in Seq(Buffers)
              /\ \A x : InPool(x)' <=> InPool(x) /\ x # b
              /\ \A i, j \in 1 .. Len(pool') : pool'[i] = pool'[j] => i = j
<1>1. pool \in Seq(Buffers) /\ used \subseteq Buffers
  BY DEF SinkInv, SinkTypes
<1>2. CASE pool # <<>>
  <2> DEFINE b == pool[Len(pool)]
  <2>1. holds' = [holds EXCEPT ![l] = b] /\ pool' = SubSeq(pool, 1, Len(pool) - 1) /\ used' = used
    BY <1>2 DEF getObject
  <2>2. Len(pool) \in Nat /\ Len(pool) \in 1 .. Len(pool) /\ b \in Buffers
    BY <1>1, <1>2
  <2>3. InPool(b) /\ b \in used /\ ~ InQueue(b) /\ ~ InHands(b) /\ content[b] = <<>>
    BY <2>2 DEF InPool, SinkInv, OneOwner, Contents
  <2>4. pool' \in Seq(Buffers) /\ Len(pool') = Len(pool) - 1
        /\ \A i \in 1 .. Len(pool) - 1 : pool'[i] = pool[i]
    <3> DEFINE n == Len(pool) - 1
    <3>1. n \in Int /\ 1 \in Int /\ (IF 1 <= n THEN n - 1 + 1 ELSE 0) = n /\ n - 1 + 1 = n
      <4>1. n \in Nat
        BY <2>2
      <4> HIDE DEF n
      <4> QED
        BY <4>1
    <3>2. \A i \in 1 .. n : pool[i] \in Buffers
      BY <1>1, <2>2
    <3> HIDE DEF n
    <3>3. /\ SubSeq(pool, 1, n) \in Seq(Buffers)
          /\ Len(SubSeq(pool, 1, n)) = n
          /\ \A i \in 1 .. n : SubSeq(pool, 1, n)[i] = pool[1 + i - 1]
      BY <3>1, <3>2, SubSeqProperties
    <3>4. \A i \in 1 .. n : 1 + i - 1 = i
      BY <3>1
    <3>5. pool' = SubSeq(pool, 1, n)
      BY <2>1 DEF n
    <3>6. pool' \in Seq(Buffers) /\ Len(pool') = n /\ \A i \in 1 .. n : pool'[i] = pool[i]
      BY <3>3, <3>4, <3>5
    <3> QED
      BY <3>6 DEF n
  <2>5. \A i, j \in 1 .. Len(pool) : pool[i] = pool[j] => i = j
    BY DEF SinkInv, OneOwner
  <2>6. \A i \in 1 .. Len(pool) - 1 : i \in 1 .. Len(pool) /\ i # Len(pool)
    BY <2>2
  <2>7. \A i \in 1 .. Len(pool) : i # Len(pool) => i \in 1 .. Len(pool) - 1
    BY <2>2
  <2>8. ASSUME NEW x
        PROVE  InPool(x)' <=> InPool(x) /\ x # b
    BY <2>2, <2>4, <2>5, <2>6, <2>7 DEF InPool
  <2>9. \A i, j \in 1 .. Len(pool') : pool'[i] = pool'[j] => i = j
    BY <2>4, <2>5, <2>6
  <2>10. used' = used \cup {b}
    BY <2>1, <2>3
  <2>11. \A x : InPool(x)' <=> InPool(x) /\ x # b
    BY <2>8
  <2> HIDE DEF b
  <2> QED
    BY <2>1, <2>2, <2>3, <2>4, <2>9, <2>10, <2>11
<1>3. CASE pool = <<>>
  <2>1. used # Buffers /\ holds' = [holds EXCEPT ![l] = new] /\ used' = used \cup {new}
        /\ UNCHANGED pool
    BY <1>3 DEF getObject
  <2>2. new \in Buffers \ used
    BY <1>1, <2>1 DEF new
  <2>3. ~ InPool(new) /\ ~ InQueue(new) /\ ~ InHands(new) /\ content[new] = <<>>
    BY <2>2 DEF SinkInv, OneOwner, Contents
  <2>4. \A x : InPool(x)' <=> InPool(x) /\ x # new
    BY <2>1, <2>3 DEF InPool
  <2>5. \A i, j \in 1 .. Len(pool') : pool'[i] = pool'[j] => i = j
    BY <2>1 DEF SinkInv, OneOwner
  <2> QED
    BY <1>1, <2>1, <2>2, <2>3, <2>4, <2>5
<1> QED
  BY <1>2, <1>3

LEMMA LogGetKeepsInv == ASSUME SinkInv, NEW l \in Loggers, LogGet(l) PROVE SinkInv'
<1>1. /\ run[l] = "func" /\ pc[l] = "idle" /\ holds[l] = NULL /\ logged[l] < MaxLogs
      /\ getObject(l)
      /\ logged' = [logged EXCEPT ![l] = logged[l] + 1]
      /\ UNCHANGED <<queue, pc, item, run, at, of, content, written, writing, main, left>>
  BY DEF LogGet, Free, queueVars, threadVars, mainVars
<1>2. PICK b \in Buffers :
          /\ holds' = [holds EXCEPT ![l] = b]
          /\ content[b] = <<>> /\ ~ InQueue(b) /\ ~ InHands(b)
          /\ used' = used \cup {b}
          /\ pool' \in Seq(Buffers)
          /\ \A x : InPool(x)' <=> InPool(x) /\ x # b
          /\ \A i, j \in 1 .. Len(pool') : pool'[i] = pool'[j] => i = j
  BY <1>1, GetObject
<1>3. /\ holds \in [Threads -> Buffers \cup {NULL}] /\ logged \in [Loggers -> 0 .. MaxLogs]
      /\ MaxLogs \in Nat /\ b # NULL
      /\ l \in Threads /\ l # Main /\ l # LogThread
  BY SinkAssumption, Distinct DEF SinkInv, SinkTypes
<1>4. /\ \A t \in Threads : holds'[t] = IF t = l THEN b ELSE holds[t]
      /\ \A k \in Loggers : logged'[k] = IF k = l THEN logged[l] + 1 ELSE logged[k]
      /\ logged[l] + 1 \in 0 .. MaxLogs /\ logged[l] + 1 >= 1 /\ logged[l] \in Int
  BY <1>1, <1>2, <1>3
<1>5. SinkTypes'
  BY <1>1, <1>2, <1>3, <1>4 DEF SinkInv, SinkTypes
<1>6. Roles'
  <2>1. holds'[Main] = holds[Main] /\ holds'[LogThread] = holds[LogThread]
    BY <1>3, <1>4, Distinct
  <2>2. ASSUME NEW k \in Loggers
        PROVE  /\ pc[k] # "idle" => holds'[k] # NULL /\ item[k] = holds'[k]
               /\ holds'[k] # NULL => run[k] = "func" /\ logged'[k] >= 1
    BY <1>1, <1>4, Distinct DEF SinkInv, Roles
  <2> QED
    BY <1>1, <2>1, <2>2 DEF SinkInv, Roles
<1>7. \A x \in Buffers : InHands(x)' <=> InHands(x) \/ x = b
  BY <1>1, <1>3, <1>4, SinkAssumption DEF InHands
<1>8. OneOwner'
  <2>1. \A x : InQueue(x)' = InQueue(x)
    BY <1>1 DEF InQueue
  <2>2. \A t, u \in Threads : holds'[t] = holds'[u] /\ holds'[t] # NULL => t = u
    <3>1. \A t \in Threads : holds[t] # b
      BY <1>2 DEF InHands
    <3> QED
      BY <1>4, <3>1 DEF SinkInv, OneOwner
  <2> QED
    BY <1>1, <1>2, <1>7, <2>1, <2>2 DEF SinkInv, OneOwner
<1>9. Ending'
  BY <1>1 DEF SinkInv, Ending
<1>10. UNCHANGED pending
  BY <1>1, <1>3, <1>4, Distinct DEF pending
<1>11. \A k \in Loggers : Appended(k)' = Appended(k)
  BY <1>1, <1>3, <1>4, Distinct DEF Appended
<1>12. \A x : From(x)' = From(x) /\ Number(x)' = Number(x)
  BY <1>1 DEF From, Number
<1>13. Contents'
  <2>1. \A x \in Buffers : x \notin used' \/ InPool(x)' => content'[x] = <<>>
    BY <1>1, <1>2 DEF SinkInv, Contents
  <2>2. \A k \in Loggers : holds'[k] # NULL =>
            content'[holds'[k]] = IF pc'[k] = "idle" THEN <<>> ELSE << <<k, logged'[k]>> >>
    BY <1>1, <1>2, <1>4, Distinct DEF SinkInv, Contents
  <2>3. writing' # <<>> => content'[holds'[LogThread]] = <<>>
    BY <1>1, <1>3, <1>4, Distinct DEF SinkInv, Contents
  <2> QED
    BY <1>1, <1>10, <2>1, <2>2, <2>3 DEF SinkInv, Contents
<1>14. \A i \in 1 .. Len(pending) : pending[i] # NULL => From(pending[i]) \in Loggers
  BY SMTT(30) DEF SinkInv, Contents, From
<1>15. Order'
  BY <1>1, <1>10, <1>11, <1>12, <1>14 DEF SinkInv, Order
<1> QED
  BY <1>5, <1>6, <1>8, <1>9, <1>13, <1>15 DEF SinkInv

(* What is pending is in the queue or in the hands of the log thread.      *)
LEMMA Pending ==
    ASSUME SinkTypes
    PROVE  /\ pending \in Seq(Buffers \cup {NULL}) /\ Len(pending) \in Nat
           /\ \A i \in 1 .. Len(pending) :
                 pending[i] \in Buffers \cup {NULL} /\ (InQueue(pending[i]) \/ InHands(pending[i]))
           /\ \A i \in 1 .. Len(pending) :
                 InQueue(pending[i]) \/ (pending[i] = holds[LogThread] /\ holds[LogThread] # NULL)
<1>1. queue \in Seq(Buffers \cup {NULL}) /\ holds[LogThread] \in Buffers \cup {NULL}
  BY Distinct DEF SinkTypes
<1>2. CASE holds[LogThread] # NULL /\ writing = <<>>
  <2> DEFINE h == <<holds[LogThread]>>
  <2>1. pending = h \o queue
    BY <1>2 DEF pending
  <2>2. h \in Seq(Buffers \cup {NULL}) /\ Len(h) = 1 /\ h[1] = holds[LogThread]
    BY <1>1
  <2> HIDE DEF h
  <2>3. /\ pending \in Seq(Buffers \cup {NULL})
        /\ Len(pending) = Len(h) + Len(queue)
        /\ \A i \in 1 .. Len(h) + Len(queue) : pending[i] = IF i <= Len(h) THEN h[i] ELSE queue[i - Len(h)]
    BY <1>1, <2>1, <2>2, ConcatProperties
  <2>4. Len(queue) \in Nat
    BY <1>1
  <2>5. \A i \in 1 .. Len(pending) : pending[i] = h[1] \/ \E j \in 1 .. Len(queue) : queue[j] = pending[i]
    <3> SUFFICES ASSUME NEW i \in 1 .. Len(pending), i # 1
                 PROVE  \E j \in 1 .. Len(queue) : queue[j] = pending[i]
      BY <2>2, <2>3, <2>4
    <3>1. i - 1 \in 1 .. Len(queue) /\ pending[i] = queue[i - 1]
      BY <2>2, <2>3, <2>4
    <3> QED
      BY <3>1
  <2>6. Len(pending) \in Nat /\ \A i \in 1 .. Len(pending) : pending[i] \in Buffers \cup {NULL}
    BY <2>3
  <2> QED
    BY <1>2, <2>2, <2>3, <2>5, <2>6, Distinct DEF InQueue, InHands
<1>3. CASE ~ (holds[LogThread] # NULL /\ writing = <<>>)
  BY <1>1, <1>3 DEF pending, InQueue
<1> QED
  BY <1>2, <1>3

(* A buffer a logger fills is not yet pending. *)
LEMMA HeldIsNotPending ==
    ASSUME SinkInv, NEW l \in Loggers, holds[l] # NULL
    PROVE  /\ holds[l] \in Buffers
           /\ \A i \in 1 .. Len(pending) : pending[i] # holds[l]
<1>1. SinkTypes /\ OneOwner
  BY DEF SinkInv
<1>2. holds[l] \in Buffers /\ l \in Threads /\ l # LogThread /\ LogThread \in Threads
  BY <1>1, Distinct DEF SinkTypes
<1>3. InHands(holds[l]) /\ ~ InQueue(holds[l])
  BY <1>1, <1>2 DEF OneOwner, InHands
<1>4. holds[LogThread] # holds[l]
  BY <1>1, <1>2 DEF OneOwner
<1> QED
  BY <1>1, <1>2, <1>3, <1>4, Pending

(* Every pending buffer has its message. *)
LEMMA PendingMessage ==
    ASSUME SinkInv, NEW i \in 1 .. Len(pending), pending[i] # NULL
    PROVE  /\ pending[i] \in Buffers
           /\ From(pending[i]) \in Loggers /\ Number(pending[i]) \in 1 .. MaxLogs
           /\ content[pending[i]] = << <<From(pending[i]), Number(pending[i])>> >>
<1>1. pending[i] \in Buffers
  BY Pending DEF SinkInv
<1>2. PICK l \in Loggers, n \in 1 .. MaxLogs : content[pending[i]] = << <<l, n>> >>
  BY DEF SinkInv, Contents
<1>3. From(pending[i]) = l /\ Number(pending[i]) = n
  BY <1>2 DEF From, Number
<1> QED
  BY <1>1, <1>2, <1>3

LEMMA LogFillKeepsInv == ASSUME SinkInv, NEW l \in Loggers, LogFill(l) PROVE SinkInv'
<1> DEFINE b == holds[l]
           m == <<l, logged[l]>>
<1>1. /\ pc[l] = "idle" /\ b # NULL
      /\ content' = [content EXCEPT ![b] = Append(content[b], m)]
      /\ pc' = [pc EXCEPT ![l] = "push"] /\ item' = [item EXCEPT ![l] = b]
      /\ UNCHANGED <<queue, run, at, of, used, pool, holds, logged, written, writing, main, left>>
  BY DEF LogFill, Q!CallPush, threadVars, mainVars
<1>2. /\ SinkTypes /\ Roles /\ OneOwner /\ Contents
      /\ pc \in [Threads -> Places] /\ item \in [Threads -> Buffers \cup {NULL}]
      /\ content \in [Buffers -> Seq(Loggers \X (1 .. MaxLogs))]
      /\ logged \in [Loggers -> 0 .. MaxLogs]
      /\ l \in Threads /\ l # Main /\ l # LogThread /\ b \in Buffers
  BY <1>1, Distinct, HeldIsNotPending DEF SinkInv, SinkTypes
<1>3. m \in Loggers \X (1 .. MaxLogs) /\ logged[l] \in 1 .. MaxLogs
  <2>1. logged[l] >= 1 /\ logged[l] \in 0 .. MaxLogs
    BY <1>1, <1>2 DEF Roles
  <2>2. logged[l] \in 1 .. MaxLogs
    BY <2>1, SinkAssumption
  <2> QED
    BY <2>2
<1>4. content[b] = <<>>
  BY <1>1, <1>2 DEF Contents
<1>5. /\ content' \in [Buffers -> Seq(Loggers \X (1 .. MaxLogs))]
      /\ content'[b] = <<m>> /\ \A x \in Buffers : x # b => content'[x] = content[x]
  <2>1. Append(content[b], m) = <<m>> /\ <<m>> \in Seq(Loggers \X (1 .. MaxLogs))
    BY <1>3, <1>4
  <2> HIDE DEF m
  <2> QED
    BY <1>1, <1>2, <2>1
<1>6. SinkTypes'
  BY <1>1, <1>2, <1>5 DEF SinkTypes, Places
<1>7. Roles'
  <2>1. \A t \in Threads : t # l => pc'[t] = pc[t] /\ item'[t] = item[t]
    BY <1>1, <1>2
  <2>2. pc'[l] = "push" /\ item'[l] = b
    BY <1>1, <1>2
  <2> QED
    BY <1>1, <1>2, <2>1, <2>2, Distinct DEF Roles
<1>8. /\ UNCHANGED pending
      /\ \A x : InPool(x)' = InPool(x) /\ InQueue(x)' = InQueue(x) /\ InHands(x)' = InHands(x)
      /\ \A k \in Loggers : Appended(k)' = Appended(k)
  BY <1>1 DEF pending, InPool, InQueue, InHands, Appended
<1>9. OneOwner'
  BY <1>1, <1>2, <1>8 DEF OneOwner
<1>10. Ending'
  BY <1>1 DEF SinkInv, Ending
<1>11. \A i \in 1 .. Len(pending) : pending[i] # NULL =>
          /\ content'[pending[i]] = content[pending[i]]
          /\ From(pending[i])' = From(pending[i]) /\ Number(pending[i])' = Number(pending[i])
          /\ From(pending[i]) \in Loggers
  <2> SUFFICES ASSUME NEW i \in 1 .. Len(pending), pending[i] # NULL
               PROVE  /\ content'[pending[i]] = content[pending[i]]
                      /\ From(pending[i])' = From(pending[i])
                      /\ Number(pending[i])' = Number(pending[i])
                      /\ From(pending[i]) \in Loggers
    OBVIOUS
  <2>1. content'[pending[i]] = content[pending[i]]
    BY <1>1, <1>5, HeldIsNotPending, PendingMessage
  <2> QED
    BY <1>8, <2>1, PendingMessage DEF From, Number
<1>12. Contents'
  <2>1. \A x \in Buffers : x \notin used' \/ InPool(x)' => content'[x] = <<>>
    <3>1. b \in used /\ ~ InPool(b)
      BY <1>2 DEF OneOwner, InHands
    <3> QED
      BY <1>1, <1>2, <1>5, <1>8, <3>1 DEF Contents
  <2>2. ASSUME NEW k \in Loggers, holds[k] # NULL
        PROVE  content'[holds[k]] = IF pc'[k] = "idle" THEN <<>> ELSE << <<k, logged[k]>> >>
    <3>1. CASE k = l
      <4>1. pc'[k] # "idle"
        BY <1>1, <1>2, <3>1
      <4> QED
        BY <1>5, <3>1, <4>1
    <3>2. CASE k # l
      <4>1. pc'[k] = pc[k]
        BY <1>1, <1>2, <3>2, Distinct
      <4>2. holds[k] # b /\ holds[k] \in Buffers
        BY <1>2, <2>2, <3>2, Distinct, HeldIsNotPending DEF OneOwner
      <4> QED
        BY <1>2, <1>5, <2>2, <4>1, <4>2 DEF Contents
    <3> QED
      BY <3>1, <3>2
  <2>3. writing # <<>> => content'[holds[LogThread]] = <<>>
    <3> SUFFICES ASSUME writing # <<>> PROVE content'[holds[LogThread]] = <<>>
      OBVIOUS
    <3>1. holds[LogThread] # NULL /\ holds[LogThread] \in Buffers
      BY <1>2, Distinct DEF Roles, SinkTypes
    <3>2. holds[LogThread] # b
      BY <1>2, <3>1, Distinct DEF OneOwner
    <3> QED
      BY <1>2, <1>5, <3>1, <3>2 DEF Contents
  <2>4. \A i \in 1 .. Len(pending) : pending[i] # NULL =>
            \E k \in Loggers, n \in 1 .. MaxLogs : content'[pending[i]] = << <<k, n>> >>
    BY <1>11, PendingMessage
  <2> QED
    BY <1>1, <1>8, <2>1, <2>2, <2>3, <2>4, ZenonT(40) DEF Contents
<1>13. Order'
  BY <1>1, <1>8, <1>11 DEF SinkInv, Order
<1> QED
  BY <1>6, <1>7, <1>9, <1>10, <1>12, <1>13 DEF SinkInv

(* What a push appends to the queue is the last to be written.             *)
LEMMA PushPending ==
    ASSUME SinkTypes, NEW x \in Buffers \cup {NULL}, queue' = Append(queue, x),
           UNCHANGED writing, holds'[LogThread] = holds[LogThread]
    PROVE  /\ queue' \in Seq(Buffers \cup {NULL}) /\ Len(queue') = Len(queue) + 1
           /\ \A i \in 1 .. Len(queue) : queue'[i] = queue[i]
           /\ queue'[Len(queue) + 1] = x
           /\ Len(pending') = Len(pending) + 1
           /\ \A i \in 1 .. Len(pending) : pending'[i] = pending[i]
           /\ pending'[Len(pending) + 1] = x
<1>1. queue \in Seq(Buffers \cup {NULL}) /\ Len(queue) \in Nat
  BY DEF SinkTypes
<1>2. /\ queue' \in Seq(Buffers \cup {NULL}) /\ Len(queue') = Len(queue) + 1
      /\ \A i \in 1 .. Len(queue) : queue'[i] = queue[i]
      /\ queue'[Len(queue) + 1] = x
  BY <1>1, AppendProperties
<1>3. CASE holds[LogThread] # NULL /\ writing = <<>>
  <2> DEFINE h == <<holds[LogThread]>>
  <2>1. h \in Seq(Buffers \cup {NULL}) /\ Len(h) = 1
    BY Distinct DEF SinkTypes
  <2>2. pending = h \o queue /\ pending' = h \o queue'
    BY <1>3 DEF pending
  <2> HIDE DEF h
  <2>3. /\ Len(pending) = Len(h) + Len(queue)
        /\ \A i \in 1 .. Len(h) + Len(queue) : pending[i] = IF i <= Len(h) THEN h[i] ELSE queue[i - Len(h)]
    BY <1>1, <2>1, <2>2, ConcatProperties
  <2>4. /\ Len(pending') = Len(h) + Len(queue')
        /\ \A i \in 1 .. Len(h) + Len(queue') : pending'[i] = IF i <= Len(h) THEN h[i] ELSE queue'[i - Len(h)]
    BY <1>2, <2>1, <2>2, ConcatProperties, ZenonT(40)
  <2>5. Len(pending') = Len(pending) + 1 /\ Len(pending) = Len(queue) + 1 /\ Len(queue) \in Nat
    BY <1>1, <1>2, <2>1, <2>3, <2>4
  <2>6. pending'[Len(pending) + 1] = x
    <3>1. Len(pending) + 1 \in 1 .. Len(h) + Len(queue') /\ ~ (Len(pending) + 1 <= Len(h))
          /\ Len(pending) + 1 - Len(h) = Len(queue) + 1
      BY <1>2, <2>1, <2>5
    <3> QED
      BY <1>2, <2>4, <3>1
  <2>7. ASSUME NEW i \in 1 .. Len(pending)
        PROVE  pending'[i] = pending[i]
    <3>1. i \in 1 .. Len(h) + Len(queue) /\ i \in 1 .. Len(h) + Len(queue')
      BY <1>2, <2>1, <2>5
    <3>2. CASE i <= Len(h)
      BY <2>3, <2>4, <3>1, <3>2
    <3>3. CASE ~ (i <= Len(h))
      <4>1. i - Len(h) \in 1 .. Len(queue)
        BY <2>1, <2>5, <3>3
      <4> QED
        BY <1>2, <2>3, <2>4, <3>1, <3>3, <4>1
    <3> QED
      BY <3>2, <3>3
  <2> QED
    BY <1>2, <2>5, <2>6, <2>7
<1>4. CASE ~ (holds[LogThread] # NULL /\ writing = <<>>)
  <2>1. pending = queue /\ pending' = queue'
    BY <1>4 DEF pending
  <2> QED
    BY <1>2, <2>1
<1> QED
  BY <1>3, <1>4

(* A message that is appended comes behind all others of its logger. *)
LEMMA AppendKeepsOrder ==
    ASSUME SinkInv, NEW l \in Loggers, NEW b \in Buffers,
           content[b] = << <<l, logged[l]>> >>, holds[l] # NULL, logged[l] >= 1,
           holds' = [holds EXCEPT ![l] = NULL],
           queue' = Append(queue, b),
           UNCHANGED <<content, logged, written, writing>>
    PROVE  Order'
<1>1. /\ SinkTypes /\ Order /\ b # NULL
      /\ holds \in [Threads -> Buffers \cup {NULL}] /\ l \in Threads
      /\ logged \in [Loggers -> 0 .. MaxLogs] /\ written \in [Loggers -> 0 .. MaxLogs]
      /\ MaxLogs \in Nat
  BY SinkAssumption, Distinct DEF SinkInv, SinkTypes
<1>2. holds'[LogThread] = holds[LogThread]
  BY <1>1, Distinct
<1>3. /\ Len(pending') = Len(pending) + 1
      /\ \A i \in 1 .. Len(pending) : pending'[i] = pending[i]
      /\ pending'[Len(pending) + 1] = b /\ Len(pending) \in Nat
  BY <1>1, <1>2, Pending, PushPending
<1>4. From(b) = l /\ Number(b) = logged[l]
  BY DEF From, Number
<1>5. \A x : From(x)' = From(x) /\ Number(x)' = Number(x)
  BY DEF From, Number
<1>6. \A k \in Loggers : Appended(k)' = IF k = l THEN Appended(k) + 1 ELSE Appended(k)
  BY <1>1, Distinct DEF Appended
<1>7. /\ Appended(l) = logged[l] - 1 /\ Appended(l)' = logged[l]
      /\ \A k \in Loggers : Appended(k) \in Int /\ written[k] \in Int /\ written[k] <= Appended(k)
      /\ logged[l] \in Int
  BY <1>1, <1>6 DEF Appended, Order
<1>8. \A i \in 1 .. Len(pending) : pending[i] # NULL =>
          /\ From(pending[i]) \in Loggers /\ Number(pending[i]) \in Int
          /\ written[From(pending[i])] < Number(pending[i])
          /\ Number(pending[i]) <= Appended(From(pending[i]))
  BY <1>1, PendingMessage DEF Order
<1>9. \A i \in 1 .. Len(pending') : pending'[i] # NULL =>
          (/\ written[From(pending[i])] < Number(pending[i])
           /\ Number(pending[i]) <= Appended(From(pending[i])))'
  <2> SUFFICES ASSUME NEW i \in 1 .. Len(pending'), pending'[i] # NULL
               PROVE  (/\ written[From(pending[i])] < Number(pending[i])
                       /\ Number(pending[i]) <= Appended(From(pending[i])))'
    OBVIOUS
  <2>1. CASE i \in 1 .. Len(pending)
    <3>0. PICK k \in Loggers : k = From(pending[i])
      BY <1>3, <1>8, <2>1
    <3>1. /\ Number(pending[i]) \in Int
          /\ written[k] < Number(pending[i]) /\ Number(pending[i]) <= Appended(k)
      BY <1>3, <1>8, <2>1, <3>0
    <3>2. From(pending[i])' = k /\ Number(pending[i])' = Number(pending[i])
      BY <1>3, <1>5, <2>1, <3>0
    <3>3. Number(pending[i]) <= Appended(k)'
      <4>1. Appended(k) \in Int /\ Appended(k)' \in {Appended(k), Appended(k) + 1}
        BY <1>6, <1>7
      <4> QED
        BY <3>1, <4>1
    <3> QED
      BY <3>1, <3>2, <3>3
  <2>2. CASE i = Len(pending) + 1
    <3>1. written[l] < logged[l] /\ logged[l] <= Appended(l)'
      BY <1>7
    <3> QED
      BY <1>3, <1>4, <1>5, <2>2, <3>1
  <2> QED
    BY <1>3, <2>1, <2>2
<1>10. \A i, j \in 1 .. Len(pending') :
          pending'[i] # NULL /\ pending'[j] # NULL /\ i < j /\ From(pending[i])' = From(pending[j])'
             => Number(pending[i])' < Number(pending[j])'
  <2> SUFFICES ASSUME NEW i \in 1 .. Len(pending'), NEW j \in 1 .. Len(pending'),
                      pending'[i] # NULL, pending'[j] # NULL, i < j,
                      From(pending[i])' = From(pending[j])'
               PROVE  Number(pending[i])' < Number(pending[j])'
    OBVIOUS
  <2>1. i \in 1 .. Len(pending)
    BY <1>3
  <2>2. CASE j \in 1 .. Len(pending)
    BY <1>1, <1>3, <1>5, <2>1, <2>2 DEF Order
  <2>3. CASE j = Len(pending) + 1
    <3>1. From(pending[i]) = l /\ pending[i] # NULL
      BY <1>3, <1>4, <1>5, <2>1, <2>3
    <3>2. Number(pending[i]) <= logged[l] - 1 /\ Number(pending[i]) \in Int
      BY <1>7, <1>8, <2>1, <3>1
    <3>3. Number(pending[i]) < logged[l]
      BY <1>7, <3>2
    <3> QED
      BY <1>3, <1>4, <1>5, <2>1, <2>3, <3>3
  <2> QED
    BY <1>3, <2>2, <2>3
<1>11. \A k \in Loggers : \A n \in 1 .. MaxLogs :
          written'[k] < n /\ n <= Appended(k)' =>
              \E i \in 1 .. Len(pending') :
                  pending'[i] # NULL /\ From(pending[i])' = k /\ Number(pending[i])' = n
  <2> SUFFICES ASSUME NEW k \in Loggers, NEW n \in 1 .. MaxLogs,
                      written'[k] < n, n <= Appended(k)'
               PROVE  \E i \in 1 .. Len(pending') :
                  pending'[i] # NULL /\ From(pending[i])' = k /\ Number(pending[i])' = n
    OBVIOUS
  <2>1. CASE n <= Appended(k)
    <3>1. PICK i \in 1 .. Len(pending) : pending[i] # NULL /\ From(pending[i]) = k /\ Number(pending[i]) = n
      BY <1>1, <2>1 DEF Order
    <3>2. i \in 1 .. Len(pending')
      BY <1>3
    <3> QED
      BY <1>3, <1>5, <3>1, <3>2
  <2>2. CASE ~ (n <= Appended(k))
    <3>1. k = l /\ n = logged[l]
      <4>1. k = l
        BY <1>6, <2>2
      <4>2. n \in Int
        BY <1>1
      <4> QED
        BY <1>7, <2>2, <4>1, <4>2
    <3>2. Len(pending) + 1 \in 1 .. Len(pending')
      BY <1>3
    <3> QED
      BY <1>1, <1>3, <1>4, <1>5, <3>1, <3>2
  <2> QED
    BY <2>1, <2>2
<1>12. \A k \in Loggers : written'[k] <= Appended(k)'
  BY <1>6, <1>7
<1> QED
  BY <1>9, <1>10, <1>11, <1>12 DEF Order

LEMMA LogPushKeepsInv == ASSUME SinkInv, NEW l \in Loggers, LogPush(l) PROVE SinkInv'
<1>1. /\ SinkTypes /\ Roles /\ OneOwner /\ Ending /\ Contents
      /\ l \in Threads /\ l # Main /\ l # LogThread /\ l \in Objects
      /\ pc \in [Threads -> Places] /\ holds \in [Threads -> Buffers \cup {NULL}]
      /\ queue \in Seq(Buffers \cup {NULL}) /\ Len(queue) \in Nat
      /\ max_size \in Nat \ {0}
  BY Distinct, SinkAssumption DEF SinkInv, SinkTypes
<1>2. CASE Q!PushWaits(l) /\ UNCHANGED holds
  <2>1. UNCHANGED <<run, at, of, sinkVars, mainVars>>
    BY <1>2 DEF LogPush, threadVars, sinkVars, poolVars
  <2> QED
    BY <1>1, <1>2, <2>1, WaitKeepsInv
<1>3. CASE Q!push(l) /\ holds' = [holds EXCEPT ![l] = NULL]
  <2> DEFINE b == holds[l]
  <2>1. /\ pc[l] = "push" /\ ~ Q!fullNoLock
        /\ queue' = Append(queue, item[l])
        /\ Q!notifyOne("not_empty", [pc EXCEPT ![l] = "idle"])
        /\ UNCHANGED <<item, run, at, of, used, pool, content, logged, written, writing, main, left>>
    BY <1>3 DEF LogPush, Q!push, Q!pushBack, threadVars, poolVars, mainVars
  <2>2. b # NULL /\ item[l] = b /\ run[l] = "func" /\ logged[l] >= 1
    BY <1>1, <2>1 DEF Roles
  <2>3. b \in Buffers /\ content[b] = << <<l, logged[l]>> >>
    BY <1>1, <2>1, <2>2, HeldIsNotPending DEF Contents
  <2>4. pc' \in [Threads -> Places] /\ pc'[l] = "idle" /\ OthersStay(l)
    BY <1>1, <2>1, Notified
  <2>5. \A t \in Threads : holds'[t] = IF t = l THEN NULL ELSE holds[t]
    BY <1>1, <1>3
  <2>6. /\ queue' \in Seq(Buffers \cup {NULL}) /\ Len(queue') = Len(queue) + 1
        /\ \A i \in 1 .. Len(queue) : queue'[i] = queue[i]
        /\ queue'[Len(queue) + 1] = b
        /\ Len(pending') = Len(pending) + 1
        /\ \A i \in 1 .. Len(pending) : pending'[i] = pending[i]
        /\ pending'[Len(pending) + 1] = b
    BY <1>1, <2>1, <2>2, <2>3, <2>5, Distinct, PushPending
  <2>7. SinkTypes'
    <3>1. Len(queue') <= max_size
      BY <1>1, <2>1, <2>6 DEF Q!fullNoLock
    <3> QED
      BY <1>1, <1>3, <2>1, <2>4, <2>6, <3>1 DEF SinkTypes
  <2>8. Roles'
    <3>1. /\ pc'[Main] = "idle" <=> pc[Main] = "idle"
          /\ pc'[LogThread] = "idle" <=> pc[LogThread] = "idle"
          /\ \A k \in Loggers : k # l => (pc'[k] = "idle" <=> pc[k] = "idle")
          /\ \A k \in Loggers : pc'[k] \in {"idle", "push", "not_full"}
          /\ pc'[Main] \in {"idle", "push", "not_full"}
          /\ pc'[LogThread] \in {"idle", "pop", "not_empty"}
      BY <1>1, <2>4, OthersKeepRoles, Distinct
    <3>2. holds'[Main] = holds[Main] /\ holds'[LogThread] = holds[LogThread]
      BY <1>1, <2>5, Distinct
    <3>3. ASSUME NEW k \in Loggers
          PROVE  /\ pc'[k] # "idle" => holds'[k] # NULL /\ item[k] = holds'[k]
                 /\ holds'[k] # NULL => run[k] = "func" /\ logged[k] >= 1
      BY <1>1, <2>4, <2>5, <3>1, Distinct DEF Roles
    <3> QED
      BY <1>1, <2>1, <3>1, <3>2, <3>3 DEF Roles
  <2>9. \A x \in Buffers : /\ InQueue(x)' <=> InQueue(x) \/ x = b
                           /\ InHands(x)' <=> InHands(x) /\ x # b
                           /\ InPool(x)' <=> InPool(x)
    <3> SUFFICES ASSUME NEW x \in Buffers
                 PROVE  /\ InQueue(x)' <=> InQueue(x) \/ x = b
                        /\ InHands(x)' <=> InHands(x) /\ x # b
                        /\ InPool(x)' <=> InPool(x)
      OBVIOUS
    <3>1. InPool(x)' <=> InPool(x)
      BY <2>1 DEF InPool
    <3>2. InHands(x)' <=> InHands(x) /\ x # b
      <4>1. x # NULL
        BY SinkAssumption
      <4>2. \A t \in Threads : holds[t] = b => t = l
        BY <1>1, <2>2 DEF OneOwner
      <4> QED
        BY <1>1, <2>5, <4>1, <4>2 DEF InHands
    <3>3. InQueue(x)' <=> InQueue(x) \/ x = b
      <4>1. \A i \in 1 .. Len(queue') : i \in 1 .. Len(queue) \/ i = Len(queue) + 1
        BY <1>1, <2>6
      <4>2. \A i \in 1 .. Len(queue) : i \in 1 .. Len(queue')
        BY <1>1, <2>6
      <4>3. Len(queue) + 1 \in 1 .. Len(queue')
        BY <1>1, <2>6
      <4> QED
        BY <2>6, <4>1, <4>2, <4>3 DEF InQueue
    <3> QED
      BY <3>1, <3>2, <3>3
  <2>10. InHands(b) /\ ~ InQueue(b) /\ ~ InPool(b) /\ b \in used
    BY <1>1, <2>3 DEF OneOwner, InHands
  <2>11. OneOwner'
    <3>1. \A i, j \in 1 .. Len(queue') : queue'[i] = queue'[j] /\ queue'[i] # NULL => i = j
      <4>1. \A i \in 1 .. Len(queue') : i \in 1 .. Len(queue) \/ i = Len(queue) + 1
        BY <1>1, <2>6
      <4>2. \A i \in 1 .. Len(queue) : queue[i] # b
        BY <2>10 DEF InQueue
      <4> QED
        BY <1>1, <2>6, <4>1, <4>2 DEF OneOwner
    <3>2. \A t, u \in Threads : holds'[t] = holds'[u] /\ holds'[t] # NULL => t = u
      BY <1>1, <2>5 DEF OneOwner
    <3> QED
      BY <1>1, <2>1, <2>9, <2>10, <3>1, <3>2 DEF OneOwner
  <2>12. Ending'
    <3>1. main = "run" /\ run[LogThread] \notin {"proxy", "exited"}
      BY <1>1, <2>2 DEF Ending
    <3>2. \A i \in 1 .. Len(queue') : queue'[i] # NULL
      <4>1. \A i \in 1 .. Len(queue') : i \in 1 .. Len(queue) \/ i = Len(queue) + 1
        BY <1>1, <2>6
      <4> QED
        BY <1>1, <2>2, <2>6, <3>1, <4>1 DEF Ending
    <3> QED
      BY <1>1, <2>1, <3>1, <3>2 DEF Ending
  <2>13. Contents'
    <3>1. \A x \in Buffers : x \notin used' \/ InPool(x)' => content'[x] = <<>>
      BY <1>1, <2>1, <2>9 DEF Contents
    <3>2. ASSUME NEW k \in Loggers, holds'[k] # NULL
          PROVE  content'[holds'[k]] = IF pc'[k] = "idle" THEN <<>> ELSE << <<k, logged'[k]>> >>
      <4>1. k # l /\ holds'[k] = holds[k] /\ k \in Threads
        BY <2>5, <3>2, Distinct
      <4>2. pc'[k] = "idle" <=> pc[k] = "idle"
        BY <1>1, <2>4, <4>1, OthersKeepRoles
      <4> QED
        BY <1>1, <2>1, <3>2, <4>1, <4>2 DEF Contents
    <3>3. writing' # <<>> => content'[holds'[LogThread]] = <<>>
      BY <1>1, <2>1, <2>5, Distinct DEF Contents
    <3>4. \A i \in 1 .. Len(pending') : pending'[i] # NULL =>
              \E k \in Loggers, n \in 1 .. MaxLogs : content'[pending'[i]] = << <<k, n>> >>
      <4> SUFFICES ASSUME NEW i \in 1 .. Len(pending'), pending'[i] # NULL
                   PROVE  \E k \in Loggers, n \in 1 .. MaxLogs : content'[pending'[i]] = << <<k, n>> >>
        OBVIOUS
      <4>1. CASE i \in 1 .. Len(pending)
        <5>1. pending'[i] = pending[i] /\ pending[i] # NULL
          BY <2>6, <4>1
        <5> QED
          BY <2>1, <4>1, <5>1, PendingMessage
      <4>2. CASE i = Len(pending) + 1
        <5>1. logged[l] \in 1 .. MaxLogs
          <6>1. logged[l] \in 0 .. MaxLogs
            BY <1>1 DEF SinkTypes
          <6> QED
            BY <2>2, <6>1, SinkAssumption
        <5> QED
          BY <2>1, <2>3, <2>6, <4>2, <5>1
      <4> QED
        BY <1>1, <2>6, <4>1, <4>2, Pending
    <3> QED
      BY <3>1, <3>2, <3>3, <3>4 DEF Contents
  <2>14. Order'
    BY <1>3, <2>1, <2>2, <2>3, AppendKeepsOrder
  <2> QED
    BY <2>7, <2>8, <2>11, <2>12, <2>13, <2>14 DEF SinkInv
<1> QED
  BY <1>2, <1>3 DEF LogPush

(* The destructor's NULL follows every message: no logger is left.         *)
LEMMA DestroyPushKeepsInv == ASSUME SinkInv, DestroyPush PROVE SinkInv'
<1>1. /\ SinkTypes /\ Roles /\ OneOwner /\ Ending /\ Contents /\ Order
      /\ pc \in [Threads -> Places] /\ item \in [Threads -> Buffers \cup {NULL}]
      /\ queue \in Seq(Buffers \cup {NULL}) /\ Len(queue) \in Nat
      /\ max_size \in Nat \ {0}
  BY SinkAssumption DEF SinkInv, SinkTypes
<1>2. UNCHANGED <<run, at, of, used, pool, content, holds, logged, written, writing, left>>
  BY DEF DestroyPush, threadVars, sinkVars, poolVars
<1>3. CASE /\ main = "run" /\ Free(Main)
           /\ left[Main] = {LogThread}
           /\ Q!CallPush(Main, NULL)
           /\ main' = "push"
  <2>1. /\ pc[Main] = "idle" /\ at[Main] = "no"
        /\ pc' = [pc EXCEPT ![Main] = "push"] /\ item' = [item EXCEPT ![Main] = NULL]
        /\ UNCHANGED queue
    BY <1>3 DEF Free, Q!CallPush
  <2>2. /\ \A t \in Threads : t # Main => pc'[t] = pc[t] /\ item'[t] = item[t]
        /\ pc'[Main] = "push" /\ item'[Main] = NULL
    BY <1>1, <2>1, Distinct
  <2>3. OneOwner' /\ Contents' /\ Order'
    BY <1>2, <2>1, <2>2, Distinct, FrameKeepsBuffers DEF sinkVars, poolVars
  <2>4. SinkTypes'
    BY <1>1, <1>2, <1>3, <2>1 DEF SinkTypes, Places
  <2>5. Roles'
    BY <1>1, <1>2, <1>3, <2>2, Distinct DEF Roles
  <2>6. Ending'
    <3>1. \A l \in Loggers : run[l] = "exited"
      BY <1>1, <1>3, <2>1, Distinct DEF Ending
    <3> QED
      BY <1>1, <1>2, <1>3, <2>1, <3>1 DEF Ending
  <2> QED
    BY <2>3, <2>4, <2>5, <2>6 DEF SinkInv
<1>4. CASE main = "push" /\ Q!PushWaits(Main) /\ UNCHANGED main
  <2>1. UNCHANGED <<run, at, of, sinkVars, mainVars>>
    BY <1>2, <1>4 DEF sinkVars, poolVars, mainVars
  <2> QED
    BY <1>4, <2>1, Distinct, WaitKeepsInv
<1>5. CASE main = "push" /\ Q!push(Main) /\ main' = "join"
  <2>1. /\ pc[Main] = "push" /\ ~ Q!fullNoLock
        /\ queue' = Append(queue, NULL)
        /\ Q!notifyOne("not_empty", [pc EXCEPT ![Main] = "idle"])
        /\ UNCHANGED item
    BY <1>1, <1>5 DEF Q!push, Q!pushBack, Roles
  <2>2. pc' \in [Threads -> Places] /\ pc'[Main] = "idle" /\ OthersStay(Main)
    BY <1>1, <2>1, Notified, Distinct
  <2>3. /\ pc'[LogThread] = "idle" <=> pc[LogThread] = "idle"
        /\ \A l \in Loggers : pc'[l] = "idle" <=> pc[l] = "idle"
        /\ \A l \in Loggers : pc'[l] \in {"idle", "push", "not_full"}
        /\ pc'[LogThread] \in {"idle", "pop", "not_empty"}
    BY <2>2, OthersKeepRoles, Distinct
  <2>4. /\ queue' \in Seq(Buffers \cup {NULL}) /\ Len(queue') = Len(queue) + 1
        /\ \A i \in 1 .. Len(queue) : queue'[i] = queue[i]
        /\ queue'[Len(queue) + 1] = NULL
        /\ Len(pending') = Len(pending) + 1
        /\ \A i \in 1 .. Len(pending) : pending'[i] = pending[i]
        /\ pending'[Len(pending) + 1] = NULL
    BY <1>1, <1>2, <2>1, PushPending
  <2>5. /\ \A i \in 1 .. Len(queue') : i \in 1 .. Len(queue) \/ i = Len(queue) + 1
        /\ \A i \in 1 .. Len(queue) : i \in 1 .. Len(queue')
    BY <1>1, <2>4
  <2>6. /\ \A i \in 1 .. Len(pending') : pending'[i] # NULL => i \in 1 .. Len(pending)
        /\ \A i \in 1 .. Len(pending) : i \in 1 .. Len(pending')
    BY <1>1, <2>4, Pending
  <2>7. SinkTypes'
    <3>1. Len(queue') <= max_size
      BY <1>1, <2>1, <2>4 DEF Q!fullNoLock
    <3> QED
      BY <1>1, <1>2, <1>5, <2>1, <2>2, <2>4, <3>1 DEF SinkTypes
  <2>8. Roles'
    BY <1>1, <1>2, <1>5, <2>1, <2>2, <2>3 DEF Roles
  <2>9. OneOwner'
    <3>1. \A x \in Buffers : /\ InQueue(x)' <=> InQueue(x)
                             /\ InHands(x)' <=> InHands(x)
                             /\ InPool(x)' <=> InPool(x)
      <4>1. NULL \notin Buffers
        BY SinkAssumption
      <4> QED
        BY <1>2, <2>4, <2>5, <4>1 DEF InQueue, InHands, InPool
    <3>2. \A i, j \in 1 .. Len(queue') : queue'[i] = queue'[j] /\ queue'[i] # NULL => i = j
      BY <1>1, <2>4, <2>5 DEF OneOwner
    <3> QED
      BY <1>1, <1>2, <3>1, <3>2 DEF OneOwner
  <2>10. Ending'
    <3>1. \A i \in 1 .. Len(queue') : queue'[i] = NULL => i = Len(queue')
      BY <1>1, <1>5, <2>4, <2>5 DEF Ending
    <3> QED
      BY <1>1, <1>2, <1>5, <3>1 DEF Ending
  <2>11. Contents'
    <3>1. \A x \in Buffers : x \notin used' \/ InPool(x)' => content'[x] = <<>>
      BY <1>1, <1>2 DEF Contents, InPool
    <3>2. \A l \in Loggers : holds'[l] # NULL =>
              content'[holds'[l]] = IF pc'[l] = "idle" THEN <<>> ELSE << <<l, logged'[l]>> >>
      BY <1>1, <1>2, <2>3 DEF Contents
    <3>3. \A i \in 1 .. Len(pending') : pending'[i] # NULL =>
              \E k \in Loggers, n \in 1 .. MaxLogs : content'[pending'[i]] = << <<k, n>> >>
      BY <1>2, <2>4, <2>6, PendingMessage, ZenonT(40)
    <3> QED
      BY <1>1, <1>2, <3>1, <3>2, <3>3 DEF Contents
  <2>12. Order'
    <3>1. \A l \in Loggers : Appended(l)' = Appended(l)
      BY <1>2 DEF Appended
    <3>2. \A x : From(x)' = From(x) /\ Number(x)' = Number(x)
      BY <1>2 DEF From, Number
    <3>3. \A i \in 1 .. Len(pending') : pending'[i] # NULL =>
              /\ i \in 1 .. Len(pending) /\ pending[i] # NULL /\ From(pending[i]) \in Loggers
              /\ From(pending[i])' = From(pending[i]) /\ Number(pending[i])' = Number(pending[i])
      BY <2>4, <2>6, <3>2, PendingMessage
    <3>4. \A i \in 1 .. Len(pending) : pending[i] # NULL =>
              /\ i \in 1 .. Len(pending') /\ pending'[i] # NULL
              /\ From(pending[i])' = From(pending[i]) /\ Number(pending[i])' = Number(pending[i])
      BY <2>4, <2>6, <3>2
    <3>5. \A i \in 1 .. Len(pending') : pending'[i] # NULL =>
              (/\ written[From(pending[i])] < Number(pending[i])
               /\ Number(pending[i]) <= Appended(From(pending[i])))'
      <4> SUFFICES ASSUME NEW i \in 1 .. Len(pending'), pending'[i] # NULL
                   PROVE  (/\ written[From(pending[i])] < Number(pending[i])
                           /\ Number(pending[i]) <= Appended(From(pending[i])))'
        OBVIOUS
      <4>1. PICK l \in Loggers : l = From(pending[i]) /\ l = From(pending[i])'
        BY <3>3
      <4> QED
        BY <1>1, <1>2, <3>1, <3>3, <4>1 DEF Order
    <3> QED
      BY <1>1, <1>2, <3>1, <3>3, <3>4, <3>5 DEF Order
  <2> QED
    BY <2>7, <2>8, <2>9, <2>10, <2>11, <2>12 DEF SinkInv
<1> QED
  BY <1>3, <1>4, <1>5 DEF DestroyPush

LEMMA HeadThenTail ==
    ASSUME NEW S, NEW s \in Seq(S), s # <<>>
    PROVE  <<Head(s)>> \o Tail(s) = s
<1> DEFINE h == <<Head(s)>>
<1>1. /\ Head(s) \in S /\ Tail(s) \in Seq(S)
      /\ Len(Tail(s)) = Len(s) - 1
      /\ \A i \in 1 .. Len(Tail(s)) : Tail(s)[i] = s[i + 1]
  BY HeadTailProperties
<1>2. Head(s) = s[1] /\ Len(s) \in Nat /\ Len(s) >= 1
  OBVIOUS
<1>3. h \in Seq(S) /\ Len(h) = 1 /\ h[1] = s[1]
  BY <1>1, <1>2
<1> HIDE DEF h
<1>4. /\ h \o Tail(s) \in Seq(S)
      /\ Len(h \o Tail(s)) = Len(h) + Len(Tail(s))
      /\ \A i \in 1 .. Len(h) + Len(Tail(s)) :
            (h \o Tail(s))[i] = IF i <= Len(h) THEN h[i] ELSE Tail(s)[i - Len(h)]
  <2>1. h \in Seq(S) /\ Tail(s) \in Seq(S)
    BY <1>1, <1>3
  <2> QED
    BY <2>1, ConcatProperties
<1>5. Len(h \o Tail(s)) = Len(s)
  BY <1>1, <1>2, <1>3, <1>4
<1>6. ASSUME NEW i \in 1 .. Len(s)
      PROVE  (h \o Tail(s))[i] = s[i]
  <2>1. i \in 1 .. Len(h) + Len(Tail(s))
    BY <1>1, <1>2, <1>3
  <2>2. CASE i = 1
    BY <1>3, <1>4, <2>1, <2>2
  <2>3. CASE i # 1
    <3>1. i - 1 \in 1 .. Len(Tail(s)) /\ ~ (i <= 1) /\ (i - 1) + 1 = i
      BY <1>1, <1>2, <2>3
    <3> QED
      BY <1>1, <1>3, <1>4, <2>1, <3>1
  <2> QED
    BY <2>2, <2>3
<1>7. h \o Tail(s) = s
  BY <1>4, <1>5, <1>6, SeqEqual
<1> QED
  BY <1>7 DEF h

(* The log thread takes the buffer at the head of the queue: it is still   *)
(* the next to be written.  A NULL is the last there is.                   *)
LEMMA PopBufferKeepsInv == ASSUME SinkInv, ThreadFacts, PopBuffer PROVE SinkInv'
<1>1. /\ SinkTypes /\ Roles /\ OneOwner /\ Ending /\ Contents /\ Order
      /\ pc \in [Threads -> Places] /\ item \in [Threads -> Buffers \cup {NULL}]
      /\ queue \in Seq(Buffers \cup {NULL}) /\ Len(queue) \in Nat /\ Len(queue) <= max_size
      /\ holds \in [Threads -> Buffers \cup {NULL}]
      /\ max_size \in Nat \ {0}
  BY SinkAssumption DEF SinkInv, SinkTypes
<1>2. /\ run[LogThread] = "func" /\ holds[LogThread] = NULL
      /\ UNCHANGED <<used, pool, content, logged, written, writing, main, left>>
  BY DEF PopBuffer, poolVars, mainVars
<1>3. CASE (Q!CallPop(LogThread) \/ Q!PopWaits(LogThread)) /\ UNCHANGED <<holds, threadVars>>
  <2>1. UNCHANGED <<run, at, of, sinkVars, mainVars>>
    BY <1>2, <1>3 DEF sinkVars, poolVars, mainVars, threadVars
  <2> QED
    BY <1>2, <1>3, <2>1, Distinct, WaitKeepsInv
<1>4. CASE /\ Q!pop(LogThread)
           /\ holds' = [holds EXCEPT ![LogThread] = Head(queue)]
           /\ IF Head(queue) = NULL THEN T!FuncReturns(LogThread) ELSE UNCHANGED threadVars
  <2> DEFINE b == Head(queue)
  <2>1. /\ pc[LogThread] = "pop" /\ queue # <<>> /\ queue' = Tail(queue)
        /\ Q!notifyOne("not_full", [pc EXCEPT ![LogThread] = "idle"])
        /\ UNCHANGED <<item, at, of>>
    BY <1>4 DEF Q!pop, Q!popFront, T!FuncReturns, threadVars
  <2>2. pc' \in [Threads -> Places] /\ pc'[LogThread] = "idle" /\ OthersStay(LogThread)
    BY <1>1, <2>1, Notified, Distinct
  <2>3. /\ pc'[Main] = "idle" <=> pc[Main] = "idle"
        /\ \A l \in Loggers : pc'[l] = "idle" <=> pc[l] = "idle"
        /\ \A l \in Loggers : pc'[l] \in {"idle", "push", "not_full"}
        /\ pc'[Main] \in {"idle", "push", "not_full"}
    BY <2>2, OthersKeepRoles, Distinct
  <2>4. /\ b = queue[1] /\ b \in Buffers \cup {NULL} /\ 1 \in 1 .. Len(queue)
        /\ queue' \in Seq(Buffers \cup {NULL}) /\ Len(queue') = Len(queue) - 1
        /\ \A i \in 1 .. Len(queue') : i + 1 \in 1 .. Len(queue) /\ queue'[i] = queue[i + 1]
    BY <1>1, <2>1
  <2>5. \A t \in Threads : holds'[t] = IF t = LogThread THEN b ELSE holds[t]
    BY <1>1, <1>4
  <2>6. writing = <<>> /\ pending = queue
    BY <1>1, <1>2 DEF Roles, pending
  <2>7. SinkTypes'
    <3>1. Len(queue') <= max_size
      BY <1>1, <2>4
    <3>2. holds' \in [Threads -> Buffers \cup {NULL}]
      BY <1>1, <1>4, <2>4
    <3> QED
      BY <1>1, <1>2, <2>1, <2>2, <2>4, <3>1, <3>2 DEF SinkTypes
  <2>8. \A o \in Objects : o # LogThread => run'[o] = run[o]
    BY <1>4 DEF T!FuncReturns, threadVars, ThreadFacts, T!ThreadTypeOK
  <2>9. IF b = NULL THEN run'[LogThread] = "proxy" ELSE run'[LogThread] = "func"
    BY <1>2, <1>4, Distinct DEF T!FuncReturns, threadVars, ThreadFacts, T!ThreadTypeOK
  <2>10. /\ holds'[Main] = NULL
         /\ \A l \in Loggers : holds'[l] = holds[l] /\ run'[l] = run[l]
         /\ holds'[LogThread] = b
    BY <1>1, <2>5, <2>8, Distinct DEF Roles
  <2>11. Roles'
    BY <1>1, <1>2, <2>1, <2>2, <2>3, <2>6, <2>9, <2>10 DEF Roles
  <2>12. b = NULL => queue' = <<>>
    <3>1. b = NULL => Len(queue) = 1
      BY <1>1, <2>4 DEF Ending
    <3> QED
      BY <1>1, <2>4, <3>1, EmptySeq
  <2>13. OneOwner'
    <3>1. \A x \in Buffers : InPool(x)' <=> InPool(x)
      BY <1>2 DEF InPool
    <3>2. \A x \in Buffers : InHands(x)' <=> InHands(x) \/ x = b
      <4>1. NULL \notin Buffers
        BY SinkAssumption
      <4> QED
        BY <1>2, <2>5, <4>1, Distinct DEF InHands
    <3>3. \A x \in Buffers : InQueue(x)' <=> InQueue(x) /\ x # b
      <4> SUFFICES ASSUME NEW x \in Buffers
                   PROVE  InQueue(x)' <=> InQueue(x) /\ x # b
        OBVIOUS
      <4>1. x # NULL /\ \A i, j \in 1 .. Len(queue) : queue[i] = queue[j] /\ queue[i] = x => i = j
        BY <1>1, SinkAssumption DEF OneOwner
      <4>2. ASSUME InQueue(x)'
            PROVE  InQueue(x) /\ x # b
        <5>1. PICK i \in 1 .. Len(queue') : queue'[i] = x
          BY <4>2 DEF InQueue
        <5>2. i + 1 \in 1 .. Len(queue) /\ queue[i + 1] = x /\ i + 1 # 1
          BY <2>4, <5>1
        <5> QED
          BY <2>4, <4>1, <5>2 DEF InQueue
      <4>3. ASSUME InQueue(x), x # b
            PROVE  InQueue(x)'
        <5>1. PICK i \in 1 .. Len(queue) : queue[i] = x
          BY <4>3 DEF InQueue
        <5>2. i # 1
          BY <2>4, <4>3, <5>1
        <5>3. i - 1 \in 1 .. Len(queue') /\ (i - 1) + 1 = i
          BY <1>1, <2>4, <5>2
        <5> QED
          BY <2>4, <5>1, <5>3 DEF InQueue
      <4> QED
        BY <4>2, <4>3
    <3>4. b \in Buffers => InQueue(b) /\ ~ InHands(b) /\ ~ InPool(b) /\ b \in used
      BY <1>1, <2>4 DEF OneOwner, InQueue
    <3>5. \A i, j \in 1 .. Len(queue') : queue'[i] = queue'[j] /\ queue'[i] # NULL => i = j
      <4> SUFFICES ASSUME NEW i \in 1 .. Len(queue'), NEW j \in 1 .. Len(queue'),
                          queue'[i] = queue'[j], queue'[i] # NULL
                   PROVE  i = j
        OBVIOUS
      <4>1. i + 1 \in 1 .. Len(queue) /\ j + 1 \in 1 .. Len(queue)
            /\ queue[i + 1] = queue[j + 1] /\ queue[i + 1] # NULL
        BY <2>4
      <4>2. i + 1 = j + 1
        BY <1>1, <4>1 DEF OneOwner
      <4> QED
        BY <4>2
    <3>6. \A t, u \in Threads : holds'[t] = holds'[u] /\ holds'[t] # NULL => t = u
      <4>1. b # NULL => \A t \in Threads : holds[t] # b
        BY <2>4, <3>4 DEF InHands
      <4> QED
        BY <1>1, <2>5, <4>1 DEF OneOwner
    <3> QED
      BY <1>1, <1>2, <3>1, <3>2, <3>3, <3>4, <3>5, <3>6 DEF OneOwner
  <2>14. Ending'
    <3>1. \A i \in 1 .. Len(queue') : queue'[i] = NULL => i = Len(queue') /\ main \notin {"run", "push"}
      <4> SUFFICES ASSUME NEW i \in 1 .. Len(queue'), queue'[i] = NULL
                   PROVE  i = Len(queue') /\ main \notin {"run", "push"}
        OBVIOUS
      <4>1. i + 1 \in 1 .. Len(queue) /\ queue[i + 1] = NULL
        BY <2>4
      <4>2. i + 1 = Len(queue) /\ main \notin {"run", "push"}
        BY <1>1, <4>1 DEF Ending
      <4> QED
        BY <1>1, <2>4, <4>2
    <3>2. b = NULL => main \notin {"run", "push"}
      BY <1>1, <2>4 DEF Ending
    <3> QED
      BY <1>1, <1>2, <2>1, <2>9, <2>10, <2>12, <3>1, <3>2 DEF Ending
  <2>15. b # NULL => pending' = pending
    <3> SUFFICES ASSUME b # NULL PROVE pending' = queue
      BY <2>6
    <3>1. pending' = <<b>> \o Tail(queue)
      BY <1>2, <2>1, <2>6, <2>10 DEF pending
    <3> QED
      BY <1>1, <2>1, <3>1, HeadThenTail
  <2>16. b = NULL => pending' = <<>> /\ Len(pending) = 1
    <3>1. b = NULL => pending' = queue'
      BY <2>10 DEF pending
    <3>2. b = NULL => Len(queue) = 1
      BY <1>1, <2>4 DEF Ending
    <3> QED
      BY <2>6, <2>12, <3>1, <3>2
  <2>17. \A x : From(x)' = From(x) /\ Number(x)' = Number(x)
    BY <1>2 DEF From, Number
  <2>18. \A l \in Loggers : Appended(l)' = Appended(l)
    BY <1>2, <2>10 DEF Appended
  <2>19. Contents'
    <3>1. \A x \in Buffers : x \notin used' \/ InPool(x)' => content'[x] = <<>>
      BY <1>1, <1>2 DEF Contents, InPool
    <3>2. \A l \in Loggers : holds'[l] # NULL =>
              content'[holds'[l]] = IF pc'[l] = "idle" THEN <<>> ELSE << <<l, logged'[l]>> >>
      BY <1>1, <1>2, <2>3, <2>10 DEF Contents
    <3>3. \A i \in 1 .. Len(pending') : pending'[i] # NULL =>
              \E k \in Loggers, n \in 1 .. MaxLogs : content'[pending'[i]] = << <<k, n>> >>
      <4>1. CASE b = NULL
        <5>1. Len(pending') = 0
          BY <2>16, <4>1
        <5> QED
          BY <5>1
      <4>2. CASE b # NULL
        BY <1>2, <2>15, <4>2, PendingMessage
      <4> QED
        BY <4>1, <4>2
    <3> QED
      BY <1>2, <2>6, <3>1, <3>2, <3>3 DEF Contents
  <2>20. Order'
    <3>1. CASE b # NULL
      <4>1. \A i \in 1 .. Len(pending) : pending[i] # NULL => From(pending[i]) \in Loggers
        BY PendingMessage
      <4> QED
        BY <1>1, <1>2, <2>15, <2>17, <2>18, <3>1, <4>1 DEF Order
    <3>2. CASE b = NULL
      <4>1. \A i \in 1 .. Len(pending) : pending[i] = NULL
        BY <2>4, <2>6, <2>16, <3>2
      <4>2. \A l \in Loggers : \A n \in 1 .. MaxLogs : ~ (written[l] < n /\ n <= Appended(l))
        BY <1>1, <4>1 DEF Order
      <4>3. Len(pending') = 0
        BY <2>16, <3>2
      <4> QED
        BY <1>1, <1>2, <2>18, <4>2, <4>3 DEF Order
    <3> QED
      BY <3>1, <3>2
  <2> QED
    BY <2>7, <2>11, <2>13, <2>14, <2>19, <2>20 DEF SinkInv
<1> QED
  BY <1>3, <1>4 DEF PopBuffer

(* While the log thread holds a buffer it has not written, that is first. *)
LEMMA HeldIsFirst ==
    ASSUME SinkTypes, holds[LogThread] # NULL, writing = <<>>
    PROVE  /\ Len(queue) \in Nat /\ Len(pending) = Len(queue) + 1
           /\ pending[1] = holds[LogThread]
           /\ \A i \in 1 .. Len(queue) : pending[i + 1] = queue[i]
<1> DEFINE h == <<holds[LogThread]>>
<1>1. queue \in Seq(Buffers \cup {NULL}) /\ Len(queue) \in Nat
  BY DEF SinkTypes
<1>2. h \in Seq(Buffers \cup {NULL}) /\ Len(h) = 1 /\ h[1] = holds[LogThread]
  BY Distinct DEF SinkTypes
<1>3. pending = h \o queue
  BY DEF pending
<1> HIDE DEF h
<1>4. /\ Len(pending) = Len(h) + Len(queue)
      /\ \A i \in 1 .. Len(h) + Len(queue) : pending[i] = IF i <= Len(h) THEN h[i] ELSE queue[i - Len(h)]
  <2>1. h \in Seq(Buffers \cup {NULL}) /\ queue \in Seq(Buffers \cup {NULL})
    BY <1>1, <1>2
  <2> QED
    BY <1>3, <2>1, ConcatProperties
<1>5. Len(pending) = Len(queue) + 1
  BY <1>1, <1>2, <1>4
<1>6. pending[1] = holds[LogThread]
  <2>1. 1 \in 1 .. Len(h) + Len(queue) /\ 1 <= Len(h)
    BY <1>1, <1>2
  <2> QED
    BY <1>2, <1>4, <2>1
<1>7. ASSUME NEW i \in 1 .. Len(queue)
      PROVE  pending[i + 1] = queue[i]
  <2>1. i + 1 \in 1 .. Len(h) + Len(queue) /\ ~ (i + 1 <= Len(h)) /\ (i + 1) - Len(h) = i
    BY <1>1, <1>2
  <2> QED
    BY <1>4, <2>1
<1> QED
  BY <1>1, <1>5, <1>6, <1>7

(* The first pending message is the next of its logger. *)
LEMMA FirstIsNext ==
    ASSUME SinkInv, 1 \in 1 .. Len(pending), pending[1] # NULL
    PROVE  Number(pending[1]) = written[From(pending[1])] + 1
<1>1. SinkTypes /\ Order
  BY DEF SinkInv
<1>2. PICK l \in Loggers : l = From(pending[1])
  BY PendingMessage
<1>3. PICK n \in 1 .. MaxLogs : n = Number(pending[1])
  BY PendingMessage
<1>4. written[l] < n /\ n <= Appended(l)
  BY <1>1, <1>2, <1>3 DEF Order
<1>5. written[l] \in Nat /\ n \in Nat /\ n <= MaxLogs /\ MaxLogs \in Nat /\ Appended(l) \in Int
  <2>1. logged[l] \in Int /\ written[l] \in Nat
    BY <1>1, SinkAssumption DEF SinkTypes
  <2>2. n \in Nat /\ n <= MaxLogs /\ MaxLogs \in Nat
    BY SinkAssumption
  <2> QED
    BY <2>1, <2>2 DEF Appended
<1>6. CASE written[l] + 1 < n
  <2>1. written[l] + 1 \in 1 .. MaxLogs /\ written[l] < written[l] + 1 /\ written[l] + 1 <= Appended(l)
    BY <1>4, <1>5, <1>6
  <2>2. PICK i \in 1 .. Len(pending) :
            pending[i] # NULL /\ From(pending[i]) = l /\ Number(pending[i]) = written[l] + 1
    BY <1>1, <2>1 DEF Order
  <2>3. i # 1
    BY <1>3, <1>5, <1>6, <2>2
  <2>4. 1 < i
    BY <2>2, <2>3
  <2>5. Number(pending[1]) < Number(pending[i])
    BY <1>1, <1>2, <2>2, <2>4 DEF Order
  <2> QED
    BY <1>3, <1>5, <1>6, <2>2, <2>5
<1> QED
  BY <1>2, <1>3, <1>4, <1>5, <1>6

(* The adapted sink is given one message, the next of its logger.          *)
LEMMA WriteIsNext ==
    ASSUME SinkInv, Write
    PROVE  \E l \in Loggers :
              /\ written[l] + 1 \in 1 .. MaxLogs
              /\ From(holds[LogThread]) = l /\ Number(holds[LogThread]) = written[l] + 1
              /\ writing' = << <<l, written[l] + 1>> >>
              /\ written' = [written EXCEPT ![l] = written[l] + 1]
<1>1. SinkTypes /\ holds[LogThread] # NULL /\ writing = <<>> /\ writing' = content[holds[LogThread]]
      /\ written' = [l \in Loggers |-> written[l] + (IF writing'[1][1] = l THEN 1 ELSE 0)]
  BY DEF Write, SinkInv
<1>2. 1 \in 1 .. Len(pending) /\ pending[1] = holds[LogThread]
  BY <1>1, HeldIsFirst
<1>3. PICK l \in Loggers : l = From(pending[1])
  BY <1>1, <1>2, PendingMessage
<1>4. Number(pending[1]) = written[l] + 1 /\ Number(pending[1]) \in 1 .. MaxLogs
  BY <1>1, <1>2, <1>3, FirstIsNext, PendingMessage
<1>5. writing' = << <<l, written[l] + 1>> >>
  BY <1>1, <1>2, <1>3, <1>4, PendingMessage
<1>6. writing'[1][1] = l
  BY <1>5
<1>7. written \in [Loggers -> 0 .. MaxLogs] /\ MaxLogs \in Nat
  BY <1>1, SinkAssumption DEF SinkTypes
<1>8. written' = [written EXCEPT ![l] = written[l] + 1]
  <2>1. \A k \in Loggers : written[k] + (IF l = k THEN 1 ELSE 0)
                            = IF k = l THEN written[l] + 1 ELSE written[k]
    BY <1>7
  <2>2. written' = [k \in Loggers |-> written[k] + (IF l = k THEN 1 ELSE 0)]
    BY <1>1, <1>6
  <2> QED
    BY <1>7, <2>1, <2>2
<1> QED
  BY <1>2, <1>3, <1>4, <1>5, <1>8

LEMMA WriteKeepsInv == ASSUME SinkInv, Write PROVE SinkInv'
<1> DEFINE b == holds[LogThread]
<1>1. /\ SinkTypes /\ Roles /\ OneOwner /\ Ending /\ Contents /\ Order
      /\ content \in [Buffers -> Seq(Loggers \X (1 .. MaxLogs))]
      /\ written \in [Loggers -> 0 .. MaxLogs] /\ logged \in [Loggers -> 0 .. MaxLogs]
      /\ holds \in [Threads -> Buffers \cup {NULL}]
      /\ MaxLogs \in Nat
  BY SinkAssumption DEF SinkInv, SinkTypes
<1>2. /\ b # NULL /\ writing = <<>>
      /\ content' = [content EXCEPT ![b] = <<>>]
      /\ UNCHANGED <<queue, pc, item, run, at, of, used, pool, holds, logged, main, left>>
  BY DEF Write, queueVars, threadVars, mainVars
<1>3. b \in Buffers
  BY <1>1, <1>2, Distinct
<1>4. PICK l \in Loggers :
          /\ written[l] + 1 \in 1 .. MaxLogs
          /\ From(b) = l /\ Number(b) = written[l] + 1
          /\ writing' = << <<l, written[l] + 1>> >>
          /\ written' = [written EXCEPT ![l] = written[l] + 1]
  BY WriteIsNext
<1>5. content'[b] = <<>> /\ \A x \in Buffers : x # b => content'[x] = content[x]
  BY <1>1, <1>2, <1>3
<1>6. SinkTypes'
  <2>1. written' \in [Loggers -> 0 .. MaxLogs]
    BY <1>1, <1>4
  <2>2. writing' \in Seq(Loggers \X (1 .. MaxLogs))
    <3> DEFINE m == <<l, written[l] + 1>>
    <3>1. m \in Loggers \X (1 .. MaxLogs)
      BY <1>4
    <3>2. writing' = <<m>>
      BY <1>4
    <3> HIDE DEF m
    <3> QED
      BY <3>1, <3>2
  <2>3. content' \in [Buffers -> Seq(Loggers \X (1 .. MaxLogs))]
    <3>1. <<>> \in Seq(Loggers \X (1 .. MaxLogs))
      OBVIOUS
    <3> QED
      BY <1>1, <1>2, <3>1
  <2> QED
    BY <1>1, <1>2, <2>1, <2>2, <2>3 DEF SinkTypes
<1>7. Roles'
  BY <1>1, <1>2 DEF Roles
<1>8. OneOwner'
  BY <1>1, <1>2, ZenonT(40) DEF OneOwner, InPool, InQueue, InHands
<1>9. Ending'
  BY <1>1, <1>2 DEF Ending
<1>10. /\ Len(queue) \in Nat /\ Len(pending) = Len(queue) + 1 /\ pending[1] = b
       /\ \A i \in 1 .. Len(queue) : pending[i + 1] = queue[i]
  BY <1>1, <1>2, HeldIsFirst
<1>11. writing' # <<>> /\ pending' = queue
  <2>1. writing' # <<>>
    BY <1>4
  <2> QED
    BY <1>2, <2>1 DEF pending
<1>12. \A i \in 1 .. Len(queue) : queue[i] # b
  BY <1>1, <1>3, Distinct DEF OneOwner, InQueue, InHands
<1>13. \A i \in 1 .. Len(queue) :
           /\ i + 1 \in 1 .. Len(pending) /\ pending'[i] = pending[i + 1]
           /\ pending[i + 1] # b
  BY <1>10, <1>11, <1>12
<1>14. \A i \in 1 .. Len(queue) : pending'[i] # NULL =>
           /\ content'[pending'[i]] = << <<From(pending[i + 1]), Number(pending[i + 1])>> >>
           /\ From(pending[i + 1]) \in Loggers /\ Number(pending[i + 1]) \in 1 .. MaxLogs
           /\ From(pending[i])' = From(pending[i + 1])
           /\ Number(pending[i])' = Number(pending[i + 1])
  <2> SUFFICES ASSUME NEW i \in 1 .. Len(queue), pending'[i] # NULL
               PROVE  /\ content'[pending'[i]] = << <<From(pending[i + 1]), Number(pending[i + 1])>> >>
                      /\ From(pending[i + 1]) \in Loggers /\ Number(pending[i + 1]) \in 1 .. MaxLogs
                      /\ From(pending[i])' = From(pending[i + 1])
                      /\ Number(pending[i])' = Number(pending[i + 1])
    OBVIOUS
  <2>1. i + 1 \in 1 .. Len(pending) /\ pending'[i] = pending[i + 1] /\ pending[i + 1] # NULL
        /\ pending[i + 1] # b
    BY <1>13
  <2>2. /\ pending[i + 1] \in Buffers
        /\ From(pending[i + 1]) \in Loggers /\ Number(pending[i + 1]) \in 1 .. MaxLogs
        /\ content[pending[i + 1]] = << <<From(pending[i + 1]), Number(pending[i + 1])>> >>
    BY <2>1, PendingMessage
  <2>3. content'[pending'[i]] = content[pending[i + 1]]
    BY <1>5, <2>1, <2>2
  <2>4. From(pending[i])' = From(pending[i + 1]) /\ Number(pending[i])' = Number(pending[i + 1])
    BY <2>3 DEF From, Number
  <2> QED
    BY <2>2, <2>3, <2>4
<1>15. Contents'
  <2>1. \A x \in Buffers : x \notin used' \/ InPool(x)' => content'[x] = <<>>
    <3>1. \A x : InPool(x)' = InPool(x)
      BY <1>2 DEF InPool
    <3> QED
      BY <1>1, <1>2, <1>5, <3>1 DEF Contents
  <2>2. ASSUME NEW k \in Loggers, holds'[k] # NULL
        PROVE  content'[holds'[k]] = IF pc'[k] = "idle" THEN <<>> ELSE << <<k, logged'[k]>> >>
    <3>1. holds[k] # b /\ holds[k] \in Buffers
      BY <1>1, <1>2, <2>2, Distinct, HeldIsNotPending DEF OneOwner
    <3> QED
      BY <1>1, <1>2, <1>5, <2>2, <3>1 DEF Contents
  <2>3. content'[holds'[LogThread]] = <<>>
    BY <1>2, <1>5
  <2>4. \A i \in 1 .. Len(pending') : pending'[i] # NULL =>
            \E k \in Loggers, n \in 1 .. MaxLogs : content'[pending'[i]] = << <<k, n>> >>
    BY <1>11, <1>14
  <2> QED
    BY <2>1, <2>2, <2>3, <2>4 DEF Contents
<1>16. \A k \in Loggers : Appended(k)' = Appended(k)
  BY <1>2 DEF Appended
<1>17. \A k \in Loggers : written'[k] = (IF k = l THEN written[l] + 1 ELSE written[k])
                          /\ written[k] \in Int /\ Appended(k) \in Int
  <2>1. \A k \in Loggers : logged[k] \in Int /\ written[k] \in Int
    BY <1>1
  <2> QED
    BY <1>1, <1>4, <2>1 DEF Appended
<1>18. 1 \in 1 .. Len(pending) /\ pending[1] # NULL /\ From(pending[1]) = l
       /\ Number(pending[1]) = written[l] + 1
  BY <1>2, <1>4, <1>10
<1>19. Order'
  <2>1. \A i \in 1 .. Len(pending') : pending'[i] # NULL =>
            (/\ written[From(pending[i])] < Number(pending[i])
             /\ Number(pending[i]) <= Appended(From(pending[i])))'
    <3> SUFFICES ASSUME NEW i \in 1 .. Len(queue), pending'[i] # NULL
                 PROVE  (/\ written[From(pending[i])] < Number(pending[i])
                         /\ Number(pending[i]) <= Appended(From(pending[i])))'
      BY <1>11
    <3>1. i + 1 \in 1 .. Len(pending) /\ pending[i + 1] # NULL /\ 1 < i + 1
      BY <1>10, <1>13
    <3>2. PICK k \in Loggers : k = From(pending[i + 1]) /\ k = From(pending[i])'
      BY <1>14
    <3>3. PICK n \in 1 .. MaxLogs : n = Number(pending[i + 1]) /\ n = Number(pending[i])'
      BY <1>14
    <3>4. written[k] < n /\ n <= Appended(k)
      BY <1>1, <3>1, <3>2, <3>3 DEF Order
    <3>5. k = l => written[l] + 1 < n
      BY <1>1, <1>18, <3>1, <3>2, <3>3 DEF Order
    <3>6. written'[k] < n /\ n <= Appended(k)'
      BY <1>16, <1>17, <3>4, <3>5
    <3> QED
      BY <3>2, <3>3, <3>6
  <2>2. \A i, j \in 1 .. Len(pending') :
            pending'[i] # NULL /\ pending'[j] # NULL /\ i < j /\ From(pending[i])' = From(pending[j])'
               => Number(pending[i])' < Number(pending[j])'
    <3> SUFFICES ASSUME NEW i \in 1 .. Len(queue), NEW j \in 1 .. Len(queue),
                        pending'[i] # NULL, pending'[j] # NULL, i < j,
                        From(pending[i])' = From(pending[j])'
                 PROVE  Number(pending[i])' < Number(pending[j])'
      BY <1>11
    <3>1. i + 1 \in 1 .. Len(pending) /\ j + 1 \in 1 .. Len(pending) /\ i + 1 < j + 1
          /\ pending[i + 1] # NULL /\ pending[j + 1] # NULL
      BY <1>10, <1>13
    <3>2. From(pending[i + 1]) = From(pending[j + 1])
      BY <1>14
    <3>3. Number(pending[i + 1]) < Number(pending[j + 1])
      BY <1>1, <3>1, <3>2 DEF Order
    <3> QED
      BY <1>14, <3>3
  <2>3. \A k \in Loggers : \A n \in 1 .. MaxLogs :
            written'[k] < n /\ n <= Appended(k)' =>
                \E i \in 1 .. Len(pending') :
                    pending'[i] # NULL /\ From(pending[i])' = k /\ Number(pending[i])' = n
    <3> SUFFICES ASSUME NEW k \in Loggers, NEW n \in 1 .. MaxLogs,
                        written'[k] < n, n <= Appended(k)'
                 PROVE  \E i \in 1 .. Len(pending') :
                    pending'[i] # NULL /\ From(pending[i])' = k /\ Number(pending[i])' = n
      OBVIOUS
    <3>1. written[k] < n /\ n <= Appended(k) /\ (k = l => n # written[l] + 1)
      <4>1. n \in Int
        BY <1>1
      <4> QED
        BY <1>16, <1>17, <4>1
    <3>2. PICK i \in 1 .. Len(pending) : pending[i] # NULL /\ From(pending[i]) = k /\ Number(pending[i]) = n
      BY <1>1, <3>1 DEF Order
    <3>3. i # 1
      BY <1>18, <3>1, <3>2
    <3>4. i - 1 \in 1 .. Len(queue) /\ (i - 1) + 1 = i
      BY <1>10, <3>2, <3>3
    <3>5. pending'[i - 1] # NULL
      BY <1>13, <3>2, <3>4
    <3>6. From(pending[i - 1])' = k /\ Number(pending[i - 1])' = n
      BY <1>14, <3>2, <3>4, <3>5
    <3> QED
      BY <1>11, <3>4, <3>5, <3>6
  <2>4. \A k \in Loggers : written'[k] <= Appended(k)'
    <3>1. written[l] + 1 <= Appended(l)
      BY <1>1, <1>18 DEF Order
    <3> QED
      BY <1>1, <1>16, <1>17, <3>1 DEF Order
  <2> QED
    BY <2>1, <2>2, <2>3, <2>4 DEF Order
<1> QED
  BY <1>6, <1>7, <1>8, <1>9, <1>15, <1>19 DEF SinkInv

(* The buffer that was written goes back to the pool, empty. *)
LEMMA ReturnObjectKeepsInv == ASSUME SinkInv, returnObject PROVE SinkInv'
<1> DEFINE b == holds[LogThread]
<1>1. /\ SinkTypes /\ Roles /\ OneOwner /\ Ending /\ Contents /\ Order
      /\ holds \in [Threads -> Buffers \cup {NULL}]
      /\ pool \in Seq(Buffers) /\ Len(pool) \in Nat
  BY DEF SinkInv, SinkTypes
<1>2. /\ writing # <<>> /\ writing' = <<>>
      /\ pool' = Append(pool, b)
      /\ holds' = [holds EXCEPT ![LogThread] = NULL]
      /\ UNCHANGED <<queue, pc, item, run, at, of, used, content, logged, written, main, left>>
  BY DEF returnObject, queueVars, threadVars, mainVars
<1>3. b # NULL /\ b \in Buffers /\ content[b] = <<>>
  BY <1>1, <1>2, Distinct DEF Roles, Contents
<1>4. \A t \in Threads : holds'[t] = IF t = LogThread THEN NULL ELSE holds[t]
  BY <1>1, <1>2
<1>5. /\ pool' \in Seq(Buffers) /\ Len(pool') = Len(pool) + 1
      /\ \A i \in 1 .. Len(pool) : pool'[i] = pool[i]
      /\ pool'[Len(pool) + 1] = b
  BY <1>1, <1>2, <1>3, AppendProperties
<1>6. /\ \A i \in 1 .. Len(pool') : i \in 1 .. Len(pool) \/ i = Len(pool) + 1
      /\ \A i \in 1 .. Len(pool) : i \in 1 .. Len(pool')
      /\ Len(pool) + 1 \in 1 .. Len(pool')
  BY <1>1, <1>5
<1>7. SinkTypes'
  <2>1. holds' \in [Threads -> Buffers \cup {NULL}]
    BY <1>1, <1>2
  <2>2. writing' \in Seq(Loggers \X (1 .. MaxLogs))
    BY <1>2
  <2> QED
    BY <1>1, <1>2, <1>5, <2>1, <2>2 DEF SinkTypes
<1>8. /\ holds'[Main] = NULL /\ holds'[LogThread] = NULL
      /\ \A l \in Loggers : holds'[l] = holds[l]
  BY <1>1, <1>4, Distinct DEF Roles
<1>9. Roles'
  BY <1>1, <1>2, <1>8 DEF Roles
<1>10. \A x \in Buffers : /\ InPool(x)' <=> InPool(x) \/ x = b
                          /\ InHands(x)' <=> InHands(x) /\ x # b
                          /\ InQueue(x)' <=> InQueue(x)
  <2> SUFFICES ASSUME NEW x \in Buffers
               PROVE  /\ InPool(x)' <=> InPool(x) \/ x = b
                      /\ InHands(x)' <=> InHands(x) /\ x # b
                      /\ InQueue(x)' <=> InQueue(x)
    OBVIOUS
  <2>1. InPool(x)' <=> InPool(x) \/ x = b
    BY <1>5, <1>6 DEF InPool
  <2>2. InHands(x)' <=> InHands(x) /\ x # b
    <3>1. x # NULL /\ \A t \in Threads : holds[t] = b => t = LogThread
      BY <1>1, <1>3, Distinct, SinkAssumption DEF OneOwner
    <3> QED
      BY <1>4, <3>1, Distinct DEF InHands
  <2>3. InQueue(x)' <=> InQueue(x)
    BY <1>2 DEF InQueue
  <2> QED
    BY <2>1, <2>2, <2>3
<1>11. InHands(b) /\ ~ InPool(b) /\ ~ InQueue(b) /\ b \in used
  BY <1>1, <1>3, Distinct DEF OneOwner, InHands
<1>12. OneOwner'
  <2>1. \A i, j \in 1 .. Len(pool') : pool'[i] = pool'[j] => i = j
    <3>1. \A i \in 1 .. Len(pool) : pool[i] # b
      BY <1>11 DEF InPool
    <3> QED
      BY <1>1, <1>5, <1>6, <3>1 DEF OneOwner
  <2>2. \A t, u \in Threads : holds'[t] = holds'[u] /\ holds'[t] # NULL => t = u
    BY <1>1, <1>4 DEF OneOwner
  <2> QED
    BY <1>1, <1>2, <1>10, <1>11, <2>1, <2>2 DEF OneOwner
<1>13. Ending'
  BY <1>1, <1>2 DEF Ending
<1>14. pending = queue /\ pending' = queue
  BY <1>2, <1>8 DEF pending
<1>15. Contents'
  <2>1. \A x \in Buffers : x \notin used' \/ InPool(x)' => content'[x] = <<>>
    BY <1>1, <1>2, <1>3, <1>10 DEF Contents
  <2>2. \A l \in Loggers : holds'[l] # NULL =>
            content'[holds'[l]] = IF pc'[l] = "idle" THEN <<>> ELSE << <<l, logged'[l]>> >>
    BY <1>1, <1>2, <1>8 DEF Contents
  <2>3. \A i \in 1 .. Len(pending') : pending'[i] # NULL =>
            \E k \in Loggers, n \in 1 .. MaxLogs : content'[pending'[i]] = << <<k, n>> >>
    BY <1>2, <1>14, PendingMessage
  <2> QED
    BY <1>2, <2>1, <2>2, <2>3 DEF Contents
<1>16. /\ \A l \in Loggers : Appended(l)' = Appended(l)
       /\ \A x : From(x)' = From(x) /\ Number(x)' = Number(x)
  BY <1>2, <1>8 DEF Appended, From, Number
<1>17. \A i \in 1 .. Len(pending) : pending[i] # NULL => From(pending[i]) \in Loggers
  BY PendingMessage
<1>18. pending' = pending
  BY <1>14
<1>19. Order'
  BY <1>1, <1>2, <1>16, <1>17, <1>18 DEF Order
<1> QED
  BY <1>7, <1>9, <1>12, <1>13, <1>15, <1>19 DEF SinkInv

----------------------------------------------------------------------------
(* The steps of the threads that leave the sink alone.                     *)

(* Who has exited stays so, and a thread that works on a buffer does not   *)
(* leave its function.                                                     *)
ThreadsOnly ==
    /\ UNCHANGED <<queue, pc, item, sinkVars>>
    /\ \A o \in Objects : run'[o] # run[o] =>
          \/ run[o] = "none" /\ run'[o] = "func"
          \/ run[o] = "func" /\ run'[o] = "proxy" /\ o \in Loggers /\ holds[o] = NULL
          \/ run[o] = "proxy" /\ run'[o] = "exited"

(* A join of main that is under way is about the same object until that    *)
(* has exited.                                                             *)
JoinsGoOn ==
    at[Main] # "no" => of'[Main] = of[Main] /\ (at'[Main] # "no" \/ run[of[Main]] = "exited")

LEMMA ThreadsOnlyKeepsInv ==
    ASSUME SinkInv, ThreadsOnly, JoinsGoOn,
           \/ UNCHANGED mainVars
           \/ /\ main = "run" /\ UNCHANGED main
              /\ \E l \in Loggers : at'[Main] # "no" /\ of'[Main] = l /\ at[Main] = "no"
                                    /\ left'[Main] = left[Main] \ {l}
              /\ left' \in [Threads -> SUBSET Objects]
           \/ UNCHANGED main /\ left'[Main] = left[Main] /\ left' \in [Threads -> SUBSET Objects]
           \/ main = "join" /\ main' = "delete" /\ UNCHANGED left
              /\ at'[Main] # "no" /\ of'[Main] = LogThread
           \/ main = "delete" /\ main' = "deleted" /\ UNCHANGED left /\ at[Main] = "no"
    PROVE  SinkInv'
<1>1. /\ SinkTypes /\ Roles /\ Ending
      /\ UNCHANGED <<queue, pc, item, used, pool, content, holds, logged, written, writing>>
  BY DEF SinkInv, ThreadsOnly, sinkVars, poolVars
<1>2. OneOwner' /\ Contents' /\ Order'
  BY <1>1, FrameKeepsBuffers DEF sinkVars, poolVars
<1>3. \A o \in Objects :
          /\ run[o] = "exited" => run'[o] = "exited"
          /\ run[o] = "proxy" => run'[o] \in {"proxy", "exited"}
          /\ run[o] = "func" /\ (o \notin Loggers \/ holds[o] # NULL) => run'[o] = "func"
          /\ run'[o] \in {"proxy", "exited"} => run[o] \in {"proxy", "exited"} \/ o \in Loggers
  BY DEF ThreadsOnly
<1>4. LogThread \in Objects /\ LogThread \notin Loggers /\ Loggers \subseteq Objects
  BY Distinct
<1>5. SinkTypes'
  BY <1>1 DEF SinkTypes, mainVars
<1>6. Roles'
  BY <1>1, <1>3, <1>4 DEF Roles, mainVars
<1>7. Ending'
  <2>1. \A l \in Loggers : l \in left'[Main] \/ run'[l] = "exited" \/ (at'[Main] # "no" /\ of'[Main] = l)
    <3> SUFFICES ASSUME NEW l \in Loggers, l \notin left'[Main], run'[l] # "exited"
                 PROVE  at'[Main] # "no" /\ of'[Main] = l
      OBVIOUS
    <3>1. run[l] # "exited"
      BY <1>3, <1>4
    <3>2. CASE l \notin left[Main]
      <4>1. at[Main] # "no" /\ of[Main] = l
        BY <1>1, <3>1, <3>2 DEF Ending
      <4> QED
        BY <3>1, <4>1 DEF JoinsGoOn
    <3>3. CASE l \in left[Main]
      BY <3>3 DEF mainVars
    <3> QED
      BY <3>2, <3>3
  <2>2. main' # "run" => \A l \in Loggers : run'[l] = "exited"
    BY <1>1, <1>3, <1>4 DEF Ending, mainVars
  <2>3. \A i \in 1 .. Len(queue') : queue'[i] = NULL => i = Len(queue') /\ main' \notin {"run", "push"}
    BY <1>1 DEF Ending, mainVars
  <2>4. run'[LogThread] \in {"proxy", "exited"} => queue' = <<>> /\ main' \notin {"run", "push"}
    BY <1>1, <1>3, <1>4 DEF Ending, mainVars
  <2>5. main' = "delete" => run'[LogThread] = "exited" \/ (at'[Main] # "no" /\ of'[Main] = LogThread)
    BY <1>1, <1>3, <1>4 DEF Ending, JoinsGoOn, mainVars
  <2>6. main' = "deleted" => run'[LogThread] = "exited"
    BY <1>1, <1>3, <1>4 DEF Ending, mainVars
  <2> QED
    BY <2>1, <2>2, <2>3, <2>4, <2>5, <2>6 DEF Ending
<1> QED
  BY <1>2, <1>5, <1>6, <1>7 DEF SinkInv

LEMMA MainJoin == ThreadFacts /\ [JoinStep]_(T!threadVars) => JoinsGoOn
<1> SUFFICES ASSUME ThreadFacts, [JoinStep]_(T!threadVars), at[Main] # "no"
             PROVE  of'[Main] = of[Main] /\ (at'[Main] # "no" \/ run[of[Main]] = "exited")
  BY DEF JoinsGoOn
<1>1. of[Main] \in Objects
  BY Distinct DEF ThreadFacts, T!ThreadTypeOK
<1>2. CASE JoinStep
  BY <1>1, <1>2, Distinct DEF JoinStep, ThreadFacts, EndSeen
<1>3. CASE UNCHANGED T!threadVars
  BY <1>3 DEF T!threadVars
<1> QED
  BY <1>2, <1>3

(* Start, the end of a thread, join and detach. *)
LEMMA ThreadStepKeepsInv ==
    ASSUME SinkInv, ThreadFacts, JoinsGoOn,
           \/ \E o \in Objects : Start(o) \/ Proxy(o)
           \/ \E l \in Loggers : Detach(l) \/ LoggerReturns(l)
           \/ \E t \in Threads : InJoin(t)
           \/ \E t \in Threads : T!SpuriousJoin(t) /\ UNCHANGED <<queueVars, sinkVars, mainVars>>
    PROVE  SinkInv'
<1> USE DEF queueVars
<1>1. run \in [Objects -> {"none", "func", "proxy", "exited"}]
      /\ \A o \in Objects : o \in started <=> run[o] # "none"
  BY DEF ThreadFacts, T!ThreadTypeOK, EndSeen
<1>2. UNCHANGED mainVars
  BY DEF Start, Proxy, Detach, LoggerReturns, InJoin
<1>3. UNCHANGED <<queue, pc, item, sinkVars>>
  BY DEF Start, Proxy, Detach, LoggerReturns, InJoin
<1>4. ASSUME NEW o \in Objects, Start(o) \/ Proxy(o)
      PROVE  ThreadsOnly
  BY <1>1, <1>3, <1>4 DEF Start, Proxy, T!start, T!threadProxy, ThreadsOnly
<1>5. ASSUME NEW l \in Loggers, LoggerReturns(l)
      PROVE  ThreadsOnly
  BY <1>1, <1>3, <1>5, Distinct DEF LoggerReturns, T!FuncReturns, ThreadsOnly
<1>6. run' = run => ThreadsOnly
  BY <1>3 DEF ThreadsOnly
<1>7. ASSUME NEW l \in Loggers, Detach(l)
      PROVE  run' = run
  BY <1>7 DEF Detach, T!detach
<1>8. ASSUME NEW t \in Threads, InJoin(t) \/ T!SpuriousJoin(t)
      PROVE  run' = run
  BY <1>8 DEF InJoin, T!join, T!JoinWaits, T!JoinFirst, T!JoinOther, T!PthreadJoin, T!SetJoined,
     T!SpuriousJoin
<1>9. ThreadsOnly
  BY <1>4, <1>5, <1>6, <1>7, <1>8
<1> QED
  BY <1>2, <1>9, ThreadsOnlyKeepsInv

LEMMA JoinKeepsInv ==
    ASSUME SinkInv, ThreadFacts, JoinsGoOn, NEW t \in Loggers \cup {Main}, NEW l \in Loggers, Join(t, l)
    PROVE  SinkInv'
<1>1. /\ T!CallJoin(t, l) /\ left' = [left EXCEPT ![t] = left[t] \ {l}]
      /\ UNCHANGED <<queueVars, sinkVars, main>>
      /\ t = Main => main = "run"
  BY DEF Join
<1>2. ThreadsOnly
  BY <1>1 DEF ThreadsOnly, T!CallJoin, queueVars
<1>3. left \in [Threads -> SUBSET Objects] /\ t \in Threads
  BY Distinct DEF SinkInv, SinkTypes
<1>4. left' \in [Threads -> SUBSET Objects]
  BY <1>1, <1>3
<1>5. CASE t = Main
  <2>1. at \in [Threads -> {"no", "join", "done_wait", "pthread_join",
                            "pthread_joined", "rejoin", "joined_wait"}]
        /\ of \in [Threads -> Objects]
    BY DEF ThreadFacts, T!ThreadTypeOK
  <2>2. at[Main] = "no" /\ at'[Main] # "no" /\ of'[Main] = l /\ left'[Main] = left[Main] \ {l}
    BY <1>1, <1>3, <1>5, <2>1 DEF T!CallJoin
  <2> QED
    BY <1>1, <1>2, <1>4, <1>5, <2>2, ThreadsOnlyKeepsInv
<1>6. CASE t # Main
  <2>1. left'[Main] = left[Main]
    BY <1>1, <1>3, <1>6, Distinct
  <2> QED
    BY <1>1, <1>2, <1>4, <2>1, ThreadsOnlyKeepsInv
<1> QED
  BY <1>5, <1>6

LEMMA DestroyKeepsInv ==
    ASSUME SinkInv, ThreadFacts, JoinsGoOn, DestroyJoin \/ Delete \/ UNCHANGED vars
    PROVE  SinkInv'
<1>1. CASE DestroyJoin
  <2>1. /\ main = "join" /\ main' = "delete" /\ UNCHANGED left
        /\ T!CallJoin(Main, LogThread) /\ UNCHANGED <<queueVars, sinkVars>>
    BY <1>1 DEF DestroyJoin
  <2>2. ThreadsOnly
    BY <2>1 DEF ThreadsOnly, T!CallJoin, queueVars
  <2>3. at'[Main] # "no" /\ of'[Main] = LogThread
    BY <2>1, Distinct DEF T!CallJoin, ThreadFacts, T!ThreadTypeOK
  <2> QED
    BY <2>1, <2>2, <2>3, ThreadsOnlyKeepsInv
<1>2. CASE Delete
  <2>1. /\ main = "delete" /\ main' = "deleted" /\ UNCHANGED left /\ at[Main] = "no"
        /\ UNCHANGED <<queueVars, threadVars, sinkVars>>
    BY <1>2 DEF Delete, Free
  <2>2. ThreadsOnly
    BY <2>1 DEF ThreadsOnly, queueVars, threadVars
  <2> QED
    BY <2>1, <2>2, ThreadsOnlyKeepsInv
<1>3. CASE UNCHANGED vars
  <2>1. UNCHANGED mainVars /\ ThreadsOnly
    BY <1>3 DEF ThreadsOnly, vars, queueVars, threadVars
  <2> QED
    BY <2>1, ThreadsOnlyKeepsInv
<1> QED
  BY <1>1, <1>2, <1>3

LEMMA NextSinkInv ==
    SinkInv /\ ThreadFacts /\ [Next]_vars /\ [JoinStep]_(T!threadVars) => SinkInv'
<1> SUFFICES ASSUME SinkInv, ThreadFacts, [Next]_vars, JoinsGoOn
             PROVE  SinkInv'
  BY MainJoin
<1>1. CASE MainStep
  <2>1. ASSUME NEW o \in Objects, Start(o) PROVE SinkInv'
    BY <2>1, ThreadStepKeepsInv
  <2>2. ASSUME NEW l \in Loggers, Join(Main, l) PROVE SinkInv'
    BY <2>2, JoinKeepsInv
  <2>3. CASE InJoin(Main)
    BY <2>3, ThreadStepKeepsInv, Distinct
  <2> QED
    BY <1>1, <2>1, <2>2, <2>3, DestroyPushKeepsInv, DestroyKeepsInv DEF MainStep
<1>2. CASE LogThreadStep
  <2>1. CASE Proxy(LogThread)
    BY <2>1, ThreadStepKeepsInv, Distinct
  <2> QED
    BY <1>2, <2>1, PopBufferKeepsInv, WriteKeepsInv, ReturnObjectKeepsInv
       DEF LogThreadStep, logThreadFunc
<1>3. ASSUME NEW l \in Loggers, LoggerStep(l) \/ Detach(l)
      PROVE  SinkInv'
  <2>1. CASE log(l)
    BY <2>1, LogGetKeepsInv, LogFillKeepsInv, LogPushKeepsInv DEF log
  <2>2. ASSUME NEW o \in Loggers, Join(l, o) PROVE SinkInv'
    BY <2>2, JoinKeepsInv
  <2>3. CASE InJoin(l) \/ LoggerReturns(l) \/ Proxy(l) \/ Detach(l)
    BY <2>3, ThreadStepKeepsInv, Distinct
  <2> QED
    BY <1>3, <2>1, <2>2, <2>3 DEF LoggerStep
<1>4. ASSUME NEW t \in Threads, Spurious(t)
      PROVE  SinkInv'
  <2>1. CASE Q!SpuriousWakeup(t) /\ UNCHANGED threadVars
    <3>1. UNCHANGED <<run, at, of, sinkVars, mainVars>>
      BY <1>4, <2>1 DEF Spurious, threadVars
    <3> QED
      BY <2>1, <3>1, WaitKeepsInv
  <2>2. CASE T!SpuriousJoin(t) /\ UNCHANGED queueVars
    BY <1>4, <2>2, ThreadStepKeepsInv DEF Spurious
  <2> QED
    BY <1>4, <2>1, <2>2 DEF Spurious
<1>5. CASE Terminated \/ UNCHANGED vars
  BY <1>5, DestroyKeepsInv DEF Terminated
<1> QED
  BY <1>1, <1>2, <1>3, <1>4, <1>5 DEF Next

LEMMA SinkInvariance == Spec => []SinkInv
BY InitSinkInv, NextSinkInv, ThreadsBehave, PTL DEF Spec

----------------------------------------------------------------------------
(* Two threads never have the same buffer, nor a thread one that is in the *)
(* queue or the pool, and none is lost on the way round.                   *)
THEOREM BuffersHaveOneOwner == Spec => []BufferHasOneOwner
<1>1. SinkInv => BufferHasOneOwner
  <2> SUFFICES ASSUME SinkInv, NEW b \in used
               PROVE  1 = Cardinality({i \in DOMAIN pool : pool[i] = b})
                          + Cardinality({i \in DOMAIN queue : queue[i] = b})
                          + Cardinality({t \in Threads : holds[t] = b})
    BY DEF BufferHasOneOwner
  <2> DEFINE P == {i \in DOMAIN pool : pool[i] = b}
             U == {i \in DOMAIN queue : queue[i] = b}
             H == {t \in Threads : holds[t] = b}
  <2>1. /\ OneOwner /\ b \in Buffers /\ b # NULL
        /\ DOMAIN pool = 1 .. Len(pool) /\ DOMAIN queue = 1 .. Len(queue)
    BY SinkAssumption DEF SinkInv, SinkTypes
  <2>2. /\ InPool(b) => \E i : P = {i}
        /\ ~ InPool(b) => P = {}
    <3>1. ASSUME InPool(b)
          PROVE  \E i : P = {i}
      <4>1. PICK i \in 1 .. Len(pool) : pool[i] = b
        BY <3>1 DEF InPool
      <4>2. \A y \in 1 .. Len(pool) : pool[y] = b => y = i
        BY <2>1, <4>1 DEF OneOwner
      <4>3. P = {i}
        BY <2>1, <4>1, <4>2
      <4> QED
        BY <4>3
    <3>2. ~ InPool(b) => P = {}
      BY <2>1 DEF InPool
    <3> QED
      BY <3>1, <3>2
  <2>3. /\ InQueue(b) => \E i : U = {i}
        /\ ~ InQueue(b) => U = {}
    <3>1. ASSUME InQueue(b)
          PROVE  \E i : U = {i}
      <4>1. PICK i \in 1 .. Len(queue) : queue[i] = b
        BY <3>1 DEF InQueue
      <4>2. \A j \in 1 .. Len(queue) : queue[j] = b => j = i
        BY <2>1, <4>1 DEF OneOwner
      <4>3. U = {i}
        BY <2>1, <4>1, <4>2
      <4> QED
        BY <4>3
    <3>2. ~ InQueue(b) => U = {}
      BY <2>1 DEF InQueue
    <3> QED
      BY <3>1, <3>2
  <2>4. /\ InHands(b) => \E t : H = {t}
        /\ ~ InHands(b) => H = {}
    <3>1. ASSUME InHands(b)
          PROVE  \E t : H = {t}
      <4>1. PICK t \in Threads : holds[t] = b
        BY <3>1 DEF InHands
      <4>2. \A y \in Threads : holds[y] = b => y = t
        BY <2>1, <4>1 DEF OneOwner
      <4>3. H = {t}
        BY <2>1, <4>1, <4>2
      <4> QED
        BY <4>3
    <3>2. ~ InHands(b) => H = {}
      BY <2>1 DEF InHands
    <3> QED
      BY <3>1, <3>2
  <2>5. \/ InPool(b) /\ ~ InQueue(b) /\ ~ InHands(b)
        \/ ~ InPool(b) /\ InQueue(b) /\ ~ InHands(b)
        \/ ~ InPool(b) /\ ~ InQueue(b) /\ InHands(b)
    BY <2>1 DEF OneOwner
  <2>6. Cardinality({}) = 0 /\ \A x : Cardinality({x}) = 1
    BY FS_EmptySet, FS_Singleton
  <2> HIDE DEF P, U, H
  <2>7. \/ Cardinality(P) = 1 /\ Cardinality(U) = 0 /\ Cardinality(H) = 0
        \/ Cardinality(P) = 0 /\ Cardinality(U) = 1 /\ Cardinality(H) = 0
        \/ Cardinality(P) = 0 /\ Cardinality(U) = 0 /\ Cardinality(H) = 1
    BY <2>2, <2>3, <2>4, <2>5, <2>6
  <2> QED
    BY <2>7 DEF P, U, H
<1> QED
  BY <1>1, SinkInvariance, PTL

(* Whatever the threads do, the adapted sink is given the messages of each *)
(* in the order in which it logged them, one at a time, each once.         *)
THEOREM MessagesAreWrittenInOrder == Spec => WritesNextMessage
<1>1. SinkInv /\ [Next]_vars =>
          [writing' # <<>> /\ writing = <<>> =>
              \E l \in Loggers : writing' = << <<l, written[l] + 1>> >>]_vars
  <2> SUFFICES ASSUME SinkInv, Next, writing' # <<>>, writing = <<>>
               PROVE  \E l \in Loggers : writing' = << <<l, written[l] + 1>> >>
    OBVIOUS
  <2>1. CASE Write
    BY <2>1, WriteIsNext
  <2>2. CASE ~ Write
    <3>1. writing' = writing \/ writing' = <<>>
      BY <2>2 DEF Next, MainStep, LogThreadStep, LoggerStep, logThreadFunc, log, LogGet, LogFill, LogPush,
         PopBuffer, returnObject, Start, Detach, Join, InJoin, LoggerReturns, Proxy, DestroyPush,
         DestroyJoin, Delete, Spurious, Terminated, vars, sinkVars
    <3> QED
      BY <3>1
  <2> QED
    BY <2>1, <2>2
<1> QED
  BY <1>1, SinkInvariance, PTL DEF Spec, WritesNextMessage

(* What the destructor leaves: every message written, the log thread gone  *)
(* and all buffers in the pool.                                            *)
THEOREM DestroyedIsClean == Spec => []DestroyedClean
<1>1. SinkInv /\ ThreadFacts => DestroyedClean
  <2> SUFFICES ASSUME SinkInv, ThreadFacts, main = "deleted"
               PROVE  /\ written = logged
                      /\ queue = <<>>
                      /\ run[LogThread] = "exited"
                      /\ {pool[i] : i \in DOMAIN pool} = used
    BY DEF DestroyedClean
  <2>1. SinkTypes /\ Roles /\ OneOwner /\ Ending /\ Order
    BY DEF SinkInv
  <2>2. run[LogThread] = "exited" /\ queue = <<>> /\ \A l \in Loggers : run[l] = "exited"
    BY <2>1 DEF Ending
  <2>3. \A t \in Threads : holds[t] = NULL
    BY <2>1, <2>2 DEF Roles, Threads, Objects
  <2>4. Len(pending) = 0
    BY <2>2, <2>3, Distinct DEF pending
  <2>5. written = logged
    <3>1. /\ logged \in [Loggers -> 0 .. MaxLogs] /\ written \in [Loggers -> 0 .. MaxLogs]
          /\ MaxLogs \in Nat
      BY <2>1, SinkAssumption DEF SinkTypes
    <3>2. ASSUME NEW l \in Loggers
          PROVE  written[l] = logged[l]
      <4>1. Appended(l) = logged[l] /\ written[l] <= Appended(l)
        BY <2>1, <2>3, Distinct DEF Appended, Order
      <4>2. logged[l] \in Nat /\ written[l] \in Nat /\ logged[l] <= MaxLogs
        BY <3>1
      <4>3. CASE written[l] < logged[l]
        <5>1. logged[l] \in 1 .. MaxLogs
          BY <3>1, <4>2, <4>3
        <5>2. \E i \in 1 .. Len(pending) : TRUE
          BY <2>1, <4>1, <4>3, <5>1 DEF Order
        <5> QED
          BY <2>4, <5>2
      <4> QED
        BY <4>1, <4>2, <4>3
    <3> QED
      BY <3>1, <3>2
  <2>6. {pool[i] : i \in DOMAIN pool} = used
    <3>1. used \subseteq Buffers /\ DOMAIN pool = 1 .. Len(pool)
          /\ \A i \in 1 .. Len(pool) : pool[i] \in Buffers
      BY <2>1 DEF SinkTypes
    <3>2. \A b \in Buffers : b \in used <=> InPool(b)
      <4>1. \A b \in Buffers : ~ InHands(b) /\ ~ InQueue(b)
        BY <2>2, <2>3, SinkAssumption DEF InHands, InQueue
      <4> QED
        BY <2>1, <4>1 DEF OneOwner
    <3> QED
      BY <3>1, <3>2 DEF InPool
  <2> QED
    BY <2>2, <2>5, <2>6
<1> QED
  BY <1>1, SinkInvariance, ThreadsBehave, PTL

(* The variables of the sink, of its queue and of the threads have their   *)
(* types: the queue is never over its bound.                               *)
THEOREM TypesAreKept == Spec => []TypeOK
<1>1. SinkInv /\ ThreadFacts => TypeOK
  BY DEF SinkInv, SinkTypes, Places, ThreadFacts, TypeOK, Q!TypeOK, T!ThreadTypeOK
<1> QED
  BY <1>1, SinkInvariance, ThreadsBehave, PTL
----------------------------------------------------------------------------
(* LogCore: who deletes a sink.                                            *)
C == INSTANCE LogCore

(* Induction, over sets: a set of numbers has a least one. *)
LEMMA Least ==
    ASSUME NEW S \in SUBSET Nat, S # {}
    PROVE  \E n \in S : \A m \in S : n <= m
<1> DEFINE R == {ss \in Nat \X Nat : ss[1] < ss[2]}
<1>1. IsWellFoundedOn(R, Nat)
    BY NatLessThanWellFounded DEF OpToRel
<1>2. PICK x \in S : \A y \in S : ~ (<<y, x>> \in R)
    <2> HIDE DEF R
    <2> QED
        BY <1>1, WFMin, Zenon
<1>3. ASSUME NEW y \in S
      PROVE  x <= y
    <2>1. <<y, x>> \notin R
        BY <1>2
    <2> QED
        BY <2>1
<1> QED
    BY <1>3

(* What holds of 0 and of the number after each it holds of. *)
LEMMA UpTo ==
    ASSUME NEW N \in Nat, NEW S, 0 \in S, \A n \in 0 .. N - 1 : n \in S => n + 1 \in S
    PROVE  \A n \in 0 .. N : n \in S
<1> SUFFICES ASSUME ~ \A n \in 0 .. N : n \in S
             PROVE  FALSE
    OBVIOUS
<1>1. PICK n \in (0 .. N) \ S : \A m \in (0 .. N) \ S : n <= m
    <2>1. (0 .. N) \ S \in SUBSET Nat /\ (0 .. N) \ S # {}
        OBVIOUS
    <2> QED
        BY <2>1, Least
<1>2. n # 0 /\ n - 1 \in 0 .. N - 1
    BY <1>1
<1>3. n - 1 \in S
    BY <1>1, <1>2
<1> QED
    BY <1>1, <1>2, <1>3

(* g begins with x and goes on as step says. *)
IsRun(step, x, N, g) == g = [k \in 0 .. N |-> IF k = 0 THEN x ELSE step[<<k, g[k - 1]>>]]

LEMMA RunExists ==
    ASSUME NEW S, NEW x \in S, NEW N \in Nat, NEW step \in [(1 .. N) \X S -> S]
    PROVE  \E g \in [0 .. N -> S] : IsRun(step, x, N, g)
<1> DEFINE Runs(k, g) == g[0] = x /\ \A m \in 1 .. k : g[m] = step[<<m, g[m - 1]>>]
           P == {k \in 0 .. N : \E g \in [0 .. k -> S] : Runs(k, g)}
<1>1. 0 \in P
    <2> DEFINE g == [i \in 0 .. 0 |-> x]
    <2>1. g \in [0 .. 0 -> S] /\ Runs(0, g)
        OBVIOUS
    <2> HIDE DEF g
    <2>2. \E f \in [0 .. 0 -> S] : Runs(0, f)
        <3> HIDE DEF Runs
        <3> QED
            BY <2>1
    <2> QED
        BY <2>2
<1>2. ASSUME NEW k \in 0 .. N - 1, k \in P
      PROVE  k + 1 \in P
    <2>1. PICK g \in [0 .. k -> S] : Runs(k, g)
        BY <1>2
    <2>2. step[<<k + 1, g[k]>>] \in S
        BY <2>1
    <2> DEFINE h == [i \in 0 .. k + 1 |-> IF i = k + 1 THEN step[<<k + 1, g[k]>>] ELSE g[i]]
    <2>3. h \in [0 .. k + 1 -> S]
        BY <2>1, <2>2
    <2>4. Runs(k + 1, h)
        <3>1. h[0] = x
            BY <2>1
        <3>2. ASSUME NEW m \in 1 .. k + 1
              PROVE  h[m] = step[<<m, h[m - 1]>>]
            <4>1. m - 1 \in 0 .. k /\ h[m - 1] = g[m - 1]
                OBVIOUS
            <4>2. CASE m = k + 1
                <5>1. h[m] = step[<<k + 1, g[k]>>] /\ m - 1 = k
                    BY <4>2
                <5> HIDE DEF h
                <5> QED
                    BY <4>1, <4>2, <5>1, Zenon
            <4>3. CASE m # k + 1
                BY <2>1, <4>1, <4>3
            <4> QED
                BY <4>2, <4>3
        <3> QED
            BY <3>1, <3>2
    <2> HIDE DEF h
    <2>5. \E f \in [0 .. k + 1 -> S] : Runs(k + 1, f)
        <3> HIDE DEF Runs
        <3> QED
            BY <2>3, <2>4
    <2> QED
        BY <2>5
<1>3. N \in P
    <2> HIDE DEF P
    <2>1. N \in 0 .. N
        OBVIOUS
    <2> QED
        BY <1>1, <1>2, <2>1, UpTo
<1>4. PICK g \in [0 .. N -> S] : Runs(N, g)
    BY <1>3
<1>5. IsRun(step, x, N, g)
    BY <1>4 DEF IsRun
<1> QED
    BY <1>5

(* What the members of a LogCore are.  NULL is no logger. *)
SinkSet   == [sink : Nat, formatter : {NULL, "sink"}, level_filter : Nat]
LoggerSet == [formatter : {"logger"}, level_filter : Nat, max_log_size : Nat,
              sinks : Seq(SinkSet)]
CoreSet   == [loggers : Seq(LoggerSet \cup {NULL}), max_log_size : Nat, deleted : Seq(Nat)]

Has(s, x) == \E i \in 1 .. Len(s) : s[i] = x

Once(s) == \A i, j \in 1 .. Len(s) : s[i] = s[j] => i = j

(* The sinks of A are in one place each: in one of the sequences o, the    *)
(* loggers', or in d, the deleted ones.                                    *)
InOnePlace(o, n, d, A) ==
    /\ Once(d) /\ \A l \in 1 .. n : Once(o[l])
    /\ \A l, m \in 1 .. n : \A x \in Nat : Has(o[l], x) /\ Has(o[m], x) => l = m
    /\ \A l \in 1 .. n : \A x \in Nat : ~ (Has(o[l], x) /\ Has(d, x))
    /\ \A x \in Nat : x \in A <=> Has(d, x) \/ \E l \in 1 .. n : Has(o[l], x)

OwnedBy(core) == [l \in 1 .. Len(core.loggers) |-> C!Owned(core.loggers[l])]

Tidy(core, A) == InOnePlace(OwnedBy(core), Len(core.loggers), core.deleted, A)

(* One sequence behind another. *)
LEMMA JoinOnce ==
    ASSUME NEW s \in Seq(Nat), NEW t \in Seq(Nat), Once(s), Once(t),
           \A x \in Nat : ~ (Has(s, x) /\ Has(t, x))
    PROVE  /\ s \o t \in Seq(Nat) /\ Once(s \o t)
           /\ \A x \in Nat : Has(s \o t, x) <=> Has(s, x) \/ Has(t, x)
<1>1. PICK m \in Nat, n \in Nat : m = Len(s) /\ n = Len(t)
  OBVIOUS
<1>2. PICK u \in Seq(Nat) :
        /\ u = s \o t /\ Len(u) = m + n
        /\ \A i \in 1 .. m + n : u[i] = IF i <= m THEN s[i] ELSE t[i - m]
  <2>1. /\ s \o t \in Seq(Nat) /\ Len(s \o t) = Len(s) + Len(t)
        /\ \A i \in 1 .. Len(s) + Len(t) :
              (s \o t)[i] = IF i <= Len(s) THEN s[i] ELSE t[i - Len(s)]
    BY ConcatProperties
  <2> QED
    BY <1>1, <2>1
<1>3. /\ \A i \in 1 .. m : u[i] = s[i] /\ s[i] \in Nat /\ Has(s, s[i])
      /\ \A i \in 1 .. n : u[m + i] = t[i] /\ t[i] \in Nat /\ Has(t, t[i])
  <2>1. ASSUME NEW i \in 1 .. m
        PROVE  u[i] = s[i] /\ s[i] \in Nat /\ Has(s, s[i])
    BY <1>1, <1>2 DEF Has
  <2>2. ASSUME NEW i \in 1 .. n
        PROVE  u[m + i] = t[i] /\ t[i] \in Nat /\ Has(t, t[i])
    <3>1. m + i \in 1 .. m + n /\ ~ (m + i <= m) /\ (m + i) - m = i
      OBVIOUS
    <3>2. u[m + i] = t[i]
      BY <1>2, <3>1
    <3> QED
      BY <1>1, <3>2 DEF Has
  <2> QED
    BY <2>1, <2>2
<1>4. \A i \in 1 .. m + n : i \in 1 .. m \/ \E j \in 1 .. n : i = m + j
  <2>1. ASSUME NEW i \in 1 .. m + n, i > m
        PROVE  \E j \in 1 .. n : i = m + j
    <3>1. i - m \in 1 .. n /\ i = m + (i - m)
      BY <2>1
    <3> QED
      BY <3>1
  <2> QED
    BY <2>1
<1>5. ASSUME NEW i \in 1 .. m + n, NEW j \in 1 .. m + n, u[i] = u[j]
      PROVE  i = j
  <2>1. CASE i \in 1 .. m /\ j \in 1 .. m
    BY <1>1, <1>3, <1>5, <2>1 DEF Once
  <2>2. ASSUME NEW a \in 1 .. n, NEW b \in 1 .. n, i = m + a, j = m + b
        PROVE  i = j
    <3>1. t[a] = t[b]
      BY <1>3, <1>5, <2>2
    <3>2. a = b
      BY <1>1, <3>1 DEF Once
    <3> QED
      BY <2>2, <3>2
  <2>3. ASSUME i \in 1 .. m, NEW b \in 1 .. n, j = m + b
        PROVE  i = j
    BY <1>3, <1>5, <2>3
  <2>4. ASSUME j \in 1 .. m, NEW a \in 1 .. n, i = m + a
        PROVE  i = j
    BY <1>3, <1>5, <2>4
  <2> QED
    BY <1>4, <2>1, <2>2, <2>3, <2>4
<1>6. ASSUME NEW x \in Nat
      PROVE  Has(u, x) <=> Has(s, x) \/ Has(t, x)
  <2>1. ASSUME NEW i \in 1 .. m + n, u[i] = x
        PROVE  Has(s, x) \/ Has(t, x)
    BY <1>3, <1>4, <2>1
  <2>2. ASSUME NEW i \in 1 .. m, s[i] = x
        PROVE  Has(u, x)
    <3>1. i \in 1 .. Len(u) /\ u[i] = x
      BY <1>2, <1>3, <2>2
    <3> QED
      BY <3>1 DEF Has
  <2>3. ASSUME NEW i \in 1 .. n, t[i] = x
        PROVE  Has(u, x)
    <3>1. m + i \in 1 .. m + n
      OBVIOUS
    <3>2. m + i \in 1 .. Len(u) /\ u[m + i] = x
      BY <1>2, <1>3, <2>3, <3>1, Zenon
    <3> QED
      BY <3>2, Zenon DEF Has
  <2> QED
    BY <1>1, <1>2, <2>1, <2>2, <2>3 DEF Has
<1>7. Once(u)
  BY <1>2, <1>5 DEF Once
<1> QED
  BY <1>2, <1>6, <1>7, Zenon

LEMMA EmptyOnce == <<>> \in Seq(Nat) /\ Once(<<>>) /\ \A x : ~ Has(<<>>, x)
<1>1. \A i \in 1 .. Len(<<>>) : FALSE
  OBVIOUS
<1> QED
  BY <1>1 DEF Once, Has

LEMMA OwnedIs ==
    ASSUME NEW core \in CoreSet, NEW n \in Nat, n = Len(core.loggers)
    PROVE  OwnedBy(core) \in [1 .. n -> Seq(Nat)]
<1>1. ASSUME NEW l \in 1 .. n
      PROVE  C!Owned(core.loggers[l]) \in Seq(Nat)
  <2>1. PICK g \in LoggerSet \cup {NULL} : g = core.loggers[l]
    BY DEF CoreSet
  <2>2. CASE g = NULL
    BY <2>1, <2>2, EmptyOnce DEF C!Owned
  <2>3. CASE g # NULL
    <3>1. PICK s \in Seq(SinkSet) : s = g.sinks
      BY <2>1, <2>3 DEF LoggerSet
    <3>2. ASSUME NEW i \in 1 .. Len(s)
          PROVE  s[i].sink \in Nat
      <4>1. s[i] \in SinkSet
        OBVIOUS
      <4> QED
        BY <4>1 DEF SinkSet
    <3>3. [i \in 1 .. Len(s) |-> s[i].sink] \in Seq(Nat)
      BY <3>2
    <3> QED
      BY <2>1, <2>3, <3>1, <3>3 DEF C!Owned
  <2> QED
    BY <2>2, <2>3
<1> QED
  BY <1>1 DEF OwnedBy

(* s holds what the sequences of o behind the first ones do. *)
Gathered(o, n, first, s) ==
    /\ s \in Seq(Nat) /\ Once(s)
    /\ \A x \in Nat : Has(s, x) <=> \E l \in first + 1 .. n : Has(o[l], x)

IsOwned(core, f) ==
    f = [id \in 0 .. Len(core.loggers) |->
           IF id = Len(core.loggers) THEN <<>> ELSE C!Owned(core.loggers[id + 1]) \o f[id + 1]]

LEMMA OwnedFromIs ==
    ASSUME NEW core, NEW first
    PROVE  C!OwnedFrom(core, first) =
              IF first < Len(core.loggers) THEN (CHOOSE f : IsOwned(core, f))[first] ELSE <<>>
  BY DEF C!OwnedFrom, IsOwned

OwnedRun(core, o, n, f) ==
    /\ f = CHOOSE h : IsOwned(core, h)
    /\ f[n] = <<>>
    /\ \A id \in 0 .. n - 1 : f[id] = o[id + 1] \o f[id + 1]

LEMMA OwnedRuns ==
    ASSUME NEW core \in CoreSet, NEW n \in Nat, n = Len(core.loggers), NEW o, o = OwnedBy(core)
    PROVE  \E f : OwnedRun(core, o, n, f)
<1>1. o \in [1 .. n -> Seq(Nat)] /\ \A l \in 1 .. n : o[l] = C!Owned(core.loggers[l])
  <2>1. o \in [1 .. n -> Seq(Nat)]
    BY OwnedIs
  <2> QED
    BY <2>1 DEF OwnedBy
<1> DEFINE step == [a \in (1 .. n) \X Seq(Nat) |-> o[n + 1 - a[1]] \o a[2]]
<1>2. step \in [(1 .. n) \X Seq(Nat) -> Seq(Nat)]
  <2>1. ASSUME NEW k \in 1 .. n, NEW s \in Seq(Nat)
        PROVE  o[n + 1 - k] \o s \in Seq(Nat)
    <3>1. n + 1 - k \in 1 .. n
      OBVIOUS
    <3>2. o[n + 1 - k] \in Seq(Nat)
      BY <1>1, <3>1
    <3> QED
      BY <3>2, ConcatProperties
  <2> QED
    BY <2>1
<1>3. PICK g \in [0 .. n -> Seq(Nat)] : IsRun(step, <<>>, n, g)
  <2> HIDE DEF step
  <2> QED
    BY <1>2, EmptyOnce, RunExists
<1> DEFINE h == [id \in 0 .. n |-> g[n - id]]
<1>4. g[0] = <<>>
  BY <1>3 DEF IsRun
<1>5. ASSUME NEW k \in 1 .. n
      PROVE  g[k] = o[n + 1 - k] \o g[k - 1]
  <2>1. k \in 0 .. n /\ k # 0 /\ k - 1 \in 0 .. n
    OBVIOUS
  <2>2. g[k] = step[<<k, g[k - 1]>>]
    <3> HIDE DEF step
    <3> QED
      BY <1>3, <2>1 DEF IsRun
  <2>3. g[k - 1] \in Seq(Nat)
    BY <1>3, <2>1
  <2> QED
    BY <2>2, <2>3
<1>6. ASSUME NEW id \in 0 .. n
      PROVE  h[id] = IF id = n THEN <<>> ELSE C!Owned(core.loggers[id + 1]) \o h[id + 1]
  <2>1. CASE id = n
    <3>1. n - id = 0
      BY <2>1
    <3> QED
      BY <1>4, <2>1, <3>1
  <2>2. CASE id # n
    <3>1. /\ n - id \in 1 .. n /\ n + 1 - (n - id) = id + 1 /\ (n - id) - 1 = n - (id + 1)
          /\ id + 1 \in 1 .. n /\ id + 1 \in 0 .. n
      BY <2>2
    <3>2. h[id] = g[n - id] /\ h[id + 1] = g[n - (id + 1)]
      BY <3>1
    <3>3. g[n - id] = o[n + 1 - (n - id)] \o g[(n - id) - 1]
      BY <1>5, <3>1
    <3> HIDE DEF h
    <3> QED
      BY <1>1, <2>2, <3>1, <3>2, <3>3, Zenon
  <2> QED
    BY <2>1, <2>2
<1>7. IsOwned(core, h)
  <2>1. h = [id \in 0 .. n |-> h[id]]
    BY Zenon
  <2> HIDE DEF h
  <2> QED
    BY <1>6, <2>1, Zenon DEF IsOwned
<1>8. PICK f : f = CHOOSE e : IsOwned(core, e)
  OBVIOUS
<1>9. IsOwned(core, f)
  <2> HIDE DEF h
  <2> QED
    BY <1>7, <1>8, Zenon
<1>10. f = [id \in 0 .. n |->
              IF id = n THEN <<>> ELSE C!Owned(core.loggers[id + 1]) \o f[id + 1]]
  BY <1>9 DEF IsOwned
<1>11. f[n] = <<>>
  BY <1>10
<1>12. ASSUME NEW id \in 0 .. n - 1
       PROVE  f[id] = o[id + 1] \o f[id + 1]
  <2>1. id \in 0 .. n /\ id # n /\ id + 1 \in 1 .. n
    OBVIOUS
  <2>2. f[id] = C!Owned(core.loggers[id + 1]) \o f[id + 1]
    BY <1>10, <2>1
  <2> QED
    BY <1>1, <2>1, <2>2, Zenon
<1> QED
  BY <1>8, <1>11, <1>12, Zenon DEF OwnedRun

LEMMA Gathers ==
    ASSUME NEW core \in CoreSet, NEW A, Tidy(core, A), NEW first \in Nat
    PROVE  Gathered(OwnedBy(core), Len(core.loggers), first, C!OwnedFrom(core, first))
<1>1. PICK n \in Nat : n = Len(core.loggers)
  BY DEF CoreSet
<1>2. PICK o \in [1 .. n -> Seq(Nat)] : o = OwnedBy(core)
  BY <1>1, OwnedIs
<1>3. /\ \A l \in 1 .. n : Once(o[l])
      /\ \A l, m \in 1 .. n : \A x \in Nat : Has(o[l], x) /\ Has(o[m], x) => l = m
  BY <1>1, <1>2 DEF Tidy, InOnePlace
<1>4. PICK f : /\ f = CHOOSE h : IsOwned(core, h)
               /\ f[n] = <<>>
               /\ \A id \in 0 .. n - 1 : f[id] = o[id + 1] \o f[id + 1]
  <2>1. PICK f : OwnedRun(core, o, n, f)
    BY <1>1, <1>2, OwnedRuns
  <2> QED
    BY <2>1, Zenon DEF OwnedRun
<1>5. ASSUME NEW id \in Nat, id >= n
      PROVE  Gathered(o, n, id, <<>>)
  <2>1. \A l \in id + 1 .. n : FALSE
    BY <1>5
  <2> QED
    BY <2>1, EmptyOnce DEF Gathered
<1> DEFINE P == {k \in 0 .. n : Gathered(o, n, n - k, f[n - k])}
<1>6. 0 \in P
  <2>1. n - 0 = n /\ n >= n /\ 0 \in 0 .. n
    OBVIOUS
  <2>2. Gathered(o, n, n, f[n])
    BY <1>4, <1>5, <2>1, Zenon
  <2> QED
    BY <2>1, <2>2
<1>7. ASSUME NEW k \in 0 .. n - 1, k \in P
      PROVE  k + 1 \in P
  <2>1. PICK id \in 0 .. n - 1 : id = n - (k + 1) /\ n - k = id + 1 /\ id + 1 \in 1 .. n
    <3>1. n - (k + 1) \in 0 .. n - 1 /\ n - k = (n - (k + 1)) + 1 /\ n - k \in 1 .. n
      OBVIOUS
    <3> QED
      BY <3>1
  <2>2. PICK s \in Seq(Nat), t \in Seq(Nat) : s = o[id + 1] /\ t = f[id + 1]
    <3>1. o[id + 1] \in Seq(Nat)
      BY <1>2, <2>1
    <3>2. f[id + 1] \in Seq(Nat)
      BY <1>7, <2>1 DEF Gathered
    <3> QED
      BY <3>1, <3>2
  <2>3. /\ Once(t)
        /\ \A x \in Nat : Has(t, x) <=> \E l \in (id + 1) + 1 .. n : Has(o[l], x)
    BY <1>7, <2>1, <2>2, Zenon DEF Gathered
  <2>4. Once(s)
    BY <1>3, <2>1, <2>2, Zenon
  <2>5. ASSUME NEW x \in Nat, Has(s, x), Has(t, x)
        PROVE  FALSE
    <3>1. PICK l \in (id + 1) + 1 .. n : Has(o[l], x)
      BY <2>3, <2>5
    <3>2. l \in 1 .. n /\ l # id + 1
      BY <2>1, <3>1
    <3> QED
      BY <1>3, <2>1, <2>2, <2>5, <3>1, <3>2
  <2>6. /\ s \o t \in Seq(Nat) /\ Once(s \o t)
        /\ \A x \in Nat : Has(s \o t, x) <=> Has(s, x) \/ Has(t, x)
    BY <2>3, <2>4, <2>5, JoinOnce
  <2>7. ASSUME NEW x \in Nat
        PROVE  Has(s, x) \/ Has(t, x) <=> \E l \in id + 1 .. n : Has(o[l], x)
    <3>1. /\ \A l \in id + 1 .. n : l = id + 1 \/ l \in (id + 1) + 1 .. n
          /\ \A l \in (id + 1) + 1 .. n : l \in id + 1 .. n
          /\ id + 1 \in id + 1 .. n
      BY <2>1
    <3> QED
      BY <2>2, <2>3, <3>1, Zenon
  <2>8. f[id] = s \o t
    BY <1>4, <2>2, Zenon
  <2>9. Gathered(o, n, id, f[id])
    BY <2>6, <2>7, <2>8, Zenon DEF Gathered
  <2> QED
    BY <2>1, <2>9
<1>8. \A k \in 0 .. n : k \in P
  <2> HIDE DEF P
  <2> QED
    BY <1>6, <1>7, UpTo
<1>9. CASE first < n
  <2>1. n - first \in 0 .. n /\ n - (n - first) = first
    BY <1>9
  <2>2. Gathered(o, n, first, f[first])
    BY <1>8, <2>1
  <2>3. C!OwnedFrom(core, first) = f[first]
    BY <1>1, <1>4, <1>9, OwnedFromIs
  <2> QED
    BY <1>1, <1>2, <2>2, <2>3, Zenon
<1>10. CASE ~ (first < n)
  <2>1. C!OwnedFrom(core, first) = <<>>
    BY <1>1, <1>10, OwnedFromIs
  <2>2. Gathered(o, n, first, <<>>)
    BY <1>5, <1>10
  <2> QED
    BY <1>1, <1>2, <2>1, <2>2, Zenon
<1> QED
  BY <1>9, <1>10

LEMMA OwnedFromType ==
    ASSUME NEW core \in CoreSet, NEW first \in Nat
    PROVE  C!OwnedFrom(core, first) \in Seq(Nat)
<1>1. PICK n \in Nat : n = Len(core.loggers)
  BY DEF CoreSet
<1>2. PICK o \in [1 .. n -> Seq(Nat)] : o = OwnedBy(core)
  BY <1>1, OwnedIs
<1>3. PICK f : OwnedRun(core, o, n, f)
  BY <1>1, <1>2, OwnedRuns
<1>4. /\ f = CHOOSE h : IsOwned(core, h)
      /\ f[n] = <<>>
      /\ \A id \in 0 .. n - 1 : f[id] = o[id + 1] \o f[id + 1]
  BY <1>3, Zenon DEF OwnedRun
<1> DEFINE P == {k \in 0 .. n : f[n - k] \in Seq(Nat)}
<1>5. 0 \in P
  <2>1. n - 0 = n /\ 0 \in 0 .. n
    OBVIOUS
  <2>2. f[n] \in Seq(Nat)
    BY <1>4, EmptyOnce, Zenon
  <2> QED
    BY <2>1, <2>2
<1>6. ASSUME NEW k \in 0 .. n - 1, k \in P
      PROVE  k + 1 \in P
  <2>1. PICK id \in 0 .. n - 1 : id = n - (k + 1) /\ n - k = id + 1 /\ id + 1 \in 1 .. n
    <3>1. n - (k + 1) \in 0 .. n - 1 /\ n - k = (n - (k + 1)) + 1 /\ n - k \in 1 .. n
      OBVIOUS
    <3> QED
      BY <3>1
  <2>2. o[id + 1] \in Seq(Nat) /\ f[id + 1] \in Seq(Nat)
    BY <1>2, <1>6, <2>1
  <2>3. o[id + 1] \o f[id + 1] \in Seq(Nat)
    BY <2>2, ConcatProperties
  <2>4. f[id] \in Seq(Nat)
    BY <1>4, <2>3, Zenon
  <2> QED
    BY <2>1, <2>4
<1>7. \A k \in 0 .. n : k \in P
  <2> HIDE DEF P
  <2> QED
    BY <1>5, <1>6, UpTo
<1>8. CASE first < n
  <2>1. n - first \in 0 .. n /\ n - (n - first) = first
    BY <1>8
  <2>2. f[first] \in Seq(Nat)
    BY <1>7, <2>1
  <2> QED
    BY <1>1, <1>4, <1>8, <2>2, OwnedFromIs
<1>9. CASE ~ (first < n)
  BY <1>1, <1>9, OwnedFromIs, EmptyOnce
<1> QED
  BY <1>8, <1>9

LEMMA AppendOnce ==
    ASSUME NEW s \in Seq(Nat), Once(s), NEW y \in Nat, ~ Has(s, y)
    PROVE  /\ Append(s, y) \in Seq(Nat) /\ Once(Append(s, y))
           /\ \A x \in Nat : Has(Append(s, y), x) <=> Has(s, x) \/ x = y
<1>1. PICK m \in Nat : m = Len(s)
  OBVIOUS
<1>2. PICK u \in Seq(Nat) : /\ u = Append(s, y) /\ Len(u) = m + 1 /\ u[m + 1] = y
                            /\ \A i \in 1 .. m : u[i] = s[i]
  <2>1. /\ Append(s, y) \in Seq(Nat) /\ Len(Append(s, y)) = Len(s) + 1
        /\ \A i \in 1 .. Len(s) : Append(s, y)[i] = s[i]
        /\ Append(s, y)[Len(s) + 1] = y
    BY AppendProperties
  <2> QED
    BY <1>1, <2>1
<1>3. \A i \in 1 .. m : s[i] # y
  BY <1>1 DEF Has
<1>4. \A i, j \in 1 .. m : s[i] = s[j] => i = j
  BY <1>1 DEF Once
<1>5. \A i \in 1 .. m + 1 : i \in 1 .. m \/ i = m + 1
  OBVIOUS
<1>6. ASSUME NEW i \in 1 .. m + 1, NEW j \in 1 .. m + 1, u[i] = u[j]
      PROVE  i = j
  BY <1>2, <1>3, <1>4, <1>5, <1>6
<1>7. ASSUME NEW x \in Nat
      PROVE  Has(u, x) <=> Has(s, x) \/ x = y
  <2>1. \A i \in 1 .. m : i \in 1 .. m + 1
    OBVIOUS
  <2>2. m + 1 \in 1 .. m + 1
    OBVIOUS
  <2>3. Has(u, x) <=> \E i \in 1 .. m + 1 : u[i] = x
    BY <1>2 DEF Has
  <2>4. Has(s, x) <=> \E i \in 1 .. m : s[i] = x
    BY <1>1 DEF Has
  <2> QED
    BY <1>2, <1>5, <2>1, <2>2, <2>3, <2>4, Zenon
<1>8. Once(u)
  BY <1>2, <1>6 DEF Once
<1> QED
  BY <1>2, <1>7, <1>8, Zenon

(* removeLogger: the k-th logger's sinks are deleted. *)
LEMMA TidyRemove ==
    ASSUME NEW n \in Nat, NEW o \in [1 .. n -> Seq(Nat)], NEW d \in Seq(Nat), NEW A,
           InOnePlace(o, n, d, A), NEW k \in 1 .. n, NEW p \in [1 .. n -> Seq(Nat)],
           p = [o EXCEPT ![k] = <<>>]
    PROVE  d \o o[k] \in Seq(Nat) /\ InOnePlace(p, n, d \o o[k], A)
<1>1. PICK s \in Seq(Nat) : s = o[k]
  OBVIOUS
<1>2. /\ Once(d) /\ Once(s) /\ \A l \in 1 .. n : Once(o[l])
      /\ \A l, m \in 1 .. n : \A x \in Nat : Has(o[l], x) /\ Has(o[m], x) => l = m
      /\ \A l \in 1 .. n : \A x \in Nat : ~ (Has(o[l], x) /\ Has(d, x))
      /\ \A x \in Nat : x \in A <=> Has(d, x) \/ \E l \in 1 .. n : Has(o[l], x)
  BY <1>1, Zenon DEF InOnePlace
<1>3. \A x \in Nat : ~ (Has(d, x) /\ Has(s, x))
  BY <1>1, <1>2, Zenon
<1>4. PICK e \in Seq(Nat) : /\ e = d \o s /\ Once(e)
                            /\ \A x \in Nat : Has(e, x) <=> Has(d, x) \/ Has(s, x)
  <2>1. /\ d \o s \in Seq(Nat) /\ Once(d \o s)
        /\ \A x \in Nat : Has(d \o s, x) <=> Has(d, x) \/ Has(s, x)
    BY <1>2, <1>3, JoinOnce
  <2> QED
    BY <2>1, Zenon
<1>5. p[k] = <<>> /\ \A l \in 1 .. n : l # k => p[l] = o[l]
  OBVIOUS
<1>6. Once(p[k]) /\ \A x : ~ Has(p[k], x)
  BY <1>5, EmptyOnce, Zenon
<1>7. \A l \in 1 .. n : Once(p[l])
  BY <1>2, <1>5, <1>6, Zenon
<1>8. \A l \in 1 .. n : \A x \in Nat : Has(p[l], x) <=> Has(o[l], x) /\ l # k
  BY <1>5, <1>6, Zenon
<1>9. ASSUME NEW l \in 1 .. n, NEW x \in Nat, Has(p[l], x), Has(e, x)
      PROVE  FALSE
  <2>1. Has(o[l], x) /\ l # k
    BY <1>8, <1>9, Zenon
  <2>2. Has(d, x) \/ Has(o[k], x)
    BY <1>1, <1>4, <1>9, Zenon
  <2> QED
    BY <1>2, <2>1, <2>2, Zenon
<1>10. ASSUME NEW x \in Nat
       PROVE  x \in A <=> Has(e, x) \/ \E l \in 1 .. n : Has(p[l], x)
  <2>1. Has(e, x) <=> Has(d, x) \/ Has(o[k], x)
    BY <1>1, <1>4, Zenon
  <2> QED
    BY <1>2, <1>8, <2>1, Zenon
<1>11. InOnePlace(p, n, e, A)
  BY <1>2, <1>4, <1>7, <1>8, <1>9, <1>10, Zenon DEF InOnePlace
<1> QED
  BY <1>1, <1>4, <1>11, Zenon

(* addSink: the k-th logger takes y. *)
LEMMA TidyAdd ==
    ASSUME NEW n \in Nat, NEW o \in [1 .. n -> Seq(Nat)], NEW d \in Seq(Nat), NEW A,
           InOnePlace(o, n, d, A), NEW k \in 1 .. n, NEW y \in Nat, y \notin A,
           NEW p \in [1 .. n -> Seq(Nat)], p = [o EXCEPT ![k] = Append(o[k], y)]
    PROVE  InOnePlace(p, n, d, A \cup {y})
<1>1. PICK s \in Seq(Nat) : s = o[k]
  OBVIOUS
<1>2. /\ Once(d) /\ Once(s) /\ \A l \in 1 .. n : Once(o[l])
      /\ \A l, m \in 1 .. n : \A x \in Nat : Has(o[l], x) /\ Has(o[m], x) => l = m
      /\ \A l \in 1 .. n : \A x \in Nat : ~ (Has(o[l], x) /\ Has(d, x))
      /\ \A x \in Nat : x \in A <=> Has(d, x) \/ \E l \in 1 .. n : Has(o[l], x)
  BY <1>1, Zenon DEF InOnePlace
<1>3. ~ Has(d, y) /\ \A l \in 1 .. n : ~ Has(o[l], y)
  BY <1>2, Zenon
<1>4. PICK e \in Seq(Nat) : /\ e = Append(s, y) /\ Once(e)
                            /\ \A x \in Nat : Has(e, x) <=> Has(s, x) \/ x = y
  <2>1. ~ Has(s, y)
    BY <1>1, <1>3, Zenon
  <2>2. /\ Append(s, y) \in Seq(Nat) /\ Once(Append(s, y))
        /\ \A x \in Nat : Has(Append(s, y), x) <=> Has(s, x) \/ x = y
    BY <1>2, <2>1, AppendOnce
  <2> QED
    BY <2>2, Zenon
<1>5. p[k] = e /\ \A l \in 1 .. n : l # k => p[l] = o[l]
  BY <1>1, <1>4
<1>6. \A l \in 1 .. n : Once(p[l])
  BY <1>2, <1>4, <1>5, Zenon
<1>7. \A l \in 1 .. n : \A x \in Nat : Has(p[l], x) <=> Has(o[l], x) \/ (l = k /\ x = y)
  BY <1>1, <1>4, <1>5, Zenon
<1>8. ASSUME NEW l \in 1 .. n, NEW m \in 1 .. n, NEW x \in Nat, Has(p[l], x), Has(p[m], x)
      PROVE  l = m
  <2>1. CASE x = y
    <3>1. ~ Has(o[l], x) /\ ~ Has(o[m], x)
      BY <1>3, <2>1, Zenon
    <3>2. l = k
      BY <1>7, <1>8, <3>1, Zenon
    <3>3. m = k
      BY <1>7, <1>8, <3>1, Zenon
    <3> QED
      BY <3>2, <3>3
  <2>2. CASE x # y
    <3>1. Has(o[l], x) /\ Has(o[m], x)
      BY <1>7, <1>8, <2>2, Zenon
    <3> QED
      BY <1>2, <3>1, Zenon
  <2> QED
    BY <2>1, <2>2
<1>9. ASSUME NEW l \in 1 .. n, NEW x \in Nat, Has(p[l], x), Has(d, x)
      PROVE  FALSE
  BY <1>2, <1>3, <1>7, <1>9, Zenon
<1>10. ASSUME NEW x \in Nat
       PROVE  x \in A \cup {y} <=> Has(d, x) \/ \E l \in 1 .. n : Has(p[l], x)
  <2>1. x \in A \cup {y} <=> x \in A \/ x = y
    OBVIOUS
  <2> QED
    BY <1>2, <1>7, <2>1, Zenon
<1> QED
  BY <1>2, <1>6, <1>8, <1>9, <1>10, Zenon DEF InOnePlace

(* setMaxLoggerCount: the loggers past m go, or there are empty places for *)
(* more.                                                                   *)
LEMMA TidyCount ==
    ASSUME NEW n \in Nat, NEW o \in [1 .. n -> Seq(Nat)], NEW d \in Seq(Nat), NEW A,
           InOnePlace(o, n, d, A), NEW m \in Nat, NEW s, Gathered(o, n, m, s),
           NEW p \in [1 .. m -> Seq(Nat)],
           \A l \in 1 .. m : p[l] = IF l <= n THEN o[l] ELSE <<>>
    PROVE  d \o s \in Seq(Nat) /\ InOnePlace(p, m, d \o s, A)
<1>1. /\ s \in Seq(Nat) /\ Once(s)
      /\ \A x \in Nat : Has(s, x) <=> \E l \in m + 1 .. n : Has(o[l], x)
  BY Zenon DEF Gathered
<1>2. /\ Once(d) /\ \A l \in 1 .. n : Once(o[l])
      /\ \A l, h \in 1 .. n : \A x \in Nat : Has(o[l], x) /\ Has(o[h], x) => l = h
      /\ \A l \in 1 .. n : \A x \in Nat : ~ (Has(o[l], x) /\ Has(d, x))
      /\ \A x \in Nat : x \in A <=> Has(d, x) \/ \E l \in 1 .. n : Has(o[l], x)
  BY Zenon DEF InOnePlace
<1>3. /\ \A l \in m + 1 .. n : l \in 1 .. n /\ l \notin 1 .. m
      /\ \A l \in 1 .. n : l \in m + 1 .. n \/ l \in 1 .. m
      /\ \A l \in 1 .. m : l <= n <=> l \in 1 .. n
  OBVIOUS
<1>4. \A x \in Nat : ~ (Has(d, x) /\ Has(s, x))
  BY <1>1, <1>2, <1>3, Zenon
<1>5. PICK e \in Seq(Nat) : /\ e = d \o s /\ Once(e)
                            /\ \A x \in Nat : Has(e, x) <=> Has(d, x) \/ Has(s, x)
  <2>1. /\ d \o s \in Seq(Nat) /\ Once(d \o s)
        /\ \A x \in Nat : Has(d \o s, x) <=> Has(d, x) \/ Has(s, x)
    BY <1>1, <1>2, <1>4, JoinOnce
  <2> QED
    BY <2>1, Zenon
<1>6. /\ \A l \in 1 .. m : l \in 1 .. n => p[l] = o[l]
      /\ \A l \in 1 .. m : l \notin 1 .. n => p[l] = <<>>
  BY <1>3
<1>7. \A l \in 1 .. m : Once(p[l])
  BY <1>2, <1>6, EmptyOnce, Zenon
<1>8. \A l \in 1 .. m : \A x \in Nat : Has(p[l], x) <=> l \in 1 .. n /\ Has(o[l], x)
  BY <1>6, EmptyOnce, Zenon
<1>9. ASSUME NEW l \in 1 .. m, NEW h \in 1 .. m, NEW x \in Nat, Has(p[l], x), Has(p[h], x)
      PROVE  l = h
  BY <1>2, <1>8, <1>9, Zenon
<1>10. ASSUME NEW l \in 1 .. m, NEW x \in Nat, Has(p[l], x), Has(e, x)
       PROVE  FALSE
  <2>1. l \in 1 .. n /\ Has(o[l], x)
    BY <1>8, <1>10, Zenon
  <2>2. ~ Has(d, x)
    BY <1>2, <2>1, Zenon
  <2>3. PICK h \in m + 1 .. n : Has(o[h], x)
    BY <1>1, <1>5, <1>10, <2>2, Zenon
  <2>4. h \in 1 .. n /\ h # l
    BY <1>3, Zenon
  <2> QED
    BY <1>2, <2>1, <2>3, <2>4, Zenon
<1>11. ASSUME NEW x \in Nat
       PROVE  x \in A <=> Has(e, x) \/ \E l \in 1 .. m : Has(p[l], x)
  <2>1. Has(e, x) <=> Has(d, x) \/ \E l \in m + 1 .. n : Has(o[l], x)
    BY <1>1, <1>5, Zenon
  <2>2. (\E l \in 1 .. m : Has(p[l], x)) <=> \E l \in 1 .. m : l \in 1 .. n /\ Has(o[l], x)
    BY <1>8, Zenon
  <2>3. (\E l \in 1 .. n : Has(o[l], x)) <=>
           \/ \E l \in m + 1 .. n : Has(o[l], x)
           \/ \E l \in 1 .. m : l \in 1 .. n /\ Has(o[l], x)
    BY <1>3, Zenon
  <2>4. x \in A <=> Has(d, x) \/ \E l \in 1 .. n : Has(o[l], x)
    BY <1>2, Zenon
  <2> QED
    BY <2>1, <2>2, <2>3, <2>4, Zenon
<1>12. InOnePlace(p, m, e, A)
  BY <1>5, <1>7, <1>9, <1>10, <1>11, Zenon DEF InOnePlace
<1> QED
  BY <1>5, <1>12, Zenon

(* One logger is replaced. *)
Replaces(core, n, k, g, after) ==
    /\ after.loggers \in Seq(LoggerSet \cup {NULL}) /\ Len(after.loggers) = n
    /\ OwnedBy(after) = [OwnedBy(core) EXCEPT ![k] = C!Owned(g)]

LEMMA Replaced ==
    ASSUME NEW core \in CoreSet, NEW n \in Nat, n = Len(core.loggers), NEW k \in 1 .. n,
           NEW g \in LoggerSet \cup {NULL}, NEW after,
           after.loggers = [core.loggers EXCEPT ![k] = g]
    PROVE  Replaces(core, n, k, g, after)
<1>1. PICK s \in Seq(LoggerSet \cup {NULL}) : s = core.loggers
  BY DEF CoreSet
<1>2. PICK t \in Seq(LoggerSet \cup {NULL}) :
        /\ t = [s EXCEPT ![k] = g] /\ Len(t) = n
        /\ t[k] = g /\ \A l \in 1 .. n : l # k => t[l] = s[l]
  <2>1. /\ [s EXCEPT ![k] = g] \in Seq(LoggerSet \cup {NULL})
        /\ Len([s EXCEPT ![k] = g]) = n
        /\ [s EXCEPT ![k] = g][k] = g
        /\ \A l \in 1 .. n : l # k => [s EXCEPT ![k] = g][l] = s[l]
    BY <1>1
  <2> QED
    BY <2>1
<1>3. after.loggers = t
  BY <1>1, <1>2
<1>4. OwnedBy(after) = [l \in 1 .. n |-> C!Owned(t[l])]
  BY <1>2, <1>3 DEF OwnedBy
<1>5. OwnedBy(core) = [l \in 1 .. n |-> C!Owned(s[l])]
  BY <1>1 DEF OwnedBy
<1>6. ASSUME NEW l \in 1 .. n
      PROVE  C!Owned(t[l]) = [OwnedBy(core) EXCEPT ![k] = C!Owned(g)][l]
  <2>1. CASE l = k
    BY <1>2, <1>5, <2>1
  <2>2. CASE l # k
    BY <1>2, <1>5, <2>2
  <2> QED
    BY <2>1, <2>2
<1>7. [OwnedBy(core) EXCEPT ![k] = C!Owned(g)]
        = [l \in 1 .. n |-> [OwnedBy(core) EXCEPT ![k] = C!Owned(g)][l]]
  BY <1>5
<1>8. OwnedBy(after) = [OwnedBy(core) EXCEPT ![k] = C!Owned(g)]
  BY <1>4, <1>6, <1>7, Zenon
<1> QED
  BY <1>2, <1>3, <1>8, Zenon DEF Replaces

(* A step of a core that keeps it in order, and takes the sinks of B. *)
Keeps(core, after, B) ==
    after \in CoreSet /\ \A A : Tidy(core, A) /\ A \cap B = {} => Tidy(after, A \cup B)

LEMMA KeepsSame == ASSUME NEW core \in CoreSet PROVE Keeps(core, core, {})
<1>1. \A A : A \cup {} = A
  OBVIOUS
<1> QED
  BY <1>1, Zenon DEF Keeps

(* A core whose loggers have the same sinks, none of them deleted. *)
LEMMA KeepsOwned ==
    ASSUME NEW core \in CoreSet, NEW after \in CoreSet, OwnedBy(after) = OwnedBy(core),
           Len(after.loggers) = Len(core.loggers), after.deleted = core.deleted
    PROVE  Keeps(core, after, {})
<1>1. \A A : A \cup {} = A
  OBVIOUS
<1> QED
  BY <1>1, Zenon DEF Keeps, Tidy

LEMMA SetMaxLogSizeKeeps ==
    ASSUME NEW core \in CoreSet, NEW size \in Nat
    PROVE  Keeps(core, C!setMaxLogSize(core, size), {})
<1>1. CASE size <= 0
  BY <1>1, KeepsSame DEF C!setMaxLogSize
<1>2. CASE ~ (size <= 0)
  <2>1. C!setMaxLogSize(core, size) = [core EXCEPT !.max_log_size = size]
    BY <1>2 DEF C!setMaxLogSize
  <2>2. PICK after \in CoreSet : /\ after = [core EXCEPT !.max_log_size = size]
                               /\ after.loggers = core.loggers /\ after.deleted = core.deleted
    <3>1. [core EXCEPT !.max_log_size = size] \in CoreSet
      BY DEF CoreSet
    <3>2. /\ [core EXCEPT !.max_log_size = size].loggers = core.loggers
          /\ [core EXCEPT !.max_log_size = size].deleted = core.deleted
      BY DEF CoreSet
    <3> QED
      BY <3>1, <3>2
  <2>3. OwnedBy(after) = OwnedBy(core)
    BY <2>2 DEF OwnedBy
  <2>4. Keeps(core, after, {})
    BY <2>2, <2>3, KeepsOwned
  <2> QED
    BY <2>1, <2>2, <2>4, Zenon
<1> QED
  BY <1>1, <1>2

LEMMA KnownIs ==
    ASSUME NEW core \in CoreSet, NEW id \in Nat
    PROVE  /\ id \in 0 .. Len(core.loggers) - 1 => id + 1 \in 1 .. Len(core.loggers)
           /\ C!Known(core, id) => /\ id + 1 \in 1 .. Len(core.loggers)
                                   /\ core.loggers[id + 1] \in LoggerSet
<1>1. PICK s \in Seq(LoggerSet \cup {NULL}) : s = core.loggers
  BY DEF CoreSet
<1>2. id \in 0 .. Len(s) - 1 => id + 1 \in 1 .. Len(s)
  OBVIOUS
<1> QED
  BY <1>1, <1>2 DEF C!Known

(* A core that differs in its k-th logger only, whose sinks are the same. *)
LEMMA KeepsReplaced ==
    ASSUME NEW core \in CoreSet, NEW k \in 1 .. Len(core.loggers),
           NEW g \in LoggerSet \cup {NULL}, C!Owned(g) = C!Owned(core.loggers[k]),
           NEW after, after = [core EXCEPT !.loggers[k] = g]
    PROVE  Keeps(core, after, {})
<1>1. PICK n \in Nat : n = Len(core.loggers)
  BY DEF CoreSet
<1>2. after.loggers = [core.loggers EXCEPT ![k] = g] /\ after.deleted = core.deleted
  BY DEF CoreSet
<1>3. /\ after.loggers \in Seq(LoggerSet \cup {NULL}) /\ Len(after.loggers) = n
      /\ OwnedBy(after) = [OwnedBy(core) EXCEPT ![k] = C!Owned(g)]
  <2>1. k \in 1 .. n
    BY <1>1
  <2>2. Replaces(core, n, k, g, after)
    BY <1>1, <1>2, <2>1, Replaced
  <2> QED
    BY <2>2, Zenon DEF Replaces
<1>4. after \in CoreSet
  BY <1>3 DEF CoreSet
<1>5. PICK o \in [1 .. n -> Seq(Nat)] : o = OwnedBy(core)
  BY <1>1, OwnedIs
<1>6. o[k] = C!Owned(g)
  BY <1>1, <1>5 DEF OwnedBy
<1>7. [o EXCEPT ![k] = C!Owned(g)] = o
  BY <1>1, <1>5, <1>6
<1>8. OwnedBy(after) = OwnedBy(core)
  BY <1>3, <1>5, <1>7, Zenon
<1> QED
  BY <1>1, <1>2, <1>3, <1>4, <1>8, KeepsOwned

LEMMA RegisterKeeps ==
    ASSUME NEW core \in CoreSet, NEW id \in Nat, NEW level \in Nat, NULL \notin LoggerSet
    PROVE  Keeps(core, C!registerLogger(core, id, "logger", level), {})
<1>1. CASE id \notin 0 .. Len(core.loggers) - 1 \/ C!Known(core, id)
  BY <1>1, KeepsSame DEF C!registerLogger
<1>2. CASE ~ (id \notin 0 .. Len(core.loggers) - 1 \/ C!Known(core, id))
  <2>1. id + 1 \in 1 .. Len(core.loggers) /\ core.loggers[id + 1] = NULL
    BY <1>2, KnownIs DEF C!Known
  <2>2. PICK g \in LoggerSet : /\ g = C!Logger("logger", level, core.max_log_size)
                               /\ g.sinks = <<>>
    <3>1. core.max_log_size \in Nat
      BY DEF CoreSet
    <3>2. <<>> \in Seq(SinkSet)
      OBVIOUS
    <3>3. C!Logger("logger", level, core.max_log_size) \in LoggerSet
      BY <3>1, <3>2 DEF LoggerSet, C!Logger
    <3>4. C!Logger("logger", level, core.max_log_size).sinks = <<>>
      BY DEF C!Logger
    <3> QED
      BY <3>3, <3>4
  <2>3. C!Owned(g) = C!Owned(core.loggers[id + 1])
    <3>1. g # NULL
      BY <2>2
    <3>2. C!Owned(g) = [i \in 1 .. Len(<<>>) |-> g.sinks[i].sink]
      BY <2>2, <3>1 DEF C!Owned
    <3>3. 1 .. Len(<<>>) = {}
      OBVIOUS
    <3>4. C!Owned(g) = <<>>
      BY <3>2, <3>3
    <3> QED
      BY <2>1, <3>4 DEF C!Owned
  <2>4. C!registerLogger(core, id, "logger", level) = [core EXCEPT !.loggers[id + 1] = g]
    BY <1>2, <2>2 DEF C!registerLogger
  <2> QED
    BY <2>1, <2>3, <2>4, KeepsReplaced
<1> QED
  BY <1>1, <1>2

LEMMA SetLevelFilterKeeps ==
    ASSUME NEW core \in CoreSet, NEW id \in Nat, NEW level \in Nat, NULL \notin LoggerSet
    PROVE  Keeps(core, C!setLevelFilter(core, id, level), {})
<1>1. CASE ~ C!Known(core, id)
  BY <1>1, KeepsSame DEF C!setLevelFilter
<1>2. CASE C!Known(core, id)
  <2>1. id + 1 \in 1 .. Len(core.loggers) /\ core.loggers[id + 1] \in LoggerSet
    BY <1>2, KnownIs
  <2>2. PICK f \in LoggerSet : f = core.loggers[id + 1]
    BY <2>1
  <2>3. PICK g \in LoggerSet : g = [f EXCEPT !.level_filter = level] /\ g.sinks = f.sinks
    BY DEF LoggerSet
  <2>4. f # NULL /\ g # NULL
    OBVIOUS
  <2>5. C!Owned(g) = C!Owned(core.loggers[id + 1])
    BY <2>2, <2>3, <2>4 DEF C!Owned
  <2>6. C!setLevelFilter(core, id, level)
          = [core EXCEPT !.loggers[id + 1].level_filter = level]
    BY <1>2 DEF C!setLevelFilter
  <2>7. [core EXCEPT !.loggers[id + 1].level_filter = level]
          = [core EXCEPT !.loggers[id + 1] = g]
    BY <2>1, <2>2, <2>3 DEF CoreSet
  <2>8. C!setLevelFilter(core, id, level) = [core EXCEPT !.loggers[id + 1] = g]
    BY <2>6, <2>7, Zenon
  <2> QED
    BY <2>1, <2>5, <2>8, KeepsReplaced
<1> QED
  BY <1>1, <1>2

LEMMA RemoveKeeps ==
    ASSUME NEW core \in CoreSet, NEW id \in Nat
    PROVE  Keeps(core, C!removeLogger(core, id), {})
<1>1. CASE ~ C!Known(core, id)
  BY <1>1, KeepsSame DEF C!removeLogger
<1>2. CASE C!Known(core, id)
  <2>1. PICK n \in Nat : n = Len(core.loggers)
    BY DEF CoreSet
  <2>2. PICK o \in [1 .. n -> Seq(Nat)] : o = OwnedBy(core)
    BY <2>1, OwnedIs
  <2>3. PICK k \in 1 .. n : k = id + 1
    BY <1>2, <2>1, KnownIs
  <2>4. o[k] = C!Owned(core.loggers[id + 1]) /\ o[k] \in Seq(Nat)
    BY <2>1, <2>2, <2>3 DEF OwnedBy
  <2>5. PICK d \in Seq(Nat) : d = core.deleted
    BY DEF CoreSet
  <2>6. PICK e \in Seq(Nat) : e = d \o o[k]
    <3>1. d \o o[k] \in Seq(Nat)
      BY <2>4, <2>5, ConcatProperties
    <3> QED
      BY <3>1
  <2>7. PICK after : after = C!removeLogger(core, id)
    OBVIOUS
  <2>8. after = [core EXCEPT !.deleted = core.deleted \o C!Owned(core.loggers[id + 1]),
                             !.loggers[id + 1] = NULL]
    BY <1>2, <2>7, Zenon DEF C!removeLogger
  <2>9. after = [core EXCEPT !.deleted = e, !.loggers[k] = NULL]
    BY <2>3, <2>4, <2>5, <2>6, <2>8, Zenon
  <2>10. after.loggers = [core.loggers EXCEPT ![k] = NULL] /\ after.deleted = e
    BY <2>9 DEF CoreSet
  <2>11. NULL \in LoggerSet \cup {NULL}
    OBVIOUS
  <2>12. /\ after.loggers \in Seq(LoggerSet \cup {NULL}) /\ Len(after.loggers) = n
         /\ OwnedBy(after) = [OwnedBy(core) EXCEPT ![k] = C!Owned(NULL)]
    <3>1. Replaces(core, n, k, NULL, after)
      BY <2>1, <2>10, <2>11, Replaced
    <3> QED
      BY <3>1, Zenon DEF Replaces
  <2>13. after \in CoreSet
    BY <2>9, <2>10, <2>12 DEF CoreSet
  <2>14. PICK p \in [1 .. n -> Seq(Nat)] : p = OwnedBy(after)
    BY <2>12, <2>13, OwnedIs
  <2>15. p = [o EXCEPT ![k] = <<>>]
    BY <2>2, <2>12, <2>14 DEF C!Owned
  <2>16. ASSUME NEW A, Tidy(core, A)
         PROVE  Tidy(after, A)
    <3>1. InOnePlace(o, n, d, A)
      BY <2>1, <2>2, <2>5, <2>16, Zenon DEF Tidy
    <3>2. InOnePlace(p, n, d \o o[k], A)
      BY <2>15, <3>1, TidyRemove
    <3> QED
      BY <2>6, <2>10, <2>12, <2>14, <3>2, Zenon DEF Tidy
  <2>17. \A A : A \cup {} = A
    OBVIOUS
  <2>18. Keeps(core, after, {})
    BY <2>13, <2>16, <2>17, Zenon DEF Keeps
  <2> QED
    BY <2>7, <2>18, Zenon
<1> QED
  BY <1>1, <1>2

(* The sinks of a logger that is given one more. *)
LEMMA AddSinkOwns ==
    ASSUME NEW f \in LoggerSet, NULL \notin LoggerSet, NEW y \in Nat, NEW level \in Nat,
           NEW formatter \in {NULL, "sink"}
    PROVE  /\ C!AddSink(f, y, formatter, level) \in LoggerSet
           /\ C!Owned(C!AddSink(f, y, formatter, level)) = Append(C!Owned(f), y)
<1>1. PICK s \in Seq(SinkSet) : s = f.sinks
  BY DEF LoggerSet
<1>2. PICK a \in SinkSet : /\ a = [sink |-> y, formatter |-> formatter, level_filter |-> level]
                           /\ a.sink = y
  <2>1. [sink |-> y, formatter |-> formatter, level_filter |-> level] \in SinkSet
    BY DEF SinkSet
  <2> QED
    BY <2>1
<1>3. PICK m \in Nat : m = Len(s)
  OBVIOUS
<1>4. PICK t \in Seq(SinkSet) : /\ t = Append(s, a) /\ Len(t) = m + 1 /\ t[m + 1] = a
                                /\ \A i \in 1 .. m : t[i] = s[i]
  <2>1. /\ Append(s, a) \in Seq(SinkSet) /\ Len(Append(s, a)) = Len(s) + 1
        /\ \A i \in 1 .. Len(s) : Append(s, a)[i] = s[i]
        /\ Append(s, a)[Len(s) + 1] = a
    BY AppendProperties
  <2> QED
    BY <1>3, <2>1
<1>5. C!AddSink(f, y, formatter, level) = [f EXCEPT !.sinks = t]
  BY <1>1, <1>2, <1>4, Zenon DEF C!AddSink
<1>6. [f EXCEPT !.sinks = t] \in LoggerSet /\ [f EXCEPT !.sinks = t].sinks = t
  BY DEF LoggerSet
<1>7. PICK g \in LoggerSet : g = C!AddSink(f, y, formatter, level) /\ g.sinks = t
  BY <1>5, <1>6, Zenon
<1>8. f # NULL /\ g # NULL
  OBVIOUS
<1>9. C!Owned(f) = [i \in 1 .. m |-> s[i].sink]
  BY <1>1, <1>3, <1>8 DEF C!Owned
<1>10. C!Owned(g) = [i \in 1 .. m + 1 |-> t[i].sink]
  BY <1>4, <1>7, <1>8 DEF C!Owned
<1>11. ASSUME NEW i \in 1 .. m
       PROVE  s[i].sink \in Nat
  <2>1. s[i] \in SinkSet
    BY <1>3
  <2> QED
    BY <2>1 DEF SinkSet
<1>12. PICK u \in Seq(Nat) : /\ u = C!Owned(f) /\ Len(u) = m
                             /\ \A i \in 1 .. m : u[i] = s[i].sink
  <2>1. [i \in 1 .. m |-> s[i].sink] \in Seq(Nat) /\ Len([i \in 1 .. m |-> s[i].sink]) = m
    BY <1>11
  <2>2. C!Owned(f) \in Seq(Nat) /\ Len(C!Owned(f)) = m
        /\ \A i \in 1 .. m : C!Owned(f)[i] = s[i].sink
    BY <1>9, <2>1
  <2> QED
    BY <2>2
<1>13. PICK w \in Seq(Nat) : /\ w = Append(u, y) /\ Len(w) = m + 1 /\ w[m + 1] = y
                             /\ \A i \in 1 .. m : w[i] = u[i]
  <2>1. /\ Append(u, y) \in Seq(Nat) /\ Len(Append(u, y)) = Len(u) + 1
        /\ \A i \in 1 .. Len(u) : Append(u, y)[i] = u[i]
        /\ Append(u, y)[Len(u) + 1] = y
    BY AppendProperties
  <2> QED
    BY <1>12, <2>1
<1>14. ASSUME NEW i \in 1 .. m + 1
       PROVE  w[i] = t[i].sink
  <2>1. CASE i \in 1 .. m
    BY <1>4, <1>12, <1>13, <2>1
  <2>2. CASE i = m + 1
    BY <1>2, <1>4, <1>13, <2>2
  <2> QED
    BY <2>1, <2>2
<1>15. w = [i \in 1 .. m + 1 |-> w[i]]
  <2>1. w \in [1 .. Len(w) -> Nat] /\ Len(w) = m + 1
    BY <1>13, LenProperties, Zenon
  <2> QED
    BY <2>1, Zenon
<1>16. C!Owned(g) = w
  BY <1>10, <1>14, <1>15, Zenon
<1> QED
  BY <1>7, <1>12, <1>13, <1>16, Zenon

LEMMA AddSinkKeeps ==
    ASSUME NEW core \in CoreSet, NEW id \in Nat, NEW y \in Nat, NEW level \in Nat,
           NEW formatter \in {NULL, "sink"}, NULL \notin LoggerSet
    PROVE  Keeps(core, C!addSink(core, id, y, formatter, level),
                 IF C!Known(core, id) THEN {y} ELSE {})
<1>1. CASE ~ C!Known(core, id)
  <2>1. C!addSink(core, id, y, formatter, level) = core
    BY <1>1 DEF C!addSink
  <2> QED
    BY <1>1, <2>1, KeepsSame
<1>2. CASE C!Known(core, id)
  <2>1. PICK n \in Nat : n = Len(core.loggers)
    BY DEF CoreSet
  <2>2. PICK o \in [1 .. n -> Seq(Nat)] : o = OwnedBy(core)
    BY <2>1, OwnedIs
  <2>3. PICK k \in 1 .. n : k = id + 1
    BY <1>2, <2>1, KnownIs
  <2>4. PICK f \in LoggerSet : f = core.loggers[k]
    BY <1>2, <2>3, KnownIs
  <2>5. o[k] = C!Owned(f) /\ o[k] \in Seq(Nat)
    BY <2>1, <2>2, <2>4 DEF OwnedBy
  <2>6. PICK d \in Seq(Nat) : d = core.deleted
    BY DEF CoreSet
  <2>7. PICK g \in LoggerSet : /\ g = C!AddSink(f, y, formatter, level)
                               /\ C!Owned(g) = Append(o[k], y)
    <3>1. /\ C!AddSink(f, y, formatter, level) \in LoggerSet
          /\ C!Owned(C!AddSink(f, y, formatter, level)) = Append(C!Owned(f), y)
      BY AddSinkOwns
    <3> QED
      BY <2>5, <3>1, Zenon
  <2>8. PICK after : after = C!addSink(core, id, y, formatter, level)
    OBVIOUS
  <2>9. after = [core EXCEPT !.loggers[k] = C!AddSink(core.loggers[k], y, formatter, level)]
    BY <1>2, <2>3, <2>8, Zenon DEF C!addSink
  <2>10. after = [core EXCEPT !.loggers[k] = g]
    BY <2>4, <2>7, <2>9, Zenon
  <2>11. after.loggers = [core.loggers EXCEPT ![k] = g] /\ after.deleted = d
    BY <2>6, <2>10 DEF CoreSet
  <2>12. g \in LoggerSet \cup {NULL}
    OBVIOUS
  <2>13. /\ after.loggers \in Seq(LoggerSet \cup {NULL}) /\ Len(after.loggers) = n
         /\ OwnedBy(after) = [OwnedBy(core) EXCEPT ![k] = C!Owned(g)]
    <3>1. Replaces(core, n, k, g, after)
      BY <2>1, <2>11, <2>12, Replaced
    <3> QED
      BY <3>1, Zenon DEF Replaces
  <2>14. after \in CoreSet
    BY <2>10, <2>11, <2>13 DEF CoreSet
  <2>15. PICK p \in [1 .. n -> Seq(Nat)] : p = OwnedBy(after)
    BY <2>13, <2>14, OwnedIs
  <2>16. p = [o EXCEPT ![k] = Append(o[k], y)]
    BY <2>2, <2>7, <2>13, <2>15, Zenon
  <2>17. ASSUME NEW A, Tidy(core, A), A \cap {y} = {}
         PROVE  Tidy(after, A \cup {y})
    <3>1. InOnePlace(o, n, d, A)
      BY <2>1, <2>2, <2>6, <2>17, Zenon DEF Tidy
    <3>2. y \notin A
      BY <2>17
    <3>3. InOnePlace(p, n, d, A \cup {y})
      BY <2>16, <3>1, <3>2, TidyAdd
    <3> QED
      BY <2>11, <2>13, <2>15, <3>3, Zenon DEF Tidy
  <2>18. Keeps(core, after, {y})
    BY <2>14, <2>17, Zenon DEF Keeps
  <2> QED
    BY <1>2, <2>8, <2>18, Zenon
<1> QED
  BY <1>1, <1>2

LEMMA SetMaxLoggerCountKeeps ==
    ASSUME NEW core \in CoreSet, NEW count \in Nat
    PROVE  Keeps(core, C!setMaxLoggerCount(core, count), {})
<1>1. PICK n \in Nat : n = Len(core.loggers)
  BY DEF CoreSet
<1>2. PICK o \in [1 .. n -> Seq(Nat)] : o = OwnedBy(core)
  BY <1>1, OwnedIs
<1>3. PICK s \in Seq(Nat) : s = C!OwnedFrom(core, count)
  BY OwnedFromType
<1>4. PICK d \in Seq(Nat) : d = core.deleted
  BY DEF CoreSet
<1>5. PICK e \in Seq(Nat) : e = d \o s
  <2>1. d \o s \in Seq(Nat)
    BY ConcatProperties
  <2> QED
    BY <2>1
<1> DEFINE L == [i \in 1 .. count |-> IF i <= Len(core.loggers) THEN core.loggers[i] ELSE NULL]
<1>6. L \in Seq(LoggerSet \cup {NULL}) /\ Len(L) = count
  <2>1. ASSUME NEW i \in 1 .. count
        PROVE  L[i] \in LoggerSet \cup {NULL}
    BY <1>1 DEF CoreSet
  <2> QED
    BY <2>1
<1>7. /\ \A i \in 1 .. count : i \in 1 .. n => L[i] = core.loggers[i]
      /\ \A i \in 1 .. count : ~ (i <= n) => L[i] = NULL
  BY <1>1
<1>8. PICK after : after = C!setMaxLoggerCount(core, count)
  OBVIOUS
<1>9. after = [core EXCEPT !.deleted = core.deleted \o C!OwnedFrom(core, count), !.loggers = L]
  <2>1. ~ (count < 0)
    OBVIOUS
  <2> QED
    BY <1>8, <2>1, Zenon DEF C!setMaxLoggerCount
<1> HIDE DEF L
<1>10. after = [core EXCEPT !.deleted = e, !.loggers = L]
  BY <1>3, <1>4, <1>5, <1>9, Zenon
<1>11. after.loggers = L /\ after.deleted = e
  BY <1>10 DEF CoreSet
<1>12. after \in CoreSet
  BY <1>6, <1>10, <1>11 DEF CoreSet
<1>13. PICK p \in [1 .. count -> Seq(Nat)] : p = OwnedBy(after)
  BY <1>6, <1>11, <1>12, OwnedIs
<1>14. ASSUME NEW l \in 1 .. count
       PROVE  p[l] = IF l <= n THEN o[l] ELSE <<>>
  <2>1. p[l] = C!Owned(L[l])
    BY <1>6, <1>11, <1>13 DEF OwnedBy
  <2>2. CASE l <= n
    <3>1. l \in 1 .. n
      BY <2>2
    <3>2. o[l] = C!Owned(core.loggers[l])
      BY <1>1, <1>2, <3>1 DEF OwnedBy
    <3> QED
      BY <1>7, <2>1, <2>2, <3>1, <3>2
  <2>3. CASE ~ (l <= n)
    <3>1. L[l] = NULL
      BY <1>7, <2>3
    <3> QED
      BY <2>1, <2>3, <3>1 DEF C!Owned
  <2> QED
    BY <2>2, <2>3
<1>15. ASSUME NEW A, Tidy(core, A)
       PROVE  Tidy(after, A)
  <2>1. InOnePlace(o, n, d, A)
    BY <1>1, <1>2, <1>4, <1>15, Zenon DEF Tidy
  <2>2. Gathered(OwnedBy(core), Len(core.loggers), count, C!OwnedFrom(core, count))
    BY <1>15, Gathers
  <2>3. Gathered(o, n, count, s)
    BY <1>1, <1>2, <1>3, <2>2, Zenon
  <2>4. InOnePlace(p, count, d \o s, A)
    BY <1>14, <2>1, <2>3, TidyCount
  <2> QED
    BY <1>5, <1>6, <1>11, <1>13, <2>4, Zenon DEF Tidy
<1>16. \A A : A \cup {} = A
  OBVIOUS
<1>17. Keeps(core, after, {})
  BY <1>12, <1>15, <1>16, Zenon DEF Keeps
<1> QED
  BY <1>8, <1>17, Zenon

(* The calls. *)
LEMMA CallIs ==
    ASSUME NEW top \in Nat, NEW c \in C!Calls(top)
    PROVE  /\ c.id \in Nat /\ c.n \in Nat
           /\ c.name \in {"setMaxLoggerCount", "setMaxLogSize", "registerLogger",
                          "removeLogger", "addSink", "setLevelFilter"}
<1>1. \/ \E n \in {top, top + 1} : c = C!Call("setMaxLoggerCount", 0, n)
      \/ c = C!Call("setMaxLogSize", 0, 3)
      \/ \E name \in {"registerLogger", "removeLogger"}, id \in 0 .. top : c = C!Call(name, id, 0)
      \/ \E name \in {"addSink", "setLevelFilter"}, id \in 0 .. top, n \in {0, 1} :
            c = C!Call(name, id, n)
  BY DEF C!Calls, C!Levels
<1> QED
  BY <1>1 DEF C!Call

(* The sinks that a call takes. *)
Taken(core, c, i) == IF c.name = "addSink" /\ C!Known(core, c.id) THEN {i} ELSE {}

LEMMA ApplyKeeps ==
    ASSUME NEW core \in CoreSet, NEW top \in Nat, NEW c \in C!Calls(top), NEW i \in Nat,
           NULL \notin LoggerSet
    PROVE  Keeps(core, C!apply(core, c, i), Taken(core, c, i))
<1>1. c.id \in Nat /\ c.n \in Nat
  BY CallIs
<1>2. ASSUME c.name # "addSink", Keeps(core, C!apply(core, c, i), {})
      PROVE  Keeps(core, C!apply(core, c, i), Taken(core, c, i))
  BY <1>2, Zenon DEF Taken
<1>3. CASE c.name = "setMaxLoggerCount"
  <2>1. C!apply(core, c, i) = C!setMaxLoggerCount(core, c.n)
    BY <1>3 DEF C!apply
  <2> QED
    BY <1>1, <1>2, <1>3, <2>1, SetMaxLoggerCountKeeps
<1>4. CASE c.name = "setMaxLogSize"
  <2>1. C!apply(core, c, i) = C!setMaxLogSize(core, c.n)
    BY <1>4 DEF C!apply
  <2> QED
    BY <1>1, <1>2, <1>4, <2>1, SetMaxLogSizeKeeps
<1>5. CASE c.name = "registerLogger"
  <2>1. C!apply(core, c, i) = C!registerLogger(core, c.id, "logger", c.n)
    BY <1>5 DEF C!apply
  <2> QED
    BY <1>1, <1>2, <1>5, <2>1, RegisterKeeps
<1>6. CASE c.name = "removeLogger"
  <2>1. C!apply(core, c, i) = C!removeLogger(core, c.id)
    BY <1>6 DEF C!apply
  <2> QED
    BY <1>1, <1>2, <1>6, <2>1, RemoveKeeps
<1>7. CASE c.name = "addSink"
  <2>1. PICK formatter \in {NULL, "sink"} : formatter = IF c.n = 1 THEN "sink" ELSE NULL
    OBVIOUS
  <2>2. C!apply(core, c, i) = C!addSink(core, c.id, i, formatter, c.n)
    BY <1>7, <2>1 DEF C!apply
  <2>3. Keeps(core, C!addSink(core, c.id, i, formatter, c.n),
              IF C!Known(core, c.id) THEN {i} ELSE {})
    BY <1>1, AddSinkKeeps
  <2>4. Taken(core, c, i) = IF C!Known(core, c.id) THEN {i} ELSE {}
    BY <1>7 DEF Taken
  <2> QED
    BY <2>2, <2>3, <2>4, Zenon
<1>8. CASE c.name = "setLevelFilter"
  <2>1. C!apply(core, c, i) = C!setLevelFilter(core, c.id, c.n)
    BY <1>8 DEF C!apply
  <2> QED
    BY <1>1, <1>2, <1>8, <2>1, SetLevelFilterKeeps
<1> QED
  BY <1>3, <1>4, <1>5, <1>6, <1>7, <1>8, CallIs

LEMMA NewCoreTidy == C!NewCore \in CoreSet /\ Tidy(C!NewCore, {})
<1>1. PICK core \in CoreSet : /\ core = C!NewCore /\ Len(core.loggers) = 1
                              /\ core.loggers[1] = NULL /\ core.deleted = <<>>
  <2>1. PICK L \in Seq(LoggerSet \cup {NULL}) : L = [i \in 1 .. 1 |-> NULL]
    <3>1. [i \in 1 .. 1 |-> NULL] \in Seq(LoggerSet \cup {NULL})
      OBVIOUS
    <3> QED
      BY <3>1
  <2>2. Len(L) = 1 /\ L[1] = NULL
    BY <2>1
  <2>3. C!NewCore = [loggers |-> L, max_log_size |-> 2, deleted |-> <<>>]
    BY <2>1 DEF C!NewCore, C!DefaultCount, C!DefaultSize
  <2>4. C!NewCore \in CoreSet
    BY <2>3, EmptyOnce DEF CoreSet
  <2> QED
    BY <2>2, <2>3, <2>4
<1>2. PICK o \in [1 .. 1 -> Seq(Nat)] : o = OwnedBy(core)
  BY <1>1, OwnedIs
<1>3. \A l \in 1 .. 1 : l = 1
  OBVIOUS
<1>4. o[1] = <<>>
  BY <1>1, <1>2 DEF OwnedBy, C!Owned
<1>5. \A l \in 1 .. 1 : o[l] = <<>>
  BY <1>3, <1>4, Zenon
<1>6. \A x \in Nat : x \notin {}
  OBVIOUS
<1>7. InOnePlace(o, 1, <<>>, {})
  BY <1>5, <1>6, EmptyOnce, Zenon DEF InOnePlace
<1> QED
  BY <1>1, <1>2, <1>7, Zenon DEF Tidy

LEMMA SameCardinality == ASSUME NEW S PROVE C!Cardinality(S) = Cardinality(S)
  BY Zenon DEF C!Cardinality, Cardinality, C!IsFiniteSet, IsFiniteSet

LEMMA Counts ==
    ASSUME NEW s \in Seq(Nat), Once(s), NEW x \in Nat
    PROVE  C!Occurrences(x, s) = IF Has(s, x) THEN 1 ELSE 0
<1>1. CASE Has(s, x)
  <2>1. PICK i \in 1 .. Len(s) : s[i] = x
    BY <1>1 DEF Has
  <2>2. \A j \in 1 .. Len(s) : s[j] = x => j = i
    BY <2>1, Zenon DEF Once
  <2>3. {j \in 1 .. Len(s) : s[j] = x} = {i}
    BY <2>1, <2>2
  <2>4. C!Cardinality({i}) = 1
    BY FS_Singleton, SameCardinality
  <2> QED
    BY <1>1, <2>3, <2>4, Zenon DEF C!Occurrences
<1>2. CASE ~ Has(s, x)
  <2>1. {j \in 1 .. Len(s) : s[j] = x} = {}
    BY <1>2 DEF Has
  <2>2. C!Cardinality({}) = 0
    BY FS_EmptySet, SameCardinality
  <2> QED
    BY <1>2, <2>1, <2>2, Zenon DEF C!Occurrences
<1> QED
  BY <1>1, <1>2

(* The destructor deletes what there is left. *)
LEMMA DestroyedHas ==
    ASSUME NEW core \in CoreSet, NEW A, Tidy(core, A)
    PROVE  /\ C!Destroyed(core).deleted \in Seq(Nat) /\ Once(C!Destroyed(core).deleted)
           /\ \A x \in Nat : Has(C!Destroyed(core).deleted, x) <=> x \in A
<1>1. PICK n \in Nat : n = Len(core.loggers)
  BY DEF CoreSet
<1>2. PICK o \in [1 .. n -> Seq(Nat)] : o = OwnedBy(core)
  BY <1>1, OwnedIs
<1>3. PICK s \in Seq(Nat) : s = C!OwnedFrom(core, 0)
  BY OwnedFromType
<1>4. PICK d \in Seq(Nat) : d = core.deleted
  BY DEF CoreSet
<1>5. InOnePlace(o, n, d, A)
  BY <1>1, <1>2, <1>4, Zenon DEF Tidy
<1>6. Gathered(o, n, 0, s)
  <2>1. Gathered(OwnedBy(core), Len(core.loggers), 0, C!OwnedFrom(core, 0))
    BY Gathers
  <2> QED
    BY <1>1, <1>2, <1>3, <2>1, Zenon
<1>7. \A l \in 1 .. 0 : FALSE
  OBVIOUS
<1>8. PICK p \in [1 .. 0 -> Seq(Nat)] : TRUE
  <2>1. [l \in 1 .. 0 |-> <<>>] \in [1 .. 0 -> Seq(Nat)]
    BY <1>7
  <2> QED
    BY <2>1
<1>9. d \o s \in Seq(Nat) /\ InOnePlace(p, 0, d \o s, A)
  BY <1>5, <1>6, <1>7, TidyCount
<1>10. Once(d \o s) /\ \A x \in Nat : Has(d \o s, x) <=> x \in A
  BY <1>7, <1>9, Zenon DEF InOnePlace
<1>11. C!Destroyed(core) = [core EXCEPT !.deleted = core.deleted \o C!OwnedFrom(core, 0)]
  BY Zenon DEF C!Destroyed
<1>12. PICK e \in Seq(Nat) : e = d \o s
  BY <1>9, Zenon
<1>13. C!Destroyed(core) = [core EXCEPT !.deleted = e]
  BY <1>3, <1>4, <1>11, <1>12, Zenon
<1>14. C!Destroyed(core).deleted = e
  BY <1>13 DEF CoreSet
<1> QED
  BY <1>10, <1>12, <1>14, Zenon

(* f has the cores after each of the calls. *)
IsCores(calls, f) ==
    f = [i \in 0 .. Len(calls) |->
           IF i = 0 THEN C!NewCore ELSE C!apply(f[i - 1], calls[i], i)]

LEMMA RunIs == ASSUME NEW calls PROVE C!Run(calls) = CHOOSE f : IsCores(calls, f)
  BY DEF C!Run, IsCores

LEMMA Cores ==
    ASSUME NEW top \in Nat, NEW k \in Nat, NEW calls \in [1 .. k -> C!Calls(top)],
           NULL \notin LoggerSet
    PROVE  IsCores(calls, C!Run(calls))
<1>1. Len(calls) = k
  BY DEF C!Calls
<1> DEFINE step == [a \in (1 .. k) \X CoreSet |-> C!apply(a[2], calls[a[1]], a[1])]
<1>2. step \in [(1 .. k) \X CoreSet -> CoreSet]
  <2>1. ASSUME NEW i \in 1 .. k, NEW core \in CoreSet
        PROVE  C!apply(core, calls[i], i) \in CoreSet
    <3>1. calls[i] \in C!Calls(top) /\ i \in Nat
      OBVIOUS
    <3>2. Keeps(core, C!apply(core, calls[i], i), Taken(core, calls[i], i))
      BY <3>1, ApplyKeeps
    <3> QED
      BY <3>2, Zenon DEF Keeps
  <2> QED
    BY <2>1
<1>3. PICK g \in [0 .. k -> CoreSet] : IsRun(step, C!NewCore, k, g)
  <2> HIDE DEF step
  <2> QED
    BY <1>2, NewCoreTidy, RunExists
<1>4. ASSUME NEW i \in 0 .. k
      PROVE  g[i] = IF i = 0 THEN C!NewCore ELSE C!apply(g[i - 1], calls[i], i)
  <2>1. g[i] = IF i = 0 THEN C!NewCore ELSE step[<<i, g[i - 1]>>]
    <3> HIDE DEF step
    <3> QED
      BY <1>3 DEF IsRun
  <2>2. CASE i = 0
    BY <2>1, <2>2
  <2>3. CASE i # 0
    <3>1. i \in 1 .. k /\ i - 1 \in 0 .. k
      BY <2>3
    <3>2. g[i - 1] \in CoreSet
      BY <1>3, <3>1
    <3>3. step[<<i, g[i - 1]>>] = C!apply(g[i - 1], calls[i], i)
      BY <3>1, <3>2
    <3> QED
      BY <2>1, <2>3, <3>3, Zenon
  <2> QED
    BY <2>2, <2>3
<1>5. g = [i \in 0 .. k |-> g[i]]
  BY <1>3, Zenon
<1>6. IsCores(calls, g)
  BY <1>1, <1>4, <1>5, Zenon DEF IsCores
<1>7. IsCores(calls, CHOOSE f : IsCores(calls, f))
  BY <1>6, Zenon
<1> QED
  BY <1>7, RunIs, Zenon

(* SinksDeletedOnce: addSink either takes a sink, and then it is deleted   *)
(* once, with its logger, by removeLogger, by setMaxLoggerCount or by the  *)
(* destructor, or leaves it to the caller, and then it never is.  For any  *)
(* number of loggers, and any sequence of calls of any length.             *)
THEOREM SinksAreDeletedOnce ==
    ASSUME NULL \notin LoggerSet
    PROVE  \A top, n \in Nat : C!SinksDeletedOnce(top, n)
<1> SUFFICES ASSUME NEW top \in Nat, NEW n \in Nat, NEW k \in 0 .. n,
                    NEW calls \in [1 .. k -> C!Calls(top)], NEW i \in 1 .. Len(calls)
             PROVE  C!Occurrences(i, C!Destroyed(C!Run(calls)[Len(calls)]).deleted) =
                      IF calls[i].name = "addSink" /\ C!Known(C!Run(calls)[i - 1], calls[i].id)
                      THEN 1 ELSE 0
  BY Zenon DEF C!SinksDeletedOnce, C!CallSequences
<1>1. k \in Nat /\ Len(calls) = k /\ i \in 1 .. k /\ i \in Nat
  BY DEF C!Calls
<1>2. PICK f : f = C!Run(calls)
  OBVIOUS
<1>3. f = [j \in 0 .. k |-> IF j = 0 THEN C!NewCore ELSE C!apply(f[j - 1], calls[j], j)]
  <2>1. IsCores(calls, f)
    BY <1>1, <1>2, Cores
  <2> QED
    BY <1>1, <2>1, Zenon DEF IsCores
<1> DEFINE takes(j) == calls[j].name = "addSink" /\ C!Known(f[j - 1], calls[j].id)
           A(j)     == {h \in 1 .. j : takes(h)}
           P        == {j \in 0 .. k : f[j] \in CoreSet /\ Tidy(f[j], A(j))}
<1>4. 0 \in P
  <2>1. f[0] = C!NewCore
    BY <1>1, <1>3
  <2>2. A(0) = {}
    OBVIOUS
  <2>3. f[0] \in CoreSet /\ Tidy(f[0], A(0))
    BY <2>1, <2>2, NewCoreTidy, Zenon
  <2> QED
    BY <1>1, <2>3
<1>5. ASSUME NEW j \in 0 .. k - 1, j \in P
      PROVE  j + 1 \in P
  <2>1. j + 1 \in 0 .. k /\ j + 1 \in 1 .. k /\ j + 1 # 0 /\ (j + 1) - 1 = j /\ j + 1 \in Nat
    BY <1>1
  <2>2. f[j + 1] = C!apply(f[j], calls[j + 1], j + 1)
    BY <1>3, <2>1
  <2>3. calls[j + 1] \in C!Calls(top)
    BY <2>1
  <2>4. f[j] \in CoreSet /\ Tidy(f[j], A(j))
    BY <1>5
  <2>5. Keeps(f[j], f[j + 1], Taken(f[j], calls[j + 1], j + 1))
    <3>1. Keeps(f[j], C!apply(f[j], calls[j + 1], j + 1), Taken(f[j], calls[j + 1], j + 1))
      BY <2>1, <2>3, <2>4, ApplyKeeps
    <3> QED
      BY <2>2, <3>1, Zenon
  <2>6. takes(j + 1) <=> calls[j + 1].name = "addSink" /\ C!Known(f[j], calls[j + 1].id)
    BY <2>1, Zenon
  <2> HIDE DEF takes
  <2>7. Taken(f[j], calls[j + 1], j + 1) = IF takes(j + 1) THEN {j + 1} ELSE {}
    BY <2>6, Zenon DEF Taken
  <2>8. /\ A(j) \cap (IF takes(j + 1) THEN {j + 1} ELSE {}) = {}
        /\ A(j) \cup (IF takes(j + 1) THEN {j + 1} ELSE {}) = A(j + 1)
    <3>1. /\ j + 1 \notin 1 .. j /\ j + 1 \in 1 .. j + 1
          /\ \A h \in 1 .. j + 1 : h \in 1 .. j \/ h = j + 1
          /\ \A h \in 1 .. j : h \in 1 .. j + 1
      OBVIOUS
    <3> QED
      BY <3>1
  <2> HIDE DEF A
  <2>9. f[j + 1] \in CoreSet /\ Tidy(f[j + 1], A(j + 1))
    BY <2>4, <2>5, <2>7, <2>8, Zenon DEF Keeps
  <2> QED
    BY <2>1, <2>9
<1>6. k \in P
  <2> HIDE DEF P
  <2>1. k \in 0 .. k
    BY <1>1
  <2> QED
    BY <1>1, <1>4, <1>5, <2>1, UpTo
<1>7. f[k] \in CoreSet /\ Tidy(f[k], A(k))
  BY <1>6
<1>8. i \in A(k) <=> takes(i)
  BY <1>1
<1> HIDE DEF A, P
<1>9. PICK e \in Seq(Nat) : /\ e = C!Destroyed(f[k]).deleted /\ Once(e)
                            /\ Has(e, i) <=> i \in A(k)
  <2>1. /\ C!Destroyed(f[k]).deleted \in Seq(Nat) /\ Once(C!Destroyed(f[k]).deleted)
        /\ \A x \in Nat : Has(C!Destroyed(f[k]).deleted, x) <=> x \in A(k)
    BY <1>7, DestroyedHas
  <2> QED
    BY <1>1, <2>1, Zenon
<1>10. C!Occurrences(i, e) = IF Has(e, i) THEN 1 ELSE 0
  BY <1>1, <1>9, Counts
<1> QED
  BY <1>1, <1>2, <1>8, <1>9, <1>10, Zenon
=============================================================================
