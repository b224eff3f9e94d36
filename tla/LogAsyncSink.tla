---------------------------- MODULE LogAsyncSink ----------------------------
(***************************************************************************)
(* Logging from several threads through one thread that writes             *)
(* (log_async_sink.cc): log copies a message into a buffer of a pool and   *)
(* pushes the buffer to a bounded queue, the log thread writes it to the   *)
(* adapted sink and gives the buffer back, the destructor ends the log     *)
(* thread with a NULL and joins it.                                        *)
(*                                                                         *)
(* Around it is a program that keeps its contract, that nobody logs when   *)
(* the sink is being destroyed: a main thread builds the sink, starts      *)
(* threads that log, joins each of them, some after a detach, and deletes  *)
(* the sink.  Loggers may join each other too (Joiners).                   *)
(***************************************************************************)
EXTENDS Naturals, Sequences, FiniteSets

CONSTANTS
    Loggers, LogThread, Main,
    NULL,
    max_size,    \* queue_size
    Buffers,     \* bound: the DynamicBuffers new can give
    Joiners,     \* loggers that join the others before they end
    MaxLogs      \* bound: messages of one logger

Objects == Loggers \cup {LogThread}
Threads == Objects \cup {Main}

ASSUME SinkAssumption ==
    /\ Main \notin Objects /\ LogThread \notin Loggers
    /\ NULL \notin Buffers
    /\ max_size \in Nat \ {0}
    /\ Joiners \subseteq Loggers
    /\ MaxLogs \in Nat

VARIABLES
    queue, pc, item,                       \* queue_, see ConcurrentQueue
    started, done, join_started, joined,   \* the Thread objects, see Thread
    run, at, of, released,
    used,        \* buffers new has given
    pool,        \* reused_object_list_
    content,     \* [Buffers -> the messages in the buffer]
    holds,       \* [Threads -> the buffer a thread holds, or NULL]
    logged,      \* [Loggers -> messages given to log]
    written,     \* [Loggers -> the last message written]
    writing,     \* what the log thread gave the adapted sink last
    main,        \* where the program's main is, see TypeOK
    left         \* [Threads -> the objects the thread has still to join]

queueVars  == <<queue, pc, item>>
threadVars == <<started, done, join_started, joined, run, at, of, released>>
poolVars   == <<used, pool, content>>
sinkVars   == <<poolVars, holds, logged, written, writing>>
mainVars   == <<main, left>>
vars       == <<queueVars, threadVars, sinkVars, mainVars>>

Q == INSTANCE ConcurrentQueue WITH
        Items <- Buffers \cup {NULL}, MaxLen <- max_size

T == INSTANCE Thread WITH Callers <- Threads

Init ==
    /\ Q!Init
    /\ T!ThreadInit
    /\ used = {} /\ pool = <<>>
    /\ content = [b \in Buffers |-> <<>>]
    /\ holds = [t \in Threads |-> NULL]
    /\ logged = [l \in Loggers |-> 0]
    /\ written = [l \in Loggers |-> 0]
    /\ writing = <<>>
    /\ main = "run"
    /\ left = [t \in Threads |-> CASE t = Main      -> Objects
                                  [] t \in Joiners -> Loggers \ Joiners
                                  [] OTHER         -> {}]

----------------------------------------------------------------------------
(* log.                                                                    *)

(* A thread is in its own code: not in the queue, not in join. *)
Free(t) == pc[t] = "idle" /\ at[t] = "no"

new == CHOOSE b \in Buffers : b \notin used

(* Faulty variant: the object stays in the list. *)
getObject_Kept(t) ==
    IF pool # <<>>
    THEN /\ holds' = [holds EXCEPT ![t] = pool[Len(pool)]]
         /\ UNCHANGED <<used, pool>>
    ELSE /\ used # Buffers
         /\ holds' = [holds EXCEPT ![t] = new]
         /\ used' = used \cup {new}
         /\ UNCHANGED pool

getObject(t) ==
    IF pool # <<>>
    THEN /\ holds' = [holds EXCEPT ![t] = pool[Len(pool)]]
         /\ pool' = SubSeq(pool, 1, Len(pool) - 1)
         /\ UNCHANGED used
    ELSE /\ used # Buffers
         /\ holds' = [holds EXCEPT ![t] = new]
         /\ used' = used \cup {new}
         /\ UNCHANGED pool

LogGet(l) ==
    /\ run[l] = "func" /\ Free(l)
    /\ holds[l] = NULL
    /\ logged[l] < MaxLogs
    /\ getObject(l)
    /\ logged' = [logged EXCEPT ![l] = @ + 1]
    /\ UNCHANGED <<queueVars, threadVars, content, written, writing, mainVars>>

(* The message is appended to what the buffer holds; push is called. *)
LogFill(l) ==
    /\ Free(l)
    /\ holds[l] # NULL
    /\ content' = [content EXCEPT ![holds[l]] = Append(@, <<l, logged[l]>>)]
    /\ Q!CallPush(l, holds[l])
    /\ UNCHANGED <<threadVars, used, pool, holds, logged, written, writing, mainVars>>

(* queue_.push, then release(): the buffer is the queue's. *)
LogPush(l) ==
    /\ \/ Q!PushWaits(l) /\ UNCHANGED holds
       \/ Q!push(l) /\ holds' = [holds EXCEPT ![l] = NULL]
    /\ UNCHANGED <<threadVars, poolVars, logged, written, writing, mainVars>>

log(l) == LogGet(l) \/ LogFill(l) \/ LogPush(l)

----------------------------------------------------------------------------
(* logThreadFunc.                                                          *)

PopBuffer ==
    /\ run[LogThread] = "func"
    /\ holds[LogThread] = NULL
    /\ \/ Q!CallPop(LogThread) /\ UNCHANGED <<holds, threadVars>>
       \/ Q!PopWaits(LogThread) /\ UNCHANGED <<holds, threadVars>>
       \/ /\ Q!pop(LogThread)
          /\ holds' = [holds EXCEPT ![LogThread] = Head(queue)]
          /\ IF Head(queue) = NULL THEN T!FuncReturns(LogThread)
                                   ELSE UNCHANGED threadVars
    /\ UNCHANGED <<poolVars, logged, written, writing, mainVars>>

(* Faulty variant: the buffer is not read after it was written. *)
Write_NotRead ==
    /\ holds[LogThread] # NULL /\ writing = <<>>
    /\ writing' = content[holds[LogThread]]
    /\ written' = [l \in Loggers |-> written[l] + (IF writing'[1][1] = l THEN 1 ELSE 0)]
    /\ UNCHANGED <<queueVars, threadVars, poolVars, holds, logged, mainVars>>

(* adapted_sink_->log and read(readableBytes()) *)
Write ==
    /\ holds[LogThread] # NULL /\ writing = <<>>
    /\ writing' = content[holds[LogThread]]
    /\ content' = [content EXCEPT ![holds[LogThread]] = <<>>]
    /\ written' = [l \in Loggers |-> written[l] + (IF writing'[1][1] = l THEN 1 ELSE 0)]
    /\ UNCHANGED <<queueVars, threadVars, used, pool, holds, logged, mainVars>>

returnObject ==
    /\ writing # <<>>
    /\ pool' = Append(pool, holds[LogThread])
    /\ holds' = [holds EXCEPT ![LogThread] = NULL]
    /\ writing' = <<>>
    /\ UNCHANGED <<queueVars, threadVars, used, content, logged, written, mainVars>>

logThreadFunc == PopBuffer \/ Write \/ returnObject

----------------------------------------------------------------------------
(* The threads of the program, and the constructor and destructor.         *)

Start(o) ==
    /\ main = "run" /\ Free(Main)
    /\ o # LogThread => LogThread \in started   \* the sink is built first
    /\ T!start(o)
    /\ UNCHANGED <<queueVars, sinkVars, mainVars>>

(* A thread that was detached can still be joined. *)
Detach(l) ==
    /\ main = "run" /\ Free(Main)
    /\ l \in left[Main]
    /\ T!detach(Main, l)
    /\ UNCHANGED <<queueVars, sinkVars, mainVars>>

Join(t, l) ==
    /\ IF t = Main THEN main = "run" /\ started = Objects
                   ELSE run[t] = "func" /\ holds[t] = NULL
    /\ Free(t)
    /\ l \in left[t] \cap started
    /\ T!CallJoin(t, l)
    /\ left' = [left EXCEPT ![t] = @ \ {l}]
    /\ UNCHANGED <<queueVars, sinkVars, main>>

InJoin(t) == T!join(t) /\ UNCHANGED <<queueVars, sinkVars, mainVars>>

LoggerReturns(l) ==
    /\ Free(l) /\ holds[l] = NULL /\ left[l] = {}
    /\ T!FuncReturns(l)
    /\ UNCHANGED <<queueVars, sinkVars, mainVars>>

Proxy(o) == T!threadProxy(o) /\ UNCHANGED <<queueVars, sinkVars, mainVars>>

(* Faulty variant: the NULL is pushed only if there is room. *)
DestroyPush_IfNotFull ==
    /\ main = "run" /\ Free(Main)
    /\ left[Main] = {LogThread}
    /\ IF Q!fullNoLock THEN UNCHANGED queueVars ELSE Q!pushIfNotFull(Main, NULL)
    /\ main' = "join"
    /\ UNCHANGED <<threadVars, sinkVars, left>>

(* ~Impl: queue_.push(NULL) *)
DestroyPush ==
    /\ \/ /\ main = "run" /\ Free(Main)
          /\ left[Main] = {LogThread}
          /\ Q!CallPush(Main, NULL)
          /\ main' = "push"
       \/ /\ main = "push"
          /\ \/ Q!PushWaits(Main) /\ UNCHANGED main
             \/ Q!push(Main) /\ main' = "join"
    /\ UNCHANGED <<threadVars, sinkVars, left>>

(* Faulty variant: the log thread is not joined. *)
DestroyJoin_Skipped ==
    /\ main = "join"
    /\ main' = "delete"
    /\ UNCHANGED <<queueVars, threadVars, sinkVars, left>>

(* log_thread_.join() *)
DestroyJoin ==
    /\ main = "join"
    /\ T!CallJoin(Main, LogThread)
    /\ main' = "delete"
    /\ UNCHANGED <<queueVars, sinkVars, left>>

(* delete adapted_sink_, and the members: queue_, pool_ with its objects *)
Delete ==
    /\ main = "delete" /\ Free(Main)
    /\ main' = "deleted"
    /\ UNCHANGED <<queueVars, threadVars, sinkVars, left>>

Spurious(t) ==
    /\ \/ Q!SpuriousWakeup(t) /\ UNCHANGED threadVars
       \/ T!SpuriousJoin(t) /\ UNCHANGED queueVars
    /\ UNCHANGED <<sinkVars, mainVars>>

Terminated == main = "deleted" /\ UNCHANGED vars

----------------------------------------------------------------------------
MainStep ==
    \/ \E o \in Objects : Start(o)
    \/ \E l \in Loggers : Join(Main, l)
    \/ InJoin(Main)
    \/ DestroyPush \/ DestroyJoin \/ Delete

LoggerStep(l) ==
    \/ log(l)
    \/ \E o \in Loggers : Join(l, o)
    \/ InJoin(l)
    \/ LoggerReturns(l)
    \/ Proxy(l)

LogThreadStep == logThreadFunc \/ Proxy(LogThread)

Next ==
    \/ MainStep
    \/ LogThreadStep
    \/ \E l \in Loggers : LoggerStep(l) \/ Detach(l)
    \/ \E t \in Threads : Spurious(t)
    \/ Terminated

Spec == Init /\ [][Next]_vars

(* Every thread goes on while it can; detach and spurious wakeups need not *)
(* happen.                                                                 *)
FairSpec ==
    /\ Spec
    /\ WF_vars(MainStep)
    /\ WF_vars(LogThreadStep)
    /\ \A l \in Loggers : WF_vars(LoggerStep(l))

----------------------------------------------------------------------------
TypeOK ==
    /\ Q!TypeOK
    /\ T!ThreadTypeOK
    /\ used \subseteq Buffers
    /\ pool \in Seq(Buffers)
    /\ content \in [Buffers -> Seq(Loggers \X (1 .. MaxLogs))]
    /\ holds \in [Threads -> Buffers \cup {NULL}]
    /\ logged \in [Loggers -> 0 .. MaxLogs]
    /\ written \in [Loggers -> 0 .. MaxLogs]
    /\ writing \in Seq(Loggers \X (1 .. MaxLogs))
    /\ main \in {"run", "push", "join", "delete", "deleted"}
    /\ left \in [Threads -> SUBSET Objects]

(* A buffer is in one place: in the pool, in the queue, or in the hands of *)
(* one thread.  Two threads never write into the same buffer, and no       *)
(* buffer is lost.                                                         *)
BufferHasOneOwner ==
    \A b \in used :
        1 = Cardinality({i \in DOMAIN pool : pool[i] = b})
            + Cardinality({i \in DOMAIN queue : queue[i] = b})
            + Cardinality({t \in Threads : holds[t] = b})

(* Each call of the adapted sink writes one message, whole and alone, and  *)
(* the messages of a thread in the order it logged them, none twice and    *)
(* none skipped.                                                           *)
WritesNextMessage ==
    [][writing' # <<>> /\ writing = <<>> =>
          \E l \in Loggers : writing' = << <<l, written[l] + 1>> >>]_vars

(* When the adapted sink is deleted everything that was logged has been    *)
(* written, the log thread is gone, and every buffer is in the pool, whose *)
(* destructor frees it.                                                    *)
DestroyedClean ==
    main = "deleted" =>
        /\ written = logged
        /\ queue = <<>>
        /\ run[LogThread] = "exited"
        /\ {pool[i] : i \in DOMAIN pool} = used

(* The handle of every thread is released at most once, see Thread.        *)
HandleReleasedOnce == T!HandleReleasedOnce

(* No wake-up of join is lost, see Thread. *)
NoLostJoin == T!NoLostJoin

(* The program ends: no thread waits for ever in push, pop or join.        *)
Terminates == <>(main = "deleted")
=============================================================================
