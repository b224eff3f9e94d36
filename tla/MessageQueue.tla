---------------------------- MODULE MessageQueue ----------------------------
(***************************************************************************)
(* Messages from other threads to the thread of an IOService               *)
(* (message_queue.h): a ConcurrentQueue holds them and a byte in a         *)
(* non-blocking pipe (self_pipe.cc) wakes the loop, which watches the read *)
(* end.  The queue and the pipe are changed in two steps, in different     *)
(* orders by the two sides: push appends and then writes, the loop empties *)
(* the pipe and then pops.                                                 *)
(*                                                                         *)
(* The receive callback is the application's.  It pops until pop returns  *)
(* false, as echo_server2.cc does, or pops some and calls yield: nothing   *)
(* else would have it called again for the rest.                           *)
(*                                                                         *)
(* The loop serves a SignalQueue too: a signal comes between any two steps *)
(* of it, also while a message is received.                                *)
(***************************************************************************)
EXTENDS Naturals, Sequences, FiniteSets

CONSTANTS
    Producers,
    LoopThread,
    max_size,
    PipeSize,    \* bytes the kernel keeps in a pipe
    ReadSize,    \* sizeof(buffer) in pipeReadCallback
    MaxMessages, \* bound: messages of one producer
    MaxYields,   \* bound: calls of yield from outside the callback
    SignalRoom, MaxSignals   \* see SignalQueue

ASSUME PipeAssumption ==
    /\ IsFiniteSet(Producers) /\ Producers # {}
    /\ LoopThread \notin Producers
    /\ max_size \in Nat
    /\ PipeSize \in Nat \ {0} /\ ReadSize \in Nat \ {0}
    /\ MaxMessages \in Nat /\ MaxYields \in Nat

VARIABLES
    queue, pc, item,   \* queue_, see ConcurrentQueue
    sent,        \* messages each producer has given to push
    owes,        \* producers between the two lines of push
    pipe,        \* bytes in the pipe
    loop,        \* where the loop's thread is, see TypeOK
    yields,      \* calls of yield from outside the callback
    received,    \* the messages popped of each producer, in their order
    signal_pipe, raised, kept, handled   \* see SignalQueue

S == INSTANCE SignalQueue

signalVars  == <<signal_pipe, raised, kept, handled>>
messageVars == <<queue, pc, item, sent, owes, pipe, yields, received>>
vars == <<messageVars, loop, signalVars>>

(* Messages of a producer are numbered. *)
Messages == [from : Producers, n : 0 .. MaxMessages]

Q == INSTANCE ConcurrentQueue WITH
        Threads <- Producers \cup {LoopThread},
        Items <- Messages,
        MaxLen <- MaxMessages * Cardinality(Producers)

Init ==
    /\ Q!Init
    /\ sent = [p \in Producers |-> 0]
    /\ owes = {}
    /\ pipe = 0
    /\ loop = "epoll_wait"
    /\ yields = 0
    /\ received = [p \in Producers |-> <<>>]
    /\ S!SignalInit

(* pipe_.write("1", 1): a full pipe takes nothing, and nobody looks. *)
pipeWrite == pipe' = IF pipe < PipeSize THEN pipe + 1 ELSE pipe

----------------------------------------------------------------------------
Push(p) ==
    /\ p \notin owes
    /\ sent[p] < MaxMessages
    /\ Q!CallPush(p, [from |-> p, n |-> sent[p] + 1])
    /\ sent' = [sent EXCEPT ![p] = @ + 1]
    /\ UNCHANGED <<owes, pipe, loop, yields, received, signalVars>>

(* queue_.push(item) *)
PushItem(p) ==
    /\ \/ Q!PushWaits(p) /\ UNCHANGED owes
       \/ Q!push(p) /\ owes' = owes \cup {p}
    /\ UNCHANGED <<sent, pipe, loop, yields, received, signalVars>>

(* Faulty variant: only the first message of a batch is announced, by a    *)
(* size that is read after the push.                                       *)
PushByte_OnlyFirst(p) ==
    /\ p \in owes
    /\ owes' = owes \ {p}
    /\ IF Len(queue) = 1 THEN pipeWrite ELSE UNCHANGED pipe
    /\ UNCHANGED <<queue, pc, item, sent, loop, yields, received, signalVars>>

(* pipe_.write("1", 1) *)
PushByte(p) ==
    /\ p \in owes
    /\ owes' = owes \ {p}
    /\ pipeWrite
    /\ UNCHANGED <<queue, pc, item, sent, loop, yields, received, signalVars>>

SpuriousWakeup(p) ==
    /\ Q!SpuriousWakeup(p)
    /\ UNCHANGED <<sent, owes, pipe, loop, yields, received, signalVars>>

yield ==
    /\ yields < MaxYields
    /\ yields' = yields + 1
    /\ pipeWrite
    /\ UNCHANGED <<queue, pc, item, sent, owes, loop, received, signalVars>>

(* epoll is level-triggered: it reports the pipe while it holds a byte. *)
EpollWait ==
    /\ loop = "epoll_wait"
    /\ pipe > 0
    /\ loop' = "read"
    /\ UNCHANGED <<queue, pc, item, sent, owes, pipe, yields, received, signalVars>>

ReadPipe ==
    /\ loop = "read"
    /\ pipe > 0
    /\ pipe' = IF pipe > ReadSize THEN pipe - ReadSize ELSE 0
    /\ UNCHANGED <<queue, pc, item, sent, owes, loop, yields, received, signalVars>>

(* A read that finds nothing ends the loop; the callback is called. *)
CallRecv ==
    /\ loop = "read"
    /\ pipe = 0
    /\ loop' = "recv_message_cb"
    /\ UNCHANGED <<queue, pc, item, sent, owes, pipe, yields, received, signalVars>>

Pop ==
    /\ loop \in {"recv_message_cb", "popped"}
    /\ Q!popIfNotEmpty(LoopThread)
    /\ received' = [received EXCEPT ![Head(queue).from] = Append(@, Head(queue).n)]
    /\ loop' = "popped"
    /\ UNCHANGED <<sent, owes, pipe, yields, signalVars>>

(* Faulty variant: the pipe is emptied when the callback has returned. *)
RecvReturns_EmptiesPipe ==
    /\ \/ loop \in {"recv_message_cb", "popped"} /\ queue = <<>>
       \/ loop = "popped"
    /\ pipe' = 0
    /\ loop' = "epoll_wait"
    /\ UNCHANGED <<queue, pc, item, sent, owes, yields, received, signalVars>>

(* The callback returns when pop has returned false, or when it has popped *)
(* something and called yield.                                             *)
RecvReturns ==
    /\ \/ /\ loop \in {"recv_message_cb", "popped"}
          /\ queue = <<>>
          /\ UNCHANGED pipe
       \/ /\ loop = "popped"
          /\ pipeWrite
    /\ loop' = "epoll_wait"
    /\ UNCHANGED <<queue, pc, item, sent, owes, yields, received, signalVars>>

----------------------------------------------------------------------------
(* A signal interrupts whatever runs. *)
Signal == S!pushSignal /\ UNCHANGED <<messageVars, loop>>

EpollSignal ==
    /\ loop = "epoll_wait"
    /\ signal_pipe # <<>>
    /\ loop' = "signal"
    /\ UNCHANGED <<messageVars, signalVars>>

ReadSignal ==
    /\ loop = "signal"
    /\ S!ReadSignal
    /\ UNCHANGED <<messageVars, loop>>

NoMoreSignals ==
    /\ loop = "signal"
    /\ signal_pipe = <<>>
    /\ loop' = "epoll_wait"
    /\ UNCHANGED <<messageVars, signalVars>>

----------------------------------------------------------------------------
Producer(p) == PushItem(p) \/ PushByte(p)

Loop ==
    \/ EpollWait \/ ReadPipe \/ CallRecv \/ RecvReturns \/ Pop
    \/ EpollSignal \/ ReadSignal \/ NoMoreSignals

Next ==
    \/ \E p \in Producers : Push(p) \/ Producer(p) \/ SpuriousWakeup(p)
    \/ yield
    \/ Signal
    \/ Loop

Spec == Init /\ [][Next]_vars

(* Threads that have something to do do it; spurious wakeups and outside   *)
(* calls of yield need not happen.                                         *)
FairSpec ==
    /\ Spec
    /\ WF_vars(Loop)
    /\ \A p \in Producers : WF_vars(Producer(p))

----------------------------------------------------------------------------
(* The variables have their types; nobody waits on not_empty_cond_, so the *)
(* loop's thread never blocks in the queue ("never block", pop), and a     *)
(* producer that owes its byte has left the queue.                         *)
TypeOK ==
    /\ Q!TypeOK
    /\ pc[LoopThread] = "idle"
    /\ \A p \in owes : pc[p] = "idle"
    /\ sent \in [Producers -> 0 .. MaxMessages]
    /\ owes \subseteq Producers
    /\ pipe \in 0 .. PipeSize
    /\ loop \in {"epoll_wait", "read", "recv_message_cb", "popped", "signal"}
    /\ yields \in 0 .. MaxYields
    /\ received \in [Producers -> Seq(0 .. MaxMessages)]

(* While a message is in the queue, the loop is on its way to the receive  *)
(* callback, or a byte in the pipe will get it there, or a producer is     *)
(* about to write that byte: a full pipe loses bytes, never a wake-up.     *)
NoMessageForgotten ==
    queue # <<>> =>
        loop \notin {"epoll_wait", "signal"} \/ pipe > 0 \/ owes # {}

(* The loop receives the messages of a producer in the order of its        *)
(* pushes, none twice and none skipped, though waiting producers are woken *)
(* in any order.                                                           *)
ReceivedInOrder ==
    \A p \in Producers : \A k \in 1 .. Len(received[p]) : received[p][k] = k

(* Every message given to push is received, whether push had to wait for   *)
(* room or not.                                                            *)
Delivered ==
    \A p \in Producers : \A n \in 1 .. MaxMessages :
        sent[p] >= n ~> \E k \in 1 .. Len(received[p]) : received[p][k] = n

(* Every signal the pipe had room for is handled, in the order in which    *)
(* they were raised, though the loop may be in the middle of messages, or  *)
(* of signals, when it comes.                                              *)
SignalsHandled ==
    \A n \in 1 .. MaxSignals :
        Len(kept) >= n ~> Len(handled) >= n /\ handled[n] = kept[n]
=============================================================================
