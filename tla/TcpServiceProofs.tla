-------------------------- MODULE TcpServiceProofs --------------------------
(***************************************************************************)
(* Proofs about TcpService, for every number of addresses, sockets and     *)
(* timers: the invariants, which are inductive together (IInv), and from   *)
(* them that the service implements SocketLifecycle, with what the         *)
(* application is being told of besides (LifeInv).                         *)
(***************************************************************************)
EXTENDS TcpService, TLAPS

(* The thread is at label l, or will be when the running callback of the
   application returns. *)
Inside(l) == pc = l \/ (pc = "app" /\ frame.ret = l)

(* A callback returns to one of the places that call the application. *)
FrameReturns ==
    pc = "app" => frame.ret \in {"dispatch", "afterRecv", "timers", "loop",
                                 "onListenSocketRead"}

(* An event of the batch whose device was not removed is about the device
   that lives at its address now, and has a callback for each of its bits. *)
BatchIsCurrent ==
    \A a \in Addr : ev[a] # {} /\ a \notin removed =>
        /\ a \in attached
        /\ ev_id[a] # 0
        /\ device_id[a] = ev_id[a]
        /\ "out" \in ev[a] => write_cb[a] # "null"
        /\ "in" \in ev[a] => read_cb[a] # "null"

(* removed_io_devices_ is cleared only when no event is left. *)
BatchIsDone ==
    Inside("loop") \/ Inside("timers") => \A a \in Addr : ev[a] = {}

(* The device whose handler runs lives, also across the new connection
   callback of a listening socket. *)
HandlerDevice ==
    pc \in Handlers \cup {"null"} \/ Inside("onListenSocketRead") =>
        /\ pc # "null"
        /\ io_device \in Addr
        /\ device_id[io_device] # 0
        /\ device_id[io_device] = ev_id[io_device]

(* A write handler runs once per event, and is the installed one. *)
WriteHandler ==
    pc \in WriteCallbacks =>
        /\ "out" \notin ev[io_device]
        /\ write_cb[io_device] = pc
        /\ io_device \in attached

(* The id that onSocketRead keeps over the message callback. *)
RecvKeepsId ==
    Inside("afterRecv") => io_device \in Addr /\ ev_id[io_device] # 0

(* Ids that were not given out yet are not used. *)
FreshIds ==
    /\ \A i \in Ids : i >= next_id => sockets[i] = NULL /\ status[i] = "NONE"
                                      /\ i \notin unsent /\ send_cb[i] = "null"
                                      /\ s2t[i] = 0
    /\ \A t \in Tids : t >= next_tid => timers[t] = "none" /\ t2s[t] = 0

(* A running timer of a connection that is still CONNECTING is its connect
   timer. *)
ConnectTimer ==
    \A i \in Ids : s2t[i] # 0 /\ status[i] = "CONNECTING" =>
        timers[s2t[i]] = "onAsyncConnectTimeout"

(* onSocketWrite is installed exactly while bytes wait. *)
SendCallback ==
    \A i \in Ids :
        /\ InMap(i) => (write_cb[sockets[i]] = "onSocketWrite" <=> i \in unsent)
        /\ send_cb[i] # "null" => i \in unsent
        /\ i \in unsent => InMap(i)

(* A device that is neither watched nor was refused is that of a connect that
   timed out: no bytes wait for it and none can come. *)
Attachment ==
    /\ \A i \in Ids : InMap(i) /\ sockets[i] \notin attached \cup refused =>
           status[i] # "CONNECTED" /\ i \notin unsent
    /\ \A t \in Tids : timers[t] = "onAsyncConnectTimeout" /\ InMap(t2s[t]) =>
           write_cb[sockets[t2s[t]]] = "onAsyncConnectSocketWrite"

LoopInv ==
    /\ FrameReturns
    /\ BatchIsCurrent
    /\ BatchIsDone
    /\ HandlerDevice
    /\ WriteHandler
    /\ RecvKeepsId

MapInv ==
    /\ MapsAgree
    /\ FreshIds
    /\ TimerMapsAgree
    /\ NoTimerOnConnected
    /\ ConnectTimer
    /\ SendCallback
    /\ Attachment

IInv == TypeOK /\ LoopInv /\ MapInv

USE AddrAssumption, DevicesAssumption, TimersAssumption, EpollAssumption
USE DEF Ids, Tids, InMap, Inside, deviceVars, batchVars, timerVars, connVars, mapVars

-----------------------------------------------------------------------------
(* What a handler knows: its device lives and is owned by sockets_[sid]. *)
LEMMA HandlerId ==
    ASSUME IInv, pc \in Handlers
    PROVE  /\ io_device \in Addr
           /\ sid \in Ids
           /\ sid = ev_id[io_device]
           /\ sockets[sid] = io_device
           /\ InMap(sid)
BY DEF IInv, TypeOK, IOTypeOK, LoopInv, HandlerDevice, MapInv, MapsAgree, sid

(* The maps, the devices and the timers as the map invariant sees them. *)
mapInvVars == <<device_id, write_cb, attached, refused, sockets, status, unsent, send_cb,
                contexts, s2t, t2s, timers, next_id, next_tid>>

(* A step that leaves the maps and the devices alone keeps MapInv. *)
LEMMA MapInvUnchanged ==
    ASSUME MapInv, UNCHANGED mapInvVars
    PROVE  MapInv'
BY DEF mapInvVars, MapInv, MapsAgree, FreshIds, TimerMapsAgree, NoTimerOnConnected,
       ConnectTimer, SendCallback, Attachment

(* Steps of the loop. *)

(* A batch is taken with no device removed, so every entry is live. *)
LEMMA EpollWaitStep ==
    ASSUME IInv, EpollWait, UNCHANGED tcpVars
    PROVE  IInv'
<1> USE DEF IInv, EpollWait, tcpVars
<1>1. TypeOK'
  BY DEF TypeOK, IOTypeOK, Labels
<1>2. LoopInv'
  <2>1. BatchIsCurrent'
    <3>1. PICK batch \in [Addr -> SUBSET Bits] :
            /\ \A a \in Addr : \A bit \in batch[a] : Watches(a, bit)
            /\ ev' = batch
            /\ ev_id' = [a \in Addr |-> IF batch[a] = {} THEN 0 ELSE device_id[a]]
      OBVIOUS
    <3>2. \A a \in Addr : ev'[a] # {} =>
             /\ a \in attached
             /\ "out" \in ev'[a] => write_cb[a] # "null"
             /\ "in" \in ev'[a] => read_cb[a] # "null"
      BY <3>1 DEF Watches, Interest
    <3>3. \A a \in Addr : a \in attached => device_id[a] # 0
      BY DEF MapInv, MapsAgree
    <3>4. \A a \in Addr : ev'[a] # {} => ev_id'[a] = device_id[a]
      BY <3>1
    <3> QED BY <3>2, <3>3, <3>4 DEF BatchIsCurrent
  <2>2. (FrameReturns /\ BatchIsDone /\ HandlerDevice /\ WriteHandler /\ RecvKeepsId)'
    BY DEF FrameReturns, BatchIsDone, HandlerDevice, WriteHandler, RecvKeepsId,
           Handlers, ReadCallbacks, WriteCallbacks
  <2> QED BY <2>1, <2>2 DEF LoopInv
<1>3. MapInv'
  BY MapInvUnchanged DEF mapInvVars
<1> QED BY <1>1, <1>2, <1>3

(* Dispatch reads a device only after checkIODeviceExist. *)
LEMMA DispatchStep ==
    ASSUME IInv, NEW a \in Addr, Dispatch(a), UNCHANGED tcpVars
    PROVE  IInv'
<1> USE DEF IInv, TypeOK, IOTypeOK, LoopInv, Dispatch, checkIODeviceExist, tcpVars
<1>1. MapInv'
  BY MapInvUnchanged DEF mapInvVars
<1>2. CASE a \in removed
  <2>1. TypeOK'
    BY <1>2
  <2>2. LoopInv'
    BY <1>2, ZenonT(40) DEF FrameReturns, BatchIsCurrent, BatchIsDone, HandlerDevice, WriteHandler,
                RecvKeepsId, Handlers, ReadCallbacks, WriteCallbacks
  <2> QED BY <1>1, <2>1, <2>2
<1>3. CASE a \notin removed
  <2>0. Stage(a) \in ev[a] /\ Stage(a) \in Bits
    <3>1. ev[a] \subseteq Bits /\ ev[a] # {}
      OBVIOUS
    <3>2. PICK b \in Bits : b \in ev[a]
      BY <3>1
    <3>3. "out" \in ev[a] \/ "in" \in ev[a] \/ "err" \in ev[a]
      BY <3>2 DEF Bits
    <3> QED BY <3>3 DEF Stage, Bits
  <2>1. /\ Stage(a) = "out" => pc' = write_cb[a] /\ write_cb[a] \in WriteCallbacks
        /\ Stage(a) = "in" => pc' = read_cb[a] /\ read_cb[a] \in ReadCallbacks
        /\ Stage(a) = "err" => pc' = "onSocketError"
    <3>1. pc' = Callback(a, Stage(a))
      BY <1>3
    <3>2. /\ Stage(a) = "out" => write_cb[a] # "null"
          /\ Stage(a) = "in" => read_cb[a] # "null"
      BY <1>3, <2>0 DEF BatchIsCurrent
    <3> QED BY <3>1, <3>2 DEF Callback
  <2>2. pc' \in Handlers /\ (pc' \in WriteCallbacks => Stage(a) = "out")
    BY <2>0, <2>1 DEF Handlers, Bits, ReadCallbacks, WriteCallbacks
  <2>3. ev' = [ev EXCEPT ![a] = @ \ {Stage(a)}] /\ io_device' = a
    BY <1>3
  <2>4. TypeOK'
    BY <2>2, <2>3 DEF Labels
  <2>5. BatchIsCurrent'
    BY <1>3, <2>3 DEF BatchIsCurrent
  <2>6. WriteHandler'
    BY <1>3, <2>1, <2>2, <2>3 DEF WriteHandler, BatchIsCurrent
  <2>7. HandlerDevice'
    BY <1>3, <2>2 DEF HandlerDevice, BatchIsCurrent, Handlers, ReadCallbacks, WriteCallbacks
  <2>8. (FrameReturns /\ BatchIsDone /\ RecvKeepsId)'
    BY <2>2 DEF FrameReturns, BatchIsDone, RecvKeepsId, Handlers, ReadCallbacks, WriteCallbacks
  <2> QED BY <1>1, <2>4, <2>5, <2>6, <2>7, <2>8
<1> QED BY <1>2, <1>3

(* The other steps that leave maps, devices and timers alone. *)

(* The batch is empty, so removed_io_devices_ may be cleared. *)
LEMMA EndDispatchStep ==
    ASSUME IInv, EndDispatch("timers"), UNCHANGED tcpVars
    PROVE  IInv'
<1> USE DEF IInv, EndDispatch, tcpVars
<1>1. TypeOK'
  BY DEF TypeOK, IOTypeOK, Labels
<1>2. LoopInv'
  BY DEF TypeOK, IOTypeOK, LoopInv, FrameReturns, BatchIsCurrent, BatchIsDone, HandlerDevice, WriteHandler,
         RecvKeepsId, Handlers, ReadCallbacks, WriteCallbacks
<1>3. MapInv'
  BY MapInvUnchanged DEF mapInvVars
<1> QED BY <1>1, <1>2, <1>3

(* A timer of the application is unknown to the service. *)
LEMMA AppTimerStep ==
    ASSUME IInv, AppTimer
    PROVE  IInv'
<1> USE DEF IInv, AppTimer, EndDispatch
<1>1. TypeOK'
  BY DEF TypeOK, IOTypeOK, Labels, Frames, AppCalls
<1>2. LoopInv'
  BY DEF TypeOK, IOTypeOK, LoopInv, FrameReturns, BatchIsCurrent, BatchIsDone, HandlerDevice, WriteHandler,
         RecvKeepsId, Handlers, ReadCallbacks, WriteCallbacks
<1>3. MapInv'
  BY MapInvUnchanged DEF mapInvVars
<1> QED BY <1>1, <1>2, <1>3

(* checkTimeout ends with the loop back at epoll_wait. *)
LEMMA EndTimersStep ==
    ASSUME IInv, EndTimers, UNCHANGED tcpVars
    PROVE  IInv'
<1> USE DEF IInv, EndTimers, tcpVars
<1>1. TypeOK'
  BY DEF TypeOK, IOTypeOK, Labels
<1>2. LoopInv'
  BY DEF TypeOK, IOTypeOK, LoopInv, FrameReturns, BatchIsCurrent, BatchIsDone, HandlerDevice, WriteHandler,
         RecvKeepsId, Handlers, ReadCallbacks, WriteCallbacks
<1>3. MapInv'
  BY MapInvUnchanged DEF mapInvVars
<1> QED BY <1>1, <1>2, <1>3

(* A loop that quits has no handler running. *)
LEMMA LeaveLoopStep ==
    ASSUME IInv, LeaveLoop
    PROVE  IInv'
<1> USE DEF IInv, LeaveLoop, CallApp
<1>1. TypeOK'
  BY DEF TypeOK, IOTypeOK, Labels, Frames, AppCalls
<1>2. LoopInv'
  BY DEF TypeOK, IOTypeOK, LoopInv, FrameReturns, BatchIsCurrent, BatchIsDone, HandlerDevice, WriteHandler,
         RecvKeepsId, Handlers, ReadCallbacks, WriteCallbacks
<1>3. MapInv'
  BY MapInvUnchanged DEF mapInvVars
<1> QED BY <1>1, <1>2, <1>3

(* accept() that finds nothing only ends the handler. *)
LEMMA AcceptNoneStep ==
    ASSUME IInv, AcceptNone
    PROVE  IInv'
<1> USE DEF IInv, AcceptNone, Done
<1>1. TypeOK'
  BY DEF TypeOK, IOTypeOK, Labels
<1>2. LoopInv'
  BY DEF TypeOK, IOTypeOK, LoopInv, FrameReturns, BatchIsCurrent, BatchIsDone, HandlerDevice, WriteHandler,
         RecvKeepsId, Handlers, ReadCallbacks, WriteCallbacks
<1>3. MapInv'
  BY MapInvUnchanged DEF mapInvVars
<1> QED BY <1>1, <1>2, <1>3

(* recv() that finds nothing only ends the handler. *)
LEMMA RecvNothingStep ==
    ASSUME IInv, RecvNothing
    PROVE  IInv'
<1> USE DEF IInv, RecvNothing, Done
<1>1. TypeOK'
  BY DEF TypeOK, IOTypeOK, Labels
<1>2. LoopInv'
  BY DEF TypeOK, IOTypeOK, LoopInv, FrameReturns, BatchIsCurrent, BatchIsDone, HandlerDevice, WriteHandler,
         RecvKeepsId, Handlers, ReadCallbacks, WriteCallbacks
<1>3. MapInv'
  BY MapInvUnchanged DEF mapInvVars
<1> QED BY <1>1, <1>2, <1>3

(* A partial send() leaves the interest in EPOLLOUT. *)
LEMMA WritePartialStep ==
    ASSUME IInv, WritePartial
    PROVE  IInv'
<1> USE DEF IInv, WritePartial, Done
<1>1. TypeOK'
  BY DEF TypeOK, IOTypeOK, Labels
<1>2. LoopInv'
  BY DEF TypeOK, IOTypeOK, LoopInv, FrameReturns, BatchIsCurrent, BatchIsDone, HandlerDevice, WriteHandler,
         RecvKeepsId, Handlers, ReadCallbacks, WriteCallbacks
<1>3. MapInv'
  BY MapInvUnchanged DEF mapInvVars
<1> QED BY <1>1, <1>2, <1>3

(* quit() only sets the flag. *)
LEMMA QuitStep ==
    ASSUME IInv, Quit
    PROVE  IInv'
<1> USE DEF IInv, Quit, InApp
<1>1. TypeOK'
  BY DEF TypeOK, IOTypeOK, Labels
<1>2. LoopInv'
  BY DEF TypeOK, IOTypeOK, LoopInv, FrameReturns, BatchIsCurrent, BatchIsDone, HandlerDevice, WriteHandler,
         RecvKeepsId, Handlers, ReadCallbacks, WriteCallbacks
<1>3. MapInv'
  BY MapInvUnchanged DEF mapInvVars
<1> QED BY <1>1, <1>2, <1>3

(* A callback that returns leaves the handler to go on. *)
LEMMA ReturnStep ==
    ASSUME IInv, Return
    PROVE  IInv'
<1> USE DEF IInv, Return, NoFrame
<1>1. TypeOK'
  BY DEF TypeOK, IOTypeOK, Labels, Frames, AppCalls
<1>2. LoopInv'
  BY DEF TypeOK, IOTypeOK, LoopInv, FrameReturns, BatchIsCurrent, BatchIsDone, HandlerDevice, WriteHandler,
         RecvKeepsId, Handlers, ReadCallbacks, WriteCallbacks
<1>3. MapInv'
  BY MapInvUnchanged DEF mapInvVars
<1> QED BY <1>1, <1>2, <1>3

(* recv_message_cb is told of the socket whose data was read. *)
LEMMA RecvDataStep ==
    ASSUME IInv, NEW peer_close \in BOOLEAN, RecvData(peer_close)
    PROVE  IInv'
<1> USE DEF IInv, RecvData, CallApp
<1>0. sid \in Ids /\ io_device \in Addr /\ sid = ev_id[io_device]
  BY HandlerId DEF Handlers, ReadCallbacks
<1>1. TypeOK'
  BY <1>0 DEF TypeOK, IOTypeOK, Labels, Frames, AppCalls
<1>2. LoopInv'
  BY <1>0 DEF TypeOK, IOTypeOK, LoopInv, FrameReturns, BatchIsCurrent, BatchIsDone, HandlerDevice, WriteHandler,
         RecvKeepsId, Handlers, ReadCallbacks, WriteCallbacks
<1>3. MapInv'
  BY MapInvUnchanged DEF mapInvVars
<1> QED BY <1>1, <1>2, <1>3

(* Steps that mark connection i as failed and tell the application: recv and
   send errors, EPOLLERR, a peer that closed. *)
LEMMA StatusStep ==
    ASSUME IInv, pc \in Handlers \cup {"afterRecv"},
           NEW i \in Ids, status[i] # "NONE",
           NEW st \in {"PENDING_ERROR", "PEER_CLOSED"},
           status' = [status EXCEPT ![i] = st],
           NEW cb \in AppCalls, CallApp(cb, i, "dispatch"),
           UNCHANGED <<quit, deviceVars, batchVars, removed, timerVars,
                       sockets, unsent, send_cb, contexts, mapVars, next_id>>
    PROVE  IInv'
<1> USE DEF IInv, CallApp, TypeOK, IOTypeOK
<1>1. TypeOK'
  BY DEF Labels, Frames, Statuses
<1>2. LoopInv'
  BY DEF LoopInv, FrameReturns, BatchIsCurrent, BatchIsDone, HandlerDevice, WriteHandler,
         RecvKeepsId, Handlers, ReadCallbacks, WriteCallbacks
<1>3. MapInv'
  BY DEF MapInv, MapsAgree, FreshIds, TimerMapsAgree, NoTimerOnConnected,
         ConnectTimer, SendCallback, Attachment
<1> QED BY <1>1, <1>2, <1>3

(* A failure read from a socket marks it and tells the application. *)
LEMMA FailStep ==
    ASSUME IInv, RecvFailed \/ WriteFailed \/ SocketError \/ RecvPeerClosed
    PROVE  IInv'
<1>1. pc \in Handlers /\ status[sid] # "NONE"
  BY DEF RecvFailed, WriteFailed, SocketError, RecvPeerClosed, Handlers,
         ReadCallbacks, WriteCallbacks
<1>2. sid \in Ids
  BY <1>1, HandlerId
<1> QED
  BY <1>1, <1>2, StatusStep
  DEF RecvFailed, WriteFailed, SocketError, RecvPeerClosed, PeerClosed, setError, AppCalls

(* The handler looks its socket up again after recv_message_cb. *)
LEMMA AfterRecvStep ==
    ASSUME IInv, AfterRecv
    PROVE  IInv'
<1>1. ev_id[io_device] \in Ids
  BY DEF IInv, TypeOK, IOTypeOK, LoopInv, RecvKeepsId, AfterRecv
<1>2. CASE StillConnected(ev_id[io_device])
  BY <1>1, <1>2, StatusStep DEF AfterRecv, StillConnected, PeerClosed, AppCalls
<1>3. CASE ~StillConnected(ev_id[io_device])
  <2> USE DEF IInv, AfterRecv, Done
  <2>1. TypeOK'
    BY <1>3 DEF TypeOK, IOTypeOK, Labels
  <2>2. LoopInv'
    BY <1>3 DEF TypeOK, IOTypeOK, LoopInv, FrameReturns, BatchIsCurrent, BatchIsDone, HandlerDevice, WriteHandler,
         RecvKeepsId, Handlers, ReadCallbacks, WriteCallbacks
  <2>3. MapInv'
    BY <1>3, MapInvUnchanged DEF mapInvVars
  <2> QED BY <2>1, <2>2, <2>3
<1> QED BY <1>2, <1>3

(* Steps that build a socket at a free address, with or without a timer.  The
   thread is in the application or in the accept loop. *)
LEMMA InsertStep ==
    ASSUME IInv, NEW a \in Addr,
           NEW rd \in ReadCallbacks \cup {"null"},
           NEW wr \in {"onAsyncConnectSocketWrite", "null"},
           NEW st \in {"NONE", "CONNECTED", "CONNECTING"},
           InsertSocket(a, rd, wr, st),
           \/ UNCHANGED <<timerVars, mapVars>>
           \/ /\ st = "CONNECTING" /\ wr = "onAsyncConnectSocketWrite"
              /\ addSocketTimer(next_id, "onAsyncConnectTimeout"),
           \/ pc = "app" /\ UNCHANGED <<pc, frame>>
           \/ /\ pc = "onListenSocketRead"
              /\ CallApp("new_conn_cb", next_id, "onListenSocketRead"),
           UNCHANGED <<quit, batchVars>>
    PROVE  IInv'
<1> USE DEF IInv, TypeOK, IOTypeOK, InsertSocket, attachIOService, addSocketTimer,
            startTimer, CallApp
<1>1. TypeOK'
  <2>1. pc' \in Labels /\ frame' \in Frames
    BY DEF Frames, AppCalls, Labels, Handlers, ReadCallbacks
  <2>2. /\ timers' \in [Tids -> TimerCallbacks \cup {"none"}]
        /\ next_tid' \in 1 .. MaxTimers + 1
        /\ s2t' \in [Ids -> Tids \cup {0}]
        /\ t2s' \in [Tids -> Ids \cup {0}]
    <3>1. CASE UNCHANGED <<timerVars, mapVars>>
      BY <3>1
    <3>2. CASE addSocketTimer(next_id, "onAsyncConnectTimeout")
      BY <3>2 DEF TimerCallbacks
    <3> QED BY <3>1, <3>2
  <2>3. /\ device_id' \in [Addr -> Ids \cup {0}]
        /\ read_cb' \in [Addr -> ReadCallbacks \cup {"null"}]
        /\ write_cb' \in [Addr -> WriteCallbacks \cup {"null"}]
        /\ attached' \in SUBSET Addr
        /\ refused' \in SUBSET Addr
    BY DEF WriteCallbacks
  <2>4. /\ sockets' \in [Ids -> Addr \cup {NULL}]
        /\ status' \in [Ids -> Statuses]
        /\ next_id' \in 1 .. MaxDevices + 1
    BY DEF Statuses
  <2> QED BY <2>1, <2>2, <2>3, <2>4
<1>2. LoopInv'
  BY DEF LoopInv, FrameReturns, BatchIsCurrent, BatchIsDone, HandlerDevice, WriteHandler,
         RecvKeepsId, Handlers, ReadCallbacks, WriteCallbacks
<1>3. MapInv'
  <2> USE DEF MapInv, FreshIds
  <2>1. MapsAgree'
    BY DEF MapsAgree
  <2>2. FreshIds'
    OBVIOUS
  <2>3. TimerMapsAgree'
    BY SMTT(30) DEF TimerMapsAgree
  <2>4. (NoTimerOnConnected /\ ConnectTimer)'
    BY DEF NoTimerOnConnected, ConnectTimer, TimerMapsAgree
  <2>5. SendCallback'
    BY DEF SendCallback, MapsAgree
  <2>6. Attachment'
    <3>1. next_id \in Ids /\ sockets' = [sockets EXCEPT ![next_id] = a]
      OBVIOUS
    <3>2. \A i \in Ids : i # next_id /\ InMap(i) => sockets[i] # a /\ sockets[i] \in Addr
      BY DEF MapsAgree
    <3>3. /\ a \in attached' \cup refused'
          /\ attached \subseteq attached' /\ refused \subseteq refused'
          /\ attached' \subseteq attached \cup {a} /\ refused' \subseteq refused \cup {a}
      OBVIOUS
    <3>4. \A i \in Ids : InMap(i)' /\ sockets'[i] \notin attached' \cup refused' =>
             status'[i] # "CONNECTED" /\ i \notin unsent'
      BY <3>1, <3>2, <3>3 DEF Attachment
    <3>5. \A t \in Tids : timers[t] # "none" => t2s[t] # next_id /\ t2s[t] \in Ids
      BY DEF TimerMapsAgree
    <3>6. \A t \in Tids : timers'[t] = "onAsyncConnectTimeout" /\ InMap(t2s[t])' =>
             write_cb'[sockets'[t2s'[t]]] = "onAsyncConnectSocketWrite"
      <4>1. CASE UNCHANGED <<timerVars, mapVars>>
        BY <3>1, <3>2, <3>5, <4>1 DEF Attachment
      <4>2. CASE st = "CONNECTING" /\ wr = "onAsyncConnectSocketWrite"
                 /\ addSocketTimer(next_id, "onAsyncConnectTimeout")
        BY <3>1, <3>2, <3>5, <4>2 DEF Attachment
      <4> QED BY <4>1, <4>2
    <3> QED BY <3>4, <3>6 DEF Attachment
  <2> QED BY <2>1, <2>2, <2>3, <2>4, <2>5, <2>6
<1> QED BY <1>1, <1>2, <1>3

(* A new socket has an id and an address nobody uses. *)
LEMMA BuildStep ==
    ASSUME IInv, NEW a \in Addr, NEW timeout \in BOOLEAN,
           Accept(a) \/ Listen(a) \/ Connect(a) \/ AsyncConnect(a, timeout)
    PROVE  IInv'
<1>1. CASE Accept(a)
  BY <1>1, InsertStep DEF Accept, buildConnectedSocket, ReadCallbacks
<1>2. CASE Listen(a)
  BY <1>2, InsertStep DEF Listen, InApp, buildListenSocket, ReadCallbacks
<1>3. CASE Connect(a)
  BY <1>3, InsertStep DEF Connect, InApp, buildConnectedSocket, ReadCallbacks
<1>4. CASE AsyncConnect(a, timeout)
  BY <1>4, InsertStep DEF AsyncConnect, InApp, buildAsyncConnectSocket, ReadCallbacks
<1> QED BY <1>1, <1>2, <1>3, <1>4

(* Steps that delete a socket and all that belongs to it. *)
LEMMA CloseStep ==
    ASSUME IInv, NEW i \in Ids, InMap(i), closeSocket(i),
           \/ pc = "app" /\ MayClose(i) /\ UNCHANGED <<pc, frame>>
           \/ pc = "onSocketWrite" /\ i = sid /\ Done,
           UNCHANGED <<quit, batchVars, timerVars, mapVars, next_id>>
    PROVE  IInv'
<1> USE DEF IInv, TypeOK, IOTypeOK, closeSocket, deleteDevice, detachIOService, Done
<1>1. TypeOK'
  BY DEF Statuses, SendCompletes, Labels
<1>2. sockets[i] \in Addr /\ device_id[sockets[i]] = i
  BY DEF MapInv, MapsAgree
<1>3. LoopInv'
  BY <1>2 DEF MayClose, LoopInv, FrameReturns, BatchIsCurrent, BatchIsDone, HandlerDevice, WriteHandler,
         RecvKeepsId, Handlers, ReadCallbacks, WriteCallbacks
<1>4. MapInv'
  BY <1>2 DEF MapInv, MapsAgree, FreshIds, TimerMapsAgree, NoTimerOnConnected, ConnectTimer,
         SendCallback, Attachment
<1> QED BY <1>1, <1>3, <1>4

(* closeSocket removes the socket from all three maps. *)
LEMMA CloseSocketStep ==
    ASSUME IInv, NEW i \in Ids, CloseSocket(i) \/ SendAllThenClose(i)
    PROVE  IInv'
<1>1. InMap(i)
  BY DEF IInv, MapInv, MapsAgree, CloseSocket, SendAllThenClose
<1> QED BY <1>1, CloseStep DEF CloseSocket, SendAllThenClose, InApp

(* The interest in EPOLLOUT ends with the last byte. *)
LEMMA WriteAllStep ==
    ASSUME IInv, WriteAll
    PROVE  IInv'
<1>1. sid \in Ids /\ io_device \in Addr /\ sockets[sid] = io_device /\ InMap(sid)
  BY HandlerId DEF WriteAll, Handlers, WriteCallbacks
<1>2. CASE send_cb[sid] = "sendCompleteCloseCallback"
  BY <1>1, <1>2, CloseStep DEF WriteAll
<1>3. CASE send_cb[sid] # "sendCompleteCloseCallback"
  <2>a. pc = "onSocketWrite"
    BY DEF WriteAll
  <2>b. /\ write_cb' = [write_cb EXCEPT ![io_device] = "null"]
        /\ unsent' = unsent \ {sid}
        /\ send_cb' = [send_cb EXCEPT ![sid] = "null"]
        /\ UNCHANGED <<device_id, read_cb, attached, refused, removed, sockets, status,
                       contexts, quit, batchVars, timerVars, mapVars, next_id>>
    BY <1>3 DEF WriteAll, setWriteCallback
  <2>c. \/ pc' = "dispatch" /\ frame' = frame
        \/ pc' = "app" /\ frame' = [cb |-> "send_complete_cb", id |-> sid, ret |-> "dispatch"]
    BY <1>3 DEF WriteAll, CallApp, Done
  <2> USE DEF IInv, TypeOK, IOTypeOK
  <2>1. TypeOK'
    <3>1. pc' \in Labels /\ frame' \in Frames
      BY <1>1, <2>c DEF Labels, Frames, AppCalls
    <3> QED BY <1>1, <2>b, <3>1 DEF SendCompletes
  <2>2. LoopInv'
    BY <1>1, <2>a, <2>b, <2>c DEF LoopInv, FrameReturns, BatchIsCurrent, BatchIsDone, HandlerDevice, WriteHandler,
           RecvKeepsId, Handlers, ReadCallbacks, WriteCallbacks
  <2>3. MapInv'
    <3>1. (MapsAgree /\ FreshIds /\ TimerMapsAgree /\ NoTimerOnConnected /\ ConnectTimer)'
      BY <1>1, <2>b DEF MapInv, MapsAgree, FreshIds, TimerMapsAgree, NoTimerOnConnected, ConnectTimer
    <3>2. \A a \in Addr : a # io_device => write_cb'[a] = write_cb[a]
      BY <1>1, <2>b
    <3>3. \A j \in Ids : InMap(j) /\ j # sid => sockets[j] # io_device /\ sockets[j] \in Addr
      BY <1>1 DEF MapInv, MapsAgree
    <3>4. write_cb[io_device] = "onSocketWrite" /\ write_cb'[io_device] = "null"
      BY <1>1, <2>a, <2>b DEF LoopInv, WriteHandler, WriteCallbacks
    <3>5. SendCallback'
      BY <1>1, <2>b, <3>2, <3>3, <3>4 DEF MapInv, SendCallback
    <3>6. Attachment'
      BY <1>1, <2>b, <3>2, <3>3, <3>4 DEF MapInv, Attachment
    <3> QED BY <3>1, <3>5, <3>6 DEF MapInv
  <2> QED BY <2>1, <2>2, <2>3
<1> QED BY <1>2, <1>3

(* removeSocketTimer keeps the timer maps inverse, and leaves the socket
   without a timer. *)
LEMMA RemoveTimer ==
    ASSUME IInv, NEW i \in Ids, removeSocketTimer(i)
    PROVE  /\ timers' \in [Tids -> TimerCallbacks \cup {"none"}]
           /\ next_tid' = next_tid
           /\ s2t' \in [Ids -> Tids \cup {0}]
           /\ t2s' \in [Tids -> Ids \cup {0}]
           /\ s2t'[i] = 0
           /\ \A j \in Ids : j # i => s2t'[j] = s2t[j]
           /\ \A j \in Ids : j # i /\ s2t[j] # 0 => timers'[s2t[j]] = timers[s2t[j]]
           /\ \A t \in Tids : timers[t] = "none" => timers'[t] = "none"
           /\ \A t \in Tids : t2s[t] = 0 => t2s'[t] = 0
           /\ TimerMapsAgree'
<1> USE DEF IInv, TypeOK, IOTypeOK, MapInv, removeSocketTimer
<1>1. CASE s2t[i] = 0
  BY <1>1 DEF TimerMapsAgree
<1>2. CASE s2t[i] # 0
  <2>1. s2t[i] \in Tids /\ t2s[s2t[i]] = i
    BY <1>2 DEF TimerMapsAgree
  <2>2. /\ s2t' = [s2t EXCEPT ![i] = 0]
        /\ t2s' = [t2s EXCEPT ![s2t[i]] = 0]
        /\ timers' = [timers EXCEPT ![s2t[i]] = "none"]
        /\ next_tid' = next_tid
    BY <1>2
  <2>3. \A j \in Ids : j # i /\ s2t[j] # 0 => s2t[j] # s2t[i]
    BY <2>1 DEF TimerMapsAgree
  <2>4. TimerMapsAgree'
    BY <2>1, <2>2, <2>3 DEF TimerMapsAgree
  <2> QED BY <2>1, <2>2, <2>3, <2>4
<1> QED BY <1>1, <1>2

(* A pending connection enters both timer maps with its timer. *)
LEMMA AsyncConnectStep ==
    ASSUME IInv, AsyncConnectFailed \/ AsyncConnected
    PROVE  IInv'
<1>1. /\ pc = "onAsyncConnectSocketWrite" /\ pc \in Handlers /\ pc \in WriteCallbacks
      /\ status[sid] # "NONE"
      /\ removeSocketTimer(sid)
  BY DEF AsyncConnectFailed, AsyncConnected, Handlers, WriteCallbacks
<1>2. sid \in Ids /\ io_device \in Addr /\ sockets[sid] = io_device /\ InMap(sid)
  BY <1>1, HandlerId
<1>3. write_cb[io_device] = "onAsyncConnectSocketWrite"
  BY <1>1 DEF IInv, LoopInv, WriteHandler
<1>4. /\ timers' \in [Tids -> TimerCallbacks \cup {"none"}]
      /\ next_tid' = next_tid
      /\ s2t' \in [Ids -> Tids \cup {0}]
      /\ t2s' \in [Tids -> Ids \cup {0}]
      /\ s2t'[sid] = 0
      /\ \A j \in Ids : j # sid => s2t'[j] = s2t[j]
      /\ \A j \in Ids : j # sid /\ s2t[j] # 0 => timers'[s2t[j]] = timers[s2t[j]]
      /\ \A t \in Tids : timers[t] = "none" => timers'[t] = "none"
      /\ \A t \in Tids : t2s[t] = 0 => t2s'[t] = 0
      /\ TimerMapsAgree'
  BY <1>1, <1>2, RemoveTimer
<1>5. \E st \in {"PENDING_ERROR", "CONNECTED"} : status' = [status EXCEPT ![sid] = st]
  BY DEF AsyncConnectFailed, AsyncConnected, setError
<1>6. /\ \/ UNCHANGED <<read_cb, write_cb>>
         \/ /\ read_cb' = [read_cb EXCEPT ![io_device] = "onSocketRead"]
            /\ write_cb' = [write_cb EXCEPT ![io_device] = "null"]
      /\ UNCHANGED <<quit, device_id, attached, refused, batchVars, removed,
                     sockets, unsent, send_cb, contexts, next_id>>
  BY DEF AsyncConnectFailed, AsyncConnected, setReadCallback, setWriteCallback
<1>7. \E cb \in AppCalls : CallApp(cb, sid, "dispatch")
  BY DEF AsyncConnectFailed, AsyncConnected, AppCalls
<1> USE DEF IInv, TypeOK, IOTypeOK, CallApp
<1>8. TypeOK'
  <2>1. pc' \in Labels /\ frame' \in Frames
    BY <1>2, <1>7 DEF Labels, Frames
  <2>2. status' \in [Ids -> Statuses]
    BY <1>5 DEF Statuses
  <2>3. /\ read_cb' \in [Addr -> ReadCallbacks \cup {"null"}]
        /\ write_cb' \in [Addr -> WriteCallbacks \cup {"null"}]
    BY <1>6 DEF ReadCallbacks
  <2> QED BY <1>4, <1>6, <2>1, <2>2, <2>3
<1>9. LoopInv'
  BY <1>1, <1>2, <1>6, <1>7 DEF LoopInv, FrameReturns, BatchIsCurrent, BatchIsDone, HandlerDevice, WriteHandler,
         RecvKeepsId, Handlers, ReadCallbacks, WriteCallbacks
<1>10. MapInv'
  <2>1. MapsAgree'
    BY <1>2, <1>5, <1>6 DEF MapInv, MapsAgree
  <2>2. FreshIds'
    <3>1. sid < next_id
      BY <1>2 DEF MapInv, FreshIds
    <3> QED BY <1>2, <1>4, <1>5, <1>6, <3>1 DEF MapInv, FreshIds
  <2>3. (NoTimerOnConnected /\ ConnectTimer)'
    BY <1>2, <1>4, <1>5 DEF MapInv, NoTimerOnConnected, ConnectTimer
  <2>4. SendCallback'
    BY <1>2, <1>3, <1>6 DEF MapInv, SendCallback, MapsAgree
  <2>5. Attachment'
    <3>1. io_device \in attached
      BY <1>1 DEF LoopInv, WriteHandler
    <3>2. \A j \in Ids : j # sid => status'[j] = status[j] /\ sockets[j] # io_device
      BY <1>2, <1>5 DEF MapInv, MapsAgree
    <3>3. \A i \in Ids : InMap(i)' /\ sockets'[i] \notin attached' \cup refused' =>
             status'[i] # "CONNECTED" /\ i \notin unsent'
      BY <1>2, <1>6, <3>1, <3>2 DEF MapInv, Attachment
    <3>4. \A t \in Tids : timers'[t] # "none" =>
             timers'[t] = timers[t] /\ t2s'[t] = t2s[t] /\ t2s[t] # sid /\ t2s[t] \in Ids
      <4>1. CASE s2t[sid] = 0
        BY <1>1, <1>2, <4>1 DEF removeSocketTimer, MapInv, TimerMapsAgree
      <4>2. CASE s2t[sid] # 0
        BY <1>1, <1>2, <4>2 DEF removeSocketTimer, MapInv, TimerMapsAgree
      <4> QED BY <4>1, <4>2
    <3>5. \A a \in Addr : a # io_device => write_cb'[a] = write_cb[a]
      BY <1>2, <1>6
    <3>6. \A t \in Tids : timers'[t] = "onAsyncConnectTimeout" /\ InMap(t2s[t])' =>
             write_cb'[sockets'[t2s'[t]]] = "onAsyncConnectSocketWrite"
      BY <1>6, <3>2, <3>4, <3>5 DEF MapInv, Attachment
    <3> QED BY <3>3, <3>6 DEF Attachment
  <2> QED BY <1>4, <2>1, <2>2, <2>3, <2>4, <2>5 DEF MapInv
<1> QED BY <1>8, <1>9, <1>10

(* A handler that finds no connection at most stops the socket's timer. *)
LEMMA NoConnectionStep ==
    ASSUME IInv, NoConnection
    PROVE  IInv'
<1>1. pc \in Handlers /\ sid \in Ids
  BY HandlerId DEF NoConnection
<1> USE DEF IInv, TypeOK, IOTypeOK, NoConnection, Done
<1>2. TypeOK'
  BY <1>1, RemoveTimer, SMTT(30) DEF Labels
<1>3. LoopInv'
  BY <1>1 DEF LoopInv, FrameReturns, BatchIsCurrent, BatchIsDone, HandlerDevice, WriteHandler,
         RecvKeepsId, Handlers, ReadCallbacks, WriteCallbacks
<1>4. MapInv'
  <2>1. CASE pc = "onAsyncConnectSocketWrite"
    <3>1. (MapsAgree /\ FreshIds)'
      BY <1>1, <2>1, RemoveTimer DEF MapInv, MapsAgree, FreshIds
    <3>2. (TimerMapsAgree /\ NoTimerOnConnected /\ ConnectTimer)'
      BY <1>1, <2>1, RemoveTimer, SMTT(30) DEF MapInv, NoTimerOnConnected, ConnectTimer
    <3>3. SendCallback'
      BY <2>1 DEF MapInv, SendCallback
    <3>4. Attachment'
      <4>1. \A t \in Tids : timers'[t] # "none" => timers'[t] = timers[t] /\ t2s'[t] = t2s[t]
        BY <1>1, <2>1 DEF removeSocketTimer, MapInv, TimerMapsAgree
      <4> QED BY <2>1, <4>1 DEF MapInv, Attachment
    <3> QED BY <3>1, <3>2, <3>3, <3>4 DEF MapInv
  <2>2. CASE pc # "onAsyncConnectSocketWrite"
    BY <2>2, MapInvUnchanged DEF mapInvVars
  <2> QED BY <2>1, <2>2
<1> QED BY <1>2, <1>3, <1>4

(* Steps of the application that touch neither sockets_ nor the batch. *)

(* Buffered bytes come with interest in EPOLLOUT. *)
LEMMA SendBufferedStep ==
    ASSUME IInv, NEW i \in Ids, NEW cb \in SendCompletes, SendBuffered(i, cb)
    PROVE  IInv'
<1> USE DEF IInv, TypeOK, IOTypeOK, SendBuffered, InApp, setWriteCallback
<1>1. InMap(i) /\ sockets[i] \in Addr /\ device_id[sockets[i]] = i
  BY DEF MapInv, MapsAgree
<1>2. TypeOK'
  BY <1>1 DEF WriteCallbacks
<1>3. LoopInv'
  BY <1>1 DEF LoopInv, FrameReturns, BatchIsCurrent, BatchIsDone, HandlerDevice, WriteHandler,
         RecvKeepsId, Handlers, ReadCallbacks, WriteCallbacks
<1>4. MapInv'
  BY <1>1 DEF MapInv, MapsAgree, FreshIds, TimerMapsAgree, NoTimerOnConnected, ConnectTimer,
         SendCallback, Attachment
<1> QED BY <1>2, <1>3, <1>4

(* setContext touches only the context of a known socket. *)
LEMMA SetContextStep ==
    ASSUME IInv, NEW i \in Ids, SetContext(i)
    PROVE  IInv'
<1> USE DEF IInv, TypeOK, IOTypeOK, SetContext, InApp
<1>1. TypeOK'
  OBVIOUS
<1>2. LoopInv'
  BY DEF LoopInv, FrameReturns, BatchIsCurrent, BatchIsDone, HandlerDevice, WriteHandler,
         RecvKeepsId, Handlers, ReadCallbacks, WriteCallbacks
<1>3. MapInv'
  BY DEF MapInv, MapsAgree, FreshIds, TimerMapsAgree, NoTimerOnConnected, ConnectTimer,
         SendCallback, Attachment
<1> QED BY <1>1, <1>2, <1>3

(* A failed send() starts the timer that will tell of it. *)
LEMMA SendFailedStep ==
    ASSUME IInv, NEW i \in Ids, SendFailed(i)
    PROVE  IInv'
<1> USE DEF IInv, TypeOK, IOTypeOK, SendFailed, InApp, setError, addSocketTimer, startTimer
<1>1. TypeOK'
  BY DEF Statuses, TimerCallbacks
<1>2. LoopInv'
  BY DEF LoopInv, FrameReturns, BatchIsCurrent, BatchIsDone, HandlerDevice, WriteHandler,
         RecvKeepsId, Handlers, ReadCallbacks, WriteCallbacks
<1>3. MapInv'
  <2>1. s2t[i] = 0 /\ InMap(i) /\ timers[next_tid] = "none" /\ t2s[next_tid] = 0
    BY DEF MapInv, NoTimerOnConnected, MapsAgree, FreshIds
  <2> USE DEF MapInv
  <2>2. MapsAgree'
    BY DEF MapsAgree
  <2>3. FreshIds'
    BY <2>1 DEF FreshIds
  <2>4. TimerMapsAgree'
    BY <2>1 DEF TimerMapsAgree
  <2>5. (NoTimerOnConnected /\ ConnectTimer)'
    BY <2>1 DEF NoTimerOnConnected, ConnectTimer, TimerMapsAgree
  <2>6. SendCallback'
    BY DEF SendCallback
  <2>7. Attachment'
    BY <2>1 DEF Attachment, TimerMapsAgree
  <2> QED BY <2>2, <2>3, <2>4, <2>5, <2>6, <2>7
<1> QED BY <1>1, <1>2, <1>3

(* A timer of the service fires. *)
LEMMA FireTimerStep ==
    ASSUME IInv, NEW t \in Tids, FireTimer(t)
    PROVE  IInv'
<1> DEFINE i == t2s[t]
<1>1. i \in Ids /\ s2t[i] = t /\ pc = "timers"
  BY DEF IInv, TypeOK, IOTypeOK, MapInv, TimerMapsAgree, FireTimer
<1>2. /\ timers' = [timers EXCEPT ![t] = "none"]
      /\ t2s' = [t2s EXCEPT ![t] = 0]
      /\ s2t' = [s2t EXCEPT ![i] = 0]
      /\ UNCHANGED <<quit, device_id, read_cb, write_cb, refused, batchVars, next_tid,
                     sockets, unsent, send_cb, contexts, next_id>>
  BY <1>1 DEF FireTimer, ForgetTimer
<1>3. \/ UNCHANGED <<pc, frame, attached, removed, status>>
      \/ /\ InMap(i) /\ status[i] # "NONE"
         /\ \/ UNCHANGED <<attached, removed, status>>
            \/ timers[t] = "onAsyncConnectTimeout" /\ TimeoutConnect(i)
         /\ CallApp("error_cb", i, "timers")
  BY <1>1 DEF FireTimer
<1> HIDE DEF i
<1> USE DEF IInv, TypeOK, IOTypeOK, TimeoutConnect, detachIOService, setError, CallApp
<1>4. TypeOK'
  <2>1. pc' \in Labels /\ frame' \in Frames
    BY <1>1, <1>3 DEF Labels, Frames, AppCalls
  <2>2. attached' \in SUBSET Addr /\ removed' \in SUBSET Addr
    BY <1>1, <1>3
  <2>3. status' \in [Ids -> Statuses]
    BY <1>3 DEF Statuses
  <2> QED BY <1>1, <1>2, <2>1, <2>2, <2>3
<1>5. LoopInv'
  <2>1. \A a \in Addr : ev'[a] = {}
    BY <1>1, <1>2 DEF LoopInv, BatchIsDone
  <2>2. pc' = "timers" \/ (pc' = "app" /\ frame'.ret = "timers")
    BY <1>1, <1>3
  <2> QED BY <2>1, <2>2 DEF LoopInv, FrameReturns, BatchIsCurrent, BatchIsDone, HandlerDevice, WriteHandler,
         RecvKeepsId, Handlers, ReadCallbacks, WriteCallbacks
<1>6. MapInv'
  <2>1. \A j \in Ids : j # i => status'[j] = status[j] /\ s2t'[j] = s2t[j]
    BY <1>1, <1>2, <1>3
  <2>2. status'[i] \in {status[i], "PENDING_ERROR"} /\ s2t'[i] = 0
    BY <1>1, <1>2, <1>3
  <2>3. attached' \subseteq attached
    BY <1>3
  <2>4. \A j \in Ids : j # i => s2t[j] # t
    BY <1>1 DEF MapInv, TimerMapsAgree, i
  <2>5. MapsAgree'
    BY <1>1, <1>2, <1>3, <2>3 DEF MapInv, MapsAgree
  <2>6. FreshIds'
    BY <1>1, <1>2, <1>3, <2>1, <2>2 DEF MapInv, FreshIds
  <2>7. TimerMapsAgree'
    BY <1>1, <1>2, <2>4 DEF MapInv, TimerMapsAgree
  <2>8. (NoTimerOnConnected /\ ConnectTimer)'
    BY <1>1, <1>2, <2>1, <2>2, <2>4 DEF MapInv, NoTimerOnConnected, ConnectTimer
  <2>9. SendCallback'
    BY <1>2 DEF MapInv, SendCallback
  <2>10. Attachment'
    <3>1. \A u \in Tids : timers'[u] # "none" => timers'[u] = timers[u] /\ t2s'[u] = t2s[u]
      BY <1>1, <1>2
    <3>2. timers[t] = "onAsyncConnectTimeout" /\ InMap(i) => i \notin unsent
      BY <1>1 DEF MapInv, Attachment, SendCallback, i
    <3>3. \A j \in Ids : InMap(j) /\ sockets[j] \in attached /\ sockets[j] \notin attached' =>
             j = i /\ timers[t] = "onAsyncConnectTimeout" /\ status'[i] = "PENDING_ERROR"
      BY <1>1, <1>3 DEF MapInv, MapsAgree
    <3>4. \A j \in Ids : InMap(j)' /\ sockets'[j] \notin attached' \cup refused' =>
             status'[j] # "CONNECTED" /\ j \notin unsent'
      BY <1>1, <1>2, <2>1, <2>2, <3>2, <3>3 DEF MapInv, Attachment
    <3>5. \A u \in Tids : timers'[u] = "onAsyncConnectTimeout" /\ InMap(t2s[u])' =>
             write_cb'[sockets'[t2s'[u]]] = "onAsyncConnectSocketWrite"
      BY <1>2, <3>1 DEF MapInv, Attachment
    <3> QED BY <3>4, <3>5 DEF Attachment
  <2> QED BY <2>5, <2>6, <2>7, <2>8, <2>9, <2>10 DEF MapInv
<1> QED BY <1>4, <1>5, <1>6

-----------------------------------------------------------------------------
(* The invariant holds before the first call. *)
LEMMA InitIInv == Init => IInv
<1> SUFFICES ASSUME Init PROVE IInv
  OBVIOUS
<1> USE DEF Init, IOInit
<1>1. TypeOK
  <2>1. IOTypeOK
    <3>1. pc \in Labels
      BY DEF Labels
    <3>2. ev \in [Addr -> SUBSET Bits]
      OBVIOUS
    <3>3. 1 \in 1 .. MaxTimers + 1
      OBVIOUS
    <3> QED BY <3>1, <3>2, <3>3 DEF IOTypeOK
  <2>2. frame \in Frames
    BY DEF Labels, Frames, AppCalls
  <2> QED BY <2>1, <2>2 DEF TypeOK, Statuses, SendCompletes
<1>2. LoopInv
  BY DEF LoopInv, FrameReturns, BatchIsCurrent, BatchIsDone, HandlerDevice, WriteHandler,
         RecvKeepsId, Handlers, ReadCallbacks, WriteCallbacks
<1>3. MapInv
  BY DEF MapInv, MapsAgree, FreshIds, TimerMapsAgree, NoTimerOnConnected, ConnectTimer,
         SendCallback, Attachment
<1> QED BY <1>1, <1>2, <1>3 DEF IInv

(* Every step of the loop, a handler or the application keeps it. *)
LEMMA NextIInv == IInv /\ [Next]_vars => IInv'
<1> SUFFICES ASSUME IInv, [Next]_vars PROVE IInv'
  OBVIOUS
<1>1. CASE Loop
  BY <1>1, EpollWaitStep, DispatchStep, EndDispatchStep, AppTimerStep, EndTimersStep,
     LeaveLoopStep DEF Loop
<1>2. CASE Handler
  BY <1>2, BuildStep, AcceptNoneStep, NoConnectionStep, AsyncConnectStep, FailStep,
     RecvNothingStep, RecvDataStep, AfterRecvStep, WritePartialStep, WriteAllStep DEF Handler
<1>3. CASE \E t \in Tids : FireTimer(t)
  BY <1>3, FireTimerStep
<1>4. CASE App
  BY <1>4, BuildStep, CloseSocketStep, SendFailedStep, SetContextStep, SendBufferedStep,
     QuitStep DEF App
<1>5. CASE Return
  BY <1>5, ReturnStep
<1>6. CASE UNCHANGED vars
  <2> USE <1>6 DEF vars, ioVars, tcpVars, IInv
  <2>1. TypeOK'
    BY DEF TypeOK, IOTypeOK
  <2>2. LoopInv'
    BY DEF LoopInv, FrameReturns, BatchIsCurrent, BatchIsDone, HandlerDevice, WriteHandler,
         RecvKeepsId, Handlers, ReadCallbacks, WriteCallbacks
  <2>3. MapInv'
    BY MapInvUnchanged DEF mapInvVars
  <2> QED BY <2>1, <2>2, <2>3
<1> QED BY <1>1, <1>2, <1>3, <1>4, <1>5, <1>6 DEF Next

(* So it holds throughout. *)
LEMMA SpecIInv == Spec => []IInv
BY InitIInv, NextIInv, PTL DEF Spec

(* Every variable keeps a value of its kind, however many sockets, timers and
   addresses there are. *)
THEOREM TypeCorrect == Spec => []TypeOK
<1>1. IInv => TypeOK
  BY DEF IInv
<1> QED BY <1>1, SpecIInv, PTL

(* The loop never calls a deleted device, a device that took over its address
   or an empty callback: checkIODeviceExist is enough. *)
THEOREM DispatchIsSafe == Spec => []DispatchReachesLiveDevice
<1>1. IInv => DispatchReachesLiveDevice
  BY DEF IInv, LoopInv, HandlerDevice, DispatchReachesLiveDevice
<1> QED BY <1>1, SpecIInv, PTL

(* sockets_, connections_, contexts_ and the devices agree. *)
THEOREM MapsAlwaysAgree == Spec => []MapsAgree
<1>1. IInv => MapsAgree
  BY DEF IInv, MapInv
<1> QED BY <1>1, SpecIInv, PTL

(* The two timer maps are inverse and hold exactly the running timers. *)
THEOREM TimerMapsAlwaysAgree == Spec => []TimerMapsAgree
<1>1. IInv => TimerMapsAgree
  BY DEF IInv, MapInv
<1> QED BY <1>1, SpecIInv, PTL

(* No timer of the service runs for an established connection. *)
THEOREM ConnectedHasNoTimer == Spec => []NoTimerOnConnected
<1>1. IInv => NoTimerOnConnected
  BY DEF IInv, MapInv
<1> QED BY <1>1, SpecIInv, PTL

(* The two timer maps are inverse to each other, hold exactly the running
   timers, and none of these is for an established connection. *)
THEOREM TimersAlwaysAgree == Spec => []TimersAgree
BY TimerMapsAlwaysAgree, ConnectedHasNoTimer, PTL DEF TimersAgree

(* epoll watches EPOLLOUT exactly while bytes wait to be sent, and the only
   bytes that wait unwatched are those of a device that EPOLL_CTL_ADD refused. *)
THEOREM WriteInterestIsExact == Spec => []WriteInterest
<1>1. IInv => WriteInterest
  <2> SUFFICES ASSUME IInv, NEW i \in Ids
               PROVE  /\ Writes(i) => i \in unsent
                      /\ i \in unsent => Writes(i) \/ sockets[i] \in refused
                      /\ send_cb[i] # "null" => i \in unsent
    BY DEF WriteInterest
  <2>1. Writes(i) => i \in unsent
    BY DEF IInv, MapInv, SendCallback, Writes
  <2>2. ASSUME i \in unsent, sockets[i] \notin refused PROVE Writes(i)
    <3>1. InMap(i) /\ write_cb[sockets[i]] = "onSocketWrite"
      BY <2>2 DEF IInv, MapInv, SendCallback
    <3>2. sockets[i] \in attached
      BY <2>2, <3>1 DEF IInv, MapInv, Attachment
    <3> QED BY <3>1, <3>2 DEF Writes, Watches, Interest, Bits
  <2>3. send_cb[i] # "null" => i \in unsent
    BY DEF IInv, MapInv, SendCallback
  <2> QED BY <2>1, <2>2, <2>3
<1> QED BY <1>1, SpecIInv, PTL

(* The application is called about open sockets only, whose status is the one
   the callback announces. *)
THEOREM CallbacksAboutOpenSockets == Spec => CallbackAboutOpenSocket
<1> DEFINE Begins == pc # "app" /\ pc' = "app" /\ frame'.id # 0
           Told == /\ sockets'[frame'.id] # NULL
                   /\ Announces(frame'.cb, status'[frame'.id])
<1>1. ASSUME IInv, [Next]_vars PROVE [Begins => Told]_vars
  <2> SUFFICES ASSUME Begins, Next PROVE Told
    BY <1>1
  <2> USE <1>1
  <2>1. CASE Loop
    <3>1. ASSUME NEW a \in Addr, Dispatch(a), UNCHANGED tcpVars PROVE FALSE
      BY <3>1, DispatchStep DEF IInv, TypeOK, LoopInv, FrameReturns, Dispatch, checkIODeviceExist,
         Stage, Callback, IOTypeOK, ReadCallbacks, WriteCallbacks
    <3> QED BY <2>1, <3>1 DEF Loop, EpollWait, EndDispatch, AppTimer, EndTimers, LeaveLoop, CallApp
  <2>2. CASE Handler
    <3>1. CASE \E a \in Addr : Accept(a)
      BY <3>1 DEF Accept, buildConnectedSocket, InsertSocket, CallApp, Announces,
                  IInv, TypeOK
    <3>2. CASE AcceptNone \/ NoConnection \/ RecvNothing \/ WritePartial
      BY <3>2 DEF AcceptNone, NoConnection, RecvNothing, WritePartial, Done
    <3>3. CASE AfterRecv
      <4>1. ev_id[io_device] \in Ids
        BY <3>3 DEF IInv, TypeOK, IOTypeOK, LoopInv, RecvKeepsId, AfterRecv
      <4> QED BY <3>3, <4>1 DEF AfterRecv, StillConnected, PeerClosed, Done, CallApp,
                  Announces, IInv, TypeOK, MapInv, MapsAgree
    <3>4. ASSUME pc \in Handlers, status[sid] # "NONE" PROVE sid \in Ids /\ InMap(sid)
      BY <3>4, HandlerId
    <3>5. CASE AsyncConnectFailed \/ AsyncConnected
      BY <3>4, <3>5 DEF AsyncConnectFailed, AsyncConnected, setError, CallApp, Announces,
                  IInv, TypeOK, Handlers, WriteCallbacks
    <3>6. CASE RecvFailed \/ RecvPeerClosed \/ WriteFailed \/ SocketError
      BY <3>4, <3>6 DEF RecvFailed, RecvPeerClosed, PeerClosed, WriteFailed, SocketError,
                  setError, CallApp, Announces, IInv, TypeOK, Handlers, ReadCallbacks,
                  WriteCallbacks
    <3>7. CASE \E peer_close \in BOOLEAN : RecvData(peer_close)
      BY <3>4, <3>7 DEF RecvData, CallApp, Announces, Handlers, ReadCallbacks
    <3>8. CASE WriteAll
      BY <3>4, <3>8 DEF WriteAll, Done, CallApp, Announces, Handlers, WriteCallbacks
    <3> QED BY <2>2, <3>1, <3>2, <3>3, <3>5, <3>6, <3>7, <3>8 DEF Handler
  <2>3. CASE \E t \in Tids : FireTimer(t)
    <3>1. PICK t \in Tids : FireTimer(t)
      BY <2>3
    <3>2. /\ t2s[t] \in Ids /\ s2t[t2s[t]] = t /\ InMap(t2s[t]) /\ status[t2s[t]] # "NONE"
          /\ frame' = [cb |-> "error_cb", id |-> t2s[t], ret |-> "timers"]
          /\ sockets' = sockets
      BY <3>1 DEF FireTimer, CallApp, IInv, TypeOK, IOTypeOK, MapInv, TimerMapsAgree
    <3>3. timers[t] = "onAsyncConnectTimeout" => status'[t2s[t]] = "PENDING_ERROR"
      BY <3>1, <3>2 DEF FireTimer, TimeoutConnect, setError, IInv, TypeOK
    <3>4. timers[t] # "onAsyncConnectTimeout" =>
             /\ status' = status
             /\ status[t2s[t]] \in {"PENDING_ERROR", "PEER_CLOSED"}
      <4>1. timers[t] # "onAsyncConnectTimeout" => status' = status
        BY <3>1, <3>2 DEF FireTimer
      <4>2. timers[t] # "onAsyncConnectTimeout" =>
               status[t2s[t]] # "CONNECTED" /\ status[t2s[t]] # "CONNECTING"
        BY <3>2 DEF IInv, MapInv, NoTimerOnConnected, ConnectTimer
      <4>3. status[t2s[t]] \in Statuses
        BY <3>2 DEF IInv, TypeOK
      <4> QED BY <3>2, <4>1, <4>2, <4>3 DEF Statuses
    <3> QED BY <3>2, <3>3, <3>4 DEF Announces
  <2>4. CASE App \/ Return
    BY <2>4 DEF App, Return, InApp, Listen, Connect, AsyncConnect, CloseSocket,
                SendAllThenClose, SendFailed, SetContext, SendBuffered, Quit, IInv, LoopInv,
                FrameReturns
  <2> QED BY <2>1, <2>2, <2>3, <2>4 DEF Next
<1>2. Spec => [][Begins => Told]_vars
  BY <1>1, SpecIInv, PTL DEF Spec
<1> QED BY <1>2 DEF CallbackAboutOpenSocket

-----------------------------------------------------------------------------
(* TcpService implements SocketLifecycle.                                  *)

(* There is a frame exactly while the application runs, and a failure is told
   about an id that was given out. *)
FrameMatches ==
    /\ pc = "app" => frame.cb # "none"
    /\ pc # "app" => frame.cb = "none" /\ frame.id = 0
    /\ frame.cb \in {"error_cb", "peer_close_cb"} => frame.id \in Ids /\ frame.id < next_id

(* The application is being told that socket i failed. *)
ToldOf(i) == pc = "app" /\ frame.cb \in {"error_cb", "peer_close_cb"} /\ frame.id = i

(* A socket that waits for its connect(2) is CONNECTING, but for the time in
   which the application is told that it failed; and a CONNECTING socket waits
   for nothing else. *)
WaitsForConnect ==
    \A i \in Ids : InMap(i) =>
        /\ write_cb[sockets[i]] = "onAsyncConnectSocketWrite" =>
               status[i] = "CONNECTING" \/ ToldOf(i)
        /\ status[i] = "CONNECTING" => /\ write_cb[sockets[i]] = "onAsyncConnectSocketWrite"
                                       /\ read_cb[sockets[i]] = "null"

(* onSocketRead runs as the read callback of its device. *)
ReadHandler == pc = "onSocketRead" => read_cb[io_device] = "onSocketRead"

LifeInv == FrameMatches /\ WaitsForConnect /\ ReadHandler

LifeStep == Life!LifeNext \/ UNCHANGED Life!lifeVars

(* The phase of a socket, read from the maps. *)
PhaseRead ==
    \A i \in Ids :
        /\ i >= next_id => PhaseOf(i) = "unused"
        /\ InMap(i) => i < next_id
        /\ i < next_id /\ ~InMap(i) => PhaseOf(i) = "closed"
        /\ InMap(i) /\ status[i] = "NONE" => PhaseOf(i) = "listening"
        /\ InMap(i) /\ status[i] = "CONNECTING" => PhaseOf(i) = "connecting"
        /\ InMap(i) /\ status[i] = "CONNECTED" => PhaseOf(i) = "connected"
        /\ InMap(i) /\ status[i] \in {"PENDING_ERROR", "PEER_CLOSED"} => PhaseOf(i) = "failed"

(* The phases are those of the maps. *)
LEMMA PhasesAreRead == IInv => PhaseRead
<1> SUFFICES ASSUME IInv, NEW i \in Ids
             PROVE  /\ i >= next_id => PhaseOf(i) = "unused"
                    /\ InMap(i) => i < next_id
                    /\ i < next_id /\ ~InMap(i) => PhaseOf(i) = "closed"
                    /\ InMap(i) /\ status[i] = "NONE" => PhaseOf(i) = "listening"
                    /\ InMap(i) /\ status[i] = "CONNECTING" => PhaseOf(i) = "connecting"
                    /\ InMap(i) /\ status[i] = "CONNECTED" => PhaseOf(i) = "connected"
                    /\ InMap(i) /\ status[i] \in {"PENDING_ERROR", "PEER_CLOSED"}
                           => PhaseOf(i) = "failed"
  BY DEF PhaseRead
<1>1. next_id \in Nat /\ i \in Nat
  BY DEF IInv, TypeOK
<1>2. InMap(i) => i < next_id
  BY <1>1 DEF IInv, MapInv, FreshIds
<1> QED BY <1>1, <1>2 DEF PhaseOf

(* One socket enters another part of its life. *)
LEMMA Becomes ==
    ASSUME NEW i \in Ids, NEW from, NEW to,
           PhaseOf(i) \in from, PhaseOf(i)' = to,
           \A j \in Ids : j # i => PhaseOf(j)' = PhaseOf(j)
    PROVE  Life!Become(i, from, to)
BY DEF Life!Become

(* The maps that matter to the lives of the sockets did not change. *)
LEMMA SamePhases ==
    ASSUME UNCHANGED <<sockets, status, next_id>>
    PROVE  \A i \in Ids : PhaseOf(i)' = PhaseOf(i)
BY DEF PhaseOf

(* A step of the thread that neither calls nor is called. *)
LEMMA QuietStep ==
    ASSUME LifeInv, UNCHANGED <<sockets, status, next_id, frame, read_cb, write_cb>>,
           pc # "app", pc' # "app", ReadHandler'
    PROVE  LifeInv' /\ LifeStep
<1>1. LifeInv'
  BY DEF LifeInv, FrameMatches, WaitsForConnect, ToldOf
<1> QED BY <1>1, SamePhases DEF LifeStep, Life!lifeVars

(* A callback of the application begins. *)
LEMMA Tells ==
    ASSUME LifeInv, pc # "app", NEW cb, NEW i, NEW ret, CallApp(cb, i, ret)
    PROVE  Life!Tell(cb, i)
BY DEF LifeInv, FrameMatches, CallApp, Life!Tell, Life!Quiet

(* The thread is in a callback, and stays there. *)
LEMMA StaysInCallback ==
    ASSUME LifeInv, NEW call, InApp(call)
    PROVE  Life!InCallback
BY DEF LifeInv, FrameMatches, InApp, Life!InCallback, Life!Quiet

(* A socket is marked as lost, and the application is told. *)
LEMMA FailureIsTold ==
    ASSUME IInv, IInv', LifeInv, pc # "app",
           NEW i \in Ids, InMap(i), status[i] # "NONE",
           status'[i] \in {"PENDING_ERROR", "PEER_CLOSED"},
           \A j \in Ids : j # i => status'[j] = status[j],
           NEW cb \in {"error_cb", "peer_close_cb"}, NEW ret, CallApp(cb, i, ret),
           UNCHANGED <<sockets, next_id, read_cb, write_cb>>
    PROVE  LifeInv' /\ LifeStep
<1>1. PhaseRead /\ PhaseRead'
  BY PhasesAreRead, PTL
<1>2. PhaseOf(i) \in {"connecting", "connected", "failed"}
  BY <1>1 DEF PhaseRead, IInv, TypeOK, Statuses
<1>3. PhaseOf(i)' = "failed"
  BY <1>1 DEF PhaseRead
<1>4. \A j \in Ids : j # i => PhaseOf(j)' = PhaseOf(j)
  BY DEF PhaseOf
<1>5. Life!Become(i, {"connecting", "connected", "failed"}, "failed")
  BY <1>2, <1>3, <1>4, Becomes
<1>6. Life!Failed(i)
  BY <1>5, Tells DEF Life!Failed
<1>7. LifeInv'
  <2>1. i < next_id
    BY <1>1 DEF PhaseRead
  <2> QED BY <2>1 DEF LifeInv, FrameMatches, WaitsForConnect, ToldOf, ReadHandler, CallApp
<1> QED BY <1>6, <1>7 DEF LifeStep, Life!LifeNext

(* A socket is built: its id is the next one, which was unused. *)
LEMMA BuildPhase ==
    ASSUME IInv, IInv', NEW a \in Addr, NEW rd, NEW wr,
           NEW st \in {"NONE", "CONNECTING", "CONNECTED"}, InsertSocket(a, rd, wr, st)
    PROVE  /\ next_id \in Ids
           /\ Life!Become(next_id, {"unused"},
                  IF st = "NONE" THEN "listening"
                  ELSE IF st = "CONNECTING" THEN "connecting" ELSE "connected")
<1>1. PhaseRead /\ PhaseRead'
  BY PhasesAreRead, PTL
<1>2. PICK i \in Ids : i = next_id /\ next_id' = i + 1
  BY DEF InsertSocket
<1>3. sockets'[i] = a /\ status'[i] = st /\ a # NULL
  BY <1>2 DEF InsertSocket, IInv, TypeOK
<1>4. PhaseOf(i) \in {"unused"}
  BY <1>1, <1>2 DEF PhaseRead
<1>5. PhaseOf(i)' = IF st = "NONE" THEN "listening"
                    ELSE IF st = "CONNECTING" THEN "connecting" ELSE "connected"
  <2>1. ~(i >= next_id')
    BY <1>2
  <2> QED BY <1>3, <2>1 DEF PhaseOf
<1>6. ASSUME NEW j \in Ids, j # i
      PROVE  PhaseOf(j)' = PhaseOf(j)
  <2>1. j >= next_id' <=> j >= next_id
    BY <1>2, <1>6
  <2>2. sockets'[j] = sockets[j] /\ status'[j] = status[j]
    BY <1>2, <1>6 DEF InsertSocket, IInv, TypeOK
  <2> QED BY <2>1, <2>2 DEF PhaseOf
<1> QED BY <1>2, <1>4, <1>5, <1>6, Becomes

(* A built socket waits for its connect(2) when it is CONNECTING. *)
LEMMA BuildWaits ==
    ASSUME IInv, LifeInv, NEW a \in Addr, NEW rd, NEW wr, NEW st, InsertSocket(a, rd, wr, st),
           wr = "onAsyncConnectSocketWrite" <=> st = "CONNECTING",
           st = "CONNECTING" => rd = "null",
           UNCHANGED <<pc, frame>> \/ pc # "app"
    PROVE  WaitsForConnect'
<1> SUFFICES ASSUME NEW i \in Ids, sockets'[i] # NULL
             PROVE  /\ write_cb'[sockets'[i]] = "onAsyncConnectSocketWrite" =>
                           status'[i] = "CONNECTING" \/ ToldOf(i)'
                    /\ status'[i] = "CONNECTING" =>
                           /\ write_cb'[sockets'[i]] = "onAsyncConnectSocketWrite"
                           /\ read_cb'[sockets'[i]] = "null"
  BY DEF WaitsForConnect
<1>1. next_id \in Ids /\ device_id[a] = 0
      /\ \E ok \in EpollAdd : attachIOService(a, next_id, rd, wr, ok)
  BY DEF InsertSocket
<1>2. write_cb' = [write_cb EXCEPT ![a] = wr] /\ read_cb' = [read_cb EXCEPT ![a] = rd]
  BY <1>1 DEF attachIOService
<1>3. CASE i = next_id
  BY <1>1, <1>2, <1>3 DEF InsertSocket, IInv, TypeOK, IOTypeOK
<1>4. CASE i # next_id
  <2>1. sockets'[i] = sockets[i] /\ status'[i] = status[i] /\ sockets[i] \in Addr
    BY <1>1, <1>4 DEF InsertSocket, IInv, TypeOK
  <2>2. sockets[i] # a
    BY <1>1, <2>1 DEF IInv, MapInv, MapsAgree
  <2>3. /\ write_cb'[sockets[i]] = write_cb[sockets[i]]
        /\ read_cb'[sockets[i]] = read_cb[sockets[i]]
    BY <1>2, <2>1, <2>2 DEF IInv, TypeOK, IOTypeOK
  <2> QED BY <2>1, <2>3 DEF LifeInv, WaitsForConnect, ToldOf
<1> QED BY <1>3, <1>4

(* A socket is closed: its life is over. *)
LEMMA ClosePhase ==
    ASSUME IInv, IInv', NEW i \in Ids, InMap(i), closeSocket(i), UNCHANGED next_id
    PROVE  Life!Become(i, {PhaseOf(i)}, "closed") /\ PhaseOf(i) \in Life!Open
<1>1. PhaseRead /\ PhaseRead'
  BY PhasesAreRead, PTL
<1>2. i < next_id /\ ~InMap(i)'
  BY <1>1 DEF PhaseRead, closeSocket, IInv, TypeOK
<1>3. PhaseOf(i)' = "closed"
  BY <1>1, <1>2 DEF PhaseRead
<1>4. PhaseOf(i) \in Life!Open
  BY <1>1 DEF PhaseRead, IInv, TypeOK, Statuses, Life!Open
<1>5. \A j \in Ids : j # i => PhaseOf(j)' = PhaseOf(j)
  BY DEF PhaseOf, closeSocket, IInv, TypeOK
<1> QED BY <1>3, <1>4, <1>5, Becomes

(* Closing leaves the sockets that wait for connect(2) as they are. *)
LEMMA CloseWaits ==
    ASSUME IInv, LifeInv, NEW i \in Ids, InMap(i), closeSocket(i),
           UNCHANGED <<pc, frame>> \/ pc # "app"
    PROVE  WaitsForConnect'
<1> SUFFICES ASSUME NEW j \in Ids, sockets'[j] # NULL
             PROVE  /\ write_cb'[sockets'[j]] = "onAsyncConnectSocketWrite" =>
                           status'[j] = "CONNECTING" \/ ToldOf(j)'
                    /\ status'[j] = "CONNECTING" =>
                           /\ write_cb'[sockets'[j]] = "onAsyncConnectSocketWrite"
                           /\ read_cb'[sockets'[j]] = "null"
  BY DEF WaitsForConnect
<1>1. j # i /\ sockets'[j] = sockets[j] /\ status'[j] = status[j] /\ sockets[j] \in Addr
  BY DEF closeSocket, IInv, TypeOK
<1>2. sockets[j] # sockets[i] /\ sockets[i] \in Addr
  BY <1>1 DEF IInv, TypeOK, MapInv, MapsAgree
<1>3. /\ write_cb'[sockets[j]] = write_cb[sockets[j]]
      /\ read_cb'[sockets[j]] = read_cb[sockets[j]]
  BY <1>1, <1>2 DEF closeSocket, deleteDevice, IInv, TypeOK, IOTypeOK
<1> QED BY <1>1, <1>3 DEF LifeInv, WaitsForConnect, ToldOf

(* The steps of the loop. *)
LEMMA LoopLife ==
    ASSUME IInv, LifeInv, Loop
    PROVE  LifeInv' /\ LifeStep
<1>1. CASE \/ EpollWait /\ UNCHANGED tcpVars
           \/ EndDispatch("timers") /\ UNCHANGED tcpVars
           \/ EndTimers /\ UNCHANGED tcpVars
  BY <1>1, QuietStep DEF EpollWait, EndDispatch, EndTimers, tcpVars, ReadHandler
<1>2. ASSUME NEW a \in Addr, Dispatch(a), UNCHANGED tcpVars
      PROVE  LifeInv' /\ LifeStep
  <2>1. pc # "app" /\ pc' # "app"
    BY <1>2 DEF Dispatch, Stage, Callback, IInv, TypeOK, IOTypeOK, ReadCallbacks,
                WriteCallbacks
  <2>2. ReadHandler'
    BY <1>2 DEF ReadHandler, Dispatch, Stage, Callback, IInv, TypeOK, IOTypeOK, WriteCallbacks
  <2> QED BY <1>2, <2>1, <2>2, QuietStep DEF Dispatch, tcpVars
<1>3. ASSUME NEW cb \in {"main", "timer_cb"}, pc # "app", pc' = "app",
             frame'.cb = cb, frame'.id = 0,
             UNCHANGED <<sockets, status, next_id, read_cb, write_cb>>
      PROVE  LifeInv' /\ LifeStep
  <2>1. LifeInv'
    BY <1>3 DEF LifeInv, FrameMatches, WaitsForConnect, ToldOf, ReadHandler
  <2>2. Life!Tell(cb, 0)
    BY <1>3 DEF LifeInv, FrameMatches, Life!Tell, Life!Quiet
  <2>3. Life!Other
    BY <1>3, <2>2, SamePhases DEF Life!Other
  <2> QED BY <2>1, <2>3 DEF LifeStep, Life!LifeNext
<1>4. CASE AppTimer
  BY <1>3, <1>4 DEF AppTimer, EndDispatch
<1>5. CASE LeaveLoop
  BY <1>3, <1>5 DEF LeaveLoop, CallApp
<1> QED BY <1>1, <1>2, <1>4, <1>5 DEF Loop

(* Two sockets are two devices. *)
LEMMA OtherDevices ==
    ASSUME IInv, NEW i \in Ids, InMap(i), NEW j \in Ids, InMap(j), i # j
    PROVE  sockets[i] \in Addr /\ sockets[j] \in Addr /\ sockets[i] # sockets[j]
<1>1. sockets[i] \in Addr /\ sockets[j] \in Addr
  BY DEF IInv, TypeOK
<1>2. device_id[sockets[i]] = i /\ device_id[sockets[j]] = j
  BY DEF IInv, MapInv, MapsAgree
<1> QED BY <1>1, <1>2

(* The handlers of the events. *)
LEMMA HandlerLife ==
    ASSUME IInv, IInv', LifeInv, Handler
    PROVE  LifeInv' /\ LifeStep
<1>1. PhaseRead /\ PhaseRead'
  BY PhasesAreRead, PTL
<1>2. ASSUME pc \in Handlers
      PROVE  sid \in Ids /\ InMap(sid) /\ sockets[sid] = io_device
  BY <1>2, HandlerId
<1>3. ASSUME NEW a \in Addr, Accept(a)
      PROVE  LifeInv' /\ LifeStep
  <2>1. InsertSocket(a, "onSocketRead", "null", "CONNECTED") /\ pc # "app" /\ pc' = "app"
        /\ CallApp("new_conn_cb", next_id, "onListenSocketRead")
    BY <1>3 DEF Accept, buildConnectedSocket, CallApp
  <2>2. next_id \in Ids /\ Life!Become(next_id, {"unused"}, "connected")
    BY <2>1, BuildPhase
  <2>3. Life!Tell("new_conn_cb", next_id)
    BY <2>1, Tells
  <2>4. Life!Accepted(next_id)
    BY <2>2, <2>3 DEF Life!Accepted
  <2>5. WaitsForConnect'
    BY <2>1, BuildWaits
  <2>6. FrameMatches' /\ ReadHandler'
    BY <2>1 DEF FrameMatches, ReadHandler, CallApp
  <2> QED BY <2>2, <2>4, <2>5, <2>6 DEF LifeInv, LifeStep, Life!LifeNext
<1>4. CASE AcceptNone \/ NoConnection \/ RecvNothing \/ WritePartial
  BY <1>4, QuietStep DEF AcceptNone, NoConnection, RecvNothing, WritePartial, Done, Handlers,
     ReadCallbacks, WriteCallbacks, ReadHandler
<1>5. ASSUME NEW i \in Ids, InMap(i), status[i] # "NONE", PeerClosed(i), pc # "app"
      PROVE  LifeInv' /\ LifeStep
  <2>1. /\ status'[i] = "PEER_CLOSED" /\ \A j \in Ids : j # i => status'[j] = status[j]
    BY <1>5 DEF PeerClosed, IInv, TypeOK
  <2> QED BY <1>5, <2>1, FailureIsTold DEF PeerClosed
<1>6. ASSUME pc \in Handlers, status[sid] # "NONE", setError(sid),
             CallApp("error_cb", sid, "dispatch"), UNCHANGED <<sockets, next_id, read_cb, write_cb>>
      PROVE  LifeInv' /\ LifeStep
  <2>1. PICK i \in Ids : i = sid /\ InMap(i)
    BY <1>2, <1>6
  <2>2. /\ status'[i] = "PENDING_ERROR" /\ \A j \in Ids : j # i => status'[j] = status[j]
    BY <1>6, <2>1 DEF setError, IInv, TypeOK
  <2>3. pc # "app" /\ CallApp("error_cb", i, "dispatch") /\ status[i] # "NONE"
    BY <1>6, <2>1 DEF Handlers, ReadCallbacks, WriteCallbacks
  <2> QED BY <1>6, <2>1, <2>2, <2>3, FailureIsTold
<1>7. CASE AsyncConnectFailed \/ RecvFailed \/ WriteFailed \/ SocketError
  BY <1>6, <1>7 DEF AsyncConnectFailed, RecvFailed, WriteFailed, SocketError, Handlers,
     ReadCallbacks, WriteCallbacks
<1>8. CASE RecvPeerClosed
  BY <1>2, <1>5, <1>8 DEF RecvPeerClosed, Handlers, ReadCallbacks
<1>9. CASE AfterRecv
  <2>1. ev_id[io_device] \in Ids
    BY <1>9 DEF IInv, TypeOK, IOTypeOK, LoopInv, RecvKeepsId, AfterRecv
  <2>2. CASE StillConnected(ev_id[io_device])
    BY <1>5, <1>9, <2>1, <2>2 DEF AfterRecv, StillConnected, IInv, MapInv, MapsAgree
  <2>3. CASE ~StillConnected(ev_id[io_device])
    BY <1>9, <2>3, QuietStep DEF AfterRecv, Done, ReadHandler
  <2> QED BY <2>2, <2>3
<1>10. CASE AsyncConnected
  <2>1. PICK i \in Ids : i = sid /\ InMap(i) /\ sockets[i] = io_device
    BY <1>2, <1>10 DEF AsyncConnected, Handlers, WriteCallbacks
  <2>2. status[i] = "CONNECTING"
    <3>1. write_cb[sockets[i]] = "onAsyncConnectSocketWrite"
      BY <1>10, <2>1 DEF AsyncConnected, IInv, LoopInv, WriteHandler, WriteCallbacks
    <3> QED BY <1>10, <2>1, <3>1 DEF AsyncConnected, LifeInv, WaitsForConnect, ToldOf
  <2>3. /\ status'[i] = "CONNECTED" /\ sockets' = sockets /\ next_id' = next_id
        /\ \A j \in Ids : j # i => status'[j] = status[j]
        /\ CallApp("new_conn_cb", i, "dispatch") /\ pc # "app"
    BY <1>10, <2>1 DEF AsyncConnected, IInv, TypeOK
  <2>4. Life!Become(i, {"connecting"}, "connected")
    <3>1. PhaseOf(i) \in {"connecting"} /\ PhaseOf(i)' = "connected"
      BY <1>1, <2>1, <2>2, <2>3 DEF PhaseRead
    <3>2. \A j \in Ids : j # i => PhaseOf(j)' = PhaseOf(j)
      BY <2>3 DEF PhaseOf
    <3> QED BY <3>1, <3>2, Becomes
  <2>5. Life!Connected(i)
    BY <2>3, <2>4, Tells DEF Life!Connected
  <2>6. FrameMatches' /\ ReadHandler'
    BY <2>3 DEF FrameMatches, ReadHandler, CallApp
  <2>7. WaitsForConnect'
    <3>1. /\ write_cb' = [write_cb EXCEPT ![io_device] = "null"]
          /\ read_cb' = [read_cb EXCEPT ![io_device] = "onSocketRead"]
      BY <1>10 DEF AsyncConnected, setWriteCallback, setReadCallback
    <3>2. io_device \in Addr
      BY <2>1 DEF IInv, TypeOK
    <3>3. write_cb'[io_device] = "null"
          /\ \A a \in Addr : a # io_device =>
                 write_cb'[a] = write_cb[a] /\ read_cb'[a] = read_cb[a]
      BY <3>1, <3>2 DEF IInv, TypeOK, IOTypeOK
    <3>4. pc # "app"
      BY <2>3
    <3> QED BY <2>1, <2>3, <3>3, <3>4, OtherDevices DEF LifeInv, WaitsForConnect, ToldOf
  <2> QED BY <2>5, <2>6, <2>7 DEF LifeInv, LifeStep, Life!LifeNext
<1>11. ASSUME pc \in {"onSocketRead", "onSocketWrite"}, status[sid] # "NONE"
       PROVE  PhaseOf(sid) \in {"connected", "failed"} /\ status[sid] # "CONNECTING"
  <2>1. sid \in Ids /\ InMap(sid) /\ sockets[sid] = io_device
    BY <1>2, <1>11 DEF Handlers, ReadCallbacks, WriteCallbacks
  <2>2. read_cb[io_device] = "onSocketRead" \/ write_cb[io_device] = "onSocketWrite"
    BY <1>11 DEF LifeInv, ReadHandler, IInv, LoopInv, WriteHandler, WriteCallbacks
  <2>3. status[sid] # "CONNECTING"
    BY <2>1, <2>2 DEF LifeInv, WaitsForConnect
  <2> QED BY <1>1, <1>11, <2>1, <2>3 DEF PhaseRead, IInv, TypeOK, Statuses
<1>12. ASSUME NEW peer_close \in BOOLEAN, RecvData(peer_close)
       PROVE  LifeInv' /\ LifeStep
  <2>1. /\ pc = "onSocketRead" /\ status[sid] # "NONE" /\ pc' = "app"
        /\ frame'.cb = "recv_message_cb"
        /\ CallApp("recv_message_cb", sid, IF peer_close THEN "afterRecv" ELSE "dispatch")
        /\ UNCHANGED <<sockets, status, next_id, read_cb, write_cb>>
    BY <1>12 DEF RecvData, CallApp
  <2>2. PICK i \in Ids : i = sid /\ PhaseOf(i) \in {"connected", "failed"}
    BY <1>2, <1>11, <2>1 DEF Handlers, ReadCallbacks
  <2>3. Life!Tell("recv_message_cb", i)
    BY <2>1, <2>2, Tells
  <2>4. Life!Message(i)
    BY <2>1, <2>2, <2>3, SamePhases DEF Life!Message
  <2>5. LifeInv'
    BY <2>1 DEF LifeInv, FrameMatches, WaitsForConnect, ToldOf, ReadHandler
  <2> QED BY <2>4, <2>5 DEF LifeStep, Life!LifeNext
<1>13. CASE WriteAll
  <2>1. pc = "onSocketWrite" /\ status[sid] # "NONE" /\ next_id' = next_id
    BY <1>13 DEF WriteAll
  <2>2. PICK i \in Ids : /\ i = sid /\ PhaseOf(i) \in {"connected", "failed"} /\ InMap(i)
                         /\ sockets[i] = io_device /\ status[i] # "CONNECTING"
    BY <1>2, <1>11, <2>1 DEF Handlers, WriteCallbacks
  <2>3. CASE send_cb[sid] = "sendCompleteCloseCallback"
    <3>1. closeSocket(i) /\ pc' = "dispatch" /\ frame' = frame
      BY <1>13, <2>2, <2>3 DEF WriteAll, Done
    <3>2. Life!Become(i, {PhaseOf(i)}, "closed")
      BY <2>1, <2>2, <3>1, ClosePhase
    <3>3. Life!SentAndClosed(i)
      BY <2>1, <2>2, <3>1, <3>2 DEF Life!SentAndClosed, Life!Become, Life!Quiet, LifeInv,
         FrameMatches
    <3>4. WaitsForConnect'
      BY <2>1, <2>2, <3>1, CloseWaits
    <3>5. FrameMatches' /\ ReadHandler'
      BY <2>1, <3>1 DEF LifeInv, FrameMatches, ReadHandler
    <3> QED BY <3>3, <3>4, <3>5 DEF LifeInv, LifeStep, Life!LifeNext
  <2>4. CASE send_cb[sid] # "sendCompleteCloseCallback"
    <3>1. /\ write_cb' = [write_cb EXCEPT ![io_device] = "null"]
          /\ UNCHANGED <<sockets, status, next_id, read_cb>>
          /\ \/ CallApp("send_complete_cb", i, "dispatch")
             \/ pc' = "dispatch" /\ frame' = frame
      BY <1>13, <2>1, <2>2, <2>4 DEF WriteAll, setWriteCallback, Done
    <3>2. LifeInv'
      <4>1. write_cb'[io_device] = "null"
            /\ \A a \in Addr : a # io_device => write_cb'[a] = write_cb[a]
        BY <2>2, <3>1 DEF IInv, TypeOK, IOTypeOK
      <4>2. WaitsForConnect'
        BY <2>1, <2>2, <3>1, <4>1, OtherDevices DEF LifeInv, WaitsForConnect, ToldOf
      <4>3. FrameMatches' /\ ReadHandler'
        BY <2>1, <3>1 DEF LifeInv, FrameMatches, ReadHandler, CallApp
      <4> QED BY <4>2, <4>3 DEF LifeInv
    <3>3. CASE CallApp("send_complete_cb", i, "dispatch")
      <4>1. Life!Sent(i)
        BY <2>1, <2>2, <3>1, <3>3, Tells, SamePhases DEF Life!Sent
      <4> QED BY <3>2, <4>1 DEF LifeStep, Life!LifeNext
    <3>4. CASE frame' = frame
      BY <3>1, <3>2, <3>4, SamePhases DEF LifeStep, Life!lifeVars
    <3> QED BY <3>1, <3>3, <3>4
  <2> QED BY <2>3, <2>4
<1> QED BY <1>3, <1>4, <1>7, <1>8, <1>9, <1>10, <1>12, <1>13 DEF Handler

(* The timers of the service. *)
LEMMA TimerLife ==
    ASSUME IInv, IInv', LifeInv, NEW t \in Tids, FireTimer(t)
    PROVE  LifeInv' /\ LifeStep
<1>1. /\ pc = "timers" /\ timers[t] # "none"
      /\ UNCHANGED <<sockets, next_id, read_cb, write_cb>>
  BY DEF FireTimer
<1>2. PICK i \in Ids : i = t2s[t] /\ s2t[i] = t
  BY <1>1 DEF IInv, TypeOK, MapInv, TimerMapsAgree
<1>3. CASE InMap(i) /\ status[i] # "NONE"
  <2>1. CallApp("error_cb", i, "timers")
    BY <1>2, <1>3 DEF FireTimer
  <2>2. /\ status'[i] \in {"PENDING_ERROR", "PEER_CLOSED"}
        /\ \A j \in Ids : j # i => status'[j] = status[j]
    <3>1. CASE timers[t] = "onAsyncConnectTimeout"
      BY <1>2, <1>3, <3>1 DEF FireTimer, TimeoutConnect, setError, IInv, TypeOK
    <3>2. CASE timers[t] # "onAsyncConnectTimeout"
      <4>1. status' = status
        BY <1>2, <1>3, <3>2 DEF FireTimer
      <4>2. status[i] # "CONNECTED" /\ status[i] # "CONNECTING"
        BY <1>2, <3>2 DEF IInv, MapInv, NoTimerOnConnected, ConnectTimer
      <4>3. status[i] \in Statuses
        BY DEF IInv, TypeOK
      <4> QED BY <1>3, <4>1, <4>2, <4>3 DEF Statuses
    <3> QED BY <3>1, <3>2
  <2> QED BY <1>1, <1>3, <2>1, <2>2, FailureIsTold
<1>4. CASE ~(InMap(i) /\ status[i] # "NONE")
  <2>1. UNCHANGED <<pc, frame, status>>
    BY <1>2, <1>4 DEF FireTimer
  <2>2. ReadHandler'
    BY <1>1, <2>1 DEF ReadHandler
  <2> QED BY <1>1, <2>1, <2>2, QuietStep
<1> QED BY <1>3, <1>4

(* The calls of the application. *)
LEMMA AppLife ==
    ASSUME IInv, IInv', LifeInv, App
    PROVE  LifeInv' /\ LifeStep
<1>1. PhaseRead /\ PhaseRead'
  BY PhasesAreRead, PTL
<1>2. ASSUME NEW call, InApp(call)
      PROVE  /\ pc = "app" /\ pc' = "app" /\ frame' = frame
             /\ FrameMatches' /\ ReadHandler' /\ Life!InCallback
  <2>1. next_id \in Nat /\ next_id' \in Nat /\ next_id <= next_id'
    BY DEF IInv, TypeOK, App, Listen, Connect, AsyncConnect, buildListenSocket,
       buildConnectedSocket, buildAsyncConnectSocket, InsertSocket, CloseSocket,
       SendAllThenClose, SendFailed, SetContext, SendBuffered, Quit
  <2>2. frame.id \in Ids /\ frame.id < next_id => frame.id < next_id'
    BY <2>1
  <2> QED BY <1>2, <2>2, StaysInCallback DEF InApp, LifeInv, FrameMatches, ReadHandler
<1>3. ASSUME NEW a \in Addr, Listen(a)
      PROVE  LifeInv' /\ LifeStep
  <2>1. InApp("listen") /\ InsertSocket(a, "onListenSocketRead", "null", "NONE")
    BY <1>3 DEF Listen, buildListenSocket
  <2>2. next_id \in Ids /\ Life!Become(next_id, {"unused"}, "listening")
    BY <2>1, BuildPhase
  <2>3. WaitsForConnect'
    BY <1>2, <2>1, BuildWaits
  <2>4. Life!Listen(next_id)
    BY <1>2, <2>1, <2>2 DEF Life!Listen
  <2> QED BY <1>2, <2>1, <2>2, <2>3, <2>4 DEF LifeInv, LifeStep, Life!LifeNext
<1>4. ASSUME NEW a \in Addr, Connect(a)
      PROVE  LifeInv' /\ LifeStep
  <2>1. InApp("connect") /\ InsertSocket(a, "onSocketRead", "null", "CONNECTED")
    BY <1>4 DEF Connect, buildConnectedSocket
  <2>2. next_id \in Ids /\ Life!Become(next_id, {"unused"}, "connected")
    BY <2>1, BuildPhase
  <2>3. WaitsForConnect'
    BY <1>2, <2>1, BuildWaits
  <2>4. Life!Connect(next_id)
    BY <1>2, <2>1, <2>2 DEF Life!Connect
  <2> QED BY <1>2, <2>1, <2>2, <2>3, <2>4 DEF LifeInv, LifeStep, Life!LifeNext
<1>5. ASSUME NEW a \in Addr, NEW timeout \in BOOLEAN, AsyncConnect(a, timeout)
      PROVE  LifeInv' /\ LifeStep
  <2>1. /\ InApp("asyncConnect")
        /\ InsertSocket(a, "null", "onAsyncConnectSocketWrite", "CONNECTING")
    BY <1>5 DEF AsyncConnect, buildAsyncConnectSocket
  <2>2. next_id \in Ids /\ Life!Become(next_id, {"unused"}, "connecting")
    BY <2>1, BuildPhase
  <2>3. WaitsForConnect'
    BY <1>2, <2>1, BuildWaits
  <2>4. Life!StartConnect(next_id)
    BY <1>2, <2>1, <2>2 DEF Life!StartConnect
  <2> QED BY <1>2, <2>1, <2>2, <2>3, <2>4 DEF LifeInv, LifeStep, Life!LifeNext
<1>6. ASSUME NEW i \in Ids, CloseSocket(i) \/ SendAllThenClose(i)
      PROVE  LifeInv' /\ LifeStep
  <2>1. PICK call : InApp(call)
    BY <1>6 DEF CloseSocket, SendAllThenClose
  <2>2. closeSocket(i) /\ InMap(i) /\ next_id' = next_id
    BY <1>6 DEF CloseSocket, SendAllThenClose, IInv, MapInv, MapsAgree
  <2>3. Life!Become(i, Life!Open, "closed")
    BY <2>2, ClosePhase DEF Life!Become
  <2>4. Life!Close(i)
    BY <1>2, <2>1, <2>3 DEF Life!Close
  <2>5. WaitsForConnect'
    BY <1>2, <2>1, <2>2, CloseWaits
  <2> QED BY <1>2, <2>1, <2>4, <2>5 DEF LifeInv, LifeStep, Life!LifeNext
<1>7. ASSUME NEW i \in Ids, SendFailed(i)
      PROVE  LifeInv' /\ LifeStep
  <2>1. PICK call : InApp(call)
    BY <1>7 DEF SendFailed
  <2>2. /\ status[i] = "CONNECTED" /\ status'[i] = "PENDING_ERROR" /\ InMap(i)
        /\ \A j \in Ids : j # i => status'[j] = status[j]
        /\ UNCHANGED <<sockets, next_id, read_cb, write_cb>>
    BY <1>7 DEF SendFailed, setError, IInv, TypeOK, MapInv, MapsAgree
  <2>3. PhaseOf(i) \in {"connected"} /\ PhaseOf(i)' = "failed"
    BY <1>1, <2>2 DEF PhaseRead
  <2>4. \A j \in Ids : j # i => PhaseOf(j)' = PhaseOf(j)
    BY <2>2 DEF PhaseOf
  <2>5. Life!Become(i, {"connected"}, "failed")
    BY <2>3, <2>4, Becomes
  <2>6. Life!Lose(i)
    BY <1>2, <2>1, <2>5 DEF Life!Lose
  <2>7. WaitsForConnect'
    BY <1>2, <2>1, <2>2 DEF LifeInv, WaitsForConnect, ToldOf
  <2> QED BY <1>2, <2>1, <2>6, <2>7 DEF LifeInv, LifeStep, Life!LifeNext
<1>8. ASSUME NEW i \in Ids, NEW cb \in SendCompletes, SendBuffered(i, cb)
      PROVE  LifeInv' /\ LifeStep
  <2>1. PICK call : InApp(call)
    BY <1>8 DEF SendBuffered
  <2>2. /\ status[i] = "CONNECTED" /\ InMap(i)
        /\ write_cb' = [write_cb EXCEPT ![sockets[i]] = "onSocketWrite"]
        /\ UNCHANGED <<sockets, status, next_id, read_cb>>
    BY <1>8 DEF SendBuffered, setWriteCallback, IInv, MapInv, MapsAgree
  <2>3. /\ write_cb'[sockets[i]] = "onSocketWrite"
        /\ \A a \in Addr : a # sockets[i] => write_cb'[a] = write_cb[a]
    BY <2>2 DEF IInv, TypeOK, IOTypeOK
  <2>4. WaitsForConnect'
    BY <1>2, <2>1, <2>2, <2>3, OtherDevices DEF LifeInv, WaitsForConnect, ToldOf
  <2>5. UNCHANGED Life!lifeVars
    BY <1>2, <2>1, <2>2, SamePhases DEF Life!lifeVars
  <2> QED BY <1>2, <2>1, <2>4, <2>5 DEF LifeInv, LifeStep
<1>9. ASSUME Quit \/ \E i \in Ids : SetContext(i)
      PROVE  LifeInv' /\ LifeStep
  <2>1. PICK call : InApp(call)
    BY <1>9 DEF Quit, SetContext
  <2>2. UNCHANGED <<sockets, status, next_id, read_cb, write_cb>>
    BY <1>9 DEF Quit, SetContext
  <2>3. WaitsForConnect'
    BY <1>2, <2>1, <2>2 DEF LifeInv, WaitsForConnect, ToldOf
  <2>4. UNCHANGED Life!lifeVars
    BY <1>2, <2>1, <2>2, SamePhases DEF Life!lifeVars
  <2> QED BY <1>2, <2>1, <2>3, <2>4 DEF LifeInv, LifeStep
<1> QED BY <1>3, <1>4, <1>5, <1>6, <1>7, <1>8, <1>9 DEF App

(* A callback returns; this is where the application must have closed the
   socket whose failure it was told of. *)
LEMMA ReturnLife ==
    ASSUME ClosesFailed, IInv, IInv', LifeInv, Return
    PROVE  LifeInv' /\ LifeStep
<1>1. /\ pc = "app" /\ pc' = frame.ret /\ frame' = NoFrame
      /\ frame.cb \in {"error_cb", "peer_close_cb"} => ~InMap(frame.id)
      /\ UNCHANGED <<sockets, status, next_id, read_cb, write_cb>>
  BY DEF Return
<1>2. pc' # "app" /\ pc' # "onSocketRead"
  BY <1>1 DEF IInv, LoopInv, FrameReturns
<1>3. LifeInv'
  <2>1. FrameMatches' /\ ReadHandler'
    BY <1>1, <1>2 DEF FrameMatches, ReadHandler, NoFrame
  <2>2. WaitsForConnect'
    BY <1>1 DEF LifeInv, WaitsForConnect, ToldOf
  <2> QED BY <2>1, <2>2 DEF LifeInv
<1>4. frame.cb \in {"error_cb", "peer_close_cb"} => frame.id \in Ids /\ PhaseOf(frame.id) = "closed"
  BY <1>1, PhasesAreRead DEF PhaseRead, LifeInv, FrameMatches
<1>5. Life!Finish
  BY <1>1, <1>4, SamePhases DEF Life!Finish, Life!Quiet, LifeInv, FrameMatches, NoFrame
<1> QED BY <1>3, <1>5 DEF LifeStep, Life!LifeNext

(* Whatever the events, the timers and the calls: an application that closes
   the sockets whose failure it is told of sees each socket live once, gets no
   callback outside the part of a socket's life it is for, and is told of a
   failure once. *)
THEOREM LivesAreInOrder ==
    ASSUME ClosesFailed PROVE Spec => ImplementsLifecycle
<1>1. Init => LifeInv /\ Life!LifeInit
  BY DEF Init, IOInit, LifeInv, FrameMatches, WaitsForConnect, ReadHandler, PhaseOf,
         Life!LifeInit
<1>2. ASSUME IInv, IInv', LifeInv, [Next]_vars
      PROVE  LifeInv' /\ [Life!LifeNext]_(Life!lifeVars)
  <2>1. CASE Next
    BY <1>2, <2>1, LoopLife, HandlerLife, TimerLife, AppLife, ReturnLife DEF Next, LifeStep
  <2>2. CASE UNCHANGED vars
    <3>1. UNCHANGED <<pc, frame, io_device, sockets, status, next_id, read_cb, write_cb>>
      BY <2>2 DEF vars, ioVars, tcpVars
    <3>2. LifeInv'
      BY <1>2, <3>1 DEF LifeInv, FrameMatches, WaitsForConnect, ToldOf, ReadHandler
    <3> QED BY <3>1, <3>2, SamePhases DEF Life!lifeVars
  <2> QED BY <1>2, <2>1, <2>2
<1> QED BY <1>1, <1>2, SpecIInv, PTL DEF Spec, ImplementsLifecycle, Life!LifeSpec
=============================================================================
