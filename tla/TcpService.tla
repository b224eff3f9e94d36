----------------------------- MODULE TcpService -----------------------------
(***************************************************************************)
(* TcpService (tcp_service.cc) on its reactor: listening sockets, accepted *)
(* and asynchronously connected connections, the callbacks of the          *)
(* application and what the application may call from them.                *)
(*                                                                         *)
(* One thread runs everything.  It is either in the loop (IOService), in a *)
(* handler of this module, or in a callback of the application; "main" is  *)
(* the application outside loop().  What interleaves is the order of the   *)
(* events in a batch, of the timers, of the answers of the kernel and of   *)
(* the calls the application makes.                                        *)
(*                                                                         *)
(* Payloads are abstracted to whether the write buffer is empty; SendPath  *)
(* has the bytes.                                                          *)
(***************************************************************************)
EXTENDS IOService

CONSTANTS
    ClosesFailed,  \* the application closes a socket whose error or peer
                   \* close it is told of, as every program in src/test does
    Calls          \* bound: the calls the application makes

AllCalls == {"listen", "connect", "asyncConnect", "closeSocket", "sendMessage",
             "sendMessageThenClose", "setContext", "quit"}

ASSUME ContractAssumption == ClosesFailed \in BOOLEAN
ASSUME CallsAssumption    == Calls \subseteq AllCalls

Statuses  == {"NONE", "CONNECTING", "CONNECTED", "PEER_CLOSED", "PENDING_ERROR"}
AppCalls  == {"main", "timer_cb", "new_conn_cb", "recv_message_cb",
              "peer_close_cb", "error_cb", "send_complete_cb"}
SendCompletes == {"null", "app", "sendCompleteCloseCallback"}

VARIABLES
    sockets,     \* sockets_: [Ids -> address of the TcpSocket, or NULL]
    status,      \* connections_: [Ids -> status_, "NONE" when not in the map]
    unsent,      \* ids whose write_buffer_ is not empty
    send_cb,     \* [Ids -> send_complete_cb_ of the connection]
    contexts,    \* contexts_: ids that have a context
    s2t,         \* socket_to_timer_map_, 0 when absent
    t2s,         \* timer_to_socket_map_, 0 when absent
    next_id,     \* socket_id_allocator_
    frame        \* the running callback of the application: which, about
                 \* which socket, and where it returns to

connVars == <<sockets, status, unsent, send_cb, contexts>>
mapVars  == <<s2t, t2s>>
tcpVars  == <<connVars, mapVars, next_id, frame>>
vars     == <<ioVars, tcpVars>>

NoFrame == [cb |-> "none", id |-> 0, ret |-> "loop"]
Frames  == [cb : AppCalls \cup {"none"}, id : Ids \cup {0}, ret : Labels]

(* Every variable holds a value of its kind; the bounds are those of the
   maps of TcpService::Impl and of IOService::Impl. *)
TypeOK ==
    /\ IOTypeOK
    /\ sockets \in [Ids -> Addr \cup {NULL}]
    /\ status \in [Ids -> Statuses]
    /\ unsent \in SUBSET Ids
    /\ send_cb \in [Ids -> SendCompletes]
    /\ contexts \in SUBSET Ids
    /\ s2t \in [Ids -> Tids \cup {0}]
    /\ t2s \in [Tids -> Ids \cup {0}]
    /\ next_id \in 1 .. MaxDevices + 1
    /\ frame \in Frames

Init ==
    /\ IOInit
    /\ sockets = [i \in Ids |-> NULL]
    /\ status = [i \in Ids |-> "NONE"]
    /\ unsent = {}
    /\ send_cb = [i \in Ids |-> "null"]
    /\ contexts = {}
    /\ s2t = [i \in Ids |-> 0]
    /\ t2s = [t \in Tids |-> 0]
    /\ next_id = 1
    /\ frame = [cb |-> "main", id |-> 0, ret |-> "loop"]

-----------------------------------------------------------------------------
(* Parts shared by the operations.                                         *)

InMap(i) == sockets[i] # NULL

(* The application callback cb about socket i begins; it returns to ret. *)
CallApp(cb, i, ret) ==
    /\ pc' = "app"
    /\ frame' = [cb |-> cb, id |-> i, ret |-> ret]

(* The tail of the three build functions: a fresh id, the socket attached at
   a free address and entered in the maps, whatever EPOLL_CTL_ADD said. *)
InsertSocket(a, rd, wr, st) ==
    /\ next_id \in Ids
    /\ device_id[a] = 0
    /\ \E ok \in EpollAdd : attachIOService(a, next_id, rd, wr, ok)
    /\ sockets' = [sockets EXCEPT ![next_id] = a]
    /\ status' = [status EXCEPT ![next_id] = st]
    /\ next_id' = next_id + 1
    /\ UNCHANGED <<unsent, send_cb, contexts>>

buildListenSocket(a)    == InsertSocket(a, "onListenSocketRead", "null", "NONE")
buildConnectedSocket(a) == InsertSocket(a, "onSocketRead", "null", "CONNECTED")

(* Faulty variant: only one of the two maps learns of the timer. *)
addSocketTimer_OneMap(i, cb) ==
    /\ startTimer(cb)
    /\ s2t' = [s2t EXCEPT ![i] = next_tid]
    /\ UNCHANGED t2s

addSocketTimer(i, cb) ==
    /\ startTimer(cb)
    /\ s2t' = [s2t EXCEPT ![i] = next_tid]
    /\ t2s' = [t2s EXCEPT ![next_tid] = i]

buildAsyncConnectSocket(a, timeout) ==
    /\ InsertSocket(a, "null", "onAsyncConnectSocketWrite", "CONNECTING")
    /\ IF timeout
       THEN addSocketTimer(next_id, "onAsyncConnectTimeout")
       ELSE UNCHANGED <<timerVars, mapVars>>

(* stopTimer is removeTimer of the heap, a no-op for a timer that fired. *)
removeSocketTimer(i) ==
    IF s2t[i] = 0
    THEN UNCHANGED <<timerVars, mapVars>>
    ELSE /\ s2t' = [s2t EXCEPT ![i] = 0]
         /\ t2s' = [t2s EXCEPT ![s2t[i]] = 0]
         /\ timers' = [timers EXCEPT ![s2t[i]] = "none"]
         /\ UNCHANGED next_tid

(* setError *)
setError(i) == status' = [status EXCEPT ![i] = "PENDING_ERROR"]

(* Faulty variant: the context of the socket is not deleted. *)
closeSocket_KeepsContext(i) ==
    /\ deleteDevice(sockets[i])
    /\ sockets' = [sockets EXCEPT ![i] = NULL]
    /\ status' = [status EXCEPT ![i] = "NONE"]
    /\ unsent' = unsent \ {i}
    /\ send_cb' = [send_cb EXCEPT ![i] = "null"]
    /\ UNCHANGED contexts

(* closeSocket deletes connection, socket and context.  The socket's timer,
   if any, stays in both maps until it fires. *)
closeSocket(i) ==
    /\ deleteDevice(sockets[i])
    /\ sockets' = [sockets EXCEPT ![i] = NULL]
    /\ status' = [status EXCEPT ![i] = "NONE"]
    /\ unsent' = unsent \ {i}
    /\ send_cb' = [send_cb EXCEPT ![i] = "null"]
    /\ contexts' = contexts \ {i}

-----------------------------------------------------------------------------
(* Handlers: pc names the callback, sid is socket->getId().                *)

sid == device_id[io_device]

Done == pc' = "dispatch" /\ UNCHANGED frame

(* onListenSocketRead: one turn of its for(;;).  accept() gave a socket. *)
Accept(a) ==
    /\ pc = "onListenSocketRead"
    /\ buildConnectedSocket(a)
    /\ CallApp("new_conn_cb", next_id, "onListenSocketRead")
    /\ UNCHANGED <<quit, batchVars, timerVars, mapVars>>

(* EAGAIN, or an error that ends the handler; ECONNABORTED tries again. *)
AcceptNone ==
    /\ pc = "onListenSocketRead"
    /\ Done
    /\ UNCHANGED <<quit, deviceVars, batchVars, removed, timerVars,
                   connVars, mapVars, next_id>>

(* A handler whose socket has no connection: logged and returned from.
   A listening socket's EPOLLERR | EPOLLHUP ends here. *)
NoConnection ==
    /\ pc \in Handlers \ {"onListenSocketRead"}
    /\ status[sid] = "NONE"
    /\ IF pc = "onAsyncConnectSocketWrite"
       THEN removeSocketTimer(sid)
       ELSE UNCHANGED <<timerVars, mapVars>>
    /\ Done
    /\ UNCHANGED <<quit, deviceVars, batchVars, removed, connVars, next_id>>

(* onAsyncConnectSocketWrite: SO_ERROR is set. *)
AsyncConnectFailed ==
    /\ pc = "onAsyncConnectSocketWrite"
    /\ status[sid] # "NONE"
    /\ removeSocketTimer(sid)
    /\ setError(sid)
    /\ CallApp("error_cb", sid, "dispatch")
    /\ UNCHANGED <<quit, deviceVars, batchVars, removed,
                   sockets, unsent, send_cb, contexts, next_id>>

(* Faulty variant: the connect timer keeps running. *)
AsyncConnected_KeepsTimer ==
    /\ pc = "onAsyncConnectSocketWrite"
    /\ status[sid] # "NONE"
    /\ setReadCallback(io_device, "onSocketRead")
    /\ setWriteCallback(io_device, "null")
    /\ status' = [status EXCEPT ![sid] = "CONNECTED"]
    /\ CallApp("new_conn_cb", sid, "dispatch")
    /\ UNCHANGED <<quit, device_id, attached, refused, batchVars, removed, timerVars,
                   sockets, unsent, send_cb, contexts, mapVars, next_id>>

(* onAsyncConnectSocketWrite: SO_ERROR is 0. *)
AsyncConnected ==
    /\ pc = "onAsyncConnectSocketWrite"
    /\ status[sid] # "NONE"
    /\ removeSocketTimer(sid)
    /\ setReadCallback(io_device, "onSocketRead")
    /\ setWriteCallback(io_device, "null")
    /\ status' = [status EXCEPT ![sid] = "CONNECTED"]
    /\ CallApp("new_conn_cb", sid, "dispatch")
    /\ UNCHANGED <<quit, device_id, attached, refused, batchVars, removed,
                   sockets, unsent, send_cb, contexts, next_id>>

(* onSocketRead: its for(;;) over recv() ended with recv() failing; whatever
   was read before is not delivered. *)
RecvFailed ==
    /\ pc = "onSocketRead"
    /\ status[sid] # "NONE"
    /\ setError(sid)
    /\ CallApp("error_cb", sid, "dispatch")
    /\ UNCHANGED <<quit, deviceVars, batchVars, removed, timerVars,
                   sockets, unsent, send_cb, contexts, mapVars, next_id>>

(* It ended at EAGAIN with nothing read. *)
RecvNothing ==
    /\ pc = "onSocketRead"
    /\ status[sid] # "NONE"
    /\ Done
    /\ UNCHANGED <<quit, deviceVars, batchVars, removed, timerVars,
                   connVars, mapVars, next_id>>

(* It ended with data, at EAGAIN or with peer_close set (recv() gave 0, or
   the data would exceed conn_read_buffer_max_size_). *)
RecvData(peer_close) ==
    /\ pc = "onSocketRead"
    /\ status[sid] # "NONE"
    /\ CallApp("recv_message_cb", sid, IF peer_close THEN "afterRecv" ELSE "dispatch")
    /\ UNCHANGED <<quit, deviceVars, batchVars, removed, timerVars,
                   connVars, mapVars, next_id>>

(* setStatus(PEER_CLOSED) and the callback. *)
PeerClosed(i) ==
    /\ status' = [status EXCEPT ![i] = "PEER_CLOSED"]
    /\ CallApp("peer_close_cb", i, "dispatch")
    /\ UNCHANGED <<quit, deviceVars, batchVars, removed, timerVars,
                   sockets, unsent, send_cb, contexts, mapVars, next_id>>

(* It ended with peer_close set and no data. *)
RecvPeerClosed ==
    /\ pc = "onSocketRead"
    /\ status[sid] # "NONE"
    /\ PeerClosed(sid)

(* Faulty variant: the look-up after the message callback is left out. *)
StillConnected_Assumed(i) == TRUE

(* After the message callback of a read that found the peer closed: is the
   id it kept in a local still in connections_? *)
StillConnected(i) == status[i] # "NONE"

AfterRecv ==
    /\ pc = "afterRecv"
    /\ IF StillConnected(ev_id[io_device])
       THEN PeerClosed(ev_id[io_device])
       ELSE /\ Done
            /\ UNCHANGED <<quit, deviceVars, batchVars, removed, timerVars,
                           connVars, mapVars, next_id>>

(* onSocketWrite: send() failed with other than EAGAIN. *)
WriteFailed ==
    /\ pc = "onSocketWrite"
    /\ status[sid] # "NONE"
    /\ setError(sid)
    /\ CallApp("error_cb", sid, "dispatch")
    /\ UNCHANGED <<quit, deviceVars, batchVars, removed, timerVars,
                   sockets, unsent, send_cb, contexts, mapVars, next_id>>

(* onSocketWrite: EAGAIN, or a part was taken. *)
WritePartial ==
    /\ pc = "onSocketWrite"
    /\ status[sid] # "NONE"
    /\ Done
    /\ UNCHANGED <<quit, deviceVars, batchVars, removed, timerVars,
                   connVars, mapVars, next_id>>

(* onSocketWrite: the buffer is drained.  The callback is cleared before it
   is called; it may be the application's or sendCompleteCloseCallback. *)
WriteAll ==
    /\ pc = "onSocketWrite"
    /\ status[sid] # "NONE"
    /\ IF send_cb[sid] = "sendCompleteCloseCallback"
       THEN closeSocket(sid) /\ Done
       ELSE /\ setWriteCallback(io_device, "null")
            /\ unsent' = unsent \ {sid}
            /\ send_cb' = [send_cb EXCEPT ![sid] = "null"]
            /\ IF send_cb[sid] = "app"
               THEN CallApp("send_complete_cb", sid, "dispatch")
               ELSE Done
            /\ UNCHANGED <<device_id, read_cb, attached, refused, removed,
                           sockets, status, contexts>>
    /\ UNCHANGED <<quit, batchVars, timerVars, mapVars, next_id>>

(* onSocketError.  The connect timer, if one runs, is left alone. *)
SocketError ==
    /\ pc = "onSocketError"
    /\ status[sid] # "NONE"
    /\ setError(sid)
    /\ CallApp("error_cb", sid, "dispatch")
    /\ UNCHANGED <<quit, deviceVars, batchVars, removed, timerVars,
                   sockets, unsent, send_cb, contexts, mapVars, next_id>>

-----------------------------------------------------------------------------
(* Timer callbacks.  checkTimeout has taken the timer out of the heap before
   it calls them.  Which timers are due is left to the clock: any order. *)

(* The common head of the two callbacks: the entries of both maps go. *)
ForgetTimer(t) ==
    /\ t2s' = [t2s EXCEPT ![t] = 0]
    /\ s2t' = [s2t EXCEPT ![t2s[t]] = 0]

(* Faulty variant: the connection is closed and not marked as failed. *)
TimeoutConnect_NoError(i) ==
    /\ detachIOService(sockets[i])
    /\ UNCHANGED status

(* onAsyncConnectTimeout closes the socket and keeps the object: it stays in
   sockets_ until the application calls closeSocket. *)
TimeoutConnect(i) ==
    /\ detachIOService(sockets[i])
    /\ setError(i)

FireTimer(t) ==
    /\ pc = "timers"
    /\ timers[t] # "none"
    /\ timers' = [timers EXCEPT ![t] = "none"]
    /\ IF t2s[t] = 0
       THEN UNCHANGED mapVars
       ELSE ForgetTimer(t)
    /\ IF t2s[t] # 0 /\ InMap(t2s[t]) /\ status[t2s[t]] # "NONE"
       THEN /\ IF timers[t] = "onAsyncConnectTimeout"
               THEN TimeoutConnect(t2s[t])
               ELSE UNCHANGED <<attached, removed, status>>
            /\ CallApp("error_cb", t2s[t], "timers")
       ELSE UNCHANGED <<pc, frame, attached, removed, status>>
    /\ UNCHANGED <<quit, device_id, read_cb, write_cb, refused, batchVars, next_tid,
                   sockets, unsent, send_cb, contexts, next_id>>

-----------------------------------------------------------------------------
(* What the application calls, from main or from any of its callbacks.     *)

InApp(call) == call \in Calls /\ pc = "app" /\ UNCHANGED <<pc, frame>>

(* listen, shareListen *)
Listen(a) ==
    /\ InApp("listen")
    /\ buildListenSocket(a)
    /\ UNCHANGED <<quit, batchVars, timerVars, mapVars>>

(* connect, and asyncConnect when connect(2) succeeds at once *)
Connect(a) ==
    /\ InApp("connect")
    /\ buildConnectedSocket(a)
    /\ UNCHANGED <<quit, batchVars, timerVars, mapVars>>

(* asyncConnect, EINPROGRESS *)
AsyncConnect(a, timeout) ==
    /\ InApp("asyncConnect")
    /\ buildAsyncConnectSocket(a, timeout)
    /\ UNCHANGED <<quit, batchVars>>

(* onListenSocketRead goes on with listen_socket after new_conn_cb_: the
   application must not close the listening socket from inside it. *)
MayClose(i) == frame.ret = "onListenSocketRead" => i # ev_id[io_device]

CloseSocket(i) ==
    /\ InApp("closeSocket")
    /\ InMap(i)
    /\ MayClose(i)
    /\ closeSocket(i)
    /\ UNCHANGED <<quit, batchVars, timerVars, mapVars, next_id>>

(* sendMessage: everything was sent at once (or there was nothing to send,
   even when older bytes still wait in the buffer), and the callback runs
   inside the call.  An application's callback is a part of the running frame;
   sendMessageThenClose's is closeSocket. *)
SendAllThenClose(i) ==
    /\ InApp("sendMessageThenClose")
    /\ status[i] = "CONNECTED"
    /\ MayClose(i)
    /\ closeSocket(i)
    /\ UNCHANGED <<quit, batchVars, timerVars, mapVars, next_id>>

(* Faulty variant: the bytes are buffered and EPOLLOUT is not asked for. *)
SendBuffered_NoInterest(i, cb) ==
    /\ InApp(IF cb = "sendCompleteCloseCallback" THEN "sendMessageThenClose"
                                                ELSE "sendMessage")
    /\ status[i] = "CONNECTED"
    /\ unsent' = unsent \cup {i}
    /\ send_cb' = [send_cb EXCEPT ![i] = cb]
    /\ UNCHANGED <<quit, deviceVars, removed, batchVars,
                   timerVars, sockets, status, contexts, mapVars, next_id>>

(* sendMessage: some bytes remain, or older ones do; the newest callback
   replaces the one of the older bytes. *)
SendBuffered(i, cb) ==
    /\ InApp(IF cb = "sendCompleteCloseCallback" THEN "sendMessageThenClose"
                                                ELSE "sendMessage")
    /\ status[i] = "CONNECTED"
    /\ setWriteCallback(sockets[i], "onSocketWrite")
    /\ unsent' = unsent \cup {i}
    /\ send_cb' = [send_cb EXCEPT ![i] = cb]
    /\ UNCHANGED <<quit, device_id, read_cb, attached, refused, removed, batchVars,
                   timerVars, sockets, status, contexts, mapVars, next_id>>

(* sendMessage: send() failed, or the buffer would exceed its maximum
   (ENOBUFS).  The error is told from a timer of 0 ms. *)
SendFailed(i) ==
    /\ \E call \in {"sendMessage", "sendMessageThenClose"} : InApp(call)
    /\ status[i] = "CONNECTED"
    /\ setError(i)
    /\ addSocketTimer(i, "onSendMessageError")
    /\ UNCHANGED <<quit, deviceVars, removed, batchVars,
                   sockets, unsent, send_cb, contexts, next_id>>

SetContext(i) ==
    /\ InApp("setContext")
    /\ InMap(i)
    /\ contexts' = contexts \cup {i}
    /\ UNCHANGED <<quit, deviceVars, removed, batchVars, timerVars,
                   sockets, status, unsent, send_cb, mapVars, next_id>>

Quit ==
    /\ InApp("quit")
    /\ quit' = TRUE
    /\ UNCHANGED <<deviceVars, removed, batchVars, timerVars,
                   connVars, mapVars, next_id>>

(* The callback returns; main "returns" by calling loop(), which clears
   quit_ first. *)
Return ==
    /\ pc = "app"
    /\ ClosesFailed /\ frame.cb \in {"error_cb", "peer_close_cb"}
         => ~InMap(frame.id)
    /\ pc' = frame.ret
    /\ quit' = IF frame.cb = "main" THEN FALSE ELSE quit
    /\ frame' = NoFrame
    /\ UNCHANGED <<deviceVars, removed, batchVars, timerVars,
                   connVars, mapVars, next_id>>

-----------------------------------------------------------------------------
(* The loop, and the whole.                                                *)

(* loop() returns: quit_ is set, or epoll_wait failed. *)
LeaveLoop ==
    /\ pc = "loop"
    /\ CallApp("main", 0, "loop")
    /\ UNCHANGED <<quit, deviceVars, removed, batchVars, timerVars,
                   connVars, mapVars, next_id>>

(* A timer callback of the application. *)
AppTimer ==
    /\ EndDispatch("app")
    /\ frame' = [cb |-> "timer_cb", id |-> 0, ret |-> "timers"]
    /\ UNCHANGED <<connVars, mapVars, next_id>>

Loop ==
    \/ EpollWait /\ UNCHANGED tcpVars
    \/ (\E a \in Addr : Dispatch(a)) /\ UNCHANGED tcpVars
    \/ EndDispatch("timers") /\ UNCHANGED tcpVars
    \/ AppTimer
    \/ EndTimers /\ UNCHANGED tcpVars
    \/ LeaveLoop

Handler ==
    \/ \E a \in Addr : Accept(a)
    \/ AcceptNone
    \/ NoConnection
    \/ AsyncConnectFailed
    \/ AsyncConnected
    \/ RecvFailed
    \/ RecvNothing
    \/ \E peer_close \in BOOLEAN : RecvData(peer_close)
    \/ RecvPeerClosed
    \/ AfterRecv
    \/ WriteFailed
    \/ WritePartial
    \/ WriteAll
    \/ SocketError

App ==
    \/ \E a \in Addr : Listen(a) \/ Connect(a)
    \/ \E a \in Addr, timeout \in BOOLEAN : AsyncConnect(a, timeout)
    \/ \E i \in Ids : \/ CloseSocket(i)
                     \/ SendAllThenClose(i)
                     \/ SendFailed(i)
                     \/ SetContext(i)
    \/ \E i \in Ids, cb \in SendCompletes : SendBuffered(i, cb)
    \/ Quit

Next ==
    \/ Loop
    \/ Handler
    \/ \E t \in Tids : FireTimer(t)
    \/ App
    \/ Return

(* The close an application that closes failed sockets owes. *)
CloseFailed ==
    /\ ClosesFailed
    /\ frame.cb \in {"error_cb", "peer_close_cb"}
    /\ CloseSocket(frame.id)

(* The loop never stops by itself, callbacks return (Return and the close of a
   failed socket are the only steps of the application that are owed), and a
   timer that keeps running is due at one of the calls of checkTimeout. *)
Fairness ==
    /\ WF_vars(Loop \/ Handler)
    /\ WF_vars(Return)
    /\ WF_vars(CloseFailed)
    /\ \A t \in Tids : SF_vars(FireTimer(t))

Spec     == Init /\ [][Next]_vars
FairSpec == Spec /\ Fairness

-----------------------------------------------------------------------------
(* Properties.                                                             *)

(* loop() never calls an empty Function and never calls into an address
   whose device is not the one the event was for: not into a deleted device,
   and not into a new device that took the address of a deleted one.  This is
   what removed_io_devices_ is for. *)
DispatchReachesLiveDevice ==
    pc \in Handlers \cup {"null"} =>
        /\ pc # "null"
        /\ device_id[io_device] # 0
        /\ device_id[io_device] = ev_id[io_device]

(* The three maps and the heap objects agree: a device that lives is owned by
   exactly the sockets_ entry of its id, a connection or a context has a
   socket, and nothing of a closed socket is left. *)
MapsAgree ==
    /\ \A a \in Addr : device_id[a] # 0 => sockets[device_id[a]] = a
    /\ \A i \in Ids : InMap(i) => device_id[sockets[i]] = i
    /\ \A i \in Ids : status[i] # "NONE" => InMap(i)
    /\ \A i \in contexts : InMap(i)
    /\ \A a \in attached : device_id[a] # 0

(* socket_to_timer_map_ and timer_to_socket_map_ are inverse to each other,
   and hold exactly the timers that still run: no timer is lost, and none
   outlives its entry. *)
TimerMapsAgree ==
    /\ \A i \in Ids : s2t[i] # 0 => t2s[s2t[i]] = i
    /\ \A t \in Tids : t2s[t] # 0 => s2t[t2s[t]] = t
    /\ \A t \in Tids : timers[t] # "none" <=> t2s[t] # 0

(* No timer of the service runs for a connection in status CONNECTED: a
   connect timeout that is still pending could not close an established
   connection, and sendMessage never overwrites a map entry. *)
NoTimerOnConnected ==
    \A i \in Ids : status[i] = "CONNECTED" => s2t[i] = 0

(* The timers of the service are right about each other and about the
   connections: over all the places that start, stop and forget them, none is
   orphaned and none outlives the reason it was started for. *)
TimersAgree == TimerMapsAgree /\ NoTimerOnConnected

(* epoll watches the device of connection i for EPOLLOUT, and onSocketWrite
   is what the event will call. *)
Writes(i) ==
    /\ InMap(i)
    /\ Watches(sockets[i], "out")
    /\ write_cb[sockets[i]] = "onSocketWrite"

(* epoll watches a connection for EPOLLOUT exactly while its write buffer
   holds bytes: no drained connection spins, and no bytes are stranded but
   those of a device EPOLL_CTL_ADD refused, which is watched for nothing and
   whose setWriteCallback never reaches epoll.  The completion callback waits
   only with bytes. *)
WriteInterest ==
    \A i \in Ids :
        /\ Writes(i) => i \in unsent
        /\ i \in unsent => Writes(i) \/ sockets[i] \in refused
        /\ send_cb[i] # "null" => i \in unsent

(* When a callback of the application begins, the socket it is about is still
   in sockets_, and its status is the one the callback announces. *)
Announces(cb, st) ==
    CASE cb = "new_conn_cb"      -> st = "CONNECTED"
      [] cb = "peer_close_cb"    -> st = "PEER_CLOSED"
      [] cb = "error_cb"         -> st \in {"PENDING_ERROR", "PEER_CLOSED"}
      [] OTHER                   -> st # "NONE"

CallbackAboutOpenSocket ==
    [][pc # "app" /\ pc' = "app" /\ frame'.id # 0 =>
         /\ sockets'[frame'.id] # NULL
         /\ Announces(frame'.cb, status'[frame'.id])]_vars

(* An asynchronous connect that was given a timeout does not stay CONNECTING:
   it is connected, has failed or is closed, unless the loop is left. *)
ConnectResolves ==
    \A i \in Ids :
        status[i] = "CONNECTING" /\ s2t[i] # 0
            ~> status[i] # "CONNECTING" \/ frame.cb = "main"

(* A failed sendMessage, which only returned false, is told by error_cb_,
   unless the socket is closed or the loop left before. *)
SendErrorTold ==
    \A i \in Ids :
        s2t[i] # 0 /\ timers[s2t[i]] = "onSendMessageError"
            ~> \/ status[i] = "NONE"
               \/ frame.cb = "error_cb" /\ frame.id = i
               \/ frame.cb = "main"

-----------------------------------------------------------------------------
(* TcpService implements SocketLifecycle when ClosesFailed holds: the part of
   its life a socket is in, read off the id allocator and the maps. *)
PhaseOf(i) ==
    IF i >= next_id THEN "unused"
    ELSE IF sockets[i] = NULL THEN "closed"
    ELSE CASE status[i] = "NONE"       -> "listening"
           [] status[i] = "CONNECTING" -> "connecting"
           [] status[i] = "CONNECTED"  -> "connected"
           [] OTHER                    -> "failed"

Life == INSTANCE SocketLifecycle WITH
            phase  <- [i \in Ids |-> PhaseOf(i)],
            notice <- [cb |-> frame.cb, id |-> frame.id]

(* A socket that was closed or reported lost never comes back to life, no
   callback is about a socket outside the part of its life the callback is
   for, and an application that closes what failed is told of one failure
   per socket. *)
ImplementsLifecycle == Life!LifeSpec
=============================================================================
