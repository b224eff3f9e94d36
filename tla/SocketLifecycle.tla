-------------------------- MODULE SocketLifecycle --------------------------
(***************************************************************************)
(* What TcpService promises an application that closes the sockets whose   *)
(* failure it is told of.  Per socket id: a life that goes one way, from   *)
(* unused over open to closed, never back; and callbacks that are about    *)
(* sockets in the right part of their life.  How events, batches, timers   *)
(* and maps bring this about is not said here.                             *)
(***************************************************************************)
EXTENDS Naturals

CONSTANT Ids    \* socket ids

VARIABLES
    phase,      \* [Ids -> part of its life the socket is in]
    notice      \* the callback the application is in, and the socket it is
                \* about (0 for none)

lifeVars == <<phase, notice>>

Phases  == {"unused", "listening", "connecting", "connected", "failed", "closed"}
Open    == {"listening", "connecting", "connected", "failed"}
Notices == {"none", "main", "timer_cb", "new_conn_cb", "recv_message_cb",
            "peer_close_cb", "error_cb", "send_complete_cb"}

Quiet == [cb |-> "none", id |-> 0]

LifeInit ==
    /\ phase = [i \in Ids |-> "unused"]
    /\ notice = [cb |-> "main", id |-> 0]

Become(i, from, to) ==
    /\ phase[i] \in from
    /\ phase' = [phase EXCEPT ![i] = to]

(* The application may be told something only while it is told nothing. *)
Tell(cb, i) == notice = Quiet /\ notice' = [cb |-> cb, id |-> i]

InCallback == notice # Quiet /\ UNCHANGED notice

(* Calls of the application: it opens sockets, closes them, and learns from
   a failed send that a connection is lost before it is told so. *)
Listen(i)       == InCallback /\ Become(i, {"unused"}, "listening")
StartConnect(i) == InCallback /\ Become(i, {"unused"}, "connecting")
Connect(i)      == InCallback /\ Become(i, {"unused"}, "connected")
Close(i)        == InCallback /\ Become(i, Open, "closed")
Lose(i)         == InCallback /\ Become(i, {"connected"}, "failed")

(* A callback returns; the one that told of a failure has closed the socket. *)
Finish ==
    /\ notice # Quiet
    /\ notice.cb \in {"error_cb", "peer_close_cb"} => phase[notice.id] = "closed"
    /\ notice' = Quiet
    /\ UNCHANGED phase

(* What the service does on its own. *)
Accepted(i)  == Tell("new_conn_cb", i) /\ Become(i, {"unused"}, "connected")
Connected(i) == Tell("new_conn_cb", i) /\ Become(i, {"connecting"}, "connected")
Message(i)   == Tell("recv_message_cb", i) /\ phase[i] \in {"connected", "failed"}
                /\ UNCHANGED phase
Sent(i)      == Tell("send_complete_cb", i) /\ phase[i] \in {"connected", "failed"}
                /\ UNCHANGED phase
Failed(i)    == \E cb \in {"error_cb", "peer_close_cb"} :
                    Tell(cb, i) /\ Become(i, {"connecting", "connected", "failed"}, "failed")

(* sendMessageThenClose closes when the last byte is out. *)
SentAndClosed(i) == notice = Quiet /\ Become(i, {"connected", "failed"}, "closed")
                    /\ UNCHANGED notice

(* A timer of the application, or loop() returned. *)
Other == (\E cb \in {"main", "timer_cb"} : Tell(cb, 0)) /\ UNCHANGED phase

LifeNext ==
    \/ \E i \in Ids :
        \/ Listen(i) \/ StartConnect(i) \/ Connect(i) \/ Close(i) \/ Lose(i)
        \/ Accepted(i) \/ Connected(i) \/ Message(i) \/ Sent(i) \/ Failed(i)
        \/ SentAndClosed(i)
    \/ Finish
    \/ Other

LifeSpec == LifeInit /\ [][LifeNext]_lifeVars
=============================================================================
