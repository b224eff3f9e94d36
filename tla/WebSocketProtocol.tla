------------------------- MODULE WebSocketProtocol -------------------------
(***************************************************************************)
(* Two WebSocketProtocol objects (web_socket_protocol.cc), a client and a  *)
(* server, at the ends of a connection, with applications that use them as *)
(* ws_echo_client.cc and ws_echo_server.cc do: when bytes arrive they call *)
(* recvMessage until it waits for more, and retrieve every message.  They  *)
(* may send messages, pings and a close at any time.                       *)
(*                                                                         *)
(* A handler looks at a frame part by part and reads it when all of it has *)
(* arrived, so the bytes of a part (head, length, key, data) arrive        *)
(* together; what arrives is cut between any two parts.  The handshake is  *)
(* two parts, of which HttpProtocol makes one message.                     *)
(*                                                                         *)
(* Neither end sends fragments, nor frames the other takes for an error;   *)
(* other implementations do (Fragments, BadFrames).  A fragmented message  *)
(* is sent without other frames in between.                                *)
(***************************************************************************)
EXTENDS Integers, Sequences

CONSTANTS
    Payloads,     \* messages, sequences of 0 and 1
    Keys,         \* masking keys, sequences of four of 0 and 1
    KeyChars,     \* letters of the base64 code of 16 bytes
    Len16, Len64, \* the sizes from which a length takes two and eight bytes
    Room,         \* the longest message that fits a buffer of initial size
    Fragments,    \* sizes of the first of two fragments a client sends
    ClientCalls, ServerCalls   \* bounds: calls of the send methods

ASSUME LengthAssumption == Len16 \in Nat /\ Len64 \in Nat /\ Len16 <= Len64

ASSUME MessageAssumption ==
    /\ Payloads \subseteq Seq({0, 1})
    /\ Keys \subseteq [1 .. 4 -> {0, 1}]
    /\ Room \in Nat
    /\ \A m \in Payloads : Fragments \subseteq 0 .. Len(m)

Ends == {"client", "server"}
Peer(e) == IF e = "client" THEN "server" ELSE "client"

VARIABLES
    status, close_frame_sent, last_op_code,
    message,      \* message_
    key,          \* the client's Sec-WebSocket-Key, "none" before startAsClient
    answer,       \* the key the answer 101 of the server is for, "none" before it
    buffer,       \* [Ends -> parts that have arrived and are not read]
    wire,         \* [Ends -> parts on their way to an end]
    calls,        \* calls of the send methods
    sent, got,    \* messages each end has sent, and retrieved
    pc            \* where each application is, see TypeOK

protoVars == <<status, close_frame_sent, last_op_code, message, key, answer>>
histVars  == <<calls, sent, got>>
vars      == <<protoVars, buffer, wire, histVars, pc>>

----------------------------------------------------------------------------
(* Frames.                                                                 *)

Mask(m, k) == [i \in 1 .. Len(m) |-> (m[i] + k[((i - 1) % 4) + 1]) % 2]

SizeClass(n) == IF n < Len16 THEN 1 ELSE IF n < Len64 THEN 2 ELSE 8

(* A frame as it is on the wire; a client masks. *)
Frame(e, fin, op, m, k) ==
    [fin  |-> fin, op |-> op, rsv |-> FALSE, size |-> Len(m),
     length |-> SizeClass(Len(m)), mask |-> e = "client",
     key  |-> IF e = "client" THEN k ELSE <<>>,
     data |-> IF e = "client" THEN Mask(m, k) ELSE m]

(* Close, ping and pong are empty and have the key 0. *)
Control(e, op) == Frame(e, TRUE, op, <<>>, <<0, 0, 0, 0>>)

PartNames(f) ==
    <<"head">> \o (IF f.length = 1 THEN <<>> ELSE <<"length">>)
               \o (IF f.mask THEN <<"key">> ELSE <<>>)
               \o (IF f.size = 0 THEN <<>> ELSE <<"data">>)

(* The record goes with the head; a field counts when its part is there. *)
Parts(f) == [i \in 1 .. Len(PartNames(f)) |->
                <<IF i = 1 THEN f ELSE "", PartNames(f)[i]>>]

(* output_cb_ *)
Output(e, parts) == wire' = [wire EXCEPT ![Peer(e)] = @ \o parts]

----------------------------------------------------------------------------
Init ==
    /\ status = [e \in Ends |-> "DETACHED"]
    /\ close_frame_sent = [e \in Ends |-> FALSE]
    /\ last_op_code = [e \in Ends |-> -1]
    /\ message = [e \in Ends |-> <<>>]
    /\ key = "none"
    /\ answer = "none"
    /\ buffer = [e \in Ends |-> <<>>]
    /\ wire = [e \in Ends |-> <<>>]
    /\ calls = [e \in Ends |-> 0]
    /\ sent = [e \in Ends |-> <<>>]
    /\ got = [e \in Ends |-> <<>>]
    /\ pc = [e \in Ends |-> "wait"]

----------------------------------------------------------------------------
(* The handshake.                                                          *)

(* The application may have set headers of its own (setHandshakeHeader):   *)
(* a key of another length than the 24 characters of the one made here, or *)
(* something that is no header for HttpProtocol ("malformed").             *)
startAsClient(k) ==
    /\ status["client"] = "DETACHED"
    /\ status' = [status EXCEPT !["client"] = "WAITING_HANDSHAKE_RESPONSE"]
    /\ key' = k
    /\ Output("client", <<<<"GET", "start">>, <<k, "rest">>>>)
    /\ UNCHANGED <<close_frame_sent, last_op_code, message, answer, buffer, histVars, pc>>

startAsServer ==
    /\ status["server"] = "DETACHED"
    /\ status' = [status EXCEPT !["server"] = "WAITING_HANDSHAKE_REQUEST"]
    /\ UNCHANGED <<close_frame_sent, last_op_code, message, key, answer,
                   buffer, wire, histVars, pc>>

(* The application is told of bytes that came in. *)
Arrive(e, n) ==
    /\ pc[e] = "wait"
    /\ status[e] # "DETACHED"
    /\ buffer' = [buffer EXCEPT ![e] = @ \o SubSeq(wire[e], 1, n)]
    /\ wire' = [wire EXCEPT ![e] = SubSeq(@, n + 1, Len(@))]
    /\ pc' = [pc EXCEPT ![e] = "recvMessage"]
    /\ UNCHANGED <<protoVars, histVars>>

(* recvMessage is called and finds the handler of status s. *)
Handler(e, s) == pc[e] = "recvMessage" /\ status[e] = s

(* The handler returned 0. *)
MoreData(e) == pc' = [pc EXCEPT ![e] = "wait"]

(* The handler returned -1; the application closes the connection. *)
Error(e) ==
    /\ status' = [status EXCEPT ![e] = "PENDING_ERROR"]
    /\ pc' = [pc EXCEPT ![e] = "closed"]

Read(e, n) == buffer' = [buffer EXCEPT ![e] = SubSeq(@, n + 1, Len(@))]

HandshakeWaits(e) ==
    /\ \/ Handler(e, "WAITING_HANDSHAKE_REQUEST")
       \/ Handler(e, "WAITING_HANDSHAKE_RESPONSE")
    /\ Len(buffer[e]) < 2
    /\ MoreData(e)
    /\ UNCHANGED <<protoVars, buffer, wire, histVars>>

(* The answer to a key: its sha1 in base64, different for different keys.  *)
(* own_case: its letters are the ones base64 gives.                        *)
Accept(k) == [key |-> k, own_case |-> TRUE]

Response(code, accept) ==
    <<<<"HTTP", "start">>, <<[code |-> code, accept |-> accept], "rest">>>>

(* The key made here is the code of 16 random bytes. *)
KeySize(k) == IF k = "proper" THEN KeyChars ELSE 0

(* HttpProtocol found no error and the other headers are the ones          *)
(* startAsClient sets.                                                     *)
checkHandshakeRequestValid(k) == k # "malformed" /\ KeySize(k) = 24

(* The application of the server may have set a Sec-WebSocket-Accept of    *)
(* its own, which replaces the one made here: one for another key, or the  *)
(* right one in other letters.                                             *)
Answers(k) == {Accept(k), Accept("other"), [Accept(k) EXCEPT !.own_case = FALSE]}

readHandshakeRequest ==
    LET k == buffer["server"][2][1] IN
    /\ Handler("server", "WAITING_HANDSHAKE_REQUEST")
    /\ Len(buffer["server"]) >= 2
    /\ Read("server", 2)
    /\ IF checkHandshakeRequestValid(k)
       THEN \E accept \in Answers(k) :
               /\ status' = [status EXCEPT !["server"] = "CONNECTED"]
               /\ answer' = accept.key
               /\ Output("server", Response(101, accept))
               /\ UNCHANGED pc
       ELSE /\ Error("server")
            /\ Output("server", Response(400, Accept("none")))
            /\ UNCHANGED answer
    /\ UNCHANGED <<close_frame_sent, last_op_code, message, key, histVars>>

(* Faulty variant: the accept key is not looked at. *)
checkHandshakeResponseValid_AnyAccept(response) == response.code = 101

(* The accept key is compared without regard to case (headerEqual). *)
checkHandshakeResponseValid(response) ==
    response.code = 101 /\ response.accept.key = key

readHandshakeResponse ==
    /\ Handler("client", "WAITING_HANDSHAKE_RESPONSE")
    /\ Len(buffer["client"]) >= 2
    /\ Read("client", 2)
    /\ IF checkHandshakeResponseValid(buffer["client"][2][1])
       THEN status' = [status EXCEPT !["client"] = "CONNECTED"] /\ UNCHANGED pc
       ELSE Error("client")
    /\ UNCHANGED <<close_frame_sent, last_op_code, message, key, answer, wire, histVars>>

----------------------------------------------------------------------------
(* readFrame.                                                              *)

(* The frame at the start of the buffer, and whether a part of it is there. *)
First(e) == buffer[e][1][1]

Has(e, part) ==
    \E i \in 1 .. Len(buffer[e]) :
        i <= Len(PartNames(First(e))) /\ buffer[e][i][2] = part

(* What readFrame finds, in the order of its tests: that it must "wait",   *)
(* an "error", or a whole "frame".                                         *)
Verdict(e) ==
    LET f == First(e) IN
    IF buffer[e] = <<>>                           THEN "wait"
    ELSE IF f.rsv                                 THEN "error"
    ELSE IF f.length > 1 /\ ~ Has(e, "length")    THEN "wait"
    ELSE IF f.length = 2 /\ f.size < Len16        THEN "error"
    ELSE IF f.length = 8 /\ f.size < Len64        THEN "error"
    ELSE IF f.mask /\ e = "client"                THEN "error"
    ELSE IF f.mask /\ ~ Has(e, "key")             THEN "wait"
    ELSE IF f.size > 0 /\ ~ Has(e, "data")        THEN "wait"
    ELSE "frame"

FrameWaits(e) ==
    /\ Handler(e, "CONNECTED")
    /\ Verdict(e) = "wait"
    /\ MoreData(e)
    /\ UNCHANGED <<protoVars, buffer, wire, histVars>>

FrameWrong(e) ==
    /\ Handler(e, "CONNECTED")
    /\ Verdict(e) = "error"
    /\ Error(e)
    /\ UNCHANGED <<close_frame_sent, last_op_code, message, key, answer,
                   buffer, wire, histVars>>

(* message_ with the payload of the frame appended *)
Extended(e) ==
    message[e] \o (IF First(e).mask THEN Mask(First(e).data, First(e).key)
                                    ELSE First(e).data)

(* The opcode of a frame, or of the message it ends. *)
OpCode(e) == IF First(e).op = 0 THEN last_op_code[e] ELSE First(e).op

(* A whole frame with the given fin is read from the buffer. *)
ReadFrame(e, fin) ==
    /\ Handler(e, "CONNECTED")
    /\ Verdict(e) = "frame"
    /\ First(e).fin = fin
    /\ Read(e, Len(PartNames(First(e))))
    /\ last_op_code' = [last_op_code EXCEPT ![e] =
                          CASE fin /\ First(e).op = 0    -> -1
                            [] ~ fin /\ First(e).op # 0  -> First(e).op
                            [] OTHER                     -> @]
    /\ UNCHANGED <<key, answer, calls, sent, got>>

(* Not the last of its message: recvMessage says that it waits for more,   *)
(* whether or not the next frame has arrived already.                      *)
readFragment(e) ==
    /\ ReadFrame(e, FALSE)
    /\ message' = [message EXCEPT ![e] = Extended(e)]
    /\ MoreData(e)
    /\ UNCHANGED <<status, close_frame_sent, wire>>

readData(e) ==
    /\ ReadFrame(e, TRUE)
    /\ OpCode(e) \in {1, 2}
    /\ message' = [message EXCEPT ![e] = Extended(e)]
    /\ status' = [status EXCEPT ![e] = "FINISHED"]
    /\ pc' = [pc EXCEPT ![e] = "retrieve"]
    /\ UNCHANGED <<close_frame_sent, wire>>

(* Faulty variant: a close that was sent earlier is sent again. *)
sendControl_Repeats(e, op) ==
    /\ Output(e, Parts(Control(e, op)))
    /\ close_frame_sent' = [close_frame_sent EXCEPT ![e] = @ \/ op = 8]

(* sendCloseFrame, sendPingFrame and sendPongFrame: nothing follows a close. *)
sendControl(e, op) ==
    IF close_frame_sent[e]
    THEN UNCHANGED <<wire, close_frame_sent>>
    ELSE /\ Output(e, Parts(Control(e, op)))
         /\ close_frame_sent' = [close_frame_sent EXCEPT ![e] = op = 8]

(* Faulty variant: the close is not answered. *)
readClose_Silent(e) ==
    /\ ReadFrame(e, TRUE)
    /\ OpCode(e) = 8
    /\ status' = [status EXCEPT ![e] = "CLOSED"]
    /\ message' = [message EXCEPT ![e] = <<>>]
    /\ pc' = [pc EXCEPT ![e] = "closed"]
    /\ UNCHANGED <<close_frame_sent, wire>>

(* PEER_CLOSED: the application closes the connection. *)
readClose(e) ==
    /\ ReadFrame(e, TRUE)
    /\ OpCode(e) = 8
    /\ sendControl(e, 8)
    /\ status' = [status EXCEPT ![e] = "CLOSED"]
    /\ message' = [message EXCEPT ![e] = <<>>]
    /\ pc' = [pc EXCEPT ![e] = "closed"]

(* The payload of a ping or a pong, and what came before it, is dropped. *)
readPing(e) ==
    /\ ReadFrame(e, TRUE)
    /\ OpCode(e) = 9
    /\ sendControl(e, 10)
    /\ message' = [message EXCEPT ![e] = <<>>]
    /\ UNCHANGED <<status, pc>>

(* Faulty variant: a pong is answered with 0, as if more data were needed. *)
readPong_Waits(e) ==
    /\ ReadFrame(e, TRUE)
    /\ OpCode(e) = 10
    /\ message' = [message EXCEPT ![e] = <<>>]
    /\ MoreData(e)
    /\ UNCHANGED <<status, close_frame_sent, wire>>

readPong(e) ==
    /\ ReadFrame(e, TRUE)
    /\ OpCode(e) = 10
    /\ message' = [message EXCEPT ![e] = <<>>]
    /\ UNCHANGED <<status, close_frame_sent, wire, pc>>

(* Another opcode, or the end of a message that was not begun. *)
readUnknown(e) ==
    /\ ReadFrame(e, TRUE)
    /\ OpCode(e) \notin {1, 2, 8, 9, 10}
    /\ message' = [message EXCEPT ![e] = Extended(e)]
    /\ Error(e)
    /\ UNCHANGED <<close_frame_sent, wire>>

recvMessage(e) ==
    \/ HandshakeWaits(e)
    \/ FrameWaits(e) \/ FrameWrong(e)
    \/ readFragment(e) \/ readData(e) \/ readClose(e)
    \/ readPing(e) \/ readPong(e) \/ readUnknown(e)

(* Faulty variant: message_ keeps what was retrieved. *)
retrieveMessage_NotCleared(e) ==
    /\ pc[e] = "retrieve"
    /\ got' = [got EXCEPT ![e] = Append(@, message[e])]
    /\ status' = [status EXCEPT ![e] = "CONNECTED"]
    /\ pc' = [pc EXCEPT ![e] = "recvMessage"]
    /\ UNCHANGED <<close_frame_sent, last_op_code, message, key, answer, buffer, wire, calls, sent>>

retrieveMessage(e) ==
    /\ pc[e] = "retrieve"
    /\ got' = [got EXCEPT ![e] = Append(@, message[e])]
    /\ message' = [message EXCEPT ![e] = <<>>]
    /\ status' = [status EXCEPT ![e] = "CONNECTED"]
    /\ pc' = [pc EXCEPT ![e] = "recvMessage"]
    /\ UNCHANGED <<close_frame_sent, last_op_code, key, answer, buffer, wire, calls, sent>>

----------------------------------------------------------------------------
(* The send methods do something in status CONNECTED and before the close  *)
(* frame only: what is sent between MESSAGE_READY and retrieveMessage is   *)
(* dropped.                                                                *)
Call(e) ==
    /\ pc[e] # "closed"
    /\ status[e] = "CONNECTED"
    /\ ~ close_frame_sent[e]
    /\ calls[e] < (IF e = "client" THEN ClientCalls ELSE ServerCalls)
    /\ calls' = [calls EXCEPT ![e] = @ + 1]
    /\ UNCHANGED <<status, last_op_code, message, key, answer, buffer, got, pc>>

(* The key a client masks with is read through a pointer into the buffer   *)
(* it then makes room in: when that moves the buffer, from freed memory.   *)
KeyRead(e, k, m) == IF e = "client" /\ Len(m) > Room THEN Keys ELSE {k}

sendMessage(e, m, k) ==
    /\ Call(e)
    /\ \E r \in KeyRead(e, k, m) :
          Output(e, Parts([Frame(e, TRUE, 2, m, r) EXCEPT
                              !.key = IF e = "client" THEN k ELSE <<>>]))
    /\ sent' = [sent EXCEPT ![e] = Append(@, m)]
    /\ UNCHANGED close_frame_sent

sendFrame(e, op) ==
    /\ Call(e)
    /\ sendControl(e, op)
    /\ UNCHANGED sent

(* Another implementation sends a message in two frames, the first i bytes *)
(* of it in the first.                                                     *)
SendFragments(m, i, k) ==
    /\ Call("client")
    /\ Output("client",
          Parts(Frame("client", FALSE, 1, SubSeq(m, 1, i), k))
          \o Parts(Frame("client", TRUE, 0, SubSeq(m, i + 1, Len(m)), k)))
    /\ sent' = [sent EXCEPT !["client"] = Append(@, m)]
    /\ UNCHANGED close_frame_sent

(* Frames that are errors.  Of a client: a reserved bit, a length in more  *)
(* bytes than it needs, an opcode that does not exist, the end of a        *)
(* message that was not begun; of a server: a masked frame.                *)
BadFrames(e) ==
    LET f == Control("client", 9) IN
    IF e = "server" THEN {f}
    ELSE {[f EXCEPT !.rsv = TRUE], [f EXCEPT !.length = 2],
          [f EXCEPT !.length = 8], [f EXCEPT !.op = 3], [f EXCEPT !.op = 0]}

SendBad(e, f) ==
    /\ Call(e)
    /\ Output(e, Parts(f))
    /\ UNCHANGED <<sent, close_frame_sent>>

----------------------------------------------------------------------------
Receive(e) == recvMessage(e) \/ retrieveMessage(e)

Handshake ==
    \/ readHandshakeResponse
    \/ readHandshakeRequest

Send(e) ==
    \/ \E m \in Payloads, k \in Keys : sendMessage(e, m, k)
    \/ \E op \in {8, 9} : sendFrame(e, op)
    \/ \E f \in BadFrames(e) : SendBad(e, f)

Arrives(e) == \E n \in 1 .. Len(wire[e]) : Arrive(e, n)

Deliver == Handshake \/ \E e \in Ends : Arrives(e) \/ Receive(e)

Next ==
    \/ \E k \in {"malformed", "short", "proper"} : startAsClient(k)
    \/ startAsServer
    \/ Deliver
    \/ \E e \in Ends : Send(e)
    \/ \E m \in Payloads, k \in Keys, i \in Fragments : SendFragments(m, i, k)

Spec == Init /\ [][Next]_vars

(* What was sent arrives, and an application that was told of bytes reads  *)
(* them.  Nobody has to send.                                              *)
FairSpec == Spec /\ WF_vars(Deliver)

----------------------------------------------------------------------------
Established == {"CONNECTED", "FINISHED", "CLOSED"}

(* The variables have their types, and between messages message_ is empty: *)
(* a control frame never leaves its payload to the next message.           *)
TypeOK ==
    /\ status \in [Ends -> {"DETACHED", "WAITING_HANDSHAKE_REQUEST",
                            "WAITING_HANDSHAKE_RESPONSE", "CONNECTED",
                            "FINISHED", "CLOSED", "PENDING_ERROR"}]
    /\ close_frame_sent \in [Ends -> BOOLEAN]
    /\ last_op_code \in [Ends -> -1 .. 15]
    /\ pc \in [Ends -> {"wait", "recvMessage", "retrieve", "closed"}]
    /\ \A e \in Ends : /\ pc[e] = "retrieve" <=> status[e] = "FINISHED"
                       /\ status[e] = "CONNECTED" /\ last_op_code[e] = -1
                             => message[e] = <<>>

(* A client that takes the connection for established has a server that    *)
(* accepted its handshake and answered its key: neither a refusal nor an   *)
(* answer to another key looks like a success.                             *)
ClientBelievesServer ==
    status["client"] \in Established =>
        /\ key = "proper" /\ answer = key
        /\ status["server"] \in Established \cup {"PENDING_ERROR"}

(* An application gets the messages of the other end in order, none twice, *)
(* none skipped, and unchanged, but for those a client masked with a key   *)
(* from freed memory, of which the length is right.                        *)
MessagesIntact ==
    \A e \in Ends :
        /\ Len(got[e]) <= Len(sent[Peer(e)])
        /\ \A i \in 1 .. Len(got[e]) :
              LET m == sent[Peer(e)][i] IN
              \/ got[e][i] = m
              \/ e = "server" /\ Len(m) > Room /\ Len(got[e][i]) = Len(m)

(* After its close frame an end sends nothing more, no second close and no *)
(* pong: the close is the last thing the other end has to read.            *)
CloseIsLast ==
    \A e \in Ends :
        LET parts == buffer[e] \o wire[e]
            Closes(i) == parts[i][2] = "head" /\ parts[i][1].op = 8
        IN \A i \in 1 .. Len(parts) :
              Closes(i) => i + Len(PartNames(parts[i][1])) - 1 = Len(parts)

(* An application waits with something in the buffer that it could read. *)
Stalled(e) == pc[e] = "wait" /\ status[e] = "CONNECTED" /\ Verdict(e) # "wait"

(* The frames in the buffer have been read when the application waits,     *)
(* unless a fragment was the last: recvMessage then says that it waits for *)
(* more data with the rest of the message in the buffer.                   *)
WaitsForMissingParts ==
    \A e \in Ends : Stalled(e) => last_op_code[e] # -1

(* A close frame ends the connection at both ends: the end that sent it    *)
(* reads the answer, unless an end has found an error, or is stalled       *)
(* behind a fragment with nothing on its way (see WaitsForMissingParts).   *)
CloseAnswered ==
    \A e \in Ends :
        close_frame_sent[e] ~>
            \/ status[e] = "CLOSED"
            \/ \E d \in Ends : \/ status[d] = "PENDING_ERROR"
                               \/ (Stalled(d) /\ wire[d] = <<>>)
=============================================================================
