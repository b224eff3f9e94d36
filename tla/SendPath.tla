------------------------------ MODULE SendPath ------------------------------
(***************************************************************************)
(* The bytes of one connection on their way out (sendMessage and           *)
(* onSocketWrite of tcp_service.cc): sent at once when nothing waits, else *)
(* kept in write_buffer_ until the socket is writable.                     *)
(*                                                                         *)
(* The bytes the application hands over are numbered 1, 2, 3, ... in the   *)
(* order of its calls, so what the kernel has taken shows which bytes went *)
(* out, and in which order.  The write buffer is the byte queue that       *)
(* DynamicBuffer is shown to be; TcpService has the control around it.     *)
(***************************************************************************)
EXTENDS Naturals, Sequences

CONSTANTS
    MsgSizes,    \* sizes of messages
    BufferMax,   \* conn_write_buffer_max_size_, 0 for no maximum
    MaxBytes     \* bound: bytes handed over in one behaviour

ASSUME SendAssumption ==
    /\ MsgSizes \subseteq Nat
    /\ BufferMax \in Nat /\ MaxBytes \in Nat

VARIABLES
    status,      \* status_, "closed" after closeSocket
    given,       \* bytes handed over by calls that did not fail
    write_buffer,
    wire,        \* the bytes the kernel has taken
    watching,    \* the write callback is set: EPOLLOUT is watched
    send_cb,     \* send_complete_cb_ of the connection
    done,        \* bytes the completion callbacks have vouched for
    lost         \* bytes that a partial send kept out of the write buffer

sendVars == <<status, given, write_buffer, wire, watching, send_cb, done, lost>>

SendCompletes == {"null", "app", "sendCompleteCloseCallback"}

SendInit ==
    /\ status = "CONNECTED"
    /\ given = 0
    /\ write_buffer = <<>>
    /\ wire = <<>>
    /\ watching = FALSE
    /\ send_cb = "null"
    /\ done = 0
    /\ lost = {}

(* The bytes of the next message. *)
Message(size) == [k \in 1 .. size |-> given + k]

(* A completion callback runs, and vouches for the first n bytes. *)
CallComplete(cb, n) ==
    /\ done' = IF cb = "null" THEN done ELSE n
    /\ status' = IF cb = "sendCompleteCloseCallback" THEN "closed" ELSE status

(* Faulty variant: new bytes are sent past those that wait. *)
MaySendDirectly_Always == TRUE

(* "check write buffer is empty" *)
MaySendDirectly == write_buffer = <<>>

(* send() took the whole message. *)
SendAll(size, cb) ==
    /\ status = "CONNECTED"
    /\ size > 0
    /\ MaySendDirectly
    /\ given' = given + size
    /\ wire' = wire \o Message(size)
    /\ CallComplete(cb, given + size)
    /\ UNCHANGED <<write_buffer, watching, send_cb, lost>>

(* An empty message leaves remain_size at 0 from the start: it completes, and
   closes, at once, whatever still waits.  So it vouches for no byte. *)
SendEmpty(cb) ==
    /\ status = "CONNECTED"
    /\ CallComplete(cb, done)
    /\ UNCHANGED <<given, write_buffer, wire, watching, send_cb, lost>>

(* Faulty variant: the whole message is kept, though a part went out. *)
Remaining_Whole(size, took) == Message(size)

(* What is copied to the write buffer after send() took some bytes: the copy
   begins at buffer again, not behind the bytes that were taken. *)
Remaining(size, took) == SubSeq(Message(size), 1, size - took)

(* So the last bytes of the message, as many as were taken, go nowhere. *)
NotCopied(size, took) == {given + k : k \in size - took + 1 .. size}

(* A part of the message, or all of it, goes to the write buffer. *)
SendBuffered(size, took, cb) ==
    /\ status = "CONNECTED"
    /\ took < size
    /\ took > 0 => MaySendDirectly
    /\ BufferMax > 0 => Len(write_buffer) + size - took <= BufferMax
    /\ given' = given + size
    /\ wire' = wire \o SubSeq(Message(size), 1, took)
    /\ write_buffer' = write_buffer \o Remaining(size, took)
    /\ send_cb' = cb
    /\ watching' = TRUE
    /\ lost' = lost \cup NotCopied(size, took)
    /\ UNCHANGED <<status, done>>

(* send() failed. *)
SendFailed ==
    /\ status = "CONNECTED"
    /\ MaySendDirectly
    /\ status' = "PENDING_ERROR"
    /\ UNCHANGED <<given, write_buffer, wire, watching, send_cb, done, lost>>

(* The rest of the message would make the buffer too large: the call fails,
   though a part of the message may be on the wire already. *)
SendOverflows(size, took) ==
    /\ status = "CONNECTED"
    /\ took < size
    /\ took > 0 => MaySendDirectly
    /\ BufferMax > 0 /\ Len(write_buffer) + size - took > BufferMax
    /\ status' = "PENDING_ERROR"
    /\ wire' = wire \o SubSeq(Message(size), 1, took)
    /\ UNCHANGED <<given, write_buffer, watching, send_cb, done, lost>>

(* onSocketWrite: the kernel takes n bytes of the buffer. *)
Taken(n) ==
    /\ wire' = wire \o SubSeq(write_buffer, 1, n)
    /\ write_buffer' = SubSeq(write_buffer, n + 1, Len(write_buffer))
    /\ UNCHANGED <<given, lost>>

(* Faulty variant: EPOLLOUT is not watched any more after a partial write. *)
WritePartial_StopsWatching(n) ==
    /\ status # "closed" /\ watching
    /\ n < Len(write_buffer)
    /\ Taken(n)
    /\ watching' = FALSE
    /\ UNCHANGED <<status, send_cb, done>>

WritePartial(n) ==
    /\ status # "closed" /\ watching
    /\ n < Len(write_buffer)
    /\ Taken(n)
    /\ UNCHANGED <<status, watching, send_cb, done>>

WriteAll ==
    /\ status # "closed" /\ watching
    /\ Taken(Len(write_buffer))
    /\ watching' = FALSE
    /\ send_cb' = "null"
    /\ CallComplete(send_cb, given)

WriteFailed ==
    /\ status # "closed" /\ watching
    /\ status' = "PENDING_ERROR"
    /\ UNCHANGED <<given, write_buffer, wire, watching, send_cb, done, lost>>

CloseSocket ==
    /\ status # "closed"
    /\ status' = "closed"
    /\ UNCHANGED <<given, write_buffer, wire, watching, send_cb, done, lost>>

onSocketWrite == WriteAll \/ (\E n \in 1 .. MaxBytes : WritePartial(n)) \/ WriteFailed

SendNext ==
    \/ \E size \in MsgSizes, cb \in SendCompletes :
        /\ given + size <= MaxBytes
        /\ \/ SendAll(size, cb)
           \/ size = 0 /\ SendEmpty(cb)
           \/ \E took \in 0 .. size : \/ SendBuffered(size, took, cb)
                                     \/ SendOverflows(size, took)
    \/ SendFailed
    \/ onSocketWrite
    \/ CloseSocket

SendSpec == SendInit /\ [][SendNext]_sendVars

(* A socket that stays writable is written to: each time, some bytes go. *)
FairSendSpec == SendSpec /\ WF_sendVars(onSocketWrite)

-----------------------------------------------------------------------------
(* No byte is dropped or sent twice as far as their number goes: what was
   handed over is on the wire or waits, and the maximum is kept.  Only a call
   that failed can have sent more, the head of its own message. *)
BytesCounted ==
    /\ Len(wire) + Len(write_buffer) >= given
    /\ status = "CONNECTED" => Len(wire) + Len(write_buffer) = given
    /\ BufferMax > 0 => Len(write_buffer) <= BufferMax

(* When the completion callback of a message runs, every byte that was handed
   over before is on the wire, and sendMessageThenClose closes no earlier:
   calls made while others wait, full and partial writes, and callbacks
   replaced by those of later messages included.  Two exceptions are the
   code's: an empty message completes and closes at once (SendEmpty), and the
   bytes that a partial send leaves out never go (NotCopied). *)
CompleteMeansSent ==
    \A k \in 1 .. done : k \in lost \/ \E i \in 1 .. Len(wire) : wire[i] = k

(* Bytes that wait go out, unless the connection fails or is closed. *)
Drains == write_buffer # <<>> ~> (write_buffer = <<>> \/ status # "CONNECTED")

(* The peer receives what was sent: echo_server's "echo back". *)
StreamIntact == \A k \in 1 .. Len(wire) : wire[k] = k
=============================================================================
