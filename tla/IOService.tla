----------------------------- MODULE IOService -----------------------------
(***************************************************************************)
(* The reactor of brickred (io_service.cc, io_device.cc): an epoll set of  *)
(* IODevice objects, the batch of events that one epoll_wait returned, the *)
(* set removed_io_devices_ that guards the batch against devices deleted   *)
(* while it is dispatched, and the timers of the loop.                     *)
(*                                                                         *)
(* A device is known to epoll by its ADDRESS (event.data.ptr), and an      *)
(* address is reused as soon as the object that lived there is deleted.    *)
(* That is why Addr is a set of addresses and not of devices: the object   *)
(* at an address is told apart by the id it was given (device_id), 0 when  *)
(* no object lives there.                                                  *)
(*                                                                         *)
(* This module has the state and the steps of the loop itself; a user of   *)
(* the loop (TcpService) adds the callbacks.                               *)
(***************************************************************************)
EXTENDS Naturals, FiniteSets

CONSTANTS
    Addr,          \* addresses an IODevice can be allocated at
    NULL,          \* no address
    MaxDevices,    \* bound: ids handed out to devices in one behaviour
    MaxTimers,     \* bound: timer ids handed out in one behaviour
    EpollAdd       \* what EPOLL_CTL_ADD may answer, a subset of BOOLEAN

ASSUME AddrAssumption    == NULL \notin Addr
ASSUME DevicesAssumption == MaxDevices \in Nat
ASSUME TimersAssumption  == MaxTimers \in Nat
ASSUME EpollAssumption   == EpollAdd \in SUBSET BOOLEAN /\ EpollAdd # {}

Ids  == 1 .. MaxDevices
Tids == 1 .. MaxTimers

(* The three groups of event bits that loop() tests, in its order: EPOLLOUT,
   EPOLLIN | EPOLLPRI, EPOLLERR | EPOLLHUP. *)
Bits == {"out", "in", "err"}

ReadCallbacks  == {"onListenSocketRead", "onSocketRead"}
WriteCallbacks == {"onAsyncConnectSocketWrite", "onSocketWrite"}
TimerCallbacks == {"onAsyncConnectTimeout", "onSendMessageError"}

(* pc = a callback name: the loop is inside that callback of io_device.
   pc = "null": it called an empty Function. *)
Handlers == ReadCallbacks \cup WriteCallbacks \cup {"onSocketError"}

Labels == Handlers \cup {"null", "loop", "dispatch", "afterRecv", "timers", "app"}

VARIABLES
    pc,          \* where the loop's thread is
    quit,        \* quit_
    device_id,   \* [Addr -> id of the device that lives there, or 0]
    read_cb,     \* [Addr -> read_cb_, "null" when empty]
    write_cb,    \* [Addr -> write_cb_, "null" when empty]
    attached,    \* addresses whose device has io_service_ # NULL
    refused,     \* addresses whose device EPOLL_CTL_ADD refused: history
    ev,          \* [Addr -> event bits of the batch still to be looked at]
    ev_id,       \* [Addr -> id of the device the batch's event was for, or 0]
    io_device,   \* the event being dispatched: its data.ptr
    removed,     \* removed_io_devices_
    timers,      \* [Tids -> callback of the running timer, or "none"]
    next_tid     \* next timer id

deviceVars == <<device_id, read_cb, write_cb, attached, refused>>
batchVars  == <<ev, ev_id, io_device>>
timerVars  == <<timers, next_tid>>
ioVars     == <<pc, quit, deviceVars, batchVars, removed, timerVars>>

IOTypeOK ==
    /\ pc \in Labels
    /\ quit \in BOOLEAN
    /\ device_id \in [Addr -> Ids \cup {0}]
    /\ read_cb \in [Addr -> ReadCallbacks \cup {"null"}]
    /\ write_cb \in [Addr -> WriteCallbacks \cup {"null"}]
    /\ attached \in SUBSET Addr
    /\ refused \in SUBSET Addr
    /\ ev \in [Addr -> SUBSET Bits]
    /\ ev_id \in [Addr -> Ids \cup {0}]
    /\ io_device \in Addr \cup {NULL}
    /\ removed \in SUBSET Addr
    /\ timers \in [Tids -> TimerCallbacks \cup {"none"}]
    /\ next_tid \in 1 .. MaxTimers + 1

IOInit ==
    /\ pc = "app"
    /\ quit = FALSE
    /\ device_id = [a \in Addr |-> 0]
    /\ read_cb = [a \in Addr |-> "null"]
    /\ write_cb = [a \in Addr |-> "null"]
    /\ attached = {}
    /\ refused = {}
    /\ ev = [a \in Addr |-> {}]
    /\ ev_id = [a \in Addr |-> 0]
    /\ io_device = NULL
    /\ removed = {}
    /\ timers = [t \in Tids |-> "none"]
    /\ next_tid = 1

-----------------------------------------------------------------------------
(* Operations of a device, as the parts of the steps that perform them.    *)

(* new IODevice, setReadCallback / setWriteCallback before it is attached,
   attachIOService -> addIODevice.  When EPOLL_CTL_ADD fails the device stays
   detached, and no caller looks at the answer. *)
attachIOService(a, id, rd, wr, ok) ==
    /\ device_id' = [device_id EXCEPT ![a] = id]
    /\ read_cb'  = [read_cb EXCEPT ![a] = rd]
    /\ write_cb' = [write_cb EXCEPT ![a] = wr]
    /\ attached' = IF ok THEN attached \cup {a} ELSE attached
    /\ refused' = IF ok THEN refused ELSE refused \cup {a}
    /\ UNCHANGED removed

(* detachIOService -> removeIODevice: the address is remembered only if the
   device was attached.  EPOLL_CTL_DEL is taken to succeed, since the
   descriptor was added and is closed only after this; if it did fail, the
   address would not be remembered. *)
detachIOService(a) ==
    /\ attached' = attached \ {a}
    /\ removed' = IF a \in attached THEN removed \cup {a} ELSE removed

(* The destructor of a device: close() detaches it, then the address is free. *)
deleteDevice(a) ==
    /\ detachIOService(a)
    /\ refused' = refused \ {a}
    /\ device_id' = [device_id EXCEPT ![a] = 0]
    /\ read_cb'  = [read_cb EXCEPT ![a] = "null"]
    /\ write_cb' = [write_cb EXCEPT ![a] = "null"]

setWriteCallback(a, wr) == write_cb' = [write_cb EXCEPT ![a] = wr]
setReadCallback(a, rd)  == read_cb' = [read_cb EXCEPT ![a] = rd]

(* updateIODevice / addIODevice: the bits epoll watches are those that have
   a callback; EPOLLERR and EPOLLHUP are always reported. *)
Interest(a) ==
    {b \in Bits : \/ b = "in"  /\ read_cb[a] # "null"
                  \/ b = "out" /\ write_cb[a] # "null"
                  \/ b = "err"}

(* What epoll watches: a device that is not attached for nothing at all,
   though its callbacks may be set (setWriteCallback asks for io_service_). *)
Watches(a, bit) == a \in attached /\ bit \in Interest(a)

(* Faulty variant: the batch is not checked against removed_io_devices_. *)
checkIODeviceExist_Unchecked(a) == TRUE

checkIODeviceExist(a) == a \notin removed

(* Faulty variant: the id is given out, the timer is not put in the heap. *)
startTimer_NotInserted(cb) ==
    /\ next_tid \in Tids
    /\ next_tid' = next_tid + 1
    /\ UNCHANGED timers

startTimer(cb) ==
    /\ next_tid \in Tids
    /\ timers' = [timers EXCEPT ![next_tid] = cb]
    /\ next_tid' = next_tid + 1

-----------------------------------------------------------------------------
(* The loop.                                                               *)

(* epoll_wait returns: any set of attached devices is ready, each with some
   of the bits it is watched for, in any order (see Dispatch).  EINTR goes
   back to the top of the loop and changes nothing. *)
EpollWait ==
    /\ pc = "loop"
    /\ ~quit
    /\ \E batch \in [Addr -> SUBSET Bits] :
        /\ \A a \in Addr :
             \A bit \in batch[a] : Watches(a, bit)
        /\ ev' = batch
        /\ ev_id' = [a \in Addr |-> IF batch[a] = {} THEN 0 ELSE device_id[a]]
    /\ pc' = "dispatch"
    /\ UNCHANGED <<quit, deviceVars, io_device, removed, timerVars>>

(* The first group of bits of the event that has not been looked at yet. *)
Stage(a) ==
    CASE "out" \in ev[a] -> "out"
      [] "out" \notin ev[a] /\ "in" \in ev[a] -> "in"
      [] OTHER -> "err"

Callback(a, bit) ==
    CASE bit = "out" -> write_cb[a]
      [] bit = "in"  -> read_cb[a]
      [] OTHER -> "onSocketError"

(* One test of one event: the next event of the batch, or the next group of
   bits of the current one, which is finished before another is begun.  A
   device that was removed drops out of the batch (continue). *)
Dispatch(a) ==
    /\ pc = "dispatch"
    /\ ev[a] # {}
    /\ io_device # NULL => (io_device = a \/ ev[io_device] = {})
    /\ io_device' = a
    /\ IF checkIODeviceExist(a)
       THEN /\ ev' = [ev EXCEPT ![a] = @ \ {Stage(a)}]
            /\ pc' = Callback(a, Stage(a))
       ELSE /\ ev' = [ev EXCEPT ![a] = {}]
            /\ UNCHANGED pc
    /\ UNCHANGED <<quit, deviceVars, ev_id, removed, timerVars>>

(* The batch is done; next is "timers", or a timer callback of the
   application ("app"), which runs before or between the timers of the
   service. *)
EndDispatch(next) ==
    /\ pc = "dispatch"
    /\ \A a \in Addr : ev[a] = {}
    /\ ev_id' = [a \in Addr |-> 0]
    /\ io_device' = NULL
    /\ pc' = next
    /\ UNCHANGED <<quit, deviceVars, ev, removed, timerVars>>

(* checkTimeout returned: every timer that was due has been called. *)
EndTimers ==
    /\ pc = "timers"
    /\ removed' = {}
    /\ pc' = "loop"
    /\ UNCHANGED <<quit, deviceVars, batchVars, timerVars>>
=============================================================================
