------------------------------ MODULE MCQueues ------------------------------
(***************************************************************************)
(* Three queues that share nothing, for TLC: the bytes of a DynamicBuffer, *)
(* the items of a ConcurrentQueue and the bytes of a connection on their   *)
(* way out.  Each behaviour moves one of them, chosen at its start, so the *)
(* states of the run are those of the three one after the other and not    *)
(* their combinations.                                                     *)
(***************************************************************************)
EXTENDS DynamicBuffer, ConcurrentQueue, SendPath

VARIABLE part   \* what moves

partVars == <<part, bufferVars, vars, sendVars>>

PartsInit ==
    /\ part \in {"buffer", "queue", "send path"}
    /\ BufferInit
    /\ Init
    /\ SendInit

MoveBuffer == part = "buffer" /\ BufferNext /\ UNCHANGED <<part, vars, sendVars>>
MoveQueue  == part = "queue" /\ Next /\ UNCHANGED <<part, bufferVars, sendVars>>
MoveSend   == part = "send path" /\ SendNext /\ UNCHANGED <<part, bufferVars, vars>>

PartsNext == MoveBuffer \/ MoveQueue \/ MoveSend

(* The fairness of the two specifications that have one. *)
PartsSpec ==
    /\ PartsInit
    /\ [][PartsNext]_partVars
    /\ \A t \in Threads : WF_vars(MoveQueue /\ Critical(t))
    /\ WF_sendVars(MoveSend /\ onSocketWrite)

-----------------------------------------------------------------------------
SmallSizes == 0 .. 3
OneTwo     == 1 .. 2
Bits       == 0 .. 1
=============================================================================
