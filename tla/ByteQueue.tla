----------------------------- MODULE ByteQueue -----------------------------
(* What a DynamicBuffer promises its users: a first-in first-out queue of   *)
(* bytes, into which as many bytes can be put as were asked for beforehand. *)
EXTENDS Naturals, SequencesExt

VARIABLES
    queue,   \* the bytes in the queue
    room     \* how many bytes may be put

ByteInit == queue = <<>> /\ room = 0

Ask == room' \in Nat /\ UNCHANGED queue

Put ==
    /\ IsPrefix(queue, queue')
    /\ Len(queue') - Len(queue) <= room
    /\ room' = room - (Len(queue') - Len(queue))

(* Asks for exactly the bytes it puts. *)
AskAndPut == IsPrefix(queue, queue') /\ room' = 0

Take == IsSuffix(queue', queue) /\ UNCHANGED room

ByteNext == Ask \/ Put \/ AskAndPut \/ Take

ByteSpec == ByteInit /\ [][ByteNext]_<<queue, room>>
=============================================================================
