--------------------------- MODULE DynamicBuffer ---------------------------
(***************************************************************************)
(* DynamicBuffer (dynamic_buffer.cc): a byte array with a read and a write *)
(* index, that is compacted and grown, or shrunk, when bytes are reserved. *)
(* Sizes are size_t: W bits, and the arithmetic of reserveWritableBytes    *)
(* wraps.                                                                  *)
(*                                                                         *)
(* Users reserve, copy at writeBegin() and call write(); room is how many  *)
(* bytes they have reserved and not yet written.                           *)
(***************************************************************************)
EXTENDS Integers, SequencesExt, FiniteSetsExt

CONSTANTS
    InitSize, ExpandSize,   \* arguments of the constructor
    W,                      \* bits of size_t
    Sizes,                  \* sizes users reserve, write and read
    Widths,                 \* bytes of the integers users write and read
    Byte,                   \* values of a byte, 0 .. Base - 1
    MaxReadable             \* bound: bytes in the buffer

Base == Cardinality(Byte)

ASSUME BufferAssumption ==
    /\ InitSize \in Nat
    /\ ExpandSize \in Nat \ {0}
    /\ W \in Nat
    /\ Sizes \subseteq Nat
    /\ Widths \subseteq Nat
    /\ MaxReadable \in Nat
    /\ Base \in Nat \ {0}
    /\ Byte = 0 .. Base - 1

(* There is a largest request, and no array that it can lead to comes near
   the end of size_t: what wraps are differences, not array sizes. *)
ASSUME SizesAssumption ==
    \E most \in Sizes \cup Widths :
        /\ \A n \in Sizes \cup Widths : n <= most
        /\ InitSize < 2^W
        /\ MaxReadable + most + 2 * ExpandSize < 2^W

VARIABLES
    buf,    \* [b |-> buffer_, r |-> read_index_, w |-> write_index_]
    room    \* bytes reserved and not written

bufferVars == <<buf, room>>

size_t(n) == n % 2^W

capacity(s)         == Len(s.b)
discardableBytes(s) == s.r
readableBytes(s)    == size_t(s.w - s.r)
writableBytes(s)    == size_t(capacity(s) - s.w)

(* The bytes from readBegin() on. *)
Readable(s) == SubSeq(s.b, s.r + 1, s.w)

(* Faulty variant: enough free bytes always lead to one more expand_size_. *)
NewSize_AlwaysGrows(s, size) ==
    LET free_bytes == size_t(discardableBytes(s) + writableBytes(s)) IN
    IF free_bytes >= size
    THEN size_t(capacity(s) + ExpandSize)
    ELSE size_t(capacity(s) + ExpandSize * (size_t(size - free_bytes) \div ExpandSize + 1))

(* The second branch is also taken when more than enough bytes are free: then
   size - free_bytes wraps, and so does the sum, to a smaller size. *)
NewSize(s, size) ==
    LET free_bytes == size_t(discardableBytes(s) + writableBytes(s)) IN
    IF free_bytes >= size /\ free_bytes - size < ExpandSize
    THEN size_t(capacity(s) + ExpandSize)
    ELSE size_t(capacity(s) + ExpandSize * (size_t(size - free_bytes) \div ExpandSize + 1))

(* Faulty variant: the bytes are copied from the start of the old array. *)
Compact_FromStart(s, new_size) ==
    [b |-> [i \in 1 .. new_size |-> IF i <= readableBytes(s) THEN s.b[i] ELSE 0],
     r |-> 0, w |-> readableBytes(s)]

(* A new array, zeroed, with the readable bytes at its start. *)
Compact(s, new_size) ==
    [b |-> [i \in 1 .. new_size |-> IF i <= readableBytes(s) THEN s.b[s.r + i] ELSE 0],
     r |-> 0, w |-> readableBytes(s)]

reserveWritableBytes(s, size) ==
    IF writableBytes(s) >= size THEN s ELSE Compact(s, NewSize(s, size))

(* Bytes copied to writeBegin(), then write().  Bytes past the end of the
   array would be an overflow, which RoomIsReal excludes. *)
write(s, bytes) ==
    [s EXCEPT !.b = [i \in DOMAIN s.b |-> IF i - s.w \in 1 .. Len(bytes)
                                          THEN bytes[i - s.w] ELSE s.b[i]],
              !.w = @ + Min({Len(bytes), writableBytes(s)})]

clear(s) == [s EXCEPT !.r = 0, !.w = 0]

read(s, size) ==
    LET t == [s EXCEPT !.r = @ + Min({size, readableBytes(s)})]
    IN  IF t.r = t.w THEN clear(t) ELSE t

(* What a byte of an integer of n bytes counts for if j bytes come after it. *)
Weights(n) ==
    LET weight[j \in 0 .. n] == IF j = 0 THEN 1 ELSE Base * weight[j - 1]
    IN  weight

(* Integers of n bytes, most significant first.  writeInt stores v >> 8*(n-k)
   cut to a byte as byte k; peekInt shifts the bytes back and combines them. *)
IntBytes(v, n) == [k \in 1 .. n |-> (v \div Weights(n)[n - k]) % Base]

(* Faulty variant: least significant byte first. *)
peekInt_LittleEndian(s, n, offset) ==
    LET sum[k \in 0 .. n] == IF k = 0 THEN 0
            ELSE sum[k - 1] + s.b[s.r + offset + k] * Weights(n)[k - 1]
    IN  sum[n]

peekInt(s, n, offset) ==
    LET sum[k \in 0 .. n] == IF k = 0 THEN 0
            ELSE sum[k - 1] + s.b[s.r + offset + k] * Weights(n)[n - k]
    IN  sum[n]

-----------------------------------------------------------------------------
BufferInit ==
    /\ buf = [b |-> [i \in 1 .. InitSize |-> 0], r |-> 0, w |-> 0]
    /\ room = 0

Reserve(size) ==
    /\ buf' = reserveWritableBytes(buf, size)
    /\ room' = size

Write(bytes) ==
    /\ Len(bytes) <= room
    /\ readableBytes(buf) + Len(bytes) <= MaxReadable
    /\ buf' = write(buf, bytes)
    /\ room' = room - Len(bytes)

Read(size) ==
    /\ buf' = read(buf, size)
    /\ UNCHANGED room

Clear ==
    /\ buf' = clear(buf)
    /\ UNCHANGED room

(* writeInt8 .. writeInt64; the bytes reserved before are as good as gone. *)
WriteInt(v, n) ==
    /\ readableBytes(buf) + n <= MaxReadable
    /\ room' = 0
    /\ buf' = write(reserveWritableBytes(buf, n), IntBytes(v, n))

(* readInt8 .. readInt64 take the bytes only when all are there. *)
ReadInt(n) ==
    /\ readableBytes(buf) >= n
    /\ buf' = read(buf, n)
    /\ UNCHANGED room

Ints(n) == 0 .. Weights(n)[n] - 1

BufferNext ==
    \/ \E size \in Sizes : Reserve(size) \/ Read(size)
    \/ \E n \in Sizes : \E bytes \in [1 .. n -> Byte] : Write(bytes)
    \/ \E n \in Widths : ReadInt(n) \/ \E v \in Ints(n) : WriteInt(v, n)
    \/ Clear

BufferSpec == BufferInit /\ [][BufferNext]_bufferVars

-----------------------------------------------------------------------------
(* What was reserved can be written: the copy at writeBegin() stays inside
   the array, through every wrap of the size arithmetic. *)
RoomIsReal ==
    /\ buf.r <= buf.w /\ buf.w + room <= capacity(buf)
    /\ buf.r = buf.w => buf.r = 0

(* The array does not grow with use: it holds no more than the bytes in it,
   the largest request and two expansions, or what it began with. *)
CapacityBounded ==
    capacity(buf) <= Max({InitSize, MaxReadable + Max(Sizes \cup Widths) + 2 * ExpandSize})

(* The array is as large as it has to be, and not much larger, whatever
   sequence of reservations, writes and reads led there. *)
CapacityIsRight == RoomIsReal /\ CapacityBounded

(* An integer that was written is read back as the same number, from where it
   was written, wherever the bytes were moved to. *)
IntRoundTrip ==
    [][\A n \in Widths : \A v \in Ints(n) :
         WriteInt(v, n) => peekInt(buf', n, readableBytes(buf)) = v]_bufferVars

(* The buffer is a queue of bytes. *)
Queue == INSTANCE ByteQueue WITH queue <- Readable(buf), room <- room

ImplementsQueue == Queue!ByteSpec
=============================================================================
