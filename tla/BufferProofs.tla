---------------------------- MODULE BufferProofs ----------------------------
(***************************************************************************)
(* The bytes of a connection and the buffer they wait in.                  *)
(*                                                                         *)
(* DynamicBuffer, for all sizes of requests, of integers and of            *)
(* expansions: the array always has the room that was reserved and is      *)
(* never much larger than it has to be (CapacityIsRight), and the buffer   *)
(* is a queue of bytes (ImplementsQueue).  The arithmetic of size_t is the *)
(* crux: NewSizeIsRight shows what reserveWritableBytes computes, with     *)
(* every wrap.  The invariant: a buffer is Sound, which says that its      *)
(* array is a sequence, that its indices are in order, and that it is no   *)
(* larger than Limit; and the room reserved is there.  The integers that   *)
(* are written come back (IntegersComeBack), for any width and base.       *)
(*                                                                         *)
(* SendPath, where such a buffer is the write buffer: what is kept true    *)
(* for any sizes of messages and of the write buffer, and how far the      *)
(* stream is intact.                                                       *)
(***************************************************************************)
EXTENDS DynamicBuffer, SendPath, SequenceTheorems, NaturalsInduction,
        WellFoundedInduction, TLAPS

Requests == Sizes \cup Widths

Limit == Max({InitSize, MaxReadable + Max(Requests) + 2 * ExpandSize})

(* A buffer between two calls. *)
Sound(s) ==
    /\ s = [b |-> s.b, r |-> s.r, w |-> s.w]
    /\ s.b \in Seq(Range(s.b))
    /\ s.r \in Nat /\ s.w \in Nat
    /\ s.r <= s.w /\ s.w <= Len(s.b)
    /\ s.r = s.w => s.r = 0
    /\ s.w - s.r <= MaxReadable
    /\ Len(s.b) <= Limit

(* The inductive invariant. *)
BufferInv ==
    /\ Sound(buf)
    /\ room \in Nat
    /\ buf.w + room <= Len(buf.b)

-----------------------------------------------------------------------------
(* Numbers. *)

(* The maximum of a set with a largest element is that element. *)
LEMMA MaxIsLargest ==
    ASSUME NEW S \in SUBSET Int, NEW m \in S, \A n \in S : n <= m
    PROVE  Max(S) = m
<1>1. \A y \in S : m >= y
    OBVIOUS
<1>2. ASSUME NEW x \in S, \A y \in S : x >= y
      PROVE  x = m
    BY <1>2
<1> QED
    BY <1>1, <1>2 DEF Max

(* Min of two numbers. *)
LEMMA MinOfTwo ==
    ASSUME NEW a \in Int, NEW b \in Int
    PROVE  Min({a, b}) = IF a <= b THEN a ELSE b
<1>1. CASE a <= b
    <2>1. \A y \in {a, b} : a <= y
        BY <1>1
    <2>2. ASSUME NEW x \in {a, b}, \A y \in {a, b} : x <= y
          PROVE  x = a
        BY <1>1, <2>2
    <2> QED
        BY <1>1, <2>1, <2>2 DEF Min
<1>2. CASE b < a
    <2>1. \A y \in {a, b} : b <= y
        BY <1>2
    <2>2. ASSUME NEW x \in {a, b}, \A y \in {a, b} : x <= y
          PROVE  x = b
        BY <1>2, <2>2
    <2> QED
        BY <1>2, <2>1, <2>2 DEF Min
<1> QED
    BY <1>1, <1>2

(* The largest request, and how it bounds the array. *)
LEMMA LimitIsSmall ==
    /\ Max(Requests) \in Nat
    /\ \A n \in Requests : n \in Nat /\ n <= Max(Requests)
    /\ Limit \in Nat /\ Limit < 2^W
    /\ InitSize <= Limit
    /\ MaxReadable + Max(Requests) + 2 * ExpandSize <= Limit
    /\ 2^W \in Int
    /\ ExpandSize \in Nat \ {0}
    /\ InitSize \in Nat
    /\ MaxReadable \in Nat
<1>1. /\ Requests \subseteq Nat
      /\ ExpandSize \in Nat \ {0} /\ InitSize \in Nat /\ MaxReadable \in Nat
    BY BufferAssumption DEF Requests
<1>2. 2^W \in Int
    BY BufferAssumption
<1>3. PICK most \in Requests :
          /\ \A n \in Requests : n <= most
          /\ InitSize < 2^W
          /\ MaxReadable + most + 2 * ExpandSize < 2^W
    BY SizesAssumption DEF Requests
<1>4. Max(Requests) = most
    <2>1. Requests \in SUBSET Int
        BY <1>1
    <2> QED
        BY <2>1, <1>3, MaxIsLargest
<1>5. PICK large \in Nat : large = MaxReadable + most + 2 * ExpandSize
    BY <1>1, <1>3
<1>6. Limit = IF InitSize <= large THEN large ELSE InitSize
    <2>1. Limit = Max({InitSize, large})
        BY <1>4, <1>5 DEF Limit
    <2>2. CASE InitSize <= large
        <3>1. \A n \in {InitSize, large} : n <= large
            BY <1>1, <2>2
        <3>2. {InitSize, large} \in SUBSET Int /\ large \in {InitSize, large}
            BY <1>1
        <3> QED
            BY <2>1, <2>2, <3>1, <3>2, MaxIsLargest
    <2>3. CASE large < InitSize
        <3>1. \A n \in {InitSize, large} : n <= InitSize
            BY <1>1, <2>3
        <3>2. {InitSize, large} \in SUBSET Int /\ InitSize \in {InitSize, large}
            BY <1>1
        <3>3. Limit = InitSize
            BY <2>1, <3>1, <3>2, MaxIsLargest
        <3> QED
            BY <1>1, <2>3, <3>3
    <2> QED
        BY <1>1, <2>2, <2>3
<1> QED
    BY <1>1, <1>2, <1>3, <1>4, <1>5, <1>6

(* Below 2^W, size_t changes nothing; a negative difference wraps once. *)
LEMMA SizeOfNumbers ==
    /\ \A x \in 0 .. 2^W - 1 : size_t(x) = x
    /\ \A x \in 1 .. 2^W : size_t(0 - x) = IF x = 2^W THEN 0 ELSE 2^W - x
    /\ \A x \in 0 .. 2^W - 1 : size_t(x + 2^W) = x
<1>1. PICK M \in Int : M = 2^W /\ M > 0
    BY LimitIsSmall
<1>2. \A x \in 0 .. M - 1 : x % M = x
    BY <1>1
<1>3. \A x \in 1 .. M : (0 - x) % M = IF x = M THEN 0 ELSE M - x
    BY <1>1
<1>4. \A x \in 0 .. M - 1 : (x + M) % M = x
    BY <1>1
<1> QED
    BY <1>1, <1>2, <1>3, <1>4 DEF size_t

(* What the indices of a sound buffer say of its sizes. *)
LEMMA SizesOfSound ==
    ASSUME NEW s, Sound(s)
    PROVE  /\ Len(s.b) \in Nat /\ s.r \in Nat /\ s.w \in Nat
           /\ readableBytes(s) = s.w - s.r
           /\ writableBytes(s) = Len(s.b) - s.w
           /\ size_t(discardableBytes(s) + writableBytes(s)) = Len(s.b) - (s.w - s.r)
<1>1. /\ s.r \in Nat /\ s.w \in Nat /\ s.r <= s.w /\ s.w <= Len(s.b)
      /\ Len(s.b) <= Limit /\ Len(s.b) \in Nat
    BY LenProperties DEF Sound
<1>2. PICK M \in Int, c \in Nat : M = 2^W /\ c = Len(s.b)
    BY <1>1, LimitIsSmall
<1>3. c < M
    BY <1>1, <1>2, LimitIsSmall
<1>4. s.w - s.r \in 0 .. M - 1 /\ c - s.w \in 0 .. M - 1 /\ s.r + (c - s.w) \in 0 .. M - 1
    BY <1>1, <1>2, <1>3, SMTT(30)
<1>5. readableBytes(s) = s.w - s.r /\ writableBytes(s) = c - s.w
    BY <1>2, <1>4, SizeOfNumbers DEF readableBytes, writableBytes, capacity
<1>6. size_t(discardableBytes(s) + writableBytes(s)) = s.r + (c - s.w)
    BY <1>2, <1>4, <1>5, SizeOfNumbers DEF discardableBytes
<1> QED
    BY <1>1, <1>2, <1>5, <1>6

(* Rounded up to expansions: more than d, by one expansion at most. *)
LEMMA Expansions ==
    ASSUME NEW d \in Nat
    PROVE  ExpandSize * (d \div ExpandSize + 1) \in d + 1 .. d + ExpandSize
<1>1. PICK E \in Nat \ {0} : E = ExpandSize
    BY LimitIsSmall
<1>2. E * (d \div E + 1) \in d + 1 .. d + E
    OBVIOUS
<1> QED
    BY <1>1, <1>2

(* The size of the new array: the readable bytes and the request fit, and   *)
(* less than two expansions are left over, through every wrap of the        *)
(* difference between what is asked for and what is free.                   *)
LEMMA NewSizeIsRight ==
    ASSUME NEW s, Sound(s), NEW size \in Requests, writableBytes(s) < size
    PROVE  /\ NewSize(s, size) \in Nat
           /\ (s.w - s.r) + size <= NewSize(s, size)
           /\ NewSize(s, size) <= (s.w - s.r) + size + 2 * ExpandSize
           /\ NewSize(s, size) <= Limit
<1>1. PICK M \in Int, c \in Nat, used \in Nat, E \in Nat \ {0}, n \in Nat, limit \in Nat :
          /\ M = 2^W /\ c = Len(s.b) /\ used = s.w - s.r /\ E = ExpandSize /\ n = size
          /\ limit = Limit
    BY SizesOfSound, LimitIsSmall, SMTT(30) DEF Sound
<1>2. used <= c /\ c <= limit /\ limit < M /\ used + n + 2 * E <= limit
    <2>1. used <= c /\ c <= limit /\ used <= MaxReadable
        BY <1>1, SizesOfSound DEF Sound
    <2>2. n <= Max(Requests) /\ Max(Requests) \in Nat /\ MaxReadable \in Nat
        BY <1>1, LimitIsSmall
    <2>3. MaxReadable + Max(Requests) + 2 * E <= limit /\ limit < M
        BY <1>1, LimitIsSmall
    <2> QED
        BY <2>1, <2>2, <2>3
<1>3. PICK free \in Nat :
          /\ free = c - used
          /\ size_t(discardableBytes(s) + writableBytes(s)) = free
    BY <1>1, <1>2, SizesOfSound
<1>0. /\ \A x \in 0 .. M - 1 : size_t(x) = x /\ size_t(x + M) = x
      /\ \A x \in 1 .. M - 1 : size_t(0 - x) = M - x
    <2>1. \A x \in 1 .. M - 1 : x # M
        OBVIOUS
    <2> QED
        BY <1>1, <2>1, SizeOfNumbers
<1>4. ASSUME free >= n, free - n < E
      PROVE  NewSize(s, size) = c + E
    <2>1. c + E \in 0 .. M - 1
        BY <1>2, <1>3, <1>4
    <2>2. NewSize(s, size) = size_t(c + E)
        BY <1>1, <1>3, <1>4 DEF NewSize, capacity
    <2> QED
        BY <1>1, <2>1, <2>2, SizeOfNumbers
<1>5. ASSUME free >= n, free - n >= E
      PROVE  NewSize(s, size) \in used + n + 1 .. used + n + E
    <2>1. free - n \in 1 .. M - 1
        BY <1>2, <1>3, <1>5
    <2>2. size_t(n - free) = M - (free - n)
        <3>1. n - free = 0 - (free - n)
            OBVIOUS
        <3> QED
            BY <1>0, <2>1, <3>1
    <2>3. PICK d \in Nat : d = M - (free - n)
        BY <2>1
    <2>4. PICK more \in d + 1 .. d + E : more = E * (d \div E + 1)
        BY <1>1, Expansions
    <2>5. NewSize(s, size) = size_t(c + more)
        BY <1>1, <1>3, <1>5, <2>2, <2>3, <2>4, SMTT(30) DEF NewSize, capacity
    <2>6. PICK x \in used + n + 1 .. used + n + E : c + more = x + M
        <3>1. c + more - M \in used + n + 1 .. used + n + E
            BY <1>3, <2>3, <2>4
        <3>2. c + more = (c + more - M) + M
            BY <2>4
        <3> QED
            BY <3>1, <3>2
    <2>7. x \in 0 .. M - 1
        BY <1>2, <2>6
    <2> QED
        BY <1>1, <2>5, <2>6, <2>7, SizeOfNumbers
<1>6. ASSUME free < n
      PROVE  NewSize(s, size) \in used + n + 1 .. used + n + E
    <2>1. PICK d \in Nat : d = n - free
        BY <1>6
    <2>2. d \in 0 .. M - 1
        BY <1>2, <2>1
    <2>3. PICK more \in d + 1 .. d + E : more = E * (d \div E + 1)
        BY <1>1, Expansions
    <2>4. NewSize(s, size) = size_t(c + more)
        <3>1. size_t(n - free) = d
            BY <1>0, <2>1, <2>2
        <3>2. ~(free >= n)
            BY <1>6
        <3> QED
            BY <1>1, <1>3, <2>3, <3>1, <3>2, Zenon DEF NewSize, capacity
    <2>5. c + more \in used + n + 1 .. used + n + E /\ c + more \in 0 .. M - 1
        BY <1>2, <1>3, <2>1, <2>3
    <2> QED
        BY <1>1, <2>4, <2>5, SizeOfNumbers
<1>7. CASE free >= n /\ free - n < E
    <2>1. c + E \in used + n .. used + n + 2 * E
        BY <1>3, <1>7
    <2> QED
        BY <1>1, <1>2, <1>4, <1>7, <2>1
<1>8. CASE free >= n /\ free - n >= E
    BY <1>1, <1>2, <1>5, <1>8, SMTT(30)
<1>9. CASE free < n
    BY <1>1, <1>2, <1>6, <1>9, SMTT(30)
<1> QED
    BY <1>7, <1>8, <1>9

-----------------------------------------------------------------------------
(* The operations of a sound buffer. *)

(* A function on 1 .. n is a sequence of length n, of whatever it holds. *)
LEMMA FunctionIsSequence ==
    ASSUME NEW n \in Nat, NEW f, f = [i \in 1 .. n |-> f[i]]
    PROVE  f \in Seq(Range(f)) /\ Len(f) = n
<1>1. DOMAIN f = 1 .. n
    OBVIOUS
<1>2. PICK S : S = Range(f)
    OBVIOUS
<1>3. \A i \in 1 .. n : f[i] \in S
    BY <1>1, <1>2 DEF Range
<1>4. f \in [1 .. n -> S]
    BY <1>3
<1>5. f \in Seq(S)
    BY <1>4
<1>6. Len(f) \in Nat /\ DOMAIN f = 1 .. Len(f)
    BY <1>5, LenProperties
<1>7. Len(f) = n
    <2>1. \A m, k \in Nat : 1 .. m = 1 .. k => m = k
        <3>1. ASSUME NEW m \in Nat, NEW k \in Nat, 1 .. m = 1 .. k
              PROVE  m = k
            <4>1. CASE m < k
                <5>1. k \in 1 .. k /\ k \notin 1 .. m
                    BY <4>1
                <5> QED
                    BY <3>1, <5>1
            <4>2. CASE k < m
                <5>1. m \in 1 .. m /\ m \notin 1 .. k
                    BY <4>2
                <5> QED
                    BY <3>1, <5>1
            <4> QED
                BY <4>1, <4>2
        <3> QED
            BY <3>1
    <2> QED
        BY <1>1, <1>6, <2>1, Zenon
<1> QED
    BY <1>2, <1>5, <1>7

(* What a sound buffer has to read: the bytes from r + 1 to w. *)
LEMMA ReadableOfSound ==
    ASSUME NEW s, Sound(s)
    PROVE  /\ Readable(s) \in Seq(Range(s.b))
           /\ Len(Readable(s)) = s.w - s.r
           /\ \A i \in 1 .. s.w - s.r : Readable(s)[i] = s.b[s.r + i]
<1>1. /\ s.b \in Seq(Range(s.b)) /\ s.r \in Nat /\ s.w \in Nat
      /\ s.r <= s.w /\ s.w <= Len(s.b) /\ Len(s.b) \in Nat
    BY SizesOfSound DEF Sound
<1>2. \A i \in s.r + 1 .. s.w : i \in 1 .. Len(s.b)
    BY <1>1
<1>3. \A i \in s.r + 1 .. s.w : s.b[i] \in Range(s.b)
    BY <1>1, <1>2, ElementOfSeq
<1>4. s.r + 1 \in Int /\ s.w \in Int
    BY <1>1
<1>5. /\ Readable(s) \in Seq(Range(s.b))
      /\ Len(Readable(s)) = IF s.r + 1 <= s.w THEN s.w - (s.r + 1) + 1 ELSE 0
      /\ \A i \in 1 .. s.w - (s.r + 1) + 1 : Readable(s)[i] = s.b[(s.r + 1) + i - 1]
    BY <1>3, <1>4, SubSeqProperties DEF Readable
<1>6. /\ (IF s.r + 1 <= s.w THEN s.w - (s.r + 1) + 1 ELSE 0) = s.w - s.r
      /\ s.w - (s.r + 1) + 1 = s.w - s.r
      /\ \A i \in 1 .. s.w - s.r : (s.r + 1) + i - 1 = s.r + i
    BY <1>1, SMTT(30)
<1> QED
    BY <1>5, <1>6

(* Two sequences with the same elements are one. *)
LEMMA SameElements ==
    ASSUME NEW S, NEW T, NEW s \in Seq(S), NEW t \in Seq(T),
           Len(s) = Len(t), \A i \in 1 .. Len(s) : s[i] = t[i]
    PROVE  s = t
<1>1. s \in Seq(S \cup T) /\ t \in Seq(S \cup T)
    OBVIOUS
<1> QED
    BY <1>1, SeqEqual

(* Reserving moves the readable bytes, and makes room for the request. *)
LEMMA ReserveKeeps ==
    ASSUME NEW s, Sound(s), NEW size \in Requests, NEW t,
           t = reserveWritableBytes(s, size)
    PROVE  /\ Sound(t)
           /\ Readable(t) = Readable(s)
           /\ t.w + size <= Len(t.b)
<1>1. /\ size \in Nat /\ s.r \in Nat /\ s.w \in Nat /\ Len(s.b) \in Nat
      /\ s.r <= s.w /\ s.w <= Len(s.b) /\ s.w - s.r <= MaxReadable
      /\ MaxReadable \in Nat
      /\ readableBytes(s) = s.w - s.r /\ writableBytes(s) = Len(s.b) - s.w
    BY SizesOfSound, LimitIsSmall DEF Sound
<1>2. CASE writableBytes(s) >= size
    <2>1. t = s
        BY <1>2 DEF reserveWritableBytes
    <2>2. s.w + size <= Len(s.b)
        BY <1>1, <1>2
    <2> QED
        BY <2>1, <2>2
<1>3. CASE writableBytes(s) < size
    <2>1. PICK n \in Nat, used \in Nat :
              /\ n = NewSize(s, size) /\ used = s.w - s.r
              /\ used + size <= n /\ n <= Limit
        BY <1>1, <1>3, NewSizeIsRight
    <2>2. ~(writableBytes(s) >= size)
        BY <1>1, <1>3
    <2>3. t = Compact(s, n)
        BY <2>1, <2>2 DEF reserveWritableBytes
    <2>4. /\ t = [b |-> t.b, r |-> t.r, w |-> t.w]
          /\ t.b = [i \in 1 .. n |-> IF i <= used THEN s.b[s.r + i] ELSE 0]
          /\ t.r = 0 /\ t.w = used
        BY <1>1, <2>1, <2>3 DEF Compact
    <2>5. t.b = [i \in 1 .. n |-> t.b[i]]
        BY <2>4
    <2>6. t.b \in Seq(Range(t.b)) /\ Len(t.b) = n
        BY <2>5, FunctionIsSequence
    <2>7. /\ t.r \in Nat /\ t.w \in Nat /\ t.r <= t.w /\ t.w <= Len(t.b)
          /\ t.w - t.r <= MaxReadable /\ Len(t.b) <= Limit
          /\ t.w + size <= Len(t.b) /\ t.w - t.r = used
        BY <1>1, <2>1, <2>4, <2>6
    <2>8. Sound(t)
        BY <2>4, <2>6, <2>7 DEF Sound
    <2>9. Readable(t) = Readable(s)
        <3>1. /\ Readable(t) \in Seq(Range(t.b)) /\ Len(Readable(t)) = used
              /\ \A i \in 1 .. used : Readable(t)[i] = t.b[t.r + i]
            BY <2>7, <2>8, ReadableOfSound
        <3>2. /\ Readable(s) \in Seq(Range(s.b)) /\ Len(Readable(s)) = used
              /\ \A i \in 1 .. used : Readable(s)[i] = s.b[s.r + i]
            BY <2>1, ReadableOfSound
        <3>3. \A i \in 1 .. used : t.b[t.r + i] = s.b[s.r + i]
            <4>1. \A i \in 1 .. used : i \in 1 .. n /\ i <= used /\ t.r + i = i
                BY <1>1, <2>1, <2>4
            <4> QED
                BY <2>4, <4>1
        <3> QED
            BY <3>1, <3>2, <3>3, SameElements
    <2> QED
        BY <2>7, <2>8, <2>9
<1> QED
    BY <1>1, <1>2, <1>3

(* Writing bytes there is room for puts them after the readable ones. *)
LEMMA WriteKeeps ==
    ASSUME NEW s, Sound(s), NEW S, NEW bytes \in Seq(S), NEW t,
           t = write(s, bytes),
           s.w + Len(bytes) <= Len(s.b),
           (s.w - s.r) + Len(bytes) <= MaxReadable
    PROVE  /\ Sound(t)
           /\ Readable(t) = Readable(s) \o bytes
           /\ t.w = s.w + Len(bytes)
           /\ Len(t.b) = Len(s.b)
<1>1. /\ s.r \in Nat /\ s.w \in Nat /\ Len(s.b) \in Nat /\ Len(bytes) \in Nat
      /\ s.r <= s.w /\ s.w <= Len(s.b) /\ MaxReadable \in Nat
      /\ writableBytes(s) = Len(s.b) - s.w
      /\ (s.r = s.w => s.r = 0)
    BY SizesOfSound, LimitIsSmall, LenProperties DEF Sound
<1>2. PICK c \in Nat, k \in Nat, used \in Nat :
          c = Len(s.b) /\ k = Len(bytes) /\ used = s.w - s.r
    BY <1>1
<1>3. Min({k, writableBytes(s)}) = k
    <2>1. k \in Int /\ writableBytes(s) \in Int /\ k <= writableBytes(s)
        BY <1>1, <1>2
    <2> QED
        BY <2>1, MinOfTwo
<1>4. DOMAIN s.b = 1 .. c
    BY <1>2, LenProperties DEF Sound
<1>5. /\ t = [b |-> t.b, r |-> t.r, w |-> t.w]
      /\ t.b = [i \in 1 .. c |-> IF i - s.w \in 1 .. k THEN bytes[i - s.w] ELSE s.b[i]]
      /\ t.r = s.r /\ t.w = s.w + k
    <2>1. s = [b |-> s.b, r |-> s.r, w |-> s.w]
        BY DEF Sound
    <2>2. t = [s EXCEPT !.b = [i \in 1 .. c |-> IF i - s.w \in 1 .. k
                                                THEN bytes[i - s.w] ELSE s.b[i]],
                        !.w = @ + k]
        BY <1>2, <1>3, <1>4 DEF write
    <2> QED
        BY <2>1, <2>2
<1>6. t.b \in Seq(Range(t.b)) /\ Len(t.b) = c
    <2>1. t.b = [i \in 1 .. c |-> t.b[i]]
        BY <1>5
    <2> QED
        BY <2>1, FunctionIsSequence
<1>7. /\ t.r \in Nat /\ t.w \in Nat /\ t.r <= t.w /\ t.w <= Len(t.b)
      /\ t.w - t.r <= MaxReadable
      /\ (t.r = t.w => t.r = 0)
      /\ t.w - t.r = used + k
    BY <1>1, <1>2, <1>5, <1>6, SMTT(30)
<1>8. Sound(t)
    <2>1. Len(t.b) <= Limit
        BY <1>2, <1>6 DEF Sound
    <2> QED
        BY <1>5, <1>6, <1>7, <2>1 DEF Sound
<1>9. Readable(t) = Readable(s) \o bytes
    <2>1. /\ Readable(t) \in Seq(Range(t.b)) /\ Len(Readable(t)) = used + k
          /\ \A i \in 1 .. used + k : Readable(t)[i] = t.b[t.r + i]
        BY <1>7, <1>8, ReadableOfSound
    <2>2. /\ Readable(s) \in Seq(Range(s.b)) /\ Len(Readable(s)) = used
          /\ \A i \in 1 .. used : Readable(s)[i] = s.b[s.r + i]
        BY <1>2, ReadableOfSound
    <2>3. PICK U : U = Range(s.b) \cup S
        OBVIOUS
    <2>4. Readable(s) \in Seq(U) /\ bytes \in Seq(U)
        BY <2>2, <2>3
    <2>5. /\ Readable(s) \o bytes \in Seq(U)
          /\ Len(Readable(s) \o bytes) = used + k
          /\ \A i \in 1 .. used + k : (Readable(s) \o bytes)[i] =
                 IF i <= used THEN Readable(s)[i] ELSE bytes[i - used]
        <3>1. /\ Readable(s) \o bytes \in Seq(U)
              /\ Len(Readable(s) \o bytes) = Len(Readable(s)) + Len(bytes)
              /\ \A i \in 1 .. Len(Readable(s)) + Len(bytes) : (Readable(s) \o bytes)[i] =
                     IF i <= Len(Readable(s)) THEN Readable(s)[i]
                     ELSE bytes[i - Len(Readable(s))]
            BY <2>4, ConcatProperties
        <3> QED
            BY <1>2, <2>2, <3>1
    <2>6. ASSUME NEW i \in 1 .. used + k
          PROVE  Readable(t)[i] = (Readable(s) \o bytes)[i]
        <3>1. s.r + i \in 1 .. c
            BY <1>1, <1>2, SMTT(30)
        <3>2. Readable(t)[i] = IF (s.r + i) - s.w \in 1 .. k
                               THEN bytes[(s.r + i) - s.w] ELSE s.b[s.r + i]
            BY <1>5, <2>1, <3>1, SMTT(30)
        <3>3. (s.r + i) - s.w = i - used
            BY <1>1, <1>2, SMTT(30)
        <3>4. CASE i <= used
            <4>1. i \in 1 .. used /\ i - used \notin 1 .. k
                BY <3>4
            <4> QED
                BY <2>2, <2>5, <3>2, <3>3, <3>4, <4>1
        <3>5. CASE ~(i <= used)
            <4>1. i - used \in 1 .. k
                BY <3>5
            <4> QED
                BY <2>5, <3>2, <3>3, <3>5, <4>1
        <3> QED
            BY <3>4, <3>5
    <2> QED
        BY <2>1, <2>5, <2>6, SameElements
<1> QED
    BY <1>2, <1>5, <1>6, <1>8, <1>9

(* A sequence that another one begins with is a prefix of it. *)
LEMMA PrefixByElements ==
    ASSUME NEW S, NEW T, NEW s \in Seq(S), NEW t \in Seq(T),
           Len(s) <= Len(t), \A i \in 1 .. Len(s) : s[i] = t[i]
    PROVE  IsPrefix(s, t)
<1>1. PICK k \in Nat, n \in Nat : k = Len(s) /\ n = Len(t) /\ k <= n
    BY LenProperties
<1>2. /\ SubSeq(s, 1, k) \in Seq(S) /\ SubSeq(t, 1, k) \in Seq(T)
      /\ Len(SubSeq(s, 1, k)) = k /\ Len(SubSeq(t, 1, k)) = k
      /\ \A i \in 1 .. k : SubSeq(s, 1, k)[i] = s[i] /\ SubSeq(t, 1, k)[i] = t[i]
    <2>1. /\ \A i \in 1 .. k : i \in 1 .. n /\ 1 + i - 1 = i
          /\ k - 1 + 1 = k /\ (IF 1 <= k THEN k - 1 + 1 ELSE 0) = k
        BY <1>1
    <2>2. (\A i \in 1 .. k : s[i] \in S) /\ (\A i \in 1 .. k : t[i] \in T)
        BY <1>1, <2>1, ElementOfSeq
    <2>3. /\ SubSeq(s, 1, k) \in Seq(S)
          /\ Len(SubSeq(s, 1, k)) = IF 1 <= k THEN k - 1 + 1 ELSE 0
          /\ \A i \in 1 .. k - 1 + 1 : SubSeq(s, 1, k)[i] = s[1 + i - 1]
        BY <2>2, SubSeqProperties
    <2>4. /\ SubSeq(t, 1, k) \in Seq(T)
          /\ Len(SubSeq(t, 1, k)) = IF 1 <= k THEN k - 1 + 1 ELSE 0
          /\ \A i \in 1 .. k - 1 + 1 : SubSeq(t, 1, k)[i] = t[1 + i - 1]
        BY <2>2, SubSeqProperties
    <2> QED
        BY <2>1, <2>3, <2>4
<1>3. SubSeq(s, 1, k) = SubSeq(t, 1, k)
    BY <1>1, <1>2, SameElements
<1> QED
    BY <1>1, <1>3 DEF IsPrefix

(* A sequence is a prefix of what it is extended to. *)
LEMMA PrefixOfConcat ==
    ASSUME NEW S, NEW T, NEW s \in Seq(S), NEW t \in Seq(T)
    PROVE  IsPrefix(s, s \o t) /\ Len(s \o t) = Len(s) + Len(t)
<1>1. PICK U : U = S \cup T
    OBVIOUS
<1>2. s \in Seq(U) /\ t \in Seq(U)
    BY <1>1
<1>3. /\ s \o t \in Seq(U)
      /\ Len(s \o t) = Len(s) + Len(t)
      /\ \A i \in 1 .. Len(s) + Len(t) : (s \o t)[i] =
             IF i <= Len(s) THEN s[i] ELSE t[i - Len(s)]
    BY <1>2, ConcatProperties
<1>4. Len(s) \in Nat /\ Len(t) \in Nat
    BY LenProperties
<1>5. Len(s) <= Len(s) + Len(t) /\ \A i \in 1 .. Len(s) : i \in 1 .. Len(s) + Len(t) /\ i <= Len(s)
    BY <1>4
<1> QED
    BY <1>3, <1>5, PrefixByElements

(* A sequence that another one ends with is a suffix of it. *)
LEMMA SuffixByElements ==
    ASSUME NEW S, NEW s \in Seq(S), NEW t \in Seq(S),
           Len(s) <= Len(t),
           \A i \in 1 .. Len(s) : s[i] = t[(Len(t) - Len(s)) + i]
    PROVE  IsSuffix(s, t)
<1>1. PICK k \in Nat, n \in Nat : k = Len(s) /\ n = Len(t) /\ k <= n
    BY LenProperties
<1>2. PICK a : a = Reverse(s)
    OBVIOUS
<1>3. PICK z : z = Reverse(t)
    OBVIOUS
<1>4. a = [i \in 1 .. k |-> s[(k - i) + 1]] /\ z = [i \in 1 .. n |-> t[(n - i) + 1]]
    BY <1>1, <1>2, <1>3 DEF Reverse
<1>5. a = [i \in 1 .. k |-> a[i]] /\ z = [i \in 1 .. n |-> z[i]]
    BY <1>4
<1>6. a \in Seq(Range(a)) /\ Len(a) = k /\ z \in Seq(Range(z)) /\ Len(z) = n
    BY <1>5, FunctionIsSequence
<1>7. ASSUME NEW i \in 1 .. k
      PROVE  a[i] = z[i]
    <2>1. /\ i \in 1 .. n /\ (k - i) + 1 \in 1 .. k
          /\ (n - k) + ((k - i) + 1) = (n - i) + 1
        BY <1>1
    <2>2. s[(k - i) + 1] = t[(n - k) + ((k - i) + 1)]
        BY <1>1, <2>1
    <2> QED
        BY <1>4, <2>1, <2>2
<1> QED
    BY <1>1, <1>2, <1>3, <1>6, <1>7, PrefixByElements DEF IsSuffix

(* What clear returns. *)
LEMMA ClearOf ==
    ASSUME NEW s, s = [b |-> s.b, r |-> s.r, w |-> s.w], NEW t, t = clear(s)
    PROVE  t = [b |-> s.b, r |-> 0, w |-> 0]
BY DEF clear

(* Clearing leaves a sound buffer with nothing to read. *)
LEMMA ClearKeeps ==
    ASSUME NEW s, Sound(s), NEW t, t = clear(s)
    PROVE  /\ Sound(t)
           /\ Len(Readable(t)) = 0
           /\ IsSuffix(Readable(t), Readable(s))
           /\ t.b = s.b /\ t.w = 0
<1>1. t = [b |-> s.b, r |-> 0, w |-> 0] /\ t.b = s.b /\ t.r = 0 /\ t.w = 0
    <2>1. s = [b |-> s.b, r |-> s.r, w |-> s.w]
        BY DEF Sound
    <2> QED
        BY <2>1, ClearOf
<1>2. Sound(t)
    BY <1>1, SizesOfSound, LimitIsSmall DEF Sound
<1>3. Readable(t) \in Seq(Range(s.b)) /\ Len(Readable(t)) = 0
    BY <1>1, <1>2, ReadableOfSound
<1>4. Readable(s) \in Seq(Range(s.b)) /\ Len(Readable(s)) \in Nat
    BY ReadableOfSound, LenProperties
<1>5. 0 <= Len(Readable(s)) /\ \A i \in 1 .. 0 : Readable(t)[i] = Readable(s)[(Len(Readable(s)) - 0) + i]
    BY <1>4
<1> QED
    BY <1>1, <1>2, <1>3, <1>4, <1>5, SuffixByElements

(* Reading takes bytes from the front of the readable ones. *)
LEMMA ReadKeeps ==
    ASSUME NEW s, Sound(s), NEW size \in Nat, NEW t, t = read(s, size)
    PROVE  /\ Sound(t)
           /\ IsSuffix(Readable(t), Readable(s))
           /\ t.b = s.b /\ t.w <= s.w
<1>1. /\ s.r \in Nat /\ s.w \in Nat /\ Len(s.b) \in Nat
      /\ s.r <= s.w /\ s.w <= Len(s.b) /\ s.w - s.r <= MaxReadable
      /\ readableBytes(s) = s.w - s.r
      /\ s = [b |-> s.b, r |-> s.r, w |-> s.w]
      /\ Len(s.b) <= Limit /\ MaxReadable \in Nat
      /\ s.b \in Seq(Range(s.b))
      /\ (s.r = s.w => s.r = 0)
    BY SizesOfSound, LimitIsSmall DEF Sound
<1>2. PICK taken \in Nat : taken = Min({size, readableBytes(s)}) /\ taken <= s.w - s.r
    <2>1. size \in Int /\ readableBytes(s) \in Int
        BY <1>1
    <2>2. Min({size, readableBytes(s)}) =
              IF size <= readableBytes(s) THEN size ELSE readableBytes(s)
        BY <2>1, MinOfTwo
    <2> QED
        BY <1>1, <2>2
<1>3. PICK u : u = [s EXCEPT !.r = @ + taken]
    OBVIOUS
<1>8. u = [b |-> s.b, r |-> s.r + taken, w |-> s.w]
    BY <1>1, <1>3
<1>4. u.b = s.b /\ u.r = s.r + taken /\ u.w = s.w
    BY <1>8
<1>5. t = IF u.r = u.w THEN clear(u) ELSE u
    BY <1>2, <1>3 DEF read, clear
<1>6. CASE u.r = u.w
    <2>1. t = clear(s)
        <3>1. clear(u) = [b |-> s.b, r |-> 0, w |-> 0]
            BY <1>4, <1>8, ClearOf
        <3>2. clear(s) = [b |-> s.b, r |-> 0, w |-> 0]
            BY <1>1, ClearOf
        <3> QED
            BY <1>5, <1>6, <3>1, <3>2
    <2> QED
        BY <1>1, <2>1, ClearKeeps
<1>7. CASE u.r # u.w
    <2>1. t = u
        BY <1>5, <1>7
    <2>2. Sound(t)
        <3>1. /\ t.r \in Nat /\ t.w \in Nat /\ t.r <= t.w /\ t.w <= Len(t.b)
              /\ (t.r = t.w => t.r = 0)
              /\ t.w - t.r <= MaxReadable /\ Len(t.b) <= Limit
            BY <1>1, <1>2, <1>4, <1>7, <2>1
        <3>2. t = [b |-> t.b, r |-> t.r, w |-> t.w] /\ t.b \in Seq(Range(t.b))
            BY <1>1, <1>4, <1>8, <2>1
        <3> QED
            BY <3>1, <3>2 DEF Sound
    <2>3. PICK k \in Nat, n \in Nat : k = t.w - t.r /\ n = s.w - s.r /\ n - k = taken
        BY <1>1, <1>2, <1>4, <2>1
    <2>4. /\ Readable(t) \in Seq(Range(s.b)) /\ Len(Readable(t)) = k
          /\ \A i \in 1 .. k : Readable(t)[i] = s.b[(s.r + taken) + i]
        BY <1>4, <2>1, <2>2, <2>3, ReadableOfSound
    <2>5. /\ Readable(s) \in Seq(Range(s.b)) /\ Len(Readable(s)) = n
          /\ \A i \in 1 .. n : Readable(s)[i] = s.b[s.r + i]
        BY <2>3, ReadableOfSound
    <2>6. k <= n /\ \A i \in 1 .. k : /\ (n - k) + i \in 1 .. n
                                      /\ s.r + ((n - k) + i) = (s.r + taken) + i
        BY <1>1, <2>3
    <2>7. \A i \in 1 .. k : Readable(t)[i] = Readable(s)[(n - k) + i]
        BY <2>4, <2>5, <2>6
    <2>8. IsSuffix(Readable(t), Readable(s))
        BY <2>4, <2>5, <2>6, <2>7, SuffixByElements
    <2> QED
        BY <1>1, <1>4, <2>1, <2>2, <2>8
<1> QED
    BY <1>6, <1>7

-----------------------------------------------------------------------------
(* The steps of the specification. *)

(* A new buffer is sound, and has nothing to read. *)
LEMMA InitSound ==
    ASSUME BufferInit
    PROVE  BufferInv /\ Readable(buf) = << >>
<1>1. /\ buf = [b |-> buf.b, r |-> buf.r, w |-> buf.w]
      /\ buf.b = [i \in 1 .. InitSize |-> 0] /\ buf.r = 0 /\ buf.w = 0 /\ room = 0
    BY DEF BufferInit
<1>2. buf.b \in Seq(Range(buf.b)) /\ Len(buf.b) = InitSize
    <2>1. buf.b = [i \in 1 .. InitSize |-> buf.b[i]]
        BY <1>1
    <2> QED
        BY <2>1, LimitIsSmall, FunctionIsSequence
<1>3. Sound(buf)
    BY <1>1, <1>2, LimitIsSmall DEF Sound
<1>4. BufferInv
    BY <1>1, <1>2, <1>3, LimitIsSmall DEF BufferInv
<1>5. Readable(buf) \in Seq(Range(buf.b)) /\ Len(Readable(buf)) = 0
    BY <1>1, <1>3, ReadableOfSound
<1> QED
    BY <1>4, <1>5, EmptySeq

(* The queue's notions of prefix and suffix are the buffer's. *)
LEMMA SameNotions ==
    ASSUME NEW s, NEW t
    PROVE  /\ IsPrefix(s, t) => Queue!IsPrefix(s, t)
           /\ IsSuffix(s, t) => Queue!IsSuffix(s, t)
BY DEF IsPrefix, Queue!IsPrefix, IsSuffix, Queue!IsSuffix, Reverse, Queue!Reverse

(* Every call keeps the invariant and does to the readable bytes what the
   queue allows. *)
LEMMA StepKeeps ==
    ASSUME BufferInv, [BufferNext]_bufferVars
    PROVE  BufferInv' /\ [Queue!ByteNext]_<<Readable(buf), room>>
<1>1. /\ Sound(buf) /\ room \in Nat /\ buf.w + room <= Len(buf.b)
      /\ Len(buf.b) \in Nat /\ buf.w \in Nat /\ buf.r \in Nat
      /\ readableBytes(buf) = buf.w - buf.r
      /\ Readable(buf) \in Seq(Range(buf.b)) /\ Len(Readable(buf)) \in Nat
    BY SizesOfSound, ReadableOfSound, LenProperties DEF BufferInv
<1>2. ASSUME NEW size \in Sizes, Reserve(size)
      PROVE  BufferInv' /\ Queue!Ask
    <2>1. size \in Requests /\ size \in Nat
        BY LimitIsSmall DEF Requests
    <2>2. Sound(buf') /\ Readable(buf') = Readable(buf) /\ buf'.w + size <= Len(buf'.b)
        BY <1>1, <1>2, <2>1, ReserveKeeps DEF Reserve
    <2> QED
        BY <1>2, <2>1, <2>2 DEF Reserve, BufferInv, Sound, Readable, Queue!Ask
<1>3. ASSUME NEW size \in Nat, buf' = read(buf, size), UNCHANGED room
      PROVE  BufferInv' /\ Queue!Take
    <2>1. /\ Sound(buf') /\ IsSuffix(Readable(buf'), Readable(buf))
          /\ buf'.b = buf.b /\ buf'.w <= buf.w
        BY <1>1, <1>3, ReadKeeps
    <2>2. buf'.w \in Nat
        BY <2>1 DEF Sound
    <2>3. buf'.w + room' <= Len(buf'.b) /\ room' \in Nat
        BY <1>1, <1>3, <2>1, <2>2
    <2> QED
        BY <1>3, <2>1, <2>3, SameNotions DEF BufferInv, Sound, Readable, Queue!Take
<1>4. ASSUME Clear
      PROVE  BufferInv' /\ Queue!Take
    <2>1. /\ Sound(buf') /\ IsSuffix(Readable(buf'), Readable(buf))
          /\ buf'.b = buf.b /\ buf'.w = 0
        BY <1>1, <1>4, ClearKeeps DEF Clear
    <2>2. buf'.w + room' <= Len(buf'.b) /\ room' \in Nat /\ UNCHANGED room
        BY <1>1, <1>4, <2>1 DEF Clear
    <2> QED
        BY <2>1, <2>2, SameNotions DEF BufferInv, Sound, Readable, Queue!Take
<1>5. ASSUME NEW n \in Sizes, NEW bytes \in [1 .. n -> Byte], Write(bytes)
      PROVE  BufferInv' /\ Queue!Put
    <2>1. n \in Nat
        BY LimitIsSmall DEF Requests
    <2>2. bytes \in Seq(Byte)
        BY <2>1
    <2>3. Len(bytes) \in Nat
        BY <2>2, LenProperties
    <2>4. buf.w + Len(bytes) <= Len(buf.b) /\ (buf.w - buf.r) + Len(bytes) <= MaxReadable
        BY <1>1, <1>5, <2>3 DEF Write
    <2>5. /\ Sound(buf') /\ Readable(buf') = Readable(buf) \o bytes
          /\ buf'.w = buf.w + Len(bytes) /\ Len(buf'.b) = Len(buf.b)
        BY <1>1, <1>5, <2>2, <2>4, WriteKeeps DEF Write
    <2>6. room' = room - Len(bytes) /\ Len(bytes) <= room
        BY <1>5 DEF Write
    <2>7. room' \in Nat /\ buf'.w + room' <= Len(buf'.b)
        BY <1>1, <2>3, <2>5, <2>6
    <2>8. /\ IsPrefix(Readable(buf), Readable(buf'))
          /\ Len(Readable(buf')) - Len(Readable(buf)) = Len(bytes)
        <3>1. /\ IsPrefix(Readable(buf), Readable(buf) \o bytes)
              /\ Len(Readable(buf) \o bytes) = Len(Readable(buf)) + Len(bytes)
            BY <1>1, <2>2, PrefixOfConcat
        <3> QED
            BY <1>1, <2>3, <2>5, <3>1
    <2>9. Queue!Put
        BY <2>6, <2>8, SameNotions DEF Queue!Put, Readable
    <2> QED
        BY <2>5, <2>7, <2>9 DEF BufferInv, Sound
<1>6. ASSUME NEW n \in Widths, NEW v \in Ints(n), WriteInt(v, n)
      PROVE  BufferInv' /\ Queue!AskAndPut
    <2>1. n \in Requests /\ n \in Nat
        BY LimitIsSmall DEF Requests
    <2>2. PICK s : s = reserveWritableBytes(buf, n)
        OBVIOUS
    <2>3. PICK bytes : bytes = IntBytes(v, n)
        OBVIOUS
    <2>4. bytes \in Seq(Range(bytes)) /\ Len(bytes) = n
        <3>1. bytes = [k \in 1 .. n |-> bytes[k]]
            BY <2>3 DEF IntBytes
        <3> QED
            BY <2>1, <3>1, FunctionIsSequence
    <2>5. Sound(s) /\ Readable(s) = Readable(buf) /\ s.w + n <= Len(s.b)
        BY <1>1, <2>1, <2>2, ReserveKeeps
    <2>6. s.w - s.r = buf.w - buf.r
        BY <1>1, <2>5, ReadableOfSound
    <2>7. (s.w - s.r) + n <= MaxReadable
        BY <1>1, <1>6, <2>6 DEF WriteInt
    <2>8. buf' = write(s, bytes) /\ room' = 0
        BY <1>6, <2>2, <2>3 DEF WriteInt
    <2>9. Sound(buf') /\ Readable(buf') = Readable(buf) \o bytes
        BY <2>4, <2>5, <2>7, <2>8, WriteKeeps
    <2>10. room' \in Nat /\ buf'.w + room' <= Len(buf'.b)
        BY <2>8, <2>9 DEF Sound
    <2>11. Queue!AskAndPut
        <3>1. IsPrefix(Readable(buf), Readable(buf'))
            BY <1>1, <2>4, <2>9, PrefixOfConcat
        <3> QED
            BY <2>8, <3>1, SameNotions DEF Queue!AskAndPut, Readable
    <2> QED
        BY <2>9, <2>10, <2>11 DEF BufferInv, Sound
<1>7. ASSUME NEW size \in Sizes, Read(size)
      PROVE  BufferInv' /\ Queue!Take
    BY <1>3, <1>7, LimitIsSmall DEF Read, Requests
<1>8. ASSUME NEW n \in Widths, ReadInt(n)
      PROVE  BufferInv' /\ Queue!Take
    BY <1>3, <1>8, LimitIsSmall DEF ReadInt, Requests
<1>9. CASE UNCHANGED bufferVars
    BY <1>9 DEF bufferVars, BufferInv, Sound, Readable
<1> QED
    BY <1>2, <1>4, <1>5, <1>6, <1>7, <1>8, <1>9 DEF BufferNext, Queue!ByteNext

(* reserveWritableBytes always makes the room that was asked for, and the
   array never grows past the bytes in it, the largest request and two
   expansions, or what it began with: for all sizes, and in spite of the
   wrapping arithmetic. *)
THEOREM ArraysAreRight == BufferSpec => []CapacityIsRight
<1>1. BufferInit => BufferInv
    BY InitSound
<1>2. BufferInv /\ [BufferNext]_bufferVars => BufferInv'
    BY StepKeeps
<1>3. BufferInv => CapacityIsRight
    BY DEF BufferInv, Sound, CapacityIsRight, RoomIsReal, CapacityBounded,
           capacity, Limit, Requests
<1> QED
    BY <1>1, <1>2, <1>3, PTL DEF BufferSpec

(* A DynamicBuffer is a queue of bytes: compacting, growing and shrinking
   never reorder, lose or invent a byte. *)
THEOREM BufferIsAQueue == BufferSpec => ImplementsQueue
<1>1. BufferInit => BufferInv /\ Queue!ByteInit
    BY InitSound DEF Queue!ByteInit, BufferInit
<1>2. BufferInv /\ [BufferNext]_bufferVars => BufferInv' /\ [Queue!ByteNext]_<<Readable(buf), room>>
    BY StepKeeps
<1> QED
    BY <1>1, <1>2, PTL DEF BufferSpec, ImplementsQueue, Queue!ByteSpec

-----------------------------------------------------------------------------
(* Integers. *)

(* Induction, over sets: a set of numbers has a least one. *)
LEMMA Least ==
    ASSUME NEW S \in SUBSET Nat, S # {}
    PROVE  \E n \in S : \A m \in S : n <= m
<1> DEFINE R == {ss \in Nat \X Nat : ss[1] < ss[2]}
<1>1. IsWellFoundedOn(R, Nat)
    BY NatLessThanWellFounded DEF OpToRel
<1>2. PICK x \in S : \A y \in S : ~ (<<y, x>> \in R)
    <2> HIDE DEF R
    <2> QED
        BY <1>1, WFMin, Zenon
<1>3. ASSUME NEW y \in S
      PROVE  x <= y
    <2>1. <<y, x>> \notin R
        BY <1>2
    <2> QED
        BY <2>1
<1> QED
    BY <1>3

(* What holds of 0 and of the number after each it holds of. *)
LEMMA UpTo ==
    ASSUME NEW N \in Nat, NEW S, 0 \in S, \A n \in 0 .. N - 1 : n \in S => n + 1 \in S
    PROVE  \A n \in 0 .. N : n \in S
<1> SUFFICES ASSUME ~ \A n \in 0 .. N : n \in S
             PROVE  FALSE
    OBVIOUS
<1>1. PICK n \in (0 .. N) \ S : \A m \in (0 .. N) \ S : n <= m
    <2>1. (0 .. N) \ S \in SUBSET Nat /\ (0 .. N) \ S # {}
        OBVIOUS
    <2> QED
        BY <2>1, Least
<1>2. n # 0 /\ n - 1 \in 0 .. N - 1
    BY <1>1
<1>3. n - 1 \in S
    BY <1>1, <1>2
<1> QED
    BY <1>1, <1>2, <1>3

(* g begins with x and goes on as step says. *)
IsRun(step, x, N, g) == g = [k \in 0 .. N |-> IF k = 0 THEN x ELSE step[<<k, g[k - 1]>>]]

LEMMA RunExists ==
    ASSUME NEW S, NEW x \in S, NEW N \in Nat, NEW step \in [(1 .. N) \X S -> S]
    PROVE  \E g \in [0 .. N -> S] : IsRun(step, x, N, g)
<1> DEFINE Runs(k, g) == g[0] = x /\ \A m \in 1 .. k : g[m] = step[<<m, g[m - 1]>>]
           P == {k \in 0 .. N : \E g \in [0 .. k -> S] : Runs(k, g)}
<1>1. 0 \in P
    <2> DEFINE g == [i \in 0 .. 0 |-> x]
    <2>1. g \in [0 .. 0 -> S] /\ Runs(0, g)
        OBVIOUS
    <2> HIDE DEF g
    <2>2. \E f \in [0 .. 0 -> S] : Runs(0, f)
        <3> HIDE DEF Runs
        <3> QED
            BY <2>1
    <2> QED
        BY <2>2
<1>2. ASSUME NEW k \in 0 .. N - 1, k \in P
      PROVE  k + 1 \in P
    <2>1. PICK g \in [0 .. k -> S] : Runs(k, g)
        BY <1>2
    <2>2. step[<<k + 1, g[k]>>] \in S
        BY <2>1
    <2> DEFINE h == [i \in 0 .. k + 1 |-> IF i = k + 1 THEN step[<<k + 1, g[k]>>] ELSE g[i]]
    <2>3. h \in [0 .. k + 1 -> S]
        BY <2>1, <2>2
    <2>4. Runs(k + 1, h)
        <3>1. h[0] = x
            BY <2>1
        <3>2. ASSUME NEW m \in 1 .. k + 1
              PROVE  h[m] = step[<<m, h[m - 1]>>]
            <4>1. m - 1 \in 0 .. k /\ h[m - 1] = g[m - 1]
                OBVIOUS
            <4>2. CASE m = k + 1
                <5>1. h[m] = step[<<k + 1, g[k]>>] /\ m - 1 = k
                    BY <4>2
                <5> HIDE DEF h
                <5> QED
                    BY <4>1, <4>2, <5>1, Zenon
            <4>3. CASE m # k + 1
                BY <2>1, <4>1, <4>3
            <4> QED
                BY <4>2, <4>3
        <3> QED
            BY <3>1, <3>2
    <2> HIDE DEF h
    <2>5. \E f \in [0 .. k + 1 -> S] : Runs(k + 1, f)
        <3> HIDE DEF Runs
        <3> QED
            BY <2>3, <2>4
    <2> QED
        BY <2>5
<1>3. N \in P
    <2> HIDE DEF P
    <2>1. N \in 0 .. N
        OBVIOUS
    <2> QED
        BY <1>1, <1>2, <2>1, UpTo
<1>4. PICK g \in [0 .. N -> S] : Runs(N, g)
    BY <1>3
<1>5. IsRun(step, x, N, g)
    BY <1>4 DEF IsRun
<1> QED
    BY <1>5

(* The weight of a byte is Base times that of the one after it. *)
LEMMA WeightsAre ==
    ASSUME NEW n \in Nat
    PROVE  /\ Weights(n) \in [0 .. n -> Nat \ {0}]
           /\ Weights(n)[0] = 1
           /\ \A j \in 1 .. n : Weights(n)[j] = Base * Weights(n)[j - 1]
<1> DEFINE S == Nat \ {0}
           step == [a \in (1 .. n) \X S |-> Base * a[2]]
           Right(f) == f = [j \in 0 .. n |-> IF j = 0 THEN 1 ELSE Base * f[j - 1]]
<1>1. step \in [(1 .. n) \X S -> S] /\ 1 \in S
    <2>1. PICK B \in Nat \ {0} : B = Base
        BY BufferAssumption
    <2>2. \A c \in Nat \ {0} : B * c \in Nat \ {0}
        OBVIOUS
    <2> QED
        BY <2>1, <2>2
<1>2. PICK g \in [0 .. n -> S] : IsRun(step, 1, n, g)
    <2> HIDE DEF step, S
    <2> QED
        BY <1>1, RunExists
<1>3. Right(g)
    <2>1. ASSUME NEW j \in 0 .. n, j # 0
          PROVE  step[<<j, g[j - 1]>>] = Base * g[j - 1]
        <3>1. j \in 1 .. n /\ j - 1 \in 0 .. n
            BY <2>1
        <3>2. <<j, g[j - 1]>> \in (1 .. n) \X S
            BY <1>2, <3>1
        <3> QED
            BY <3>2
    <2> HIDE DEF step
    <2> QED
        BY <1>2, <2>1, Zenon DEF IsRun
<1>4. Right(Weights(n))
    <2>1. Weights(n) = CHOOSE f : Right(f)
        BY DEF Weights
    <2> HIDE DEF Right
    <2> QED
        BY <1>3, <2>1
<1>5. PICK f : f = Weights(n)
    OBVIOUS
<1>6. f = [j \in 0 .. n |-> IF j = 0 THEN 1 ELSE Base * f[j - 1]]
    BY <1>4, <1>5
<1>7. f[0] = 1 /\ \A j \in 1 .. n : f[j] = Base * f[j - 1]
    BY <1>6
<1>8. \A j \in 0 .. n : f[j] \in S
    <2> DEFINE P == {j \in 0 .. n : f[j] \in S}
    <2>1. 0 \in P
        BY <1>7
    <2>2. ASSUME NEW j \in 0 .. n - 1, j \in P
          PROVE  j + 1 \in P
        <3>1. PICK B \in Nat \ {0}, c \in Nat \ {0} : B = Base /\ c = f[j]
            BY <2>2, BufferAssumption
        <3>2. B * c \in Nat \ {0}
            OBVIOUS
        <3>3. f[j + 1] = Base * f[j]
            BY <1>7
        <3> QED
            BY <3>1, <3>2, <3>3
    <2> HIDE DEF P
    <2>3. \A j \in 0 .. n : j \in P
        BY <2>1, <2>2, UpTo
    <2> QED
        BY <2>3 DEF P
<1>9. f \in [0 .. n -> S]
    BY <1>6, <1>8
<1> QED
    BY <1>5, <1>7, <1>9

(* Quotient and remainder are what they are called. *)
LEMMA Division ==
    ASSUME NEW v \in Nat, NEW p \in Nat \ {0}
    PROVE  /\ v \div p \in Nat /\ v % p \in Nat
           /\ v = (v \div p) * p + (v % p) /\ v % p < p
    OBVIOUS

LEMMA Quotient ==
    ASSUME NEW v \in Nat, NEW p \in Nat \ {0}, NEW q \in Nat, NEW r \in Nat,
           v = q * p + r, r < p
    PROVE  v \div p = q
<1>1. PICK Q \in Nat, R \in Nat : Q = v \div p /\ v = Q * p + R /\ R < p
    BY Division
<1>2. CASE q < Q
    <2>1. PICK d \in Nat : Q = q + 1 + d
        BY <1>2
    <2>2. Q * p = q * p + p + d * p
        BY <2>1
    <2>3. d * p \in Nat
        OBVIOUS
    <2> QED
        BY <1>1, <2>2, <2>3
<1>3. CASE Q < q
    <2>1. PICK d \in Nat : q = Q + 1 + d
        BY <1>3
    <2>2. q * p = Q * p + p + d * p
        BY <2>1
    <2>3. d * p \in Nat
        OBVIOUS
    <2> QED
        BY <1>1, <2>2, <2>3
<1> QED
    BY <1>1, <1>2, <1>3

(* Shifting by one more byte. *)
LEMMA ShiftOnce ==
    ASSUME NEW v \in Nat, NEW b \in Nat \ {0}, NEW p \in Nat \ {0}
    PROVE  v \div (b * p) = (v \div p) \div b
<1>1. PICK q \in Nat, r \in Nat : q = v \div p /\ v = q * p + r /\ r < p
    BY Division
<1>2. PICK Q \in Nat, R \in Nat : Q = q \div b /\ q = Q * b + R /\ R < b
    BY Division
<1>3. PICK P \in Nat \ {0}, s \in Nat : P = b * p /\ s = R * p + r
    OBVIOUS
<1>4. v = Q * P + s
    <2>1. q * p = (Q * b) * p + R * p
        <3>1. PICK x \in Nat : x = Q * b
            OBVIOUS
        <3>2. (x + R) * p = x * p + R * p
            OBVIOUS
        <3> QED
            BY <1>2, <3>1, <3>2
    <2>2. (Q * b) * p = Q * (b * p)
        OBVIOUS
    <2> QED
        BY <1>1, <1>3, <2>1, <2>2
<1>5. s < P
    <2>1. PICK d \in Nat : b = R + 1 + d
        BY <1>2
    <2>2. b * p = R * p + p + d * p
        BY <2>1
    <2>3. d * p \in Nat
        OBVIOUS
    <2> QED
        BY <1>1, <1>3, <2>2, <2>3
<1>6. v \div P = Q
    BY <1>4, <1>5, Quotient
<1> QED
    BY <1>1, <1>2, <1>3, <1>6

(* The bytes that are put behind others. *)
LEMMA PutBehind ==
    ASSUME NEW S, NEW T, NEW s \in Seq(S), NEW t \in Seq(T), NEW m \in Nat, m = Len(s),
           NEW k \in 1 .. Len(t)
    PROVE  Len(s \o t) = m + Len(t) /\ (s \o t)[m + k] = t[k]
<1>1. PICK U : U = S \cup T
    OBVIOUS
<1>2. s \in Seq(U) /\ t \in Seq(U)
    BY <1>1
<1>3. /\ Len(s \o t) = Len(s) + Len(t)
      /\ \A i \in 1 .. Len(s) + Len(t) :
            (s \o t)[i] = IF i <= Len(s) THEN s[i] ELSE t[i - Len(s)]
    BY <1>2, ConcatProperties
<1>4. m + k \in 1 .. Len(s) + Len(t) /\ ~ (m + k <= Len(s)) /\ (m + k) - Len(s) = k
    OBVIOUS
<1> QED
    BY <1>3, <1>4

(* The byte that is added to a sum of shifted bytes. *)
AddsByte(v, b, p) == (v \div p) * p = (v \div (b * p)) * (b * p) + ((v \div p) % b) * p

LEMMA NextByte ==
    ASSUME NEW v \in Nat, NEW b \in Nat \ {0}, NEW p \in Nat \ {0}
    PROVE  AddsByte(v, b, p)
<1>1. PICK q \in Nat : q = v \div p
    BY Division
<1>2. PICK Q \in Nat, R \in Nat : Q = q \div b /\ R = q % b /\ q = Q * b + R
    BY Division
<1>3. v \div (b * p) = Q
    BY <1>1, <1>2, ShiftOnce
<1>4. q * p = Q * (b * p) + R * p
    <2>1. PICK x \in Nat : x = Q * b
        OBVIOUS
    <2>2. (x + R) * p = x * p + R * p
        OBVIOUS
    <2>3. (Q * b) * p = Q * (b * p)
        OBVIOUS
    <2> QED
        BY <1>2, <2>1, <2>2, <2>3
<1> QED
    BY <1>1, <1>2, <1>3, <1>4, Zenon DEF AddsByte

(* The sums that peekInt goes through. *)
IsSum(s, n, offset, f) ==
    f = [k \in 0 .. n |-> IF k = 0 THEN 0
            ELSE f[k - 1] + s.b[s.r + offset + k] * Weights(n)[n - k]]

LEMMA PeekIsLastSum ==
    ASSUME NEW s, NEW n, NEW offset
    PROVE  peekInt(s, n, offset) = (CHOOSE f : IsSum(s, n, offset, f))[n]
    BY DEF peekInt, IsSum

(* The bytes of an integer, put together again, are the integer: after k   *)
(* of them the sum is v without what the others count for.                 *)
LEMMA PeekGivesBack ==
    ASSUME NEW n \in Nat, NEW v \in Ints(n), NEW s, NEW offset,
           \A k \in 1 .. n : s.b[s.r + offset + k] = IntBytes(v, n)[k]
    PROVE  peekInt(s, n, offset) = v
<1>1. PICK w \in [0 .. n -> Nat \ {0}] :
          /\ w = Weights(n) /\ w[0] = 1
          /\ \A j \in 1 .. n : w[j] = Base * w[j - 1]
    BY WeightsAre
<1>2. PICK B \in Nat \ {0} : B = Base
    BY BufferAssumption
<1>3. v \in Nat /\ v < w[n]
    BY <1>1 DEF Ints
<1> DEFINE Upto(k) == (v \div w[n - k]) * w[n - k]
           g == [k \in 0 .. n |-> Upto(k)]
<1>4. ASSUME NEW k \in 1 .. n
      PROVE  Upto(k) = Upto(k - 1) + s.b[s.r + offset + k] * w[n - k]
    <2>1. n - k \in 0 .. n /\ n - (k - 1) \in 1 .. n /\ (n - (k - 1)) - 1 = n - k
        OBVIOUS
    <2>2. PICK p \in Nat \ {0} : p = w[n - k]
        BY <1>1, <2>1
    <2>3. w[n - (k - 1)] = B * p
        BY <1>1, <1>2, <2>1, <2>2
    <2>4. s.b[s.r + offset + k] = (v \div p) % B
        <3>1. IntBytes(v, n)[k] = (v \div w[n - k]) % Base
            BY <1>1 DEF IntBytes
        <3> QED
            BY <1>2, <2>2, <3>1
    <2>5. AddsByte(v, B, p)
        BY <1>3, NextByte, Zenon
    <2> QED
        BY <2>2, <2>3, <2>4, <2>5, Zenon DEF AddsByte
<1>5. Upto(0) = 0
    <2>1. PICK p \in Nat \ {0} : p = w[n] /\ n - 0 = n
        BY <1>1
    <2>2. v = 0 * p + v /\ v < p
        BY <1>3, <2>1
    <2>3. v \div p = 0
        BY <1>3, <2>2, Quotient
    <2> QED
        BY <2>1, <2>3
<1>6. Upto(n) = v
    <2>1. n - n = 0 /\ w[0] = 1
        BY <1>1
    <2>2. (v \div 1) * 1 = v
        BY <1>3
    <2> QED
        BY <2>1, <2>2, Zenon
<1>7. IsSum(s, n, offset, g)
    <2>1. ASSUME NEW k \in 0 .. n, k # 0
          PROVE  g[k] = g[k - 1] + s.b[s.r + offset + k] * w[n - k]
        <3>1. k \in 1 .. n /\ k - 1 \in 0 .. n
            BY <2>1
        <3>2. g[k] = Upto(k) /\ g[k - 1] = Upto(k - 1)
            BY <3>1, Zenon
        <3> HIDE DEF Upto
        <3> QED
            BY <1>4, <3>1, <3>2
    <2>2. ASSUME 0 \in 0 .. n
          PROVE  g[0] = 0
        BY <1>5, <2>2, Zenon
    <2>3. g = [k \in 0 .. n |-> g[k]]
        BY Zenon
    <2> HIDE DEF g
    <2> QED
        BY <1>1, <2>1, <2>2, <2>3 DEF IsSum
<1>8. PICK f : f = CHOOSE h : IsSum(s, n, offset, h)
    OBVIOUS
<1>9. IsSum(s, n, offset, f)
    <2> HIDE DEF g
    <2> QED
        BY <1>7, <1>8, Zenon
<1>10. /\ f[0] = 0
       /\ \A k \in 1 .. n : f[k] = f[k - 1] + s.b[s.r + offset + k] * w[n - k]
    BY <1>1, <1>9 DEF IsSum
<1>11. \A k \in 0 .. n : f[k] = Upto(k)
    <2> DEFINE P == {k \in 0 .. n : f[k] = Upto(k)}
    <2>1. 0 \in P
        BY <1>5, <1>10
    <2>2. ASSUME NEW k \in 0 .. n - 1, k \in P
          PROVE  k + 1 \in P
        <3>1. k + 1 \in 1 .. n /\ k + 1 \in 0 .. n /\ (k + 1) - 1 = k
            OBVIOUS
        <3>2. f[k] = Upto(k)
            BY <2>2
        <3>3. Upto(k + 1) = Upto((k + 1) - 1) + s.b[s.r + offset + (k + 1)] * w[n - (k + 1)]
            BY <1>4, <3>1
        <3>4. f[k + 1] = f[(k + 1) - 1] + s.b[s.r + offset + (k + 1)] * w[n - (k + 1)]
            BY <1>10, <3>1
        <3> HIDE DEF Upto
        <3>5. f[k + 1] = Upto(k + 1)
            BY <3>1, <3>2, <3>3, <3>4, Zenon
        <3> QED
            BY <3>1, <3>5
    <2> HIDE DEF P
    <2>3. \A k \in 0 .. n : k \in P
        BY <2>1, <2>2, UpTo
    <2> HIDE DEF Upto
    <2> QED
        BY <2>3 DEF P
<1>12. f[n] = v
    <2>1. n \in 0 .. n
        OBVIOUS
    <2> HIDE DEF Upto
    <2> QED
        BY <1>6, <1>11, <2>1, Zenon
<1> QED
    BY <1>8, <1>12, PeekIsLastSum, Zenon

(* An integer that was written is read back from where it was written,     *)
(* whatever its width, and wherever reserveWritableBytes moved the bytes   *)
(* before it.                                                              *)
THEOREM IntegersComeBack == BufferSpec => IntRoundTrip
<1> DEFINE ComesBack(n, v) ==
              WriteInt(v, n) => peekInt(buf', n, readableBytes(buf)) = v
<1>1. ASSUME BufferInv, NEW n \in Widths, NEW v \in Ints(n), WriteInt(v, n)
      PROVE  peekInt(buf', n, readableBytes(buf)) = v
    <2>1. n \in Requests /\ n \in Nat
        BY LimitIsSmall DEF Requests
    <2>2. PICK s : s = reserveWritableBytes(buf, n)
        OBVIOUS
    <2>3. PICK bytes : bytes = IntBytes(v, n)
        OBVIOUS
    <2>4. bytes \in Seq(Range(bytes)) /\ Len(bytes) = n
        <3>1. bytes = [k \in 1 .. n |-> bytes[k]]
            BY <2>3 DEF IntBytes
        <3> QED
            BY <2>1, <3>1, FunctionIsSequence
    <2>5. Sound(buf) /\ Sound(s) /\ Readable(s) = Readable(buf) /\ s.w + n <= Len(s.b)
        BY <1>1, <2>1, <2>2, ReserveKeeps DEF BufferInv
    <2>6. s.w - s.r = buf.w - buf.r
        BY <2>5, ReadableOfSound
    <2>7. (s.w - s.r) + n <= MaxReadable
        BY <1>1, <2>5, <2>6, SizesOfSound DEF WriteInt
    <2>8. buf' = write(s, bytes)
        BY <1>1, <2>2, <2>3 DEF WriteInt
    <2>9. Sound(buf') /\ Readable(buf') = Readable(buf) \o bytes
        BY <2>4, <2>5, <2>7, <2>8, WriteKeeps
    <2> DEFINE t == buf'
    <2>10. PICK m \in Nat : m = readableBytes(buf) /\ m = Len(Readable(buf))
        <3>1. readableBytes(buf) = buf.w - buf.r /\ Len(Readable(buf)) = buf.w - buf.r
            BY <2>5, SizesOfSound, ReadableOfSound
        <3>2. buf.w - buf.r \in Nat
            BY <2>5 DEF Sound
        <3> QED
            BY <3>1, <3>2
    <2>11. ASSUME NEW k \in 1 .. n
           PROVE  t.b[t.r + m + k] = IntBytes(v, n)[k]
        <3>1. Readable(buf) \in Seq(Range(buf.b))
            BY <2>5, ReadableOfSound
        <3>2. /\ Len(Readable(t)) = m + n
              /\ Readable(t)[m + k] = bytes[k]
            <4>1. PICK old \in Seq(Range(buf.b)) : old = Readable(buf) /\ m = Len(old)
                BY <2>10, <3>1
            <4>2. k \in 1 .. Len(bytes)
                BY <2>4
            <4>3. Len(old \o bytes) = m + Len(bytes) /\ (old \o bytes)[m + k] = bytes[k]
                BY <2>4, <4>1, <4>2, PutBehind
            <4>4. Readable(t) = old \o bytes
                BY <2>9, <2>10, <4>1, Zenon
            <4> QED
                BY <2>4, <4>3, <4>4, Zenon
        <3>3. /\ t.r \in Nat /\ t.w \in Nat
              /\ Len(Readable(t)) = t.w - t.r
              /\ \A i \in 1 .. t.w - t.r : Readable(t)[i] = t.b[t.r + i]
            BY <2>9, <2>10, SizesOfSound, ReadableOfSound
        <3>4. m + k \in 1 .. t.w - t.r /\ t.r + (m + k) = t.r + m + k
            BY <2>1, <3>2, <3>3
        <3>5. Readable(t)[m + k] = t.b[t.r + (m + k)]
            BY <3>3, <3>4, Zenon
        <3> QED
            BY <2>3, <3>2, <3>4, <3>5, Zenon
    <2>12. peekInt(t, n, m) = v
        <3> HIDE DEF t
        <3> QED
            BY <2>1, <2>11, PeekGivesBack
    <2> QED
        BY <2>10, <2>12
<1>2. BufferInit => BufferInv
    BY InitSound
<1>3. BufferInv /\ [BufferNext]_bufferVars => BufferInv'
    BY StepKeeps
<1>4. BufferInv /\ [BufferNext]_bufferVars =>
         [\A n \in Widths : \A v \in Ints(n) : ComesBack(n, v)]_bufferVars
    BY <1>1
<1> QED
    BY <1>2, <1>3, <1>4, PTL DEF BufferSpec, IntRoundTrip

-----------------------------------------------------------------------------
(* SendPath. *)
SendTypeOK ==
    /\ status \in {"CONNECTED", "PENDING_ERROR", "closed"}
    /\ given \in Nat
    /\ write_buffer \in Seq(Nat)
    /\ wire \in Seq(Nat)
    /\ watching \in BOOLEAN
    /\ send_cb \in SendCompletes
    /\ done \in Nat

(* Where a byte that was handed over can be. *)
Has(s, k) == \E i \in 1 .. Len(s) : s[i] = k
OnWire(k) == Has(wire, k)
Waits(k)  == Has(write_buffer, k)

Placed == \A k \in 1 .. given : k \in lost \/ OnWire(k) \/ Waits(k)

SendIInv == SendTypeOK /\ BytesCounted /\ Placed /\ done <= given /\ CompleteMeansSent

----------------------------------------------------------------------------
(* A part of a message is a sequence of as many bytes. *)
LEMMA MessagePart ==
    ASSUME given \in Nat, NEW size \in Nat, NEW n \in 0 .. size
    PROVE  /\ SubSeq(Message(size), 1, n) \in Seq(Nat)
           /\ Len(SubSeq(Message(size), 1, n)) = n
           /\ \A k \in 1 .. n : SubSeq(Message(size), 1, n)[k] = given + k
<1>1. \A k \in 1 .. n : Message(size)[k] \in Nat /\ Message(size)[k] = given + k
  BY DEF Message
<1> QED
  BY <1>1, SubSeqProperties

(* The whole message, too. *)
LEMMA WholeMessage ==
    ASSUME given \in Nat, NEW size \in Nat
    PROVE  /\ Message(size) \in Seq(Nat)
           /\ Len(Message(size)) = size
           /\ \A k \in 1 .. size : Message(size)[k] = given + k
BY DEF Message

(* Bytes that are appended to a sequence are found in it, behind those     *)
(* that were there.                                                        *)
LEMMA Appended ==
    ASSUME NEW s \in Seq(Nat), NEW more \in Seq(Nat), NEW t, t = s \o more, NEW k
    PROVE  /\ Has(s, k) => Has(t, k)
           /\ Has(more, k) => Has(t, k)
<1>1. /\ Len(s) \in Nat /\ Len(more) \in Nat /\ Len(t) = Len(s) + Len(more)
      /\ \A i \in 1 .. Len(s) + Len(more) :
            t[i] = IF i <= Len(s) THEN s[i] ELSE more[i - Len(s)]
  BY ConcatProperties
<1>2. ASSUME NEW i \in 1 .. Len(s) PROVE i \in 1 .. Len(t) /\ t[i] = s[i]
  BY <1>1
<1>3. ASSUME NEW i \in 1 .. Len(more)
      PROVE  Len(s) + i \in 1 .. Len(t) /\ t[Len(s) + i] = more[i]
  <2>1. Len(s) + i \in 1 .. Len(s) + Len(more) /\ ~(Len(s) + i <= Len(s))
        /\ Len(s) + i - Len(s) = i
    BY <1>1
  <2> QED
    BY <1>1, <2>1
<1> QED
  BY <1>2, <1>3 DEF Has

(* The kernel takes the head of the buffer: the bytes are on the wire, and *)
(* no others.                                                              *)
LEMMA TakenCounts ==
    ASSUME SendTypeOK, NEW n \in 0 .. Len(write_buffer), Taken(n)
    PROVE  /\ wire' \in Seq(Nat) /\ write_buffer' \in Seq(Nat)
           /\ Len(wire') = Len(wire) + n
           /\ Len(write_buffer') = Len(write_buffer) - n
<1>1. write_buffer \in Seq(Nat) /\ wire \in Seq(Nat) /\ Len(write_buffer) \in Nat
  BY DEF SendTypeOK
<1>2. \A k \in 1 .. Len(write_buffer) : write_buffer[k] \in Nat
  BY <1>1
<1>3. /\ SubSeq(write_buffer, 1, n) \in Seq(Nat)
      /\ Len(SubSeq(write_buffer, 1, n)) = n
  BY <1>1, <1>2, SubSeqProperties
<1>4. /\ write_buffer' \in Seq(Nat)
      /\ Len(write_buffer') = Len(write_buffer) - n
  BY <1>1, <1>2, SubSeqProperties DEF Taken
<1> QED
  BY <1>1, <1>3, <1>4 DEF Taken

(* And each byte that waited is on the wire or waits on. *)
LEMMA TakenPlaces ==
    ASSUME SendTypeOK, NEW n \in 0 .. Len(write_buffer), Taken(n), NEW k
    PROVE  /\ OnWire(k) => OnWire(k)'
           /\ Waits(k) => OnWire(k)' \/ Waits(k)'
           /\ n = Len(write_buffer) /\ Waits(k) => OnWire(k)'
<1> DEFINE head == SubSeq(write_buffer, 1, n)
<1>1. write_buffer \in Seq(Nat) /\ wire \in Seq(Nat) /\ Len(write_buffer) \in Nat
      /\ n \in Nat
  BY DEF SendTypeOK
<1>2. \A i \in 1 .. Len(write_buffer) : write_buffer[i] \in Nat
  BY <1>1
<1>3. /\ head \in Seq(Nat) /\ Len(head) = n
      /\ \A i \in 1 .. n : head[i] = write_buffer[i]
  BY <1>1, <1>2, SubSeqProperties
<1>4. wire' = wire \o head
  BY DEF Taken
<1>5. /\ OnWire(k) => OnWire(k)'
      /\ (\E i \in 1 .. n : write_buffer[i] = k) => OnWire(k)'
  <2> HIDE DEF head
  <2>1. (OnWire(k) => OnWire(k)') /\ (Has(head, k) => OnWire(k)')
    BY <1>1, <1>3, <1>4, Appended, Zenon DEF OnWire
  <2> QED
    BY <1>3, <2>1 DEF Has
<1>6. ASSUME NEW i \in 1 .. Len(write_buffer), ~(i <= n)
      PROVE  i - n \in 1 .. Len(write_buffer') /\ write_buffer'[i - n] = write_buffer[i]
  <2>1. /\ Len(write_buffer') = Len(write_buffer) - n
        /\ write_buffer' = SubSeq(write_buffer, n + 1, Len(write_buffer))
    BY TakenCounts DEF Taken
  <2>2. \A j \in 1 .. Len(write_buffer) - (n + 1) + 1 :
            SubSeq(write_buffer, n + 1, Len(write_buffer))[j] = write_buffer[n + 1 + j - 1]
    <3>1. n + 1 \in Int /\ Len(write_buffer) \in Int
          /\ (\A j \in n + 1 .. Len(write_buffer) : write_buffer[j] \in Nat)
      BY <1>1, <1>2
    <3> QED
      BY <3>1, SubSeqProperties
  <2>3. /\ i - n \in 1 .. Len(write_buffer) - (n + 1) + 1
        /\ i - n \in 1 .. Len(write_buffer) - n
        /\ n + 1 + (i - n) - 1 = i
    BY <1>1, <1>6
  <2> QED
    BY <2>1, <2>2, <2>3
<1> QED
  <2>1. CASE Waits(k)
    <3>1. PICK i \in 1 .. Len(write_buffer) : write_buffer[i] = k
      BY <2>1 DEF Waits, Has
    <3>2. CASE i <= n
      <4>1. i \in 1 .. n
        BY <1>1, <3>2
      <4> QED
        BY <1>5, <3>1, <4>1
    <3>3. CASE ~(i <= n)
      <4>1. Waits(k)'
        BY <1>6, <3>1, <3>3 DEF Waits, Has
      <4> QED
        BY <1>1, <1>5, <3>3, <4>1
    <3> QED
      BY <3>2, <3>3
  <2> QED
    BY <1>5, <2>1

----------------------------------------------------------------------------
(* Nothing has been handed over. *)
LEMMA InitIInv == SendInit => SendIInv
<1> SUFFICES ASSUME SendInit PROVE SendIInv
  OBVIOUS
<1>1. SendTypeOK
  <2>1. write_buffer \in Seq(Nat) /\ wire \in Seq(Nat)
    BY DEF SendInit
  <2>2. watching \in BOOLEAN
    BY Zenon DEF SendInit
  <2> QED
    BY <2>1, <2>2 DEF SendInit, SendTypeOK, SendCompletes
<1>2. Len(wire) = 0 /\ Len(write_buffer) = 0 /\ given = 0 /\ done = 0
  BY DEF SendInit
<1> QED
  BY <1>1, <1>2, SendAssumption DEF SendIInv, BytesCounted, Placed, CompleteMeansSent

(* A message that send() takes whole: nothing waits, so the wire has all   *)
(* bytes when the callback is told.                                        *)
LEMMA SendAllIInv ==
    ASSUME SendIInv, NEW size \in MsgSizes, NEW cb \in SendCompletes, SendAll(size, cb)
    PROVE  SendIInv'
<1>1. size \in Nat /\ size > 0
  BY SendAssumption DEF SendAll
<1>2. given' = given + size /\ write_buffer = <<>> /\ status = "CONNECTED"
  BY DEF SendAll, MaySendDirectly
<1>3. wire' \in Seq(Nat) /\ Len(wire') = Len(wire) + size
  <2>1. given \in Nat /\ wire \in Seq(Nat)
    BY DEF SendIInv, SendTypeOK
  <2>2. Message(size) \in Seq(Nat) /\ Len(Message(size)) = size
    BY <1>1, <2>1, WholeMessage
  <2>3. wire' = wire \o Message(size)
    BY DEF SendAll
  <2> QED
    BY <2>1, <2>2, <2>3, ConcatProperties
<1>4. Len(wire) = given /\ Len(wire) \in Nat /\ given \in Nat
  BY <1>2 DEF SendIInv, SendTypeOK, BytesCounted
<1>5. done' \in {done, given'} /\ status' \in {status, "closed"}
  BY <1>2 DEF SendAll, CallComplete
<1>6. SendTypeOK'
  BY <1>1, <1>2, <1>3, <1>5 DEF SendIInv, SendTypeOK, SendAll
<1>7. BytesCounted'
  BY <1>1, <1>2, <1>3, <1>4 DEF SendIInv, BytesCounted, SendAll
<1>8. \A k \in 1 .. given' : k \in lost' \/ OnWire(k)'
  <2>1. /\ given \in Nat /\ wire \in Seq(Nat)
        /\ Message(size) \in Seq(Nat) /\ Len(Message(size)) = size
        /\ \A k \in 1 .. size : Message(size)[k] = given + k
    BY <1>1, WholeMessage DEF SendIInv, SendTypeOK
  <2>2. \A k : /\ OnWire(k) => OnWire(k)'
               /\ (\E i \in 1 .. size : Message(size)[i] = k) => OnWire(k)'
    <3>1. wire' = wire \o Message(size)
      BY DEF SendAll
    <3>2. \A k : (OnWire(k) => OnWire(k)') /\ (Has(Message(size), k) => OnWire(k)')
      BY <2>1, <3>1, Appended, Zenon DEF OnWire
    <3> QED
      BY <2>1, <3>2 DEF Has
  <2>3. \A k \in 1 .. given : k \in lost \/ OnWire(k)
    BY <1>2 DEF SendIInv, Placed, Waits, Has
  <2>4. lost' = lost
    BY DEF SendAll
  <2> SUFFICES ASSUME NEW k \in 1 .. given + size
               PROVE  k \in lost \/ OnWire(k)'
    BY <1>2, <2>4
  <2>5. CASE k <= given
    BY <2>1, <2>2, <2>3, <2>5
  <2>6. CASE ~(k <= given)
    <3>1. k - given \in 1 .. size /\ given + (k - given) = k
      BY <1>1, <2>1, <2>6
    <3> QED
      BY <2>1, <2>2, <3>1
  <2> QED
    BY <2>5, <2>6
<1>9. done' <= given' /\ done' \in Nat /\ given' \in Nat
  BY <1>1, <1>2, <1>4, <1>5 DEF SendIInv, SendTypeOK
<1>10. Placed' /\ CompleteMeansSent'
  <2>1. \A k \in 1 .. done' : k \in 1 .. given'
    BY <1>9
  <2> QED
    BY <1>8, <2>1 DEF Placed, CompleteMeansSent, OnWire, Has
<1> QED
  BY <1>6, <1>7, <1>9, <1>10 DEF SendIInv

(* An empty message changes nothing but the status. *)
LEMMA SendEmptyIInv ==
    ASSUME SendIInv, NEW cb \in SendCompletes, SendEmpty(cb)
    PROVE  SendIInv'
<1>1. UNCHANGED <<given, write_buffer, wire, watching, send_cb, done, lost>>
      /\ status' \in {status, "closed"} /\ status = "CONNECTED"
  BY DEF SendEmpty, CallComplete
<1> QED
  BY <1>1 DEF SendIInv, SendTypeOK, BytesCounted, Placed, OnWire, Waits, Has, CompleteMeansSent

(* A message of which a part waits. *)
LEMMA SendBufferedIInv ==
    ASSUME SendIInv, NEW size \in MsgSizes, NEW took \in 0 .. size,
           NEW cb \in SendCompletes, SendBuffered(size, took, cb)
    PROVE  SendIInv'
<1>1. size \in Nat /\ took \in Nat /\ took < size /\ size - took \in 0 .. size
  BY SendAssumption DEF SendBuffered
<1>2. SendTypeOK /\ given \in Nat /\ Len(wire) \in Nat /\ Len(write_buffer) \in Nat
  BY DEF SendIInv, SendTypeOK
<1>3. /\ wire' \in Seq(Nat) /\ Len(wire') = Len(wire) + took
      /\ write_buffer' \in Seq(Nat)
      /\ Len(write_buffer') = Len(write_buffer) + (size - took)
  <2>1. wire \in Seq(Nat) /\ write_buffer \in Seq(Nat)
    BY <1>2 DEF SendTypeOK
  <2>2. /\ SubSeq(Message(size), 1, took) \in Seq(Nat)
        /\ Len(SubSeq(Message(size), 1, took)) = took
    BY <1>1, <1>2, MessagePart
  <2>3. /\ Remaining(size, took) \in Seq(Nat)
        /\ Len(Remaining(size, took)) = size - took
    BY <1>1, <1>2, MessagePart DEF Remaining
  <2>4. /\ wire' = wire \o SubSeq(Message(size), 1, took)
        /\ write_buffer' = write_buffer \o Remaining(size, took)
    BY DEF SendBuffered
  <2> QED
    BY <2>1, <2>2, <2>3, <2>4, ConcatProperties
<1>4. SendTypeOK'
  BY <1>1, <1>2, <1>3 DEF SendTypeOK, SendBuffered
<1>5. BytesCounted'
  <2>1. Len(wire) + Len(write_buffer) = given
    BY DEF SendIInv, BytesCounted, SendBuffered
  <2>2. given' = given + size /\ (BufferMax > 0 => Len(write_buffer) + size - took <= BufferMax)
    BY DEF SendBuffered
  <2>3. Len(wire') + Len(write_buffer') = given'
    <3>1. Len(wire') = Len(wire) + took
      BY <1>3
    <3>2. Len(write_buffer') = Len(write_buffer) + (size - took)
      BY <1>3
    <3> QED
      BY <1>1, <1>2, <2>1, <2>2, <3>1, <3>2
  <2>4. BufferMax > 0 => Len(write_buffer') <= BufferMax
    BY <1>1, <1>2, <1>3, <2>2, SendAssumption
  <2> QED
    BY <1>2, <2>2, <2>3, <2>4, <1>1 DEF BytesCounted
<1>6. \A k : OnWire(k) => OnWire(k)'
  <2> DEFINE head == SubSeq(Message(size), 1, took)
  <2>1. wire \in Seq(Nat) /\ head \in Seq(Nat) /\ wire' = wire \o head
    BY <1>1, <1>2, MessagePart DEF SendTypeOK, SendBuffered
  <2>2. \A k : Has(wire, k) => Has(wire', k)
    <3> HIDE DEF head
    <3> QED
      BY <2>1, Appended, Zenon
  <2> QED
    BY <2>2 DEF OnWire
<1>7. Placed'
  <2>1. /\ write_buffer \in Seq(Nat)
        /\ Remaining(size, took) \in Seq(Nat)
        /\ Len(Remaining(size, took)) = size - took
        /\ \A k \in 1 .. size - took : Remaining(size, took)[k] = given + k
    BY <1>1, <1>2, MessagePart DEF SendTypeOK, Remaining
  <2>2. \A k : /\ Waits(k) => Waits(k)'
               /\ (\E i \in 1 .. size - took : Remaining(size, took)[i] = k) => Waits(k)'
    <3>1. write_buffer' = write_buffer \o Remaining(size, took)
      BY DEF SendBuffered
    <3>2. \A k : (Waits(k) => Waits(k)') /\ (Has(Remaining(size, took), k) => Waits(k)')
      BY <2>1, <3>1, Appended, Zenon DEF Waits
    <3> QED
      BY <2>1, <3>2 DEF Has
  <2>3. given' = given + size /\ lost' = lost \cup NotCopied(size, took)
    BY DEF SendBuffered
  <2> SUFFICES ASSUME NEW k \in 1 .. given + size
               PROVE  k \in lost' \/ OnWire(k)' \/ Waits(k)'
    BY <2>3 DEF Placed
  <2>4. CASE k <= given
    <3>1. k \in 1 .. given
      BY <1>2, <2>4
    <3> QED
      BY <1>6, <2>2, <2>3, <3>1 DEF SendIInv, Placed
  <2>5. CASE ~(k <= given) /\ k - given <= size - took
    <3>1. k - given \in 1 .. size - took /\ given + (k - given) = k
      BY <1>1, <1>2, <2>5
    <3> QED
      BY <2>1, <2>2, <3>1
  <2>6. CASE ~(k - given <= size - took)
    <3>1. k - given \in size - took + 1 .. size /\ given + (k - given) = k
      BY <1>1, <1>2, <2>6
    <3> QED
      BY <2>3, <3>1 DEF NotCopied
  <2> QED
    BY <2>4, <2>5, <2>6
<1>8. CompleteMeansSent' /\ done' <= given'
  <2>1. done' = done /\ given' = given + size /\ lost \subseteq lost'
    BY DEF SendBuffered
  <2> QED
    <3>1. done' <= given'
      BY <1>1, <1>2, <2>1 DEF SendIInv, SendTypeOK
    <3>2. \A k \in 1 .. done : k \in lost' \/ OnWire(k)'
      BY <1>6, <2>1 DEF SendIInv, CompleteMeansSent, OnWire, Has
    <3> QED
      BY <2>1, <3>1, <3>2 DEF CompleteMeansSent, OnWire, Has
<1> QED
  BY <1>4, <1>5, <1>7, <1>8 DEF SendIInv

(* A call that fails after a part went out only adds bytes to the wire. *)
LEMMA SendOverflowsIInv ==
    ASSUME SendIInv, NEW size \in MsgSizes, NEW took \in 0 .. size, SendOverflows(size, took)
    PROVE  SendIInv'
<1>1. size \in Nat /\ took \in Nat
  BY SendAssumption
<1>2. SendTypeOK /\ given \in Nat /\ Len(wire) \in Nat /\ Len(write_buffer) \in Nat
  BY DEF SendIInv, SendTypeOK
<1>3. wire' \in Seq(Nat) /\ Len(wire') = Len(wire) + took
  <2>1. wire \in Seq(Nat)
    BY <1>2 DEF SendTypeOK
  <2>2. /\ SubSeq(Message(size), 1, took) \in Seq(Nat)
        /\ Len(SubSeq(Message(size), 1, took)) = took
    BY <1>1, <1>2, MessagePart
  <2>3. wire' = wire \o SubSeq(Message(size), 1, took)
    BY DEF SendOverflows
  <2> QED
    BY <2>1, <2>2, <2>3, ConcatProperties
<1>4. SendTypeOK'
  BY <1>2, <1>3 DEF SendTypeOK, SendOverflows
<1>5. BytesCounted'
  BY <1>1, <1>2, <1>3 DEF SendIInv, BytesCounted, SendOverflows
<1>6. \A k : (OnWire(k) => OnWire(k)') /\ (Waits(k) => Waits(k)')
  <2> DEFINE head == SubSeq(Message(size), 1, took)
  <2>1. wire \in Seq(Nat) /\ head \in Seq(Nat) /\ wire' = wire \o head
        /\ write_buffer' = write_buffer
    BY <1>1, <1>2, MessagePart DEF SendTypeOK, SendOverflows
  <2>2. \A k : Has(wire, k) => Has(wire', k)
    <3> HIDE DEF head
    <3> QED
      BY <2>1, Appended, Zenon
  <2> QED
    BY <2>1, <2>2 DEF OnWire, Waits, Has
<1>7. Placed' /\ done' <= given' /\ CompleteMeansSent'
  <2>1. UNCHANGED <<given, done, lost>>
    BY DEF SendOverflows
  <2> QED
    BY <1>6, <2>1 DEF SendIInv, Placed, CompleteMeansSent, OnWire, Has
<1> QED
  BY <1>4, <1>5, <1>7 DEF SendIInv

(* onSocketWrite: what leaves the buffer is on the wire, and the callback  *)
(* is told when nothing is left.                                           *)
LEMMA WriteIInv == ASSUME SendIInv, onSocketWrite PROVE SendIInv'
<1>1. SendTypeOK /\ Len(wire) \in Nat /\ Len(write_buffer) \in Nat /\ given \in Nat
  BY DEF SendIInv, SendTypeOK
<1>2. CASE WriteAll
  <2>1. /\ wire' \in Seq(Nat) /\ write_buffer' \in Seq(Nat)
        /\ Len(wire') = Len(wire) + Len(write_buffer)
        /\ Len(write_buffer') = 0
    BY <1>1, <1>2, TakenCounts DEF WriteAll
  <2>2. given' = given /\ done' \in {done, given} /\ status' \in {status, "closed"}
    BY <1>2 DEF WriteAll, Taken, CallComplete
  <2>3. SendTypeOK'
    BY <1>1, <1>2, <2>1, <2>2 DEF SendTypeOK, WriteAll, SendCompletes
  <2>4. BytesCounted'
    BY <1>1, <2>1, <2>2, SendAssumption DEF SendIInv, BytesCounted
  <2>5. \A k \in 1 .. given' : k \in lost' \/ OnWire(k)'
    <3>1. lost' = lost
      BY <1>2 DEF WriteAll, Taken
    <3>2. \A k : OnWire(k) \/ Waits(k) => OnWire(k)'
      BY <1>1, <1>2, TakenPlaces DEF WriteAll
    <3> QED
      BY <2>2, <3>1, <3>2 DEF SendIInv, Placed
  <2>6. done' <= given'
    BY <1>1, <2>2 DEF SendIInv, SendTypeOK
  <2>7. Placed' /\ CompleteMeansSent'
    <3>1. \A k \in 1 .. done' : k \in 1 .. given'
      BY <1>1, <2>2, <2>6 DEF SendTypeOK
    <3> QED
      BY <2>5, <3>1 DEF Placed, CompleteMeansSent, OnWire, Has
  <2> QED
    BY <2>3, <2>4, <2>6, <2>7 DEF SendIInv
<1>3. ASSUME NEW n \in 1 .. MaxBytes, WritePartial(n) PROVE SendIInv'
  <2>1. n \in 0 .. Len(write_buffer)
    BY <1>1, <1>3, SendAssumption DEF WritePartial
  <2>2. /\ wire' \in Seq(Nat) /\ write_buffer' \in Seq(Nat)
        /\ Len(wire') = Len(wire) + n
        /\ Len(write_buffer') = Len(write_buffer) - n
    BY <1>1, <1>3, <2>1, TakenCounts DEF WritePartial
  <2>3. UNCHANGED <<given, status, watching, send_cb, done>>
    BY <1>3 DEF WritePartial, Taken
  <2>4. SendTypeOK'
    BY <1>1, <2>2, <2>3 DEF SendTypeOK
  <2>5. BytesCounted'
    <3>1. Len(wire') + Len(write_buffer') = Len(wire) + Len(write_buffer)
      BY <1>1, <2>1, <2>2
    <3>2. Len(write_buffer') <= Len(write_buffer)
      BY <1>1, <2>1, <2>2
    <3>3. Len(write_buffer') \in Nat
      BY <1>1, <2>1, <2>2
    <3> QED
      BY <1>1, <2>3, <3>1, <3>2, <3>3, SendAssumption DEF SendIInv, BytesCounted
  <2>6. Placed' /\ CompleteMeansSent' /\ done' <= given'
    <3>1. \A k : /\ OnWire(k) => OnWire(k)'
                 /\ Waits(k) => OnWire(k)' \/ Waits(k)'
      BY <1>1, <1>3, <2>1, TakenPlaces DEF WritePartial
    <3>2. lost' = lost
      BY <1>3 DEF WritePartial, Taken
    <3> QED
      BY <2>3, <3>1, <3>2 DEF SendIInv, Placed, CompleteMeansSent, OnWire, Has
  <2> QED
    BY <2>4, <2>5, <2>6 DEF SendIInv
<1>4. CASE WriteFailed
  BY <1>4 DEF WriteFailed, SendIInv, SendTypeOK, BytesCounted, Placed, OnWire, Waits,
     Has, CompleteMeansSent
<1> QED
  BY <1>2, <1>3, <1>4 DEF onSocketWrite

(* Every step keeps the invariant. *)
LEMMA NextIInv == SendIInv /\ [SendNext]_sendVars => SendIInv'
<1> SUFFICES ASSUME SendIInv, [SendNext]_sendVars PROVE SendIInv'
  OBVIOUS
<1>1. CASE SendFailed \/ CloseSocket \/ UNCHANGED sendVars
  BY <1>1 DEF SendFailed, CloseSocket, sendVars, SendIInv, SendTypeOK, BytesCounted, Placed,
     OnWire, Waits, Has, CompleteMeansSent
<1>2. CASE onSocketWrite
  BY <1>2, WriteIInv
<1> QED
  BY <1>1, <1>2, SendAllIInv, SendEmptyIInv, SendBufferedIInv, SendOverflowsIInv DEF SendNext

(* The number of bytes is right, whatever send() takes at a time: what was *)
(* handed over is on the wire or in a write buffer that keeps its maximum. *)
THEOREM BytesAlwaysCounted == SendSpec => []BytesCounted
<1>1. SendIInv => BytesCounted
  BY DEF SendIInv
<1> QED
  BY <1>1, InitIInv, NextIInv, PTL DEF SendSpec

(* When the send_complete_cb_ of a message is called, or sendMessageThenClose *)
(* closes, every byte handed over so far is with the kernel, but for those    *)
(* that a partial send has dropped.  An empty message, which completes at     *)
(* once, says nothing.                                                        *)
THEOREM CompletionIsTrue == SendSpec => []CompleteMeansSent
<1>1. SendIInv => CompleteMeansSent
  BY DEF SendIInv
<1> QED
  BY <1>1, InitIInv, NextIInv, PTL DEF SendSpec

----------------------------------------------------------------------------
(* How far the stream is intact.  The run send_stream shows that it is not *)
(* once send() has taken a part of a message.  Here send() takes a message *)
(* whole or not at all; the socket may still drain the buffer in any       *)
(* portions.                                                               *)
NextWithoutPartialSend ==
    \/ \E size \in MsgSizes, cb \in SendCompletes :
        /\ given + size <= MaxBytes
        /\ \/ SendAll(size, cb) \/ SendBuffered(size, 0, cb) \/ SendOverflows(size, 0)
           \/ size = 0 /\ SendEmpty(cb)
    \/ SendFailed
    \/ onSocketWrite
    \/ CloseSocket

(* The wire and the buffer behind it hold the bytes 1 .. given. *)
InOrder ==
    /\ \A k \in 1 .. Len(wire) : wire[k] = k
    /\ \A k \in 1 .. Len(write_buffer) : write_buffer[k] = Len(wire) + k
    /\ Len(wire) + Len(write_buffer) = given

StreamInv == SendTypeOK /\ InOrder

(* A message goes to the wire or to the end of the buffer as it is. *)
LEMMA SendKeepsOrder ==
    ASSUME StreamInv, NEW size \in MsgSizes, NEW cb \in SendCompletes,
           SendAll(size, cb) \/ SendBuffered(size, 0, cb) \/ SendOverflows(size, 0)
    PROVE  StreamInv'
<1>1. size \in Nat /\ given \in Nat /\ wire \in Seq(Nat) /\ write_buffer \in Seq(Nat)
  BY SendAssumption DEF StreamInv, SendTypeOK
<1>2. /\ Message(size) \in Seq(Nat) /\ Len(Message(size)) = size
      /\ \A k \in 1 .. size : Message(size)[k] = given + k
  BY <1>1, WholeMessage
<1>3. SubSeq(Message(size), 1, 0) = <<>> /\ wire \o <<>> = wire
  BY <1>1, SubSeqEmpty, ConcatEmptySeq
<1>4. CASE SendAll(size, cb)
  <2>1. write_buffer = <<>> /\ Len(wire) = given /\ UNCHANGED write_buffer
    BY <1>1, <1>4 DEF SendAll, MaySendDirectly, StreamInv, InOrder
  <2>2. /\ wire' \in Seq(Nat) /\ Len(wire') = given + size
        /\ \A k \in 1 .. given + size :
              wire'[k] = IF k <= given THEN wire[k] ELSE Message(size)[k - given]
    <3>1. wire' = wire \o Message(size)
      BY <1>4 DEF SendAll
    <3>2. /\ wire' \in Seq(Nat) /\ Len(wire') = Len(wire) + Len(Message(size))
          /\ \A k \in 1 .. Len(wire) + Len(Message(size)) :
                wire'[k] = IF k <= Len(wire) THEN wire[k]
                           ELSE Message(size)[k - Len(wire)]
      BY <1>1, <1>2, <3>1, ConcatProperties
    <3>3. Len(wire) = given /\ Len(Message(size)) = size
      BY <1>2, <2>1
    <3> QED
      BY <3>2, <3>3, Zenon
  <2>3. \A k \in 1 .. Len(wire') : wire'[k] = k
    <3> SUFFICES ASSUME NEW k \in 1 .. given + size
                 PROVE  wire'[k] = k
      BY <2>2
    <3>1. CASE k <= given
      BY <1>1, <2>1, <2>2, <3>1 DEF StreamInv, InOrder
    <3>2. CASE ~ (k <= given)
      <4>1. k - given \in 1 .. size
        BY <1>1, <3>2
      <4> QED
        BY <1>1, <1>2, <2>2, <3>2, <4>1
    <3> QED
      BY <3>1, <3>2
  <2>4. given' = given + size /\ Len(write_buffer') = 0
    BY <1>4, <2>1 DEF SendAll
  <2>5. InOrder'
    BY <1>1, <2>2, <2>3, <2>4 DEF InOrder
  <2>6. SendTypeOK'
    BY <1>1, <1>4, <2>1, <2>2 DEF SendAll, CallComplete, StreamInv, SendTypeOK
  <2> QED
    BY <2>5, <2>6 DEF StreamInv
<1>5. CASE SendBuffered(size, 0, cb)
  <2>1. wire' = wire /\ given' = given + size
    BY <1>3, <1>5 DEF SendBuffered
  <2>2. Remaining(size, 0) = Message(size)
    BY <1>1, <1>2, SubSeqFull DEF Remaining
  <2>3. /\ write_buffer' \in Seq(Nat) /\ Len(write_buffer') = Len(write_buffer) + size
        /\ \A k \in 1 .. Len(write_buffer) + size :
              write_buffer'[k] = IF k <= Len(write_buffer) THEN write_buffer[k]
                                 ELSE Message(size)[k - Len(write_buffer)]
    <3>1. write_buffer' = write_buffer \o Message(size)
      BY <1>5, <2>2 DEF SendBuffered
    <3>2. /\ write_buffer' \in Seq(Nat)
          /\ Len(write_buffer') = Len(write_buffer) + Len(Message(size))
          /\ \A k \in 1 .. Len(write_buffer) + Len(Message(size)) :
                write_buffer'[k] = IF k <= Len(write_buffer) THEN write_buffer[k]
                                   ELSE Message(size)[k - Len(write_buffer)]
      BY <1>1, <1>2, <3>1, ConcatProperties
    <3>3. Len(Message(size)) = size
      BY <1>2
    <3> QED
      BY <3>2, <3>3, Zenon
  <2>4. \A k \in 1 .. Len(write_buffer') : write_buffer'[k] = Len(wire) + k
    <3> SUFFICES ASSUME NEW k \in 1 .. Len(write_buffer) + size
                 PROVE  write_buffer'[k] = Len(wire) + k
      BY <2>3
    <3>0. Len(write_buffer) \in Nat /\ Len(wire) \in Nat
          /\ Len(wire) + Len(write_buffer) = given
          /\ \A i \in 1 .. Len(write_buffer) : write_buffer[i] = Len(wire) + i
      BY <1>1 DEF StreamInv, InOrder
    <3>1. CASE k <= Len(write_buffer)
      <4>1. k \in 1 .. Len(write_buffer)
        BY <1>1, <3>0, <3>1
      <4> QED
        BY <2>3, <3>0, <3>1, <4>1
    <3>2. CASE ~ (k <= Len(write_buffer))
      <4>1. k - Len(write_buffer) \in 1 .. size
        BY <1>1, <3>0, <3>2
      <4>2. write_buffer'[k] = given + (k - Len(write_buffer))
        BY <1>2, <2>3, <3>2, <4>1
      <4> QED
        <5>1. /\ given \in Nat /\ size \in Nat
              /\ Len(write_buffer) \in Nat /\ Len(wire) \in Nat
              /\ Len(wire) + Len(write_buffer) = given
          BY <1>1, <3>0
        <5> QED
          BY <4>2, <5>1
    <3> QED
      BY <3>1, <3>2
  <2>5. InOrder'
    <3>1. /\ \A k \in 1 .. Len(wire) : wire[k] = k
          /\ Len(wire) + Len(write_buffer) = given
          /\ Len(wire) \in Nat /\ Len(write_buffer) \in Nat
      BY <1>1 DEF StreamInv, InOrder
    <3>2. Len(wire') + Len(write_buffer') = given'
      <4>1. /\ Len(write_buffer') = Len(write_buffer) + size
            /\ Len(wire') = Len(wire)
            /\ given \in Nat /\ size \in Nat
        BY <1>1, <2>1, <2>3
      <4> QED
        BY <2>1, <3>1, <4>1
    <3> QED
      BY <2>1, <2>4, <3>1, <3>2 DEF InOrder
  <2>6. SendTypeOK'
    BY <1>1, <1>5, <2>1, <2>3 DEF SendBuffered, StreamInv, SendTypeOK
  <2> QED
    BY <2>5, <2>6 DEF StreamInv
<1>6. CASE SendOverflows(size, 0)
  BY <1>3, <1>6 DEF SendOverflows, StreamInv, SendTypeOK, InOrder
<1> QED
  BY <1>4, <1>5, <1>6

(* The head of the buffer is what the wire has to get next. *)
LEMMA TakenKeepsOrder ==
    ASSUME StreamInv, NEW n \in 0 .. Len(write_buffer), Taken(n)
    PROVE  InOrder'
<1>1. /\ given \in Nat /\ wire \in Seq(Nat) /\ write_buffer \in Seq(Nat)
      /\ Len(wire) \in Nat /\ Len(write_buffer) \in Nat /\ n \in Nat
      /\ n <= Len(write_buffer)
  BY DEF StreamInv, SendTypeOK
<1>2. /\ Len(wire') = Len(wire) + n
      /\ Len(write_buffer') = Len(write_buffer) - n
  BY TakenCounts DEF StreamInv
<1>3. \A k \in 1 .. Len(write_buffer) :
          write_buffer[k] \in Nat /\ write_buffer[k] = Len(wire) + k
  BY <1>1 DEF StreamInv, InOrder
<1>4. /\ SubSeq(write_buffer, 1, n) \in Seq(Nat)
      /\ Len(SubSeq(write_buffer, 1, n)) = n
      /\ \A k \in 1 .. n : SubSeq(write_buffer, 1, n)[k] = write_buffer[k]
  BY <1>1, <1>3, SubSeqProperties
<1>5. \A k \in 1 .. Len(wire) + n :
          wire'[k] = IF k <= Len(wire) THEN wire[k]
                     ELSE SubSeq(write_buffer, 1, n)[k - Len(wire)]
  BY <1>1, <1>4, ConcatProperties DEF Taken
<1>6. \A k \in 1 .. Len(wire') : wire'[k] = k
  <2> SUFFICES ASSUME NEW k \in 1 .. Len(wire) + n
               PROVE  wire'[k] = k
    BY <1>2
  <2>1. CASE k <= Len(wire)
    BY <1>1, <1>5, <2>1 DEF StreamInv, InOrder
  <2>2. CASE ~ (k <= Len(wire))
    <3>1. k - Len(wire) \in 1 .. n
      BY <1>1, <2>2
    <3>2. wire'[k] = write_buffer[k - Len(wire)]
      BY <1>4, <1>5, <2>2, <3>1
    <3> QED
      BY <1>1, <1>3, <3>1, <3>2
  <2> QED
    BY <2>1, <2>2
<1>7. \A k \in 1 .. Len(write_buffer') : write_buffer'[k] = Len(wire') + k
  <2> SUFFICES ASSUME NEW k \in 1 .. Len(write_buffer) - n
               PROVE  write_buffer'[k] = Len(wire) + n + k
    BY <1>1, <1>2
  <2>1. n + k \in 1 .. Len(write_buffer)
    BY <1>1
  <2>2. write_buffer'[k] = write_buffer[n + k]
    <3>1. n + 1 \in Int /\ Len(write_buffer) \in Int
          /\ (\A i \in n + 1 .. Len(write_buffer) : write_buffer[i] \in Nat)
      BY <1>1, <1>3
    <3>2. \A i \in 1 .. Len(write_buffer) - (n + 1) + 1 :
              SubSeq(write_buffer, n + 1, Len(write_buffer))[i]
                = write_buffer[n + 1 + i - 1]
      BY <3>1, SubSeqProperties
    <3>3. k \in 1 .. Len(write_buffer) - (n + 1) + 1 /\ n + 1 + k - 1 = n + k
      BY <1>1
    <3>4. write_buffer' = SubSeq(write_buffer, n + 1, Len(write_buffer))
      BY DEF Taken
    <3> QED
      BY <3>2, <3>3, <3>4
  <2> QED
    BY <1>1, <1>3, <2>1, <2>2
<1>8. Len(wire') + Len(write_buffer') = given'
  <2>1. Len(wire) + Len(write_buffer) = given /\ given' = given
    BY DEF Taken, StreamInv, InOrder
  <2>2. Len(wire) \in Nat /\ Len(write_buffer) \in Nat /\ n \in Nat /\ given \in Nat
    BY <1>1
  <2> QED
    BY <1>2, <2>1, <2>2
<1> QED
  BY <1>6, <1>7, <1>8 DEF InOrder

(* onSocketWrite keeps the order, in whatever portions the socket takes    *)
(* the buffer.                                                             *)
LEMMA WriteKeepsOrder == ASSUME StreamInv, onSocketWrite PROVE StreamInv'
<1>1. SendTypeOK /\ Len(write_buffer) \in Nat
  BY DEF StreamInv, SendTypeOK
<1>2. CASE WriteAll
  <2>1. Taken(Len(write_buffer)) /\ InOrder' /\ wire' \in Seq(Nat) /\ write_buffer' \in Seq(Nat)
    BY <1>1, <1>2, TakenKeepsOrder, TakenCounts DEF WriteAll
  <2>2. SendTypeOK'
    BY <1>1, <1>2, <2>1 DEF WriteAll, CallComplete, Taken, SendTypeOK, SendCompletes
  <2> QED
    BY <2>1, <2>2 DEF StreamInv
<1>3. ASSUME NEW n \in 1 .. MaxBytes, WritePartial(n) PROVE StreamInv'
  <2>1. n \in 0 .. Len(write_buffer) /\ Taken(n)
    BY <1>1, <1>3, SendAssumption DEF WritePartial
  <2>2. InOrder' /\ wire' \in Seq(Nat) /\ write_buffer' \in Seq(Nat)
    BY <1>1, <2>1, TakenKeepsOrder, TakenCounts
  <2>3. SendTypeOK'
    BY <1>1, <1>3, <2>1, <2>2 DEF WritePartial, Taken, SendTypeOK
  <2> QED
    BY <2>2, <2>3 DEF StreamInv
<1>4. CASE WriteFailed
  BY <1>4 DEF WriteFailed, StreamInv, SendTypeOK, InOrder
<1> QED
  BY <1>2, <1>3, <1>4 DEF onSocketWrite

(* The peer receives what was sent, in order, as long as send() takes no   *)
(* part of a message: the bug of tcp_service.cc:778 is the only one.       *)
THEOREM IntactWithoutPartialSends ==
    SendInit /\ [][NextWithoutPartialSend]_sendVars => []StreamIntact
<1>1. SendInit => StreamInv
  <2> SUFFICES ASSUME SendInit PROVE StreamInv
    OBVIOUS
  <2>1. SendTypeOK
    BY InitIInv DEF SendIInv
  <2>2. Len(wire) = 0 /\ Len(write_buffer) = 0 /\ given = 0
    BY DEF SendInit
  <2> QED
    BY <2>1, <2>2 DEF StreamInv, InOrder
<1>4. ASSUME StreamInv, NEW cb \in SendCompletes, SendEmpty(cb) PROVE StreamInv'
  BY <1>4 DEF SendEmpty, CallComplete, StreamInv, SendTypeOK, InOrder
<1>2. StreamInv /\ [NextWithoutPartialSend]_sendVars => StreamInv'
  <2> SUFFICES ASSUME StreamInv, [NextWithoutPartialSend]_sendVars PROVE StreamInv'
    OBVIOUS
  <2>1. CASE SendFailed \/ CloseSocket \/ UNCHANGED sendVars
    BY <2>1 DEF SendFailed, CloseSocket, sendVars, StreamInv, SendTypeOK, InOrder
  <2> QED
    BY <1>4, <2>1, WriteKeepsOrder, SendKeepsOrder DEF NextWithoutPartialSend
<1>3. StreamInv => StreamIntact
  BY DEF StreamInv, InOrder, StreamIntact
<1> QED
  BY <1>1, <1>2, <1>3, PTL
=============================================================================
