-------------------------- MODULE WebSocketProofs --------------------------
(***************************************************************************)
(* Proofs about WebSocketProtocol, for all messages, keys, length classes  *)
(* and numbers of calls.                                                   *)
(*                                                                         *)
(* In(e) is what is on its way to end e: what has arrived and what is on   *)
(* the wire.  Bytes that arrive do not change it, so the cuts between the  *)
(* parts do not matter.  ConnInv says of it that                           *)
(*   - behind the handshake (Handshakes) it is made of whole frames        *)
(*     (Stream(Frames(e))), however they are cut;                          *)
(*   - a close is the last of them (Closing).                              *)
(* Received counts, part by part, the messages an application has when it  *)
(* has read that far (Counts): with message_ and the opcode of a message   *)
(* that was begun (Front) they are the ones the other end has sent.        *)
(*                                                                         *)
(* A step of an end takes the first frame from what is on its way to it,   *)
(* or nothing, and puts frames on the way to the other end (AllSteps); the *)
(* invariants are proved from that.                                        *)
(***************************************************************************)
EXTENDS WebSocketProtocol, SequenceTheorems, TLAPS

-----------------------------------------------------------------------------
(* Sequences of whatever. *)

IsSeq(s) == s \in Seq({s[i] : i \in DOMAIN s})

(* A sequence over some set is one over its own elements. *)
LEMMA SeqIsSeq ==
    ASSUME NEW S, NEW s \in Seq(S)
    PROVE  IsSeq(s) /\ Len(s) \in Nat /\ DOMAIN s = 1 .. Len(s)
<1>1. PICK n \in Nat : n = Len(s)
    BY LenProperties
<1>2. DOMAIN s = 1 .. n /\ s \in [1 .. n -> S]
    BY <1>1, LenProperties
<1>3. PICK T : T = {s[i] : i \in DOMAIN s}
    OBVIOUS
<1>4. \A i \in 1 .. n : s[i] \in T
    BY <1>2, <1>3
<1>5. s \in [1 .. n -> T]
    BY <1>2, <1>4
<1>6. s \in Seq(T)
    BY <1>5
<1> QED
    BY <1>1, <1>2, <1>3, <1>6 DEF IsSeq

(* A function on 1 .. n is a sequence. *)
LEMMA FunctionIsSeq ==
    ASSUME NEW n \in Nat, NEW s, s = [i \in 1 .. n |-> s[i]]
    PROVE  IsSeq(s) /\ Len(s) = n
<1>1. DOMAIN s = 1 .. n
    OBVIOUS
<1>2. PICK T : T = {s[i] : i \in DOMAIN s}
    OBVIOUS
<1>3. \A i \in 1 .. n : s[i] \in T
    BY <1>1, <1>2
<1>4. s \in [1 .. n -> T]
    BY <1>3
<1>5. s \in Seq(T)
    BY <1>4
<1>6. Len(s) \in Nat /\ DOMAIN s = 1 .. Len(s)
    BY <1>5, LenProperties
<1>7. Len(s) = n
    <2>1. CASE Len(s) < n
        <3>1. n \in 1 .. n /\ n \notin 1 .. Len(s)
            BY <1>6, <2>1
        <3> QED
            BY <1>1, <1>6, <3>1
    <2>2. CASE n < Len(s)
        <3>1. Len(s) \in 1 .. Len(s) /\ Len(s) \notin 1 .. n
            BY <1>6, <2>2
        <3> QED
            BY <1>1, <1>6, <3>1
    <2> QED
        BY <1>6, <2>1, <2>2
<1> QED
    BY <1>2, <1>5, <1>7 DEF IsSeq

(* Its length is a number. *)
LEMMA LenOfSeq ==
    ASSUME NEW s, IsSeq(s)
    PROVE  Len(s) \in Nat /\ DOMAIN s = 1 .. Len(s) /\ (Len(s) = 0 <=> s = << >>)
<1>1. PICK T : s \in Seq(T)
    BY DEF IsSeq
<1>2. Len(s) \in Nat /\ DOMAIN s = 1 .. Len(s)
    BY <1>1, LenProperties
<1>3. Len(s) = 0 <=> s = << >>
    BY <1>1, EmptySeq
<1> QED
    BY <1>2, <1>3

(* Concatenation. *)
LEMMA ConcatOfSeqs ==
    ASSUME NEW s, NEW t, IsSeq(s), IsSeq(t)
    PROVE  /\ IsSeq(s \o t)
           /\ Len(s \o t) = Len(s) + Len(t)
           /\ \A i \in 1 .. Len(s) : (s \o t)[i] = s[i]
           /\ \A i \in 1 .. Len(t) : (s \o t)[Len(s) + i] = t[i]
<1>1. PICK S : s \in Seq(S)
    BY DEF IsSeq
<1>2. PICK T : t \in Seq(T)
    BY DEF IsSeq
<1>3. PICK U : U = S \cup T
    OBVIOUS
<1>4. s \in Seq(U) /\ t \in Seq(U)
    BY <1>1, <1>2, <1>3
<1>5. PICK m \in Nat, n \in Nat : m = Len(s) /\ n = Len(t)
    BY LenOfSeq
<1>6. /\ s \o t \in Seq(U)
      /\ Len(s \o t) = Len(s) + Len(t)
      /\ \A i \in 1 .. Len(s) + Len(t) : (s \o t)[i] =
             IF i <= Len(s) THEN s[i] ELSE t[i - Len(s)]
    BY <1>4, ConcatProperties
<1>7. ASSUME NEW i \in 1 .. m
      PROVE  (s \o t)[i] = s[i]
    <2>1. i \in 1 .. m + n /\ i <= m
        OBVIOUS
    <2> QED
        BY <1>5, <1>6, <2>1
<1>8. ASSUME NEW i \in 1 .. n
      PROVE  (s \o t)[m + i] = t[i]
    <2>1. m + i \in 1 .. m + n /\ ~(m + i <= m) /\ m + i - m = i
        OBVIOUS
    <2> QED
        BY <1>5, <1>6, <2>1
<1>9. IsSeq(s \o t)
    BY <1>6, SeqIsSeq
<1> QED
    BY <1>5, <1>6, <1>7, <1>8, <1>9

(* What is behind the first n elements. *)
Rest(s, n) == SubSeq(s, n + 1, Len(s))

LEMMA RestOfSeq ==
    ASSUME NEW s, IsSeq(s), NEW n \in 0 .. Len(s)
    PROVE  /\ IsSeq(Rest(s, n))
           /\ Len(Rest(s, n)) = Len(s) - n
           /\ \A i \in 1 .. Len(s) - n : Rest(s, n)[i] = s[n + i]
<1>1. PICK S : s \in Seq(S)
    BY DEF IsSeq
<1>2. PICK m \in Nat : m = Len(s) /\ n \in 0 .. m
    BY LenOfSeq
<1>3. \A i \in n + 1 .. m : i \in 1 .. m
    BY <1>2
<1>4. \A i \in n + 1 .. m : s[i] \in S
    BY <1>1, <1>2, <1>3, ElementOfSeq
<1>5. n + 1 \in Int /\ m \in Int
    BY <1>2
<1>6. /\ SubSeq(s, n + 1, m) \in Seq(S)
      /\ Len(SubSeq(s, n + 1, m)) = IF n + 1 <= m THEN m - (n + 1) + 1 ELSE 0
      /\ \A i \in 1 .. m - (n + 1) + 1 : SubSeq(s, n + 1, m)[i] = s[(n + 1) + i - 1]
    BY <1>4, <1>5, SubSeqProperties
<1>7. /\ (IF n + 1 <= m THEN m - (n + 1) + 1 ELSE 0) = m - n
      /\ m - (n + 1) + 1 = m - n
      /\ \A i \in 1 .. m - n : (n + 1) + i - 1 = n + i
    BY <1>2
<1>8. IsSeq(SubSeq(s, n + 1, m))
    BY <1>6, SeqIsSeq
<1> QED
    BY <1>2, <1>6, <1>7, <1>8 DEF Rest

(* Sequences with the same elements are equal. *)
LEMMA EqualSeqs ==
    ASSUME NEW s, NEW t, IsSeq(s), IsSeq(t), Len(s) = Len(t),
           \A i \in 1 .. Len(s) : s[i] = t[i]
    PROVE  s = t
<1>1. PICK S : s \in Seq(S)
    BY DEF IsSeq
<1>2. PICK T : t \in Seq(T)
    BY DEF IsSeq
<1>3. s \in Seq(S \cup T) /\ t \in Seq(S \cup T)
    BY <1>1, <1>2
<1> QED
    BY <1>3, SeqEqual

(* Concatenation is associative. *)
LEMMA Associative ==
    ASSUME NEW s, NEW t, NEW u, IsSeq(s), IsSeq(t), IsSeq(u),
           NEW a, a = s \o t, NEW z, z = t \o u
    PROVE  a \o u = s \o z
<1>1. PICK S, T, U : s \in Seq(S) /\ t \in Seq(T) /\ u \in Seq(U)
    BY DEF IsSeq
<1>2. PICK V : V = S \cup T \cup U
    OBVIOUS
<1>3. s \in Seq(V) /\ t \in Seq(V) /\ u \in Seq(V)
    BY <1>1, <1>2
<1> QED
    BY <1>3, ConcatAssociative

(* The first n elements move from one sequence to the one before it. *)
LEMMA MovedElements ==
    ASSUME NEW s, NEW t, IsSeq(s), IsSeq(t), NEW n \in 0 .. Len(t)
    PROVE  /\ IsSeq(s \o SubSeq(t, 1, n))
           /\ IsSeq(Rest(t, n))
           /\ (s \o SubSeq(t, 1, n)) \o Rest(t, n) = s \o t
<1>1. PICK S : s \in Seq(S)
    BY DEF IsSeq
<1>2. PICK T : t \in Seq(T)
    BY DEF IsSeq
<1>3. PICK U : U = S \cup T
    OBVIOUS
<1>4. s \in Seq(U) /\ t \in Seq(U)
    BY <1>1, <1>2, <1>3
<1>5. PICK m \in Nat : m = Len(t) /\ n \in 0 .. m /\ n \in Nat
    BY LenOfSeq
<1>6. \A i \in 1 .. n : i \in 1 .. m
    BY <1>5
<1>7. \A i \in 1 .. n : t[i] \in U
    BY <1>4, <1>5, <1>6, ElementOfSeq
<1>8. PICK h, z : h = SubSeq(t, 1, n) /\ z = Rest(t, n)
    OBVIOUS
<1>9. /\ h \in Seq(U) /\ Len(h) = (IF 1 <= n THEN n - 1 + 1 ELSE 0)
      /\ \A i \in 1 .. n - 1 + 1 : h[i] = t[1 + i - 1]
    BY <1>5, <1>7, <1>8, SubSeqProperties
<1>10. Len(h) = n /\ \A i \in 1 .. n : h[i] = t[i]
    <2>1. /\ (IF 1 <= n THEN n - 1 + 1 ELSE 0) = n /\ n - 1 + 1 = n
          /\ \A i \in 1 .. n : 1 + i - 1 = i
        BY <1>5
    <2> QED
        BY <1>9, <2>1
<1>11. IsSeq(h) /\ IsSeq(z) /\ Len(z) = m - n /\ \A i \in 1 .. m - n : z[i] = t[n + i]
    <2>1. IsSeq(h)
        BY <1>9, SeqIsSeq
    <2>2. n \in 0 .. Len(t)
        BY <1>5
    <2>3. /\ IsSeq(Rest(t, n)) /\ Len(Rest(t, n)) = Len(t) - n
          /\ \A i \in 1 .. Len(t) - n : Rest(t, n)[i] = t[n + i]
        BY <2>2, RestOfSeq
    <2> QED
        BY <1>5, <1>8, <2>1, <2>3, Zenon
<1>12. h \o z = t
    <2>1. /\ IsSeq(h \o z) /\ Len(h \o z) = n + (m - n)
          /\ \A i \in 1 .. n : (h \o z)[i] = h[i]
          /\ \A i \in 1 .. m - n : (h \o z)[n + i] = z[i]
        <3>1. /\ IsSeq(h \o z) /\ Len(h \o z) = Len(h) + Len(z)
              /\ \A i \in 1 .. Len(h) : (h \o z)[i] = h[i]
              /\ \A i \in 1 .. Len(z) : (h \o z)[Len(h) + i] = z[i]
            <4>1. IsSeq(h) /\ IsSeq(z)
                BY <1>11
            <4> QED
                BY <4>1, ConcatOfSeqs
        <3>2. Len(h) = n /\ Len(z) = m - n
            BY <1>10, <1>11
        <3> QED
            BY <3>1, <3>2
    <2>2. n + (m - n) = m
        BY <1>5
    <2>3. ASSUME NEW i \in 1 .. m
          PROVE  (h \o z)[i] = t[i]
        <3>1. CASE i <= n
            <4>1. i \in 1 .. n
                BY <1>5, <3>1
            <4> QED
                BY <1>10, <2>1, <4>1
        <3>2. CASE ~(i <= n)
            <4>1. i - n \in 1 .. m - n /\ n + (i - n) = i
                BY <1>5, <3>2
            <4> QED
                BY <1>11, <2>1, <4>1
        <3> QED
            BY <3>1, <3>2
    <2> QED
        BY <1>5, <2>1, <2>2, <2>3, EqualSeqs
<1>13. PICK a : a = s \o h
    OBVIOUS
<1>14. IsSeq(h) /\ IsSeq(z) /\ t = h \o z
    BY <1>11, <1>12
<1>15. a \o z = s \o t
    BY <1>13, <1>14, Associative
<1>16. IsSeq(a)
    BY <1>13, <1>14, ConcatOfSeqs
<1> QED
    BY <1>8, <1>13, <1>14, <1>15, <1>16

LEMMA NothingMore ==
    ASSUME NEW s, IsSeq(s)
    PROVE  s \o << >> = s /\ Rest(s, 0) = s
<1>1. PICK S : s \in Seq(S)
    BY DEF IsSeq
<1>2. s \o << >> = s
    BY <1>1, ConcatEmptySeq
<1>3. PICK n \in Nat : n = Len(s)
    BY LenOfSeq
<1>4. 0 \in 0 .. n /\ n - 0 = n /\ \A i \in 1 .. n : 0 + i = i
    BY <1>3
<1>5. PICK r : r = Rest(s, 0)
    OBVIOUS
<1>6. IsSeq(r) /\ Len(r) = n - 0 /\ \A i \in 1 .. n - 0 : r[i] = s[0 + i]
    BY <1>3, <1>4, <1>5, RestOfSeq
<1>7. r = s
    BY <1>3, <1>4, <1>6, EqualSeqs
<1> QED
    BY <1>2, <1>5, <1>7

LEMMA EmptyThenSeq ==
    ASSUME NEW s, IsSeq(s)
    PROVE  << >> \o s = s
<1>1. PICK S : s \in Seq(S)
    BY DEF IsSeq
<1> QED
    BY <1>1, ConcatEmptySeq

(* Reading from the front of a concatenation. *)
LEMMA RestOfConcat ==
    ASSUME NEW s, NEW t, IsSeq(s), IsSeq(t), NEW n \in 0 .. Len(s)
    PROVE  Rest(s, n) \o t = Rest(s \o t, n)
<1>1. PICK k \in Nat, m \in Nat : k = Len(s) /\ m = Len(t) /\ n \in 0 .. k
    BY LenOfSeq
<1>2. /\ IsSeq(s \o t) /\ Len(s \o t) = k + m
      /\ \A i \in 1 .. k : (s \o t)[i] = s[i]
      /\ \A i \in 1 .. m : (s \o t)[k + i] = t[i]
    BY <1>1, ConcatOfSeqs
<1>3. n \in 0 .. k + m
    BY <1>1
<1>4. PICK x : x = Rest(s \o t, n)
    OBVIOUS
<1>5. /\ IsSeq(x) /\ Len(x) = (k + m) - n
      /\ \A i \in 1 .. (k + m) - n : x[i] = (s \o t)[n + i]
    <2>1. IsSeq(s \o t) /\ n \in 0 .. Len(s \o t)
        BY <1>2, <1>3
    <2>2. /\ IsSeq(Rest(s \o t, n)) /\ Len(Rest(s \o t, n)) = Len(s \o t) - n
          /\ \A i \in 1 .. Len(s \o t) - n : Rest(s \o t, n)[i] = (s \o t)[n + i]
        BY <2>1, RestOfSeq
    <2> QED
        BY <1>2, <1>4, <2>2
<1>6. PICK r : r = Rest(s, n)
    OBVIOUS
<1>7. IsSeq(r) /\ Len(r) = k - n /\ \A i \in 1 .. k - n : r[i] = s[n + i]
    BY <1>1, <1>6, RestOfSeq
<1>8. /\ IsSeq(r \o t) /\ Len(r \o t) = (k - n) + m
      /\ \A i \in 1 .. k - n : (r \o t)[i] = r[i]
      /\ \A i \in 1 .. m : (r \o t)[(k - n) + i] = t[i]
    <2>1. IsSeq(r)
        BY <1>7
    <2>2. /\ IsSeq(r \o t) /\ Len(r \o t) = Len(r) + Len(t)
          /\ \A i \in 1 .. Len(r) : (r \o t)[i] = r[i]
          /\ \A i \in 1 .. Len(t) : (r \o t)[Len(r) + i] = t[i]
        BY <2>1, ConcatOfSeqs
    <2> QED
        BY <1>1, <1>7, <2>2
<1>9. (k - n) + m = (k + m) - n
    BY <1>1
<1>10. ASSUME NEW i \in 1 .. (k + m) - n
       PROVE  (r \o t)[i] = x[i]
    <2>1. CASE i <= k - n
        <3>1. i \in 1 .. k - n /\ n + i \in 1 .. k
            BY <1>1, <2>1
        <3> QED
            BY <1>2, <1>5, <1>7, <1>8, <3>1
    <2>2. CASE ~(i <= k - n)
        <3>1. PICK j \in 1 .. m : i = (k - n) + j /\ n + i = k + j
            <4>1. i - (k - n) \in 1 .. m
                BY <1>1, <2>2
            <4>2. i = (k - n) + (i - (k - n)) /\ n + i = k + (i - (k - n))
                BY <1>1
            <4> QED
                BY <4>1, <4>2
        <3> QED
            BY <1>2, <1>5, <1>8, <3>1
    <2> QED
        BY <2>1, <2>2
<1> QED
    BY <1>4, <1>5, <1>6, <1>8, <1>9, <1>10, EqualSeqs

-----------------------------------------------------------------------------
(* Frames and their parts. *)

Size(f)   == Len(PartNames(f))
IsHead(p) == p[2] = "head"

(* The first m parts of a frame: some of the names in S behind the head. *)
Begins(s, m, S) ==
    /\ IsSeq(s)
    /\ Len(s) \in 1 .. m
    /\ s[1] = "head"
    /\ \A i \in 2 .. Len(s) : s[i] \in S

LEMMA NoMoreParts ==
    ASSUME NEW s, NEW m \in Nat, NEW S, NEW x, Begins(s, m, S)
    PROVE  s \o << >> = s /\ Begins(s, m + 1, S \cup {x})
<1>1. PICK T : s \in Seq(T)
    BY DEF Begins, IsSeq
<1>2. s \o << >> = s
    BY <1>1, ConcatEmptySeq
<1>3. Len(s) \in 1 .. m => Len(s) \in 1 .. m + 1
    OBVIOUS
<1> QED
    BY <1>2, <1>3 DEF Begins

LEMMA OneMorePart ==
    ASSUME NEW s, NEW m \in Nat, NEW S, NEW x, Begins(s, m, S), x \notin S, x # "head"
    PROVE  /\ Begins(s \o <<x>>, m + 1, S \cup {x})
           /\ \A i \in 1 .. Len(s \o <<x>>) : (s \o <<x>>)[i] = x => i = Len(s \o <<x>>)
<1>1. PICK n \in 1 .. m : n = Len(s)
    BY DEF Begins
<1>2. IsSeq(<<x>>) /\ Len(<<x>>) = 1 /\ <<x>>[1] = x
    <2>1. <<x>> \in Seq({x}) /\ Len(<<x>>) = 1 /\ <<x>>[1] = x
        OBVIOUS
    <2> QED
        BY <2>1, SeqIsSeq
<1>3. PICK t : t = s \o <<x>>
    OBVIOUS
<1>4. PICK u : u = <<x>>
    OBVIOUS
<1>5. /\ IsSeq(s \o u) /\ Len(s \o u) = Len(s) + Len(u)
      /\ \A i \in 1 .. Len(s) : (s \o u)[i] = s[i]
      /\ \A i \in 1 .. Len(u) : (s \o u)[Len(s) + i] = u[i]
    <2>1. IsSeq(s) /\ IsSeq(u)
        BY <1>2, <1>4 DEF Begins
    <2> QED
        BY <2>1, ConcatOfSeqs
<1>6. Len(u) = 1 /\ u[1] = x
    BY <1>2, <1>4
<1>7. /\ IsSeq(t) /\ Len(t) = n + 1 /\ t[n + 1] = x
      /\ \A i \in 1 .. n : t[i] = s[i]
    <2>1. 1 \in 1 .. 1
        OBVIOUS
    <2> QED
        BY <1>1, <1>3, <1>4, <1>5, <1>6, <2>1
<1>8. t[1] = "head"
    <2>1. 1 \in 1 .. n
        BY <1>1
    <2> QED
        BY <1>7, <2>1 DEF Begins
<1>9. ASSUME NEW i \in 1 .. n + 1
      PROVE  /\ i # 1 => t[i] \in S \cup {x}
             /\ i # n + 1 => t[i] # x
    <2>1. CASE i = n + 1
        BY <1>7, <2>1
    <2>2. CASE i # n + 1 /\ i # 1
        <3>1. i \in 1 .. n /\ i \in 2 .. n
            BY <1>1, <2>2
        <3>2. s[i] \in S
            BY <1>1, <3>1 DEF Begins
        <3> QED
            BY <1>7, <3>1, <3>2
    <2>3. CASE i # n + 1 /\ i = 1
        BY <1>8, <2>3
    <2> QED
        BY <2>1, <2>2, <2>3
<1>10. n + 1 \in 1 .. m + 1 /\ \A i \in 2 .. n + 1 : i \in 1 .. n + 1 /\ i # 1
    BY <1>1
<1>11. \A i \in 2 .. n + 1 : t[i] \in S \cup {x}
    BY <1>9, <1>10
<1>12. Begins(t, m + 1, S \cup {x})
    BY <1>7, <1>8, <1>10, <1>11 DEF Begins
<1>13. \A i \in 1 .. Len(t) : t[i] = x => i = Len(t)
    BY <1>7, <1>9
<1> QED
    BY <1>3, <1>12, <1>13

(* The names of the parts of a frame.  The last of them says which part    *)
(* must be there for the frame to be whole.                                *)
LEMMA NamesOfParts ==
    ASSUME NEW f
    PROVE  /\ Begins(PartNames(f), 4, {"length", "key", "data"})
           /\ \A i \in 1 .. Size(f) :
                \/ f.size # 0 /\ PartNames(f)[i] = "data"
                \/ f.size = 0 /\ f.mask /\ PartNames(f)[i] = "key"
                \/ f.size = 0 /\ ~ f.mask /\ f.length # 1 /\ PartNames(f)[i] = "length"
                => i = Size(f)
           /\ f.size = 0 /\ ~ f.mask /\ f.length = 1 => Size(f) = 1
<1>1. PICK h : h = <<"head">>
    OBVIOUS
<1>2. PICK l : l = h \o (IF f.length = 1 THEN << >> ELSE <<"length">>)
    OBVIOUS
<1>3. PICK k : k = l \o (IF f.mask THEN <<"key">> ELSE << >>)
    OBVIOUS
<1>4. PICK d : d = k \o (IF f.size = 0 THEN << >> ELSE <<"data">>)
    OBVIOUS
<1>5. PartNames(f) = d
    BY <1>1, <1>2, <1>3, <1>4, Zenon DEF PartNames
<1>6. Begins(h, 1, {})
    <2>1. h \in Seq({"head"}) /\ Len(h) = 1 /\ h[1] = "head"
        BY <1>1
    <2> QED
        BY <2>1, SeqIsSeq DEF Begins
<1>7. /\ Begins(l, 2, {"length"})
      /\ f.length = 1 => l = h
      /\ f.length # 1 => \A i \in 1 .. Len(l) : l[i] = "length" => i = Len(l)
    <2>1. CASE f.length = 1
        <3>1. h \o << >> = h /\ Begins(h, 1 + 1, {} \cup {"length"})
            BY <1>6, NoMoreParts
        <3>2. l = h
            BY <1>2, <2>1, <3>1
        <3> QED
            BY <2>1, <3>1, <3>2
    <2>2. CASE f.length # 1
        <3>1. l = h \o <<"length">>
            BY <1>2, <2>2
        <3>2. "length" \notin {} /\ "length" # "head"
            OBVIOUS
        <3>3. /\ Begins(l, 1 + 1, {} \cup {"length"})
              /\ \A i \in 1 .. Len(l) : l[i] = "length" => i = Len(l)
            BY <1>6, <3>1, <3>2, OneMorePart
        <3> QED
            BY <2>2, <3>3
    <2> QED
        BY <2>1, <2>2
<1>8. /\ Begins(k, 3, {"length", "key"})
      /\ ~ f.mask => k = l
      /\ f.mask => \A i \in 1 .. Len(k) : k[i] = "key" => i = Len(k)
    <2>1. CASE ~ f.mask
        <3>1. l \o << >> = l /\ Begins(l, 2 + 1, {"length"} \cup {"key"})
            BY <1>7, NoMoreParts
        <3>2. k = l
            BY <1>3, <2>1, <3>1
        <3>3. {"length"} \cup {"key"} = {"length", "key"}
            OBVIOUS
        <3> QED
            BY <2>1, <3>1, <3>2, <3>3
    <2>2. CASE f.mask
        <3>1. k = l \o <<"key">>
            BY <1>3, <2>2
        <3>2. "key" \notin {"length"} /\ "key" # "head"
            OBVIOUS
        <3>3. /\ Begins(k, 2 + 1, {"length"} \cup {"key"})
              /\ \A i \in 1 .. Len(k) : k[i] = "key" => i = Len(k)
            BY <1>7, <3>1, <3>2, OneMorePart
        <3>4. {"length"} \cup {"key"} = {"length", "key"}
            OBVIOUS
        <3> QED
            BY <2>2, <3>3, <3>4
    <2> QED
        BY <2>1, <2>2
<1>9. /\ Begins(d, 4, {"length", "key", "data"})
      /\ f.size = 0 => d = k
      /\ f.size # 0 => \A i \in 1 .. Len(d) : d[i] = "data" => i = Len(d)
    <2>1. CASE f.size = 0
        <3>1. k \o << >> = k /\ Begins(k, 3 + 1, {"length", "key"} \cup {"data"})
            BY <1>8, NoMoreParts
        <3>2. d = k
            BY <1>4, <2>1, <3>1
        <3>3. {"length", "key"} \cup {"data"} = {"length", "key", "data"}
            OBVIOUS
        <3> QED
            BY <2>1, <3>1, <3>2, <3>3
    <2>2. CASE f.size # 0
        <3>1. d = k \o <<"data">>
            BY <1>4, <2>2
        <3>2. "data" \notin {"length", "key"} /\ "data" # "head"
            OBVIOUS
        <3>3. /\ Begins(d, 3 + 1, {"length", "key"} \cup {"data"})
              /\ \A i \in 1 .. Len(d) : d[i] = "data" => i = Len(d)
            BY <1>8, <3>1, <3>2, OneMorePart
        <3>4. {"length", "key"} \cup {"data"} = {"length", "key", "data"}
            OBVIOUS
        <3> QED
            BY <2>2, <3>3, <3>4
    <2> QED
        BY <2>1, <2>2
<1>10. Size(f) = Len(d)
    BY <1>5 DEF Size
<1>11. Len(h) = 1
    BY <1>1
<1> QED
    BY <1>5, <1>7, <1>8, <1>9, <1>10, <1>11, Zenon

LEMMA SizeOfFrame ==
    ASSUME NEW f
    PROVE  /\ Size(f) \in 1 .. 4 /\ Size(f) \in Nat
           /\ PartNames(f)[1] = "head"
           /\ \A i \in 2 .. Size(f) : PartNames(f)[i] # "head"
    BY NamesOfParts DEF Begins, Size

(* The parts of a frame. *)
LEMMA PartsOfFrame ==
    ASSUME NEW f
    PROVE  /\ IsSeq(Parts(f)) /\ Len(Parts(f)) = Size(f)
           /\ Parts(f)[1] = <<f, "head">>
           /\ \A i \in 1 .. Size(f) : Parts(f)[i][2] = PartNames(f)[i]
           /\ \A i \in 2 .. Size(f) : ~ IsHead(Parts(f)[i])
<1>1. PICK n \in Nat : n = Size(f) /\ n \in 1 .. 4
    BY SizeOfFrame
<1>2. PICK s : s = Parts(f)
    OBVIOUS
<1>3. s = [i \in 1 .. n |-> <<IF i = 1 THEN f ELSE "", PartNames(f)[i]>>]
    BY <1>1, <1>2 DEF Parts, Size
<1>4. s = [i \in 1 .. n |-> s[i]]
    BY <1>3
<1>5. IsSeq(s) /\ Len(s) = n
    BY <1>4, FunctionIsSeq
<1>6. \A i \in 1 .. n : s[i][2] = PartNames(f)[i]
    BY <1>3
<1>7. s[1] = <<f, "head">>
    <2>1. 1 \in 1 .. n
        BY <1>1
    <2>2. s[1] = <<f, PartNames(f)[1]>>
        BY <1>3, <2>1
    <2> QED
        BY <2>2, SizeOfFrame
<1>8. \A i \in 2 .. n : i \in 1 .. n
    BY <1>1
<1> QED
    BY <1>1, <1>2, <1>5, <1>6, <1>7, <1>8, SizeOfFrame DEF IsHead

-----------------------------------------------------------------------------
(* Streams of whole frames. *)

(* The end of v behind the first d elements is u. *)
Suffix(v, d, u) ==
    /\ IsSeq(v) /\ IsSeq(u) /\ d \in Nat
    /\ Len(v) = d + Len(u)
    /\ \A i \in 1 .. Len(u) : v[d + i] = u[i]

LEMMA RestIsSuffix ==
    ASSUME NEW s, IsSeq(s), NEW n \in 0 .. Len(s)
    PROVE  Suffix(s, n, Rest(s, n))
<1>1. PICK m \in Nat : m = Len(s)
    BY LenOfSeq
<1>2. n \in Nat /\ m = n + (m - n)
    BY <1>1
<1>3. IsSeq(Rest(s, n)) /\ Len(Rest(s, n)) = m - n
      /\ \A i \in 1 .. m - n : Rest(s, n)[i] = s[n + i]
    BY <1>1, RestOfSeq
<1> QED
    BY <1>1, <1>2, <1>3 DEF Suffix

LEMMA EndIsSuffix ==
    ASSUME NEW s, NEW t, IsSeq(s), IsSeq(t)
    PROVE  Suffix(s \o t, Len(s), t)
    BY ConcatOfSeqs, LenOfSeq DEF Suffix

(* The frames the two ends, and other implementations, send. *)
IsFrame(f) ==
    /\ f.op \in {0, 1, 2, 3, 8, 9, 10}
    /\ f.op = 1 => f.fin = FALSE
    /\ f.op # 1 => f.fin = TRUE
    /\ f.length \in {1, 2, 8} /\ f.size \in Nat

(* The frame that begins at i is whole and another one follows, if any. *)
Whole(s, i) ==
    LET f == s[i][1] IN
    /\ IsFrame(f)
    /\ i + Size(f) <= Len(s) + 1
    /\ \A k \in 1 .. Size(f) : s[i + k - 1][2] = PartNames(f)[k]
    /\ i + Size(f) <= Len(s) => IsHead(s[i + Size(f)])

Stream(s) ==
    /\ IsSeq(s)
    /\ s # << >> => IsHead(s[1])
    /\ \A i \in 1 .. Len(s) : IsHead(s[i]) => Whole(s, i)

LEMMA WholeInSuffix ==
    ASSUME NEW v, NEW d, NEW u, Suffix(v, d, u), NEW i \in 1 .. Len(u)
    PROVE  Whole(v, d + i) <=> Whole(u, i)
<1>1. PICK n \in Nat : n = Len(u) /\ d \in Nat /\ Len(v) = d + n /\ i \in 1 .. n
    BY LenOfSeq DEF Suffix
<1>2. \A j \in 1 .. n : v[d + j] = u[j]
    BY <1>1 DEF Suffix
<1>3. v[d + i] = u[i]
    BY <1>1, <1>2
<1>4. PICK f : f = u[i][1] /\ f = v[d + i][1]
    BY <1>3
<1>5. PICK m \in Nat : m = Size(f) /\ m \in 1 .. 4
    BY SizeOfFrame
<1>6. d + i + m <= d + n + 1 <=> i + m <= n + 1
    BY <1>1
<1>7. CASE i + m <= n + 1
    <2>1. \A k \in 1 .. m : i + k - 1 \in 1 .. n /\ d + i + k - 1 = d + (i + k - 1)
        BY <1>1, <1>7
    <2>2. \A k \in 1 .. m : v[d + i + k - 1] = u[i + k - 1]
        BY <1>2, <2>1
    <2>3. d + i + m <= d + n <=> i + m <= n
        BY <1>1
    <2>4. i + m <= n => v[d + i + m] = u[i + m]
        <3>1. i + m <= n => i + m \in 1 .. n /\ d + i + m = d + (i + m)
            BY <1>1, <1>5
        <3> QED
            BY <1>2, <3>1
    <2> QED
        BY <1>1, <1>4, <1>5, <1>6, <2>2, <2>3, <2>4 DEF Whole
<1>8. CASE ~(i + m <= n + 1)
    BY <1>1, <1>4, <1>5, <1>6, <1>8 DEF Whole
<1> QED
    BY <1>7, <1>8

LEMMA EmptyStream == Stream(<< >>)
<1>1. << >> \in Seq({}) /\ Len(<< >>) = 0
    OBVIOUS
<1>2. \A i \in 1 .. 0 : FALSE
    OBVIOUS
<1> QED
    BY <1>1, <1>2, SeqIsSeq DEF Stream

LEMMA PartsAreStream ==
    ASSUME NEW f, IsFrame(f)
    PROVE  Stream(Parts(f))
<1>1. PICK s : s = Parts(f)
    OBVIOUS
<1>2. PICK m \in Nat : m = Size(f) /\ m \in 1 .. 4
    BY SizeOfFrame
<1>3. /\ IsSeq(s) /\ Len(s) = m /\ s[1] = <<f, "head">>
      /\ \A i \in 1 .. m : s[i][2] = PartNames(f)[i]
      /\ \A i \in 2 .. m : ~ IsHead(s[i])
    BY <1>1, <1>2, PartsOfFrame
<1>4. s[1][1] = f /\ IsHead(s[1])
    BY <1>3 DEF IsHead
<1>5. ASSUME NEW i \in 1 .. Len(s), IsHead(s[i])
      PROVE  Whole(s, i)
    <2>1. i = 1
        <3>1. i \in 1 .. m /\ (i = 1 \/ i \in 2 .. m)
            BY <1>2, <1>3, <1>5
        <3> QED
            BY <1>3, <1>5, <3>1
    <2>2. 1 + m <= m + 1 /\ ~(1 + m <= m) /\ \A k \in 1 .. m : 1 + k - 1 = k
        BY <1>2
    <2>3. \A k \in 1 .. m : s[1 + k - 1][2] = PartNames(f)[k]
        BY <1>3, <2>2
    <2> QED
        BY <1>2, <1>3, <1>4, <2>1, <2>2, <2>3 DEF Whole
<1> QED
    BY <1>1, <1>3, <1>4, <1>5 DEF Stream

(* A stream of frames may follow another. *)
LEMMA ConcatStream ==
    ASSUME NEW s, NEW t, Stream(s), Stream(t)
    PROVE  Stream(s \o t)
<1>1. IsSeq(s) /\ IsSeq(t)
    BY DEF Stream
<1>2. PICK k \in Nat, n \in Nat : k = Len(s) /\ n = Len(t)
    BY <1>1, LenOfSeq
<1>3. PICK u : u = s \o t
    OBVIOUS
<1>4. /\ IsSeq(u) /\ Len(u) = k + n
      /\ \A i \in 1 .. k : u[i] = s[i]
      /\ \A i \in 1 .. n : u[k + i] = t[i]
    <2>1. /\ IsSeq(s \o t) /\ Len(s \o t) = Len(s) + Len(t)
          /\ \A i \in 1 .. Len(s) : (s \o t)[i] = s[i]
          /\ \A i \in 1 .. Len(t) : (s \o t)[Len(s) + i] = t[i]
        BY <1>1, ConcatOfSeqs
    <2> QED
        BY <1>2, <1>3, <2>1
<1>5. Suffix(u, k, t)
    BY <1>1, <1>2, <1>3, EndIsSuffix
<1>6. n >= 1 => IsHead(t[1])
    <2>1. n >= 1 => t # << >>
        BY <1>1, <1>2, LenOfSeq
    <2> QED
        BY <2>1 DEF Stream
<1>7. ASSUME NEW i \in 1 .. k + n, IsHead(u[i])
      PROVE  Whole(u, i)
    <2>1. CASE i <= k
        <3>1. i \in 1 .. k /\ u[i] = s[i]
            BY <1>2, <1>4, <2>1
        <3>2. PICK f : f = s[i][1] /\ f = u[i][1]
            BY <3>1
        <3>3. PICK m \in Nat : m = Size(f) /\ m \in 1 .. 4
            BY SizeOfFrame
        <3>4. Whole(s, i)
            BY <1>2, <1>7, <3>1 DEF Stream
        <3>5. /\ IsFrame(f) /\ i + m <= k + 1
              /\ \A j \in 1 .. m : s[i + j - 1][2] = PartNames(f)[j]
              /\ i + m <= k => IsHead(s[i + m])
            BY <1>2, <3>2, <3>3, <3>4 DEF Whole
        <3>6. /\ i + m <= k + n + 1
              /\ \A j \in 1 .. m : i + j - 1 \in 1 .. k
            BY <1>2, <3>1, <3>3, <3>5
        <3>7. \A j \in 1 .. m : u[i + j - 1][2] = PartNames(f)[j]
            BY <1>4, <3>5, <3>6
        <3>8. ASSUME i + m <= k + n
              PROVE  IsHead(u[i + m])
            <4>1. CASE i + m <= k
                <5>1. i + m \in 1 .. k
                    BY <1>2, <3>1, <3>3, <4>1
                <5> QED
                    BY <1>4, <3>5, <4>1, <5>1
            <4>2. CASE ~(i + m <= k)
                <5>1. i + m = k + 1 /\ n >= 1 /\ 1 \in 1 .. n
                    BY <1>2, <3>1, <3>3, <3>5, <3>8, <4>2
                <5> QED
                    BY <1>4, <1>6, <5>1
            <4> QED
                BY <4>1, <4>2
        <3> QED
            BY <1>4, <3>2, <3>3, <3>5, <3>6, <3>7, <3>8 DEF Whole
    <2>2. CASE ~(i <= k)
        <3>1. PICK j \in 1 .. n : i = k + j
            <4>1. i - k \in 1 .. n /\ i = k + (i - k)
                BY <1>2, <2>2
            <4> QED
                BY <4>1
        <3>2. Whole(t, j)
            BY <1>2, <1>4, <1>7, <3>1 DEF Stream
        <3> QED
            BY <1>2, <1>5, <3>1, <3>2, WholeInSuffix
    <2> QED
        BY <2>1, <2>2
<1>8. u # << >> => IsHead(u[1])
    <2>1. CASE k = 0
        <3>1. n = 0 => Len(u) = 0
            BY <1>4, <2>1
        <3>2. n # 0 => 1 \in 1 .. n /\ n >= 1 /\ k + 1 = 1
            BY <1>2, <2>1
        <3> QED
            BY <1>4, <1>6, <3>1, <3>2, LenOfSeq
    <2>2. CASE k # 0
        <3>1. 1 \in 1 .. k
            BY <1>2, <2>2
        <3>2. s # << >>
            BY <1>1, <1>2, <2>2, LenOfSeq
        <3> QED
            BY <1>4, <3>1, <3>2 DEF Stream
    <2> QED
        BY <2>1, <2>2
<1> QED
    BY <1>3, <1>4, <1>7, <1>8 DEF Stream

(* A stream without its first frame is a stream. *)
LEMMA RestStream ==
    ASSUME NEW s, Stream(s), s # << >>
    PROVE  /\ IsHead(s[1]) /\ IsFrame(s[1][1])
           /\ Size(s[1][1]) \in 1 .. Len(s)
           /\ \A k \in 1 .. Size(s[1][1]) : s[k][2] = PartNames(s[1][1])[k]
           /\ Stream(Rest(s, Size(s[1][1])))
<1>1. PICK n \in Nat : n = Len(s) /\ n >= 1
    BY LenOfSeq DEF Stream
<1>2. 1 \in 1 .. n
    BY <1>1
<1>3. IsHead(s[1]) /\ Whole(s, 1)
    BY <1>1, <1>2 DEF Stream
<1>4. PICK f : f = s[1][1]
    OBVIOUS
<1>5. PICK m \in Nat : m = Size(f) /\ m \in 1 .. 4
    BY SizeOfFrame
<1>6. /\ IsFrame(f) /\ 1 + m <= n + 1
      /\ \A k \in 1 .. m : s[1 + k - 1][2] = PartNames(f)[k]
      /\ 1 + m <= n => IsHead(s[1 + m])
    BY <1>1, <1>3, <1>4, <1>5 DEF Whole
<1>7. m \in 1 .. n /\ m \in 0 .. n /\ \A k \in 1 .. m : 1 + k - 1 = k
    BY <1>1, <1>5, <1>6
<1>8. PICK r : r = Rest(s, m)
    OBVIOUS
<1>9. Suffix(s, m, r)
    BY <1>1, <1>7, <1>8, RestIsSuffix DEF Stream
<1>10. PICK j \in Nat : j = Len(r) /\ IsSeq(r) /\ n = m + j
    BY <1>1, <1>9, LenOfSeq DEF Suffix
<1>11. \A i \in 1 .. j : s[m + i] = r[i] /\ m + i \in 1 .. n
    <2>1. \A i \in 1 .. j : m + i \in 1 .. n
        BY <1>10
    <2>2. \A i \in 1 .. j : s[m + i] = r[i]
        BY <1>9, <1>10 DEF Suffix
    <2> QED
        BY <2>1, <2>2
<1>12. ASSUME NEW i \in 1 .. j, IsHead(r[i])
       PROVE  Whole(r, i)
    <2>1. Whole(s, m + i)
        BY <1>1, <1>11, <1>12 DEF Stream
    <2> QED
        BY <1>9, <1>10, <2>1, WholeInSuffix
<1>13. r # << >> => IsHead(r[1])
    <2>1. r # << >> => 1 \in 1 .. j
        BY <1>10, LenOfSeq
    <2>2. r # << >> => 1 + m <= n /\ 1 + m = m + 1
        BY <1>10, <2>1
    <2> QED
        BY <1>6, <1>11, <2>1, <2>2
<1>14. Stream(r)
    BY <1>10, <1>12, <1>13 DEF Stream
<1>15. \A k \in 1 .. m : s[k][2] = PartNames(f)[k]
    BY <1>6, <1>7
<1> QED
    BY <1>1, <1>3, <1>4, <1>5, <1>6, <1>7, <1>8, <1>14, <1>15

-----------------------------------------------------------------------------
(* The variables are functions on the ends, of the right kind. *)

Beyond   == {"CONNECTED", "FINISHED", "CLOSED", "PENDING_ERROR"}
Early    == {"DETACHED", "WAITING_HANDSHAKE_REQUEST"}
Statuses == Beyond \cup Early \cup {"WAITING_HANDSHAKE_RESPONSE"}

OnEnds(f) == f = [e \in Ends |-> f[e]]

Types ==
    /\ status \in [Ends -> Statuses]
    /\ close_frame_sent \in [Ends -> BOOLEAN]
    /\ pc \in [Ends -> {"wait", "recvMessage", "retrieve", "closed"}]
    /\ OnEnds(last_op_code) /\ OnEnds(message) /\ OnEnds(sent) /\ OnEnds(got)
    /\ OnEnds(buffer) /\ OnEnds(wire)

LEMMA ExceptOnEnds ==
    ASSUME NEW f, OnEnds(f), NEW e \in Ends, NEW v
    PROVE  /\ OnEnds([f EXCEPT ![e] = v])
           /\ [f EXCEPT ![e] = v][e] = v
           /\ \A d \in Ends \ {e} : [f EXCEPT ![e] = v][d] = f[d]
    BY DEF OnEnds

LEMMA Peers ==
    ASSUME NEW e \in Ends
    PROVE  Peer(e) \in Ends /\ Peer(e) # e /\ Peer(Peer(e)) = e /\ Ends = {e, Peer(e)}
    BY DEF Ends, Peer

LEMMA OutputTypes ==
    ASSUME Types, NEW e \in Ends, NEW parts, Output(e, parts)
    PROVE  OnEnds(wire)'
    BY Peers, ExceptOnEnds, Zenon DEF Types, Output

LEMMA ReadFrameTypes ==
    ASSUME Types, NEW e \in Ends, NEW fin, ReadFrame(e, fin)
    PROVE  /\ OnEnds(last_op_code)' /\ OnEnds(buffer)'
           /\ UNCHANGED <<sent, got, key, answer, calls>>
    BY Zenon, ExceptOnEnds DEF Types, ReadFrame, Read

LEMMA SendControlTypes ==
    ASSUME Types, NEW e \in Ends, NEW op, sendControl(e, op)
    PROVE  OnEnds(wire)' /\ close_frame_sent' \in [Ends -> BOOLEAN]
<1>1. CASE close_frame_sent[e]
    BY <1>1 DEF sendControl, Types
<1>2. CASE ~ close_frame_sent[e]
    <2>1. OnEnds(wire)'
        BY <1>2, OutputTypes DEF sendControl
    <2>2. (op = 8) \in BOOLEAN
        OBVIOUS
    <2>3. close_frame_sent' = [close_frame_sent EXCEPT ![e] = (op = 8)]
        BY <1>2 DEF sendControl
    <2> QED
        BY <2>1, <2>2, <2>3 DEF Types
<1> QED
    BY <1>1, <1>2

LEMMA TypesKept ==
    ASSUME Types, [Next]_vars
    PROVE  Types'
<1> USE DEF Statuses, Beyond, Early
<1>1. CASE UNCHANGED vars
    BY <1>1 DEF Types, OnEnds, vars, protoVars, histVars
<1>2. ASSUME NEW k, startAsClient(k)
      PROVE  Types'
    <2>1. "client" \in Ends /\ Peer("client") \in Ends
        BY DEF Ends, Peer
    <2>2. OnEnds(wire)'
        BY <1>2, <2>1, ExceptOnEnds, Zenon DEF Types, startAsClient, Output
    <2> QED
        BY <1>2, <2>1, <2>2 DEF Types, startAsClient, histVars, OnEnds
<1>3. CASE startAsServer
    BY <1>3 DEF Types, startAsServer, histVars, OnEnds, Ends
<1>4. ASSUME NEW e \in Ends, NEW n, Arrive(e, n)
      PROVE  Types'
    BY <1>4 DEF Types, Arrive, protoVars, histVars, OnEnds
<1>5. CASE readHandshakeResponse
    <2>1. "client" \in Ends
        BY DEF Ends
    <2>2. OnEnds(buffer)'
        BY <1>5, <2>1, ExceptOnEnds, Zenon DEF Types, readHandshakeResponse, Read
    <2>3. /\ status' \in [Ends -> Statuses]
          /\ pc' \in [Ends -> {"wait", "recvMessage", "retrieve", "closed"}]
        BY <1>5, <2>1 DEF Types, readHandshakeResponse, Error
    <2> QED
        BY <1>5, <2>2, <2>3 DEF Types, readHandshakeResponse, histVars, OnEnds
<1>6. ASSUME readHandshakeRequest
      PROVE  Types'
    <2>1. "server" \in Ends /\ Peer("server") \in Ends
        BY DEF Ends, Peer
    <2>2. OnEnds(buffer)' /\ OnEnds(wire)'
        <3>1. OnEnds(buffer)'
            BY <1>6, <2>1, ExceptOnEnds, Zenon DEF Types, readHandshakeRequest, Read
        <3>2. \E q : Output("server", q)
            BY <1>6, Zenon DEF readHandshakeRequest
        <3> QED
            BY <2>1, <3>1, <3>2, OutputTypes
    <2>3. /\ status' \in [Ends -> Statuses]
          /\ pc' \in [Ends -> {"wait", "recvMessage", "retrieve", "closed"}]
        BY <1>6, <2>1 DEF Types, readHandshakeRequest, Error
    <2> QED
        BY <1>6, <2>2, <2>3 DEF Types, readHandshakeRequest, histVars, OnEnds
<1>7. ASSUME NEW e \in Ends, HandshakeWaits(e) \/ FrameWaits(e) \/ FrameWrong(e)
      PROVE  Types'
    BY <1>7 DEF Types, HandshakeWaits, FrameWaits, FrameWrong, MoreData, Error,
                protoVars, histVars, OnEnds
<1>8. ASSUME NEW e \in Ends, NEW fin, ReadFrame(e, fin),
             readFragment(e) \/ readData(e) \/ readPong(e) \/ readUnknown(e)
      PROVE  Types'
    <2>1. /\ OnEnds(last_op_code)' /\ OnEnds(buffer)'
          /\ UNCHANGED <<sent, got>>
        BY <1>8, ReadFrameTypes
    <2>2. OnEnds(message)'
        <3>1. PICK v : message' = [message EXCEPT ![e] = v]
            BY <1>8, Zenon DEF readFragment, readData, readPong, readUnknown
        <3> QED
            BY <3>1, ExceptOnEnds, Zenon DEF Types
    <2>3. /\ status' \in [Ends -> Statuses]
          /\ pc' \in [Ends -> {"wait", "recvMessage", "retrieve", "closed"}]
          /\ close_frame_sent' \in [Ends -> BOOLEAN]
          /\ OnEnds(wire)'
        BY <1>8, ZenonT(40)
           DEF Types, readFragment, readData, readPong, readUnknown, MoreData, Error, OnEnds
    <2> QED
        BY <2>1, <2>2, <2>3 DEF Types, OnEnds
<1>9. ASSUME NEW e \in Ends, NEW fin, ReadFrame(e, fin), readPing(e) \/ readClose(e)
      PROVE  Types'
    <2>1. /\ OnEnds(last_op_code)' /\ OnEnds(buffer)'
          /\ UNCHANGED <<sent, got>>
        BY <1>9, ReadFrameTypes
    <2>2. OnEnds(message)'
        <3>1. message' = [message EXCEPT ![e] = << >>]
            BY <1>9, Zenon DEF readPing, readClose
        <3> QED
            BY <3>1, ExceptOnEnds, Zenon DEF Types
    <2>3. OnEnds(wire)' /\ close_frame_sent' \in [Ends -> BOOLEAN]
        BY <1>9, SendControlTypes DEF readPing, readClose
    <2>4. /\ status' \in [Ends -> Statuses]
          /\ pc' \in [Ends -> {"wait", "recvMessage", "retrieve", "closed"}]
        BY <1>9 DEF Types, readPing, readClose
    <2> QED
        BY <2>1, <2>2, <2>3, <2>4 DEF Types, OnEnds
<1>10. ASSUME NEW e \in Ends, retrieveMessage(e)
       PROVE  Types'
    BY <1>10 DEF Types, retrieveMessage, OnEnds
<1>11. ASSUME NEW e \in Ends, NEW m, NEW k, sendMessage(e, m, k)
       PROVE  Types'
    <2>1. OnEnds(wire)' /\ OnEnds(sent)'
        <3>1. \E q : Output(e, q)
            BY <1>11, Zenon DEF sendMessage
        <3>2. OnEnds(sent)'
            BY <1>11, ExceptOnEnds, Zenon DEF Types, sendMessage
        <3> QED
            BY <3>1, <3>2, OutputTypes
    <2> QED
        BY <1>11, <2>1 DEF Types, sendMessage, Call, OnEnds
<1>12. ASSUME NEW e \in Ends, NEW op, sendFrame(e, op)
       PROVE  Types'
    <2>1. OnEnds(wire)' /\ close_frame_sent' \in [Ends -> BOOLEAN]
        BY <1>12, SendControlTypes DEF sendFrame
    <2> QED
        BY <1>12, <2>1 DEF Types, sendFrame, Call, OnEnds
<1>13. ASSUME NEW e \in Ends, NEW f, SendBad(e, f)
       PROVE  Types'
    <2>1. OnEnds(wire)'
        BY <1>13, Peers, ExceptOnEnds, Zenon DEF Types, SendBad, Output
    <2> QED
        BY <1>13, <2>1 DEF Types, SendBad, Call, OnEnds
<1>14. ASSUME NEW m, NEW i, NEW k, SendFragments(m, i, k)
       PROVE  Types'
    <2>1. "client" \in Ends /\ Peer("client") \in Ends
        BY DEF Ends, Peer
    <2>2. OnEnds(wire)' /\ OnEnds(sent)'
        BY <1>14, <2>1, ExceptOnEnds, Zenon DEF Types, SendFragments, Output
    <2> QED
        BY <1>14, <2>2 DEF Types, SendFragments, Call, OnEnds
<1>15. ASSUME NEW e \in Ends, recvMessage(e)
       PROVE  Types'
    <2>1. (readFragment(e) => ReadFrame(e, FALSE)) /\ (readData(e) => ReadFrame(e, TRUE))
        BY DEF readFragment, readData
    <2>2. (readClose(e) => ReadFrame(e, TRUE)) /\ (readPing(e) => ReadFrame(e, TRUE))
        BY DEF readClose, readPing
    <2>3. (readPong(e) => ReadFrame(e, TRUE)) /\ (readUnknown(e) => ReadFrame(e, TRUE))
        BY DEF readPong, readUnknown
    <2> QED
        BY <1>7, <1>8, <1>9, <1>15, <2>1, <2>2, <2>3 DEF recvMessage
<1>16. CASE Next
    <2>1. ASSUME NEW e \in Ends, Send(e)
          PROVE  Types'
        BY <1>11, <1>12, <1>13, <2>1 DEF Send
    <2>2. CASE Deliver
        BY <1>4, <1>5, <1>6, <1>10, <1>15, <2>2 DEF Deliver, Handshake, Arrives, Receive
    <2> QED
        BY <1>2, <1>3, <1>14, <1>16, <2>1, <2>2 DEF Next
<1> QED
    BY <1>1, <1>16

-----------------------------------------------------------------------------
(* What is on its way to an end. *)

In(e) == buffer[e] \o wire[e]

AreSeqs == \A e \in Ends : IsSeq(buffer[e]) /\ IsSeq(wire[e])

(* The frames among it: the handshake is two parts. *)
Frames(e) == IF status[e] \in Beyond THEN In(e) ELSE Rest(In(e), 2)

LEMMA InIsSeq ==
    ASSUME AreSeqs, NEW e \in Ends
    PROVE  /\ IsSeq(In(e)) /\ Len(In(e)) \in Nat
           /\ Len(buffer[e]) \in Nat /\ Len(buffer[e]) <= Len(In(e))
           /\ \A i \in 1 .. Len(buffer[e]) : In(e)[i] = buffer[e][i]
<1>1. IsSeq(buffer[e]) /\ IsSeq(wire[e])
    BY DEF AreSeqs
<1>2. PICK m \in Nat, n \in Nat : m = Len(buffer[e]) /\ n = Len(wire[e])
    BY <1>1, LenOfSeq
<1>3. /\ IsSeq(In(e)) /\ Len(In(e)) = Len(buffer[e]) + Len(wire[e])
      /\ \A i \in 1 .. Len(buffer[e]) : In(e)[i] = buffer[e][i]
    BY <1>1, ConcatOfSeqs, ZenonT(40) DEF In
<1>4. m + n \in Nat /\ m <= m + n
    OBVIOUS
<1> QED
    BY <1>2, <1>3, <1>4

(* Bytes that arrive were on their way already. *)
LEMMA ArriveKeeps ==
    ASSUME Types, AreSeqs, NEW e \in Ends, NEW n \in 1 .. Len(wire[e]), Arrive(e, n)
    PROVE  /\ AreSeqs'
           /\ \A d \in Ends : In(d)' = In(d)
<1>1. PICK b, w : b = buffer[e] /\ w = wire[e]
    OBVIOUS
<1>2. IsSeq(b) /\ IsSeq(w)
    BY <1>1 DEF AreSeqs
<1>3. n \in 0 .. Len(w)
    BY <1>1, <1>2, LenOfSeq
<1>4. /\ IsSeq(b \o SubSeq(w, 1, n)) /\ IsSeq(Rest(w, n))
      /\ (b \o SubSeq(w, 1, n)) \o Rest(w, n) = b \o w
    BY <1>2, <1>3, MovedElements
<1>5. /\ buffer' = [buffer EXCEPT ![e] = b \o SubSeq(w, 1, n)]
      /\ wire' = [wire EXCEPT ![e] = Rest(w, n)]
    BY <1>1, Zenon DEF Arrive, Rest
<1>6. OnEnds(buffer) /\ OnEnds(wire)
    BY DEF Types
<1>7. /\ buffer'[e] = b \o SubSeq(w, 1, n) /\ wire'[e] = Rest(w, n)
      /\ \A d \in Ends \ {e} : buffer'[d] = buffer[d] /\ wire'[d] = wire[d]
    BY <1>5, <1>6 DEF OnEnds
<1>8. IsSeq(buffer'[e]) /\ IsSeq(wire'[e]) /\ In(e)' = In(e)
    BY <1>1, <1>4, <1>7, Zenon DEF In
<1>9. \A d \in Ends \ {e} : IsSeq(buffer'[d]) /\ IsSeq(wire'[d]) /\ In(d)' = In(d)
    BY <1>7, Zenon DEF In, AreSeqs
<1>10. \A d \in Ends : d = e \/ d \in Ends \ {e}
    OBVIOUS
<1>11. AreSeqs'
    BY <1>8, <1>9, <1>10, Zenon DEF AreSeqs
<1> QED
    BY <1>8, <1>9, <1>10, <1>11, Zenon

(* What an end sends goes to the other end. *)
LEMMA OutputAppends ==
    ASSUME Types, AreSeqs, NEW e \in Ends, NEW q, IsSeq(q), Output(e, q)
    PROVE  /\ IsSeq(wire'[e]) /\ IsSeq(wire'[Peer(e)])
           /\ wire'[e] = wire[e]
           /\ buffer'[Peer(e)] = buffer[Peer(e)] => In(Peer(e))' = In(Peer(e)) \o q
<1>1. Peer(e) \in Ends /\ e \in Ends \ {Peer(e)}
    BY Peers
<1>2. wire' = [wire EXCEPT ![Peer(e)] = wire[Peer(e)] \o q] /\ OnEnds(wire)
    BY Zenon DEF Output, Types
<1>3. wire'[Peer(e)] = wire[Peer(e)] \o q /\ wire'[e] = wire[e]
    BY <1>1, <1>2 DEF OnEnds
<1>4. PICK b, w : b = buffer[Peer(e)] /\ w = wire[Peer(e)]
    OBVIOUS
<1>5. IsSeq(b) /\ IsSeq(w) /\ IsSeq(wire[e])
    BY <1>1, <1>4 DEF AreSeqs
<1>6. IsSeq(w \o q)
    BY <1>5, ConcatOfSeqs
<1>7. PICK a, z : a = b \o w /\ z = w \o q
    OBVIOUS
<1>8. a \o q = b \o z
    BY <1>5, <1>7, Associative
<1>9. IsSeq(wire'[e]) /\ IsSeq(wire'[Peer(e)])
    BY <1>3, <1>4, <1>5, <1>6
<1>10. ASSUME buffer'[Peer(e)] = buffer[Peer(e)]
       PROVE  In(Peer(e))' = In(Peer(e)) \o q
    <2>1. Peer(e)' = Peer(e)
        BY DEF Peer
    <2>2. In(Peer(e))' = b \o z
        BY <1>3, <1>4, <1>7, <1>10, <2>1, Zenon DEF In
    <2>3. In(Peer(e)) = a
        BY <1>4, <1>7 DEF In
    <2> QED
        BY <1>8, <2>2, <2>3
<1> QED
    BY <1>3, <1>9, <1>10

(* What an end reads is gone. *)
LEMMA ReadDrops ==
    ASSUME Types, AreSeqs, NEW e \in Ends, NEW n \in 0 .. Len(buffer[e]),
           Read(e, n), wire'[e] = wire[e]
    PROVE  /\ IsSeq(buffer'[e])
           /\ In(e)' = Rest(In(e), n)
           /\ buffer'[Peer(e)] = buffer[Peer(e)]
<1>1. PICK b, w : b = buffer[e] /\ w = wire[e]
    OBVIOUS
<1>2. IsSeq(b) /\ IsSeq(w) /\ n \in 0 .. Len(b)
    BY <1>1 DEF AreSeqs
<1>3. buffer' = [buffer EXCEPT ![e] = Rest(b, n)] /\ OnEnds(buffer)
    BY <1>1, Zenon DEF Read, Rest, Types
<1>4. Peer(e) \in Ends \ {e}
    BY Peers
<1>5. buffer'[e] = Rest(b, n) /\ buffer'[Peer(e)] = buffer[Peer(e)]
    BY <1>3, <1>4 DEF OnEnds
<1>6. IsSeq(Rest(b, n)) /\ Rest(b, n) \o w = Rest(b \o w, n)
    BY <1>2, RestOfSeq, RestOfConcat
<1> QED
    BY <1>1, <1>5, <1>6, Zenon DEF In

-----------------------------------------------------------------------------
(* The handshake. *)

Request(k) == <<<<"GET", "start">>, <<k, "rest">>>>

(* Until the server has read the request there is nothing but the request; *)
(* until the client has read the response, that comes before the frames,   *)
(* and it says 101 to a proper key only.                                   *)
Handshakes ==
    /\ status["client"] \in {"DETACHED", "WAITING_HANDSHAKE_RESPONSE"} \cup Beyond
    /\ status["server"] \in Early \cup Beyond
    /\ status["client"] = "DETACHED" => In("server") = << >>
    /\ status["server"] \in Early =>
          /\ In("client") = << >>
          /\ status["client"] \notin Beyond
          /\ status["client"] # "DETACHED" => In("server") = Request(key)
    /\ status["server"] \in Beyond /\ status["client"] \notin Beyond =>
          /\ status["client"] = "WAITING_HANDSHAKE_RESPONSE"
          /\ Len(In("client")) >= 2
          /\ In("client")[1][2] = "start" /\ In("client")[2][2] = "rest"
          /\ In("client")[2][1].code = 101 =>
                key = "proper" /\ In("client")[2][1].accept.key = answer
    /\ status["client"] \in Established => key = "proper" /\ answer = key

(* A step of an end that is through with the handshake: it reads the frame *)
(* of n parts that is first, or nothing, and sends the frames q.           *)
Moves(a, n, q) ==
    /\ status[a] \in Beyond /\ status'[a] \in Beyond
    /\ status'[a] \in Established => status[a] \in Established
    /\ status'[Peer(a)] = status[Peer(a)] /\ key' = key /\ answer' = answer
    /\ \A e \in Ends : IsSeq(buffer'[e]) /\ IsSeq(wire'[e])
    /\ n = 0 \/ (In(a) # << >> /\ n = Size(In(a)[1][1]))
    /\ Stream(q)
    /\ In(a)' = Rest(In(a), n)
    /\ In(Peer(a))' = In(Peer(a)) \o q

LEMMA FirstTwo ==
    ASSUME NEW s, NEW q, IsSeq(s), IsSeq(q), Len(s) >= 2
    PROVE  Len(s \o q) >= 2 /\ (s \o q)[1] = s[1] /\ (s \o q)[2] = s[2]
<1>1. PICK m \in Nat, n \in Nat : m = Len(s) /\ n = Len(q)
    BY LenOfSeq
<1>2. Len(s \o q) = Len(s) + Len(q) /\ \A i \in 1 .. Len(s) : (s \o q)[i] = s[i]
    BY ConcatOfSeqs
<1>3. m + n >= 2 /\ 1 \in 1 .. m /\ 2 \in 1 .. m
    BY <1>1
<1> QED
    BY <1>1, <1>2, <1>3

LEMMA MovesHandshakes ==
    ASSUME Types, AreSeqs, Handshakes, NEW a \in Ends, NEW n, NEW q, Moves(a, n, q)
    PROVE  Handshakes'
<1>1. IsSeq(q)
    BY DEF Moves, Stream
<1>2. CASE a = "client"
    <2>1. Peer(a) = "server"
        BY <1>2 DEF Peer
    <2> QED
        BY <1>2, <2>1 DEF Moves, Handshakes, Beyond, Early, Established
<1>3. CASE a = "server"
    <2>1. Peer(a) = "client" /\ "client" \in Ends
        BY <1>3 DEF Peer, Ends
    <2>2. /\ status["server"] \in Beyond /\ status'["server"] \in Beyond
          /\ status'["client"] = status["client"] /\ key' = key /\ answer' = answer
          /\ In("client")' = In("client") \o q
        BY <1>3, <2>1 DEF Moves
    <2>3. IsSeq(In("client"))
        BY <2>1, InIsSeq
    <2>4. status["client"] # "DETACHED"
        BY <2>2 DEF Handshakes, Beyond
    <2>5. ASSUME status["client"] \notin Beyond
          PROVE  /\ status["client"] = "WAITING_HANDSHAKE_RESPONSE"
                 /\ Len(In("client")') >= 2
                 /\ In("client")'[1][2] = "start" /\ In("client")'[2][2] = "rest"
                 /\ In("client")'[2][1].code = 101 =>
                       key' = "proper" /\ In("client")'[2][1].accept.key = answer'
        <3>1. /\ status["client"] = "WAITING_HANDSHAKE_RESPONSE"
              /\ Len(In("client")) >= 2
              /\ In("client")[1][2] = "start" /\ In("client")[2][2] = "rest"
              /\ In("client")[2][1].code = 101 =>
                    key = "proper" /\ In("client")[2][1].accept.key = answer
            BY <2>2, <2>5 DEF Handshakes
        <3>2. PICK s : s = In("client")
            OBVIOUS
        <3>3. Len(s \o q) >= 2 /\ (s \o q)[1] = s[1] /\ (s \o q)[2] = s[2]
            BY <1>1, <2>3, <3>1, <3>2, FirstTwo
        <3>4. /\ Len(In("client")') >= 2
              /\ In("client")'[1] = In("client")[1] /\ In("client")'[2] = In("client")[2]
            BY <2>2, <3>2, <3>3, Zenon
        <3> QED
            BY <2>2, <3>1, <3>4, Zenon
    <2>6. status'["server"] \notin Early /\ "DETACHED" \in Early
        BY <2>2 DEF Beyond, Early
    <2>7. status'["client"] \in Established => key' = "proper" /\ answer' = key'
        BY <2>2 DEF Handshakes
    <2>8. status'["client"] \in {"DETACHED", "WAITING_HANDSHAKE_RESPONSE"} \cup Beyond
        BY <2>2 DEF Handshakes
    <2>9. status'["server"] \in Early \cup Beyond
        BY <2>2
    <2> QED
        BY <2>2, <2>4, <2>5, <2>6, <2>7, <2>8, <2>9, Zenon DEF Handshakes
<1> QED
    BY <1>2, <1>3 DEF Ends

(* What such a step does to the frames on their way. *)
LEMMA MovesFrames ==
    ASSUME Types, AreSeqs, Handshakes, \A d \in Ends : Stream(Frames(d)),
           NEW a \in Ends, NEW n, NEW q, Moves(a, n, q)
    PROVE  /\ Frames(a) = In(a)
           /\ Frames(a)' = Rest(Frames(a), n)
           /\ Frames(Peer(a))' = Frames(Peer(a)) \o q
           /\ \A d \in Ends : Stream(Frames(d))'
<1>1. Peer(a) \in Ends /\ Peer(a)' = Peer(a) /\ Ends = {a, Peer(a)}
    BY Peers DEF Peer
<1>2. Frames(a) = In(a) /\ Frames(a)' = Rest(Frames(a), n)
    BY Zenon DEF Moves, Frames
<1>3. IsSeq(q) /\ Stream(q)
    BY DEF Moves, Stream
<1>4. Frames(Peer(a))' = Frames(Peer(a)) \o q
    <2>1. CASE status[Peer(a)] \in Beyond
        BY <1>1, <2>1, Zenon DEF Moves, Frames
    <2>2. CASE status[Peer(a)] \notin Beyond
        <3>1. Len(In(Peer(a))) >= 2
            <4>1. CASE a = "server"
                BY <2>2, <4>1 DEF Moves, Handshakes, Peer
            <4>2. CASE a = "client"
                BY <2>2, <4>2 DEF Moves, Handshakes, Peer
            <4> QED
                BY <4>1, <4>2 DEF Ends
        <3>2. PICK s : s = In(Peer(a))
            OBVIOUS
        <3>3. IsSeq(s) /\ 2 \in 0 .. Len(s)
            BY <1>1, <3>1, <3>2, InIsSeq
        <3>4. Rest(s, 2) \o q = Rest(s \o q, 2)
            BY <1>3, <3>3, RestOfConcat
        <3>5. Frames(Peer(a)) = Rest(s, 2)
            BY <2>2, <3>2, Zenon DEF Frames
        <3>6. Frames(Peer(a))' = Rest(s \o q, 2)
            BY <1>1, <2>2, <3>2, Zenon DEF Frames, Moves
        <3> QED
            BY <3>4, <3>5, <3>6
    <2> QED
        BY <2>1, <2>2
<1>5. Stream(Frames(Peer(a)))'
    BY <1>1, <1>3, <1>4, ConcatStream DEF Stream
<1>6. Stream(Frames(a))'
    <2>1. CASE n = 0
        BY <1>2, <2>1, NothingMore DEF Stream
    <2>2. CASE n # 0
        BY <1>2, <2>2, RestStream DEF Moves
    <2> QED
        BY <2>1, <2>2
<1> QED
    BY <1>1, <1>2, <1>4, <1>5, <1>6

-----------------------------------------------------------------------------
(* Frames that are sent are frames. *)

LEMMA FrameIsFrame ==
    ASSUME NEW e, NEW fin, NEW op \in {0, 1, 2, 3, 8, 9, 10},
           op = 1 => fin = FALSE, op # 1 => fin = TRUE, NEW m, Len(m) \in Nat, NEW k
    PROVE  IsFrame(Frame(e, fin, op, m, k)) /\ Frame(e, fin, op, m, k).op = op
<1>1. SizeClass(Len(m)) \in {1, 2, 8}
    BY DEF SizeClass
<1> QED
    BY <1>1 DEF Frame, IsFrame

LEMMA ControlIsFrame ==
    ASSUME NEW e, NEW op \in {3, 8, 9, 10}
    PROVE  IsFrame(Control(e, op)) /\ Control(e, op).op = op
<1>1. Len(<< >>) \in Nat /\ op # 1 /\ op \in {0, 1, 2, 3, 8, 9, 10}
    OBVIOUS
<1> QED
    BY <1>1, FrameIsFrame, ZenonT(40) DEF Control

LEMMA BadIsFrame ==
    ASSUME NEW e \in Ends, NEW f \in BadFrames(e)
    PROVE  IsFrame(f) /\ f.op \in {0, 3, 9}
<1>1. PICK c : c = Control("client", 9)
    OBVIOUS
<1>2. IsFrame(c) /\ c.op = 9
    BY <1>1, ControlIsFrame
<1>3. PICK l, z, k, d : c = [fin |-> TRUE, op |-> 9, rsv |-> FALSE, size |-> z, length |-> l,
                            mask |-> "client" = "client", key |-> k, data |-> d]
    BY <1>1, Zenon DEF Control, Frame
<1>4. f \in {c, [c EXCEPT !.rsv = TRUE], [c EXCEPT !.length = 2], [c EXCEPT !.length = 8],
             [c EXCEPT !.op = 3], [c EXCEPT !.op = 0]}
    BY <1>1, Zenon DEF BadFrames
<1>5. CASE f = c
    BY <1>2, <1>5
<1>6. CASE f = [c EXCEPT !.rsv = TRUE]
    BY <1>2, <1>3, <1>6 DEF IsFrame
<1>7. CASE f = [c EXCEPT !.length = 2]
    BY <1>2, <1>3, <1>7 DEF IsFrame
<1>8. CASE f = [c EXCEPT !.length = 8]
    BY <1>2, <1>3, <1>8 DEF IsFrame
<1>9. CASE f = [c EXCEPT !.op = 3]
    BY <1>2, <1>3, <1>9 DEF IsFrame
<1>10. CASE f = [c EXCEPT !.op = 0]
    BY <1>2, <1>3, <1>10 DEF IsFrame
<1> QED
    BY <1>4, <1>5, <1>6, <1>7, <1>8, <1>9, <1>10

(* The frame that sendMessage sends, r the key it masks with. *)
DataFrame(e, m, k, r) ==
    [Frame(e, TRUE, 2, m, r) EXCEPT !.key = IF e = "client" THEN k ELSE << >>]

LEMMA DataIsFrame ==
    ASSUME NEW e, NEW m, Len(m) \in Nat, NEW k, NEW r
    PROVE  /\ IsFrame(DataFrame(e, m, k, r))
           /\ DataFrame(e, m, k, r).op = 2
           /\ DataFrame(e, m, k, r).mask = (e = "client")
           /\ DataFrame(e, m, k, r).key = (IF e = "client" THEN k ELSE << >>)
           /\ DataFrame(e, m, k, r).data = (IF e = "client" THEN Mask(m, r) ELSE m)
<1>1. SizeClass(Len(m)) \in {1, 2, 8}
    BY DEF SizeClass
<1>2. PICK f, d, l : f = Frame(e, TRUE, 2, m, r) /\ d = f.data /\ l = f.length
    OBVIOUS
<1>3. PICK w : w = f.key
    OBVIOUS
<1>4. /\ f = [fin |-> TRUE, op |-> 2, rsv |-> FALSE, size |-> Len(m), length |-> l,
              mask |-> e = "client", key |-> w, data |-> d]
      /\ l = SizeClass(Len(m)) /\ d = (IF e = "client" THEN Mask(m, r) ELSE m)
    BY <1>2, <1>3 DEF Frame
<1>5. PICK g, v : g = DataFrame(e, m, k, r) /\ v = IF e = "client" THEN k ELSE << >>
    OBVIOUS
<1>6. g = [f EXCEPT !.key = v]
    BY <1>2, <1>5 DEF DataFrame
<1>7. g = [fin |-> TRUE, op |-> 2, rsv |-> FALSE, size |-> Len(m), length |-> l,
           mask |-> e = "client", key |-> v, data |-> d]
    BY <1>4, <1>6
<1> QED
    BY <1>1, <1>4, <1>5, <1>7 DEF IsFrame

(* A whole frame, as readFrame sees it, is in the buffer to its last part. *)
LEMMA WholeFrame ==
    ASSUME AreSeqs, NEW e \in Ends, Stream(In(e)), Verdict(e) = "frame"
    PROVE  /\ In(e) # << >> /\ First(e) = In(e)[1][1]
           /\ IsFrame(First(e))
           /\ Size(First(e)) \in 0 .. Len(buffer[e]) /\ Size(First(e)) # 0
<1>1. PICK n \in Nat : n = Len(buffer[e])
    BY InIsSeq
<1>2. PICK f : f = First(e)
    OBVIOUS
<1>3. buffer[e] # << >>
    BY DEF Verdict
<1>4. n >= 1 /\ 1 \in 1 .. n
    BY <1>1, <1>3, LenOfSeq DEF AreSeqs
<1>5. \A i \in 1 .. n : In(e)[i] = buffer[e][i]
    BY <1>1, InIsSeq
<1>6. In(e) # << >>
    BY <1>1, <1>4, InIsSeq, LenOfSeq
<1>7. f = In(e)[1][1]
    BY <1>2, <1>4, <1>5 DEF First
<1>8. /\ IsFrame(f)
      /\ \A i \in 1 .. Size(f) : In(e)[i][2] = PartNames(f)[i]
    BY <1>6, <1>7, RestStream
<1>9. PICK m \in Nat : m = Size(f) /\ m \in 1 .. 4
    BY SizeOfFrame
<1>10. ASSUME NEW part, Has(e, part)
       PROVE  \E i \in 1 .. m : i <= n /\ PartNames(f)[i] = part
    <2>1. PICK i \in 1 .. n : i <= m /\ buffer[e][i][2] = part
        BY <1>1, <1>2, <1>9, <1>10 DEF Has, Size
    <2>2. i \in 1 .. m /\ i <= n
        BY <1>9, <2>1
    <2> QED
        BY <1>5, <1>8, <1>9, <2>1, <2>2
<1>11. f.size \in Nat /\ f.length \in {1, 2, 8}
    BY <1>8 DEF IsFrame
<1>12. /\ f.length > 1 => Has(e, "length")
       /\ f.mask => Has(e, "key")
       /\ f.size > 0 => Has(e, "data")
    BY <1>2, <1>3 DEF Verdict
<1>13. m <= n
    <2>1. CASE f.size # 0
        <3>1. f.size > 0
            BY <1>11, <2>1
        <3>2. PICK i \in 1 .. m : i <= n /\ PartNames(f)[i] = "data"
            BY <1>10, <1>12, <3>1
        <3>3. i = m
            BY <1>9, <2>1, <3>2, NamesOfParts
        <3> QED
            BY <3>2, <3>3
    <2>2. CASE f.size = 0 /\ f.mask
        <3>1. PICK i \in 1 .. m : i <= n /\ PartNames(f)[i] = "key"
            BY <1>10, <1>12, <2>2
        <3>2. i = m
            BY <1>9, <2>2, <3>1, NamesOfParts
        <3> QED
            BY <3>1, <3>2
    <2>3. CASE f.size = 0 /\ ~ f.mask /\ f.length # 1
        <3>1. f.length > 1
            BY <1>11, <2>3
        <3>2. PICK i \in 1 .. m : i <= n /\ PartNames(f)[i] = "length"
            BY <1>10, <1>12, <3>1
        <3>3. i = m
            BY <1>9, <2>3, <3>2, NamesOfParts
        <3> QED
            BY <3>2, <3>3
    <2>4. CASE f.size = 0 /\ ~ f.mask /\ f.length = 1
        <3>1. m = 1
            BY <1>9, <2>4, NamesOfParts
        <3> QED
            BY <1>4, <3>1
    <2> QED
        BY <2>1, <2>2, <2>3, <2>4
<1>14. m \in 0 .. n /\ m # 0
    BY <1>9, <1>13
<1> QED
    BY <1>1, <1>2, <1>6, <1>7, <1>8, <1>9, <1>14

-----------------------------------------------------------------------------
(* The steps and the frames they read and send. *)

Linked == Types /\ AreSeqs /\ Handshakes /\ \A d \in Ends : Stream(Frames(d))

(* The frames q are sent, or there are none. *)
Sends(e, q) == (q = << >> /\ wire' = wire) \/ Output(e, q)

LEMMA SendsAppends ==
    ASSUME Types, AreSeqs, NEW e \in Ends, NEW q, Stream(q), Sends(e, q)
    PROVE  /\ IsSeq(wire'[e]) /\ IsSeq(wire'[Peer(e)])
           /\ wire'[e] = wire[e]
           /\ buffer'[Peer(e)] = buffer[Peer(e)] => In(Peer(e))' = In(Peer(e)) \o q
<1>1. Peer(e) \in Ends /\ Peer(e)' = Peer(e)
    BY Peers DEF Peer
<1>2. CASE q = << >> /\ wire' = wire
    <2>1. In(Peer(e)) \o q = In(Peer(e))
        BY <1>1, <1>2, InIsSeq, NothingMore
    <2>2. buffer'[Peer(e)] = buffer[Peer(e)] => In(Peer(e))' = In(Peer(e))
        BY <1>1, <1>2, Zenon DEF In
    <2> QED
        BY <1>1, <1>2, <2>1, <2>2 DEF AreSeqs
<1>3. CASE Output(e, q)
    BY <1>3, OutputAppends DEF Stream
<1> QED
    BY <1>2, <1>3 DEF Sends

(* A frame is read. *)
LEMMA FrameRead ==
    ASSUME Linked, NEW e \in Ends, NEW fin, ReadFrame(e, fin),
           status'[e] \in Beyond, status'[Peer(e)] = status[Peer(e)],
           NEW q, Stream(q), Sends(e, q)
    PROVE  /\ In(e) # << >> /\ First(e) = In(e)[1][1] /\ IsFrame(First(e))
           /\ First(e).fin = fin
           /\ Moves(e, Size(First(e)), q)
<1>1. status[e] = "CONNECTED" /\ Verdict(e) = "frame" /\ First(e).fin = fin
    BY DEF ReadFrame, Handler
<1>2. Types /\ AreSeqs /\ Stream(Frames(e))
    BY DEF Linked
<1>3. Stream(In(e))
    BY <1>1, <1>2 DEF Frames, Beyond
<1>4. /\ In(e) # << >> /\ First(e) = In(e)[1][1] /\ IsFrame(First(e))
      /\ Size(First(e)) \in 0 .. Len(buffer[e])
    BY <1>1, <1>2, <1>3, WholeFrame
<1>5. PICK n \in 0 .. Len(buffer[e]) : n = Size(First(e))
    BY <1>4
<1>6. Read(e, n)
    BY <1>5 DEF ReadFrame, Size
<1>7. IsSeq(wire'[e]) /\ IsSeq(wire'[Peer(e)]) /\ wire'[e] = wire[e]
    BY <1>2, SendsAppends
<1>8. IsSeq(buffer'[e]) /\ In(e)' = Rest(In(e), n) /\ buffer'[Peer(e)] = buffer[Peer(e)]
    BY <1>2, <1>6, <1>7, ReadDrops
<1>9. In(Peer(e))' = In(Peer(e)) \o q
    BY <1>2, <1>8, SendsAppends
<1>10. Peer(e) \in Ends /\ Ends = {e, Peer(e)} /\ IsSeq(buffer[Peer(e)])
    BY <1>2, Peers DEF AreSeqs
<1>11. \A d \in Ends : IsSeq(buffer'[d]) /\ IsSeq(wire'[d])
    BY <1>7, <1>8, <1>10
<1>12. status[e] \in Beyond /\ status[e] \in Established /\ key' = key /\ answer' = answer
    BY <1>1 DEF Beyond, Established, ReadFrame
<1>13. Moves(e, n, q)
    BY <1>4, <1>5, <1>8, <1>9, <1>11, <1>12 DEF Moves
<1> QED
    BY <1>1, <1>4, <1>5, <1>13

(* No frame is read. *)
LEMMA FramesSent ==
    ASSUME Linked, NEW e \in Ends, buffer' = buffer, key' = key /\ answer' = answer,
           status[e] \in Beyond, status'[e] \in Beyond,
           status'[e] \in Established => status[e] \in Established,
           status'[Peer(e)] = status[Peer(e)],
           NEW q, Stream(q), Sends(e, q)
    PROVE  Moves(e, 0, q)
<1>1. Types /\ AreSeqs
    BY DEF Linked
<1>2. /\ IsSeq(wire'[e]) /\ IsSeq(wire'[Peer(e)]) /\ wire'[e] = wire[e]
      /\ In(Peer(e))' = In(Peer(e)) \o q
    BY <1>1, SendsAppends
<1>3. In(e)' = In(e)
    BY <1>2, Zenon DEF In
<1>4. In(e)' = Rest(In(e), 0)
    BY <1>1, <1>3, InIsSeq, NothingMore
<1>5. Peer(e) \in Ends /\ Ends = {e, Peer(e)}
    BY Peers
<1>6. \A d \in Ends : IsSeq(buffer'[d]) /\ IsSeq(wire'[d])
    BY <1>1, <1>2, <1>5 DEF AreSeqs
<1> QED
    BY <1>2, <1>4, <1>6 DEF Moves

(* sendControl sends a frame, or nothing. *)
LEMMA ControlSent ==
    ASSUME Types, NEW e \in Ends, NEW op \in {8, 9, 10}, sendControl(e, op)
    PROVE  \E q : /\ Stream(q) /\ Sends(e, q)
                  /\ \/ q = << >> /\ close_frame_sent' = close_frame_sent
                     \/ /\ ~ close_frame_sent[e] /\ q = Parts(Control(e, op))
                        /\ close_frame_sent' = [close_frame_sent EXCEPT ![e] = (op = 8)]
<1>1. CASE close_frame_sent[e]
    <2>1. wire' = wire /\ close_frame_sent' = close_frame_sent
        BY <1>1 DEF sendControl
    <2> WITNESS << >>
    <2> QED
        BY <2>1, EmptyStream DEF Sends
<1>2. CASE ~ close_frame_sent[e]
    <2>1. PICK q : q = Parts(Control(e, op))
        OBVIOUS
    <2>2. Stream(q)
        BY <2>1, ControlIsFrame, PartsAreStream
    <2>3. Output(e, q) /\ close_frame_sent' = [close_frame_sent EXCEPT ![e] = (op = 8)]
        BY <1>2, <2>1 DEF sendControl
    <2> WITNESS q
    <2> QED
        BY <1>2, <2>1, <2>2, <2>3 DEF Sends
<1> QED
    BY <1>1, <1>2

-----------------------------------------------------------------------------
(* The steps of the handshake leave the frames alone. *)

Quiet == AreSeqs' /\ Handshakes' /\ \A d \in Ends : Frames(d)' = Frames(d)

LEMMA TwoParts ==
    ASSUME NEW p, NEW q
    PROVE  /\ IsSeq(<<p, q>>) /\ Len(<<p, q>>) = 2
           /\ Rest(<<p, q>>, 2) = << >> /\ Rest(<< >>, 2) = << >>
           /\ IsSeq(<< >>) /\ << >> \o <<p, q>> = <<p, q>>
<1>1. PICK s : s = <<p, q>>
    OBVIOUS
<1>2. s \in Seq({p, q}) /\ Len(s) = 2
    BY <1>1
<1>3. IsSeq(s)
    BY <1>2, SeqIsSeq
<1>4. Rest(s, 2) = << >>
    <2>1. 2 \in 0 .. Len(s) /\ Len(s) - 2 = 0
        BY <1>2
    <2>2. IsSeq(Rest(s, 2)) /\ Len(Rest(s, 2)) = 0
        BY <1>3, <2>1, RestOfSeq
    <2> QED
        BY <2>2, LenOfSeq
<1>5. << >> \in Seq({p, q}) /\ Len(<< >>) = 0
    OBVIOUS
<1>6. Rest(<< >>, 2) = << >>
    <2>1. \A i \in 2 + 1 .. 0 : << >>[i] \in {p, q}
        OBVIOUS
    <2>2. 2 + 1 \in Int /\ 0 \in Int /\ ~(2 + 1 <= 0)
        OBVIOUS
    <2>3. /\ SubSeq(<< >>, 2 + 1, 0) \in Seq({p, q})
          /\ Len(SubSeq(<< >>, 2 + 1, 0)) =
                IF 2 + 1 <= 0 THEN 0 - (2 + 1) + 1 ELSE 0
        BY <2>1, <2>2, SubSeqProperties
    <2>4. Len(SubSeq(<< >>, 2 + 1, 0)) = 0
        BY <2>2, <2>3
    <2>5. SubSeq(<< >>, 2 + 1, 0) = << >>
        BY <2>3, <2>4, EmptySeq
    <2> QED
        BY <1>5, <2>5 DEF Rest
<1>7. << >> \o s = s
    BY <1>2, ConcatEmptySeq
<1>8. IsSeq(<< >>)
    BY <1>5, SeqIsSeq
<1> QED
    BY <1>1, <1>2, <1>3, <1>4, <1>6, <1>7, <1>8

LEMMA QuietSteps ==
    ASSUME Linked, status' = status, key' = key /\ answer' = answer, AreSeqs',
           \A d \in Ends : In(d)' = In(d)
    PROVE  Quiet
<1>1. In("client")' = In("client") /\ In("server")' = In("server")
    BY DEF Ends
<1>2. Handshakes'
    BY <1>1, Zenon DEF Handshakes, Linked
<1>3. \A d \in Ends : Frames(d)' = Frames(d)
    BY Zenon DEF Frames
<1> QED
    BY <1>2, <1>3 DEF Quiet

LEMMA StartClient ==
    ASSUME Linked, NEW k, startAsClient(k)
    PROVE  Quiet
<1>1. Types /\ AreSeqs /\ Handshakes
    BY DEF Linked
<1>2. /\ "client" \in Ends /\ "server" \in Ends /\ Ends = {"client", "server"}
      /\ Peer("client") = "server" /\ Peer("client")' = "server"
    BY DEF Ends, Peer
<1>3. /\ status["client"] = "DETACHED" /\ key' = k
      /\ status' = [status EXCEPT !["client"] = "WAITING_HANDSHAKE_RESPONSE"]
      /\ Output("client", Request(k)) /\ buffer' = buffer
    BY DEF startAsClient, Request
<1>4. status'["client"] = "WAITING_HANDSHAKE_RESPONSE" /\ status'["server"] = status["server"]
    BY <1>1, <1>2, <1>3 DEF Types
<1>5. status["server"] \in Early /\ In("server") = << >> /\ In("client") = << >>
    BY <1>1, <1>3 DEF Handshakes, Beyond, Early
<1>6. /\ IsSeq(Request(k)) /\ Rest(Request(k), 2) = << >> /\ Rest(<< >>, 2) = << >>
      /\ << >> \o Request(k) = Request(k)
    BY TwoParts DEF Request
<1>7. /\ IsSeq(wire'["client"]) /\ IsSeq(wire'["server"]) /\ wire'["client"] = wire["client"]
      /\ In("server")' = In("server") \o Request(k)
    BY <1>1, <1>2, <1>3, <1>6, OutputAppends
<1>8. In("server")' = Request(k)
    BY <1>5, <1>6, <1>7
<1>9. In("client")' = << >>
    BY <1>3, <1>5, <1>7, Zenon DEF In
<1>10. AreSeqs'
    BY <1>1, <1>2, <1>3, <1>7 DEF AreSeqs
<1>11. Handshakes'
    BY <1>3, <1>4, <1>5, <1>8, <1>9 DEF Handshakes, Beyond, Early, Established
<1>12. Frames("client")' = Frames("client") /\ Frames("server")' = Frames("server")
    <2>1. /\ status["client"] \notin Beyond /\ status'["client"] \notin Beyond
          /\ status["server"] \notin Beyond /\ status'["server"] \notin Beyond
        BY <1>3, <1>4, <1>5 DEF Beyond, Early
    <2> QED
        BY <1>5, <1>6, <1>8, <1>9, <2>1, Zenon DEF Frames
<1> QED
    BY <1>2, <1>10, <1>11, <1>12 DEF Quiet

LEMMA StartServer ==
    ASSUME Linked, startAsServer
    PROVE  Quiet
<1>1. Types /\ AreSeqs /\ Handshakes
    BY DEF Linked
<1>2. /\ "client" \in Ends /\ "server" \in Ends /\ Ends = {"client", "server"}
    BY DEF Ends
<1>3. /\ status["server"] = "DETACHED" /\ key' = key /\ answer' = answer
      /\ status' = [status EXCEPT !["server"] = "WAITING_HANDSHAKE_REQUEST"]
      /\ buffer' = buffer /\ wire' = wire
    BY DEF startAsServer
<1>4. status'["server"] = "WAITING_HANDSHAKE_REQUEST" /\ status'["client"] = status["client"]
    BY <1>1, <1>2, <1>3 DEF Types
<1>5. \A d \in Ends : In(d)' = In(d)
    BY <1>3, Zenon DEF In
<1>6. In("client")' = In("client") /\ In("server")' = In("server")
    BY <1>2, <1>5
<1>7. AreSeqs'
    BY <1>1, <1>3 DEF AreSeqs
<1>8. Handshakes'
    BY <1>1, <1>3, <1>4, <1>6 DEF Handshakes, Beyond, Early
<1>9. \A d \in Ends : status'[d] \in Beyond <=> status[d] \in Beyond
    BY <1>2, <1>3, <1>4 DEF Beyond
<1>10. \A d \in Ends : Frames(d)' = Frames(d)
    BY <1>5, <1>9, Zenon DEF Frames
<1> QED
    BY <1>7, <1>8, <1>10 DEF Quiet

LEMMA ReadRequest ==
    ASSUME Linked, readHandshakeRequest
    PROVE  Quiet
<1>1. Types /\ AreSeqs /\ Handshakes
    BY DEF Linked
<1>2. /\ "client" \in Ends /\ "server" \in Ends /\ Ends = {"client", "server"}
      /\ Peer("server") = "client" /\ Peer("server")' = "client"
    BY DEF Ends, Peer
<1>3. /\ status["server"] = "WAITING_HANDSHAKE_REQUEST" /\ key' = key
      /\ Len(buffer["server"]) >= 2 /\ Read("server", 2)
    BY DEF readHandshakeRequest, Handler
<1>4. PICK k : k = buffer["server"][2][1]
    OBVIOUS
<1> DEFINE Gives(s, c, a) ==
               /\ s \in {"CONNECTED", "PENDING_ERROR"} /\ c \in {101, 400}
               /\ status' = [status EXCEPT !["server"] = s]
               /\ Output("server", Response(c, a))
               /\ c = 101 => checkHandshakeRequestValid(k)
               /\ c = 101 => answer' = a.key
<1>0. \E s, c, a : Gives(s, c, a)
    <2>1. CASE checkHandshakeRequestValid(k)
        <3>1. PICK a \in Answers(k) :
                 /\ status' = [status EXCEPT !["server"] = "CONNECTED"]
                 /\ Output("server", Response(101, a)) /\ answer' = a.key
            BY <1>4, <2>1, Zenon DEF readHandshakeRequest
        <3>2. Gives("CONNECTED", 101, a)
            BY <2>1, <3>1
        <3> HIDE DEF Gives
        <3> QED
            BY <3>2, Zenon
    <2>2. CASE ~ checkHandshakeRequestValid(k)
        <3>1. /\ status' = [status EXCEPT !["server"] = "PENDING_ERROR"]
              /\ Output("server", Response(400, Accept("none")))
            BY <1>4, <2>2, Zenon DEF readHandshakeRequest, Error
        <3>2. Gives("PENDING_ERROR", 400, Accept("none"))
            BY <3>1
        <3> HIDE DEF Gives
        <3> QED
            BY <3>2, Zenon
    <2> QED
        BY <2>1, <2>2
<1>5. PICK s, c, a : Gives(s, c, a)
    BY <1>0
<1>6. /\ status'["server"] = s /\ status'["client"] = status["client"]
      /\ status["server"] \in Early /\ s \in Beyond /\ s \notin Early
    BY <1>1, <1>2, <1>3, <1>5 DEF Types, Beyond, Early
<1>7. In("server") # << >> /\ 2 \in 1 .. Len(buffer["server"])
    BY <1>1, <1>2, <1>3, InIsSeq, LenOfSeq
<1>8. /\ In("client") = << >> /\ In("server") = Request(key)
      /\ status["client"] = "WAITING_HANDSHAKE_RESPONSE"
    BY <1>1, <1>6, <1>7 DEF Handshakes
<1>9. k = key
    <2>1. buffer["server"][2] = In("server")[2]
        BY <1>1, <1>2, <1>7, InIsSeq
    <2>2. In("server")[2][1] = key
        BY <1>8 DEF Request
    <2> QED
        BY <1>4, <2>1, <2>2
<1>10. c = 101 => key = "proper"
    BY <1>5, <1>9 DEF checkHandshakeRequestValid, KeySize
<1>11. PICK r : r = Response(c, a)
    OBVIOUS
<1>12. /\ IsSeq(r) /\ Len(r) = 2 /\ Rest(r, 2) = << >>
       /\ << >> \o r = r /\ Rest(<< >>, 2) = << >>
    BY <1>11, TwoParts DEF Response
<1>13. /\ IsSeq(wire'["client"]) /\ IsSeq(wire'["server"]) /\ wire'["server"] = wire["server"]
       /\ buffer'["client"] = buffer["client"] =>
              In("client")' = In("client") \o r
    <2>1. Output("server", r)
        BY <1>5, <1>11
    <2> QED
        BY <1>1, <1>2, <1>12, <2>1, OutputAppends
<1>14. /\ IsSeq(buffer'["server"]) /\ buffer'["client"] = buffer["client"]
       /\ In("server")' = Rest(In("server"), 2)
    <2>1. 2 \in 0 .. Len(buffer["server"])
        BY <1>7
    <2> QED
        BY <1>1, <1>2, <1>3, <1>13, <2>1, ReadDrops
<1>15. In("client")' = r
    BY <1>8, <1>12, <1>13, <1>14
<1>16. In("server")' = << >>
    BY <1>8, <1>14, TwoParts DEF Request
<1>17. AreSeqs'
    BY <1>1, <1>2, <1>13, <1>14 DEF AreSeqs
<1>18. /\ r[1][2] = "start" /\ r[2][2] = "rest"
       /\ r[2][1].code = c /\ r[2][1].accept = a
    BY <1>11 DEF Response
<1>19. Handshakes'
    <2>1. /\ Len(In("client")') >= 2
          /\ In("client")'[1][2] = "start" /\ In("client")'[2][2] = "rest"
          /\ In("client")'[2][1].code = 101 =>
                       key' = "proper" /\ In("client")'[2][1].accept.key = answer'
        BY <1>3, <1>5, <1>10, <1>12, <1>15, <1>18
    <2> QED
        BY <1>6, <1>8, <2>1 DEF Handshakes, Beyond, Early, Established
<1>20. Frames("client")' = Frames("client")
    <2>1. status["client"] \notin Beyond
        BY <1>8 DEF Beyond
    <2> QED
        BY <1>6, <1>8, <1>15, <1>12, <2>1, Zenon DEF Frames
<1>21. Frames("server")' = Frames("server")
    <2>1. status["server"] \notin Beyond
        BY <1>3 DEF Beyond
    <2> QED
        BY <1>6, <1>14, <2>1, Zenon DEF Frames
<1> QED
    BY <1>2, <1>17, <1>19, <1>20, <1>21 DEF Quiet

LEMMA ReadResponse ==
    ASSUME Linked, readHandshakeResponse
    PROVE  Quiet
<1>1. Types /\ AreSeqs /\ Handshakes
    BY DEF Linked
<1>2. /\ "client" \in Ends /\ "server" \in Ends /\ Ends = {"client", "server"}
      /\ Peer("client") = "server"
    BY DEF Ends, Peer
<1>3. /\ status["client"] = "WAITING_HANDSHAKE_RESPONSE" /\ key' = key /\ answer' = answer /\ wire' = wire
      /\ Len(buffer["client"]) >= 2 /\ Read("client", 2)
    BY DEF readHandshakeResponse, Handler
<1>4. PICK s \in {"CONNECTED", "PENDING_ERROR"} :
          /\ status' = [status EXCEPT !["client"] = s]
          /\ s = "CONNECTED" => checkHandshakeResponseValid(buffer["client"][2][1])
    <2>1. CASE checkHandshakeResponseValid(buffer["client"][2][1])
        BY <2>1, Zenon DEF readHandshakeResponse
    <2>2. CASE ~ checkHandshakeResponseValid(buffer["client"][2][1])
        <3>1. status' = [status EXCEPT !["client"] = "PENDING_ERROR"]
            BY <2>2, Zenon DEF readHandshakeResponse, Error
        <3>2. "PENDING_ERROR" # "CONNECTED"
            OBVIOUS
        <3> QED
            BY <3>1, <3>2
    <2> QED
        BY <2>1, <2>2
<1>5. /\ status'["client"] = s /\ status'["server"] = status["server"]
      /\ s \in Beyond
    BY <1>1, <1>2, <1>4 DEF Types, Beyond
<1>6. In("client") # << >> /\ 2 \in 1 .. Len(buffer["client"])
    BY <1>1, <1>2, <1>3, InIsSeq, LenOfSeq
<1>7. /\ status["server"] \in Beyond
      /\ In("client")[2][1].code = 101 =>
            key = "proper" /\ In("client")[2][1].accept.key = answer
    BY <1>1, <1>3, <1>6 DEF Handshakes, Beyond
<1>8. buffer["client"][2] = In("client")[2]
    BY <1>1, <1>2, <1>6, InIsSeq
<1>9. s = "CONNECTED" => key = "proper" /\ answer = key
    BY <1>4, <1>7, <1>8 DEF checkHandshakeResponseValid
<1>10. /\ IsSeq(buffer'["client"]) /\ buffer'["server"] = buffer["server"]
       /\ In("client")' = Rest(In("client"), 2)
    <2>1. 2 \in 0 .. Len(buffer["client"])
        BY <1>6
    <2> QED
        BY <1>1, <1>2, <1>3, <2>1, ReadDrops
<1>11. In("server")' = In("server")
    BY <1>3, <1>10, Zenon DEF In
<1>12. AreSeqs'
    BY <1>1, <1>2, <1>3, <1>10 DEF AreSeqs
<1>13. Handshakes'
    BY <1>3, <1>4, <1>5, <1>7, <1>9, <1>11 DEF Handshakes, Beyond, Early, Established
<1>14. Frames("client")' = Frames("client")
    <2>1. status["client"] \notin Beyond
        BY <1>3 DEF Beyond
    <2> QED
        BY <1>5, <1>10, <2>1, Zenon DEF Frames
<1>15. Frames("server")' = Frames("server")
    BY <1>5, <1>11, Zenon DEF Frames
<1> QED
    BY <1>2, <1>12, <1>13, <1>14, <1>15 DEF Quiet

-----------------------------------------------------------------------------
(* Payloads. *)

(* What the receiver takes from a frame. *)
Payload(f) == IF f.mask THEN Mask(f.data, f.key) ELSE f.data

(* What an application of end e gets for the message m: m, or as long.     *)
Agrees(e, x, m) == x = m \/ (e = "server" /\ Len(m) > Room /\ Len(x) = Len(m))

LEMMA MaskLength ==
    ASSUME NEW m, Len(m) \in Nat, NEW k
    PROVE  IsSeq(Mask(m, k)) /\ Len(Mask(m, k)) = Len(m)
<1>1. PICK s : s = Mask(m, k)
    OBVIOUS
<1>2. s = [i \in 1 .. Len(m) |-> s[i]]
    BY <1>1 DEF Mask
<1>3. IsSeq(s) /\ Len(s) = Len(m)
    BY <1>2, FunctionIsSeq
<1> QED
    BY <1>1, <1>3

(* Masking twice with the same key is masking not at all. *)
LEMMA MaskTwice ==
    ASSUME NEW m \in Seq({0, 1}), NEW k \in [1 .. 4 -> {0, 1}]
    PROVE  Mask(Mask(m, k), k) = m
<1>1. IsSeq(m) /\ Len(m) \in Nat
    BY SeqIsSeq
<1>2. PICK s, t : s = Mask(m, k) /\ t = Mask(s, k)
    OBVIOUS
<1>3. PICK n \in Nat : n = Len(m)
    BY <1>1
<1>4. IsSeq(s) /\ Len(s) = n
    BY <1>2, <1>3, MaskLength
<1>5. IsSeq(t) /\ Len(t) = n
    BY <1>2, <1>3, <1>4, MaskLength
<1>6. ASSUME NEW i \in 1 .. n
      PROVE  t[i] = m[i]
    <2>1. PICK j \in 1 .. 4 : j = ((i - 1) % 4) + 1
        BY <1>6
    <2>2. s[i] = (m[i] + k[j]) % 2
        BY <1>2, <1>3, <2>1 DEF Mask
    <2>3. t[i] = (s[i] + k[j]) % 2
        BY <1>2, <1>4, <2>1 DEF Mask
    <2>4. PICK a \in {0, 1}, b \in {0, 1} : a = m[i] /\ b = k[j]
        BY <1>3, ElementOfSeq
    <2>5. (((a + b) % 2) + b) % 2 = a
        <3>1. 0 % 2 = 0 /\ 1 % 2 = 1 /\ 2 % 2 = 0
            OBVIOUS
        <3> QED
            BY <2>4, <3>1, SMTT(30)
    <2> QED
        BY <2>2, <2>3, <2>4, <2>5
<1>7. t = m
    BY <1>1, <1>3, <1>5, <1>6, EqualSeqs
<1> QED
    BY <1>2, <1>7

(* sendMessage: only a key read from freed memory changes the message. *)
LEMMA DataPayload ==
    ASSUME NEW e \in Ends, NEW m \in Payloads, NEW k \in Keys, NEW r \in KeyRead(e, k, m)
    PROVE  /\ IsSeq(Payload(DataFrame(e, m, k, r)))
           /\ Agrees(Peer(e), Payload(DataFrame(e, m, k, r)), m)
<1>1. m \in Seq({0, 1}) /\ k \in [1 .. 4 -> {0, 1}] /\ Room \in Nat
    BY MessageAssumption
<1>2. IsSeq(m) /\ Len(m) \in Nat
    BY <1>1, SeqIsSeq
<1>3. PICK f : f = DataFrame(e, m, k, r)
    OBVIOUS
<1>4. /\ f.mask = (e = "client")
      /\ f.key = (IF e = "client" THEN k ELSE << >>)
      /\ f.data = (IF e = "client" THEN Mask(m, r) ELSE m)
    BY <1>2, <1>3, DataIsFrame
<1>5. CASE e = "client"
    <2>1. Payload(f) = Mask(Mask(m, r), k)
        BY <1>4, <1>5, Zenon DEF Payload
    <2>2. CASE Len(m) > Room
        <3>1. Len(Mask(m, r)) = Len(m)
            BY <1>2, MaskLength
        <3>2. IsSeq(Mask(Mask(m, r), k)) /\ Len(Mask(Mask(m, r), k)) = Len(m)
            BY <1>2, <3>1, MaskLength
        <3> QED
            BY <1>3, <1>5, <2>1, <2>2, <3>2 DEF Agrees, Peer
    <2>3. CASE ~(Len(m) > Room)
        <3>1. r = k
            BY <2>3 DEF KeyRead
        <3> QED
            BY <1>1, <1>2, <1>3, <2>1, <3>1, MaskTwice DEF Agrees
    <2> QED
        BY <2>2, <2>3
<1>6. CASE e # "client"
    <2>1. Payload(f) = m
        BY <1>4, <1>6, Zenon DEF Payload
    <2> QED
        BY <1>2, <1>3, <2>1 DEF Agrees
<1> QED
    BY <1>5, <1>6

(* A frame of a client carries its message. *)
LEMMA ClientPayload ==
    ASSUME NEW m \in Seq({0, 1}), NEW k \in [1 .. 4 -> {0, 1}], NEW fin, NEW op
    PROVE  Payload(Frame("client", fin, op, m, k)) = m
<1>1. PICK f : f = Frame("client", fin, op, m, k)
    OBVIOUS
<1>2. f.mask = ("client" = "client") /\ f.key = k /\ f.data = Mask(m, k)
    BY <1>1 DEF Frame
<1>3. Payload(f) = Mask(Mask(m, k), k)
    BY <1>2 DEF Payload
<1> QED
    BY <1>1, <1>3, MaskTwice

(* The two fragments make the message. *)
LEMMA TwoFragments ==
    ASSUME NEW m \in Seq({0, 1}), NEW i \in 0 .. Len(m)
    PROVE  /\ SubSeq(m, 1, i) \in Seq({0, 1})
           /\ SubSeq(m, i + 1, Len(m)) \in Seq({0, 1})
           /\ SubSeq(m, 1, i) \o SubSeq(m, i + 1, Len(m)) = m
<1>1. PICK n \in Nat : n = Len(m) /\ i \in 0 .. n
    BY LenProperties
<1>2. \A j \in 1 .. n : m[j] \in {0, 1}
    BY <1>1, ElementOfSeq
<1>3. /\ \A j \in 1 .. i : j \in 1 .. n
      /\ \A j \in i + 1 .. n : j \in 1 .. n
      /\ 1 \in Int /\ i \in Int /\ i + 1 \in Int /\ n \in Int
    BY <1>1
<1>4. \A j \in 1 .. i : m[j] \in {0, 1}
    BY <1>2, <1>3
<1>5. \A j \in i + 1 .. n : m[j] \in {0, 1}
    BY <1>2, <1>3
<1>6. SubSeq(m, 1, i) \in Seq({0, 1})
    BY <1>3, <1>4, SubSeqProperties
<1>7. SubSeq(m, i + 1, n) \in Seq({0, 1})
    BY <1>3, <1>5, SubSeqProperties
<1>8. PICK a, z, s : a = SubSeq(m, 1, i) /\ z = Rest(m, i) /\ s = << >>
    OBVIOUS
<1>9. << >> \in Seq({0, 1})
    OBVIOUS
<1>10. IsSeq(s) /\ IsSeq(m)
    BY <1>8, <1>9, SeqIsSeq
<1>11. (s \o a) \o z = s \o m
    BY <1>8, <1>10, MovedElements
<1>12. s \o a = a /\ s \o m = m
    BY <1>6, <1>8, ConcatEmptySeq
<1> QED
    BY <1>1, <1>6, <1>7, <1>8, <1>11, <1>12 DEF Rest

-----------------------------------------------------------------------------
(* All steps.  A step of end a takes from what is on its way to a and puts *)
(* something on its way to the other end, or is one of the handshake.      *)

Over == {"CLOSED", "PENDING_ERROR"}

Retrieving == \A e \in Ends : pc[e] = "retrieve" <=> status[e] = "FINISHED"

Puts(a, q) ==
    \/ /\ q = << >>
       /\ sent'[a] = sent[a] /\ close_frame_sent'[a] = close_frame_sent[a]
    \/ /\ ~ close_frame_sent[a]
       /\ \E f : /\ IsFrame(f) /\ q = Parts(f) /\ f.op \notin {1, 2}
                 /\ sent'[a] = sent[a] /\ (f.op = 8 => close_frame_sent'[a])
    \/ /\ ~ close_frame_sent[a]
       /\ \E f, m : /\ IsFrame(f) /\ q = Parts(f) /\ f.op = 2
                    /\ sent'[a] = Append(sent[a], m)
                    /\ IsSeq(Payload(f)) /\ Agrees(Peer(a), Payload(f), m)
    \/ /\ ~ close_frame_sent[a]
       /\ \E f, g, m : /\ IsFrame(f) /\ IsFrame(g) /\ q = Parts(f) \o Parts(g)
                       /\ f.op = 1 /\ g.op = 0
                       /\ sent'[a] = Append(sent[a], m)
                       /\ IsSeq(Payload(f)) /\ Payload(f) \o Payload(g) = m

(* A whole frame f is taken. *)
TakesFrame(a, f) ==
    \/ status'[a] \in Over
    \/ /\ f.op = 1 /\ status'[a] = "CONNECTED" /\ last_op_code'[a] = 1
       /\ message'[a] = message[a] \o Payload(f)
    \/ /\ f.op = 2 /\ status'[a] = "FINISHED" /\ last_op_code'[a] = last_op_code[a]
       /\ message'[a] = message[a] \o Payload(f)
    \/ /\ f.op = 0 /\ last_op_code[a] \in {1, 2}
       /\ status'[a] = "FINISHED" /\ last_op_code'[a] = -1
       /\ message'[a] = message[a] \o Payload(f)
    \/ /\ f.op \in {9, 10} /\ status'[a] = "CONNECTED"
       /\ last_op_code'[a] = last_op_code[a] /\ message'[a] = << >>
    \/ /\ f.op = 0 /\ last_op_code[a] \in {9, 10}

Takes(a, n) ==
    \/ n = 0 /\ status'[a] = "PENDING_ERROR" /\ got'[a] = got[a]
    \/ /\ n = 0 /\ status'[a] = status[a] /\ got'[a] = got[a]
       /\ message'[a] = message[a] /\ last_op_code'[a] = last_op_code[a]
    \/ /\ n = 0 /\ status[a] = "FINISHED" /\ status'[a] = "CONNECTED"
       /\ got'[a] = Append(got[a], message[a])
       /\ message'[a] = << >> /\ last_op_code'[a] = last_op_code[a]
    \/ /\ In(a) # << >> /\ n = Size(In(a)[1][1])
       /\ status[a] = "CONNECTED" /\ got'[a] = got[a]
       /\ TakesFrame(a, In(a)[1][1])

Others(e) ==
    /\ sent'[e] = sent[e] /\ close_frame_sent'[e] = close_frame_sent[e]
    /\ got'[e] = got[e]
    /\ message'[e] = message[e] /\ last_op_code'[e] = last_op_code[e]

Stays ==
    /\ UNCHANGED <<close_frame_sent, last_op_code, message, sent, got>>
    /\ \A e \in Ends : /\ status'[e] = "FINISHED" <=> status[e] = "FINISHED"
                       /\ status[e] \in Over => status'[e] \in Over

Step(a, n, q) == Moves(a, n, q) /\ Takes(a, n) /\ Puts(a, q) /\ Others(Peer(a))

(* The opcode a frame leaves. *)
LEMMA LastOpCode ==
    ASSUME Types, NEW e \in Ends, NEW fin, ReadFrame(e, fin), NEW f, f = First(e)
    PROVE  /\ fin = FALSE /\ f.op = 1 => last_op_code'[e] = 1
           /\ fin = TRUE /\ f.op = 0 => last_op_code'[e] = -1
           /\ fin = TRUE /\ f.op # 0 => last_op_code'[e] = last_op_code[e]
           /\ last_op_code'[Peer(e)] = last_op_code[Peer(e)]
<1>1. PICK v : v = CASE fin /\ f.op = 0 -> -1
                     [] ~ fin /\ f.op # 0 -> f.op
                     [] OTHER -> last_op_code[e]
    OBVIOUS
<1>2. last_op_code' = [last_op_code EXCEPT ![e] = v] /\ OnEnds(last_op_code)
    BY <1>1, Zenon DEF ReadFrame, Types
<1>3. Peer(e) \in Ends /\ Peer(e) # e
    BY Peers
<1>4. last_op_code'[e] = v /\ last_op_code'[Peer(e)] = last_op_code[Peer(e)]
    BY <1>2, <1>3 DEF OnEnds
<1>5. fin = FALSE /\ f.op = 1 => v = 1
    BY <1>1
<1>6. fin = TRUE /\ f.op = 0 => v = -1
    BY <1>1
<1>7. fin = TRUE /\ f.op # 0 => v = last_op_code[e]
    BY <1>1
<1> QED
    BY <1>4, <1>5, <1>6, <1>7

LEMMA ExtendedMessage ==
    ASSUME NEW e
    PROVE  Extended(e) = message[e] \o Payload(First(e))
    BY Zenon DEF Extended, Payload

LEMMA FragmentStep ==
    ASSUME Linked, NEW e \in Ends, readFragment(e)
    PROVE  \E n, q : Step(e, n, q)
<1>1. Types
    BY DEF Linked
<1>2. /\ ReadFrame(e, FALSE) /\ status' = status /\ wire' = wire
      /\ close_frame_sent' = close_frame_sent
      /\ message' = [message EXCEPT ![e] = Extended(e)]
    BY Zenon DEF readFragment
<1>3. status[e] = "CONNECTED" /\ UNCHANGED <<sent, got>>
    BY <1>2 DEF ReadFrame, Handler
<1>4. status'[e] \in Beyond /\ status'[Peer(e)] = status[Peer(e)] /\ Sends(e, << >>)
    BY <1>2, <1>3 DEF Beyond, Sends
<1>5. PICK f : f = First(e)
    OBVIOUS
<1>6. In(e) # << >> /\ f = In(e)[1][1] /\ IsFrame(f) /\ f.fin = FALSE
    BY <1>2, <1>4, <1>5, FrameRead, EmptyStream
<1>7. Moves(e, Size(f), << >>)
    BY <1>2, <1>4, <1>5, FrameRead, EmptyStream
<1>8. f.op = 1
    BY <1>6 DEF IsFrame
<1>9. last_op_code'[e] = 1 /\ last_op_code'[Peer(e)] = last_op_code[Peer(e)]
    BY <1>1, <1>2, <1>5, <1>8, LastOpCode
<1>10. message'[e] = message[e] \o Payload(f) /\ message'[Peer(e)] = message[Peer(e)]
    <2>1. PICK v : v = message[e] \o Payload(f)
        OBVIOUS
    <2>2. message' = [message EXCEPT ![e] = v]
        BY <1>2, <1>5, <2>1, ExtendedMessage
    <2>3. message'[e] = v /\ message'[Peer(e)] = message[Peer(e)]
        BY <1>1, <2>2, Peers DEF Types, OnEnds
    <2> QED
        BY <2>1, <2>3
<1>11. TakesFrame(e, f)
    BY <1>2, <1>3, <1>8, <1>9, <1>10 DEF TakesFrame
<1>12. Takes(e, Size(f))
    BY <1>3, <1>6, <1>11 DEF Takes
<1>13. Puts(e, << >>)
    BY <1>2, <1>3 DEF Puts
<1>14. Others(Peer(e))
    BY <1>2, <1>3, <1>9, <1>10 DEF Others
<1> QED
    BY <1>7, <1>12, <1>13, <1>14 DEF Step

LEMMA DataStep ==
    ASSUME Linked, NEW e \in Ends, readData(e)
    PROVE  \E n, q : Step(e, n, q)
<1>1. Types
    BY DEF Linked
<1>2. /\ ReadFrame(e, TRUE) /\ wire' = wire /\ OpCode(e) \in {1, 2}
      /\ close_frame_sent' = close_frame_sent
      /\ status' = [status EXCEPT ![e] = "FINISHED"]
      /\ message' = [message EXCEPT ![e] = Extended(e)]
    BY Zenon DEF readData
<1>3. status[e] = "CONNECTED" /\ UNCHANGED <<sent, got>>
    BY <1>2 DEF ReadFrame, Handler
<1>4. /\ status'[e] = "FINISHED" /\ status'[e] \in Beyond
      /\ status'[Peer(e)] = status[Peer(e)] /\ Sends(e, << >>)
    BY <1>1, <1>2, Peers DEF Beyond, Sends, Types
<1>5. PICK f : f = First(e)
    OBVIOUS
<1>6. In(e) # << >> /\ f = In(e)[1][1] /\ IsFrame(f) /\ f.fin = TRUE
    BY <1>2, <1>4, <1>5, FrameRead, EmptyStream
<1>7. Moves(e, Size(f), << >>)
    BY <1>2, <1>4, <1>5, FrameRead, EmptyStream
<1>8. f.op # 1 /\ (f.op = 2 \/ (f.op = 0 /\ last_op_code[e] \in {1, 2}))
    BY <1>2, <1>5, <1>6 DEF IsFrame, OpCode
<1>9. /\ f.op = 0 => last_op_code'[e] = -1
      /\ f.op # 0 => last_op_code'[e] = last_op_code[e]
      /\ last_op_code'[Peer(e)] = last_op_code[Peer(e)]
    BY <1>1, <1>2, <1>5, LastOpCode
<1>10. message'[e] = message[e] \o Payload(f) /\ message'[Peer(e)] = message[Peer(e)]
    <2>1. PICK v : v = message[e] \o Payload(f)
        OBVIOUS
    <2>2. message' = [message EXCEPT ![e] = v]
        BY <1>2, <1>5, <2>1, ExtendedMessage
    <2>3. message'[e] = v /\ message'[Peer(e)] = message[Peer(e)]
        BY <1>1, <2>2, Peers DEF Types, OnEnds
    <2> QED
        BY <2>1, <2>3
<1>11. TakesFrame(e, f)
    BY <1>4, <1>8, <1>9, <1>10 DEF TakesFrame
<1>12. Takes(e, Size(f))
    BY <1>3, <1>6, <1>11 DEF Takes
<1>13. Puts(e, << >>)
    BY <1>2, <1>3 DEF Puts
<1>14. Others(Peer(e))
    BY <1>2, <1>3, <1>9, <1>10 DEF Others
<1> QED
    BY <1>7, <1>12, <1>13, <1>14 DEF Step

(* The steps that drop the payload. *)
LEMMA DroppedStep ==
    ASSUME Linked, NEW e \in Ends, NEW q, Stream(q), Sends(e, q), Puts(e, q),
           ReadFrame(e, TRUE), close_frame_sent'[Peer(e)] = close_frame_sent[Peer(e)],
           \/ status' = status /\ OpCode(e) \in {9, 10} /\ message' = [message EXCEPT ![e] = << >>]
           \/ \E s, m : /\ s \in Over /\ status' = [status EXCEPT ![e] = s]
                        /\ message' = [message EXCEPT ![e] = m]
    PROVE  \E n : Step(e, n, q)
<1>1. Types
    BY DEF Linked
<1>2. status[e] = "CONNECTED" /\ UNCHANGED <<sent, got>>
    BY DEF ReadFrame, Handler
<1>3. /\ status'[Peer(e)] = status[Peer(e)] /\ message'[Peer(e)] = message[Peer(e)]
      /\ \/ status'[e] = "CONNECTED" /\ OpCode(e) \in {9, 10} /\ message'[e] = << >>
         \/ status'[e] \in Over
    <2>1. CASE status' = status /\ OpCode(e) \in {9, 10} /\ message' = [message EXCEPT ![e] = << >>]
        <3>1. message'[e] = << >> /\ message'[Peer(e)] = message[Peer(e)]
            BY <1>1, <2>1, Peers DEF Types, OnEnds
        <3> QED
            BY <1>2, <2>1, <3>1
    <2>2. ASSUME NEW s \in Over, NEW m, status' = [status EXCEPT ![e] = s],
                 message' = [message EXCEPT ![e] = m]
          PROVE  /\ status'[Peer(e)] = status[Peer(e)] /\ message'[Peer(e)] = message[Peer(e)]
                 /\ status'[e] \in Over
        <3>1. message'[Peer(e)] = message[Peer(e)]
            BY <1>1, <2>2, Peers DEF Types, OnEnds
        <3>2. status'[e] = s /\ status'[Peer(e)] = status[Peer(e)]
            BY <1>1, <2>2, Peers DEF Types
        <3> QED
            BY <3>1, <3>2
    <2> QED
        BY <2>1, <2>2
<1>4. status'[e] \in Beyond
    BY <1>3 DEF Beyond, Over
<1>5. PICK f : f = First(e)
    OBVIOUS
<1>6. In(e) # << >> /\ f = In(e)[1][1] /\ IsFrame(f) /\ f.fin = TRUE
    BY <1>3, <1>4, <1>5, FrameRead
<1>7. Moves(e, Size(f), q)
    BY <1>3, <1>4, <1>5, FrameRead
<1>8. OpCode(e) \in {9, 10} => f.op \in {9, 10} \/ (f.op = 0 /\ last_op_code[e] \in {9, 10})
    BY <1>5 DEF OpCode
<1>9. /\ f.op # 0 => last_op_code'[e] = last_op_code[e]
      /\ last_op_code'[Peer(e)] = last_op_code[Peer(e)]
    BY <1>1, <1>5, LastOpCode
<1>10. TakesFrame(e, f)
    BY <1>3, <1>8, <1>9 DEF TakesFrame
<1>11. Takes(e, Size(f))
    BY <1>2, <1>6, <1>10 DEF Takes
<1>12. Others(Peer(e))
    BY <1>2, <1>3, <1>9 DEF Others
<1> QED
    BY <1>7, <1>11, <1>12 DEF Step

LEMMA NothingPut ==
    ASSUME NEW e, wire' = wire, close_frame_sent' = close_frame_sent, sent' = sent
    PROVE  Stream(<< >>) /\ Sends(e, << >>) /\ Puts(e, << >>)
    BY EmptyStream DEF Sends, Puts

LEMMA ControlPut ==
    ASSUME Types, NEW e \in Ends, NEW op \in {8, 9, 10}, sendControl(e, op), sent' = sent
    PROVE  /\ \E q : Stream(q) /\ Sends(e, q) /\ Puts(e, q)
           /\ close_frame_sent'[Peer(e)] = close_frame_sent[Peer(e)]
<1>1. PICK q : /\ Stream(q) /\ Sends(e, q)
               /\ \/ q = << >> /\ close_frame_sent' = close_frame_sent
                  \/ /\ ~ close_frame_sent[e] /\ q = Parts(Control(e, op))
                     /\ close_frame_sent' = [close_frame_sent EXCEPT ![e] = (op = 8)]
    BY ControlSent
<1>2. CASE q = << >> /\ close_frame_sent' = close_frame_sent
    BY <1>1, <1>2 DEF Puts
<1>3. CASE /\ ~ close_frame_sent[e] /\ q = Parts(Control(e, op))
           /\ close_frame_sent' = [close_frame_sent EXCEPT ![e] = (op = 8)]
    <2>1. PICK f : f = Control(e, op)
        OBVIOUS
    <2>2. IsFrame(f) /\ f.op = op /\ f.op \notin {1, 2}
        BY <2>1, ControlIsFrame
    <2>3. op = 8 => close_frame_sent'[e]
        BY <1>3 DEF Types
    <2>4. close_frame_sent'[Peer(e)] = close_frame_sent[Peer(e)]
        BY <1>3, Peers DEF Types
    <2>5. Puts(e, q)
        BY <1>3, <2>1, <2>2, <2>3 DEF Puts
    <2> QED
        BY <1>1, <2>4, <2>5
<1> QED
    BY <1>1, <1>2, <1>3

LEMMA DroppedSteps ==
    ASSUME Linked, NEW e \in Ends,
           readClose(e) \/ readPing(e) \/ readPong(e) \/ readUnknown(e)
    PROVE  \E n, q : Step(e, n, q)
<1>1. Types
    BY DEF Linked
<1>2. ReadFrame(e, TRUE) /\ sent' = sent
    BY DEF readClose, readPing, readPong, readUnknown, ReadFrame
<1>3. CASE readClose(e)
    <2>1. /\ sendControl(e, 8) /\ status' = [status EXCEPT ![e] = "CLOSED"]
          /\ message' = [message EXCEPT ![e] = << >>] /\ "CLOSED" \in Over
        BY <1>3 DEF readClose, Over
    <2>2. /\ \E q : Stream(q) /\ Sends(e, q) /\ Puts(e, q)
          /\ close_frame_sent'[Peer(e)] = close_frame_sent[Peer(e)]
        BY <1>1, <1>2, <2>1, ControlPut
    <2>3. PICK q : Stream(q) /\ Sends(e, q) /\ Puts(e, q)
        BY <2>2
    <2> QED
        BY <1>2, <2>1, <2>2, <2>3, DroppedStep
<1>4. CASE readPing(e)
    <2>1. /\ sendControl(e, 10) /\ status' = status /\ OpCode(e) \in {9, 10}
          /\ message' = [message EXCEPT ![e] = << >>]
        BY <1>4 DEF readPing
    <2>2. /\ \E q : Stream(q) /\ Sends(e, q) /\ Puts(e, q)
          /\ close_frame_sent'[Peer(e)] = close_frame_sent[Peer(e)]
        BY <1>1, <1>2, <2>1, ControlPut
    <2>3. PICK q : Stream(q) /\ Sends(e, q) /\ Puts(e, q)
        BY <2>2
    <2> QED
        BY <1>2, <2>1, <2>2, <2>3, DroppedStep
<1>5. CASE readPong(e)
    <2>1. /\ wire' = wire /\ close_frame_sent' = close_frame_sent
          /\ status' = status /\ OpCode(e) \in {9, 10}
          /\ message' = [message EXCEPT ![e] = << >>]
        BY <1>5 DEF readPong
    <2>2. Stream(<< >>) /\ Sends(e, << >>) /\ Puts(e, << >>)
        BY <1>2, <2>1, NothingPut
    <2> QED
        BY <1>2, <2>1, <2>2, DroppedStep
<1>6. CASE readUnknown(e)
    <2>1. /\ wire' = wire /\ close_frame_sent' = close_frame_sent
          /\ status' = [status EXCEPT ![e] = "PENDING_ERROR"] /\ "PENDING_ERROR" \in Over
          /\ message' = [message EXCEPT ![e] = Extended(e)]
        BY <1>6 DEF readUnknown, Error, Over
    <2>2. Stream(<< >>) /\ Sends(e, << >>) /\ Puts(e, << >>)
        BY <1>2, <2>1, NothingPut
    <2> QED
        BY <1>2, <2>1, <2>2, DroppedStep
<1> QED
    BY <1>3, <1>4, <1>5, <1>6

(* The receiver's steps that read nothing. *)
LEMMA IdleSteps ==
    ASSUME Linked, Retrieving, NEW e \in Ends,
           FrameWaits(e) \/ FrameWrong(e) \/ retrieveMessage(e)
    PROVE  \E n, q : Step(e, n, q)
<1>1. Types
    BY DEF Linked
<1>2. /\ wire' = wire /\ buffer' = buffer /\ close_frame_sent' = close_frame_sent
      /\ sent' = sent /\ key' = key /\ answer' = answer /\ last_op_code' = last_op_code
    BY DEF FrameWaits, FrameWrong, retrieveMessage, protoVars, histVars
<1>3. Stream(<< >>) /\ Sends(e, << >>) /\ Puts(e, << >>)
    BY <1>2, NothingPut
<1>4. CASE FrameWaits(e)
    <2>1. status[e] = "CONNECTED" /\ status' = status /\ message' = message /\ got' = got
        BY <1>4 DEF FrameWaits, Handler, protoVars, histVars
    <2>2. status[e] \in Beyond
        BY <2>1 DEF Beyond
    <2>3. Moves(e, 0, << >>)
        BY <1>2, <1>3, <2>1, <2>2, FramesSent
    <2>4. Takes(e, 0) /\ Others(Peer(e))
        BY <1>2, <2>1 DEF Takes, Others
    <2> QED
        BY <1>3, <2>3, <2>4 DEF Step
<1>5. CASE FrameWrong(e)
    <2>1. /\ status[e] = "CONNECTED" /\ message' = message /\ got' = got
          /\ status' = [status EXCEPT ![e] = "PENDING_ERROR"]
        BY <1>5 DEF FrameWrong, Handler, Error, histVars
    <2>2. /\ status[e] \in Beyond /\ status[e] \in Established
          /\ status'[e] = "PENDING_ERROR" /\ status'[e] \in Beyond
          /\ status'[Peer(e)] = status[Peer(e)]
        BY <1>1, <2>1, Peers DEF Beyond, Established, Types
    <2>3. Moves(e, 0, << >>)
        BY <1>2, <1>3, <2>2, FramesSent
    <2>4. Takes(e, 0) /\ Others(Peer(e))
        BY <1>2, <2>1, <2>2 DEF Takes, Others
    <2> QED
        BY <1>3, <2>3, <2>4 DEF Step
<1>6. CASE retrieveMessage(e)
    <2>1. /\ pc[e] = "retrieve"
          /\ status' = [status EXCEPT ![e] = "CONNECTED"]
          /\ message' = [message EXCEPT ![e] = << >>]
        BY <1>6 DEF retrieveMessage
    <2>2. PICK v : v = Append(got[e], message[e])
        OBVIOUS
    <2>3. got' = [got EXCEPT ![e] = v]
        BY <1>6, <2>2 DEF retrieveMessage
    <2>4. /\ status[e] = "FINISHED" /\ status[e] \in Beyond /\ status[e] \in Established
          /\ status'[e] = "CONNECTED" /\ status'[e] \in Beyond
          /\ status'[Peer(e)] = status[Peer(e)]
        BY <1>1, <2>1, Peers DEF Beyond, Established, Types, Retrieving
    <2>5. /\ message'[e] = << >> /\ message'[Peer(e)] = message[Peer(e)]
          /\ got'[e] = v /\ got'[Peer(e)] = got[Peer(e)]
        BY <1>1, <2>1, <2>3, Peers DEF Types, OnEnds
    <2>6. Moves(e, 0, << >>)
        BY <1>2, <1>3, <2>4, FramesSent
    <2>7. Takes(e, 0)
        BY <1>2, <2>2, <2>4, <2>5 DEF Takes
    <2>8. Others(Peer(e))
        BY <1>2, <2>5 DEF Others
    <2> QED
        BY <1>3, <2>6, <2>7, <2>8 DEF Step
<1> QED
    BY <1>4, <1>5, <1>6

(* The steps of the sender. *)
LEMMA SentStep ==
    ASSUME Linked, NEW e \in Ends, Call(e), NEW q, Stream(q), Sends(e, q), Puts(e, q),
           sent'[Peer(e)] = sent[Peer(e)],
           close_frame_sent'[Peer(e)] = close_frame_sent[Peer(e)]
    PROVE  \E n : Step(e, n, q)
<1>1. /\ status[e] = "CONNECTED" /\ status' = status /\ buffer' = buffer /\ key' = key /\ answer' = answer
      /\ message' = message /\ last_op_code' = last_op_code /\ got' = got
    BY DEF Call
<1>2. status[e] \in Beyond
    BY <1>1 DEF Beyond
<1>3. Moves(e, 0, q)
    BY <1>1, <1>2, FramesSent
<1>4. Takes(e, 0) /\ Others(Peer(e))
    BY <1>1 DEF Takes, Others
<1> QED
    BY <1>3, <1>4 DEF Step

LEMMA SendSteps ==
    ASSUME Linked, NEW e \in Ends, Send(e)
    PROVE  \E n, q : Step(e, n, q)
<1>1. Types
    BY DEF Linked
<1>2. ASSUME NEW m \in Payloads, NEW k \in Keys, sendMessage(e, m, k)
      PROVE  \E n, q : Step(e, n, q)
    <2>1. /\ Call(e) /\ close_frame_sent' = close_frame_sent
          /\ sent' = [sent EXCEPT ![e] = Append(sent[e], m)]
        BY <1>2, Zenon DEF sendMessage
    <2>2. PICK r \in KeyRead(e, k, m) : Output(e, Parts(DataFrame(e, m, k, r)))
        BY <1>2, Zenon DEF sendMessage, DataFrame
    <2>3. PICK f, q : f = DataFrame(e, m, k, r) /\ q = Parts(f)
        OBVIOUS
    <2>4. Len(m) \in Nat
        BY MessageAssumption, SeqIsSeq
    <2>5. IsFrame(f) /\ f.op = 2
        BY <2>3, <2>4, DataIsFrame
    <2>6. IsSeq(Payload(f)) /\ Agrees(Peer(e), Payload(f), m)
        BY <2>3, DataPayload
    <2>7. PICK v : v = Append(sent[e], m)
        OBVIOUS
    <2>8. sent'[e] = v /\ sent'[Peer(e)] = sent[Peer(e)]
        BY <1>1, <2>1, <2>7, Peers DEF Types, OnEnds
    <2>9. ~ close_frame_sent[e]
        BY <2>1 DEF Call
    <2>10. Puts(e, q)
        BY <2>3, <2>5, <2>6, <2>7, <2>8, <2>9 DEF Puts
    <2>11. Stream(q) /\ Sends(e, q)
        BY <2>2, <2>3, <2>5, PartsAreStream DEF Sends
    <2> QED
        BY <2>1, <2>8, <2>10, <2>11, SentStep
<1>3. ASSUME NEW op \in {8, 9}, sendFrame(e, op)
      PROVE  \E n, q : Step(e, n, q)
    <2>1. Call(e) /\ sendControl(e, op) /\ sent' = sent
        BY <1>3 DEF sendFrame
    <2>2. /\ \E q : Stream(q) /\ Sends(e, q) /\ Puts(e, q)
          /\ close_frame_sent'[Peer(e)] = close_frame_sent[Peer(e)]
        BY <1>1, <2>1, ControlPut
    <2>3. PICK q : Stream(q) /\ Sends(e, q) /\ Puts(e, q)
        BY <2>2
    <2> QED
        BY <2>1, <2>2, <2>3, SentStep
<1>4. ASSUME NEW f \in BadFrames(e), SendBad(e, f)
      PROVE  \E n, q : Step(e, n, q)
    <2>1. /\ Call(e) /\ Output(e, Parts(f))
          /\ sent' = sent /\ close_frame_sent' = close_frame_sent
        BY <1>4 DEF SendBad
    <2>2. IsFrame(f) /\ f.op \in {0, 3, 9}
        BY BadIsFrame
    <2>3. PICK q : q = Parts(f)
        OBVIOUS
    <2>4. ~ close_frame_sent[e]
        BY <2>1 DEF Call
    <2>5. Puts(e, q)
        BY <2>1, <2>2, <2>3, <2>4 DEF Puts
    <2>6. Stream(q) /\ Sends(e, q)
        BY <2>1, <2>2, <2>3, PartsAreStream DEF Sends
    <2> QED
        BY <2>1, <2>5, <2>6, SentStep
<1> QED
    BY <1>2, <1>3, <1>4 DEF Send

LEMMA FragmentsStep ==
    ASSUME Linked, NEW m \in Payloads, NEW i \in Fragments, NEW k \in Keys,
           SendFragments(m, i, k)
    PROVE  \E n, q : Step("client", n, q)
<1>1. Types /\ "client" \in Ends
    BY DEF Linked, Ends
<1>2. m \in Seq({0, 1}) /\ k \in [1 .. 4 -> {0, 1}] /\ i \in 0 .. Len(m)
    BY MessageAssumption
<1>3. PICK a, z : a = SubSeq(m, 1, i) /\ z = SubSeq(m, i + 1, Len(m))
    OBVIOUS
<1>4. a \in Seq({0, 1}) /\ z \in Seq({0, 1}) /\ a \o z = m
    BY <1>2, <1>3, TwoFragments
<1>5. PICK f, g, q : /\ f = Frame("client", FALSE, 1, a, k)
                     /\ g = Frame("client", TRUE, 0, z, k)
                     /\ q = Parts(f) \o Parts(g)
    OBVIOUS
<1>6. IsFrame(f) /\ f.op = 1 /\ IsFrame(g) /\ g.op = 0
    <2>1. Len(a) \in Nat /\ Len(z) \in Nat
        BY <1>4, SeqIsSeq
    <2>2. IsFrame(f) /\ f.op = 1
        <3>1. 1 \in {0, 1, 2, 3, 8, 9, 10} /\ FALSE = FALSE /\ ~(1 # 1)
            OBVIOUS
        <3> QED
            BY <1>5, <2>1, <3>1, FrameIsFrame
    <2>3. IsFrame(g) /\ g.op = 0
        <3>1. 0 \in {0, 1, 2, 3, 8, 9, 10} /\ TRUE = TRUE /\ 0 # 1
            OBVIOUS
        <3> QED
            BY <1>5, <2>1, <3>1, FrameIsFrame
    <2> QED
        BY <2>2, <2>3
<1>7. Payload(f) = a /\ Payload(g) = z
    BY <1>2, <1>4, <1>5, ClientPayload
<1>8. /\ Call("client") /\ Output("client", q) /\ close_frame_sent' = close_frame_sent
      /\ sent' = [sent EXCEPT !["client"] = Append(sent["client"], m)]
    BY <1>3, <1>5, Zenon DEF SendFragments
<1>9. PICK v : v = Append(sent["client"], m)
    OBVIOUS
<1>10. sent'["client"] = v /\ sent'[Peer("client")] = sent[Peer("client")]
    BY <1>1, <1>8, <1>9, Peers DEF Types, OnEnds
<1>11. ~ close_frame_sent["client"]
    BY <1>8 DEF Call
<1>12. IsSeq(Payload(f)) /\ Payload(f) \o Payload(g) = m
    BY <1>4, <1>7, SeqIsSeq
<1>13. Puts("client", q)
    BY <1>5, <1>6, <1>9, <1>10, <1>11, <1>12 DEF Puts
<1>14. Stream(q) /\ Sends("client", q)
    BY <1>5, <1>6, <1>8, PartsAreStream, ConcatStream DEF Sends
<1> QED
    BY <1>1, <1>8, <1>10, <1>13, <1>14, SentStep

LEMMA AllSteps ==
    ASSUME Linked, Retrieving, [Next]_vars
    PROVE  (Quiet /\ Stays) \/ \E a \in Ends : \E n, q : Step(a, n, q)
<1>1. Types /\ AreSeqs
    BY DEF Linked
<1>2. CASE UNCHANGED vars
    <2>1. /\ status' = status /\ key' = key /\ answer' = answer /\ buffer' = buffer /\ wire' = wire
          /\ UNCHANGED <<close_frame_sent, last_op_code, message, sent, got>>
        BY <1>2 DEF vars, protoVars, histVars
    <2>2. AreSeqs' /\ \A d \in Ends : In(d)' = In(d)
        BY <1>1, <2>1, Zenon DEF AreSeqs, In
    <2> QED
        BY <2>1, <2>2, QuietSteps DEF Stays
<1>3. ASSUME NEW k, startAsClient(k)
      PROVE  Quiet /\ Stays
    <2>1. Stays
        BY <1>1, <1>3 DEF startAsClient, Stays, histVars, Types, Ends, Over
    <2> QED
        BY <1>3, <2>1, StartClient
<1>4. CASE startAsServer
    <2>1. Stays
        BY <1>1, <1>4 DEF startAsServer, Stays, histVars, Types, Ends, Over
    <2> QED
        BY <1>4, <2>1, StartServer
<1>5. ASSUME NEW e \in Ends, NEW n \in 1 .. Len(wire[e]), Arrive(e, n)
      PROVE  Quiet /\ Stays
    <2>1. AreSeqs' /\ \A d \in Ends : In(d)' = In(d)
        BY <1>1, <1>5, ArriveKeeps
    <2>2. /\ status' = status /\ key' = key /\ answer' = answer
          /\ UNCHANGED <<close_frame_sent, last_op_code, message, sent, got>>
        BY <1>5 DEF Arrive, protoVars, histVars
    <2> QED
        BY <2>1, <2>2, QuietSteps DEF Stays
<1>6. ASSUME NEW e \in Ends, HandshakeWaits(e)
      PROVE  Quiet /\ Stays
    <2>1. /\ status' = status /\ key' = key /\ answer' = answer /\ buffer' = buffer /\ wire' = wire
          /\ UNCHANGED <<close_frame_sent, last_op_code, message, sent, got>>
        BY <1>6 DEF HandshakeWaits, protoVars, histVars
    <2>2. AreSeqs' /\ \A d \in Ends : In(d)' = In(d)
        BY <1>1, <2>1, Zenon DEF AreSeqs, In
    <2> QED
        BY <2>1, <2>2, QuietSteps DEF Stays
<1>7. ASSUME readHandshakeRequest
      PROVE  Quiet /\ Stays
    <2>1. /\ status["server"] = "WAITING_HANDSHAKE_REQUEST"
          /\ UNCHANGED <<close_frame_sent, last_op_code, message, sent, got>>
        BY <1>7 DEF readHandshakeRequest, Handler, histVars
    <2>2. \/ status' = [status EXCEPT !["server"] = "CONNECTED"]
          \/ status' = [status EXCEPT !["server"] = "PENDING_ERROR"]
        BY <1>7, Zenon DEF readHandshakeRequest, Error
    <2>3. Stays
        BY <1>1, <2>1, <2>2 DEF Stays, Types, Ends, Over
    <2> QED
        BY <1>7, <2>3, ReadRequest
<1>8. CASE readHandshakeResponse
    <2>1. /\ status["client"] = "WAITING_HANDSHAKE_RESPONSE"
          /\ UNCHANGED <<close_frame_sent, last_op_code, message, sent, got>>
        BY <1>8 DEF readHandshakeResponse, Handler, histVars
    <2>2. \/ status' = [status EXCEPT !["client"] = "CONNECTED"]
          \/ status' = [status EXCEPT !["client"] = "PENDING_ERROR"]
        BY <1>8, Zenon DEF readHandshakeResponse, Error
    <2>3. Stays
        BY <1>1, <2>1, <2>2 DEF Stays, Types, Ends, Over
    <2> QED
        BY <1>8, <2>3, ReadResponse
<1>9. ASSUME NEW e \in Ends, Receive(e)
      PROVE  (Quiet /\ Stays) \/ \E n, q : Step(e, n, q)
    BY <1>6, <1>9, FragmentStep, DataStep, DroppedSteps, IdleSteps
       DEF Receive, recvMessage
<1>10. CASE Deliver
    BY <1>5, <1>7, <1>8, <1>9, <1>10 DEF Deliver, Handshake, Arrives
<1>11. ASSUME NEW m \in Payloads, NEW k \in Keys, NEW i \in Fragments, SendFragments(m, i, k)
       PROVE  \E a \in Ends : \E n, q : Step(a, n, q)
    <2>1. "client" \in Ends
        BY DEF Ends
    <2> QED
        BY <1>11, <2>1, FragmentsStep
<1>12. CASE Next
    BY <1>3, <1>4, <1>10, <1>11, <1>12, SendSteps DEF Next
<1> QED
    BY <1>2, <1>12

(* The streams stay streams. *)
LEMMA LinkedKept ==
    ASSUME Linked, Retrieving, [Next]_vars
    PROVE  Linked'
<1>1. Types'
    BY TypesKept DEF Linked
<1>2. CASE Quiet
    BY <1>1, <1>2, Zenon DEF Quiet, Linked
<1>3. ASSUME NEW a \in Ends, NEW n, NEW q, Step(a, n, q)
      PROVE  Linked'
    <2>1. Types /\ AreSeqs /\ Handshakes /\ (\A d \in Ends : Stream(Frames(d))) /\ Moves(a, n, q)
        BY <1>3 DEF Step, Linked
    <2>2. AreSeqs'
        BY <2>1, Zenon DEF Moves, AreSeqs
    <2>3. Handshakes'
        BY <2>1, MovesHandshakes
    <2>4. \A d \in Ends : Stream(Frames(d))'
        BY <2>1, MovesFrames
    <2> QED
        BY <1>1, <2>2, <2>3, <2>4, Zenon DEF Linked
<1> QED
    BY <1>2, <1>3, AllSteps

-----------------------------------------------------------------------------
(* Where the applications are. *)

Waits(e) == Stalled(e) => last_op_code[e] # -1

Idle(e) ==
    /\ pc'[e] = pc[e] /\ status'[e] = status[e]
    /\ buffer'[e] = buffer[e] /\ last_op_code'[e] = last_op_code[e]

(* What an end that steps may come to wait for. *)
GoesOn(e) ==
    /\ pc'[e] = "retrieve" <=> status'[e] = "FINISHED"
    /\ \/ pc'[e] # "wait" \/ status'[e] # "CONNECTED" \/ last_op_code'[e] = 1
       \/ Idle(e)
       \/ Verdict(e) = "wait" /\ buffer'[e] = buffer[e]

LEMMA SameVerdict ==
    ASSUME NEW e, buffer'[e] = buffer[e]
    PROVE  Verdict(e)' = Verdict(e)
<1>1. First(e)' = First(e)
    BY DEF First
<1>2. \A p : Has(e, p)' <=> Has(e, p)
    BY <1>1 DEF Has
<1> QED
    BY <1>1, <1>2, Zenon DEF Verdict

LEMMA EndsKept ==
    ASSUME Types, Retrieving, WaitsForMissingParts, NEW a \in Ends, Idle(Peer(a)), GoesOn(a)
    PROVE  Retrieving' /\ WaitsForMissingParts'
<1>1. Peer(a) \in Ends /\ Ends = {a, Peer(a)}
    BY Peers
<1>2. Retrieving'
    BY <1>1 DEF Retrieving, Idle, GoesOn
<1>3. ASSUME NEW e \in Ends, Idle(e)
      PROVE  Waits(e)'
    <2>1. Verdict(e)' = Verdict(e)
        BY <1>3, SameVerdict DEF Idle
    <2> QED
        BY <1>3, <2>1 DEF Waits, WaitsForMissingParts, Stalled, Idle
<1>4. Waits(a)'
    <2>1. CASE Verdict(a) = "wait" /\ buffer'[a] = buffer[a]
        <3>1. Verdict(a)' = "wait"
            BY <2>1, SameVerdict
        <3> QED
            BY <3>1 DEF Waits, Stalled
    <2>2. CASE pc'[a] # "wait" \/ status'[a] # "CONNECTED" \/ last_op_code'[a] = 1
        <3>1. ~(1 = -1)
            OBVIOUS
        <3> QED
            BY <2>2, <3>1 DEF Waits, Stalled
    <2> QED
        BY <1>3, <2>1, <2>2 DEF GoesOn
<1>5. \A e \in Ends : Waits(e)'
    BY <1>1, <1>3, <1>4
<1> QED
    BY <1>2, <1>5 DEF WaitsForMissingParts, Waits

(* Steps that change no more than these variables of one end. *)
OneEnd(e) ==
    /\ \E v : pc' = [pc EXCEPT ![e] = v]
    /\ \E v : status' = [status EXCEPT ![e] = v]
    /\ \E v : last_op_code' = [last_op_code EXCEPT ![e] = v]
    /\ \E v : buffer' = [buffer EXCEPT ![e] = v]

LEMMA SameIsExcept ==
    ASSUME NEW f, OnEnds(f), NEW e
    PROVE  \E v : f = [f EXCEPT ![e] = v]
<1>1. f = [f EXCEPT ![e] = f[e]]
    BY DEF OnEnds
<1> QED
    BY <1>1

LEMMA OtherEndIdle ==
    ASSUME Types, NEW e \in Ends, OneEnd(e)
    PROVE  Idle(Peer(e))
<1>1. /\ OnEnds(pc) /\ OnEnds(status) /\ OnEnds(last_op_code) /\ OnEnds(buffer)
      /\ Peer(e) \in Ends /\ Peer(e) # e
    BY Peers DEF Types, OnEnds
<1>2. PICK v : pc' = [pc EXCEPT ![e] = v]
    BY DEF OneEnd
<1>3. PICK w : status' = [status EXCEPT ![e] = w]
    BY DEF OneEnd
<1>4. PICK x : last_op_code' = [last_op_code EXCEPT ![e] = x]
    BY DEF OneEnd
<1>5. PICK y : buffer' = [buffer EXCEPT ![e] = y]
    BY DEF OneEnd
<1>6. pc'[Peer(e)] = pc[Peer(e)] /\ status'[Peer(e)] = status[Peer(e)]
    BY <1>1, <1>2, <1>3 DEF OnEnds
<1>7. buffer'[Peer(e)] = buffer[Peer(e)] /\ last_op_code'[Peer(e)] = last_op_code[Peer(e)]
    BY <1>1, <1>4, <1>5 DEF OnEnds
<1> QED
    BY <1>6, <1>7 DEF Idle

LEMMA EndsKeptAlways ==
    ASSUME Linked, Retrieving, WaitsForMissingParts, [Next]_vars
    PROVE  Retrieving' /\ WaitsForMissingParts'
<1>1. /\ Types /\ "client" \in Ends /\ "server" \in Ends
      /\ Peer("client") = "server" /\ Peer("server") = "client"
    BY DEF Linked, Ends, Peer
<1>2. OnEnds(pc) /\ OnEnds(status) /\ OnEnds(last_op_code) /\ OnEnds(buffer)
    BY <1>1 DEF Types, OnEnds
<1>3. \A e \in Ends : /\ \E v : pc = [pc EXCEPT ![e] = v]
                      /\ \E v : status = [status EXCEPT ![e] = v]
                      /\ \E v : last_op_code = [last_op_code EXCEPT ![e] = v]
                      /\ \E v : buffer = [buffer EXCEPT ![e] = v]
    BY <1>2, SameIsExcept
<1>4. ASSUME NEW e \in Ends, Idle(e), Idle(Peer(e))
      PROVE  Retrieving' /\ WaitsForMissingParts'
    <2>1. GoesOn(e)
        BY <1>4 DEF GoesOn, Idle, Retrieving
    <2> QED
        BY <1>1, <1>4, <2>1, EndsKept
<1>5. CASE UNCHANGED vars
    <2>1. Idle("client") /\ Idle("server")
        BY <1>5 DEF Idle, vars, protoVars, histVars
    <2> QED
        BY <1>1, <1>4, <2>1
<1>6. ASSUME NEW k, startAsClient(k)
      PROVE  Retrieving' /\ WaitsForMissingParts'
    <2>1. /\ status["client"] = "DETACHED" /\ pc' = pc
          /\ status' = [status EXCEPT !["client"] = "WAITING_HANDSHAKE_RESPONSE"]
          /\ last_op_code' = last_op_code /\ buffer' = buffer
        BY <1>6 DEF startAsClient
    <2>2. OneEnd("client")
        BY <1>1, <1>3, <2>1, Zenon DEF OneEnd
    <2>3. status'["client"] = "WAITING_HANDSHAKE_RESPONSE" /\ pc'["client"] # "retrieve"
        BY <1>1, <2>1 DEF Types, Retrieving
    <2>4. GoesOn("client")
        BY <2>3 DEF GoesOn
    <2> QED
        BY <1>1, <2>2, <2>4, EndsKept, OtherEndIdle
<1>7. CASE startAsServer
    <2>1. /\ status["server"] = "DETACHED" /\ pc' = pc
          /\ status' = [status EXCEPT !["server"] = "WAITING_HANDSHAKE_REQUEST"]
          /\ last_op_code' = last_op_code /\ buffer' = buffer
        BY <1>7 DEF startAsServer
    <2>2. OneEnd("server")
        BY <1>1, <1>3, <2>1, Zenon DEF OneEnd
    <2>3. status'["server"] = "WAITING_HANDSHAKE_REQUEST" /\ pc'["server"] # "retrieve"
        BY <1>1, <2>1 DEF Types, Retrieving
    <2>4. GoesOn("server")
        BY <2>3 DEF GoesOn
    <2> QED
        BY <1>1, <2>2, <2>4, EndsKept, OtherEndIdle
<1>8. ASSUME NEW e \in Ends, NEW n, Arrive(e, n)
      PROVE  Retrieving' /\ WaitsForMissingParts'
    <2>1. /\ pc[e] = "wait" /\ status' = status /\ last_op_code' = last_op_code
          /\ pc' = [pc EXCEPT ![e] = "recvMessage"]
          /\ \E v : buffer' = [buffer EXCEPT ![e] = v]
        BY <1>8 DEF Arrive, protoVars
    <2>2. OneEnd(e)
        BY <1>3, <2>1, Zenon DEF OneEnd
    <2>3. pc'[e] = "recvMessage" /\ status'[e] # "FINISHED"
        BY <1>1, <2>1 DEF Types, Retrieving
    <2>4. GoesOn(e)
        BY <2>3 DEF GoesOn
    <2> QED
        BY <1>1, <2>2, <2>4, EndsKept, OtherEndIdle
<1>9. ASSUME readHandshakeRequest
      PROVE  Retrieving' /\ WaitsForMissingParts'
    <2>1. /\ pc["server"] = "recvMessage" /\ last_op_code' = last_op_code
          /\ \E v : buffer' = [buffer EXCEPT !["server"] = v]
        BY <1>9 DEF readHandshakeRequest, Handler, Read
    <2>2. \/ /\ status' = [status EXCEPT !["server"] = "CONNECTED"] /\ pc' = pc
          \/ /\ status' = [status EXCEPT !["server"] = "PENDING_ERROR"]
             /\ pc' = [pc EXCEPT !["server"] = "closed"]
        BY <1>9, Zenon DEF readHandshakeRequest, Error
    <2>3. OneEnd("server")
        <3>1. /\ \E v : pc' = [pc EXCEPT !["server"] = v]
              /\ \E v : status' = [status EXCEPT !["server"] = v]
            BY <1>1, <1>3, <2>2
        <3>2. \E v : last_op_code' = [last_op_code EXCEPT !["server"] = v]
            BY <1>1, <1>3, <2>1
        <3> QED
            BY <2>1, <3>1, <3>2 DEF OneEnd
    <2>4. /\ status'["server"] # "FINISHED" /\ pc'["server"] \in {"recvMessage", "closed"}
        BY <1>1, <2>1, <2>2 DEF Types
    <2>5. GoesOn("server")
        BY <2>4 DEF GoesOn
    <2> QED
        BY <1>1, <2>3, <2>5, EndsKept, OtherEndIdle
<1>10. CASE readHandshakeResponse
    <2>1. /\ pc["client"] = "recvMessage" /\ last_op_code' = last_op_code
          /\ \E v : buffer' = [buffer EXCEPT !["client"] = v]
        BY <1>10 DEF readHandshakeResponse, Handler, Read
    <2>2. \/ /\ status' = [status EXCEPT !["client"] = "CONNECTED"] /\ pc' = pc
          \/ /\ status' = [status EXCEPT !["client"] = "PENDING_ERROR"]
             /\ pc' = [pc EXCEPT !["client"] = "closed"]
        BY <1>10, Zenon DEF readHandshakeResponse, Error
    <2>3. OneEnd("client")
        <3>1. /\ \E v : pc' = [pc EXCEPT !["client"] = v]
              /\ \E v : status' = [status EXCEPT !["client"] = v]
            BY <1>1, <1>3, <2>2
        <3>2. \E v : last_op_code' = [last_op_code EXCEPT !["client"] = v]
            BY <1>1, <1>3, <2>1
        <3> QED
            BY <2>1, <3>1, <3>2 DEF OneEnd
    <2>4. /\ status'["client"] # "FINISHED" /\ pc'["client"] \in {"recvMessage", "closed"}
        BY <1>1, <2>1, <2>2 DEF Types
    <2>5. GoesOn("client")
        BY <2>4 DEF GoesOn
    <2> QED
        BY <1>1, <2>3, <2>5, EndsKept, OtherEndIdle
<1>11. ASSUME NEW e \in Ends, HandshakeWaits(e) \/ FrameWaits(e)
       PROVE  Retrieving' /\ WaitsForMissingParts'
    <2>1. /\ status' = status /\ last_op_code' = last_op_code /\ buffer' = buffer
          /\ pc' = [pc EXCEPT ![e] = "wait"] /\ pc[e] = "recvMessage"
          /\ status[e] = "CONNECTED" => Verdict(e) = "wait"
        BY <1>11 DEF HandshakeWaits, FrameWaits, MoreData, Handler, protoVars
    <2>2. OneEnd(e)
        BY <1>3, <2>1, Zenon DEF OneEnd
    <2>3. status'[e] # "FINISHED" /\ pc'[e] = "wait"
        BY <1>1, <2>1 DEF Types, Retrieving
    <2>4. GoesOn(e)
        BY <2>1, <2>3 DEF GoesOn
    <2> QED
        BY <1>1, <2>2, <2>4, EndsKept, OtherEndIdle
<1>12. ASSUME NEW e \in Ends, FrameWrong(e)
       PROVE  Retrieving' /\ WaitsForMissingParts'
    <2>1. /\ status' = [status EXCEPT ![e] = "PENDING_ERROR"]
          /\ pc' = [pc EXCEPT ![e] = "closed"]
          /\ last_op_code' = last_op_code /\ buffer' = buffer
        BY <1>12 DEF FrameWrong, Error
    <2>2. OneEnd(e)
        BY <1>3, <2>1, Zenon DEF OneEnd
    <2>3. status'[e] # "FINISHED" /\ pc'[e] = "closed"
        BY <1>1, <2>1 DEF Types
    <2>4. GoesOn(e)
        BY <2>3 DEF GoesOn
    <2> QED
        BY <1>1, <2>2, <2>4, EndsKept, OtherEndIdle
<1>13. ASSUME NEW e \in Ends, NEW fin, ReadFrame(e, fin), fin = TRUE,
              \/ readData(e) \/ readClose(e) \/ readPing(e) \/ readPong(e) \/ readUnknown(e)
       PROVE  Retrieving' /\ WaitsForMissingParts'
    <2>1. /\ pc[e] = "recvMessage" /\ status[e] = "CONNECTED"
          /\ \E v : buffer' = [buffer EXCEPT ![e] = v]
        BY <1>13 DEF ReadFrame, Handler, Read
    <2>2. \E v : last_op_code' = [last_op_code EXCEPT ![e] = v]
        BY <1>13, Zenon DEF ReadFrame
    <2>3. \/ status' = status /\ pc' = pc
          \/ /\ status' = [status EXCEPT ![e] = "FINISHED"]
             /\ pc' = [pc EXCEPT ![e] = "retrieve"]
          \/ /\ status' = [status EXCEPT ![e] = "CLOSED"]
             /\ pc' = [pc EXCEPT ![e] = "closed"]
          \/ /\ status' = [status EXCEPT ![e] = "PENDING_ERROR"]
             /\ pc' = [pc EXCEPT ![e] = "closed"]
        BY <1>13 DEF readData, readClose, readPing, readPong, readUnknown, Error
    <2>4. OneEnd(e)
        <3>1. /\ \E v : pc' = [pc EXCEPT ![e] = v]
              /\ \E v : status' = [status EXCEPT ![e] = v]
            BY <1>3, <2>3
        <3> QED
            BY <2>1, <2>2, <3>1 DEF OneEnd
    <2>5. pc'[e] # "wait" /\ (pc'[e] = "retrieve" <=> status'[e] = "FINISHED")
        BY <1>1, <2>1, <2>3 DEF Types
    <2>6. GoesOn(e)
        BY <2>5 DEF GoesOn
    <2> QED
        BY <1>1, <2>4, <2>6, EndsKept, OtherEndIdle
<1>14. ASSUME NEW e \in Ends, readFragment(e)
       PROVE  Retrieving' /\ WaitsForMissingParts'
    <2>1. ReadFrame(e, FALSE) /\ status' = status /\ pc' = [pc EXCEPT ![e] = "wait"]
        BY <1>14 DEF readFragment, MoreData
    <2>2. /\ status[e] = "CONNECTED" /\ \E v : buffer' = [buffer EXCEPT ![e] = v]
        BY <2>1 DEF ReadFrame, Handler, Read
    <2>3. \E v : last_op_code' = [last_op_code EXCEPT ![e] = v]
        BY <2>1, Zenon DEF ReadFrame
    <2>4. OneEnd(e)
        BY <1>3, <2>1, <2>2, <2>3, Zenon DEF OneEnd
    <2>5. PICK f : f = First(e)
        OBVIOUS
    <2>6. IsFrame(f) /\ f.fin = FALSE
        <3>1. status'[e] \in Beyond /\ status'[Peer(e)] = status[Peer(e)]
            BY <2>1, <2>2 DEF Beyond
        <3>2. wire' = wire
            BY <1>14 DEF readFragment
        <3>3. Stream(<< >>) /\ Sends(e, << >>)
            BY <3>2, EmptyStream DEF Sends
        <3> QED
            BY <2>1, <2>5, <3>1, <3>3, FrameRead
    <2>7. last_op_code'[e] = 1
        <3>1. f.op = 1
            BY <2>6 DEF IsFrame
        <3> QED
            BY <1>1, <2>1, <2>5, <3>1, LastOpCode, ZenonT(40)
    <2>8. pc'[e] = "wait" /\ status'[e] = "CONNECTED"
        BY <1>1, <2>1, <2>2 DEF Types
    <2>9. GoesOn(e)
        BY <2>7, <2>8 DEF GoesOn
    <2> QED
        BY <1>1, <2>4, <2>9, EndsKept, OtherEndIdle
<1>15. ASSUME NEW e \in Ends, retrieveMessage(e)
       PROVE  Retrieving' /\ WaitsForMissingParts'
    <2>1. /\ status' = [status EXCEPT ![e] = "CONNECTED"]
          /\ pc' = [pc EXCEPT ![e] = "recvMessage"]
          /\ last_op_code' = last_op_code /\ buffer' = buffer
        BY <1>15 DEF retrieveMessage
    <2>2. OneEnd(e)
        BY <1>3, <2>1, Zenon DEF OneEnd
    <2>3. status'[e] = "CONNECTED" /\ pc'[e] = "recvMessage"
        BY <1>1, <2>1 DEF Types
    <2>4. GoesOn(e)
        BY <2>3 DEF GoesOn
    <2> QED
        BY <1>1, <2>2, <2>4, EndsKept, OtherEndIdle
<1>16. ASSUME NEW e \in Ends, Call(e)
       PROVE  Retrieving' /\ WaitsForMissingParts'
    <2>1. Idle(e) /\ Idle(Peer(e))
        BY <1>16 DEF Idle, Call
    <2> QED
        BY <1>4, <2>1
<1>17. ASSUME NEW e \in Ends, recvMessage(e)
       PROVE  Retrieving' /\ WaitsForMissingParts'
    <2>1. readData(e) \/ readClose(e) \/ readPing(e) \/ readPong(e) \/ readUnknown(e)
             => ReadFrame(e, TRUE)
        BY DEF readData, readClose, readPing, readPong, readUnknown
    <2> QED
        BY <1>11, <1>12, <1>13, <1>14, <1>17, <2>1 DEF recvMessage
<1>18. ASSUME NEW e \in Ends, Send(e)
       PROVE  Retrieving' /\ WaitsForMissingParts'
    BY <1>16, <1>18 DEF Send, sendMessage, sendFrame, SendBad
<1>19. CASE Deliver
    BY <1>8, <1>9, <1>10, <1>15, <1>17, <1>19 DEF Deliver, Handshake, Arrives, Receive
<1>20. ASSUME NEW m, NEW i, NEW k, SendFragments(m, i, k)
       PROVE  Retrieving' /\ WaitsForMissingParts'
    BY <1>1, <1>16, <1>20 DEF SendFragments
<1>21. CASE Next
    BY <1>6, <1>7, <1>18, <1>19, <1>20, <1>21 DEF Next
<1> QED
    BY <1>5, <1>21

-----------------------------------------------------------------------------
(* The close frame. *)

IsClose(p) == IsHead(p) /\ p[1].op = 8

CloseEnds(s) == \A i \in 1 .. Len(s) : IsClose(s[i]) => i + Size(s[i][1]) - 1 = Len(s)
HasClose(s)  == \E i \in 1 .. Len(s) : IsClose(s[i])

(* A close is the last frame on its way, and its sender knows of it. *)
Closing ==
    \A d \in Ends : /\ CloseEnds(Frames(d))
                    /\ HasClose(Frames(d)) => close_frame_sent[Peer(d)]

LEMMA CloseInSuffix ==
    ASSUME NEW v, NEW d, NEW u, Suffix(v, d, u)
    PROVE  /\ CloseEnds(v) => CloseEnds(u)
           /\ HasClose(u) => HasClose(v)
           /\ CloseEnds(u) /\ (\A i \in 1 .. d : ~ IsClose(v[i])) => CloseEnds(v)
           /\ ~ HasClose(u) /\ (\A i \in 1 .. d : ~ IsClose(v[i])) => ~ HasClose(v)
<1>1. PICK n \in Nat : n = Len(u) /\ d \in Nat /\ Len(v) = d + n
    BY LenOfSeq DEF Suffix
<1>2. \A i \in 1 .. n : v[d + i] = u[i] /\ d + i \in 1 .. d + n
    <2>1. \A i \in 1 .. n : d + i \in 1 .. d + n
        BY <1>1
    <2>2. \A i \in 1 .. n : v[d + i] = u[i]
        BY <1>1 DEF Suffix
    <2> QED
        BY <2>1, <2>2
<1>3. ASSUME NEW i \in 1 .. n
      PROVE  i + Size(u[i][1]) - 1 = n <=> (d + i) + Size(v[d + i][1]) - 1 = d + n
    <2>1. PICK m \in Nat : m = Size(u[i][1]) /\ m = Size(v[d + i][1])
        BY <1>2, <1>3, SizeOfFrame
    <2>2. i + m - 1 = n <=> (d + i) + m - 1 = d + n
        BY <1>1, <1>3
    <2> QED
        BY <2>1, <2>2
<1>4. CloseEnds(v) => CloseEnds(u)
    BY <1>1, <1>2, <1>3 DEF CloseEnds
<1>5. HasClose(u) => HasClose(v)
    BY <1>1, <1>2 DEF HasClose
<1>6. ASSUME NEW i \in 1 .. d + n
      PROVE  i \in 1 .. d \/ \E j \in 1 .. n : i = d + j
    <2>1. CASE i <= d
        BY <1>1, <2>1
    <2>2. CASE ~(i <= d)
        <3>1. i - d \in 1 .. n /\ i = d + (i - d)
            BY <1>1, <2>2
        <3> QED
            BY <3>1
    <2> QED
        BY <2>1, <2>2
<1>7. ASSUME CloseEnds(u), \A i \in 1 .. d : ~ IsClose(v[i])
      PROVE  CloseEnds(v)
    <2>1. ASSUME NEW i \in 1 .. d + n, IsClose(v[i])
          PROVE  i + Size(v[i][1]) - 1 = d + n
        <3>1. PICK j \in 1 .. n : i = d + j
            BY <1>6, <1>7, <2>1
        <3>2. IsClose(u[j])
            BY <1>2, <2>1, <3>1
        <3> QED
            BY <1>1, <1>3, <1>7, <3>1, <3>2 DEF CloseEnds
    <2> QED
        BY <1>1, <2>1 DEF CloseEnds
<1>8. ASSUME ~ HasClose(u), \A i \in 1 .. d : ~ IsClose(v[i])
      PROVE  ~ HasClose(v)
    BY <1>1, <1>2, <1>6, <1>8 DEF HasClose
<1> QED
    BY <1>4, <1>5, <1>7, <1>8

LEMMA CloseInConcat ==
    ASSUME NEW s, NEW q, IsSeq(s), IsSeq(q), ~ HasClose(s), CloseEnds(q)
    PROVE  CloseEnds(s \o q) /\ (HasClose(s \o q) => HasClose(q))
<1>1. PICK v, d : v = s \o q /\ d = Len(s)
    OBVIOUS
<1>2. Suffix(v, d, q)
    BY <1>1, EndIsSuffix
<1>3. \A i \in 1 .. d : v[i] = s[i]
    BY <1>1, ConcatOfSeqs
<1>4. \A i \in 1 .. d : ~ IsClose(v[i])
    BY <1>1, <1>3 DEF HasClose
<1>5. CloseEnds(v) /\ (HasClose(v) => HasClose(q))
    BY <1>2, <1>4, CloseInSuffix
<1> QED
    BY <1>1, <1>5, Zenon

LEMMA CloseInParts ==
    ASSUME NEW f
    PROVE  CloseEnds(Parts(f)) /\ (HasClose(Parts(f)) => f.op = 8)
<1>1. PICK s : s = Parts(f)
    OBVIOUS
<1>2. PICK m \in Nat : m = Size(f) /\ m \in 1 .. 4
    BY SizeOfFrame
<1>3. /\ Len(s) = m /\ s[1] = <<f, "head">>
      /\ \A i \in 2 .. m : ~ IsHead(s[i])
    BY <1>1, <1>2, PartsOfFrame
<1>4. ASSUME NEW i \in 1 .. m, IsClose(s[i])
      PROVE  i = 1 /\ f.op = 8 /\ i + Size(s[i][1]) - 1 = m
    <2>1. i = 1 \/ i \in 2 .. m
        BY <1>2
    <2>2. i = 1
        BY <1>3, <1>4, <2>1 DEF IsClose
    <2>3. s[i][1] = f
        BY <1>3, <2>2
    <2>4. 1 + m - 1 = m
        BY <1>2
    <2> QED
        BY <1>2, <1>4, <2>2, <2>3, <2>4 DEF IsClose
<1> QED
    BY <1>1, <1>3, <1>4 DEF CloseEnds, HasClose

(* What an end puts on its way. *)
LEMMA CloseInPut ==
    ASSUME NEW a, NEW q, Puts(a, q), q # << >>
    PROVE  /\ ~ close_frame_sent[a]
           /\ CloseEnds(q) /\ (HasClose(q) => close_frame_sent'[a])
<1>1. ~ close_frame_sent[a]
    BY DEF Puts
<1>2. ASSUME NEW f, q = Parts(f), f.op = 8 => close_frame_sent'[a]
      PROVE  CloseEnds(q) /\ (HasClose(q) => close_frame_sent'[a])
    BY <1>2, CloseInParts
<1>3. ASSUME NEW f, NEW g, q = Parts(f) \o Parts(g), f.op = 1, g.op = 0
      PROVE  CloseEnds(q) /\ (HasClose(q) => close_frame_sent'[a])
    <2>1. PICK s, t : s = Parts(f) /\ t = Parts(g)
        OBVIOUS
    <2>2. IsSeq(s) /\ IsSeq(t)
        BY <2>1, PartsOfFrame
    <2>3. ~(f.op = 8) /\ ~(g.op = 8)
        BY <1>3
    <2>4. ~ HasClose(s) /\ CloseEnds(t) /\ ~ HasClose(t)
        BY <2>1, <2>3, CloseInParts
    <2>5. CloseEnds(s \o t) /\ ~ HasClose(s \o t)
        BY <2>2, <2>4, CloseInConcat
    <2> QED
        BY <1>3, <2>1, <2>5
<1>4. \A f : f.op = 2 => (f.op = 8 => close_frame_sent'[a])
    OBVIOUS
<1>5. CloseEnds(q) /\ (HasClose(q) => close_frame_sent'[a])
    BY <1>2, <1>3, <1>4 DEF Puts
<1> QED
    BY <1>1, <1>5

LEMMA ClosingKept ==
    ASSUME Linked, Retrieving, Closing, [Next]_vars
    PROVE  Closing'
<1>1. CASE Quiet /\ Stays
    BY <1>1, Zenon DEF Closing, Quiet, Stays
<1>2. ASSUME NEW a \in Ends, NEW n, NEW q, Step(a, n, q)
      PROVE  Closing'
    <2>1. /\ Types /\ AreSeqs /\ Handshakes /\ (\A d \in Ends : Stream(Frames(d)))
          /\ Moves(a, n, q) /\ Puts(a, q) /\ Others(Peer(a))
        BY <1>2 DEF Step, Linked
    <2>2. /\ Frames(a) = In(a) /\ Frames(a)' = Rest(Frames(a), n)
          /\ Frames(Peer(a))' = Frames(Peer(a)) \o q
        BY <2>1, MovesFrames
    <2>3. Peer(a) \in Ends /\ Ends = {a, Peer(a)} /\ Peer(Peer(a)) = a
        BY Peers
    <2>4. PICK s, t : s = Frames(a) /\ t = Frames(Peer(a))
        OBVIOUS
    <2>5. IsSeq(s) /\ IsSeq(t) /\ IsSeq(q)
        BY <2>1, <2>3, <2>4 DEF Stream, Moves
    <2>6. n \in 0 .. Len(s)
        <3>1. CASE n = 0
            BY <2>5, <3>1, LenOfSeq
        <3>2. CASE s # << >> /\ n = Size(s[1][1])
            BY <2>1, <2>4, <2>5, <3>2, RestStream, LenOfSeq
        <3> QED
            BY <2>1, <2>2, <2>4, <3>1, <3>2 DEF Moves
    <2>7. Suffix(s, n, Rest(s, n))
        BY <2>5, <2>6, RestIsSuffix
    <2>8. /\ CloseEnds(s) /\ (HasClose(s) => close_frame_sent[Peer(a)])
          /\ CloseEnds(t) /\ (HasClose(t) => close_frame_sent[a])
        BY <2>3, <2>4 DEF Closing
    <2>9. CloseEnds(Rest(s, n)) /\ (HasClose(Rest(s, n)) => close_frame_sent'[Peer(a)])
        BY <2>1, <2>7, <2>8, CloseInSuffix DEF Others
    <2>10. CloseEnds(t \o q) /\ (HasClose(t \o q) => close_frame_sent'[a])
        <3>1. CASE q = << >>
            <4>1. t \o q = t
                BY <2>5, <3>1, NothingMore
            <4>2. close_frame_sent[a] => close_frame_sent'[a]
                BY <2>1 DEF Puts
            <4> QED
                BY <2>8, <4>1, <4>2
        <3>2. CASE q # << >>
            <4>1. /\ ~ close_frame_sent[a]
                  /\ CloseEnds(q) /\ (HasClose(q) => close_frame_sent'[a])
                BY <2>1, <3>2, CloseInPut
            <4> QED
                BY <2>5, <2>8, <4>1, CloseInConcat
        <3> QED
            BY <3>1, <3>2
    <2>11. ASSUME NEW d \in Ends
           PROVE  CloseEnds(Frames(d))' /\ (HasClose(Frames(d))' => close_frame_sent'[Peer(d)])
        <3>1. CASE d = a
            BY <2>2, <2>4, <2>9, <3>1
        <3>2. CASE d = Peer(a)
            BY <2>2, <2>3, <2>4, <2>10, <3>2
        <3> QED
            BY <2>3, <3>1, <3>2
    <2> QED
        BY <2>11 DEF Closing, Peer
<1> QED
    BY <1>1, <1>2, AllSteps

LEMMA ClosingIsLast ==
    ASSUME Linked, Closing
    PROVE  CloseIsLast
<1>1. AreSeqs /\ Handshakes
    BY DEF Linked
<1>2. ASSUME NEW e \in Ends
      PROVE  CloseEnds(In(e))
    <2>1. CASE status[e] \in Beyond
        BY <2>1 DEF Closing, Frames
    <2>2. CASE In(e) = << >>
        <3>1. \A i \in 1 .. 0 : FALSE
            OBVIOUS
        <3>2. Len(<< >>) = 0
            OBVIOUS
        <3> QED
            BY <2>2, <3>1, <3>2 DEF CloseEnds
    <2>3. CASE status[e] \notin Beyond /\ In(e) # << >>
        <3>1. Len(In(e)) >= 2 /\ ~ IsHead(In(e)[1]) /\ ~ IsHead(In(e)[2])
            <4>1. CASE status["server"] \in Early
                <5>1. e = "server" /\ In(e) = Request(key)
                    BY <1>1, <2>3, <4>1 DEF Handshakes, Ends
                <5> QED
                    BY <5>1, TwoParts DEF Request, IsHead
            <4>2. CASE status["server"] \in Beyond
                <5>1. e = "client"
                    BY <2>3, <4>2 DEF Ends
                <5> QED
                    BY <1>1, <2>3, <4>2, <5>1 DEF Handshakes, IsHead
            <4> QED
                BY <1>1, <4>1, <4>2 DEF Handshakes
        <3>2. PICK s : s = In(e)
            OBVIOUS
        <3>3. IsSeq(s) /\ 2 \in 0 .. Len(s)
            BY <1>1, <3>1, <3>2, InIsSeq
        <3>4. Suffix(s, 2, Rest(s, 2))
            BY <3>3, RestIsSuffix
        <3>5. CloseEnds(Rest(s, 2))
            BY <2>3, <3>2 DEF Closing, Frames
        <3>6. \A i \in 1 .. 2 : i = 1 \/ i = 2
            OBVIOUS
        <3>7. \A i \in 1 .. 2 : ~ IsClose(s[i])
            BY <3>1, <3>2, <3>6 DEF IsClose
        <3> QED
            BY <3>2, <3>4, <3>5, <3>7, CloseInSuffix
    <2> QED
        BY <2>1, <2>2, <2>3
<1> QED
    BY <1>2 DEF CloseIsLast, CloseEnds, IsClose, IsHead, In, Size

-----------------------------------------------------------------------------
(* The invariant of a connection. *)

ConnInv == Linked /\ Retrieving /\ WaitsForMissingParts /\ Closing

LEMMA ConnInit ==
    ASSUME Init
    PROVE  ConnInv /\ \A e \in Ends : Frames(e) = << >>
<1>1. \A e \in Ends : /\ status[e] = "DETACHED" /\ buffer[e] = << >> /\ wire[e] = << >>
                      /\ pc[e] = "wait"
    BY DEF Init
<1>2. "client" \in Ends /\ "server" \in Ends
    BY DEF Ends
<1>3. Types
    BY DEF Init, Types, OnEnds, Statuses, Early
<1>4. IsSeq(<< >>) /\ Rest(<< >>, 2) = << >>
    BY TwoParts
<1>5. << >> \o << >> = << >>
    BY <1>4, NothingMore
<1>6. AreSeqs
    BY <1>1, <1>4 DEF AreSeqs
<1>7. \A e \in Ends : In(e) = << >>
    BY <1>1, <1>5 DEF In
<1>8. \A e \in Ends : Frames(e) = << >>
    BY <1>4, <1>7 DEF Frames
<1>9. Handshakes
    BY <1>1, <1>2, <1>7 DEF Handshakes, Beyond, Early, Established
<1>10. Linked
    BY <1>3, <1>6, <1>8, <1>9, EmptyStream DEF Linked
<1>11. Retrieving /\ WaitsForMissingParts
    BY <1>1 DEF Retrieving, WaitsForMissingParts, Stalled
<1>12. Closing
    <2>1. Len(<< >>) = 0 /\ \A i \in 1 .. 0 : FALSE
        OBVIOUS
    <2>2. CloseEnds(<< >>) /\ ~ HasClose(<< >>)
        BY <2>1 DEF CloseEnds, HasClose
    <2> QED
        BY <1>8, <2>2 DEF Closing
<1> QED
    BY <1>8, <1>10, <1>11, <1>12 DEF ConnInv

LEMMA ConnStep ==
    ASSUME ConnInv, [Next]_vars
    PROVE  ConnInv'
    BY LinkedKept, EndsKeptAlways, ClosingKept DEF ConnInv

LEMMA ConnAlways == Spec => []ConnInv
<1>1. Init => ConnInv
    BY ConnInit
<1>2. ConnInv /\ [Next]_vars => ConnInv'
    BY ConnStep
<1> QED
    BY <1>1, <1>2, PTL DEF Spec

(* A client that takes the connection for established (readHandshakeResponse, *)
(* checkHandshakeResponseValid) has a server that accepted its handshake and  *)
(* answered its key, whatever was sent in between and however it was cut.     *)
THEOREM ClientIsRight == Spec => []ClientBelievesServer
<1>1. ConnInv => ClientBelievesServer
    BY DEF ConnInv, Linked, Handshakes, ClientBelievesServer, Established, Beyond, Early
<1> QED
    BY <1>1, ConnAlways, PTL

(* Nothing follows a close frame (sendCloseFrame, close_frame_sent_), neither *)
(* what the application sends nor the answers of readFrame to pings and       *)
(* closes.                                                                    *)
THEOREM NothingFollowsAClose == Spec => []CloseIsLast
<1>1. ConnInv => CloseIsLast
    BY ClosingIsLast DEF ConnInv
<1> QED
    BY <1>1, ConnAlways, PTL

(* recvMessage returns 0 with a whole frame in the buffer only behind a       *)
(* fragment.                                                                  *)
THEOREM WaitingIsJustified == Spec => []WaitsForMissingParts
<1>1. ConnInv => WaitsForMissingParts
    BY DEF ConnInv
<1> QED
    BY <1>1, ConnAlways, PTL

-----------------------------------------------------------------------------
(* The messages.  c counts those an application has when what is on its    *)
(* way has been read up to a part: all are the messages the other end has  *)
(* sent.                                                                   *)

(* A frame f adds its message: x, y and z are the counts before it, with   *)
(* it and with the frame g behind it, at j of n parts.                     *)
Adds(e, f, j, n, g, x, y, z, all) ==
    /\ y <= Len(all)
    /\ f.op \in {1, 2} => IsSeq(Payload(f))
    /\ f.op = 2 => y = x + 1 /\ Agrees(e, Payload(f), all[y])
    /\ f.op = 1 => /\ y = x /\ j <= n /\ g.op = 0
                   /\ z = y + 1 /\ z <= Len(all)
                   /\ Payload(f) \o Payload(g) = all[z]
    /\ f.op \notin {0, 1, 2} => y = x

Counted(e, s, c, all, i) ==
    LET f == s[i][1]
        n == i + Size(f)
    IN /\ \A k \in 1 .. Size(f) : c[i + k - 1] = c[i]
       /\ Adds(e, f, n, Len(s), s[n][1], c[i - 1], c[i], c[n], all)

Counts(e, s, c, all) ==
    /\ c \in [0 .. Len(s) -> Nat]
    /\ c[Len(s)] = Len(all)
    /\ \A i \in 1 .. Len(s) : IsHead(s[i]) => Counted(e, s, c, all, i)

(* What the application has read of it: st, op and msg are the status, the *)
(* opcode of a message that was begun, and message_; n messages were       *)
(* retrieved.                                                              *)
Front(e, st, op, msg, n, s, c, all) ==
    \/ /\ st = "FINISHED" /\ op = -1
       /\ c[0] = n + 1 /\ c[0] <= Len(all)
       /\ Agrees(e, msg, all[c[0]])
    \/ /\ st # "FINISHED" /\ op = -1
       /\ c[0] = n /\ msg = << >>
    \/ /\ st # "FINISHED" /\ op = 1
       /\ c[0] = n
       /\ s # << >> /\ s[1][1].op = 0 /\ c[1] = n + 1 /\ c[1] <= Len(all)
       /\ msg \o Payload(s[1][1]) = all[c[1]]

Had(e, g, all) ==
    /\ IsSeq(g) /\ Len(g) <= Len(all)
    /\ \A i \in 1 .. Len(g) : Agrees(e, g[i], all[i])

Messages(e, st, op, msg, g, s, all) ==
    /\ IsSeq(all)
    /\ Had(e, g, all)
    /\ \/ st \in Over
       \/ \E c : Counts(e, s, c, all) /\ Front(e, st, op, msg, Len(g), s, c, all)

(* With what is on its way, every message that was sent. *)
Received ==
    \A e \in Ends : Messages(e, status[e], last_op_code[e], message[e], got[e],
                             Frames(e), sent[Peer(e)])

(* The count of the end of a stream. *)
LEMMA CountedInSuffix ==
    ASSUME NEW v, NEW d, NEW u, Suffix(v, d, u), NEW b, NEW c,
           \A j \in 0 .. Len(u) : b[d + j] = c[j],
           NEW i \in 1 .. Len(u), Whole(u, i), NEW p, p = d + i, NEW e, NEW all
    PROVE  Counted(e, v, b, all, p) <=> Counted(e, u, c, all, i)
<1>1. PICK n \in Nat : n = Len(u) /\ d \in Nat /\ Len(v) = d + n /\ i \in 1 .. n
    BY LenOfSeq DEF Suffix
<1>2. \A j \in 1 .. n : v[d + j] = u[j]
    BY <1>1 DEF Suffix
<1>3. PICK f : u[i][1] = f /\ v[p][1] = f
    BY <1>1, <1>2
<1>4. PICK m \in Nat : Size(f) = m /\ m \in 1 .. 4
    BY SizeOfFrame
<1>5. i + m <= n + 1
    BY <1>1, <1>3, <1>4 DEF Whole
<1>6. b[p] = c[i] /\ b[p - 1] = c[i - 1]
    <2>1. i \in 0 .. n /\ i - 1 \in 0 .. n /\ p = d + i /\ p - 1 = d + (i - 1)
        BY <1>1
    <2> QED
        BY <1>1, <2>1
<1>7. \A k \in 1 .. m : b[p + k - 1] = c[i + k - 1]
    <2>1. \A k \in 1 .. m : i + k - 1 \in 0 .. n /\ p + k - 1 = d + (i + k - 1)
        BY <1>1, <1>4, <1>5
    <2> QED
        BY <1>1, <2>1
<1>8. p + m <= d + n <=> i + m <= n
    BY <1>1, <1>4
<1>9. i + m <= n => v[p + m] = u[i + m] /\ b[p + m] = c[i + m]
    <2>1. i + m <= n => i + m \in 1 .. n /\ i + m \in 0 .. n /\ p + m = d + (i + m)
        BY <1>1, <1>4
    <2> QED
        BY <1>1, <1>2, <2>1
<1>10. (\A k \in 1 .. m : b[p + k - 1] = b[p]) <=> (\A k \in 1 .. m : c[i + k - 1] = c[i])
    BY <1>6, <1>7
<1>11. Counted(e, v, b, all, p) <=>
          /\ \A k \in 1 .. m : b[p + k - 1] = b[p]
          /\ Adds(e, f, p + m, d + n, v[p + m][1], b[p - 1], b[p], b[p + m], all)
    <2>1. v[p][1] = f /\ Size(f) = m /\ Len(v) = d + n
        BY <1>1, <1>3, <1>4
    <2> QED
        BY <2>1, Zenon DEF Counted
<1>12. Counted(e, u, c, all, i) <=>
          /\ \A k \in 1 .. m : c[i + k - 1] = c[i]
          /\ Adds(e, f, i + m, n, u[i + m][1], c[i - 1], c[i], c[i + m], all)
    <2>1. u[i][1] = f /\ Size(f) = m /\ Len(u) = n
        BY <1>1, <1>3, <1>4
    <2> QED
        BY <2>1, Zenon DEF Counted
<1>13. CASE i + m <= n
    <2>1. /\ p + m <= d + n
          /\ v[p + m][1] = u[i + m][1]
        BY <1>8, <1>9, <1>13
    <2>2. Adds(e, f, p + m, d + n, v[p + m][1], b[p - 1], b[p], b[p + m], all)
          <=> Adds(e, f, i + m, n, u[i + m][1], c[i - 1], c[i], c[i + m], all)
        BY <1>6, <1>9, <1>13, <2>1, Zenon DEF Adds
    <2> QED
        BY <1>10, <2>2, <1>11, <1>12, Zenon
<1>14. CASE ~(i + m <= n)
    <2>1. ~(p + m <= d + n)
        BY <1>8, <1>14
    <2>2. Adds(e, f, p + m, d + n, v[p + m][1], b[p - 1], b[p], b[p + m], all)
          <=> Adds(e, f, i + m, n, u[i + m][1], c[i - 1], c[i], c[i + m], all)
        BY <1>6, <1>14, <2>1, Zenon DEF Adds
    <2> QED
        BY <1>10, <2>2, <1>11, <1>12, Zenon
<1> QED
    BY <1>13, <1>14

(* More messages may follow, and more parts. *)
Longer(all, more) ==
    /\ IsSeq(all) /\ IsSeq(more)
    /\ Len(all) <= Len(more)
    /\ \A i \in 1 .. Len(all) : more[i] = all[i]

LEMMA AddsMore ==
    ASSUME NEW all, NEW more, Longer(all, more), NEW e, NEW f, NEW g,
           NEW j \in Nat, NEW n \in Nat, NEW l \in Nat, n <= l,
           NEW x \in Nat, NEW y \in Nat, NEW z, Adds(e, f, j, n, g, x, y, z, all)
    PROVE  Adds(e, f, j, l, g, x, y, z, more)
<1>1. PICK t \in Nat, u \in Nat : t = Len(all) /\ u = Len(more)
    BY LenOfSeq DEF Longer
<1>2. t <= u /\ y <= t /\ y <= u
    <2>1. t <= u /\ y <= t
        BY <1>1 DEF Longer, Adds
    <2> QED
        BY <2>1
<1>3. f.op \in {1, 2} => IsSeq(Payload(f))
    BY DEF Adds
<1>4. f.op = 2 => y = x + 1 /\ Agrees(e, Payload(f), more[y])
    <2>1. f.op = 2 => y = x + 1 /\ Agrees(e, Payload(f), all[y])
        BY DEF Adds
    <2>2. y = x + 1 => y \in 1 .. t
        BY <1>2
    <2>3. \A i \in 1 .. t : more[i] = all[i]
        BY <1>1 DEF Longer
    <2> QED
        BY <2>1, <2>2, <2>3
<1>5. f.op = 1 => /\ y = x /\ j <= l /\ g.op = 0
                  /\ z = y + 1 /\ z <= u
                  /\ Payload(f) \o Payload(g) = more[z]
    <2>1. f.op = 1 => /\ y = x /\ j <= n /\ g.op = 0
                      /\ z = y + 1 /\ z <= t
                      /\ Payload(f) \o Payload(g) = all[z]
        BY <1>1 DEF Adds
    <2>2. z = y + 1 /\ z <= t => z \in 1 .. t /\ z <= u
        BY <1>2
    <2>3. j <= n => j <= l
        OBVIOUS
    <2>4. \A i \in 1 .. t : more[i] = all[i]
        BY <1>1 DEF Longer
    <2> QED
        BY <2>1, <2>2, <2>3, <2>4
<1>6. f.op \notin {0, 1, 2} => y = x
    BY DEF Adds
<1> QED
    BY <1>1, <1>2, <1>3, <1>4, <1>5, <1>6, Zenon DEF Adds

(* What follows a counted stream is counted from there. *)
LEMMA ConcatCounts ==
    ASSUME NEW e, NEW s, NEW q, Stream(s), Stream(q),
           NEW all, NEW more, Longer(all, more), NEW c, NEW d,
           Counts(e, s, c, all), Counts(e, q, d, more), d[0] = Len(all)
    PROVE  \E b : /\ Counts(e, s \o q, b, more)
                  /\ b[0] = c[0] /\ (s # << >> => b[1] = c[1])
<1>1. IsSeq(s) /\ IsSeq(q)
    BY DEF Stream
<1>2. PICK l \in Nat, r \in Nat : l = Len(s) /\ r = Len(q)
    BY <1>1, LenOfSeq
<1>3. PICK v : v = s \o q
    OBVIOUS
<1>4. /\ IsSeq(v) /\ Len(v) = l + r /\ Suffix(v, l, q)
      /\ \A i \in 1 .. l : v[i] = s[i]
      /\ \A i \in 1 .. r : v[l + i] = q[i]
    BY <1>1, <1>2, <1>3, ConcatOfSeqs, EndIsSuffix
<1>5. /\ c \in [0 .. l -> Nat] /\ c[l] = Len(all)
      /\ d \in [0 .. r -> Nat] /\ d[r] = Len(more)
      /\ \A i \in 1 .. l : IsHead(s[i]) => Counted(e, s, c, all, i)
      /\ \A i \in 1 .. r : IsHead(q[i]) => Counted(e, q, d, more, i)
    BY <1>2 DEF Counts
<1>6. PICK b : b = [j \in 0 .. l + r |-> IF j <= l THEN c[j] ELSE d[j - l]]
    OBVIOUS
<1>7. \A j \in 0 .. l : b[j] = c[j]
    BY <1>6
<1>8. \A j \in 0 .. r : b[l + j] = d[j]
    <2>1. d[0] = c[l]
        BY <1>5
    <2>2. \A j \in 1 .. r : b[l + j] = d[j]
        <3>1. \A j \in 1 .. r : l + j \in 0 .. l + r /\ ~(l + j <= l) /\ (l + j) - l = j
            OBVIOUS
        <3> QED
            BY <1>6, <3>1
    <2>3. b[l + 0] = c[l]
        <3>1. l + 0 = l /\ l \in 0 .. l
            OBVIOUS
        <3> QED
            BY <1>7, <3>1
    <2>4. \A j \in 0 .. r : j = 0 \/ j \in 1 .. r
        OBVIOUS
    <2> QED
        BY <2>1, <2>2, <2>3, <2>4
<1>9. b \in [0 .. l + r -> Nat]
    <2>1. ASSUME NEW j \in 0 .. l + r
          PROVE  (IF j <= l THEN c[j] ELSE d[j - l]) \in Nat
        <3>1. (j <= l => j \in 0 .. l) /\ (~(j <= l) => j - l \in 0 .. r)
            OBVIOUS
        <3> QED
            BY <1>5, <3>1
    <2> QED
        BY <1>6, <2>1
<1>10. b[l + r] = Len(more)
    BY <1>5, <1>8
<1>11. ASSUME NEW i \in 1 .. l, IsHead(v[i])
       PROVE  Counted(e, v, b, more, i)
    <2>1. IsHead(s[i]) /\ v[i] = s[i]
        BY <1>4, <1>11
    <2>2. Counted(e, s, c, all, i) /\ Whole(s, i)
        BY <1>2, <1>5, <2>1 DEF Stream
    <2>3. PICK f : s[i][1] = f /\ v[i][1] = f
        BY <2>1
    <2>4. PICK m \in Nat : Size(f) = m /\ m \in 1 .. 4
        BY SizeOfFrame
    <2>5. i + m <= l + 1
        BY <1>2, <2>2, <2>3, <2>4 DEF Whole
    <2>6. /\ \A k \in 1 .. m : c[i + k - 1] = c[i]
          /\ Adds(e, f, i + m, l, s[i + m][1], c[i - 1], c[i], c[i + m], all)
        BY <1>2, <2>2, <2>3, <2>4, Zenon DEF Counted
    <2>7. \A k \in 1 .. m : b[i + k - 1] = b[i]
        <3>1. \A k \in 1 .. m : i + k - 1 \in 0 .. l /\ i \in 0 .. l
            BY <2>4, <2>5
        <3> QED
            BY <1>7, <2>6, <3>1
    <2>8. /\ b[i] = c[i] /\ b[i - 1] = c[i - 1] /\ c[i] \in Nat /\ c[i - 1] \in Nat
          /\ i + m \in Nat /\ l + r \in Nat /\ l <= l + r
        <3>1. i \in 0 .. l /\ i - 1 \in 0 .. l
            OBVIOUS
        <3> QED
            BY <1>5, <1>7, <2>4, <3>1
    <2>9. i + m <= l => s[i + m] = v[i + m] /\ c[i + m] = b[i + m]
        <3>1. i + m <= l => i + m \in 1 .. l /\ i + m \in 0 .. l
            BY <2>4
        <3> QED
            BY <1>4, <1>7, <3>1
    <2>10. Adds(e, f, i + m, l + r, s[i + m][1], c[i - 1], c[i], c[i + m], more)
        BY <2>6, <2>8, AddsMore
    <2>11. f.op = 1 => i + m <= l
        BY <2>6 DEF Adds
    <2>12. Adds(e, f, i + m, l + r, v[i + m][1], b[i - 1], b[i], b[i + m], more)
        BY <2>8, <2>9, <2>10, <2>11, Zenon DEF Adds
    <2> QED
        BY <1>4, <2>3, <2>4, <2>7, <2>12, Zenon DEF Counted
<1>12. ASSUME NEW j \in 1 .. r, IsHead(v[l + j])
       PROVE  Counted(e, v, b, more, l + j)
    <2>1. IsHead(q[j])
        BY <1>4, <1>12
    <2>2. Counted(e, q, d, more, j) /\ Whole(q, j)
        BY <1>2, <1>5, <2>1 DEF Stream
    <2>3. j \in 1 .. Len(q) /\ (\A k \in 0 .. Len(q) : b[l + k] = d[k]) /\ Suffix(v, l, q)
        BY <1>2, <1>4, <1>8
    <2>4. PICK p : p = l + j
        OBVIOUS
    <2>5. Counted(e, v, b, more, p)
        BY <2>2, <2>3, <2>4, CountedInSuffix
    <2> QED
        BY <2>4, <2>5, Zenon
<1>13. \A i \in 1 .. l + r : IsHead(v[i]) => Counted(e, v, b, more, i)
    <2>1. ASSUME NEW i \in 1 .. l + r, IsHead(v[i]), ~(i <= l)
          PROVE  Counted(e, v, b, more, i)
        <3>1. PICK j \in 1 .. r : i = l + j
            <4>1. i - l \in 1 .. r /\ i = l + (i - l)
                BY <2>1
            <4> QED
                BY <4>1
        <3> QED
            BY <1>12, <2>1, <3>1
    <2>2. \A i \in 1 .. l + r : i <= l => i \in 1 .. l
        OBVIOUS
    <2> QED
        BY <1>11, <2>1, <2>2
<1>14. Counts(e, v, b, more)
    BY <1>4, <1>9, <1>10, <1>13 DEF Counts
<1>15. b[0] = c[0] /\ (s # << >> => b[1] = c[1])
    <2>1. s # << >> => 1 \in 0 .. l
        BY <1>1, <1>2, LenOfSeq
    <2> QED
        BY <1>7, <2>1
<1> QED
    BY <1>3, <1>14, <1>15

(* The first frame of a counted stream, and the rest. *)
LEMMA FirstCounted ==
    ASSUME NEW e, NEW s, Stream(s), s # << >>, NEW all, NEW c, Counts(e, s, c, all),
           NEW f, s[1][1] = f, NEW n, Size(f) = n
    PROVE  /\ n \in Nat /\ n \in 1 .. Len(s) /\ Len(s) \in Nat
           /\ c \in [0 .. Len(s) -> Nat] /\ c[n] = c[1]
           /\ Adds(e, f, 1 + n, Len(s), s[1 + n][1], c[0], c[1], c[1 + n], all)
<1>1. IsSeq(s) /\ Len(s) \in Nat /\ Len(s) # 0
    BY LenOfSeq DEF Stream
<1>2. IsHead(s[1]) /\ Size(s[1][1]) \in 1 .. Len(s)
    BY RestStream
<1>3. n \in 1 .. Len(s) /\ n \in Nat
    BY <1>1, <1>2
<1>4. c \in [0 .. Len(s) -> Nat] /\ Counted(e, s, c, all, 1)
    BY <1>1, <1>2 DEF Counts
<1>5. PICK l \in Nat : Len(s) = l
    BY <1>1
<1>6. /\ \A k \in 1 .. n : c[1 + k - 1] = c[1]
      /\ Adds(e, f, 1 + n, l, s[1 + n][1], c[1 - 1], c[1], c[1 + n], all)
    BY <1>4, <1>5, Zenon DEF Counted
<1>7. 1 - 1 = 0 /\ 1 + n - 1 = n /\ n \in 1 .. n
    BY <1>3
<1> QED
    BY <1>1, <1>3, <1>4, <1>5, <1>6, <1>7

LEMMA RestCounts ==
    ASSUME NEW e, NEW s, Stream(s), s # << >>, NEW all, NEW c, Counts(e, s, c, all),
           NEW f, s[1][1] = f, NEW n, Size(f) = n
    PROVE  \E b : /\ Counts(e, Rest(s, n), b, all)
                  /\ b[0] = c[1] /\ (1 + n <= Len(s) => b[1] = c[1 + n])
<1>1. /\ n \in Nat /\ n \in 1 .. Len(s) /\ Len(s) \in Nat
      /\ c \in [0 .. Len(s) -> Nat] /\ c[n] = c[1]
    BY FirstCounted
<1>2. PICK l \in Nat, r \in Nat : Len(s) = l /\ l = n + r
    <2>1. Len(s) - n \in Nat /\ Len(s) = n + (Len(s) - n)
        BY <1>1
    <2> QED
        BY <1>1, <2>1
<1>3. PICK u : u = Rest(s, n)
    OBVIOUS
<1>4. Stream(u) /\ Suffix(s, n, u) /\ Len(u) = r
    <2>1. IsSeq(s) /\ n \in 0 .. Len(s) /\ Len(s) - n = r
        BY <1>1, <1>2 DEF Stream
    <2>2. Suffix(s, n, u) /\ Len(u) = r
        BY <1>3, <2>1, RestIsSuffix, RestOfSeq
    <2>3. Stream(Rest(s, Size(s[1][1])))
        BY RestStream
    <2> QED
        BY <1>3, <2>2, <2>3
<1>5. PICK b : b = [j \in 0 .. r |-> c[n + j]]
    OBVIOUS
<1>6. \A j \in 0 .. r : c[n + j] = b[j]
    BY <1>5
<1>7. b \in [0 .. r -> Nat]
    <2>1. \A j \in 0 .. r : n + j \in 0 .. l
        BY <1>1, <1>2
    <2> QED
        BY <1>1, <1>2, <1>5, <2>1
<1>8. b[r] = Len(all)
    <2>1. c[l] = Len(all)
        BY <1>2 DEF Counts
    <2> QED
        BY <1>2, <1>5, <2>1
<1>9. ASSUME NEW i \in 1 .. r, IsHead(u[i])
      PROVE  Counted(e, u, b, all, i)
    <2>1. PICK p \in 1 .. l : p = n + i
        BY <1>1, <1>2
    <2>2. s[n + i] = u[i] /\ Whole(u, i)
        BY <1>4, <1>9 DEF Suffix, Stream
    <2>3. Counted(e, s, c, all, p)
        BY <1>2, <1>9, <2>1, <2>2 DEF Counts
    <2>4. i \in 1 .. Len(u) /\ (\A j \in 0 .. Len(u) : c[n + j] = b[j]) /\ Suffix(s, n, u)
        BY <1>4, <1>6
    <2> QED
        BY <2>1, <2>2, <2>3, <2>4, CountedInSuffix
<1>10. Counts(e, u, b, all)
    BY <1>4, <1>7, <1>8, <1>9 DEF Counts
<1>11. b[0] = c[1]
    <2>1. n + 0 = n /\ 0 \in 0 .. r
        BY <1>1
    <2> QED
        BY <1>1, <1>6, <2>1
<1>12. 1 + n <= Len(s) => b[1] = c[1 + n]
    <2>1. 1 + n <= Len(s) => 1 \in 0 .. r /\ n + 1 = 1 + n
        BY <1>1, <1>2
    <2> QED
        BY <1>6, <2>1
<1> QED
    BY <1>3, <1>10, <1>11, <1>12

CountsFrom(e, q, t, more) == \E d : Counts(e, q, d, more) /\ d[0] = t

(* A frame that is sent alone. *)
LEMMA FrameCounts ==
    ASSUME NEW e, NEW f, NEW t \in Nat, NEW more, Len(more) \in Nat,
           f.op \notin {1, 2} => Len(more) = t,
           f.op = 2 => /\ Len(more) = t + 1 /\ IsSeq(Payload(f))
                       /\ Agrees(e, Payload(f), more[t + 1]),
           f.op # 1
    PROVE  CountsFrom(e, Parts(f), t, more)
<1>0. PICK u \in Nat : /\ Len(more) = u
                       /\ f.op \notin {1, 2} => u = t
                       /\ f.op = 2 => /\ u = t + 1 /\ IsSeq(Payload(f))
                                      /\ Agrees(e, Payload(f), more[u])
    OBVIOUS
<1>1. PICK n \in Nat : Size(f) = n /\ n \in 1 .. 4
    BY SizeOfFrame
<1>2. PICK q : q = Parts(f)
    OBVIOUS
<1>3. /\ Len(q) = n /\ q[1] = <<f, "head">>
      /\ \A i \in 2 .. n : ~ IsHead(q[i])
    BY <1>1, <1>2, PartsOfFrame
<1>4. PICK d : d = [j \in 0 .. n |-> IF j = 0 THEN t ELSE u]
    OBVIOUS
<1>5. d \in [0 .. n -> Nat] /\ d[0] = t /\ (\A j \in 1 .. n : d[j] = u) /\ d[n] = u
    BY <1>1, <1>4
<1>6. Counted(e, q, d, more, 1)
    <2>1. \A k \in 1 .. n : d[1 + k - 1] = d[1]
        <3>1. \A k \in 1 .. n : 1 + k - 1 = k /\ 1 \in 1 .. n
            BY <1>1
        <3> QED
            BY <1>5, <3>1
    <2>2. d[1 - 1] = t /\ d[1] = u
        <3>1. 1 - 1 = 0 /\ 1 \in 1 .. n
            BY <1>1
        <3> QED
            BY <1>5, <3>1
    <2>3. u <= u /\ f.op # 1
        OBVIOUS
    <2>4. Adds(e, f, 1 + n, n, q[1 + n][1], t, u, d[1 + n], more)
        BY <1>0, <2>3 DEF Adds
    <2>5. q[1][1] = f
        BY <1>3
    <2>6. Adds(e, f, 1 + n, n, q[1 + n][1], d[1 - 1], d[1], d[1 + n], more)
        BY <2>2, <2>4
    <2> QED
        BY <1>1, <1>3, <2>1, <2>5, <2>6, Zenon DEF Counted
<1>7. \A i \in 1 .. n : i = 1 \/ i \in 2 .. n
    OBVIOUS
<1>8. Counts(e, q, d, more)
    BY <1>0, <1>3, <1>5, <1>6, <1>7 DEF Counts
<1> QED
    BY <1>2, <1>5, <1>8 DEF CountsFrom

(* A message that is sent in two frames. *)
LEMMA FragmentCounts ==
    ASSUME NEW e, NEW f, NEW g, f.op = 1, g.op = 0, IsSeq(Payload(f)),
           NEW t \in Nat, NEW more, Len(more) = t + 1,
           Payload(f) \o Payload(g) = more[t + 1]
    PROVE  CountsFrom(e, Parts(f) \o Parts(g), t, more)
<1>1. PICK n \in Nat : Size(f) = n /\ n \in 1 .. 4
    BY SizeOfFrame
<1>2. PICK m \in Nat : Size(g) = m /\ m \in 1 .. 4
    BY SizeOfFrame
<1>3. PICK x, y : x = Parts(f) /\ y = Parts(g)
    OBVIOUS
<1>4. PICK q : q = x \o y
    OBVIOUS
<1>5. /\ Len(q) = n + m
      /\ \A i \in 1 .. n : q[i] = x[i]
      /\ \A i \in 1 .. m : q[n + i] = y[i]
    <2>1. IsSeq(x) /\ Len(x) = n /\ IsSeq(y) /\ Len(y) = m
        BY <1>1, <1>2, <1>3, PartsOfFrame
    <2>2. IsSeq(x) /\ IsSeq(y)
        BY <2>1
    <2>3. /\ Len(q) = Len(x) + Len(y)
          /\ \A i \in 1 .. Len(x) : q[i] = x[i]
          /\ \A i \in 1 .. Len(y) : q[Len(x) + i] = y[i]
        <3>1. /\ Len(x \o y) = Len(x) + Len(y)
              /\ \A i \in 1 .. Len(x) : (x \o y)[i] = x[i]
              /\ \A i \in 1 .. Len(y) : (x \o y)[Len(x) + i] = y[i]
            BY <2>2, ConcatOfSeqs
        <3> QED
            BY <1>4, <3>1, Zenon
    <2> QED
        BY <2>1, <2>3
<1>6. /\ q[1][1] = f /\ q[n + 1][1] = g
      /\ \A i \in 2 .. n : ~ IsHead(q[i])
      /\ \A i \in 2 .. m : ~ IsHead(q[n + i])
    <2>1. /\ x[1] = <<f, "head">> /\ y[1] = <<g, "head">>
          /\ \A i \in 2 .. n : ~ IsHead(x[i])
          /\ \A i \in 2 .. m : ~ IsHead(y[i])
        BY <1>1, <1>2, <1>3, PartsOfFrame
    <2>2. 1 \in 1 .. n /\ 1 \in 1 .. m
        BY <1>1, <1>2
    <2>3. q[1] = x[1] /\ q[n + 1] = y[1]
        BY <1>5, <2>2
    <2>4. \A i \in 2 .. n : q[i] = x[i]
        BY <1>5
    <2>5. \A i \in 2 .. m : q[n + i] = y[i]
        BY <1>5
    <2>6. q[1][1] = f /\ q[n + 1][1] = g
        BY <2>1, <2>3
    <2>7. \A i \in 2 .. n : ~ IsHead(q[i])
        BY <2>1, <2>4
    <2>8. \A i \in 2 .. m : ~ IsHead(q[n + i])
        BY <2>1, <2>5
    <2> QED
        BY <2>6, <2>7, <2>8
<1>7. PICK d : d = [j \in 0 .. n + m |-> IF j <= n THEN t ELSE t + 1]
    OBVIOUS
<1>8. /\ d \in [0 .. n + m -> Nat]
      /\ \A j \in 0 .. n : d[j] = t
      /\ \A j \in 1 .. m : d[n + j] = t + 1
    <2>1. d \in [0 .. n + m -> Nat]
        BY <1>7
    <2>2. \A j \in 0 .. n : j \in 0 .. n + m /\ j <= n
        OBVIOUS
    <2>3. \A j \in 1 .. m : n + j \in 0 .. n + m /\ ~(n + j <= n)
        OBVIOUS
    <2> QED
        BY <1>7, <2>1, <2>2, <2>3
<1>9. Counted(e, q, d, more, 1)
    <2>1. \A k \in 1 .. n : d[1 + k - 1] = d[1]
        <3>1. \A k \in 1 .. n : 1 + k - 1 = k /\ k \in 0 .. n /\ 1 \in 0 .. n
            BY <1>1
        <3> QED
            BY <1>8, <3>1
    <2>2. d[1 - 1] = t /\ d[1] = t /\ d[1 + n] = t + 1
        <3>1. 1 - 1 = 0 /\ 0 \in 0 .. n /\ 1 \in 0 .. n /\ 1 + n = n + 1 /\ 1 \in 1 .. m
            BY <1>1, <1>2
        <3> QED
            BY <1>8, <3>1
    <2>3. /\ t <= t + 1 /\ 1 + n <= n + m /\ t + 1 <= t + 1
          /\ 1 \in {1, 2} /\ 1 # 2 /\ ~(1 \notin {0, 1, 2})
        BY <1>1, <1>2
    <2>4. q[1 + n][1] = g
        <3>1. 1 + n = n + 1
            OBVIOUS
        <3> QED
            BY <1>6, <3>1
    <2>5. Adds(e, f, 1 + n, n + m, g, t, t, t + 1, more)
        BY <2>3 DEF Adds
    <2>6. Adds(e, f, 1 + n, n + m, q[1 + n][1], d[1 - 1], d[1], d[1 + n], more)
        BY <2>2, <2>4, <2>5
    <2> QED
        BY <1>1, <1>5, <1>6, <2>1, <2>6, Zenon DEF Counted
<1>10. PICK p \in Nat : p = n + 1
    OBVIOUS
<1>11. Counted(e, q, d, more, p)
    <2>1. \A k \in 1 .. m : d[p + k - 1] = d[p]
        <3>1. \A k \in 1 .. m : p + k - 1 = n + k /\ p = n + 1 /\ 1 \in 1 .. m
            BY <1>2, <1>10
        <3> QED
            BY <1>8, <3>1
    <2>2. d[p - 1] = t /\ d[p] = t + 1
        <3>1. p - 1 = n /\ n \in 0 .. n /\ p = n + 1 /\ 1 \in 1 .. m
            BY <1>2, <1>10
        <3> QED
            BY <1>8, <3>1
    <2>3. t + 1 <= t + 1 /\ 0 \notin {1, 2} /\ 0 # 2 /\ 0 # 1 /\ 0 \in {0, 1, 2}
        OBVIOUS
    <2>4. Adds(e, g, p + m, n + m, q[p + m][1], t, t + 1, d[p + m], more)
        BY <2>3 DEF Adds
    <2>5. q[p][1] = g
        BY <1>6, <1>10
    <2>6. Adds(e, g, p + m, n + m, q[p + m][1], d[p - 1], d[p], d[p + m], more)
        BY <2>2, <2>4
    <2> QED
        BY <1>2, <1>5, <2>1, <2>5, <2>6, Zenon DEF Counted
<1>12. ASSUME NEW i \in 1 .. n + m, IsHead(q[i])
       PROVE  i = 1 \/ i = p
    <2>1. \/ i = 1 \/ i \in 2 .. n \/ i = p
          \/ i - n \in 2 .. m /\ i = n + (i - n)
        BY <1>10
    <2> QED
        BY <1>6, <1>12, <2>1
<1>13. d[n + m] = t + 1
    <2>1. m \in 1 .. m
        BY <1>2
    <2> QED
        BY <1>8, <2>1
<1>14. Counts(e, q, d, more)
    BY <1>5, <1>8, <1>9, <1>11, <1>12, <1>13 DEF Counts
<1>15. d[0] = t
    BY <1>8
<1> QED
    BY <1>3, <1>4, <1>14, <1>15 DEF CountsFrom

LEMMA OneMoreMessage ==
    ASSUME NEW all, IsSeq(all), NEW m
    PROVE  /\ Longer(all, Append(all, m))
           /\ Len(Append(all, m)) = Len(all) + 1
           /\ Append(all, m)[Len(all) + 1] = m
<1>1. PICK S : all \in Seq(S) /\ m \in S
    <2>1. PICK R : R = {all[i] : i \in DOMAIN all}
        OBVIOUS
    <2>2. all \in Seq(R)
        BY <2>1 DEF IsSeq
    <2>3. all \in Seq(R \cup {m}) /\ m \in R \cup {m}
        BY <2>2
    <2> QED
        BY <2>3
<1>2. PICK more : more = Append(all, m)
    OBVIOUS
<1>3. /\ more \in Seq(S) /\ Len(more) = Len(all) + 1 /\ more[Len(all) + 1] = m
      /\ \A i \in 1 .. Len(all) : more[i] = all[i]
    BY <1>1, <1>2, AppendProperties
<1>4. IsSeq(more)
    BY <1>3, SeqIsSeq
<1>5. Len(all) <= Len(more)
    <2>1. Len(all) \in Nat
        BY LenOfSeq
    <2>2. PICK l \in Nat : l = Len(all)
        BY <2>1
    <2> QED
        BY <1>3, <2>2
<1> QED
    BY <1>2, <1>3, <1>4, <1>5 DEF Longer

(* What is sent does not change what was received. *)
LEMMA SentKeeps ==
    ASSUME NEW e, NEW st, NEW op, NEW msg, NEW g, NEW s, NEW q, NEW all, NEW more,
           Messages(e, st, op, msg, g, s, all), Stream(s), Stream(q), Longer(all, more),
           NEW d, Counts(e, q, d, more), d[0] = Len(all)
    PROVE  Messages(e, st, op, msg, g, s \o q, more)
<1>1. PICK t \in Nat, u \in Nat, n \in Nat :
          t = Len(all) /\ u = Len(more) /\ n = Len(g) /\ IsSeq(more) /\ IsSeq(g)
    BY LenOfSeq DEF Longer, Messages, Had
<1>2. t <= u /\ n <= t /\ \A i \in 1 .. t : more[i] = all[i]
    BY <1>1 DEF Longer, Messages, Had
<1>3. Had(e, g, more)
    <2>1. n <= u /\ 1 .. n \subseteq 1 .. t
        BY <1>2
    <2>2. \A i \in 1 .. n : Agrees(e, g[i], all[i])
        BY <1>1 DEF Messages, Had
    <2>3. \A i \in 1 .. n : Agrees(e, g[i], more[i])
        BY <1>2, <2>1, <2>2
    <2> QED
        BY <1>1, <2>1, <2>3 DEF Had
<1>4. ASSUME NEW c, Counts(e, s, c, all), Front(e, st, op, msg, n, s, c, all)
      PROVE  \E b : Counts(e, s \o q, b, more) /\ Front(e, st, op, msg, n, s \o q, b, more)
    <2>1. PICK v : v = s \o q
        OBVIOUS
    <2>2. \E b : Counts(e, s \o q, b, more) /\ b[0] = c[0] /\ (s # << >> => b[1] = c[1])
        BY <1>4, ConcatCounts
    <2>3. PICK b : Counts(e, v, b, more) /\ b[0] = c[0] /\ (s # << >> => b[1] = c[1])
        BY <2>1, <2>2
    <2>4. s # << >> => v # << >> /\ v[1] = s[1]
        <3>1. IsSeq(s) /\ IsSeq(q)
            BY DEF Stream
        <3>2. PICK l \in Nat, r \in Nat : l = Len(s) /\ r = Len(q) /\ (l = 0 <=> s = << >>)
            BY <3>1, LenOfSeq
        <3>3. /\ IsSeq(v) /\ Len(v) = l + r /\ (\A i \in 1 .. l : v[i] = s[i])
            BY <2>1, <3>1, <3>2, ConcatOfSeqs
        <3>4. Len(v) = 0 <=> v = << >>
            BY <3>3, LenOfSeq
        <3> QED
            BY <3>2, <3>3, <3>4
    <2>5. \A k : k = n + 1 /\ k <= t => k <= u /\ more[k] = all[k]
        BY <1>2
    <2>6. Front(e, st, op, msg, n, v, b, more)
        <3>1. CASE st = "FINISHED"
            <4>1. op = -1 /\ c[0] = n + 1 /\ c[0] <= t /\ Agrees(e, msg, all[c[0]])
                BY <1>1, <1>4, <3>1 DEF Front
            <4>2. b[0] = n + 1 /\ b[0] <= u /\ more[b[0]] = all[c[0]]
                BY <2>3, <2>5, <4>1
            <4> QED
                BY <1>1, <3>1, <4>1, <4>2 DEF Front
        <3>2. CASE st # "FINISHED" /\ op = -1
            <4>1. c[0] = n /\ msg = << >>
                BY <1>4, <3>2 DEF Front
            <4> QED
                BY <2>3, <3>2, <4>1 DEF Front
        <3>3. CASE st # "FINISHED" /\ op # -1
            <4>1. /\ op = 1 /\ c[0] = n
                  /\ s # << >> /\ s[1][1].op = 0 /\ c[1] = n + 1 /\ c[1] <= t
                  /\ msg \o Payload(s[1][1]) = all[c[1]]
                BY <1>1, <1>4, <3>3 DEF Front
            <4>2. b[0] = n /\ b[1] = n + 1 /\ b[1] <= u /\ more[b[1]] = all[c[1]]
                BY <2>3, <2>5, <4>1
            <4>3. v # << >> /\ v[1] = s[1]
                BY <2>4, <4>1
            <4> QED
                BY <1>1, <3>3, <4>1, <4>2, <4>3 DEF Front
        <3> QED
            BY <3>1, <3>2, <3>3
    <2> QED
        BY <2>1, <2>3, <2>6
<1>5. st \in Over \/ \E c : Counts(e, s, c, all) /\ Front(e, st, op, msg, n, s, c, all)
    BY <1>1 DEF Messages
<1> QED
    BY <1>1, <1>3, <1>4, <1>5 DEF Messages

(* An application retrieves its message. *)
LEMMA RetrieveKeeps ==
    ASSUME NEW e, NEW op, NEW msg, NEW g, NEW s, NEW all,
           Messages(e, "FINISHED", op, msg, g, s, all)
    PROVE  Messages(e, "CONNECTED", op, << >>, Append(g, msg), s, all)
<1>1. PICK t \in Nat, n \in Nat : t = Len(all) /\ n = Len(g) /\ IsSeq(all) /\ IsSeq(g)
    BY LenOfSeq DEF Messages, Had
<1>2. PICK c : Counts(e, s, c, all) /\ Front(e, "FINISHED", op, msg, n, s, c, all)
    BY <1>1 DEF Messages, Over
<1>3. op = -1 /\ c[0] = n + 1 /\ n + 1 <= t /\ Agrees(e, msg, all[n + 1])
    BY <1>1, <1>2 DEF Front
<1>4. PICK h : h = Append(g, msg)
    OBVIOUS
<1>5. Longer(g, h) /\ Len(h) = n + 1 /\ h[n + 1] = msg
    BY <1>1, <1>4, OneMoreMessage
<1>6. \A i \in 1 .. n + 1 : Agrees(e, h[i], all[i])
    <2>1. \A i \in 1 .. n : Agrees(e, g[i], all[i]) /\ h[i] = g[i]
        BY <1>1, <1>5 DEF Messages, Had, Longer
    <2>2. \A i \in 1 .. n + 1 : i \in 1 .. n \/ i = n + 1
        OBVIOUS
    <2> QED
        BY <1>3, <1>5, <2>1, <2>2
<1>7. Had(e, h, all)
    <2>1. IsSeq(h)
        BY <1>5 DEF Longer
    <2> QED
        BY <1>1, <1>3, <1>5, <1>6, <2>1 DEF Had
<1>8. Front(e, "CONNECTED", op, << >>, n + 1, s, c, all)
    BY <1>3 DEF Front
<1> QED
    BY <1>1, <1>2, <1>4, <1>5, <1>7, <1>8 DEF Messages

(* An application reads a frame: what TakesFrame says of it. *)
Reads(f, op, msg, st, ot, mst) ==
    \/ st \in Over
    \/ f.op = 1 /\ st = "CONNECTED" /\ ot = 1 /\ mst = msg \o Payload(f)
    \/ f.op = 2 /\ st = "FINISHED" /\ ot = op /\ mst = msg \o Payload(f)
    \/ f.op = 0 /\ op \in {1, 2} /\ st = "FINISHED" /\ ot = -1 /\ mst = msg \o Payload(f)
    \/ f.op \in {9, 10} /\ st = "CONNECTED" /\ ot = op /\ mst = << >>
    \/ f.op = 0 /\ op \in {9, 10}

LEMMA ReadKeeps ==
    ASSUME NEW e, NEW op, NEW msg, NEW g, NEW s, NEW all,
           Messages(e, "CONNECTED", op, msg, g, s, all), Stream(s), s # << >>,
           NEW f, s[1][1] = f, NEW st, NEW ot, NEW mst, Reads(f, op, msg, st, ot, mst)
    PROVE  Messages(e, st, ot, mst, g, Rest(s, Size(f)), all)
<1>1. Had(e, g, all) /\ IsSeq(all)
    BY DEF Messages
<1>2. CASE st \in Over
    BY <1>1, <1>2 DEF Messages
<1>3. CASE st \notin Over
    <2>1. PICK c : Counts(e, s, c, all) /\ Front(e, "CONNECTED", op, msg, Len(g), s, c, all)
        BY DEF Messages, Over
    <2>2. PICK t \in Nat, n \in Nat : t = Len(all) /\ n = Len(g)
        BY <1>1, LenOfSeq DEF Had
    <2>3. PICK m : Size(f) = m
        OBVIOUS
    <2>4. /\ m \in Nat /\ m \in 1 .. Len(s) /\ Len(s) \in Nat
          /\ c \in [0 .. Len(s) -> Nat]
          /\ Adds(e, f, 1 + m, Len(s), s[1 + m][1], c[0], c[1], c[1 + m], all)
        BY <2>1, <2>3, FirstCounted
    <2>5. PICK u : u = Rest(s, m)
        OBVIOUS
    <2>6. PICK b : /\ Counts(e, u, b, all)
                   /\ b[0] = c[1] /\ (1 + m <= Len(s) => b[1] = c[1 + m])
        BY <2>1, <2>3, <2>5, RestCounts
    <2>7. 1 + m <= Len(s) => u # << >> /\ u[1] = s[1 + m]
        <3>1. PICK l \in Nat : l = Len(s) /\ m \in 0 .. l
            BY <2>4
        <3>2. IsSeq(s)
            BY DEF Stream
        <3>3. IsSeq(u) /\ Len(u) = l - m /\ \A i \in 1 .. l - m : u[i] = s[m + i]
            BY <2>5, <3>1, <3>2, RestOfSeq
        <3>4. Len(u) = 0 <=> u = << >>
            BY <3>3, LenOfSeq
        <3>5. 1 + m <= l => l - m # 0 /\ 1 \in 1 .. l - m /\ m + 1 = 1 + m
            BY <2>4, <3>1
        <3> QED
            BY <3>1, <3>3, <3>4, <3>5
    <2>8. c[0] \in Nat /\ c[1] \in Nat /\ c[1] <= t
        <3>1. 0 \in 0 .. Len(s) /\ 1 \in 0 .. Len(s)
            BY <2>4
        <3>2. c[1] <= t
            BY <2>2, <2>4 DEF Adds
        <3> QED
            BY <2>4, <3>1, <3>2
    <2>9. op = -1 \/ op = 1
        BY <2>1 DEF Front
    <2>10. op = -1 => c[0] = n /\ msg = << >>
        BY <2>1, <2>2 DEF Front
    <2>11. op = 1 => /\ f.op = 0 /\ c[1] = n + 1
                     /\ msg \o Payload(f) = all[c[1]]
        <3>1. Front(e, "CONNECTED", op, msg, n, s, c, all)
            BY <2>1, <2>2
        <3>2. op = 1 => /\ s[1][1].op = 0 /\ c[1] = n + 1
                        /\ msg \o Payload(s[1][1]) = all[c[1]]
            <4>1. -1 # 1 /\ "CONNECTED" # "FINISHED"
                OBVIOUS
            <4> QED
                BY <3>1, <4>1, Zenon DEF Front
        <3> QED
            BY <3>2, Zenon
    <2>12. CASE f.op = 1
        <3>1. op = -1 /\ st = "CONNECTED" /\ ot = 1 /\ mst = msg \o Payload(f)
            BY <1>3, <2>9, <2>11, <2>12 DEF Reads
        <3>2. /\ c[1] = c[0] /\ 1 + m <= Len(s) /\ s[1 + m][1].op = 0
              /\ c[1 + m] = c[1] + 1 /\ c[1 + m] <= t
              /\ Payload(f) \o Payload(s[1 + m][1]) = all[c[1 + m]]
              /\ IsSeq(Payload(f))
            BY <2>2, <2>4, <2>12 DEF Adds
        <3>3. mst = Payload(f)
            <4>1. PICK p : p = Payload(f) /\ IsSeq(p)
                BY <3>2
            <4>2. << >> \o p = p
                BY <4>1, EmptyThenSeq
            <4> QED
                BY <2>10, <3>1, <4>1, <4>2
        <3>4. b[0] = n /\ b[1] = n + 1 /\ b[1] <= t
            BY <2>6, <2>8, <2>10, <3>1, <3>2
        <3>5. u # << >> /\ u[1][1].op = 0 /\ mst \o Payload(u[1][1]) = all[b[1]]
            BY <2>6, <2>7, <3>2, <3>3
        <3>6. Front(e, st, ot, mst, n, u, b, all)
            BY <2>2, <3>1, <3>4, <3>5 DEF Front
        <3> QED
            BY <1>1, <2>2, <2>3, <2>5, <2>6, <3>6 DEF Messages
    <2>13. CASE f.op = 2
        <3>1. op = -1 /\ st = "FINISHED" /\ ot = -1 /\ mst = msg \o Payload(f)
            BY <1>3, <2>9, <2>11, <2>13 DEF Reads
        <3>2. c[1] = c[0] + 1 /\ Agrees(e, Payload(f), all[c[1]]) /\ IsSeq(Payload(f))
            BY <2>4, <2>13 DEF Adds
        <3>3. mst = Payload(f)
            <4>1. PICK p : p = Payload(f) /\ IsSeq(p)
                BY <3>2
            <4>2. << >> \o p = p
                BY <4>1, EmptyThenSeq
            <4> QED
                BY <2>10, <3>1, <4>1, <4>2
        <3>4. b[0] = n + 1 /\ b[0] <= t
            BY <2>6, <2>8, <2>10, <3>1, <3>2
        <3>5. Agrees(e, mst, all[b[0]])
            BY <2>6, <3>2, <3>3
        <3>6. Front(e, st, ot, mst, n, u, b, all)
            BY <2>2, <3>1, <3>4, <3>5 DEF Front
        <3> QED
            BY <1>1, <2>2, <2>3, <2>5, <2>6, <3>6 DEF Messages
    <2>14. CASE f.op = 0
        <3>1. op = 1 /\ st = "FINISHED" /\ ot = -1 /\ mst = msg \o Payload(f)
            BY <1>3, <2>9, <2>14 DEF Reads
        <3>2. b[0] = n + 1 /\ b[0] <= t /\ mst = all[b[0]]
            BY <2>6, <2>8, <2>11, <3>1
        <3>3. Agrees(e, mst, all[b[0]])
            BY <3>2 DEF Agrees
        <3>4. Front(e, st, ot, mst, n, u, b, all)
            BY <2>2, <3>1, <3>2, <3>3 DEF Front
        <3> QED
            BY <1>1, <2>2, <2>3, <2>5, <2>6, <3>4 DEF Messages
    <2>15. CASE f.op \in {9, 10}
        <3>1. op = -1 /\ st = "CONNECTED" /\ ot = -1 /\ mst = << >>
            BY <1>3, <2>9, <2>11, <2>15 DEF Reads
        <3>2. c[1] = c[0]
            BY <2>4, <2>15 DEF Adds
        <3>3. Front(e, st, ot, mst, n, u, b, all)
            BY <2>6, <2>10, <3>1, <3>2 DEF Front
        <3> QED
            BY <1>1, <2>2, <2>3, <2>5, <2>6, <3>3 DEF Messages
    <2> QED
        BY <1>3, <2>12, <2>13, <2>14, <2>15 DEF Reads
<1> QED
    BY <1>2, <1>3

(* The end that steps. *)
LEMMA ReaderKept ==
    ASSUME Linked, NEW a \in Ends, NEW n, NEW q, Step(a, n, q),
           Messages(a, status[a], last_op_code[a], message[a], got[a],
                    Frames(a), sent[Peer(a)])
    PROVE  Messages(a, status'[a], last_op_code'[a], message'[a], got'[a],
                    Frames(a)', sent'[Peer(a)])
<1>1. /\ Moves(a, n, q) /\ Takes(a, n) /\ sent'[Peer(a)] = sent[Peer(a)]
      /\ Types /\ AreSeqs /\ Handshakes /\ \A d \in Ends : Stream(Frames(d))
    BY DEF Step, Linked, Others
<1>2. PICK s, u : /\ s = Frames(a) /\ s = In(a) /\ u = Frames(a)' /\ u = Rest(s, n)
                  /\ Stream(s) /\ IsSeq(s)
    BY <1>1, MovesFrames DEF Stream
<1>3. PICK all : all = sent[Peer(a)]
    OBVIOUS
<1>4. PICK op, msg, g : op = last_op_code[a] /\ msg = message[a] /\ g = got[a]
    OBVIOUS
<1>5. PICK st, ot, mst, h : /\ st = status'[a] /\ ot = last_op_code'[a]
                            /\ mst = message'[a] /\ h = got'[a]
    OBVIOUS
<1>6. Messages(a, status[a], op, msg, g, s, all)
    BY <1>2, <1>3, <1>4
<1>7. n = 0 => u = s
    BY <1>2, NothingMore
<1>8. SUFFICES Messages(a, st, ot, mst, h, u, all)
    BY <1>1, <1>2, <1>3, <1>5
<1>9. CASE n = 0 /\ st = "PENDING_ERROR" /\ h = g
    BY <1>6, <1>9 DEF Messages, Over
<1>10. CASE n = 0 /\ st = status[a] /\ h = g /\ mst = msg /\ ot = op
    BY <1>6, <1>7, <1>10
<1>11. CASE /\ n = 0 /\ status[a] = "FINISHED" /\ st = "CONNECTED"
            /\ h = Append(g, msg) /\ mst = << >> /\ ot = op
    <2>1. Messages(a, "FINISHED", op, msg, g, s, all)
        BY <1>6, <1>11
    <2>2. Messages(a, "CONNECTED", op, << >>, Append(g, msg), s, all)
        BY <2>1, RetrieveKeeps
    <2> QED
        BY <1>7, <1>11, <2>2
<1>12. CASE /\ s # << >> /\ n = Size(s[1][1]) /\ status[a] = "CONNECTED" /\ h = g
            /\ TakesFrame(a, s[1][1])
    <2>1. PICK f : s[1][1] = f
        OBVIOUS
    <2>2. Reads(f, op, msg, st, ot, mst)
        BY <1>4, <1>5, <1>12, <2>1 DEF TakesFrame, Reads
    <2>3. Messages(a, "CONNECTED", op, msg, g, s, all)
        BY <1>6, <1>12
    <2>4. Messages(a, st, ot, mst, g, Rest(s, Size(f)), all)
        BY <1>2, <1>12, <2>1, <2>2, <2>3, ReadKeeps
    <2> QED
        BY <1>2, <1>12, <2>1, <2>4
<1> QED
    BY <1>1, <1>2, <1>4, <1>5, <1>9, <1>10, <1>11, <1>12 DEF Takes

LEMMA NoEmptyFrame ==
    ASSUME NEW f, NEW g
    PROVE  Parts(f) # << >> /\ Parts(f) \o Parts(g) # << >>
<1>1. PICK x, y : x = Parts(f) /\ y = Parts(g)
    OBVIOUS
<1>2. IsSeq(x) /\ IsSeq(y) /\ Len(x) \in 1 .. 4 /\ Len(y) \in 1 .. 4
    BY <1>1, PartsOfFrame, SizeOfFrame
<1>3. x # << >>
    BY <1>2, LenOfSeq
<1>4. PICK z : z = x \o y
    OBVIOUS
<1>5. IsSeq(z) /\ Len(z) = Len(x) + Len(y)
    BY <1>2, <1>4, ConcatOfSeqs
<1>6. Len(z) # 0
    BY <1>2, <1>5
<1>7. z # << >>
    BY <1>5, <1>6, LenOfSeq
<1> QED
    BY <1>1, <1>3, <1>4, <1>7

(* What it puts on its way to the other end. *)
LEMMA PutCounts ==
    ASSUME NEW a \in Ends, NEW q, Puts(a, q), q # << >>, IsSeq(sent[a])
    PROVE  /\ Longer(sent[a], sent'[a])
           /\ CountsFrom(Peer(a), q, Len(sent[a]), sent'[a])
<1>1. PICK all, more, e : all = sent[a] /\ more = sent'[a] /\ e = Peer(a)
    OBVIOUS
<1>2. IsSeq(all)
    BY <1>1
<1>3. PICK t \in Nat : t = Len(all)
    BY <1>2, LenOfSeq
<1>4. SUFFICES Longer(all, more) /\ CountsFrom(e, q, t, more)
    BY <1>1, <1>3
<1>5. ASSUME NEW f, q = Parts(f), f.op \notin {1, 2}, more = all
      PROVE  Longer(all, more) /\ CountsFrom(e, q, t, more)
    <2>1. Longer(all, all)
        <3>1. t <= t
            OBVIOUS
        <3> QED
            BY <1>2, <1>3, <3>1 DEF Longer
    <2>2. CountsFrom(e, Parts(f), t, all)
        <3>1. f.op # 1 /\ f.op # 2 /\ Len(all) = t
            BY <1>3, <1>5
        <3> QED
            BY <3>1, FrameCounts
    <2> QED
        BY <1>5, <2>1, <2>2
<1>6. ASSUME NEW f, NEW m, q = Parts(f), f.op = 2, more = Append(all, m),
             IsSeq(Payload(f)), Agrees(e, Payload(f), m)
      PROVE  Longer(all, more) /\ CountsFrom(e, q, t, more)
    <2>1. Longer(all, more) /\ Len(more) = t + 1 /\ more[t + 1] = m
        BY <1>2, <1>3, <1>6, OneMoreMessage
    <2>2. CountsFrom(e, Parts(f), t, more)
        <3>1. /\ f.op = 2 /\ Len(more) = t + 1 /\ IsSeq(Payload(f))
              /\ Agrees(e, Payload(f), more[t + 1])
            BY <1>6, <2>1
        <3>2. Len(more) \in Nat /\ 2 # 1
            BY <3>1
        <3> QED
            BY <3>1, <3>2, FrameCounts
    <2> QED
        BY <1>6, <2>1, <2>2
<1>7. ASSUME NEW f, NEW g, NEW m, q = Parts(f) \o Parts(g), f.op = 1, g.op = 0,
             more = Append(all, m), IsSeq(Payload(f)), Payload(f) \o Payload(g) = m
      PROVE  Longer(all, more) /\ CountsFrom(e, q, t, more)
    <2>1. Longer(all, more) /\ Len(more) = t + 1 /\ more[t + 1] = m
        BY <1>2, <1>3, <1>7, OneMoreMessage
    <2>2. Payload(f) \o Payload(g) = more[t + 1]
        BY <1>7, <2>1
    <2>3. CountsFrom(e, Parts(f) \o Parts(g), t, more)
        <3>1. f.op = 1 /\ g.op = 0 /\ IsSeq(Payload(f)) /\ Len(more) = t + 1
            BY <1>7, <2>1
        <3> QED
            BY <2>2, <3>1, FragmentCounts
    <2> QED
        BY <1>7, <2>1, <2>3
<1> QED
    BY <1>1, <1>5, <1>6, <1>7 DEF Puts

(* The other end. *)
LEMMA OtherKept ==
    ASSUME Linked, NEW a \in Ends, NEW n, NEW q, Step(a, n, q), NEW e, e = Peer(a),
           Messages(e, status[e], last_op_code[e], message[e], got[e], Frames(e), sent[a])
    PROVE  Messages(e, status'[e], last_op_code'[e], message'[e], got'[e],
                    Frames(e)', sent'[a])
<1>1. /\ Moves(a, n, q) /\ Puts(a, q) /\ status'[e] = status[e]
      /\ got'[e] = got[e] /\ message'[e] = message[e] /\ last_op_code'[e] = last_op_code[e]
      /\ Types /\ AreSeqs /\ Handshakes /\ \A d \in Ends : Stream(Frames(d))
    BY DEF Step, Linked, Others, Moves
<1>2. PICK s : s = Frames(e) /\ Frames(e)' = s \o q /\ Stream(s) /\ IsSeq(s)
    <2>1. /\ e \in Ends /\ Frames(Peer(a))' = Frames(Peer(a)) \o q
        BY <1>1, MovesFrames, Peers
    <2>2. Stream(Frames(e))
        BY <1>1, <2>1
    <2>3. Frames(e)' = Frames(e) \o q
        BY <2>1, Zenon
    <2> QED
        BY <2>2, <2>3 DEF Stream
<1>3. PICK st, op, msg, g : /\ st = status[e] /\ op = last_op_code[e]
                            /\ msg = message[e] /\ g = got[e]
    OBVIOUS
<1>4. PICK all, more : all = sent[a] /\ more = sent'[a]
    OBVIOUS
<1>5. Messages(e, st, op, msg, g, s, all)
    BY <1>2, <1>3, <1>4
<1>6. SUFFICES Messages(e, st, op, msg, g, s \o q, more)
    BY <1>1, <1>2, <1>3, <1>4
<1>7. CASE q = << >>
    <2>1. s \o q = s
        BY <1>2, <1>7, NothingMore
    <2>2. more = all
        <3>1. ~ \E x : << >> = Parts(x)
            BY NoEmptyFrame
        <3>2. ~ \E x, y : << >> = Parts(x) \o Parts(y)
            BY NoEmptyFrame
        <3> QED
            BY <1>1, <1>4, <1>7, <3>1, <3>2 DEF Puts
    <2> QED
        BY <1>5, <2>1, <2>2
<1>8. CASE q # << >>
    <2>1. IsSeq(sent[a])
        BY DEF Messages
    <2>2. Longer(all, more) /\ CountsFrom(e, q, Len(all), more)
        BY <1>1, <1>4, <1>8, <2>1, PutCounts
    <2>3. PICK d : Counts(e, q, d, more) /\ d[0] = Len(all)
        BY <2>2 DEF CountsFrom
    <2>4. Stream(q)
        BY <1>1 DEF Moves
    <2> QED
        BY <1>2, <1>5, <2>2, <2>3, <2>4, SentKeeps
<1> QED
    BY <1>7, <1>8

LEMMA ReceivedKept ==
    ASSUME Linked, Retrieving, Received, [Next]_vars
    PROVE  Received'
<1>1. CASE Quiet /\ Stays
    <2>1. SUFFICES ASSUME NEW e \in Ends
                   PROVE  Messages(e, status'[e], last_op_code'[e], message'[e], got'[e],
                                   Frames(e)', sent'[Peer(e)])
        BY DEF Received
    <2>2. Messages(e, status[e], last_op_code[e], message[e], got[e], Frames(e), sent[Peer(e)])
        BY <2>1 DEF Received
    <2>3. /\ Frames(e)' = Frames(e) /\ last_op_code' = last_op_code /\ message' = message
          /\ got' = got /\ sent' = sent
          /\ status'[e] = "FINISHED" <=> status[e] = "FINISHED"
          /\ status[e] \in Over => status'[e] \in Over
        BY <1>1, <2>1 DEF Quiet, Stays
    <2>4. PICK st, su, op, msg : /\ st = status[e] /\ su = status'[e]
                                 /\ op = last_op_code[e] /\ msg = message[e]
        OBVIOUS
    <2>5. PICK g, s, all : g = got[e] /\ s = Frames(e) /\ all = sent[Peer(e)]
        OBVIOUS
    <2>6. /\ su = "FINISHED" <=> st = "FINISHED"
          /\ st \in Over => su \in Over
          /\ Messages(e, st, op, msg, g, s, all)
        BY <2>2, <2>3, <2>4, <2>5
    <2>7. \A c : Front(e, st, op, msg, Len(g), s, c, all)
                 => Front(e, su, op, msg, Len(g), s, c, all)
        BY <2>6 DEF Front
    <2>8. Messages(e, su, op, msg, g, s, all)
        BY <2>6, <2>7 DEF Messages
    <2> QED
        BY <2>3, <2>4, <2>5, <2>8
<1>2. ASSUME NEW a \in Ends, NEW n, NEW q, Step(a, n, q)
      PROVE  Received'
    <2>1. PICK e : e = Peer(a)
        OBVIOUS
    <2>2. e \in Ends /\ Peer(e) = a /\ Ends = {a, e}
        BY <2>1, Peers
    <2>3. Messages(a, status'[a], last_op_code'[a], message'[a], got'[a],
                   Frames(a)', sent'[Peer(a)])
        BY <1>2, ReaderKept DEF Received
    <2>4. Messages(e, status[e], last_op_code[e], message[e], got[e], Frames(e), sent[a])
        BY <2>2 DEF Received
    <2>5. Messages(e, status'[e], last_op_code'[e], message'[e], got'[e], Frames(e)', sent'[a])
        BY <1>2, <2>1, <2>4, OtherKept
    <2> QED
        BY <2>2, <2>3, <2>5 DEF Received
<1> QED
    BY <1>1, <1>2, AllSteps

LEMMA ReceivedInit ==
    ASSUME Init
    PROVE  Received
<1>1. SUFFICES ASSUME NEW e \in Ends
               PROVE  Messages(e, "DETACHED", -1, << >>, << >>, << >>, << >>)
    <2>1. ASSUME NEW e \in Ends
          PROVE  /\ Frames(e) = << >> /\ status[e] = "DETACHED" /\ last_op_code[e] = -1
                 /\ message[e] = << >> /\ got[e] = << >> /\ sent[Peer(e)] = << >>
        BY <2>1, ConnInit, Peers DEF Init
    <2> QED
        BY <2>1 DEF Received
<1>2. IsSeq(<< >>) /\ Len(<< >>) = 0
    BY EmptyStream DEF Stream
<1>3. Had(e, << >>, << >>)
    BY <1>2 DEF Had
<1>4. PICK c : c = [j \in 0 .. 0 |-> 0]
    OBVIOUS
<1>5. Counts(e, << >>, c, << >>)
    BY <1>2, <1>4 DEF Counts
<1>6. Front(e, "DETACHED", -1, << >>, 0, << >>, c, << >>)
    BY <1>4 DEF Front
<1> QED
    BY <1>2, <1>3, <1>5, <1>6 DEF Messages

(* An application gets the messages of the other end in order, none twice,   *)
(* none skipped, however they were cut, fragmented and mixed with control    *)
(* frames (readFrame, retrieveMessage), and unchanged, but for those masked  *)
(* with a key from freed memory (sendMessage).                               *)
THEOREM MessagesArriveIntact == Spec => []MessagesIntact
<1>1. Init => Received
    BY ReceivedInit
<1>2. ConnInv /\ Received /\ [Next]_vars => Received'
    BY ReceivedKept DEF ConnInv
<1>3. Received => MessagesIntact
    <2>1. SUFFICES ASSUME Received, NEW e \in Ends
                   PROVE  /\ Len(got[e]) <= Len(sent[Peer(e)])
                          /\ \A i \in 1 .. Len(got[e]) :
                                Agrees(e, got[e][i], sent[Peer(e)][i])
        BY Zenon DEF MessagesIntact, Agrees
    <2> QED
        BY <2>1 DEF Received, Messages, Had
<1> QED
    BY <1>1, <1>2, <1>3, ConnAlways, PTL DEF Spec
=============================================================================
