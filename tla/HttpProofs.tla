----------------------------- MODULE HttpProofs -----------------------------
(***************************************************************************)
(* What HttpProtocol keeps true for any number of messages, with any       *)
(* headers, bodies and chunks, however the bytes are cut.                  *)
(***************************************************************************)
EXTENDS HttpProtocol, SequenceTheorems, NaturalsInduction, WellFoundedInduction, TLAPS

-----------------------------------------------------------------------------
(* Induction, over sets: a set of numbers has a least one. *)
LEMMA Least ==
    ASSUME NEW S \in SUBSET Nat, S # {}
    PROVE  \E n \in S : \A m \in S : n <= m
<1> DEFINE R == {ss \in Nat \X Nat : ss[1] < ss[2]}
<1>1. IsWellFoundedOn(R, Nat)
  BY NatLessThanWellFounded DEF OpToRel
<1>2. PICK x \in S : \A y \in S : ~ (<<y, x>> \in R)
  <2> HIDE DEF R
  <2> QED
    BY <1>1, WFMin, Zenon
<1>3. ASSUME NEW y \in S
      PROVE  x <= y
  <2>1. <<y, x>> \notin R
    BY <1>2
  <2> QED
    BY <2>1
<1> QED
  BY <1>3

LEMMA Induction ==
    ASSUME NEW S, 0 \in S, \A n \in Nat : n \in S => n + 1 \in S
    PROVE  \A n \in Nat : n \in S
<1> SUFFICES ASSUME ~ \A n \in Nat : n \in S
             PROVE  FALSE
  OBVIOUS
<1>1. PICK n \in Nat \ S : \A m \in Nat \ S : n <= m
  BY Least
<1>2. n # 0 /\ n - 1 \in Nat
  BY <1>1
<1>3. n - 1 \in S
  BY <1>1, <1>2
<1> QED
  BY <1>1, <1>2, <1>3

(* What holds of the last position, and of one if it holds of all behind   *)
(* it, holds of all.                                                       *)
LEMMA Backwards ==
    ASSUME NEW N \in Nat, NEW S,
           \A k \in 1 .. N : (\A j \in k + 1 .. N : j \in S) => k \in S
    PROVE  \A k \in 1 .. N : k \in S
<1> DEFINE P == {j \in Nat : \A k \in 1 .. N : k > N - j => k \in S}
<1>1. 0 \in P
  OBVIOUS
<1>2. ASSUME NEW j \in Nat, j \in P
      PROVE  j + 1 \in P
  <2> SUFFICES ASSUME NEW k \in 1 .. N, k > N - (j + 1)
               PROVE  k \in S
    OBVIOUS
  <2>1. \A i \in k + 1 .. N : i \in S
    BY <1>2
  <2> QED
    BY <2>1
<1>3. N \in P
  <2> HIDE DEF P
  <2> QED
    BY <1>1, <1>2, Induction
<1> QED
  BY <1>3

(* g[k] is first[k], and what g has at to[k] if that is not 0. *)
Follows(first, to, g, k) ==
    g[k] = IF to[k] = 0 THEN first[k] ELSE first[k] \o g[to[k]]

(* Sequences that are put together from behind. *)
LEMMA Chains ==
    ASSUME NEW S, NEW N \in Nat, NEW first \in [1 .. N -> Seq(S)],
           NEW to \in [1 .. N -> Nat], \A k \in 1 .. N : to[k] = 0 \/ to[k] \in k + 1 .. N
    PROVE  \E g \in [1 .. N -> Seq(S)] : \A k \in 1 .. N : Follows(first, to, g, k)
<1> DEFINE Right(j, g) == \A k \in N + 1 - j .. N : Follows(first, to, g, k)
           Some(j) == \E g \in [N + 1 - j .. N -> Seq(S)] : Right(j, g)
           P == {j \in Nat : j <= N => Some(j)}
<1>1. 0 \in P
  <2> DEFINE g == [i \in N + 1 - 0 .. N |-> <<>>]
  <2>1. g \in [N + 1 - 0 .. N -> Seq(S)] /\ Right(0, g)
    OBVIOUS
  <2> QED
    BY <2>1
<1>2. ASSUME NEW j \in Nat, j \in P
      PROVE  j + 1 \in P
  <2> SUFFICES ASSUME j + 1 <= N
               PROVE  Some(j + 1)
    <3> HIDE DEF Some
    <3> QED
      OBVIOUS
  <2>0. Some(j)
    <3> HIDE DEF Some
    <3> QED
      BY <1>2
  <2>1. PICK g \in [N + 1 - j .. N -> Seq(S)] : Right(j, g)
    BY <2>0
  <2>2. PICK q \in 1 .. N : q = N - j
    OBVIOUS
  <2>3. to[q] = 0 \/ to[q] \in N + 1 - j .. N
    BY <2>2
  <2>4. PICK v \in Seq(S) : v = IF to[q] = 0 THEN first[q] ELSE first[q] \o g[to[q]]
    <3>1. first[q] \in Seq(S) /\ (to[q] # 0 => g[to[q]] \in Seq(S))
      BY <2>3
    <3>2. to[q] # 0 => first[q] \o g[to[q]] \in Seq(S)
      BY <3>1, ConcatProperties
    <3> QED
      BY <3>1, <3>2
  <2> DEFINE h == [i \in N + 1 - (j + 1) .. N |-> IF i = q THEN v ELSE g[i]]
  <2>5. h \in [N + 1 - (j + 1) .. N -> Seq(S)]
    BY <2>1, <2>2, <2>4
  <2>6. h[q] = v /\ \A i \in N + 1 - j .. N : h[i] = g[i]
    BY <2>2
  <2> HIDE DEF h
  <2>7. ASSUME NEW k \in N + 1 - (j + 1) .. N
        PROVE  Follows(first, to, h, k)
    <3>1. CASE k = q
      BY <3>1, <2>3, <2>4, <2>6 DEF Follows
    <3>2. CASE k # q
      <4>1. k \in N + 1 - j .. N /\ k \in 1 .. N
        BY <2>2, <3>2
      <4>2. to[k] = 0 \/ to[k] \in N + 1 - j .. N
        BY <4>1
      <4>3. h[k] = g[k] /\ (to[k] # 0 => h[to[k]] = g[to[k]])
        BY <4>1, <4>2, <2>6
      <4>4. Follows(first, to, g, k)
        BY <2>1, <4>1
      <4> QED
        BY <4>3, <4>4 DEF Follows
    <3> QED
      BY <3>1, <3>2
  <2> QED
    BY <2>5, <2>7
<1>3. N \in P
  <2> HIDE DEF P
  <2> QED
    BY <1>1, <1>2, Induction
<1>4. Some(N)
  <2> HIDE DEF Some
  <2> QED
    BY <1>3
<1>5. N + 1 - N = 1
  OBVIOUS
<1> QED
  BY <1>4, <1>5, Zenon

-----------------------------------------------------------------------------
(* ConcatFrom. *)
From(ss) ==
    LET from[k \in 1 .. Len(ss) + 1] ==
            IF k > Len(ss) THEN <<>> ELSE ss[k] \o from[k + 1]
    IN  from

LEMMA ConcatFromIsFrom == ASSUME NEW ss, NEW i PROVE ConcatFrom(ss, i) = From(ss)[i]
  BY DEF ConcatFrom, From

LEMMA FromRuns ==
    ASSUME NEW S, NEW ss \in Seq(Seq(S)), NEW n \in Nat, n = Len(ss)
    PROVE  /\ From(ss) \in [1 .. n + 1 -> Seq(S)]
           /\ From(ss)[n + 1] = <<>>
           /\ \A k \in 1 .. n : From(ss)[k] = ss[k] \o From(ss)[k + 1]
<1> DEFINE IsRun(f) == f = [k \in 1 .. Len(ss) + 1 |->
                               IF k > Len(ss) THEN <<>> ELSE ss[k] \o f[k + 1]]
           first == [k \in 1 .. n + 1 |-> IF k > n THEN <<>> ELSE ss[k]]
           to == [k \in 1 .. n + 1 |-> IF k > n THEN 0 ELSE k + 1]
<1>1. \A k \in 1 .. n : ss[k] \in Seq(S)
  OBVIOUS
<1>2. /\ first \in [1 .. n + 1 -> Seq(S)]
      /\ to \in [1 .. n + 1 -> Nat]
      /\ \A k \in 1 .. n + 1 : to[k] = 0 \/ to[k] \in k + 1 .. n + 1
  BY <1>1
<1>3. /\ first[n + 1] = <<>> /\ to[n + 1] = 0
      /\ \A k \in 1 .. n : first[k] = ss[k] /\ to[k] = k + 1
  OBVIOUS
<1>4. PICK N \in Nat : N = n + 1
  OBVIOUS
<1>5. PICK g \in [1 .. N -> Seq(S)] : \A k \in 1 .. N : Follows(first, to, g, k)
  <2> HIDE DEF first, to
  <2>1. /\ first \in [1 .. N -> Seq(S)]
        /\ to \in [1 .. N -> Nat]
        /\ \A k \in 1 .. N : to[k] = 0 \/ to[k] \in k + 1 .. N
    BY <1>2, <1>4, Zenon
  <2> QED
    BY <2>1, Chains, Zenon
<1>6. \A k \in 1 .. N : g[k] = IF k > n THEN <<>> ELSE ss[k] \o g[k + 1]
  <2> SUFFICES ASSUME NEW k \in 1 .. N
               PROVE  g[k] = IF k > n THEN <<>> ELSE ss[k] \o g[k + 1]
    OBVIOUS
  <2>1. g[k] = IF to[k] = 0 THEN first[k] ELSE first[k] \o g[to[k]]
    BY <1>5 DEF Follows
  <2> HIDE DEF first, to
  <2>2. CASE k > n
    <3>1. k = n + 1
      BY <2>2, <1>4
    <3> QED
      BY <3>1, <2>1, <2>2, <1>3
  <2>3. CASE ~ k > n
    <3>1. k \in 1 .. n /\ k + 1 # 0
      BY <2>3, <1>4
    <3>2. first[k] = ss[k] /\ to[k] = k + 1
      BY <3>1, <1>3
    <3> QED
      BY <3>1, <3>2, <2>1, <2>3, Zenon
  <2> QED
    BY <2>2, <2>3
<1>7. IsRun(g)
  <2>1. g = [k \in 1 .. N |-> g[k]]
    BY <1>5
  <2>2. g = [k \in 1 .. N |-> IF k > n THEN <<>> ELSE ss[k] \o g[k + 1]]
    BY <2>1, <1>6, Zenon
  <2> QED
    BY <2>2, <1>4
<1>8. IsRun(From(ss))
  <2>1. From(ss) = CHOOSE f : IsRun(f)
    BY DEF From
  <2> HIDE DEF IsRun
  <2> QED
    BY <1>7, <2>1
<1>9. PICK f : f = From(ss)
  OBVIOUS
<1>10. \A k \in 1 .. N : f[k] = IF k > n THEN <<>> ELSE ss[k] \o f[k + 1]
  <2>1. f = [k \in 1 .. N |-> IF k > n THEN <<>> ELSE ss[k] \o f[k + 1]]
    BY <1>4, <1>8, <1>9, Zenon
  <2> QED
    BY <2>1, Zenon
<1>11. f[n + 1] = <<>>
  <2>1. n + 1 \in 1 .. N /\ n + 1 > n
    BY <1>4
  <2> QED
    BY <2>1, <1>10, Zenon
<1>12. \A k \in 1 .. n : f[k] = ss[k] \o f[k + 1]
  <2> SUFFICES ASSUME NEW k \in 1 .. n
               PROVE  f[k] = ss[k] \o f[k + 1]
    OBVIOUS
  <2>1. k \in 1 .. N /\ ~ (k > n)
    BY <1>4
  <2> QED
    BY <2>1, <1>10, Zenon
<1>13. \A k \in 1 .. N : f[k] \in Seq(S)
  <2> DEFINE P == {k \in 1 .. N : f[k] \in Seq(S)}
  <2>1. ASSUME NEW k \in 1 .. N, \A j \in k + 1 .. N : j \in P
        PROVE  k \in P
    <3>1. CASE k = N
      <4>1. f[k] = <<>>
        BY <3>1, <1>4, <1>11
      <4>2. <<>> \in Seq(S)
        OBVIOUS
      <4> QED
        BY <4>1, <4>2
    <3>2. CASE k # N
      <4>1. k \in 1 .. n /\ k + 1 \in k + 1 .. N
        BY <3>2, <1>4
      <4>2. ss[k] \in Seq(S) /\ f[k + 1] \in Seq(S)
        BY <4>1, <2>1, <1>1
      <4>3. ss[k] \o f[k + 1] \in Seq(S)
        BY <4>2, ConcatProperties
      <4> QED
        BY <4>1, <4>3, <1>12
    <3> QED
      BY <3>1, <3>2
  <2>2. \A k \in 1 .. N : k \in P
    <3> HIDE DEF P
    <3> QED
      BY <2>1, Backwards
  <2> QED
    BY <2>2
<1>14. f = [k \in 1 .. N |-> f[k]]
  <2>1. f = [k \in 1 .. N |-> IF k > n THEN <<>> ELSE ss[k] \o f[k + 1]]
    BY <1>4, <1>8, <1>9, Zenon
  <2> QED
    BY <2>1, <1>10, Zenon
<1>15. f \in [1 .. N -> Seq(S)]
  BY <1>13, <1>14
<1> QED
  BY <1>4, <1>9, <1>11, <1>12, <1>15

(* The sequences from the i-th on are the i-th and those from the next on. *)
LEMMA ConcatFromNext ==
    ASSUME NEW S, NEW ss \in Seq(Seq(S))
    PROVE  /\ \A i \in 1 .. Len(ss) + 1 : ConcatFrom(ss, i) \in Seq(S)
           /\ ConcatFrom(ss, Len(ss) + 1) = <<>>
           /\ \A i \in 1 .. Len(ss) : ConcatFrom(ss, i) = ss[i] \o ConcatFrom(ss, i + 1)
<1>1. PICK n \in Nat : n = Len(ss)
  OBVIOUS
<1>2. /\ From(ss) \in [1 .. n + 1 -> Seq(S)]
      /\ From(ss)[n + 1] = <<>>
      /\ \A k \in 1 .. n : From(ss)[k] = ss[k] \o From(ss)[k + 1]
  BY <1>1, FromRuns
<1>3. \A i : ConcatFrom(ss, i) = From(ss)[i]
  BY ConcatFromIsFrom
<1> QED
  BY <1>1, <1>2, <1>3

-----------------------------------------------------------------------------
(* What is read from a buffer, of what has arrived and what has not.  The  *)
(* facts are named, so that the provers take them at the sequences they    *)
(* are given.                                                              *)
SameBytes(b, w, A, R) == b \o w = A \o R

Begins(b, A) == \A i \in 1 .. Len(b) : i <= Len(A) => b[i] = A[i]

(* A, of n bytes, is read from b. *)
IsRead(S, b, w, n, A, R) ==
    /\ SubSeq(b, 1, n) = A
    /\ SubSeq(b, n + 1, Len(b)) \in Seq(S)
    /\ SubSeq(b, n + 1, Len(b)) \o w = R

LEMMA Front ==
    ASSUME NEW S, NEW b \in Seq(S), NEW w \in Seq(S), NEW A \in Seq(S), NEW R \in Seq(S),
           b \o w = A \o R
    PROVE  /\ \A i \in 1 .. Len(b) : i <= Len(A) => b[i] = A[i]
           /\ Len(b) + Len(w) = Len(A) + Len(R)
           /\ Len(b) < Len(A) => w # <<>>
<1>1. /\ Len(b \o w) = Len(b) + Len(w)
      /\ \A i \in 1 .. Len(b) + Len(w) :
            (b \o w)[i] = IF i <= Len(b) THEN b[i] ELSE w[i - Len(b)]
  BY ConcatProperties
<1>2. /\ Len(A \o R) = Len(A) + Len(R)
      /\ \A i \in 1 .. Len(A) + Len(R) :
            (A \o R)[i] = IF i <= Len(A) THEN A[i] ELSE R[i - Len(A)]
  BY ConcatProperties
<1>3. Len(b) + Len(w) = Len(A) + Len(R)
  BY <1>1, <1>2
<1>4. ASSUME NEW i \in 1 .. Len(b), i <= Len(A)
      PROVE  b[i] = A[i]
  <2>1. i \in 1 .. Len(b) + Len(w) /\ i \in 1 .. Len(A) + Len(R)
    BY <1>4
  <2>2. (b \o w)[i] = b[i]
    BY <1>1, <2>1
  <2>3. (A \o R)[i] = A[i]
    BY <1>2, <1>4, <2>1
  <2> QED
    BY <2>2, <2>3
<1>5. Len(b) < Len(A) => w # <<>>
  BY <1>3
<1> QED
  BY <1>3, <1>4, <1>5

LEMMA Consume ==
    ASSUME NEW S, NEW b \in Seq(S), NEW w \in Seq(S), NEW A \in Seq(S), NEW R \in Seq(S),
           SameBytes(b, w, A, R), NEW a \in Nat, a = Len(A), a <= Len(b)
    PROVE  IsRead(S, b, w, a, A, R)
<1>0. b \o w = A \o R
  BY DEF SameBytes
<1>1. PICK l \in Nat : l = Len(b)
  OBVIOUS
<1>2. PICK c \in Seq(S) : c = SubSeq(b, a + 1, l)
  <2>1. PICK k \in Nat : k = a + 1
    OBVIOUS
  <2>2. k \in 1 .. l + 1 /\ l \in k - 1 .. l
    BY <1>1, <2>1
  <2>3. SubSeq(b, k, l) \in Seq(S)
    BY <1>1, <2>2, SubSeqProperties
  <2> QED
    BY <2>1, <2>3
<1>3. Len(c) = l - a /\ \A i \in 1 .. l - a : c[i] = b[a + i]
  <2>1. a <= l
    BY <1>1
  <2> QED
    BY <1>1, <1>2, <2>1
<1>4. PICK d \in Seq(S) : d = SubSeq(b, 1, a)
  <2>1. \A i \in 1 .. a : b[i] \in S
    BY <1>1
  <2>2. 1 \in Int /\ a \in Int
    OBVIOUS
  <2>3. SubSeq(b, 1, a) \in Seq(S)
    BY <2>1, <2>2, SubSeqProperties
  <2> QED
    BY <2>3
<1>5. Len(d) = a /\ \A i \in 1 .. a : d[i] = b[i]
  BY <1>1, <1>4
<1>6. /\ Len(b \o w) = l + Len(w)
      /\ \A i \in 1 .. l + Len(w) : (b \o w)[i] = IF i <= l THEN b[i] ELSE w[i - l]
  BY <1>1, ConcatProperties
<1>7. /\ Len(A \o R) = a + Len(R)
      /\ \A i \in 1 .. a + Len(R) : (A \o R)[i] = IF i <= a THEN A[i] ELSE R[i - a]
  BY <1>1, ConcatProperties
<1>8. /\ c \o w \in Seq(S) /\ Len(c \o w) = (l - a) + Len(w)
      /\ \A i \in 1 .. (l - a) + Len(w) :
            (c \o w)[i] = IF i <= l - a THEN c[i] ELSE w[i - (l - a)]
  <2>1. /\ c \o w \in Seq(S) /\ Len(c \o w) = Len(c) + Len(w)
        /\ \A i \in 1 .. Len(c) + Len(w) :
              (c \o w)[i] = IF i <= Len(c) THEN c[i] ELSE w[i - Len(c)]
    BY ConcatProperties
  <2>2. Len(c) = l - a
    BY <1>3
  <2> QED
    BY <2>1, <2>2, Zenon
<1>9. d = A
  <2>1. \A i \in 1 .. a : d[i] = A[i]
    BY <1>0, <1>1, <1>5, Front
  <2> QED
    BY <1>1, <1>5, <2>1, SeqEqual
<1>10. Len(c \o w) = Len(R)
  BY <1>0, <1>6, <1>7, <1>8
<1>11. ASSUME NEW i \in 1 .. Len(R)
       PROVE  (c \o w)[i] = R[i]
  <2>1. PICK w1 \in Nat, r \in Nat : w1 = Len(w) /\ r = Len(R) /\ l + w1 = a + r /\ a <= l
    BY <1>0, <1>1, <1>6, <1>7
  <2>2. /\ i \in 1 .. (l - a) + w1 /\ a + i \in 1 .. l + w1 /\ a + i \in 1 .. a + r
        /\ ~ (a + i <= a) /\ (a + i) - a = i
        /\ (a + i) - l = i - (l - a)
        /\ (i <= l - a <=> a + i <= l) /\ (i <= l - a => i \in 1 .. l - a)
    BY <2>1
  <2>3. (A \o R)[a + i] = R[i]
    BY <1>7, <2>1, <2>2
  <2>4. (b \o w)[a + i] = IF i <= l - a THEN b[a + i] ELSE w[i - (l - a)]
    BY <1>6, <2>1, <2>2
  <2>5. (c \o w)[i] = IF i <= l - a THEN b[a + i] ELSE w[i - (l - a)]
    BY <1>3, <1>8, <2>1, <2>2
  <2> QED
    BY <1>0, <2>3, <2>4, <2>5
<1>12. c \o w = R
  BY <1>8, <1>10, <1>11, SeqEqual
<1> QED
  BY <1>1, <1>2, <1>4, <1>9, <1>12, Zenon DEF IsRead

LEMMA BeginsWith ==
    ASSUME NEW S, NEW b \in Seq(S), NEW w \in Seq(S), NEW A \in Seq(S), NEW R \in Seq(S),
           SameBytes(b, w, A, R)
    PROVE  Begins(b, A) /\ (Len(b) < Len(A) => w # <<>>)
BY Front DEF SameBytes, Begins

-----------------------------------------------------------------------------
(* find. *)
LEMMA Finds ==
    ASSUME NEW s, NEW word, word # <<>>, Len(s) \in Nat, NEW p \in 1 .. Len(s),
           OccursAt(s, word, p), \A j \in 1 .. p - 1 : ~ OccursAt(s, word, j)
    PROVE  find(s, word) = p
<1> DEFINE found == {i \in 1 .. Len(s) : OccursAt(s, word, i)}
<1>1. p \in found /\ \A j \in found : p <= j
  OBVIOUS
<1>2. find(s, word) = IF word = <<>> \/ found = {} THEN 0
                      ELSE CHOOSE i \in found : \A j \in found : i <= j
  BY DEF find
<1>3. found \subseteq Nat
  OBVIOUS
<1> HIDE DEF found
<1>4. \A i \in found : (\A j \in found : i <= j) => i = p
  BY <1>1, <1>3
<1>5. (CHOOSE i \in found : \A j \in found : i <= j) = p
  BY <1>1, <1>4
<1> QED
  BY <1>1, <1>2, <1>5

LEMMA FindsNone ==
    ASSUME NEW s, NEW word, \A j \in 1 .. Len(s) : ~ OccursAt(s, word, j)
    PROVE  find(s, word) = 0
BY DEF find

LEMMA FindsFirst ==
    ASSUME NEW s, NEW word, Len(s) \in Nat
    PROVE  find(s, word) = 0
           \/ (find(s, word) \in 1 .. Len(s) /\ OccursAt(s, word, find(s, word)))
<1> DEFINE found == {i \in 1 .. Len(s) : OccursAt(s, word, i)}
<1>1. find(s, word) = IF word = <<>> \/ found = {} THEN 0
                      ELSE CHOOSE i \in found : \A j \in found : i <= j
  BY DEF find
<1>2. found # {} => \E i \in found : \A j \in found : i <= j
  <2>1. found \in SUBSET Nat
    OBVIOUS
  <2> HIDE DEF found
  <2> QED
    BY <2>1, Least
<1>3. found # {} => (CHOOSE i \in found : \A j \in found : i <= j) \in found
  <2> HIDE DEF found
  <2> QED
    BY <1>2
<1>4. find(s, word) = 0 \/ find(s, word) \in found
  <2> HIDE DEF found
  <2> QED
    BY <1>1, <1>3
<1> QED
  BY <1>4

LEMMA TwoCrlf ==
    /\ CRLF \o CRLF \in Seq({"CR", "LF"}) /\ Len(CRLF \o CRLF) = 4 /\ CRLF \o CRLF # <<>>
    /\ (CRLF \o CRLF)[1] = "CR" /\ (CRLF \o CRLF)[2] = "LF"
    /\ (CRLF \o CRLF)[3] = "CR" /\ (CRLF \o CRLF)[4] = "LF"
<1>1. PICK c \in Seq({"CR", "LF"}) : c = CRLF /\ Len(c) = 2 /\ c[1] = "CR" /\ c[2] = "LF"
  <2>1. CRLF \in Seq({"CR", "LF"})
    BY DEF CRLF
  <2>2. Len(CRLF) = 2 /\ CRLF[1] = "CR" /\ CRLF[2] = "LF"
    BY DEF CRLF
  <2> QED
    BY <2>1, <2>2
<1>2. /\ c \o c \in Seq({"CR", "LF"}) /\ Len(c \o c) = Len(c) + Len(c)
      /\ \A i \in 1 .. Len(c) + Len(c) : (c \o c)[i] = IF i <= Len(c) THEN c[i] ELSE c[i - Len(c)]
  BY ConcatProperties
<1>3. PICK d \in Seq({"CR", "LF"}) : d = c \o c
  BY <1>2
<1>4. Len(d) = 4 /\ \A i \in 1 .. 4 : d[i] = IF i <= 2 THEN c[i] ELSE c[i - 2]
  BY <1>1, <1>2, <1>3
<1>5. d[1] = c[1] /\ d[2] = c[2] /\ d[3] = c[1] /\ d[4] = c[2] /\ d # <<>>
  <2>1. /\ 1 \in 1 .. 4 /\ 2 \in 1 .. 4 /\ 3 \in 1 .. 4 /\ 4 \in 1 .. 4
        /\ 1 <= 2 /\ 2 <= 2 /\ ~ (3 <= 2) /\ ~ (4 <= 2) /\ 3 - 2 = 1 /\ 4 - 2 = 2
    OBVIOUS
  <2>2. d # <<>>
    <3>1. Len(d) = 4 /\ 4 # 0
      BY <1>4
    <3>2. Len(<<>>) = 0
      BY EmptySeq
    <3> QED
      BY <3>1, <3>2, Zenon
  <2> QED
    BY <1>4, <2>1, <2>2
<1> QED
  BY <1>1, <1>3, <1>4, <1>5

LEMMA OccursCrlf ==
    ASSUME NEW S, NEW s \in Seq(S), NEW i \in 1 .. Len(s)
    PROVE  OccursAt(s, CRLF, i) <=> i + 1 <= Len(s) /\ s[i] = "CR" /\ s[i + 1] = "LF"
<1>1. Len(CRLF) = 2 /\ i + 2 - 1 = i + 1
  BY DEF CRLF
<1>2. OccursAt(s, CRLF, i) <=> i + 1 <= Len(s) /\ SubSeq(s, i, i + 1) = CRLF
  BY <1>1 DEF OccursAt
<1>3. ASSUME i + 1 <= Len(s)
      PROVE  SubSeq(s, i, i + 1) = CRLF <=> s[i] = "CR" /\ s[i + 1] = "LF"
  <2>1. PICK d : d = SubSeq(s, i, i + 1)
    OBVIOUS
  <2>2. d \in Seq(S) /\ Len(d) = 2 /\ d[1] = s[i] /\ d[2] = s[i + 1]
    BY <1>3, <2>1
  <2>3. d = CRLF <=> d[1] = "CR" /\ d[2] = "LF"
    <3>1. d = <<d[1], d[2]>>
      BY <2>2
    <3> QED
      BY <3>1 DEF CRLF
  <2> QED
    BY <2>1, <2>2, <2>3
<1> QED
  BY <1>2, <1>3

LEMMA OccursTwoCrlf ==
    ASSUME NEW S, NEW s \in Seq(S), NEW i \in 1 .. Len(s)
    PROVE  OccursAt(s, CRLF \o CRLF, i) <=>
             /\ i + 3 <= Len(s)
             /\ s[i] = "CR" /\ s[i + 1] = "LF" /\ s[i + 2] = "CR" /\ s[i + 3] = "LF"
<1>1. PICK c : c = CRLF \o CRLF
  OBVIOUS
<1>2. /\ c \in Seq({"CR", "LF"}) /\ Len(c) = 4
      /\ c[1] = "CR" /\ c[2] = "LF" /\ c[3] = "CR" /\ c[4] = "LF"
  BY <1>1, TwoCrlf
<1>3. OccursAt(s, c, i) <=> i + 3 <= Len(s) /\ SubSeq(s, i, i + 3) = c
  <2>1. i + Len(c) - 1 = i + 3
    BY <1>2
  <2> QED
    BY <2>1, Zenon DEF OccursAt
<1>4. ASSUME i + 3 <= Len(s)
      PROVE  SubSeq(s, i, i + 3) = c <=>
               s[i] = "CR" /\ s[i + 1] = "LF" /\ s[i + 2] = "CR" /\ s[i + 3] = "LF"
  <2>1. PICK d : d = SubSeq(s, i, i + 3)
    OBVIOUS
  <2>2. d \in Seq(S) /\ Len(d) = 4 /\ d[1] = s[i] /\ d[2] = s[i + 1] /\ d[3] = s[i + 2]
        /\ d[4] = s[i + 3]
    BY <1>4, <2>1
  <2>3. d = <<d[1], d[2], d[3], d[4]>> /\ c = <<"CR", "LF", "CR", "LF">>
    BY <1>2, <2>2
  <2>4. d = c => d[1] = "CR" /\ d[2] = "LF" /\ d[3] = "CR" /\ d[4] = "LF"
    BY <1>2
  <2>5. d[1] = "CR" /\ d[2] = "LF" /\ d[3] = "CR" /\ d[4] = "LF" => d = c
    BY <2>3, Zenon
  <2>6. d = c <=> s[i] = "CR" /\ s[i + 1] = "LF" /\ s[i + 2] = "CR" /\ s[i + 3] = "LF"
    BY <2>2, <2>4, <2>5, Zenon
  <2> QED
    BY <2>1, <2>6, Zenon
<1> QED
  BY <1>1, <1>3, <1>4

(* The end of a line whose text is t. *)
LEMMA FindsLineEnd ==
    ASSUME NEW S, NEW b \in Seq(S),
           Len(b) >= 1 => b[1] # "CR",
           Len(b) >= 2 => b[2] = "CR",
           Len(b) >= 3 => b[3] = "LF"
    PROVE  find(b, CRLF) = IF Len(b) >= 3 THEN 2 ELSE 0
<1>1. CRLF # <<>> /\ Len(b) \in Nat
  BY DEF CRLF
<1>2. \A i \in 1 .. Len(b) :
         OccursAt(b, CRLF, i) <=> i + 1 <= Len(b) /\ b[i] = "CR" /\ b[i + 1] = "LF"
  BY OccursCrlf
<1>3. CASE Len(b) >= 3
  <2>1. 2 \in 1 .. Len(b) /\ OccursAt(b, CRLF, 2)
    BY <1>2, <1>3
  <2>2. \A j \in 1 .. 2 - 1 : ~ OccursAt(b, CRLF, j)
    BY <1>2, <1>3
  <2>3. find(b, CRLF) = 2
    BY <1>1, <2>1, <2>2, Finds
  <2> QED
    BY <1>3, <2>3
<1>4. CASE ~ (Len(b) >= 3)
  <2>1. \A j \in 1 .. Len(b) : ~ OccursAt(b, CRLF, j)
    BY <1>1, <1>2, <1>4
  <2> QED
    BY <1>4, <2>1, FindsNone
<1> QED
  BY <1>3, <1>4

-----------------------------------------------------------------------------
(* split. *)
Behind(s, i) == SubSeq(s, i, Len(s))

Parts(s, sep) ==
    LET parts[i \in 1 .. Len(s) + 1] ==
            LET rest == SubSeq(s, i, Len(s))
                next == find(rest, sep)
            IN  IF next = 0 THEN <<rest>>
                ELSE <<SubSeq(rest, 1, next - 1)>> \o parts[i + next - 1 + Len(sep)]
    IN  parts

LEMMA SplitIsParts == ASSUME NEW s, NEW sep PROVE split(s, sep) = Parts(s, sep)[1]
  BY DEF split, Parts

(* The part at i, and where the next one begins. *)
PartAt(s, sep, i) ==
    IF find(Behind(s, i), sep) = 0 THEN <<Behind(s, i)>>
    ELSE <<SubSeq(Behind(s, i), 1, find(Behind(s, i), sep) - 1)>>

NextAt(s, sep, i) ==
    IF find(Behind(s, i), sep) = 0 THEN 0
    ELSE i + find(Behind(s, i), sep) - 1 + Len(sep)

LEMMA BehindIsSeq ==
    ASSUME NEW S, NEW s \in Seq(S), NEW i \in 1 .. Len(s) + 1
    PROVE  /\ Behind(s, i) \in Seq(S)
           /\ Len(Behind(s, i)) = Len(s) + 1 - i
           /\ \A k \in 1 .. Len(s) + 1 - i : Behind(s, i)[k] = s[i + k - 1]
<1>1. PICK l \in Nat : l = Len(s)
  OBVIOUS
<1>2. \A k \in i .. l : s[k] \in S
  BY <1>1
<1>3. /\ SubSeq(s, i, l) \in Seq(S)
      /\ Len(SubSeq(s, i, l)) = IF i <= l THEN l - i + 1 ELSE 0
      /\ \A k \in 1 .. l - i + 1 : SubSeq(s, i, l)[k] = s[i + k - 1]
  BY <1>1, <1>2, SubSeqProperties
<1>4. l - i + 1 = l + 1 - i /\ (~ (i <= l) => l + 1 - i = 0)
  BY <1>1
<1> QED
  BY <1>1, <1>3, <1>4 DEF Behind

LEMMA PartsRun ==
    ASSUME NEW S, NEW s \in Seq(S), NEW sep, Len(sep) \in Nat \ {0}
    PROVE  \A i \in 1 .. Len(s) + 1 :
              Follows([k \in 1 .. Len(s) + 1 |-> PartAt(s, sep, k)],
                      [k \in 1 .. Len(s) + 1 |-> NextAt(s, sep, k)], Parts(s, sep), i)
<1>1. PICK N \in Nat : N = Len(s) + 1
  OBVIOUS
<1> DEFINE first == [k \in 1 .. N |-> PartAt(s, sep, k)]
           to == [k \in 1 .. N |-> NextAt(s, sep, k)]
           IsRun(f) ==
              f = [i \in 1 .. N |->
                     LET rest == SubSeq(s, i, Len(s))
                         next == find(rest, sep)
                     IN  IF next = 0 THEN <<rest>>
                         ELSE <<SubSeq(rest, 1, next - 1)>> \o f[i + next - 1 + Len(sep)]]
<1>2. ASSUME NEW i \in 1 .. N
      PROVE  /\ PartAt(s, sep, i) \in Seq(Seq(S))
             /\ NextAt(s, sep, i) \in Nat
             /\ NextAt(s, sep, i) = 0 \/ NextAt(s, sep, i) \in i + 1 .. N
             /\ (NextAt(s, sep, i) = 0) <=> (find(Behind(s, i), sep) = 0)
  <2>1. PICK b \in Seq(S) : b = Behind(s, i) /\ Len(b) = N - i
    BY <1>1, BehindIsSeq
  <2>2. PICK p : p = find(b, sep)
    OBVIOUS
  <2>3. p = 0 \/ (p \in 1 .. Len(b) /\ p + Len(sep) - 1 <= Len(b))
    BY <2>1, <2>2, FindsFirst DEF OccursAt
  <2>4. SubSeq(b, 1, p - 1) \in Seq(S) \/ p = 0
    <3>1. CASE p # 0
      <4>1. \A k \in 1 .. p - 1 : b[k] \in S
        BY <3>1, <2>1, <2>3
      <4>2. 1 \in Int /\ p - 1 \in Int
        BY <3>1, <2>3
      <4> QED
        BY <4>1, <4>2, SubSeqProperties
    <3> QED
      BY <3>1
  <2>5. PartAt(s, sep, i) = IF p = 0 THEN <<b>> ELSE <<SubSeq(b, 1, p - 1)>>
    BY <2>1, <2>2 DEF PartAt
  <2>6. PartAt(s, sep, i) \in Seq(Seq(S))
    BY <2>1, <2>4, <2>5
  <2>7. NextAt(s, sep, i) = IF p = 0 THEN 0 ELSE i + p - 1 + Len(sep)
    BY <2>1, <2>2 DEF NextAt
  <2>8. PICK e \in Nat \ {0} : e = Len(sep)
    OBVIOUS
  <2>9. p # 0 => i + p - 1 + e \in i + 1 .. N /\ i + p - 1 + e \in Nat /\ i + p - 1 + e # 0
    BY <2>1, <2>3, <2>8
  <2> QED
    BY <2>1, <2>2, <2>6, <2>7, <2>8, <2>9
<1>3. /\ first \in [1 .. N -> Seq(Seq(S))] /\ to \in [1 .. N -> Nat]
      /\ \A i \in 1 .. N : to[i] = 0 \/ to[i] \in i + 1 .. N
  BY <1>2
<1>4. PICK g \in [1 .. N -> Seq(Seq(S))] : \A i \in 1 .. N : Follows(first, to, g, i)
  <2> HIDE DEF first, to
  <2> QED
    BY <1>3, Chains
(* To follow is to be a run. *)
<1>5. ASSUME NEW f, NEW i \in 1 .. N
      PROVE  Follows(first, to, f, i) <=>
               f[i] = LET rest == SubSeq(s, i, Len(s))
                          next == find(rest, sep)
                      IN  IF next = 0 THEN <<rest>>
                          ELSE <<SubSeq(rest, 1, next - 1)>> \o f[i + next - 1 + Len(sep)]
  <2>1. first[i] = PartAt(s, sep, i) /\ to[i] = NextAt(s, sep, i)
    OBVIOUS
  <2>2. Follows(first, to, f, i) <=>
          f[i] = IF NextAt(s, sep, i) = 0 THEN PartAt(s, sep, i)
                 ELSE PartAt(s, sep, i) \o f[NextAt(s, sep, i)]
    <3> HIDE DEF first, to
    <3> QED
      BY <2>1, Zenon DEF Follows
  <2>3. CASE find(Behind(s, i), sep) = 0
    BY <1>2, <2>2, <2>3, Zenon DEF PartAt, NextAt, Behind
  <2>4. CASE find(Behind(s, i), sep) # 0
    <3>1. NextAt(s, sep, i) # 0
      BY <1>2, <2>4
    <3> QED
      BY <3>1, <2>2, <2>4, Zenon DEF PartAt, NextAt, Behind
  <2> QED
    BY <2>3, <2>4
<1>6. IsRun(g)
  <2> HIDE DEF first, to
  <2>1. g = [i \in 1 .. N |-> g[i]]
    BY <1>4
  <2> QED
    BY <2>1, <1>4, <1>5, Zenon
<1>7. IsRun(Parts(s, sep))
  <2>1. Parts(s, sep) = CHOOSE f : IsRun(f)
    BY <1>1, Zenon DEF Parts
  <2> HIDE DEF IsRun
  <2> QED
    BY <1>6, <2>1
<1>8. \A i \in 1 .. N : Follows(first, to, Parts(s, sep), i)
  <2>1. PICK f : f = Parts(s, sep)
    OBVIOUS
  <2>2. IsRun(f)
    BY <1>7, <2>1
  <2> HIDE DEF first, to
  <2>3. \A i \in 1 .. N : Follows(first, to, f, i)
    BY <2>2, <1>5, Zenon
  <2> QED
    BY <2>1, <2>3
<1> QED
  BY <1>1, <1>8

(* x in front of a sequence. *)
(* The sequence u is x, then t. *)
Leads(x, t, u) == Len(u) = Len(t) + 1 /\ u[1] = x /\ \A i \in 1 .. Len(t) : u[i + 1] = t[i]

LEMMA InFront ==
    ASSUME NEW S, NEW x \in S, NEW t \in Seq(S), NEW u \in Seq(S), Leads(x, t, u)
    PROVE  <<x>> \o t = u
<1>0. Len(u) = Len(t) + 1 /\ u[1] = x /\ \A i \in 1 .. Len(t) : u[i + 1] = t[i]
  BY DEF Leads
<1>1. PICK e \in Seq(S) : e = <<x>> /\ Len(e) = 1 /\ e[1] = x
  <2>1. <<x>> \in Seq(S) /\ Len(<<x>>) = 1 /\ <<x>>[1] = x
    OBVIOUS
  <2> QED
    BY <2>1
<1>2. PICK m \in Nat : m = Len(t)
  OBVIOUS
<1>3. /\ e \o t \in Seq(S) /\ Len(e \o t) = 1 + m
      /\ \A i \in 1 .. 1 + m : (e \o t)[i] = IF i <= 1 THEN e[i] ELSE t[i - 1]
  BY <1>1, <1>2, ConcatProperties
<1>4. ASSUME NEW i \in 1 .. Len(u)
      PROVE  (e \o t)[i] = u[i]
  <2>1. i \in 1 .. 1 + m
    BY <1>0, <1>2
  <2>2. CASE i = 1
    BY <2>1, <2>2, <1>0, <1>1, <1>3
  <2>3. CASE i # 1
    <3>1. i - 1 \in 1 .. m /\ (i - 1) + 1 = i /\ ~ (i <= 1)
      BY <2>1, <2>3
    <3>2. u[i] = t[i - 1]
      BY <3>1, <1>0, <1>2
    <3> QED
      BY <3>1, <3>2, <2>1, <1>3
  <2> QED
    BY <2>2, <2>3
<1>5. Len(e \o t) = Len(u)
  BY <1>0, <1>2, <1>3
<1>6. e \o t = u
  BY <1>3, <1>4, <1>5, SeqEqual
<1> QED
  BY <1>1, <1>6

(* Lines of one text each, without the end of the last one. *)
AreLines(s, head) ==
    /\ Len(s) = 3 * Len(head) - 2
    /\ \A i \in 1 .. Len(head) : s[3 * i - 2] = head[i] /\ head[i] # "CR"
    /\ \A i \in 1 .. Len(head) - 1 : s[3 * i - 1] = "CR" /\ s[3 * i] = "LF"

LEMMA SplitsLines ==
    ASSUME NEW S, NEW s \in Seq(S), NEW head \in Seq(S), head # <<>>, AreLines(s, head)
    PROVE  split(s, CRLF) = [i \in 1 .. Len(head) |-> <<head[i]>>]
<1>1. PICK n \in Nat \ {0} : n = Len(head) /\ Len(s) = 3 * n - 2
  BY DEF AreLines
<1>2. /\ \A i \in 1 .. n : s[3 * i - 2] = head[i] /\ head[i] # "CR" /\ head[i] \in S
      /\ \A i \in 1 .. n - 1 : s[3 * i - 1] = "CR" /\ s[3 * i] = "LF"
  BY <1>1 DEF AreLines
<1>3. PICK N \in Nat : N = 3 * n - 1 /\ Len(s) + 1 = N
  BY <1>1
<1>4. Len(CRLF) = 2
  BY DEF CRLF
<1>5. PICK f : f = Parts(s, CRLF)
  OBVIOUS
<1>6. \A i \in 1 .. N : f[i] = IF NextAt(s, CRLF, i) = 0 THEN PartAt(s, CRLF, i)
                               ELSE PartAt(s, CRLF, i) \o f[NextAt(s, CRLF, i)]
  <2>1. \A i \in 1 .. N : Follows([k \in 1 .. N |-> PartAt(s, CRLF, k)],
                                  [k \in 1 .. N |-> NextAt(s, CRLF, k)], f, i)
    <3>1. \A i \in 1 .. Len(s) + 1 :
              Follows([k \in 1 .. Len(s) + 1 |-> PartAt(s, CRLF, k)],
                      [k \in 1 .. Len(s) + 1 |-> NextAt(s, CRLF, k)], Parts(s, CRLF), i)
      <4>1. Len(CRLF) \in Nat \ {0}
        BY <1>4
      <4> QED
        BY <4>1, PartsRun, Zenon
    <3> QED
      BY <3>1, <1>3, <1>5, Zenon
  <2> QED
    BY <2>1, Zenon DEF Follows
<1> DEFINE Lines(j) == [i \in 1 .. n - j + 1 |-> <<head[i + j - 1]>>]
<1>7. ASSUME NEW j \in 1 .. n
      PROVE  /\ PartAt(s, CRLF, 3 * j - 2) = << <<head[j]>> >>
             /\ NextAt(s, CRLF, 3 * j - 2) = IF j = n THEN 0 ELSE 3 * (j + 1) - 2
  <2>1. PICK q \in 1 .. N : q = 3 * j - 2
    BY <1>3
  <2>2. PICK b \in Seq(S) : b = Behind(s, q)
    BY <1>3, <2>1, BehindIsSeq
  <2>3. Len(b) = N - q /\ \A k \in 1 .. N - q : b[k] = s[q + k - 1]
    <3>1. q \in 1 .. Len(s) + 1
      BY <1>3, <2>1
    <3>2. /\ Len(Behind(s, q)) = Len(s) + 1 - q
          /\ \A k \in 1 .. Len(s) + 1 - q : Behind(s, q)[k] = s[q + k - 1]
      BY <3>1, BehindIsSeq
    <3>3. Len(s) + 1 - q = N - q
      BY <1>3
    <3>4. /\ Len(b) = Len(s) + 1 - q
          /\ \A k \in 1 .. Len(s) + 1 - q : b[k] = s[q + k - 1]
      BY <2>2, <3>2, Zenon
    <3> QED
      BY <3>3, <3>4, Zenon
  <2>4. N - q >= 1 /\ (j = n => N - q = 1) /\ (j # n => N - q >= 4)
    BY <1>3, <2>1
  <2>5. b[1] = head[j] /\ head[j] # "CR"
    <3>1. 1 \in 1 .. N - q /\ q + 1 - 1 = 3 * j - 2
      BY <2>1, <2>4
    <3> QED
      BY <3>1, <2>3, <1>2
  <2>6. j # n => b[2] = "CR" /\ b[3] = "LF"
    <3> SUFFICES ASSUME j # n
                 PROVE  b[2] = "CR" /\ b[3] = "LF"
      OBVIOUS
    <3>1. /\ 2 \in 1 .. N - q /\ 3 \in 1 .. N - q /\ j \in 1 .. n - 1
          /\ q + 2 - 1 = 3 * j - 1 /\ q + 3 - 1 = 3 * j
      BY <2>1, <2>4
    <3>2. b[2] = s[3 * j - 1] /\ b[3] = s[3 * j]
      <4>1. b[2] = s[q + 2 - 1] /\ b[3] = s[q + 3 - 1]
        BY <3>1, <2>3, Zenon
      <4> QED
        BY <3>1, <4>1, Zenon
    <3>3. s[3 * j - 1] = "CR" /\ s[3 * j] = "LF"
      BY <3>1, <1>2
    <3> QED
      BY <3>2, <3>3, Zenon
  <2>7. find(b, CRLF) = IF j = n THEN 0 ELSE 2
    <3>1. Len(b) >= 2 => j # n
      BY <2>3, <2>4
    <3>2. (Len(b) >= 3) <=> j # n
      BY <2>3, <2>4
    <3>3. find(b, CRLF) = IF Len(b) >= 3 THEN 2 ELSE 0
      BY <2>5, <2>6, <3>1, <3>2, FindsLineEnd
    <3> QED
      BY <3>2, <3>3
  <2>8. NextAt(s, CRLF, q) = IF j = n THEN 0 ELSE 3 * (j + 1) - 2
    BY <2>1, <2>2, <2>7, <1>4 DEF NextAt
  <2>9. PartAt(s, CRLF, q) = << <<head[j]>> >>
    <3>1. CASE j = n
      <4>1. Len(b) = 1
        BY <3>1, <2>3, <2>4
      <4>2. b = <<head[j]>>
        BY <4>1, <2>5
      <4>3. PartAt(s, CRLF, q) = <<b>>
        BY <3>1, <2>2, <2>7, Zenon DEF PartAt
      <4> QED
        BY <4>2, <4>3
    <3>2. CASE j # n
      <4>1. PICK c : c = SubSeq(b, 1, 1)
        OBVIOUS
      <4>2. c \in Seq(S) /\ Len(c) = 1 /\ c[1] = b[1]
        BY <4>1, <2>3, <2>4
      <4>3. c = <<head[j]>>
        BY <4>2, <2>5
      <4>4. find(b, CRLF) # 0 /\ find(b, CRLF) - 1 = 1
        BY <3>2, <2>7
      <4>5. PartAt(s, CRLF, q) = <<SubSeq(b, 1, 1)>>
        BY <4>4, <2>2, Zenon DEF PartAt
      <4> QED
        BY <4>1, <4>3, <4>5
    <3> QED
      BY <3>1, <3>2
  <2> QED
    BY <2>1, <2>8, <2>9
<1>8. \A j \in 1 .. n : 3 * j - 2 \in 1 .. N
  BY <1>3
<1>9. ASSUME NEW j \in 1 .. n
      PROVE  Lines(j) \in Seq(Seq(S)) /\ Len(Lines(j)) = n - j + 1
             /\ \A i \in 1 .. n - j + 1 : Lines(j)[i] = <<head[i + j - 1]>>
  <2>1. \A i \in 1 .. n - j + 1 : i + j - 1 \in 1 .. n
    OBVIOUS
  <2>2. \A i \in 1 .. n - j + 1 : <<head[i + j - 1]>> \in Seq(S)
    BY <2>1, <1>2
  <2>3. n - j + 1 \in Nat
    OBVIOUS
  <2> QED
    BY <2>2, <2>3
<1>10. \A j \in 1 .. n : j \in {k \in 1 .. n : f[3 * k - 2] = Lines(k)}
  <2> DEFINE P == {k \in 1 .. n : f[3 * k - 2] = Lines(k)}
  <2>1. ASSUME NEW j \in 1 .. n, \A i \in j + 1 .. n : i \in P
        PROVE  j \in P
    <3>1. PICK q \in 1 .. N : q = 3 * j - 2
      BY <1>8
    <3>2. PartAt(s, CRLF, q) = << <<head[j]>> >>
          /\ NextAt(s, CRLF, q) = IF j = n THEN 0 ELSE 3 * (j + 1) - 2
      BY <3>1, <1>7
    <3>3. CASE j = n
      <4>1. f[q] = << <<head[j]>> >>
        BY <1>6, <3>2, <3>3
      <4>2. PICK u \in Seq(Seq(S)) : u = Lines(j) /\ Len(u) = n - j + 1
                /\ \A i \in 1 .. n - j + 1 : u[i] = <<head[i + j - 1]>>
        BY <1>9
      <4>3. Len(u) = 1 /\ 1 \in 1 .. n - j + 1 /\ 1 + j - 1 = j
        BY <3>3, <4>2
      <4>4. u[1] = <<head[j]>>
        BY <4>2, <4>3
      <4>5. u = << <<head[j]>> >>
        BY <4>3, <4>4
      <4> HIDE DEF Lines
      <4>6. f[3 * j - 2] = Lines(j)
        BY <4>1, <4>2, <4>5, <3>1
      <4> QED
        BY <4>6
    <3>4. CASE j # n
      <4>1. PICK k \in 1 .. n : k = j + 1
        BY <3>4
      <4>2. f[3 * k - 2] = Lines(k)
        <5>1. k \in P
          <6>1. k \in j + 1 .. n
            BY <4>1
          <6> HIDE DEF P
          <6> QED
            BY <2>1, <6>1
        <5> QED
          BY <5>1
      <4>3. f[q] = << <<head[j]>> >> \o f[3 * k - 2]
        <5>1. 3 * k - 2 # 0 /\ NextAt(s, CRLF, q) = 3 * k - 2
          BY <3>2, <3>4, <4>1
        <5> QED
          BY <1>6, <3>2, <5>1
      <4>4. PICK t \in Seq(Seq(S)) : t = Lines(k) /\ Len(t) = n - k + 1
                /\ \A i \in 1 .. n - k + 1 : t[i] = <<head[i + k - 1]>>
        BY <1>9
      <4>5. PICK u \in Seq(Seq(S)) : u = Lines(j) /\ Len(u) = n - j + 1
                /\ \A i \in 1 .. n - j + 1 : u[i] = <<head[i + j - 1]>>
        BY <1>9
      <4>6. Len(u) = Len(t) + 1
        BY <4>1, <4>4, <4>5
      <4>7. u[1] = <<head[j]>>
        <5>1. 1 \in 1 .. n - j + 1 /\ 1 + j - 1 = j
          OBVIOUS
        <5> QED
          BY <4>5, <5>1
      <4>8. ASSUME NEW i \in 1 .. Len(t)
            PROVE  u[i + 1] = t[i]
        <5>1. i \in 1 .. n - k + 1 /\ i + 1 \in 1 .. n - j + 1 /\ (i + 1) + j - 1 = i + k - 1
          BY <4>1, <4>4
        <5> QED
          BY <5>1, <4>4, <4>5
      <4>9. PICK x \in Seq(S) : x = <<head[j]>>
        <5>1. head[j] \in S
          BY <1>2
        <5>2. <<head[j]>> \in Seq(S)
          BY <5>1
        <5> QED
          BY <5>2
      <4>10. <<x>> \o t = u
        <5>1. Leads(x, t, u)
          BY <4>6, <4>7, <4>8, <4>9, Zenon DEF Leads
        <5>2. PICK Q : Q = Seq(S)
          OBVIOUS
        <5>3. x \in Q /\ t \in Seq(Q) /\ u \in Seq(Q)
          BY <4>9, <4>4, <4>5, <5>2, Zenon
        <5> HIDE <5>2
        <5> QED
          BY <5>1, <5>3, InFront
      <4> HIDE DEF Lines
      <4>11. f[3 * j - 2] = Lines(j)
        BY <4>2, <4>3, <4>4, <4>5, <4>9, <4>10, <3>1
      <4> QED
        BY <4>11
    <3> QED
      BY <3>3, <3>4
  <2> HIDE DEF P
  <2>2. \A j \in 1 .. n : j \in P
    BY <2>1, Backwards
  <2> QED
    BY <2>2 DEF P
<1>11. f[1] = Lines(1)
  <2>1. 1 \in 1 .. n /\ 3 * 1 - 2 = 1
    OBVIOUS
  <2> QED
    BY <2>1, <1>10
<1>12. Lines(1) = [i \in 1 .. n |-> <<head[i]>>]
  <2>1. n - 1 + 1 = n /\ \A i \in 1 .. n : i + 1 - 1 = i
    OBVIOUS
  <2> QED
    BY <2>1, Zenon
<1> QED
  BY <1>1, <1>5, <1>11, <1>12, SplitIsParts

-----------------------------------------------------------------------------
(* The lines of a message. *)
LEMMA LineIs ==
    ASSUME NEW S, "CR" \in S, "LF" \in S, NEW t \in S
    PROVE  /\ <<t>> \o CRLF \in Seq(S) /\ Len(<<t>> \o CRLF) = 3
           /\ (<<t>> \o CRLF)[1] = t /\ (<<t>> \o CRLF)[2] = "CR" /\ (<<t>> \o CRLF)[3] = "LF"
<1>1. PICK u \in Seq(S) : u = <<t, "CR", "LF">>
  <2>1. <<t, "CR", "LF">> \in Seq(S)
    OBVIOUS
  <2> QED
    BY <2>1
<1>2. Len(u) = 3 /\ u[1] = t /\ u[2] = "CR" /\ u[3] = "LF"
  BY <1>1
<1>3. CRLF \in Seq(S) /\ Len(CRLF) = 2 /\ CRLF[1] = "CR" /\ CRLF[2] = "LF"
  BY DEF CRLF
<1>4. <<t>> \o CRLF = u
  <2>1. PICK c \in Seq(S) : c = CRLF
    BY <1>3
  <2>2. Len(c) = 2 /\ c[1] = "CR" /\ c[2] = "LF"
    BY <1>3, <2>1
  <2>3. Len(u) = Len(c) + 1 /\ \A i \in 1 .. Len(c) : u[i + 1] = c[i]
    BY <1>2, <2>2
  <2>4. <<t>> \o c = u
    BY <1>2, <2>3, InFront DEF Leads
  <2> QED
    BY <2>1, <2>4
<1> QED
  BY <1>2, <1>4

LineTexts(head) == [i \in 1 .. Len(head) |-> <<head[i]>> \o CRLF]

HeadLines(head) == Concat(LineTexts(head))

LEMMA HeadLinesAre ==
    ASSUME NEW S, "CR" \in S, "LF" \in S, NEW head \in Seq(S)
    PROVE  /\ HeadLines(head) \in Seq(S) /\ Len(HeadLines(head)) = 3 * Len(head)
           /\ \A i \in 1 .. Len(head) : /\ HeadLines(head)[3 * i - 2] = head[i]
                                        /\ HeadLines(head)[3 * i - 1] = "CR"
                                        /\ HeadLines(head)[3 * i] = "LF"
<1>1. PICK n \in Nat : n = Len(head)
  OBVIOUS
<1>2. PICK ss : ss = LineTexts(head)
  OBVIOUS
<1>3. ss \in Seq(Seq(S)) /\ Len(ss) = n /\ \A i \in 1 .. n : ss[i] = <<head[i]>> \o CRLF
  <2>1. \A i \in 1 .. n : <<head[i]>> \o CRLF \in Seq(S)
    <3> SUFFICES ASSUME NEW i \in 1 .. n
                 PROVE  <<head[i]>> \o CRLF \in Seq(S)
      OBVIOUS
    <3>1. PICK t \in S : t = head[i]
      BY <1>1
    <3>2. <<t>> \o CRLF \in Seq(S)
      BY LineIs
    <3> QED
      BY <3>1, <3>2
  <2>2. ss = [i \in 1 .. n |-> <<head[i]>> \o CRLF]
    BY <1>1, <1>2 DEF LineTexts
  <2> QED
    BY <2>1, <2>2
<1>4. \A i \in 1 .. n : /\ ss[i] \in Seq(S) /\ Len(ss[i]) = 3
                        /\ ss[i][1] = head[i] /\ ss[i][2] = "CR" /\ ss[i][3] = "LF"
  <2> SUFFICES ASSUME NEW i \in 1 .. n
               PROVE  /\ ss[i] \in Seq(S) /\ Len(ss[i]) = 3
                      /\ ss[i][1] = head[i] /\ ss[i][2] = "CR" /\ ss[i][3] = "LF"
    OBVIOUS
  <2>1. PICK t \in S : t = head[i]
    BY <1>1
  <2>2. /\ <<t>> \o CRLF \in Seq(S) /\ Len(<<t>> \o CRLF) = 3
        /\ (<<t>> \o CRLF)[1] = t /\ (<<t>> \o CRLF)[2] = "CR" /\ (<<t>> \o CRLF)[3] = "LF"
    BY LineIs
  <2>3. ss[i] = <<t>> \o CRLF
    BY <1>3, <2>1
  <2> QED
    BY <2>1, <2>2, <2>3, Zenon
<1>5. /\ \A i \in 1 .. n + 1 : ConcatFrom(ss, i) \in Seq(S)
      /\ ConcatFrom(ss, n + 1) = <<>>
      /\ \A i \in 1 .. n : ConcatFrom(ss, i) = ss[i] \o ConcatFrom(ss, i + 1)
  BY <1>3, ConcatFromNext
<1> DEFINE At(j) ==
        /\ Len(ConcatFrom(ss, j)) = 3 * (n + 1 - j)
        /\ \A i \in j .. n : /\ ConcatFrom(ss, j)[3 * (i - j) + 1] = head[i]
                             /\ ConcatFrom(ss, j)[3 * (i - j) + 2] = "CR"
                             /\ ConcatFrom(ss, j)[3 * (i - j) + 3] = "LF"
<1>6. At(n + 1)
  <2>1. Len(ConcatFrom(ss, n + 1)) = 0
    BY <1>5
  <2>2. 3 * (n + 1 - (n + 1)) = 0 /\ n + 1 .. n = {}
    OBVIOUS
  <2> QED
    BY <2>1, <2>2
<1>7. ASSUME NEW j \in 1 .. n, At(j + 1)
      PROVE  At(j)
  <2>1. PICK c \in Seq(S), d \in Seq(S), l \in Seq(S) :
            c = ConcatFrom(ss, j) /\ d = ConcatFrom(ss, j + 1) /\ l = ss[j]
    <3>1. j \in 1 .. n + 1 /\ j + 1 \in 1 .. n + 1
      OBVIOUS
    <3> QED
      BY <3>1, <1>4, <1>5
  <2>2. c = l \o d
    BY <2>1, <1>5
  <2>3. Len(l) = 3 /\ l[1] = head[j] /\ l[2] = "CR" /\ l[3] = "LF"
    BY <2>1, <1>4
  <2>4. PICK m \in Nat : m = Len(d) /\ m = 3 * (n - j)
    <3>1. Len(d) = 3 * (n + 1 - (j + 1))
      BY <1>7, <2>1
    <3> QED
      BY <3>1
  <2>5. \A i \in j + 1 .. n : /\ d[3 * (i - (j + 1)) + 1] = head[i]
                              /\ d[3 * (i - (j + 1)) + 2] = "CR"
                              /\ d[3 * (i - (j + 1)) + 3] = "LF"
    BY <1>7, <2>1
  <2>6. Len(c) = 3 + m /\ \A k \in 1 .. 3 + m : c[k] = IF k <= 3 THEN l[k] ELSE d[k - 3]
    <3>1. /\ Len(l \o d) = Len(l) + Len(d)
          /\ \A k \in 1 .. Len(l) + Len(d) : (l \o d)[k] = IF k <= Len(l) THEN l[k] ELSE d[k - Len(l)]
      BY ConcatProperties
    <3> QED
      BY <3>1, <2>2, <2>3, <2>4, Zenon
  <2>7. ASSUME NEW i \in j .. n
        PROVE  /\ c[3 * (i - j) + 1] = head[i]
               /\ c[3 * (i - j) + 2] = "CR"
               /\ c[3 * (i - j) + 3] = "LF"
    <3>1. PICK k \in Nat : k = 3 * (i - j)
      OBVIOUS
    <3>2. k + 1 \in 1 .. 3 + m /\ k + 2 \in 1 .. 3 + m /\ k + 3 \in 1 .. 3 + m
      BY <2>4, <3>1
    <3>3. CASE i = j
      <4>1. k = 0
        BY <3>1, <3>3
      <4>2. /\ 0 + 1 = 1 /\ 0 + 2 = 2 /\ 0 + 3 = 3 /\ 1 <= 3 /\ 2 <= 3 /\ 3 <= 3
            /\ 1 \in 1 .. 3 + m /\ 2 \in 1 .. 3 + m /\ 3 \in 1 .. 3 + m
        OBVIOUS
      <4>3. c[1] = l[1] /\ c[2] = l[2] /\ c[3] = l[3]
        BY <2>6, <4>2
      <4> QED
        BY <2>3, <3>1, <3>3, <4>1, <4>2, <4>3, Zenon
    <3>4. CASE i # j
      <4>1. /\ ~ (k + 1 <= 3) /\ ~ (k + 2 <= 3) /\ ~ (k + 3 <= 3)
            /\ i \in j + 1 .. n
            /\ (k + 1) - 3 = 3 * (i - (j + 1)) + 1
            /\ (k + 2) - 3 = 3 * (i - (j + 1)) + 2
            /\ (k + 3) - 3 = 3 * (i - (j + 1)) + 3
        BY <3>1, <3>4
      <4>2. /\ c[k + 1] = d[(k + 1) - 3] /\ c[k + 2] = d[(k + 2) - 3]
            /\ c[k + 3] = d[(k + 3) - 3]
        BY <2>6, <3>2, <4>1
      <4>3. /\ d[(k + 1) - 3] = head[i] /\ d[(k + 2) - 3] = "CR" /\ d[(k + 3) - 3] = "LF"
        BY <2>5, <4>1
      <4> QED
        BY <3>1, <4>2, <4>3, Zenon
    <3> QED
      BY <3>3, <3>4
  <2>8. Len(c) = 3 * (n + 1 - j)
    BY <2>4, <2>6
  <2> QED
    BY <2>1, <2>7, <2>8
<1>8. \A j \in 1 .. n + 1 : At(j)
  <2> DEFINE P == {k \in 1 .. n + 1 : At(k)}
  <2>1. ASSUME NEW j \in 1 .. n + 1, \A i \in j + 1 .. n + 1 : i \in P
        PROVE  j \in P
    <3>1. CASE j = n + 1
      <4> HIDE DEF At
      <4> QED
        BY <3>1, <1>6
    <3>2. CASE j # n + 1
      <4>1. j \in 1 .. n /\ j + 1 \in j + 1 .. n + 1
        BY <3>2
      <4> HIDE DEF At
      <4>2. At(j + 1)
        BY <2>1, <4>1
      <4> QED
        BY <1>7, <4>1, <4>2
    <3> QED
      BY <3>1, <3>2
  <2>2. \A j \in 1 .. n + 1 : j \in P
    <3> HIDE DEF P
    <3>1. PICK N \in Nat : N = n + 1
      OBVIOUS
    <3> QED
      BY <2>1, <3>1, Backwards
  <2> HIDE DEF At
  <2> QED
    BY <2>2
<1>9. PICK c \in Seq(S) : c = HeadLines(head) /\ c = ConcatFrom(ss, 1)
  <2>1. 1 \in 1 .. n + 1
    OBVIOUS
  <2> QED
    BY <2>1, <1>2, <1>5 DEF HeadLines, Concat
<1>10. /\ Len(c) = 3 * (n + 1 - 1)
       /\ \A i \in 1 .. n : /\ c[3 * (i - 1) + 1] = head[i]
                            /\ c[3 * (i - 1) + 2] = "CR"
                            /\ c[3 * (i - 1) + 3] = "LF"
  <2>1. At(1)
    <3>1. 1 \in 1 .. n + 1
      OBVIOUS
    <3> HIDE DEF At
    <3> QED
      BY <3>1, <1>8
  <2> QED
    BY <2>1, <1>9
<1>11. Len(c) = 3 * n
  BY <1>10
<1>12. ASSUME NEW i \in 1 .. n
       PROVE  c[3 * i - 2] = head[i] /\ c[3 * i - 1] = "CR" /\ c[3 * i] = "LF"
  <2>1. 3 * (i - 1) + 1 = 3 * i - 2 /\ 3 * (i - 1) + 2 = 3 * i - 1 /\ 3 * (i - 1) + 3 = 3 * i
    OBVIOUS
  <2>2. /\ c[3 * (i - 1) + 1] = head[i] /\ c[3 * (i - 1) + 2] = "CR"
        /\ c[3 * (i - 1) + 3] = "LF"
    BY <1>10, Zenon
  <2> QED
    BY <2>1, <2>2, Zenon
<1> QED
  BY <1>1, <1>9, <1>11, <1>12

(* Where the headers end, and what split makes of them, when b has as much *)
(* of the lines and of the empty line behind them as has arrived.          *)
HeadText(head) == HeadLines(head) \o CRLF

NoCr(head) == \A i \in 1 .. Len(head) : head[i] # "CR"

HeadFound(head, n, b) ==
    /\ ~ OccursAt(b, CRLF, 1)
    /\ find(b, CRLF \o CRLF) = IF Len(b) >= 3 * n + 2 THEN 3 * n - 1 ELSE 0
    /\ Len(b) >= 3 * n + 2 =>
          split(SubSeq(b, 1, 3 * n - 2), CRLF) = [i \in 1 .. n |-> <<head[i]>>]

LEMMA HeadEnds ==
    ASSUME NEW S, "CR" \in S, "LF" \in S, NEW head \in Seq(S), NEW n \in Nat \ {0}, n = Len(head),
           NoCr(head),
           NEW A \in Seq(S), A = HeadText(head),
           NEW b \in Seq(S), Begins(b, A)
    PROVE  Len(A) = 3 * n + 2 /\ HeadFound(head, n, b)
<1>0. \A i \in 1 .. Len(b) : i <= Len(A) => b[i] = A[i]
  BY DEF Begins
<1>. \A i \in 1 .. n : head[i] # "CR"
  BY DEF NoCr
<1>1. PICK h \in Seq(S), c \in Seq(S) : /\ h = HeadLines(head) /\ Len(h) = 3 * n
                                        /\ c = CRLF /\ Len(c) = 2 /\ c[1] = "CR" /\ c[2] = "LF"
  <2>1. HeadLines(head) \in Seq(S) /\ Len(HeadLines(head)) = 3 * n
    <3>1. HeadLines(head) \in Seq(S) /\ Len(HeadLines(head)) = 3 * Len(head)
      BY HeadLinesAre, Zenon
    <3> QED
      BY <3>1, Zenon
  <2>2. CRLF \in Seq(S) /\ Len(CRLF) = 2 /\ CRLF[1] = "CR" /\ CRLF[2] = "LF"
    BY DEF CRLF
  <2> QED
    BY <2>1, <2>2
<1>2. \A i \in 1 .. n : h[3 * i - 2] = head[i] /\ h[3 * i - 1] = "CR" /\ h[3 * i] = "LF"
  <2>1. \A i \in 1 .. Len(head) : /\ HeadLines(head)[3 * i - 2] = head[i]
                                   /\ HeadLines(head)[3 * i - 1] = "CR"
                                   /\ HeadLines(head)[3 * i] = "LF"
    BY HeadLinesAre, Zenon
  <2> QED
    BY <1>1, <2>1, Zenon
<1>3. Len(A) = 3 * n + 2 /\ \A i \in 1 .. 3 * n + 2 : A[i] = IF i <= 3 * n THEN h[i] ELSE c[i - 3 * n]
  <2>1. /\ Len(h \o c) = Len(h) + Len(c)
        /\ \A i \in 1 .. Len(h) + Len(c) : (h \o c)[i] = IF i <= Len(h) THEN h[i] ELSE c[i - Len(h)]
    BY ConcatProperties
  <2> QED
    BY <2>1, <1>1, Zenon DEF HeadText
<1>4. PICK l \in Nat : l = Len(b)
  OBVIOUS
<1>5. \A i \in 1 .. l : i <= 3 * n + 2 => b[i] = A[i]
  BY <1>0, <1>3, <1>4
<1>6. ASSUME NEW i \in 1 .. n
      PROVE  /\ 3 * i - 2 <= l => b[3 * i - 2] = head[i] /\ b[3 * i - 2] # "CR"
             /\ 3 * i - 1 <= l => b[3 * i - 1] = "CR"
             /\ 3 * i <= l => b[3 * i] = "LF"
  <2>1. PICK x \in 1 .. 3 * n + 2, y \in 1 .. 3 * n + 2, z \in 1 .. 3 * n + 2 :
            x = 3 * i - 2 /\ y = 3 * i - 1 /\ z = 3 * i
    OBVIOUS
  <2>2. x <= 3 * n /\ y <= 3 * n /\ z <= 3 * n /\ x <= 3 * n + 2 /\ y <= 3 * n + 2 /\ z <= 3 * n + 2
    BY <2>1
  <2>3. A[x] = head[i] /\ A[y] = "CR" /\ A[z] = "LF"
    <3>1. A[x] = h[x] /\ A[y] = h[y] /\ A[z] = h[z]
      BY <1>3, <2>2, Zenon
    <3>2. h[3 * i - 2] = head[i] /\ h[3 * i - 1] = "CR" /\ h[3 * i] = "LF"
      BY <1>2, Zenon
    <3> QED
      BY <2>1, <3>1, <3>2, Zenon
  <2>4. (x <= l => b[x] = A[x]) /\ (y <= l => b[y] = A[y]) /\ (z <= l => b[z] = A[z])
    <3>1. (x <= l => x \in 1 .. l) /\ (y <= l => y \in 1 .. l) /\ (z <= l => z \in 1 .. l)
      BY <2>1
    <3> QED
      BY <1>5, <2>2, <3>1
  <2> QED
    BY <2>1, <2>3, <2>4
<1>7. l >= 3 * n + 2 => b[3 * n + 1] = "CR" /\ b[3 * n + 2] = "LF"
  <2> SUFFICES ASSUME l >= 3 * n + 2
               PROVE  b[3 * n + 1] = "CR" /\ b[3 * n + 2] = "LF"
    OBVIOUS
  <2>1. PICK x \in 1 .. 3 * n + 2, y \in 1 .. 3 * n + 2 : x = 3 * n + 1 /\ y = 3 * n + 2
    <3>1. 3 * n + 1 \in 1 .. 3 * n + 2 /\ 3 * n + 2 \in 1 .. 3 * n + 2
      OBVIOUS
    <3> QED
      BY <3>1
  <2>2. /\ ~ (x <= 3 * n) /\ ~ (y <= 3 * n) /\ x - 3 * n = 1 /\ y - 3 * n = 2
        /\ x \in 1 .. l /\ y \in 1 .. l /\ x <= 3 * n + 2 /\ y <= 3 * n + 2
    BY <2>1
  <2>3. A[x] = "CR" /\ A[y] = "LF"
    BY <1>1, <1>3, <2>2
  <2>4. b[x] = A[x] /\ b[y] = A[y]
    BY <1>5, <2>2
  <2> QED
    BY <2>1, <2>3, <2>4
<1>8. ~ OccursAt(b, CRLF, 1)
  <2>1. CASE l = 0
    <3>1. ~ (1 + Len(CRLF) - 1 <= Len(b))
      BY <2>1, <1>1, <1>4
    <3> QED
      BY <3>1 DEF OccursAt
  <2>2. CASE l # 0
    <3>1. 1 \in 1 .. n /\ 3 * 1 - 2 = 1 /\ 1 \in 1 .. l
      BY <2>2
    <3>2. b[1] # "CR"
      BY <3>1, <1>6
    <3> QED
      BY <3>1, <3>2, <1>4, OccursCrlf
  <2> QED
    BY <2>1, <2>2
<1>9. \A p \in 1 .. l : OccursAt(b, CRLF \o CRLF, p) <=>
                          /\ p + 3 <= l
                          /\ b[p] = "CR" /\ b[p + 1] = "LF" /\ b[p + 2] = "CR" /\ b[p + 3] = "LF"
  <2>1. \A p \in 1 .. Len(b) :
           OccursAt(b, CRLF \o CRLF, p) <=>
              /\ p + 3 <= Len(b)
              /\ b[p] = "CR" /\ b[p + 1] = "LF" /\ b[p + 2] = "CR" /\ b[p + 3] = "LF"
    BY OccursTwoCrlf
  <2> QED
    BY <1>4, <2>1, Zenon
<1>10. ASSUME NEW p \in 1 .. l, OccursAt(b, CRLF \o CRLF, p)
       PROVE  p >= 3 * n - 1
  <2> SUFFICES ASSUME p < 3 * n - 1
               PROVE  FALSE
    OBVIOUS
  <2>1. p + 3 <= l /\ b[p] = "CR" /\ b[p + 1] = "LF" /\ b[p + 2] = "CR" /\ b[p + 3] = "LF"
    BY <1>9, <1>10
  <2>2. PICK i \in 1 .. n : p = 3 * i - 2 \/ p = 3 * i - 1 \/ p = 3 * i
    <3>1. PICK i \in Nat : i = (p + 2) \div 3
      OBVIOUS
    <3>2. 3 * i <= p + 2 /\ p + 2 < 3 * i + 3
      BY <3>1
    <3>3. i \in 1 .. n /\ (p = 3 * i - 2 \/ p = 3 * i - 1 \/ p = 3 * i)
      BY <3>2
    <3> QED
      BY <3>3
  <2>3. CASE p = 3 * i - 2
    BY <1>6, <2>1, <2>3
  <2>4. CASE p = 3 * i
    BY <1>6, <2>1, <2>4
  <2>5. CASE p = 3 * i - 1
    <3>1. PICK j \in 1 .. n : j = i + 1
      BY <2>5
    <3>2. p + 2 = 3 * j - 2 /\ 3 * j - 2 <= l
      BY <3>1, <2>1, <2>5
    <3> QED
      BY <1>6, <2>1, <3>2
  <2> QED
    BY <2>2, <2>3, <2>4, <2>5
<1>11. find(b, CRLF \o CRLF) = IF l >= 3 * n + 2 THEN 3 * n - 1 ELSE 0
  <2>1. CASE l >= 3 * n + 2
    <3>1. PICK p \in 1 .. l : p = 3 * n - 1
      <4>1. 3 * n - 1 \in 1 .. l
        BY <2>1
      <4> QED
        BY <4>1
    <3>2. /\ p + 3 <= l /\ p + 1 = 3 * n /\ p + 2 = 3 * n + 1 /\ p + 3 = 3 * n + 2
          /\ n \in 1 .. n /\ 3 * n <= l /\ 3 * n - 1 <= l
      BY <2>1, <3>1
    <3>3. b[p] = "CR" /\ b[p + 1] = "LF"
      <4>1. b[3 * n - 1] = "CR" /\ b[3 * n] = "LF"
        BY <1>6, <3>2
      <4> QED
        BY <3>1, <3>2, <4>1, Zenon
    <3>4. OccursAt(b, CRLF \o CRLF, p)
      BY <1>7, <1>9, <2>1, <3>2, <3>3
    <3>5. \A j \in 1 .. p - 1 : ~ OccursAt(b, CRLF \o CRLF, j)
      <4> SUFFICES ASSUME NEW j \in 1 .. p - 1, OccursAt(b, CRLF \o CRLF, j)
                   PROVE  FALSE
        OBVIOUS
      <4>1. j \in 1 .. l /\ ~ (j >= 3 * n - 1)
        BY <3>1
      <4> QED
        BY <1>10, <4>1
    <3>6. CRLF \o CRLF # <<>>
      BY TwoCrlf
    <3>7. find(b, CRLF \o CRLF) = p
      BY <1>4, <3>4, <3>5, <3>6, Finds
    <3> QED
      BY <2>1, <3>1, <3>7
  <2>2. CASE ~ (l >= 3 * n + 2)
    <3>1. ASSUME NEW j \in 1 .. l
          PROVE  ~ OccursAt(b, CRLF \o CRLF, j)
      <4>1. j >= 3 * n - 1 => ~ (j + 3 <= l)
        BY <2>2
      <4> QED
        BY <1>9, <1>10, <4>1
    <3>2. find(b, CRLF \o CRLF) = 0
      BY <1>4, <3>1, FindsNone
    <3> QED
      BY <2>2, <3>2
  <2> QED
    BY <2>1, <2>2
<1>12. ASSUME l >= 3 * n + 2
       PROVE  split(SubSeq(b, 1, 3 * n - 2), CRLF) = [i \in 1 .. n |-> <<head[i]>>]
  <2>1. PICK k \in Nat : k = 3 * n - 2
    <3>1. 3 * n - 2 \in Nat
      OBVIOUS
    <3> QED
      BY <3>1
  <2>2. k >= 1 /\ k <= l
    BY <1>12, <2>1
  <2>3. PICK s \in Seq(S) : s = SubSeq(b, 1, k) /\ Len(s) = k /\ \A i \in 1 .. k : s[i] = b[i]
    <3>1. \A i \in 1 .. k : b[i] \in S
      BY <1>4, <2>2
    <3>2. /\ SubSeq(b, 1, k) \in Seq(S)
          /\ Len(SubSeq(b, 1, k)) = IF 1 <= k THEN k - 1 + 1 ELSE 0
          /\ \A i \in 1 .. k - 1 + 1 : SubSeq(b, 1, k)[i] = b[1 + i - 1]
      BY <3>1, SubSeqProperties
    <3>3. k - 1 + 1 = k /\ 1 <= k
      BY <2>2
    <3>4. \A i \in 1 .. k : 1 + i - 1 = i
      OBVIOUS
    <3>5. /\ SubSeq(b, 1, k) \in Seq(S)
          /\ Len(SubSeq(b, 1, k)) = k
          /\ \A i \in 1 .. k : SubSeq(b, 1, k)[i] = b[i]
      BY <3>2, <3>3, <3>4, Zenon
    <3> QED
      BY <3>5
  <2>4. AreLines(s, head)
    <3>1. \A i \in 1 .. n : s[3 * i - 2] = head[i] /\ head[i] # "CR"
      <4> SUFFICES ASSUME NEW i \in 1 .. n
                   PROVE  s[3 * i - 2] = head[i]
        OBVIOUS
      <4>1. 3 * i - 2 \in 1 .. k /\ 3 * i - 2 <= l
        BY <2>1, <2>2
      <4> QED
        BY <1>6, <2>3, <4>1
    <3>2. \A i \in 1 .. n - 1 : s[3 * i - 1] = "CR" /\ s[3 * i] = "LF"
      <4> SUFFICES ASSUME NEW i \in 1 .. n - 1
                   PROVE  s[3 * i - 1] = "CR" /\ s[3 * i] = "LF"
        OBVIOUS
      <4>1. /\ 3 * i - 1 \in 1 .. k /\ 3 * i \in 1 .. k /\ i \in 1 .. n
            /\ 3 * i - 1 <= l /\ 3 * i <= l
        BY <2>1, <2>2
      <4> QED
        BY <1>6, <2>3, <4>1
    <3>3. Len(s) = 3 * n - 2
      BY <2>1, <2>3
    <3> QED
      BY <3>1, <3>2, <3>3 DEF AreLines
  <2>5. head # <<>>
    OBVIOUS
  <2>6. split(s, CRLF) = [i \in 1 .. n |-> <<head[i]>>]
    BY <2>4, <2>5, SplitsLines
  <2> QED
    BY <2>1, <2>3, <2>6
<1> QED
  BY <1>3, <1>4, <1>8, <1>11, <1>12, Zenon DEF HeadFound

-----------------------------------------------------------------------------
(* What the peers send, part by part. *)
BodyText(m) == IF InChunks(m) THEN Chunked(m.chunks) ELSE m.body

ChunkText(c) == <<Hex[Len(c)]>> \o CRLF \o c \o CRLF

ChunkTexts(chunks) == [i \in 1 .. Len(chunks) |-> ChunkText(chunks[i])]

(* The chunks from the j-th on, the last one included. *)
ChunksFrom(chunks, j) == ConcatFrom(ChunkTexts(chunks), j) \o <<Hex[0]>> \o CRLF \o CRLF

LEMMA ChunkedIsChunks == ASSUME NEW chunks PROVE Chunked(chunks) = ChunksFrom(chunks, 1)
BY Zenon DEF Chunked, ChunksFrom, ChunkTexts, ChunkText, Concat

LEMMA Bytes ==
    /\ "CR" \in Byte /\ "LF" \in Byte /\ "NUL" \in Byte /\ "GET" \in Byte /\ "HTTP" \in Byte
    /\ HeaderNames \subseteq Byte /\ Data \subseteq Byte
    /\ \A n \in DOMAIN Hex : Hex[n] \in Byte
    /\ CRLF \in Seq(Byte) /\ Len(CRLF) = 2 /\ CRLF[1] = "CR" /\ CRLF[2] = "LF"
<1>1. "CR" \in Byte /\ "LF" \in Byte
  BY DEF Byte
<1>2. CRLF \in Seq(Byte)
  BY <1>1 DEF CRLF
<1>3. Len(CRLF) = 2 /\ CRLF[1] = "CR" /\ CRLF[2] = "LF"
  BY DEF CRLF
<1> QED
  BY <1>2, <1>3 DEF Byte

(* The messages as they may stand in the buffer of their sender: as they   *)
(* were given, but for a NUL at the end of the body.                       *)
Text == Data \cup {"NUL"}

Stored ==
    {m \in [type: {"GET", "HTTP"}, head: Seq(HeaderNames),
            chunks: Seq(Seq(Data)), body: Seq(Text)] :
        /\ WellFramed(m)
        /\ \A i \in 1 .. Len(m.chunks) : Len(m.chunks[i]) \in DOMAIN Hex \ {0}}

(* What is known of a message. *)
LEMMA GoodMessage ==
    ASSUME NEW m \in Stored
    PROVE  /\ m \in [type: {"GET", "HTTP"}, head: Seq(HeaderNames),
                     chunks: Seq(Seq(Data)), body: Seq(Text)]
           /\ m.type \in {"GET", "HTTP"} /\ m.type \in Byte /\ m.type # "CR"
           /\ m.head \in Seq(HeaderNames) /\ m.head \in Seq(Byte)
           /\ \A i \in 1 .. Len(m.head) : m.head[i] \in HeaderNames /\ m.head[i] # "CR"
           /\ m.chunks \in Seq(Seq(Byte))
           /\ \A i \in 1 .. Len(m.chunks) : Len(m.chunks[i]) \in DOMAIN Hex \ {0}
           /\ m.body \in Seq(Byte)
<1>1. m \in [type: {"GET", "HTTP"}, head: Seq(HeaderNames),
             chunks: Seq(Seq(Data)), body: Seq(Text)]
  BY DEF Stored
<1>2. /\ m.type \in {"GET", "HTTP"} /\ m.head \in Seq(HeaderNames)
      /\ m.chunks \in Seq(Seq(Data)) /\ m.body \in Seq(Text)
  BY <1>1
<1>3. m.type \in Byte /\ m.type # "CR"
  BY <1>2, Bytes
<1>4. m.body \in Seq(Byte) /\ m.head \in Seq(Byte)
  <2>1. Text \subseteq Byte
    BY Bytes DEF Text
  <2> QED
    BY <1>2, <2>1, Bytes, SeqMonotonic
<1>5. Seq(Data) \subseteq Seq(Byte)
  BY Bytes, SeqMonotonic
<1>6. m.chunks \in Seq(Seq(Byte))
  BY <1>2, <1>5, SeqMonotonic
<1>7. ASSUME NEW i \in 1 .. Len(m.head)
      PROVE  m.head[i] \in HeaderNames /\ m.head[i] # "CR"
  <2>1. m.head[i] \in HeaderNames
    BY <1>2
  <2>2. \A n \in DOMAIN Length : Length[n] # "CR"
    BY HttpAssumption
  <2> QED
    BY <2>1, <2>2 DEF HeaderNames
<1>8. \A i \in 1 .. Len(m.chunks) : Len(m.chunks[i]) \in DOMAIN Hex \ {0}
  BY DEF Stored
<1> QED
  BY <1>1, <1>2, <1>3, <1>4, <1>6, <1>7, <1>8

LEMMA ChunkTextIs ==
    ASSUME NEW c \in Seq(Byte), NEW n \in Nat, n = Len(c), n \in DOMAIN Hex
    PROVE  /\ ChunkText(c) \in Seq(Byte) /\ Len(ChunkText(c)) = n + 5
           /\ ChunkText(c)[1] = Hex[n] /\ ChunkText(c)[2] = "CR" /\ ChunkText(c)[3] = "LF"
           /\ \A i \in 1 .. n : ChunkText(c)[i + 3] = c[i]
           /\ ChunkText(c)[n + 4] = "CR" /\ ChunkText(c)[n + 5] = "LF"
<1>1. PICK l \in Seq(Byte) : l = <<Hex[n]>> \o CRLF
                             /\ Len(l) = 3 /\ l[1] = Hex[n] /\ l[2] = "CR" /\ l[3] = "LF"
  <2>1. PICK t \in Byte : t = Hex[n]
    BY Bytes
  <2>2. /\ <<t>> \o CRLF \in Seq(Byte) /\ Len(<<t>> \o CRLF) = 3
        /\ (<<t>> \o CRLF)[1] = t /\ (<<t>> \o CRLF)[2] = "CR" /\ (<<t>> \o CRLF)[3] = "LF"
    BY Bytes, LineIs
  <2> QED
    BY <2>1, <2>2
<1>2. PICK e \in Seq(Byte) : e = CRLF /\ Len(e) = 2 /\ e[1] = "CR" /\ e[2] = "LF"
  BY Bytes
<1>3. PICK d \in Seq(Byte) : /\ d = l \o c /\ Len(d) = 3 + n
                             /\ \A i \in 1 .. 3 + n : d[i] = IF i <= 3 THEN l[i] ELSE c[i - 3]
  <2>1. /\ l \o c \in Seq(Byte) /\ Len(l \o c) = Len(l) + Len(c)
        /\ \A i \in 1 .. Len(l) + Len(c) : (l \o c)[i] = IF i <= Len(l) THEN l[i] ELSE c[i - Len(l)]
    BY ConcatProperties
  <2>2. /\ l \o c \in Seq(Byte) /\ Len(l \o c) = 3 + n
        /\ \A i \in 1 .. 3 + n : (l \o c)[i] = IF i <= 3 THEN l[i] ELSE c[i - 3]
    BY <1>1, <2>1, Zenon
  <2> QED
    BY <2>2
<1>4. PICK f \in Seq(Byte) :
         /\ f = d \o e /\ Len(f) = (3 + n) + 2
         /\ \A i \in 1 .. (3 + n) + 2 : f[i] = IF i <= 3 + n THEN d[i] ELSE e[i - (3 + n)]
  <2>1. /\ d \o e \in Seq(Byte) /\ Len(d \o e) = Len(d) + Len(e)
        /\ \A i \in 1 .. Len(d) + Len(e) : (d \o e)[i] = IF i <= Len(d) THEN d[i] ELSE e[i - Len(d)]
    BY ConcatProperties
  <2>2. /\ d \o e \in Seq(Byte) /\ Len(d \o e) = (3 + n) + 2
        /\ \A i \in 1 .. (3 + n) + 2 : (d \o e)[i] = IF i <= 3 + n THEN d[i] ELSE e[i - (3 + n)]
    BY <1>2, <1>3, <2>1, Zenon
  <2> QED
    BY <2>2
<1>5. ChunkText(c) = f
  BY <1>1, <1>2, <1>3, <1>4, Zenon DEF ChunkText
<1>6. f[1] = Hex[n] /\ f[2] = "CR" /\ f[3] = "LF"
  <2>1. /\ 1 \in 1 .. (3 + n) + 2 /\ 2 \in 1 .. (3 + n) + 2 /\ 3 \in 1 .. (3 + n) + 2
        /\ 1 <= 3 + n /\ 2 <= 3 + n /\ 3 <= 3 + n /\ 1 <= 3 /\ 2 <= 3 /\ 3 <= 3
        /\ 1 \in 1 .. 3 + n /\ 2 \in 1 .. 3 + n /\ 3 \in 1 .. 3 + n
    OBVIOUS
  <2> QED
    BY <1>1, <1>3, <1>4, <2>1
<1>7. ASSUME NEW i \in 1 .. n
      PROVE  f[i + 3] = c[i]
  <2>1. /\ i + 3 \in 1 .. (3 + n) + 2 /\ i + 3 \in 1 .. 3 + n
        /\ i + 3 <= 3 + n /\ ~ (i + 3 <= 3) /\ (i + 3) - 3 = i
    OBVIOUS
  <2>2. f[i + 3] = d[i + 3]
    BY <1>4, <2>1
  <2>3. d[i + 3] = c[(i + 3) - 3]
    BY <1>3, <2>1
  <2> QED
    BY <2>1, <2>2, <2>3
<1>8. f[n + 4] = "CR" /\ f[n + 5] = "LF"
  <2>1. /\ n + 4 \in 1 .. (3 + n) + 2 /\ n + 5 \in 1 .. (3 + n) + 2
        /\ ~ (n + 4 <= 3 + n) /\ ~ (n + 5 <= 3 + n)
        /\ (n + 4) - (3 + n) = 1 /\ (n + 5) - (3 + n) = 2
    OBVIOUS
  <2>2. f[n + 4] = e[(n + 4) - (3 + n)] /\ f[n + 5] = e[(n + 5) - (3 + n)]
    BY <1>4, <2>1
  <2> QED
    BY <1>2, <2>1, <2>2
<1>9. Len(f) = n + 5
  BY <1>4
<1> QED
  BY <1>5, <1>6, <1>7, <1>8, <1>9

(* Named, so that the provers take them at the sequences they are given. *)
Associates(a, b, c) == (a \o b) \o c = a \o (b \o c)

LEMMA Associative ==
    ASSUME NEW S, NEW a \in Seq(S), NEW b \in Seq(S), NEW c \in Seq(S)
    PROVE  Associates(a, b, c)
BY ConcatAssociative DEF Associates

Joined(S, a, b) == a \o b \in Seq(S)

LEMMA Joins ==
    ASSUME NEW S, NEW a \in Seq(S), NEW b \in Seq(S)
    PROVE  Joined(S, a, b)
BY ConcatProperties DEF Joined

(* The end of a body in chunks. *)
LastChunk == <<Hex[0]>> \o CRLF

LEMMA LastChunkIs ==
    /\ LastChunk \in Seq(Byte) /\ Len(LastChunk) = 3
    /\ LastChunk[1] = Hex[0] /\ LastChunk[2] = "CR" /\ LastChunk[3] = "LF"
<1>1. PICK t \in Byte : t = Hex[0]
  BY Bytes, HttpAssumption
<1>2. /\ <<t>> \o CRLF \in Seq(Byte) /\ Len(<<t>> \o CRLF) = 3
      /\ (<<t>> \o CRLF)[1] = t /\ (<<t>> \o CRLF)[2] = "CR" /\ (<<t>> \o CRLF)[3] = "LF"
  BY Bytes, LineIs
<1> QED
  BY <1>1, <1>2 DEF LastChunk

LEMMA ChunkTextsAre ==
    ASSUME NEW m \in Stored
    PROVE  /\ ChunkTexts(m.chunks) \in Seq(Seq(Byte))
           /\ Len(ChunkTexts(m.chunks)) = Len(m.chunks)
           /\ \A i \in 1 .. Len(m.chunks) : ChunkTexts(m.chunks)[i] = ChunkText(m.chunks[i])
<1>1. PICK n \in Nat : n = Len(m.chunks)
  BY GoodMessage
<1>2. ASSUME NEW i \in 1 .. n
      PROVE  ChunkText(m.chunks[i]) \in Seq(Byte)
  <2>1. PICK c \in Seq(Byte) : c = m.chunks[i]
    BY <1>1, GoodMessage
  <2>2. PICK k \in Nat : k = Len(c)
    OBVIOUS
  <2>3. k \in DOMAIN Hex
    BY <1>1, <2>1, <2>2, GoodMessage
  <2> QED
    BY <2>1, <2>2, <2>3, ChunkTextIs
<1>3. ChunkTexts(m.chunks) = [i \in 1 .. n |-> ChunkText(m.chunks[i])]
  BY <1>1 DEF ChunkTexts
<1> QED
  BY <1>1, <1>2, <1>3

(* Chunk by chunk. *)
LEMMA ChunksAre ==
    ASSUME NEW m \in Stored, NEW n \in Nat, n = Len(m.chunks)
    PROVE  /\ \A j \in 1 .. n + 1 : ChunksFrom(m.chunks, j) \in Seq(Byte)
           /\ ChunksFrom(m.chunks, n + 1) = LastChunk \o CRLF
           /\ \A j \in 1 .. n : ChunksFrom(m.chunks, j)
                                  = ChunkText(m.chunks[j]) \o ChunksFrom(m.chunks, j + 1)
<1>1. PICK ss \in Seq(Seq(Byte)) :
         /\ ss = ChunkTexts(m.chunks) /\ Len(ss) = n
         /\ \A i \in 1 .. n : ss[i] = ChunkText(m.chunks[i])
  BY ChunkTextsAre
<1>2. /\ \A j \in 1 .. n + 1 : ConcatFrom(ss, j) \in Seq(Byte)
      /\ ConcatFrom(ss, n + 1) = <<>>
      /\ \A j \in 1 .. n : ConcatFrom(ss, j) = ss[j] \o ConcatFrom(ss, j + 1)
  BY <1>1, ConcatFromNext
<1>3. PICK h \in Seq(Byte), e \in Seq(Byte), l \in Seq(Byte) :
         h = <<Hex[0]>> /\ e = CRLF /\ l = h \o e
  <2>1. PICK t \in Byte : t = Hex[0]
    BY Bytes, HttpAssumption
  <2>2. <<t>> \in Seq(Byte)
    OBVIOUS
  <2>3. PICK h \in Seq(Byte), e \in Seq(Byte) : h = <<Hex[0]>> /\ e = CRLF
    BY <2>1, <2>2, Bytes
  <2>4. h \o e \in Seq(Byte)
    BY ConcatProperties
  <2> QED
    BY <2>3, <2>4
<1>4. PICK z \in Seq(Byte) : z = l \o e
  <2>1. l \o e \in Seq(Byte)
    BY ConcatProperties
  <2> QED
    BY <2>1
<1>5. z = LastChunk \o CRLF
  BY <1>3, <1>4 DEF LastChunk
<1>6. ASSUME NEW j \in 1 .. n + 1
      PROVE  ChunksFrom(m.chunks, j) = ConcatFrom(ss, j) \o z /\ ChunksFrom(m.chunks, j) \in Seq(Byte)
  <2>1. PICK a \in Seq(Byte) : a = ConcatFrom(ss, j)
    BY <1>2
  <2>2. ChunksFrom(m.chunks, j) = ((a \o h) \o e) \o e
    BY <1>1, <1>3, <2>1, Zenon DEF ChunksFrom
  <2>3. Associates(a, h, e) /\ Associates(a, l, e) /\ Joined(Byte, a, z)
    BY Associative, Joins
  <2> QED
    BY <1>3, <1>4, <2>1, <2>2, <2>3, Zenon DEF Associates, Joined
<1>7. ChunksFrom(m.chunks, n + 1) = LastChunk \o CRLF
  <2>1. ChunksFrom(m.chunks, n + 1) = ConcatFrom(ss, n + 1) \o z
    <3>1. n + 1 \in 1 .. n + 1
      OBVIOUS
    <3> QED
      BY <1>6, <3>1, Zenon
  <2>2. <<>> \o z = z
    BY ConcatEmptySeq
  <2> QED
    BY <2>1, <2>2, <1>2, <1>5
<1>8. ASSUME NEW j \in 1 .. n
      PROVE  ChunksFrom(m.chunks, j) = ChunkText(m.chunks[j]) \o ChunksFrom(m.chunks, j + 1)
  <2>1. j \in 1 .. n + 1 /\ j + 1 \in 1 .. n + 1
    OBVIOUS
  <2>2. PICK c \in Seq(Byte), r \in Seq(Byte) : c = ss[j] /\ r = ConcatFrom(ss, j + 1)
    <3>1. ss[j] \in Seq(Byte)
      BY <1>1
    <3>2. ConcatFrom(ss, j + 1) \in Seq(Byte)
      BY <1>2, <2>1
    <3> QED
      BY <3>1, <3>2, Zenon
  <2>3. ConcatFrom(ss, j) = c \o r
    BY <1>2, <2>2
  <2>4. Associates(c, r, z)
    BY Associative
  <2>5. ChunksFrom(m.chunks, j) = ConcatFrom(ss, j) \o z
    BY <1>6, <2>1
  <2>6. ChunksFrom(m.chunks, j + 1) = r \o z
    BY <1>6, <2>1, <2>2
  <2>7. c = ChunkText(m.chunks[j])
    BY <1>1, <2>2
  <2> QED
    BY <2>3, <2>4, <2>5, <2>6, <2>7, Zenon DEF Associates
<1> QED
  BY <1>6, <1>7, <1>8

LEMMA BodyIs ==
    ASSUME NEW m \in Stored
    PROVE  BodyText(m) \in Seq(Byte)
<1>1. CASE InChunks(m)
  <2>1. PICK n \in Nat : n = Len(m.chunks)
    BY GoodMessage
  <2>2. 1 \in 1 .. n + 1
    OBVIOUS
  <2>3. ChunksFrom(m.chunks, 1) \in Seq(Byte)
    BY <2>1, <2>2, ChunksAre
  <2> QED
    BY <1>1, <2>3, ChunkedIsChunks DEF BodyText
<1>2. CASE ~ InChunks(m)
  BY <1>2, GoodMessage DEF BodyText
<1> QED
  BY <1>1, <1>2

(* A message is its start line, its header lines with the empty one, and   *)
(* its body.                                                               *)
StartLine(m) == <<m.type>> \o CRLF

LEMMA TextsAre ==
    ASSUME NEW m \in Stored
    PROVE  /\ StartLine(m) \in Seq(Byte) /\ Len(StartLine(m)) = 3
           /\ StartLine(m)[1] = m.type /\ StartLine(m)[2] = "CR" /\ StartLine(m)[3] = "LF"
           /\ HeadLines(m.head) \in Seq(Byte) /\ HeadText(m.head) \in Seq(Byte)
<1>1. PICK t \in Byte, head \in Seq(Byte) : t = m.type /\ head = m.head
  BY GoodMessage
<1>2. /\ <<t>> \o CRLF \in Seq(Byte) /\ Len(<<t>> \o CRLF) = 3
      /\ (<<t>> \o CRLF)[1] = t /\ (<<t>> \o CRLF)[2] = "CR" /\ (<<t>> \o CRLF)[3] = "LF"
  BY Bytes, LineIs
<1>3. HeadLines(head) \in Seq(Byte)
  BY Bytes, HeadLinesAre
<1>4. Joined(Byte, HeadLines(head), CRLF)
  BY <1>3, Bytes, Joins
<1> QED
  BY <1>1, <1>2, <1>3, <1>4 DEF StartLine, HeadText, Joined

LEMMA EncodeIs ==
    ASSUME NEW m \in Stored
    PROVE  /\ Encode(m, FALSE) = StartLine(m) \o (HeadText(m.head) \o BodyText(m))
           /\ Encode(m, FALSE) \in Seq(Byte)
<1>1. PICK r : r = Handed(m)
  OBVIOUS
<1>2. r.type = m.type /\ r.head = m.head /\ r.body = BodyText(m)
  <2>1. m \in [type: {"GET", "HTTP"}, head: Seq(HeaderNames),
               chunks: Seq(Seq(Data)), body: Seq(Text)]
    BY GoodMessage
  <2> QED
    BY <1>1, <2>1 DEF Handed, BodyText
<1>3. Encode(m, FALSE) = writeMessage(r, FALSE)
  BY <1>1, Zenon DEF Encode
<1>4. PICK s \in Seq(Byte), h \in Seq(Byte), e \in Seq(Byte), b \in Seq(Byte) :
         s = StartLine(m) /\ h = HeadLines(m.head) /\ e = CRLF /\ b = BodyText(m)
  BY TextsAre, BodyIs, Bytes
<1>5. Encode(m, FALSE) = ((s \o h) \o e) \o b
  <2>1. /\ <<r.type>> \o CRLF = s
        /\ Concat([i \in 1 .. Len(r.head) |-> <<r.head[i]>> \o CRLF]) = h
    BY <1>2, <1>4, Zenon DEF StartLine, HeadLines, LineTexts
  <2> QED
    BY <1>2, <1>3, <1>4, <2>1, Zenon DEF writeMessage, snprintf
<1>6. PICK a \in Seq(Byte), t \in Seq(Byte) : a = s \o h /\ t = h \o e
  <2>1. Joined(Byte, s, h) /\ Joined(Byte, h, e)
    BY Joins
  <2> QED
    BY <2>1, Zenon DEF Joined
<1>7. PICK u \in Seq(Byte) : u = t \o b
  <2>1. Joined(Byte, t, b)
    BY Joins
  <2> QED
    BY <2>1, Zenon DEF Joined
<1>8. Associates(s, h, e) /\ Associates(s, t, b) /\ Joined(Byte, s, u)
  BY Associative, Joins
<1>9. Encode(m, FALSE) = s \o u
  BY <1>5, <1>6, <1>7, <1>8, Zenon DEF Associates
<1> QED
  BY <1>4, <1>6, <1>7, <1>8, <1>9, Zenon DEF Joined, HeadText

(* What follows the first k messages. *)
Plain(ms) == [i \in 1 .. Len(ms) |-> Encode(ms[i], FALSE)]

Left(ms, b, k) == ConcatFrom(Plain(ms), k + 1) \o b

(* The first message of what is left, and the rest. *)
Continues(ms, b, k) ==
    Left(ms, b, k) = StartLine(ms[k + 1]) \o (HeadText(ms[k + 1].head)
                        \o (BodyText(ms[k + 1]) \o Left(ms, b, k + 1)))

LEMMA LeftIs ==
    ASSUME NEW ms \in Seq(Stored), NEW b \in Seq(Byte), NEW n \in Nat, n = Len(ms)
    PROVE  /\ \A k \in 0 .. n : Left(ms, b, k) \in Seq(Byte)
           /\ Left(ms, b, n) = b
           /\ \A k \in 0 .. n - 1 : Continues(ms, b, k)
<1>1. PICK ss \in Seq(Seq(Byte)) :
         ss = Plain(ms) /\ Len(ss) = n
         /\ \A i \in 1 .. n : ss[i] = Encode(ms[i], FALSE)
  <2>1. \A i \in 1 .. n : ms[i] \in Stored
    OBVIOUS
  <2>2. \A i \in 1 .. n : Encode(ms[i], FALSE) \in Seq(Byte)
    BY <2>1, EncodeIs
  <2> DEFINE e(k) == Encode(ms[k], FALSE)
             all == [k \in 1 .. n |-> e(k)]
  <2>3. \A i \in 1 .. n : e(i) \in Seq(Byte)
    BY <2>2
  <2>4. all = Plain(ms)
    BY Zenon DEF Plain
  <2>5. all \in Seq(Seq(Byte)) /\ Len(all) = n /\ \A i \in 1 .. n : all[i] = e(i)
    <3> HIDE DEF e
    <3> QED
      BY <2>3
  <2> HIDE DEF all
  <2> QED
    BY <2>4, <2>5
<1>2. /\ \A i \in 1 .. n + 1 : ConcatFrom(ss, i) \in Seq(Byte)
      /\ ConcatFrom(ss, n + 1) = <<>>
      /\ \A i \in 1 .. n : ConcatFrom(ss, i) = ss[i] \o ConcatFrom(ss, i + 1)
  BY <1>1, ConcatFromNext
<1>3. \A k : Left(ms, b, k) = ConcatFrom(ss, k + 1) \o b
  BY <1>1, Zenon DEF Left
<1>4. ASSUME NEW k \in 0 .. n
      PROVE  Left(ms, b, k) \in Seq(Byte)
  <2>1. PICK c \in Seq(Byte) : c = ConcatFrom(ss, k + 1)
    BY <1>2
  <2>2. Joined(Byte, c, b)
    BY Joins
  <2> QED
    BY <1>3, <2>1, <2>2, Zenon DEF Joined
<1>5. Left(ms, b, n) = b
  <2>1. <<>> \o b = b
    BY ConcatEmptySeq
  <2> QED
    BY <1>2, <1>3, <2>1, Zenon
<1>6. ASSUME NEW k \in 0 .. n - 1
      PROVE  Continues(ms, b, k)
  <2>1. k + 1 \in 1 .. n /\ k + 1 \in 0 .. n /\ (k + 1) + 1 \in 1 .. n + 1
    OBVIOUS
  <2>2. PICK m \in Stored : m = ms[k + 1]
    BY <2>1
  <2>3. PICK s \in Seq(Byte), h \in Seq(Byte), t \in Seq(Byte) :
           s = StartLine(m) /\ h = HeadText(m.head) /\ t = BodyText(m)
    BY TextsAre, BodyIs
  <2>4. PICK c \in Seq(Byte), r \in Seq(Byte) :
           c = ConcatFrom(ss, (k + 1) + 1) /\ r = Left(ms, b, k + 1)
    BY <1>2, <1>4, <2>1
  <2>5. r = c \o b
    BY <1>3, <2>4, Zenon
  <2>6. PICK ht \in Seq(Byte) : ht = h \o t
    <3>1. Joined(Byte, h, t)
      BY Joins
    <3> QED
      BY <3>1, Zenon DEF Joined
  <2>7. PICK sht \in Seq(Byte) : sht = s \o ht
    <3>1. Joined(Byte, s, ht)
      BY Joins
    <3> QED
      BY <3>1, Zenon DEF Joined
  <2>8. ss[k + 1] = sht
    BY <1>1, <2>1, <2>2, <2>3, <2>6, <2>7, EncodeIs
  <2>9. Left(ms, b, k) = (sht \o c) \o b
    BY <1>2, <1>3, <2>1, <2>4, <2>8, Zenon
  <2>10. Associates(sht, c, b) /\ Associates(s, ht, r) /\ Associates(h, t, r)
    BY Associative
  <2>11. Left(ms, b, k) = s \o (h \o (t \o r))
    BY <2>5, <2>6, <2>7, <2>9, <2>10, Zenon DEF Associates
  <2> QED
    BY <2>2, <2>3, <2>4, <2>11, Zenon DEF Continues
<1> QED
  BY <1>4, <1>5, <1>6

(* m follows the first k messages. *)
IsNext(ms, b, k, m, rest, R) ==
    /\ m = ms[k + 1]
    /\ rest = Left(ms, b, k + 1)
    /\ R = HeadText(m.head) \o (BodyText(m) \o rest)
    /\ Left(ms, b, k) = StartLine(m) \o R
    /\ Left(ms, b, k) # <<>>

LEMMA NextMessage ==
    ASSUME NEW ms \in Seq(Stored), NEW b \in Seq(Byte), NEW n \in Nat, n = Len(ms),
           NEW k \in 0 .. n - 1
    PROVE  \E m \in Stored, rest \in Seq(Byte), R \in Seq(Byte) : IsNext(ms, b, k, m, rest, R)
<1>1. k + 1 \in 1 .. n /\ k + 1 \in 0 .. n
  OBVIOUS
<1>2. PICK m \in Stored : m = ms[k + 1]
  BY <1>1
<1>3. PICK h \in Seq(Byte), t \in Seq(Byte), rest \in Seq(Byte), A \in Seq(Byte) :
         /\ h = HeadText(m.head) /\ t = BodyText(m) /\ rest = Left(ms, b, k + 1)
         /\ A = StartLine(m) /\ Len(A) = 3
  BY <1>1, TextsAre, BodyIs, LeftIs
<1>4. PICK u \in Seq(Byte) : u = t \o rest
  <2>1. Joined(Byte, t, rest)
    BY Joins
  <2> QED
    BY <2>1, Zenon DEF Joined
<1>5. PICK R \in Seq(Byte) : R = h \o u
  <2>1. Joined(Byte, h, u)
    BY Joins
  <2> QED
    BY <2>1, Zenon DEF Joined
<1>6. Left(ms, b, k) = A \o R
  <2>1. Left(ms, b, k) = StartLine(ms[k + 1]) \o (HeadText(ms[k + 1].head)
                            \o (BodyText(ms[k + 1]) \o Left(ms, b, k + 1)))
    <3>1. Continues(ms, b, k)
      BY LeftIs, Zenon
    <3> QED
      BY <3>1, Zenon DEF Continues
  <2> QED
    BY <1>2, <1>3, <1>4, <1>5, <2>1, Zenon
<1>7. A \o R # <<>>
  <2>1. Len(A \o R) = Len(A) + Len(R)
    BY ConcatProperties
  <2> QED
    BY <1>3, <2>1, EmptySeq
<1>8. IsNext(ms, b, k, m, rest, R)
  BY <1>2, <1>3, <1>4, <1>5, <1>6, <1>7, Zenon DEF IsNext
<1> QED
  BY <1>8

-----------------------------------------------------------------------------
(* What the handlers find at each part of a message, of which b has as     *)
(* much as has arrived.                                                    *)

(* A line of one text, at its start. *)
LEMMA LineRead ==
    ASSUME NEW t \in Byte, t # "CR", NEW A \in Seq(Byte), Len(A) >= 3,
           A[1] = t, A[2] = "CR", A[3] = "LF",
           NEW b \in Seq(Byte), NEW w \in Seq(Byte), NEW R \in Seq(Byte), b \o w = A \o R
    PROVE  /\ find(b, CRLF) = IF Len(b) >= 3 THEN 2 ELSE 0
           /\ Len(b) < Len(A) => w # <<>>
           /\ Len(b) >= 3 => SubSeq(b, 1, 1) = <<t>>
<1>1. PICK l \in Nat : l = Len(b)
  OBVIOUS
<1>2. (\A i \in 1 .. Len(b) : i <= Len(A) => b[i] = A[i]) /\ (Len(b) < Len(A) => w # <<>>)
  BY Front
<1>3. (l >= 1 => b[1] = t) /\ (l >= 2 => b[2] = "CR") /\ (l >= 3 => b[3] = "LF")
  BY <1>1, <1>2
<1>4. find(b, CRLF) = IF Len(b) >= 3 THEN 2 ELSE 0
  BY <1>1, <1>3, FindsLineEnd
<1>5. ASSUME l >= 3
      PROVE  SubSeq(b, 1, 1) = <<t>>
  <2>1. PICK d : d = SubSeq(b, 1, 1)
    OBVIOUS
  <2>2. d \in Seq(Byte) /\ Len(d) = 1 /\ d[1] = b[1]
    BY <1>1, <1>5, <2>1
  <2>3. d = <<d[1]>>
    BY <2>2
  <2> QED
    BY <1>3, <1>5, <2>1, <2>2, <2>3
<1> QED
  BY <1>1, <1>2, <1>4, <1>5

StartLineRead(b, w, m, R) ==
    /\ find(b, CRLF) = IF Len(b) >= 3 THEN 2 ELSE 0
    /\ Len(b) < 3 => w # <<>>
    /\ Len(b) >= 3 => /\ StartLineType(SubSeq(b, 1, 1)) = m.type
                      /\ SubSeq(b, 4, Len(b)) \in Seq(Byte)
                      /\ SubSeq(b, 4, Len(b)) \o w = R

LEMMA ReadsStartLine ==
    ASSUME NEW m \in Stored, NEW b \in Seq(Byte), NEW w \in Seq(Byte), NEW R \in Seq(Byte),
           SameBytes(b, w, StartLine(m), R)
    PROVE  StartLineRead(b, w, m, R)
<1>1. PICK A \in Seq(Byte), t \in Byte :
         A = StartLine(m) /\ Len(A) = 3 /\ t = m.type /\ t # "CR" /\ t \in {"GET", "HTTP"}
         /\ A[1] = t /\ A[2] = "CR" /\ A[3] = "LF"
  BY TextsAre, GoodMessage
<1>2. b \o w = A \o R
  BY <1>1, Zenon DEF SameBytes
<1>3. /\ find(b, CRLF) = IF Len(b) >= 3 THEN 2 ELSE 0
      /\ Len(b) < Len(A) => w # <<>>
      /\ Len(b) >= 3 => SubSeq(b, 1, 1) = <<t>>
  <2>1. Len(A) >= 3
    BY <1>1
  <2> QED
    BY <1>1, <1>2, <2>1, LineRead
<1>4. StartLineType(<<t>>) = t
  <2>1. <<t>> # <<>> /\ <<t>>[1] = t /\ (<<t>> = <<"GET">> <=> t = "GET")
    OBVIOUS
  <2> QED
    BY <1>1, <2>1 DEF StartLineType
<1>5. ASSUME Len(b) >= 3
      PROVE  SubSeq(b, 4, Len(b)) \in Seq(Byte) /\ SubSeq(b, 4, Len(b)) \o w = R
  <2>1. SameBytes(b, w, A, R) /\ 3 <= Len(b)
    BY <1>2, <1>5 DEF SameBytes
  <2>2. IsRead(Byte, b, w, 3, A, R)
    BY <1>1, <2>1, Consume
  <2>3. 3 + 1 = 4
    OBVIOUS
  <2> QED
    BY <2>2, <2>3, Zenon DEF IsRead
<1> QED
  BY <1>1, <1>3, <1>4, <1>5 DEF StartLineRead

HeadRead(b, w, head, n, R) ==
    /\ HeadFound(head, n, b)
    /\ Len(b) < 3 * n + 2 => w # <<>>
    /\ Len(b) >= 3 * n + 2 => /\ SubSeq(b, 3 * n + 3, Len(b)) \in Seq(Byte)
                              /\ SubSeq(b, 3 * n + 3, Len(b)) \o w = R

LEMMA ReadsHead ==
    ASSUME NEW m \in Stored, NEW n \in Nat \ {0}, n = Len(m.head),
           NEW b \in Seq(Byte), NEW w \in Seq(Byte), NEW R \in Seq(Byte),
           SameBytes(b, w, HeadText(m.head), R)
    PROVE  HeadRead(b, w, m.head, n, R)
<1>1. PICK A \in Seq(Byte), head \in Seq(Byte) :
         /\ A = HeadText(m.head) /\ head = m.head /\ A = HeadText(head)
         /\ \A i \in 1 .. n : head[i] # "CR"
  BY TextsAre, GoodMessage
<1>3. SameBytes(b, w, A, R)
  BY <1>1
<1>4. Begins(b, A) /\ (Len(b) < Len(A) => w # <<>>)
  BY <1>3, BeginsWith
<1>6. Len(A) = 3 * n + 2 /\ HeadFound(head, n, b)
  <2>1. n = Len(head) /\ A = HeadText(head) /\ Begins(b, A)
    BY <1>1, <1>4
  <2>2. NoCr(head)
    BY <1>1, <2>1 DEF NoCr
  <2>3. "CR" \in Byte /\ "LF" \in Byte
    BY Bytes
  <2> QED
    BY <2>1, <2>2, <2>3, HeadEnds
<1>5. ASSUME Len(b) >= 3 * n + 2
      PROVE  SubSeq(b, 3 * n + 3, Len(b)) \in Seq(Byte) /\ SubSeq(b, 3 * n + 3, Len(b)) \o w = R
  <2>1. PICK k \in Nat : k = 3 * n + 2 /\ k <= Len(b) /\ k = Len(A) /\ k + 1 = 3 * n + 3
    BY <1>5, <1>6
  <2>2. IsRead(Byte, b, w, k, A, R)
    BY <1>3, <2>1, Consume
  <2> QED
    BY <2>1, <2>2, Zenon DEF IsRead
<1> QED
  BY <1>1, <1>4, <1>5, <1>6 DEF HeadRead

EmptyLineRead(b, w, R) ==
    /\ Len(b) < 2 => ~ OccursAt(b, CRLF, 1) /\ find(b, CRLF \o CRLF) = 0 /\ w # <<>>
    /\ Len(b) >= 2 => /\ OccursAt(b, CRLF, 1)
                      /\ SubSeq(b, 3, Len(b)) \in Seq(Byte)
                      /\ SubSeq(b, 3, Len(b)) \o w = R

LEMMA ReadsEmptyLine ==
    ASSUME NEW b \in Seq(Byte), NEW w \in Seq(Byte), NEW R \in Seq(Byte),
           SameBytes(b, w, CRLF, R)
    PROVE  EmptyLineRead(b, w, R)
<1>1. PICK A \in Seq(Byte) : A = CRLF /\ Len(A) = 2 /\ A[1] = "CR" /\ A[2] = "LF"
  BY Bytes
<1>2. b \o w = A \o R
  BY <1>1, Zenon DEF SameBytes
<1>3. (\A i \in 1 .. Len(b) : i <= Len(A) => b[i] = A[i]) /\ (Len(b) < Len(A) => w # <<>>)
  BY <1>2, Front
<1>4. ASSUME Len(b) < 2
      PROVE  ~ OccursAt(b, CRLF, 1) /\ find(b, CRLF \o CRLF) = 0 /\ w # <<>>
  <2>1. ~ OccursAt(b, CRLF, 1)
    <3>1. Len(CRLF) = 2
      BY <1>1
    <3> QED
      BY <1>4, <3>1 DEF OccursAt
  <2>2. \A j \in 1 .. Len(b) : ~ OccursAt(b, CRLF \o CRLF, j)
    BY <1>4, OccursTwoCrlf
  <2> QED
    BY <1>1, <1>3, <1>4, <2>1, <2>2, FindsNone
<1>5. ASSUME Len(b) >= 2
      PROVE  /\ OccursAt(b, CRLF, 1)
             /\ SubSeq(b, 3, Len(b)) \in Seq(Byte) /\ SubSeq(b, 3, Len(b)) \o w = R
  <2>1. SameBytes(b, w, A, R) /\ 2 <= Len(b) /\ 2 + 1 = 3
    BY <1>2, <1>5 DEF SameBytes
  <2>2. IsRead(Byte, b, w, 2, A, R)
    BY <1>1, <2>1, Consume
  <2>3. 1 \in 1 .. Len(b) /\ b[1] = "CR" /\ b[2] = "LF" /\ 1 + 1 <= Len(b) /\ b[1 + 1] = b[2]
    BY <1>1, <1>3, <1>5
  <2>4. OccursAt(b, CRLF, 1)
    BY <2>3, OccursCrlf
  <2> QED
    BY <2>1, <2>2, <2>4, Zenon DEF IsRead
<1> QED
  BY <1>4, <1>5 DEF EmptyLineRead

(* The number at the head of a chunk. *)
LEMMA ChunkSizeIs ==
    ASSUME NEW n \in DOMAIN Hex
    PROVE  /\ ChunkSize(<<Hex[n]>>) = n
           /\ TotalChunkSize(<<Hex[n]>>, n) = IF n = 0 THEN 3 ELSE n + 5
<1>1. n \in Nat /\ \A k \in DOMAIN Hex : Hex[n] = Hex[k] => k = n
  BY HttpAssumption
<1>2. PICK line : line = <<Hex[n]>> /\ line # <<>> /\ line[1] = Hex[n] /\ Len(line) = 1
  <2>1. PICK t : t = Hex[n]
    OBVIOUS
  <2>2. <<t>> # <<>> /\ <<t>>[1] = t /\ Len(<<t>>) = 1
    OBVIOUS
  <2> QED
    BY <2>1, <2>2, Zenon
<1>3. (CHOOSE k \in DOMAIN Hex : line[1] = Hex[k]) = n
  BY <1>1, <1>2
<1>4. ChunkSize(line) = n
  BY <1>2, <1>3 DEF ChunkSize
<1>5. TotalChunkSize(line, n) = IF n = 0 THEN 3 ELSE n + 5
  BY <1>1, <1>2 DEF TotalChunkSize
<1> QED
  BY <1>2, <1>4, <1>5

ChunkRead(b, w, c, n, R) ==
    /\ find(b, CRLF) = IF Len(b) >= 3 THEN 2 ELSE 0
    /\ Len(b) < n + 5 => w # <<>>
    /\ Len(b) >= 3 => SubSeq(b, 1, 1) = <<Hex[n]>>
    /\ Len(b) >= n + 5 => /\ b[n + 4] = "CR" /\ b[n + 5] = "LF"
                          /\ SubSeq(b, 4, n + 3) = c
                          /\ SubSeq(b, n + 6, Len(b)) \in Seq(Byte)
                          /\ SubSeq(b, n + 6, Len(b)) \o w = R

LEMMA ReadsChunk ==
    ASSUME NEW c \in Seq(Byte), NEW n \in Nat, n = Len(c), n \in DOMAIN Hex,
           NEW b \in Seq(Byte), NEW w \in Seq(Byte), NEW R \in Seq(Byte),
           SameBytes(b, w, ChunkText(c), R)
    PROVE  ChunkRead(b, w, c, n, R)
<1>1. PICK A \in Seq(Byte) :
         /\ A = ChunkText(c) /\ Len(A) = n + 5
         /\ A[1] = Hex[n] /\ A[2] = "CR" /\ A[3] = "LF"
         /\ \A i \in 1 .. n : A[i + 3] = c[i]
         /\ A[n + 4] = "CR" /\ A[n + 5] = "LF"
  BY ChunkTextIs
<1>2. SameBytes(b, w, A, R) /\ b \o w = A \o R
  BY <1>1, Zenon DEF SameBytes
<1>3. PICK t \in Byte : t = Hex[n] /\ t # "CR"
  BY Bytes, HttpAssumption
<1>4. PICK l \in Nat : l = Len(b)
  OBVIOUS
<1>5. /\ find(b, CRLF) = IF Len(b) >= 3 THEN 2 ELSE 0
      /\ Len(b) < Len(A) => w # <<>>
      /\ Len(b) >= 3 => SubSeq(b, 1, 1) = <<t>>
  <2>1. Len(A) >= 3 /\ A[1] = t /\ A[2] = "CR" /\ A[3] = "LF" /\ t # "CR"
    BY <1>1, <1>3
  <2> QED
    BY <1>2, <2>1, LineRead
<1>6. Begins(b, A)
  BY <1>2, BeginsWith
<1>7. ASSUME l >= n + 5
      PROVE  /\ b[n + 4] = "CR" /\ b[n + 5] = "LF"
             /\ SubSeq(b, 4, n + 3) = c
             /\ SubSeq(b, n + 6, Len(b)) \in Seq(Byte)
             /\ SubSeq(b, n + 6, Len(b)) \o w = R
  <2>1. \A i \in 1 .. n + 5 : b[i] = A[i]
    <3>1. \A i \in 1 .. n + 5 : i \in 1 .. l
      BY <1>7
    <3>2. \A i \in 1 .. l : i <= n + 5 => b[i] = A[i]
      BY <1>1, <1>4, <1>6, Zenon DEF Begins
    <3> QED
      BY <3>1, <3>2
  <2>2. b[n + 4] = "CR" /\ b[n + 5] = "LF"
    BY <1>1, <2>1
  <2>3. SubSeq(b, 4, n + 3) = c
    <3>1. PICK d : d = SubSeq(b, 4, n + 3)
      OBVIOUS
    <3>2. d \in Seq(Byte) /\ Len(d) = n /\ \A i \in 1 .. n : d[i] = b[i + 3]
      BY <1>4, <1>7, <3>1
    <3>3. ASSUME NEW i \in 1 .. n
          PROVE  d[i] = c[i]
      <4>1. i + 3 \in 1 .. n + 5
        OBVIOUS
      <4>2. b[i + 3] = A[i + 3]
        BY <2>1, <4>1
      <4> QED
        BY <1>1, <3>2, <4>2
    <3>4. d = c
      BY <3>2, <3>3, SeqEqual
    <3> QED
      BY <3>1, <3>4
  <2>4. PICK k \in Nat : k = n + 5 /\ k = Len(A) /\ k <= Len(b) /\ k + 1 = n + 6
    BY <1>1, <1>4, <1>7
  <2>5. IsRead(Byte, b, w, k, A, R)
    BY <1>2, <2>4, Consume
  <2> QED
    BY <2>2, <2>3, <2>4, <2>5, Zenon DEF IsRead
<1> QED
  BY <1>1, <1>3, <1>4, <1>5, <1>7, Zenon DEF ChunkRead

(* The head of the last chunk, and what is known of the CRLF behind it. *)
LastRead(b, w, R) ==
    /\ find(b, CRLF) = IF Len(b) >= 3 THEN 2 ELSE 0
    /\ Len(b) < 3 => w # <<>>
    /\ Len(b) >= 3 => /\ SubSeq(b, 1, 1) = <<Hex[0]>>
                      /\ b[1] = Hex[0] /\ b[2] = "CR" /\ b[3] = "LF"
                      /\ SubSeq(b, 4, Len(b)) \in Seq(Byte)
                      /\ SubSeq(b, 4, Len(b)) \o w = CRLF \o R
    /\ Len(b) >= 4 => b[4] = "CR"
    /\ Len(b) >= 5 => b[5] = "LF"

LEMMA ReadsLast ==
    ASSUME NEW b \in Seq(Byte), NEW w \in Seq(Byte), NEW R \in Seq(Byte),
           SameBytes(b, w, LastChunk, CRLF \o R)
    PROVE  LastRead(b, w, R)
<1>1. PICK A \in Seq(Byte), e \in Seq(Byte) :
         /\ A = LastChunk /\ Len(A) = 3 /\ A[1] = Hex[0] /\ A[2] = "CR" /\ A[3] = "LF"
         /\ e = CRLF /\ Len(e) = 2 /\ e[1] = "CR" /\ e[2] = "LF"
  BY LastChunkIs, Bytes
<1>2. PICK B \in Seq(Byte), Z \in Seq(Byte) : B = e \o R /\ Z = A \o e
  <2>1. Joined(Byte, e, R) /\ Joined(Byte, A, e)
    BY Joins
  <2> QED
    BY <2>1, Zenon DEF Joined
<1>3. SameBytes(b, w, A, B) /\ b \o w = A \o B
  BY <1>1, <1>2, Zenon DEF SameBytes
<1>4. SameBytes(b, w, Z, R)
  <2>1. Associates(A, e, R)
    BY Associative
  <2> QED
    BY <1>2, <1>3, <2>1, Zenon DEF Associates, SameBytes
<1>5. Len(Z) = 5 /\ Z[4] = "CR" /\ Z[5] = "LF"
  <2>1. /\ Len(A \o e) = Len(A) + Len(e)
        /\ \A i \in 1 .. Len(A) + Len(e) : (A \o e)[i] = IF i <= Len(A) THEN A[i] ELSE e[i - Len(A)]
    BY ConcatProperties
  <2>2. Len(Z) = 5 /\ \A i \in 1 .. 5 : Z[i] = IF i <= 3 THEN A[i] ELSE e[i - 3]
    BY <1>1, <1>2, <2>1
  <2>3. 4 \in 1 .. 5 /\ 5 \in 1 .. 5 /\ ~ (4 <= 3) /\ ~ (5 <= 3) /\ 4 - 3 = 1 /\ 5 - 3 = 2
    OBVIOUS
  <2>4. Z[4] = e[4 - 3] /\ Z[5] = e[5 - 3]
    BY <2>2, <2>3
  <2> QED
    BY <1>1, <2>2, <2>3, <2>4
<1>6. PICK t \in Byte : t = Hex[0] /\ t # "CR"
  BY Bytes, HttpAssumption
<1>7. /\ find(b, CRLF) = IF Len(b) >= 3 THEN 2 ELSE 0
      /\ Len(b) < Len(A) => w # <<>>
      /\ Len(b) >= 3 => SubSeq(b, 1, 1) = <<t>>
  <2>1. Len(A) >= 3 /\ A[1] = t /\ A[2] = "CR" /\ A[3] = "LF" /\ t # "CR"
    BY <1>1, <1>6
  <2> QED
    BY <1>3, <2>1, LineRead
<1>8. PICK l \in Nat : l = Len(b)
  OBVIOUS
<1>9. Begins(b, A) /\ Begins(b, Z)
  BY <1>3, <1>4, BeginsWith
<1>10. l >= 3 => b[1] = Hex[0] /\ b[2] = "CR" /\ b[3] = "LF"
  <2>1. \A i \in 1 .. l : i <= 3 => b[i] = A[i]
    BY <1>1, <1>8, <1>9, Zenon DEF Begins
  <2> QED
    BY <1>1, <2>1
<1>11. (l >= 4 => b[4] = "CR") /\ (l >= 5 => b[5] = "LF")
  BY <1>5, <1>8, <1>9 DEF Begins
<1>12. ASSUME l >= 3
       PROVE  SubSeq(b, 4, Len(b)) \in Seq(Byte) /\ SubSeq(b, 4, Len(b)) \o w = CRLF \o R
  <2>1. 3 = Len(A) /\ 3 <= Len(b) /\ 3 + 1 = 4
    BY <1>1, <1>8, <1>12
  <2>2. IsRead(Byte, b, w, 3, A, B)
    BY <1>3, <2>1, Consume
  <2> QED
    BY <1>1, <1>2, <2>1, <2>2, Zenon DEF IsRead
<1> QED
  BY <1>1, <1>6, <1>7, <1>8, <1>10, <1>11, <1>12, Zenon DEF LastRead

-----------------------------------------------------------------------------
(* What the headers of a message announce. *)
Announced(m) == [type |-> m.type, length |-> IF InChunks(m) THEN 0 ELSE Len(m.body),
                 chunked |-> InChunks(m), body |-> <<>>]

HeaderLines(m) == [i \in 1 .. Len(m.head) |-> <<m.head[i]>>]

LEMMA HeaderLinesAre ==
    ASSUME NEW m \in Stored
    PROVE  /\ Len(HeaderLines(m)) = Len(m.head)
           /\ \A i \in 1 .. Len(m.head) : HeaderLines(m)[i] = <<m.head[i]>>
           /\ \A i \in 1 .. Len(HeaderLines(m)) : HasColon(HeaderLines(m)[i])
<1>1. PICK n \in Nat : n = Len(m.head)
  BY GoodMessage
<1>2. HeaderLines(m) = [i \in 1 .. n |-> <<m.head[i]>>]
  BY <1>1 DEF HeaderLines
<1>3. Len(HeaderLines(m)) = n /\ \A i \in 1 .. n : HeaderLines(m)[i] = <<m.head[i]>>
  BY <1>2
<1>4. ASSUME NEW i \in 1 .. n
      PROVE  HasColon(HeaderLines(m)[i])
  <2>1. PICK t : t = m.head[i] /\ t \in HeaderNames
    BY <1>1, GoodMessage
  <2>2. HasColon(<<t>>)
    BY <2>1 DEF HasColon
  <2> QED
    BY <1>3, <2>1, <2>2
<1> QED
  BY <1>1, <1>3, <1>4

LEMMA Announces ==
    ASSUME NEW m \in Stored
    PROVE  setHeaders(NewMessage(m.type), HeaderLines(m)) = Announced(m)
<1>1. PICK L, r : L = HeaderLines(m) /\ r = NewMessage(m.type)
  OBVIOUS
<1>2. r = [type |-> m.type, length |-> 0, chunked |-> FALSE, body |-> <<>>]
  BY <1>1 DEF NewMessage
<1> DEFINE lengths == {i \in 1 .. Len(L) : \E n \in DOMAIN Length : L[i] = <<Length[n]>>}
           last == CHOOSE i \in lengths : \A j \in lengths : j <= i
           x == IF lengths = {} THEN r.length
                ELSE CHOOSE n \in DOMAIN Length : L[last] = <<Length[n]>>
           chunks == r.chunked \/ \E i \in 1 .. Len(L) : L[i] = <<"TE">>
<1>5. setHeaders(r, L) = [r EXCEPT !.length = x, !.chunked = chunks]
  BY Zenon DEF setHeaders
<1>6. chunks <=> InChunks(m)
  <2>1. PICK n \in Nat : n = Len(m.head)
    BY GoodMessage
  <2>2. Len(L) = n /\ \A i \in 1 .. n : L[i] = <<m.head[i]>>
    BY <1>1, <2>1, HeaderLinesAre
  <2>3. \A t : <<t>> = <<"TE">> <=> t = "TE"
    OBVIOUS
  <2>4. \A i \in 1 .. n : L[i] = <<"TE">> <=> m.head[i] = "TE"
    BY <2>2, <2>3
  <2>5. (\E i \in 1 .. Len(L) : L[i] = <<"TE">>) <=> InChunks(m)
    BY <2>1, <2>2, <2>4, Zenon DEF InChunks
  <2>6. r.chunked = FALSE
    BY <1>2
  <2> QED
    BY <2>5, <2>6
<1> HIDE DEF chunks, x
<1>7. setHeaders(r, L) = [type |-> m.type, length |-> x, chunked |-> chunks, body |-> <<>>]
  BY <1>2, <1>5
<1>8. x = IF InChunks(m) THEN 0 ELSE Len(m.body)
  <2>1. WellFramed(m)
    BY DEF Stored
  <2>2. setHeaders(r, L).length = IF InChunks(m) THEN 0 ELSE Len(m.body)
    BY <1>1, <2>1, Zenon DEF WellFramed, HeaderLines
  <2> QED
    BY <1>7, <2>2
<1>9. chunks = InChunks(m)
  <2>1. chunks \in BOOLEAN /\ InChunks(m) \in BOOLEAN
    BY DEF chunks, InChunks
  <2> QED
    BY <1>6, <2>1
<1> QED
  BY <1>1, <1>7, <1>8, <1>9, Zenon DEF Announced

LEMMA WithoutHeaders ==
    ASSUME NEW m \in Stored, m.head = <<>>
    PROVE  ~ InChunks(m) /\ m.body = <<>> /\ HeadText(m.head) = CRLF
<1>1. Len(m.head) = 0
  OBVIOUS
<1>2. ~ InChunks(m)
  BY <1>1 DEF InChunks
<1>3. Len(m.body) = 0
  <2>1. PICK L : L = HeaderLines(m) /\ Len(L) = 0
    BY <1>1, HeaderLinesAre
  <2>0. NewMessage(m.type).length = 0
    BY DEF NewMessage
  <2>2. PICK r : r = NewMessage(m.type) /\ r.length = 0
    BY <2>0
  <2>3. r \in [type: {r.type}, length: {0}, chunked: {FALSE}, body: {<<>>}]
    BY <2>2 DEF NewMessage
  <2>4. setHeaders(r, L).length = 0
    <3> DEFINE lengths == {i \in 1 .. Len(L) : \E n \in DOMAIN Length : L[i] = <<Length[n]>>}
    <3>1. lengths = {}
      BY <2>1
    <3> QED
      BY <2>2, <2>3, <3>1 DEF setHeaders
  <2>5. setHeaders(r, L).length = IF InChunks(m) THEN 0 ELSE Len(m.body)
    <3>1. setHeaders(r, L) = Announced(m)
      BY <2>1, <2>2, Announces
    <3> QED
      BY <3>1 DEF Announced
  <2> QED
    BY <1>2, <2>4, <2>5
<1>4. m.body = <<>>
  BY <1>3, GoodMessage, EmptySeq
<1>5. HeadText(m.head) = CRLF
  <2>1. PICK h \in Seq(Byte) : h = HeadLines(m.head) /\ Len(h) = 3 * Len(m.head)
    <3>1. PICK head \in Seq(Byte) : head = m.head
      BY GoodMessage
    <3>2. HeadLines(head) \in Seq(Byte) /\ Len(HeadLines(head)) = 3 * Len(head)
      BY Bytes, HeadLinesAre
    <3> QED
      BY <3>1, <3>2
  <2>2. h = <<>>
    BY <1>1, <2>1
  <2>3. <<>> \o CRLF = CRLF
    BY Bytes, ConcatEmptySeq
  <2> QED
    BY <2>1, <2>2, <2>3, Zenon DEF HeadText
<1> QED
  BY <1>2, <1>4, <1>5

-----------------------------------------------------------------------------
(* Chunks: cb has those before the j-th. *)
NextChunk(cb, b, w, chunks, j, R) ==
    /\ SameBytes(b, w, ChunkText(chunks[j]), ChunksFrom(chunks, j + 1) \o R)
    /\ ChunksFrom(chunks, j + 1) \o R \in Seq(Byte)
    /\ cb \o chunks[j] \in Seq(Byte)
    /\ (cb \o chunks[j]) \o ConcatFrom(chunks, j + 1) = Concat(chunks)

LEMMA AtChunk ==
    ASSUME NEW m \in Stored, NEW n \in Nat, n = Len(m.chunks), NEW j \in 1 .. n,
           NEW cb \in Seq(Byte), cb \o ConcatFrom(m.chunks, j) = Concat(m.chunks),
           NEW b \in Seq(Byte), NEW w \in Seq(Byte), NEW R \in Seq(Byte),
           SameBytes(b, w, ChunksFrom(m.chunks, j), R)
    PROVE  NextChunk(cb, b, w, m.chunks, j, R)
<1>1. PICK ss \in Seq(Seq(Byte)) : ss = m.chunks /\ n = Len(ss)
  BY GoodMessage
<1>2. j + 1 \in 1 .. n + 1
  OBVIOUS
<1>3. PICK c \in Seq(Byte), k \in Nat : c = ss[j] /\ k = Len(c) /\ k \in DOMAIN Hex
  <2>1. ss[j] \in Seq(Byte)
    BY <1>1
  <2>2. Len(ss[j]) \in DOMAIN Hex
    BY <1>1, GoodMessage
  <2>3. DOMAIN Hex \subseteq Nat
    BY HttpAssumption
  <2> QED
    BY <2>1, <2>2, <2>3
<1>4. PICK t \in Seq(Byte) : t = ChunkText(c)
  BY <1>3, ChunkTextIs
<1>5. PICK f \in Seq(Byte) : f = ChunksFrom(m.chunks, j + 1) /\ ChunksFrom(m.chunks, j) = t \o f
  <2>1. ChunksFrom(m.chunks, j + 1) \in Seq(Byte)
    BY <1>2, ChunksAre
  <2>2. ChunksFrom(m.chunks, j) = ChunkText(m.chunks[j]) \o ChunksFrom(m.chunks, j + 1)
    BY ChunksAre
  <2> QED
    BY <1>1, <1>3, <1>4, <2>1, <2>2
<1>6. PICK r \in Seq(Byte) : r = ConcatFrom(ss, j + 1) /\ ConcatFrom(ss, j) = c \o r
  BY <1>1, <1>2, <1>3, ConcatFromNext
<1>7. /\ Associates(t, f, R) /\ Associates(cb, c, r)
      /\ Joined(Byte, f, R) /\ Joined(Byte, cb, c)
  BY Associative, Joins
<1>8. SameBytes(b, w, t, f \o R)
  BY <1>5, <1>7, Zenon DEF SameBytes, Associates
<1>9. (cb \o c) \o r = Concat(m.chunks)
  BY <1>1, <1>6, <1>7, Zenon DEF Associates
<1> QED
  BY <1>1, <1>3, <1>4, <1>5, <1>6, <1>7, <1>8, <1>9, Zenon DEF NextChunk, Joined

LEMMA AtLastChunk ==
    ASSUME NEW m \in Stored, NEW n \in Nat, n = Len(m.chunks),
           NEW cb \in Seq(Byte), cb \o ConcatFrom(m.chunks, n + 1) = Concat(m.chunks),
           NEW b \in Seq(Byte), NEW w \in Seq(Byte), NEW R \in Seq(Byte),
           SameBytes(b, w, ChunksFrom(m.chunks, n + 1), R)
    PROVE  cb = Concat(m.chunks) /\ SameBytes(b, w, LastChunk, CRLF \o R)
<1>1. PICK ss \in Seq(Seq(Byte)) : ss = m.chunks /\ n = Len(ss)
  BY GoodMessage
<1>2. ConcatFrom(ss, n + 1) = <<>>
  BY <1>1, ConcatFromNext
<1>3. cb \o <<>> = cb
  BY ConcatEmptySeq
<1>4. PICK A \in Seq(Byte), e \in Seq(Byte) : A = LastChunk /\ e = CRLF
  BY LastChunkIs, Bytes
<1>5. ChunksFrom(m.chunks, n + 1) = A \o e
  BY <1>4, ChunksAre
<1>6. Associates(A, e, R)
  BY Associative
<1> QED
  BY <1>1, <1>2, <1>3, <1>4, <1>5, <1>6, Zenon DEF SameBytes, Associates

-----------------------------------------------------------------------------
(* What the peer's buffer has held: the messages with the NULs snprintf    *)
(* left at the end of bodies.                                              *)
Filled(m, body_full) == [m EXCEPT !.body = snprintf(m.body, body_full)]

stored == [i \in 1 .. Len(sent) |-> Filled(sent[i], full[i])]

LEMMA LastReplaced ==
    ASSUME NEW S, NEW t \in Seq(S), NEW c \in S
    PROVE  [t EXCEPT ![Len(t)] = c] \in Seq(S) /\ Len([t EXCEPT ![Len(t)] = c]) = Len(t)
<1>1. PICK n \in Nat : n = Len(t) /\ t \in [1 .. n -> S]
  OBVIOUS
<1>2. [t EXCEPT ![n] = c] \in [1 .. n -> S]
  BY <1>1
<1>3. PICK u : u = [t EXCEPT ![n] = c]
  OBVIOUS
<1>4. u \in Seq(S) /\ Len(u) = n
  BY <1>2, <1>3
<1> QED
  BY <1>1, <1>3, <1>4

LEMMA FilledIs ==
    ASSUME NEW m \in Good, NEW f \in BOOLEAN, f => MayFill(m)
    PROVE  /\ Filled(m, f) \in Stored
           /\ Encode(m, f) = Encode(Filled(m, f), FALSE)
           /\ Arrived(m, f) = Value(Filled(m, f))
<1>1. PICK k : k = Filled(m, f)
  OBVIOUS
<1>2. m \in [type: {"GET", "HTTP"}, head: Seq(HeaderNames),
             chunks: Seq(Seq(Data)), body: Seq(Data)]
  BY HttpAssumption
<1>3. PICK b \in Seq(Text) : b = snprintf(m.body, f) /\ Len(b) = Len(m.body)
  <2>1. m.body \in Seq(Data) /\ Seq(Data) \subseteq Seq(Text)
    BY <1>2, SeqMonotonic DEF Text
  <2>2. PICK t \in Seq(Text) : t = m.body
    BY <2>1
  <2>3. CASE f /\ t # <<>>
    <3>1. [t EXCEPT ![Len(t)] = "NUL"] \in Seq(Text)
          /\ Len([t EXCEPT ![Len(t)] = "NUL"]) = Len(t)
      <4>1. "NUL" \in Text
        BY DEF Text
      <4> QED
        BY <2>2, <4>1, LastReplaced
    <3> QED
      BY <2>2, <2>3, <3>1 DEF snprintf
  <2>4. CASE ~ (f /\ t # <<>>)
    BY <2>2, <2>4 DEF snprintf
  <2> QED
    BY <2>3, <2>4
<1>4. /\ k.type = m.type /\ k.head = m.head /\ k.chunks = m.chunks /\ k.body = b
      /\ k \in [type: {"GET", "HTTP"}, head: Seq(HeaderNames),
                chunks: Seq(Seq(Data)), body: Seq(Text)]
  BY <1>1, <1>2, <1>3 DEF Filled
<1>5. InChunks(k) <=> InChunks(m)
  BY <1>4, Zenon DEF InChunks
<1>6. k \in Stored
  <2>1. WellFramed(m) /\ \A i \in 1 .. Len(m.chunks) : Len(m.chunks[i]) \in DOMAIN Hex \ {0}
    BY HttpAssumption
  <2>2. WellFramed(k)
    BY <2>1, <1>3, <1>4, <1>5, Zenon DEF WellFramed
  <2> QED
    BY <2>1, <2>2, <1>4 DEF Stored
<1>7. ASSUME InChunks(m)
      PROVE  f = FALSE /\ k = m
  <2>1. f = FALSE
    BY <1>7 DEF MayFill
  <2>2. snprintf(m.body, f) = m.body
    BY <2>1 DEF snprintf
  <2>3. [m EXCEPT !.body = m.body] = m
    BY <1>2
  <2> QED
    BY <1>1, <2>1, <2>2, <2>3, Zenon DEF Filled
<1>8. ASSUME ~ InChunks(m)
      PROVE  Encode(m, f) = Encode(k, FALSE) /\ Arrived(m, f) = Value(k)
  <2>1. Handed(m) = m /\ Handed(k) = k
    BY <1>5, <1>8, Zenon DEF Handed
  <2>2. writeMessage(m, f) = writeMessage(k, FALSE)
    <3>1. snprintf(b, FALSE) = b
      BY DEF snprintf
    <3> QED
      BY <3>1, <1>3, <1>4, Zenon DEF writeMessage
  <2>3. Value(m) = [type |-> m.type, body |-> m.body]
        /\ Value(k) = [type |-> k.type, body |-> k.body]
    BY <1>5, <1>8, Zenon DEF Value
  <2>4. Arrived(m, f) = [type |-> m.type, body |-> snprintf(m.body, f)]
    BY <2>3 DEF Arrived
  <2> QED
    BY <2>1, <2>2, <2>3, <2>4, <1>3, <1>4, Zenon DEF Encode
<1>9. ASSUME InChunks(m)
      PROVE  Encode(m, f) = Encode(k, FALSE) /\ Arrived(m, f) = Value(k)
  <2>1. f = FALSE /\ k = m
    BY <1>7, <1>9
  <2>2. PICK type, body : Value(m) = [type |-> type, body |-> body]
    BY DEF Value
  <2>3. Arrived(m, FALSE) = Value(m)
    BY <2>2 DEF Arrived, snprintf
  <2> QED
    BY <2>1, <2>3
<1> QED
  BY <1>1, <1>6, <1>8, <1>9

(* Which messages were sent, and the buffers they were in, stays. *)
Sends ==
    /\ sent \in Seq(Good) /\ full \in [1 .. Len(sent) -> BOOLEAN]
    /\ \A i \in 1 .. Len(sent) : full[i] => MayFill(sent[i])

LEMMA StoredIs ==
    ASSUME Sends
    PROVE  /\ stored \in Seq(Stored) /\ Len(stored) = Len(sent)
           /\ \A i \in 1 .. Len(sent) : Value(stored[i]) = Arrived(sent[i], full[i])
           /\ \A k : EncodeFrom(sent, full, k + 1) \o bad = Left(stored, bad, k)
<1>1. PICK n \in Nat : n = Len(sent)
  BY DEF Sends
<1>2. ASSUME NEW i \in 1 .. n
      PROVE  /\ Filled(sent[i], full[i]) \in Stored
             /\ Encode(sent[i], full[i]) = Encode(Filled(sent[i], full[i]), FALSE)
             /\ Arrived(sent[i], full[i]) = Value(Filled(sent[i], full[i]))
  <2>1. sent[i] \in Good /\ full[i] \in BOOLEAN /\ (full[i] => MayFill(sent[i]))
    BY <1>1 DEF Sends
  <2> QED
    BY <2>1, FilledIs
<1>3. stored = [i \in 1 .. n |-> Filled(sent[i], full[i])]
  BY <1>1 DEF stored
<1>4. stored \in [1 .. n -> Stored] /\ \A i \in 1 .. n : stored[i] = Filled(sent[i], full[i])
  BY <1>2, <1>3
<1>5. stored \in Seq(Stored) /\ Len(stored) = n
  BY <1>4
<1>6. [k \in 1 .. Len(sent) |-> Encode(sent[k], full[k])] = Plain(stored)
  <2>1. \A k \in 1 .. n : Encode(sent[k], full[k]) = Encode(stored[k], FALSE)
    BY <1>2, <1>4
  <2> QED
    BY <2>1, <1>1, <1>5 DEF Plain
<1>7. \A k : EncodeFrom(sent, full, k + 1) \o bad = Left(stored, bad, k)
  BY <1>6, Zenon DEF EncodeFrom, Left
<1> QED
  BY <1>1, <1>2, <1>4, <1>5, <1>7

(* The inductive invariant: how far the parser is in what the peer sends.  *)

(* Inside a message the application waits only while more is to come. *)
Reading == pc \in {"wait", "recvMessage"} /\ (pc = "wait" => wire # <<>>)

(* Between two messages. *)
AtStart ==
    /\ status = "READING_START_LINE" /\ message = NULL /\ chunk_buffer = <<>>
    /\ pc \in {"wait", "recvMessage"}
    /\ Len(got) <= Len(stored)
    /\ pc = "wait" /\ Len(got) < Len(stored) => wire # <<>>
    /\ buffer \o wire = Left(stored, bad, Len(got))

(* Behind the start line of m, which is followed by rest. *)
InHead(m, rest) ==
    /\ status = "READING_HEADER" /\ message = NewMessage(m.type) /\ chunk_buffer = <<>>
    /\ m.head # <<>>
    /\ Reading
    /\ SameBytes(buffer, wire, HeadText(m.head), BodyText(m) \o rest)

(* Before the empty line: m has no headers, or the last of its chunks has  *)
(* been read.                                                              *)
AtEmptyLine(m, rest) ==
    /\ status = "READING_HEADER"
    /\ message.type = m.type /\ message.body = Value(m).body
    /\ Reading
    /\ SameBytes(buffer, wire, CRLF, rest)

(* Before a body that is not in chunks. *)
InLength(m, rest) ==
    /\ status = "READING_BODY" /\ ~ InChunks(m) /\ message = Announced(m)
    /\ Reading
    /\ SameBytes(buffer, wire, m.body, rest)

(* Before the j-th chunk. *)
InChunk(m, rest) ==
    /\ status = "READING_BODY" /\ InChunks(m) /\ message = Announced(m)
    /\ Reading
    /\ chunk_buffer \in Seq(Byte)
    /\ \E j \in 1 .. Len(m.chunks) + 1 :
          /\ chunk_buffer \o ConcatFrom(m.chunks, j) = Concat(m.chunks)
          /\ SameBytes(buffer, wire, ChunksFrom(m.chunks, j), rest)

(* Behind m. *)
Finished(m, rest) ==
    /\ status = "FINISHED" /\ pc \in {"ready", "refused"}
    /\ message.type = m.type /\ message.body = Value(m).body
    /\ buffer \o wire = rest

(* memcmp has looked at bytes that had not arrived. *)
Failed == status = "PENDING_ERROR" /\ pc = "error" /\ CutAfterLastChunk

InMessage(m, rest) ==
    \/ InHead(m, rest) \/ AtEmptyLine(m, rest) \/ InLength(m, rest)
    \/ InChunk(m, rest) \/ Finished(m, rest) \/ Failed

(* m is the message the application gets next. *)
At(m, rest) ==
    /\ Len(got) < Len(stored)
    /\ m = stored[Len(got) + 1]
    /\ rest = Left(stored, bad, Len(got) + 1)

Within ==
    /\ buffer \in Seq(Byte) /\ wire \in Seq(Byte)
    /\ AtStart \/ \E m \in Stored, rest \in Seq(Byte) : At(m, rest) /\ InMessage(m, rest)

(* The parser is in input that is no message. *)
Beyond ==
    /\ bad # <<>>
    /\ Len(got) >= Len(stored)
    /\ status = "READING_START_LINE" => Len(got) > Len(stored)

IsSeq(s) == \E S : s \in Seq(S)

SentAndGot ==
    /\ Sends /\ stored \in Seq(Stored) /\ Len(stored) = Len(sent)
    /\ bad \in Seq(Byte) /\ IsSeq(got)
    /\ \A i \in 1 .. Len(got) : i <= Len(stored) => got[i] = Value(stored[i])

HttpInv == SentAndGot /\ (Within \/ Beyond)

-----------------------------------------------------------------------------
LEMMA Lengths ==
    ASSUME SentAndGot
    PROVE  Len(stored) \in Nat /\ Len(got) \in Nat
BY DEF SentAndGot, IsSeq

(* What follows the messages are bytes, too. *)
LEMMA WrittenIsBytes ==
    ASSUME NEW r, r.type \in {"GET", "HTTP"}, r.head \in Seq(HeaderNames), r.body \in Seq(Byte),
           NEW just_full
    PROVE  writeMessage(r, just_full) \in Seq(Byte)
<1>1. PICK head \in Seq(Byte) : head = r.head
  BY Bytes, SeqMonotonic
<1>2. ASSUME NEW t \in Seq(Byte), NEW f
      PROVE  snprintf(t, f) \in Seq(Byte)
  <2>1. [t EXCEPT ![Len(t)] = "NUL"] \in Seq(Byte)
    BY Bytes, LastReplaced
  <2> QED
    BY <2>1 DEF snprintf
<1>3. PICK a \in Seq(Byte), h \in Seq(Byte), e \in Seq(Byte), b \in Seq(Byte) :
         /\ a = <<r.type>> \o CRLF /\ h = HeadLines(head)
         /\ e = CRLF /\ b = snprintf(r.body, just_full)
  <2>1. PICK t \in Byte : t = r.type
    BY Bytes
  <2>2. <<t>> \o CRLF \in Seq(Byte)
    BY Bytes, LineIs
  <2>3. HeadLines(head) \in Seq(Byte)
    BY Bytes, HeadLinesAre
  <2> QED
    BY <1>2, <2>1, <2>2, <2>3, Bytes
<1>4. writeMessage(r, just_full) = ((a \o h) \o e) \o b
  BY <1>1, <1>3, Zenon DEF writeMessage, HeadLines, LineTexts
<1>5. PICK u \in Seq(Byte) : u = a \o h
  <2>1. Joined(Byte, a, h)
    BY Joins
  <2> QED
    BY <2>1, Zenon DEF Joined
<1>6. PICK v \in Seq(Byte) : v = u \o e
  <2>1. Joined(Byte, u, e)
    BY Joins
  <2> QED
    BY <2>1, Zenon DEF Joined
<1>7. Joined(Byte, v, b)
  BY Joins
<1> QED
  BY <1>4, <1>5, <1>6, <1>7, Zenon DEF Joined

LEMMA OthersAreBytes ==
    ASSUME NEW x \in {<<>>} \cup Bad \cup Spoilt \cup WithTrailer
    PROVE  x \in Seq(Byte)
<1>1. CASE x \in {<<>>} \cup Bad
  <2>1. Bad \subseteq Seq(Byte)
    BY HttpAssumption
  <2>2. <<>> \in Seq(Byte)
    OBVIOUS
  <2> QED
    BY <1>1, <2>1, <2>2
<1>2. ASSUME NEW m \in Good
      PROVE  /\ m \in [type: {"GET", "HTTP"}, head: Seq(HeaderNames),
                       chunks: Seq(Seq(Data)), body: Seq(Data)]
             /\ BodyText(m) \in Seq(Byte) /\ (InChunks(m) => BodyText(m) = Chunked(m.chunks))
  <2>1. m \in [type: {"GET", "HTTP"}, head: Seq(HeaderNames),
               chunks: Seq(Seq(Data)), body: Seq(Data)]
    BY HttpAssumption
  <2>2. Filled(m, FALSE) = m
    <3>1. [m EXCEPT !.body = m.body] = m
      BY <2>1
    <3> QED
      BY <3>1 DEF Filled, snprintf
  <2>3. m \in Stored
    BY <2>2, FilledIs
  <2> QED
    BY <2>1, <2>3, BodyIs DEF BodyText
<1>3. ASSUME NEW m \in Good, NEW f
      PROVE  writeMessage(Handed(m), f) \in Seq(Byte)
  <2>1. PICK r : r = Handed(m)
    OBVIOUS
  <2>2. r.type = m.type /\ r.head = m.head /\ r.body = BodyText(m)
    BY <1>2, <2>1 DEF Handed, BodyText
  <2>3. writeMessage(r, f) \in Seq(Byte)
    BY <1>2, <2>2, WrittenIsBytes
  <2> QED
    BY <2>1, <2>3
<1>4. CASE x \in Spoilt
  <2>1. PICK m \in Good : x = Encode(m, TRUE)
    BY <1>4, Zenon DEF Spoilt
  <2> QED
    BY <1>3, <2>1, Zenon DEF Encode
<1>5. CASE x \in WithTrailer
  <2>1. PICK m \in Good : InChunks(m) /\ x = Trailed(m, Trailer)
    BY <1>5 DEF WithTrailer
  <2>2. PICK b \in Seq(Byte) : b = Chunked(m.chunks)
    BY <1>2, <2>1
  <2>3. PICK lines \in Seq(Byte) : lines = Trailer
    BY HttpAssumption, Bytes, SeqMonotonic
  <2>4. PICK t \in Seq(Byte) : t = HeadLines(lines)
    BY Bytes, HeadLinesAre
  <2>5. PICK a \in Seq(Byte) : a = SubSeq(b, 1, Len(b) - 2)
    <3>1. PICK l \in Nat : l = Len(b)
      OBVIOUS
    <3>2. \A i \in 1 .. l - 2 : b[i] \in Byte
      BY <3>1
    <3>3. SubSeq(b, 1, l - 2) \in Seq(Byte)
      BY <3>1, <3>2, SubSeqProperties
    <3> QED
      BY <3>1, <3>3
  <2>6. PICK u \in Seq(Byte) : u = a \o t
    <3>1. Joined(Byte, a, t)
      BY Joins
    <3> QED
      BY <3>1, Zenon DEF Joined
  <2>7. PICK v \in Seq(Byte) : v = u \o CRLF
    <3>1. Joined(Byte, u, CRLF)
      BY Bytes, Joins
    <3> QED
      BY <3>1, Zenon DEF Joined
  <2>8. x = writeMessage([m EXCEPT !.body = v], FALSE)
    BY <2>1, <2>2, <2>3, <2>4, <2>5, <2>6, <2>7, Zenon DEF Trailed, HeadLines, LineTexts
  <2>9. PICK r : r = [m EXCEPT !.body = v]
    OBVIOUS
  <2>10. r.type \in {"GET", "HTTP"} /\ r.head \in Seq(HeaderNames) /\ r.body \in Seq(Byte)
    BY <1>2, <2>9
  <2>11. ASSUME NEW l
         PROVE  writeMessage(r, l) \in Seq(Byte)
    BY <2>10, WrittenIsBytes
  <2> QED
    BY <2>8, <2>9, <2>11, Zenon
<1> QED
  BY <1>1, <1>4, <1>5

LEMMA HttpInitInv == Init => HttpInv
<1> SUFFICES ASSUME Init
             PROVE  HttpInv
  OBVIOUS
<1>1. Sends
  <2>1. PICK n \in 0 .. MaxMessages : sent \in [1 .. n -> Good]
    BY DEF Init
  <2>2. n \in Nat
    BY HttpAssumption
  <2>3. sent \in Seq(Good)
    BY <2>1, <2>2
  <2> QED
    BY <2>3 DEF Init, Sends
<1>2. PICK n \in Nat : stored \in Seq(Stored) /\ Len(stored) = n /\ Len(sent) = n
  BY <1>1, StoredIs
<1>3. bad \in Seq(Byte)
  BY OthersAreBytes DEF Init
<1>4. got = <<>> /\ Len(got) = 0 /\ IsSeq(got)
  <2>1. got \in Seq({})
    BY DEF Init
  <2> QED
    BY <2>1 DEF Init, IsSeq
<1>5. SentAndGot
  BY <1>1, <1>2, <1>3, <1>4 DEF SentAndGot
<1>6. wire = Left(stored, bad, 0) /\ buffer = <<>>
  <2>1. 0 + 1 = 1
    OBVIOUS
  <2>2. EncodeFrom(sent, full, 1) \o bad = Left(stored, bad, 0)
    BY <1>1, <2>1, StoredIs
  <2> QED
    BY <2>2 DEF Init
<1>7. /\ wire \in Seq(Byte) /\ buffer \in Seq(Byte) /\ buffer \o wire = wire
      /\ (Len(stored) > 0 => wire # <<>>)
  <2>1. Left(stored, bad, 0) \in Seq(Byte)
    BY <1>2, <1>3, LeftIs
  <2>2. <<>> \o wire = wire
    BY <1>6, <2>1, ConcatEmptySeq
  <2>3. ASSUME n > 0
        PROVE  wire # <<>>
    <3>1. 0 \in 0 .. n - 1
      BY <2>3
    <3>2. PICK m \in Stored, rest \in Seq(Byte), R \in Seq(Byte) : IsNext(stored, bad, 0, m, rest, R)
      BY <1>2, <1>3, <3>1, NextMessage
    <3> QED
      BY <1>6, <3>2 DEF IsNext
  <2> QED
    BY <1>2, <1>6, <2>1, <2>2, <2>3
<1>8. AtStart
  BY <1>2, <1>4, <1>6, <1>7 DEF Init, AtStart
<1> QED
  BY <1>5, <1>7, <1>8 DEF HttpInv, Within

LEMMA StaysInMessage ==
    ASSUME NEW m \in Stored, NEW rest \in Seq(Byte), At(m, rest), UNCHANGED <<sent, full, stored, bad, got>>,
           buffer' \in Seq(Byte), wire' \in Seq(Byte), InMessage(m, rest)'
    PROVE  Within'
<1>1. At(m, rest)'
  BY DEF At
<1> QED
  BY <1>1 DEF Within

LEMMA ArriveKeeps ==
    ASSUME SentAndGot, Within, NEW n \in 1 .. Len(wire), Arrive(n)
    PROVE  Within'
<1>1. PICK b \in Seq(Byte), w \in Seq(Byte), l \in Nat : b = buffer /\ w = wire /\ l = Len(w)
  BY DEF Within
<1>2. PICK u \in Seq(Byte), v \in Seq(Byte) : u = SubSeq(w, 1, n) /\ v = SubSeq(w, n + 1, l)
  <2>1. (\A i \in 1 .. n : w[i] \in Byte) /\ \A i \in n + 1 .. l : w[i] \in Byte
    BY <1>1
  <2>2. 1 \in Int /\ n \in Int /\ n + 1 \in Int /\ l \in Int
    BY <1>1
  <2>3. SubSeq(w, 1, n) \in Seq(Byte)
    BY <2>1, <2>2, SubSeqProperties
  <2>4. SubSeq(w, n + 1, l) \in Seq(Byte)
    BY <2>1, <2>2, SubSeqProperties
  <2> QED
    BY <2>3, <2>4
<1>3. u \o v = w
  <2>1. 1 \in 1 .. Len(w) + 1 /\ n \in 1 - 1 .. Len(w) /\ l \in n .. Len(w)
    BY <1>1
  <2>2. SubSeq(w, 1, n) \o SubSeq(w, n + 1, l) = SubSeq(w, 1, l)
    BY <2>1, ConcatAdjacentSubSeq
  <2>3. SubSeq(w, 1, l) = w
    BY <1>1
  <2> QED
    BY <1>2, <2>2, <2>3
<1>4. buffer' = b \o u /\ wire' = v /\ pc = "wait" /\ pc' = "recvMessage"
      /\ UNCHANGED <<status, message, chunk_buffer, sent, full, stored, bad, got>>
  BY <1>1, <1>2 DEF Arrive, protoVars, stored
<1>5. Associates(b, u, v) /\ Joined(Byte, b, u)
  BY Associative, Joins
<1>6. buffer' \in Seq(Byte) /\ wire' \in Seq(Byte) /\ buffer' \o wire' = buffer \o wire
  BY <1>1, <1>3, <1>4, <1>5, Zenon DEF Associates, Joined
<1>7. \A A, R : SameBytes(buffer, wire, A, R) => SameBytes(buffer, wire, A, R)'
  BY <1>6, Zenon DEF SameBytes
<1>8. CASE AtStart
  <2>1. AtStart'
    BY <1>4, <1>6, <1>8 DEF AtStart
  <2> QED
    BY <1>6, <2>1 DEF Within
<1>9. ASSUME NEW m \in Stored, NEW rest \in Seq(Byte), At(m, rest), InMessage(m, rest)
      PROVE  Within'
  <2>1. CASE InHead(m, rest)
    BY <1>4, <1>6, <1>7, <1>9, <2>1, StaysInMessage DEF InMessage, InHead, Reading
  <2>2. CASE AtEmptyLine(m, rest)
    BY <1>4, <1>6, <1>7, <1>9, <2>2, StaysInMessage DEF InMessage, AtEmptyLine, Reading
  <2>3. CASE InLength(m, rest)
    BY <1>4, <1>6, <1>7, <1>9, <2>3, StaysInMessage DEF InMessage, InLength, Reading
  <2>4. CASE InChunk(m, rest)
    BY <1>4, <1>6, <1>7, <1>9, <2>4, StaysInMessage DEF InMessage, InChunk, Reading
  <2>5. CASE Finished(m, rest) \/ Failed
    BY <1>4, <2>5 DEF Finished, Failed
  <2> QED
    BY <1>9, <2>1, <2>2, <2>3, <2>4, <2>5 DEF InMessage
<1> QED
  BY <1>8, <1>9 DEF Within

LEMMA StartLineKeeps ==
    ASSUME SentAndGot, Within, readStartLine
    PROVE  Within' \/ Beyond'
<1>1. PICK b \in Seq(Byte), w \in Seq(Byte) : b = buffer /\ w = wire
  BY DEF Within
<1>2. /\ status = "READING_START_LINE" /\ pc = "recvMessage"
      /\ UNCHANGED <<wire, sent, full, stored, bad, got>>
  BY DEF readStartLine, Handler, stored
<1>3. AtStart
  BY <1>2 DEF Within, InMessage, InHead, AtEmptyLine, InLength, InChunk, Finished, Failed
<1>4. PICK n \in Nat, k \in Nat : n = Len(stored) /\ k = Len(got) /\ k <= n
  BY <1>3, Lengths DEF AtStart
<1>5. stored \in Seq(Stored) /\ bad \in Seq(Byte)
  BY DEF SentAndGot
<1>6. CASE k < n
  <2>1. PICK m \in Stored, rest \in Seq(Byte), R \in Seq(Byte) : IsNext(stored, bad, k, m, rest, R)
    <3>1. k \in 0 .. n - 1
      BY <1>6
    <3> QED
      BY <1>4, <1>5, <3>1, NextMessage
  <2>2. At(m, rest)
    BY <1>4, <1>6, <2>1 DEF At, IsNext
  <2>3. SameBytes(b, w, StartLine(m), R)
    BY <1>1, <1>3, <1>4, <2>1, Zenon DEF AtStart, IsNext, SameBytes
  <2>4. StartLineRead(b, w, m, R)
    BY <2>3, ReadsStartLine
  <2>5. CASE Len(b) < 3
    <3>1. find(buffer, CRLF) = 0 /\ wire # <<>>
      BY <1>1, <2>4, <2>5 DEF StartLineRead
    <3>2. MoreData
      BY <3>1 DEF readStartLine
    <3>3. AtStart' /\ UNCHANGED buffer
      BY <1>2, <1>3, <3>1, <3>2 DEF AtStart, MoreData, protoVars
    <3> QED
      BY <1>2, <3>3 DEF Within
  <2>6. CASE Len(b) >= 3
    <3>1. /\ find(buffer, CRLF) = 2
          /\ StartLineType(SubSeq(buffer, 1, 1)) = m.type
      BY <1>1, <2>4, <2>6 DEF StartLineRead
    <3>2. m.type # NULL /\ 2 - 1 = 1 /\ (2 + 1) + 1 = 4 /\ 2 # 0
      BY GoodMessage, HttpAssumption
    <3>3. /\ buffer' = SubSeq(buffer, 4, Len(buffer))
          /\ message' = NewMessage(m.type)
          /\ status' = "READING_HEADER"
          /\ UNCHANGED <<chunk_buffer, pc>>
      BY <3>1, <3>2 DEF readStartLine, Read
    <3>4. buffer' \in Seq(Byte) /\ buffer' \o wire' = R
      BY <1>1, <1>2, <2>4, <2>6, <3>3, Zenon DEF StartLineRead
    <3>5. R = HeadText(m.head) \o (BodyText(m) \o rest)
      BY <2>1 DEF IsNext
    <3>6. Reading'
      BY <1>2, <3>3 DEF Reading
    <3>7. wire' \in Seq(Byte)
      BY <1>1, <1>2
    <3>8. CASE m.head # <<>>
      <4>1. SameBytes(buffer, wire, HeadText(m.head), BodyText(m) \o rest)'
        BY <3>4, <3>5, Zenon DEF SameBytes
      <4>2. InHead(m, rest)'
        BY <1>3, <3>3, <3>6, <3>8, <4>1 DEF InHead, AtStart
      <4> QED
        BY <1>2, <2>2, <3>4, <3>7, <4>2, StaysInMessage DEF InMessage
    <3>9. CASE m.head = <<>>
      <4>1. ~ InChunks(m) /\ m.body = <<>> /\ HeadText(m.head) = CRLF
        BY <3>9, WithoutHeaders
      <4>2. BodyText(m) = <<>> /\ Value(m).body = <<>>
        BY <4>1 DEF BodyText, Value
      <4>3. <<>> \o rest = rest
        BY ConcatEmptySeq
      <4>4. SameBytes(buffer, wire, CRLF, rest)'
        BY <3>4, <3>5, <4>1, <4>2, <4>3, Zenon DEF SameBytes
      <4>5. message'.type = m.type /\ message'.body = <<>>
        BY <3>3 DEF NewMessage
      <4>6. AtEmptyLine(m, rest)'
        BY <3>3, <3>6, <4>2, <4>4, <4>5 DEF AtEmptyLine
      <4> QED
        BY <1>2, <2>2, <3>4, <3>7, <4>6, StaysInMessage DEF InMessage
    <3> QED
      BY <3>8, <3>9
  <2> QED
    BY <2>5, <2>6
<1>7. CASE k = n
  <2>1. CASE find(buffer, CRLF) = 0
    <3>1. MoreData
      BY <2>1 DEF readStartLine
    <3>2. AtStart' /\ UNCHANGED buffer
      BY <1>2, <1>3, <1>4, <1>7, <3>1 DEF AtStart, MoreData, protoVars
    <3> QED
      BY <1>2, <3>2 DEF Within
  <2>2. CASE find(buffer, CRLF) # 0
    <3>1. b \o w = bad
      BY <1>1, <1>3, <1>4, <1>5, <1>7, LeftIs DEF AtStart
    <3>2. bad # <<>>
      <4> SUFFICES ASSUME bad = <<>>
                   PROVE  FALSE
        OBVIOUS
      <4>1. b = <<>>
        BY <3>1, ConcatEqualIffEmpty
      <4>2. Len(buffer) = 0
        BY <1>1, <4>1
      <4>3. find(buffer, CRLF) = 0
        BY <4>2, FindsNone
      <4> QED
        BY <2>2, <4>3
    <3>3. status' # "READING_START_LINE"
      BY <2>2 DEF readStartLine, Error
    <3> QED
      BY <1>2, <1>4, <1>7, <3>2, <3>3 DEF Beyond
  <2> QED
    BY <2>1, <2>2
<1> QED
  BY <1>4, <1>6, <1>7

LEMMA HeaderKeeps ==
    ASSUME SentAndGot, Within, readHeader
    PROVE  Within'
<1>1. PICK b \in Seq(Byte), w \in Seq(Byte) : b = buffer /\ w = wire
  BY DEF Within
<1>2. /\ status = "READING_HEADER" /\ pc = "recvMessage"
      /\ UNCHANGED <<wire, sent, full, stored, bad, got>>
  BY DEF readHeader, Handler, stored
<1>3. PICK m \in Stored, rest \in Seq(Byte) :
         At(m, rest) /\ (InHead(m, rest) \/ AtEmptyLine(m, rest))
  BY <1>2 DEF Within, AtStart, InMessage, InLength, InChunk, Finished, Failed
<1>4. wire' \in Seq(Byte)
  BY <1>1, <1>2
<1>5. CASE InHead(m, rest)
  <2>1. PICK n \in Nat \ {0} : n = Len(m.head)
    BY <1>5, GoodMessage, EmptySeq DEF InHead
  <2>2. PICK R \in Seq(Byte) : R = BodyText(m) \o rest
    <3>1. PICK t \in Seq(Byte) : t = BodyText(m)
      BY BodyIs
    <3>2. Joined(Byte, t, rest)
      BY Joins
    <3> QED
      BY <3>1, <3>2, Zenon DEF Joined
  <2>3. SameBytes(b, w, HeadText(m.head), R)
    BY <1>1, <1>5, <2>2 DEF InHead
  <2>4. HeadRead(b, w, m.head, n, R)
    BY <2>1, <2>3, ReadsHead
  <2>5. ~ OccursAt(buffer, CRLF, 1)
    BY <1>1, <2>4 DEF HeadRead, HeadFound
  <2>6. CASE Len(b) < 3 * n + 2
    <3>1. find(buffer, CRLF \o CRLF) = 0 /\ wire # <<>>
      <4>1. ~ (Len(b) >= 3 * n + 2)
        BY <2>6
      <4> QED
        BY <1>1, <2>4, <2>6, <4>1, Zenon DEF HeadRead, HeadFound
    <3>2. MoreData
      BY <2>5, <3>1, Zenon DEF readHeader
    <3>3. InHead(m, rest)' /\ UNCHANGED buffer
      BY <1>2, <1>5, <3>1, <3>2 DEF InHead, Reading, SameBytes, MoreData, protoVars
    <3> QED
      BY <1>1, <1>2, <1>3, <1>4, <3>3, StaysInMessage DEF InMessage
  <2>7. CASE Len(b) >= 3 * n + 2
    <3>1. PICK e \in Nat, z \in Nat : e = 3 * n - 1 /\ z = 3 * n - 2 /\ e # 0 /\ e - 1 = z
                                      /\ (e + 3) + 1 = 3 * n + 3
      <4>1. /\ 3 * n - 1 \in Nat /\ 3 * n - 2 \in Nat /\ 3 * n - 1 # 0
            /\ (3 * n - 1) - 1 = 3 * n - 2 /\ ((3 * n - 1) + 3) + 1 = 3 * n + 3
        OBVIOUS
      <4> QED
        BY <4>1, Zenon
    <3>2. /\ find(buffer, CRLF \o CRLF) = e
          /\ split(SubSeq(buffer, 1, e - 1), CRLF) = HeaderLines(m)
      BY <1>1, <2>1, <2>4, <2>7, <3>1, Zenon DEF HeadRead, HeadFound, HeaderLines
    <3>3. ~ \E i \in 1 .. Len(HeaderLines(m)) : ~ HasColon(HeaderLines(m)[i])
      BY HeaderLinesAre
    <3>4. /\ Read(e + 3)
          /\ message' = setHeaders(message, HeaderLines(m))
          /\ status' = "READING_BODY"
          /\ UNCHANGED <<chunk_buffer, pc>>
      BY <2>5, <3>1, <3>2, <3>3, Zenon DEF readHeader
    <3>5. buffer' \in Seq(Byte) /\ buffer' \o wire' = R
      BY <1>1, <1>2, <2>4, <2>7, <3>1, <3>4, Zenon DEF Read, HeadRead
    <3>6. message' = Announced(m)
      BY <1>5, <3>4, Announces DEF InHead
    <3>7. Reading'
      BY <1>2, <3>4 DEF Reading
    <3>8. chunk_buffer' = <<>>
      BY <1>5, <3>4 DEF InHead
    <3>9. CASE InChunks(m)
      <4>1. SameBytes(buffer, wire, ChunksFrom(m.chunks, 1), rest)'
        BY <2>2, <3>5, <3>9, ChunkedIsChunks, Zenon DEF SameBytes, BodyText
      <4>2. PICK ss \in Seq(Seq(Byte)) : ss = m.chunks
        BY GoodMessage
      <4>3. 1 \in 1 .. Len(m.chunks) + 1 /\ Concat(m.chunks) \in Seq(Byte)
        <5>1. 1 \in 1 .. Len(ss) + 1
          OBVIOUS
        <5>2. ConcatFrom(ss, 1) \in Seq(Byte)
          BY <5>1, ConcatFromNext
        <5> QED
          BY <4>2, <5>1, <5>2 DEF Concat
      <4>4. <<>> \o ConcatFrom(m.chunks, 1) = Concat(m.chunks)
        BY <4>3, ConcatEmptySeq DEF Concat
      <4>5. <<>> \in Seq(Byte)
        OBVIOUS
      <4>6. InChunk(m, rest)'
        BY <3>4, <3>6, <3>7, <3>8, <3>9, <4>1, <4>3, <4>4, <4>5 DEF InChunk
      <4> QED
        BY <1>2, <1>3, <1>4, <3>5, <4>6, StaysInMessage DEF InMessage
    <3>10. CASE ~ InChunks(m)
      <4>1. SameBytes(buffer, wire, m.body, rest)'
        BY <2>2, <3>5, <3>10, Zenon DEF SameBytes, BodyText
      <4>2. InLength(m, rest)'
        BY <3>4, <3>6, <3>7, <3>10, <4>1 DEF InLength
      <4> QED
        BY <1>2, <1>3, <1>4, <3>5, <4>2, StaysInMessage DEF InMessage
    <3> QED
      BY <3>9, <3>10
  <2> QED
    BY <2>6, <2>7
<1>6. CASE AtEmptyLine(m, rest)
  <2>1. EmptyLineRead(b, w, rest)
    BY <1>1, <1>6, ReadsEmptyLine DEF AtEmptyLine
  <2>2. CASE Len(b) < 2
    <3>1. ~ OccursAt(buffer, CRLF, 1) /\ find(buffer, CRLF \o CRLF) = 0 /\ wire # <<>>
      BY <1>1, <2>1, <2>2 DEF EmptyLineRead
    <3>2. MoreData
      BY <3>1, Zenon DEF readHeader
    <3>3. AtEmptyLine(m, rest)' /\ UNCHANGED buffer
      BY <1>2, <1>6, <3>1, <3>2 DEF AtEmptyLine, Reading, SameBytes, MoreData, protoVars
    <3> QED
      BY <1>1, <1>2, <1>3, <1>4, <3>3, StaysInMessage DEF InMessage
  <2>3. CASE Len(b) >= 2
    <3>1. OccursAt(buffer, CRLF, 1) /\ 2 + 1 = 3
      BY <1>1, <2>1, <2>3 DEF EmptyLineRead
    <3>2. Read(2) /\ status' = "FINISHED" /\ pc' = "ready" /\ UNCHANGED <<message, chunk_buffer>>
      BY <3>1, Zenon DEF readHeader
    <3>3. buffer' \in Seq(Byte) /\ buffer' \o wire' = rest
      BY <1>1, <1>2, <2>1, <2>3, <3>1, <3>2, Zenon DEF Read, EmptyLineRead
    <3>4. Finished(m, rest)'
      BY <1>6, <3>2, <3>3 DEF AtEmptyLine, Finished
    <3> QED
      BY <1>2, <1>3, <1>4, <3>3, <3>4, StaysInMessage DEF InMessage
  <2> QED
    BY <2>2, <2>3
<1> QED
  BY <1>3, <1>5, <1>6

LEMMA BodyLengthKeeps ==
    ASSUME SentAndGot, Within, readBodyLength
    PROVE  Within'
<1>1. PICK b \in Seq(Byte), w \in Seq(Byte) : b = buffer /\ w = wire
  BY DEF Within
<1>2. /\ status = "READING_BODY" /\ pc = "recvMessage"
      /\ UNCHANGED <<wire, sent, full, stored, bad, got>> /\ message.length > 0
  BY DEF readBodyLength, Handler, stored
<1>3. PICK m \in Stored, rest \in Seq(Byte) :
         At(m, rest) /\ (InLength(m, rest) \/ InChunk(m, rest))
  BY <1>2 DEF Within, AtStart, InMessage, InHead, AtEmptyLine, Finished, Failed
<1>4. InLength(m, rest)
  BY <1>2, <1>3 DEF InChunk, Announced
<1>5. wire' \in Seq(Byte)
  BY <1>1, <1>2
<1>6. PICK A \in Seq(Byte), n \in Nat : A = m.body /\ n = Len(A)
  BY GoodMessage
<1>7. message = Announced(m) /\ message.length = n /\ message.type = m.type
  BY <1>4, <1>6 DEF InLength, Announced
<1>8. SameBytes(b, w, A, rest)
  BY <1>1, <1>4, <1>6 DEF InLength
<1>9. CASE Len(b) < n
  <2>1. wire # <<>>
    BY <1>1, <1>6, <1>8, <1>9, BeginsWith
  <2>2. MoreData
    BY <1>1, <1>7, <1>9 DEF readBodyLength
  <2>3. InLength(m, rest)' /\ UNCHANGED buffer
    BY <1>2, <1>4, <2>1, <2>2 DEF InLength, Reading, SameBytes, MoreData, protoVars
  <2> QED
    BY <1>1, <1>2, <1>3, <1>5, <2>3, StaysInMessage DEF InMessage
<1>10. CASE n <= Len(b)
  <2>1. IsRead(Byte, b, w, n, A, rest)
    BY <1>6, <1>8, <1>10, Consume
  <2>2. /\ message' = [message EXCEPT !.body = SubSeq(buffer, 1, n)]
        /\ Read(n) /\ status' = "FINISHED" /\ pc' = "ready"
    BY <1>1, <1>7, <1>10 DEF readBodyLength
  <2>3. buffer' \in Seq(Byte) /\ buffer' \o wire' = rest /\ SubSeq(buffer, 1, n) = A
    BY <1>1, <1>2, <2>1, <2>2, Zenon DEF IsRead, Read
  <2>4. message'.type = m.type /\ message'.body = A
    BY <1>7, <2>2, <2>3 DEF Announced
  <2>5. A = Value(m).body
    BY <1>4, <1>6 DEF InLength, Value
  <2>6. Finished(m, rest)'
    BY <2>2, <2>3, <2>4, <2>5 DEF Finished
  <2> QED
    BY <1>2, <1>3, <1>5, <2>3, <2>6, StaysInMessage DEF InMessage
<1> QED
  BY <1>9, <1>10

LEMMA BodyNoneKeeps ==
    ASSUME SentAndGot, Within, readBodyNone
    PROVE  Within'
<1>1. buffer \in Seq(Byte) /\ wire \in Seq(Byte)
  BY DEF Within
<1>2. /\ status = "READING_BODY" /\ pc = "recvMessage"
      /\ UNCHANGED <<wire, sent, full, stored, bad, got, message, buffer>>
      /\ message.length = 0 /\ ~ message.chunked /\ status' = "FINISHED" /\ pc' = "ready"
  BY DEF readBodyNone, Handler, stored
<1>3. PICK m \in Stored, rest \in Seq(Byte) :
         At(m, rest) /\ (InLength(m, rest) \/ InChunk(m, rest))
  BY <1>2 DEF Within, AtStart, InMessage, InHead, AtEmptyLine, Finished, Failed
<1>4. InLength(m, rest)
  BY <1>2, <1>3 DEF InChunk, Announced
<1>5. Len(m.body) = 0 /\ message.type = m.type /\ message.body = <<>>
  BY <1>2, <1>4 DEF InLength, Announced
<1>6. m.body = <<>>
  BY <1>5, GoodMessage, EmptySeq
<1>7. <<>> \o rest = rest
  BY ConcatEmptySeq
<1>8. buffer \o wire = rest
  BY <1>4, <1>6, <1>7, Zenon DEF InLength, SameBytes
<1>9. Value(m).body = <<>>
  BY <1>4, <1>6 DEF InLength, Value
<1>10. Finished(m, rest)'
  BY <1>2, <1>5, <1>8, <1>9 DEF Finished
<1> QED
  BY <1>1, <1>2, <1>3, <1>10, StaysInMessage DEF InMessage

(* What readBodyChunk does with a chunk of k bytes. *)
ChunkStep(match, k, total) ==
    \/ ~ match /\ Error
    \/ /\ match /\ k > 0
       /\ chunk_buffer' = chunk_buffer \o SubSeq(buffer, 4, k + 3)
       /\ Read(total)
       /\ UNCHANGED <<status, message, pc>>
    \/ /\ match /\ k = 0
       /\ message' = [message EXCEPT !.body = chunk_buffer, !.length = Len(chunk_buffer),
                                     !.chunked = FALSE]
       /\ Read(total)
       /\ status' = "READING_HEADER"
       /\ UNCHANGED <<chunk_buffer, pc>>

LEMMA ChunkSteps ==
    ASSUME readBodyChunk, find(buffer, CRLF) = 2, NEW k \in DOMAIN Hex,
           SubSeq(buffer, 1, 1) = <<Hex[k]>>, NEW total \in Nat,
           total = IF k = 0 THEN 3 ELSE k + 5
    PROVE  \/ Len(buffer) < total /\ MoreData
           \/ /\ Len(buffer) >= total
              /\ \E match \in CrlfAfter(k + 3) : ChunkStep(match, k, total)
<1>1. k \in Nat /\ k # -1
  BY HttpAssumption
<1>2. PICK line : line = <<Hex[k]>> /\ ChunkSize(line) = k /\ TotalChunkSize(line, k) = total
  BY ChunkSizeIs
<1> DEFINE Steps(crlf, size, to) ==
             \/ crlf = 0 /\ MoreData
             \/ crlf # 0 /\ size = -1 /\ Error
             \/ crlf # 0 /\ size >= 0 /\ Len(buffer) < to /\ MoreData
             \/ /\ crlf # 0 /\ size >= 0 /\ Len(buffer) >= to
                /\ \E match \in CrlfAfter(crlf + 1 + size) :
                      \/ ~ match /\ Error
                      \/ /\ match /\ size > 0
                         /\ chunk_buffer' = chunk_buffer
                                            \o SubSeq(buffer, crlf + 2, crlf + 1 + size)
                         /\ Read(to)
                         /\ UNCHANGED <<status, message, pc>>
                      \/ /\ match /\ size = 0
                         /\ message' = [message EXCEPT !.body = chunk_buffer,
                                                       !.length = Len(chunk_buffer),
                                                       !.chunked = FALSE]
                         /\ Read(to)
                         /\ status' = "READING_HEADER"
                         /\ UNCHANGED <<chunk_buffer, pc>>
<1>3. 2 - 1 = 1 /\ 2 + 2 = 4 /\ (2 + 1) + k = k + 3 /\ 2 # 0 /\ k >= 0
  BY <1>1
<1>4. LET crlf == find(buffer, CRLF)
          text == SubSeq(buffer, 1, crlf - 1)
          size == ChunkSize(text)
      IN  Steps(crlf, size, TotalChunkSize(text, size))
  BY DEF readBodyChunk
<1>5. Steps(2, k, total)
  <2> HIDE DEF Steps
  <2> QED
    BY <1>2, <1>3, <1>4, Zenon
<1>6. ASSUME NEW match, NEW i, NEW to, i = k + 3, to = 4,
             \/ ~ match /\ Error
             \/ /\ match /\ k > 0
                /\ chunk_buffer' = chunk_buffer \o SubSeq(buffer, to, i)
                /\ Read(total)
                /\ UNCHANGED <<status, message, pc>>
             \/ /\ match /\ k = 0
                /\ message' = [message EXCEPT !.body = chunk_buffer,
                                              !.length = Len(chunk_buffer),
                                              !.chunked = FALSE]
                /\ Read(total)
                /\ status' = "READING_HEADER"
                /\ UNCHANGED <<chunk_buffer, pc>>
      PROVE  ChunkStep(match, k, total)
  BY <1>6, Zenon DEF ChunkStep
<1>7. CASE Len(buffer) < total /\ MoreData
  BY <1>7
<1>8. CASE ~ (Len(buffer) < total /\ MoreData)
  BY <1>1, <1>3, <1>5, <1>6, <1>8, Zenon
<1> QED
  BY <1>7, <1>8

(* memcmp, when all or only a part of the CRLF has arrived. *)
LEMMA CrlfAfterIs ==
    ASSUME NEW i \in Nat, buffer \in Seq(Byte),
           i + 1 <= Len(buffer) => buffer[i + 1] = "CR",
           i + 2 <= Len(buffer) => buffer[i + 2] = "LF"
    PROVE  IF i + 2 <= Len(buffer) THEN CrlfAfter(i) = {TRUE} ELSE CrlfAfter(i) = BOOLEAN
<1>1. CRLF[1] = "CR" /\ CRLF[2] = "LF"
  BY Bytes
<1>2. ~ \E k \in 1 .. 2 : i + k <= Len(buffer) /\ buffer[i + k] # CRLF[k]
  BY <1>1
<1> QED
  BY <1>2, Zenon DEF CrlfAfter

(* The input was cut behind the head of the last chunk. *)
LEMMA CutThere ==
    ASSUME buffer \in Seq(Byte), Len(buffer) \in {3, 4}, buffer[1] = Hex[0],
           buffer[2] = "CR", buffer[3] = "LF", Len(buffer) = 4 => buffer[4] = "CR"
    PROVE  CutAfterLastChunk
<1>1. PICK d : d = SubSeq(buffer, 2, Len(buffer))
  OBVIOUS
<1>2. CASE Len(buffer) = 3
  <2>1. d \in Seq(Byte) /\ Len(d) = 2 /\ d[1] = "CR" /\ d[2] = "LF"
    BY <1>1, <1>2
  <2>2. d = <<d[1], d[2]>>
    BY <2>1
  <2>3. d = CRLF
    BY <2>1, <2>2 DEF CRLF
  <2>4. 1 \in 1 .. Len(buffer) /\ 1 + 1 = 2
    BY <1>2
  <2> QED
    BY <1>1, <2>3, <2>4, Zenon DEF CutAfterLastChunk
<1>3. CASE Len(buffer) = 4
  <2>1. d \in Seq(Byte) /\ Len(d) = 3 /\ d[1] = "CR" /\ d[2] = "LF" /\ d[3] = "CR"
    BY <1>1, <1>3
  <2>3. PICK e \in Seq(Byte) : e = CRLF /\ Len(e) = 2 /\ e[1] = "CR" /\ e[2] = "LF"
    BY Bytes
  <2>4. e \o <<"CR">> = Append(e, "CR")
    BY Bytes, AppendIsConcat
  <2>5. d = CRLF \o <<"CR">>
    <3>1. PICK f : f = Append(e, "CR")
      OBVIOUS
    <3>2. /\ f \in Seq(Byte) /\ Len(f) = Len(e) + 1 /\ f[Len(e) + 1] = "CR"
          /\ \A i \in 1 .. Len(e) : f[i] = e[i]
      BY <3>1, Bytes, AppendProperties
    <3>3. Len(f) = 3 /\ f[1] = "CR" /\ f[2] = "LF" /\ f[3] = "CR"
      BY <2>3, <3>2
    <3>4. d = f
      <4>1. \A i \in 1 .. 3 : d[i] = f[i]
        <5>1. \A i \in 1 .. 3 : i = 1 \/ i = 2 \/ i = 3
          OBVIOUS
        <5> QED
          BY <2>1, <3>3, <5>1, Zenon
      <4>2. Len(d) = Len(f) /\ \A i \in 1 .. Len(d) : d[i] = f[i]
        BY <2>1, <3>3, <4>1, Zenon
      <4> QED
        BY <2>1, <3>2, <4>2, SeqEqual
    <3> QED
      BY <2>3, <2>4, <3>1, <3>4
  <2>6. 1 \in 1 .. Len(buffer) /\ 1 + 1 = 2
    BY <1>3
  <2> QED
    BY <1>1, <2>5, <2>6, Zenon DEF CutAfterLastChunk
<1> QED
  BY <1>2, <1>3

LEMMA BodyChunkKeeps ==
    ASSUME SentAndGot, Within, readBodyChunk
    PROVE  Within'
<1>1. PICK b \in Seq(Byte), w \in Seq(Byte) : b = buffer /\ w = wire
  BY DEF Within
<1>2. /\ status = "READING_BODY" /\ pc = "recvMessage"
      /\ UNCHANGED <<wire, sent, full, stored, bad, got>> /\ message.chunked
  BY DEF readBodyChunk, Handler, stored
<1>3. PICK m \in Stored, rest \in Seq(Byte) :
         At(m, rest) /\ (InLength(m, rest) \/ InChunk(m, rest))
  BY <1>2 DEF Within, AtStart, InMessage, InHead, AtEmptyLine, Finished, Failed
<1>4. InChunk(m, rest)
  <2>1. ASSUME InLength(m, rest)
        PROVE  FALSE
    <3>1. message.chunked = InChunks(m)
      BY <2>1 DEF InLength, Announced
    <3> QED
      BY <1>2, <2>1, <3>1 DEF InLength
  <2> QED
    BY <1>3, <2>1
<1>5. wire' \in Seq(Byte)
  BY <1>1, <1>2
<1>6. PICK n \in Nat, cb \in Seq(Byte) : n = Len(m.chunks) /\ cb = chunk_buffer
  BY <1>4, GoodMessage DEF InChunk
<1>7. PICK j \in 1 .. n + 1 : /\ cb \o ConcatFrom(m.chunks, j) = Concat(m.chunks)
                              /\ SameBytes(b, w, ChunksFrom(m.chunks, j), rest)
  BY <1>1, <1>4, <1>6 DEF InChunk
<1>8. ASSUME MoreData, wire # <<>>
      PROVE  Within'
  <2>1. InChunk(m, rest)' /\ UNCHANGED buffer
    BY <1>2, <1>4, <1>8 DEF InChunk, Reading, SameBytes, MoreData, protoVars
  <2> QED
    BY <1>1, <1>2, <1>3, <1>5, <2>1, StaysInMessage DEF InMessage
<1>9. ASSUME find(buffer, CRLF) = 0
      PROVE  MoreData
  BY <1>9, Zenon DEF readBodyChunk
<1>10. message = Announced(m) /\ message.type = m.type /\ InChunks(m)
  BY <1>4 DEF InChunk, Announced
<1>11. CASE j \in 1 .. n
  <2>1. NextChunk(cb, b, w, m.chunks, j, rest)
    BY <1>6, <1>7, <1>11, AtChunk
  <2>2. PICK c \in Seq(Byte), k \in DOMAIN Hex \ {0} : c = m.chunks[j] /\ k = Len(c)
    <3>1. m.chunks[j] \in Seq(Byte) /\ Len(m.chunks[j]) \in DOMAIN Hex \ {0}
      <4>1. m.chunks \in Seq(Seq(Byte)) /\ j \in 1 .. Len(m.chunks)
        BY <1>6, <1>11, GoodMessage
      <4>2. \A i \in 1 .. Len(m.chunks) : Len(m.chunks[i]) \in DOMAIN Hex \ {0}
        BY GoodMessage
      <4>3. m.chunks[j] \in Seq(Byte)
        BY <4>1
      <4> QED
        BY <4>1, <4>2, <4>3, Zenon
    <3> QED
      BY <3>1
  <2>3. k \in Nat /\ k > 0
    BY <2>2, HttpAssumption
  <2>4. PICK R \in Seq(Byte) : /\ R = ChunksFrom(m.chunks, j + 1) \o rest
                               /\ SameBytes(b, w, ChunkText(c), R)
    BY <2>1, <2>2, Zenon DEF NextChunk
  <2>5. ChunkRead(b, w, c, k, R)
    BY <2>2, <2>3, <2>4, ReadsChunk
  <2>6. PICK total \in Nat : total = k + 5 /\ total = IF k = 0 THEN 3 ELSE k + 5
    BY <2>3
  <2>7. CASE Len(b) < 3
    <3>1. find(buffer, CRLF) = 0 /\ wire # <<>>
      BY <1>1, <2>3, <2>5, <2>7 DEF ChunkRead
    <3> QED
      BY <1>8, <1>9, <3>1
  <2>8. CASE Len(b) >= 3
    <3>1. find(buffer, CRLF) = 2 /\ SubSeq(buffer, 1, 1) = <<Hex[k]>>
      BY <1>1, <2>5, <2>8 DEF ChunkRead
    <3>2. \/ Len(buffer) < total /\ MoreData
          \/ /\ Len(buffer) >= total
             /\ \E match \in CrlfAfter(k + 3) : ChunkStep(match, k, total)
      BY <2>2, <2>6, <3>1, ChunkSteps
    <3>3. CASE Len(buffer) < total /\ MoreData
      <4>1. wire # <<>>
        BY <1>1, <2>5, <2>6, <3>3 DEF ChunkRead
      <4> QED
        BY <1>8, <3>3, <4>1
    <3>4. CASE Len(buffer) >= total /\ \E match \in CrlfAfter(k + 3) : ChunkStep(match, k, total)
      <4>1. b[k + 4] = "CR" /\ b[k + 5] = "LF" /\ SubSeq(b, 4, k + 3) = c
            /\ SubSeq(b, k + 6, Len(b)) \in Seq(Byte) /\ SubSeq(b, k + 6, Len(b)) \o w = R
        BY <1>1, <2>5, <2>6, <3>4 DEF ChunkRead
      <4>2. CrlfAfter(k + 3) = {TRUE}
        <5>1. PICK i \in Nat : i = k + 3 /\ i + 1 = k + 4 /\ i + 2 = k + 5 /\ i + 2 <= Len(buffer)
          BY <2>3, <2>6, <3>4
        <5>2. buffer \in Seq(Byte) /\ buffer[i + 1] = "CR" /\ buffer[i + 2] = "LF"
          BY <1>1, <4>1, <5>1
        <5>3. CrlfAfter(i) = {TRUE}
          BY <5>1, <5>2, CrlfAfterIs
        <5> QED
          BY <5>1, <5>3
      <4>3. ChunkStep(TRUE, k, total)
        BY <3>4, <4>2
      <4>4. /\ chunk_buffer' = chunk_buffer \o SubSeq(buffer, 4, k + 3)
            /\ Read(total) /\ UNCHANGED <<status, message, pc>>
        BY <2>3, <4>3 DEF ChunkStep
      <4>5. total + 1 = k + 6
        BY <2>3, <2>6
      <4>6. buffer' \in Seq(Byte) /\ buffer' \o wire' = R
        BY <1>1, <1>2, <4>1, <4>4, <4>5, Zenon DEF Read
      <4>7. /\ chunk_buffer' \in Seq(Byte)
            /\ chunk_buffer' \o ConcatFrom(m.chunks, j + 1) = Concat(m.chunks)
        BY <1>1, <1>6, <2>1, <2>2, <4>1, <4>4, Zenon DEF NextChunk
      <4>8. SameBytes(buffer, wire, ChunksFrom(m.chunks, j + 1), rest)'
        BY <2>4, <4>6, Zenon DEF SameBytes
      <4>9. j + 1 \in 1 .. Len(m.chunks) + 1
        BY <1>6, <1>11
      <4>10. Reading'
        BY <1>2, <4>4 DEF Reading
      <4>11. InChunk(m, rest)'
        BY <1>2, <1>10, <4>4, <4>7, <4>8, <4>9, <4>10 DEF InChunk
      <4> QED
        BY <1>2, <1>3, <1>5, <4>6, <4>11, StaysInMessage DEF InMessage
    <3> QED
      BY <3>2, <3>3, <3>4
  <2> QED
    BY <2>7, <2>8
<1>12. CASE j = n + 1
  <2>1. cb = Concat(m.chunks) /\ SameBytes(b, w, LastChunk, CRLF \o rest)
    BY <1>6, <1>7, <1>12, AtLastChunk
  <2>2. LastRead(b, w, rest)
    BY <2>1, ReadsLast
  <2>3. 0 \in DOMAIN Hex
    BY HttpAssumption
  <2>4. CASE Len(b) < 3
    <3>1. find(buffer, CRLF) = 0 /\ wire # <<>>
      BY <1>1, <2>2, <2>4 DEF LastRead
    <3> QED
      BY <1>8, <1>9, <3>1
  <2>5. CASE Len(b) >= 3
    <3>1. find(buffer, CRLF) = 2 /\ SubSeq(buffer, 1, 1) = <<Hex[0]>>
      BY <1>1, <2>2, <2>5 DEF LastRead
    <3>2. PICK total \in Nat : total = 3 /\ total = IF 0 = 0 THEN 3 ELSE 0 + 5
      OBVIOUS
    <3>3. \/ Len(buffer) < total /\ MoreData
          \/ /\ Len(buffer) >= total
             /\ \E match \in CrlfAfter(0 + 3) : ChunkStep(match, 0, total)
      BY <2>3, <3>1, <3>2, ChunkSteps
    <3>4. PICK match \in CrlfAfter(3) : ChunkStep(match, 0, 3)
      <4>1. 0 + 3 = 3
        OBVIOUS
      <4>2. ~ (Len(buffer) < total)
        BY <1>1, <2>5, <3>2
      <4> QED
        BY <3>2, <3>3, <4>1, <4>2, Zenon
    <3>5. /\ b[1] = Hex[0] /\ b[2] = "CR" /\ b[3] = "LF"
          /\ (Len(b) >= 4 => b[4] = "CR") /\ (Len(b) >= 5 => b[5] = "LF")
          /\ SubSeq(b, 4, Len(b)) \in Seq(Byte) /\ SubSeq(b, 4, Len(b)) \o w = CRLF \o rest
      BY <2>2, <2>5 DEF LastRead
    <3>6. CASE ~ match
      <4>1. Error
        BY <3>4, <3>6 DEF ChunkStep
      <4>2. Len(b) \in Nat /\ ~ (Len(b) >= 5)
        <5>1. IF 3 + 2 <= Len(buffer) THEN CrlfAfter(3) = {TRUE} ELSE CrlfAfter(3) = BOOLEAN
          <6>1. /\ 3 \in Nat /\ 3 + 1 = 4 /\ 3 + 2 = 5
                /\ (3 + 1 <= Len(buffer) => Len(b) >= 4) /\ (3 + 2 <= Len(buffer) => Len(b) >= 5)
            BY <1>1
          <6>2. /\ 3 + 1 <= Len(buffer) => buffer[3 + 1] = "CR"
                /\ 3 + 2 <= Len(buffer) => buffer[3 + 2] = "LF"
            BY <1>1, <3>5, <6>1
          <6> QED
            BY <1>1, <6>1, <6>2, CrlfAfterIs, Zenon
        <5>2. ~ (3 + 2 <= Len(buffer))
          <6>1. ASSUME 3 + 2 <= Len(buffer)
                PROVE  FALSE
            <7>1. match \in {TRUE}
              BY <3>4, <5>1, <6>1, Zenon
            <7>2. match = TRUE
              BY <7>1
            <7> QED
              BY <3>6, <7>2
          <6> QED
            BY <6>1
        <5> QED
          BY <1>1, <5>2
      <4>3. Len(buffer) \in {3, 4}
        <5>1. PICK l \in Nat : l = Len(b) /\ l = Len(buffer)
          BY <1>1
        <5>2. l >= 3 /\ ~ (l >= 5)
          BY <2>5, <4>2, <5>1
        <5>3. l = 3 \/ l = 4
          BY <5>2
        <5> QED
          BY <5>1, <5>3
      <4>4. CutAfterLastChunk
        BY <1>1, <3>5, <4>3, CutThere
      <4>5. CutAfterLastChunk' /\ UNCHANGED buffer
        BY <4>1, <4>4 DEF Error, CutAfterLastChunk
      <4>6. Failed'
        BY <4>1, <4>5 DEF Failed, Error
      <4> QED
        BY <1>1, <1>2, <1>3, <1>5, <4>5, <4>6, StaysInMessage DEF InMessage
    <3>7. CASE match
      <4>1. /\ message' = [message EXCEPT !.body = chunk_buffer,
                                          !.length = Len(chunk_buffer), !.chunked = FALSE]
            /\ Read(3) /\ status' = "READING_HEADER" /\ UNCHANGED <<chunk_buffer, pc>>
        BY <3>4, <3>7 DEF ChunkStep
      <4>2. message'.type = m.type /\ message'.body = chunk_buffer
        BY <1>10, <4>1 DEF Announced
      <4>3. chunk_buffer = Value(m).body
        BY <1>6, <1>10, <2>1 DEF Value
      <4>4. buffer' \in Seq(Byte) /\ buffer' \o wire' = CRLF \o rest
        <5>1. 3 + 1 = 4
          OBVIOUS
        <5> QED
          BY <1>1, <1>2, <3>5, <4>1, <5>1, Zenon DEF Read
      <4>5. SameBytes(buffer, wire, CRLF, rest)'
        BY <4>4 DEF SameBytes
      <4>6. Reading'
        BY <1>2, <4>1 DEF Reading
      <4>7. AtEmptyLine(m, rest)'
        BY <4>1, <4>2, <4>3, <4>5, <4>6 DEF AtEmptyLine
      <4> QED
        BY <1>2, <1>3, <1>5, <4>4, <4>7, StaysInMessage DEF InMessage
    <3> QED
      BY <3>6, <3>7
  <2> QED
    BY <2>4, <2>5
<1> QED
  BY <1>11, <1>12

LEMMA GotGrows ==
    ASSUME SentAndGot, NEW v, got' = Append(got, v), UNCHANGED <<sent, full, stored, bad>>,
           Len(got) < Len(stored) => v = Value(stored[Len(got) + 1])
    PROVE  SentAndGot' /\ Len(got') = Len(got) + 1
<1>1. PICK S : got \in Seq(S)
  BY DEF SentAndGot, IsSeq
<1>2. PICK T : T = S \cup {v}
  OBVIOUS
<1>3. got \in Seq(T) /\ v \in T
  BY <1>1, <1>2
<1>4. /\ got' \in Seq(T) /\ Len(got') = Len(got) + 1
      /\ (\A i \in 1 .. Len(got) : got'[i] = got[i]) /\ got'[Len(got) + 1] = v
  BY <1>3, AppendProperties
<1>5. IsSeq(got')
  BY <1>4 DEF IsSeq
<1>6. ASSUME NEW i \in 1 .. Len(got'), i <= Len(stored)
      PROVE  got'[i] = Value(stored[i])
  <2>1. PICK k \in Nat, n \in Nat : k = Len(got) /\ n = Len(stored)
    BY Lengths
  <2>2. i \in 1 .. k \/ i = k + 1
    BY <1>4, <2>1
  <2>3. CASE i \in 1 .. k
    BY <1>4, <1>6, <2>1, <2>3 DEF SentAndGot
  <2>4. CASE i = k + 1
    <3>1. k < n
      BY <1>6, <2>1, <2>4
    <3> QED
      BY <1>4, <2>1, <2>4, <3>1
  <2> QED
    BY <2>2, <2>3, <2>4
<1> QED
  BY <1>4, <1>5, <1>6 DEF SentAndGot, Sends

LEMMA RetrieveKeeps ==
    ASSUME HttpInv, NEW type, Retrieve(type)
    PROVE  HttpInv'
<1>1. SentAndGot /\ pc = "ready" /\ UNCHANGED <<buffer, wire, sent, full, stored, bad>>
  BY DEF HttpInv, Retrieve, stored
<1>2. PICK k \in Nat, n \in Nat : k = Len(got) /\ n = Len(stored)
  BY <1>1, Lengths
<1>3. CASE message.type = type
  <2>1. PICK v : /\ v = [type |-> message.type, body |-> message.body] /\ got' = Append(got, v)
                 /\ message' = NULL /\ chunk_buffer' = <<>> /\ status' = "READING_START_LINE"
                 /\ pc' = "recvMessage"
    BY <1>3 DEF Retrieve, reset
  <2>2. CASE Within
    <3>1. PICK m \in Stored, rest \in Seq(Byte) : At(m, rest) /\ Finished(m, rest)
      BY <1>1, <2>2
      DEF Within, AtStart, InMessage, InHead, AtEmptyLine, InLength, InChunk, Failed, Reading
    <3>2. v = Value(m)
      BY <2>1, <3>1 DEF Finished, Value
    <3>3. k < n /\ m = stored[k + 1] /\ rest = Left(stored, bad, k + 1)
      BY <1>2, <3>1 DEF At
    <3>4. SentAndGot' /\ Len(got') = k + 1
      BY <1>1, <1>2, <2>1, <3>2, <3>3, GotGrows
    <3>5. k + 1 <= n
      BY <3>3
    <3>6. buffer' \o wire' = Left(stored', bad', Len(got'))
      BY <1>1, <3>1, <3>3, <3>4, Zenon DEF Finished
    <3>7. AtStart'
      BY <1>1, <1>2, <2>1, <3>4, <3>5, <3>6 DEF AtStart
    <3>8. Within'
      BY <1>1, <2>2, <3>7 DEF Within
    <3> QED
      BY <3>4, <3>8 DEF HttpInv
  <2>3. CASE Beyond
    <3>1. ~ (Len(got) < Len(stored))
      BY <1>2, <2>3 DEF Beyond
    <3>2. SentAndGot' /\ Len(got') = k + 1
      BY <1>1, <1>2, <2>1, <3>1, GotGrows
    <3>3. Beyond'
      BY <1>1, <1>2, <2>3, <3>2 DEF Beyond
    <3> QED
      BY <3>2, <3>3 DEF HttpInv
  <2> QED
    BY <2>2, <2>3 DEF HttpInv
<1>4. CASE message.type # type
  <2>1. pc' = "refused" /\ UNCHANGED <<status, message, chunk_buffer, got>>
    BY <1>4 DEF Retrieve, protoVars
  <2>2. SentAndGot'
    BY <1>1, <2>1 DEF SentAndGot, Sends
  <2>3. CASE Within
    <3>1. PICK m \in Stored, rest \in Seq(Byte) : At(m, rest) /\ Finished(m, rest)
      BY <1>1, <2>3
      DEF Within, AtStart, InMessage, InHead, AtEmptyLine, InLength, InChunk, Failed, Reading
    <3>2. Finished(m, rest)'
      BY <1>1, <2>1, <3>1 DEF Finished
    <3>3. buffer' \in Seq(Byte) /\ wire' \in Seq(Byte)
      BY <1>1, <2>3 DEF Within
    <3>4. Within'
      BY <1>1, <2>1, <3>1, <3>2, <3>3, StaysInMessage DEF InMessage
    <3> QED
      BY <2>2, <3>4 DEF HttpInv
  <2>4. CASE Beyond
    <3>1. Beyond'
      BY <1>1, <2>1, <2>4 DEF Beyond
    <3> QED
      BY <2>2, <3>1 DEF HttpInv
  <2> QED
    BY <2>3, <2>4 DEF HttpInv
<1> QED
  BY <1>3, <1>4

LEMMA HttpNextInv == HttpInv /\ [Next]_vars => HttpInv'
<1> SUFFICES ASSUME HttpInv, [Next]_vars
             PROVE  HttpInv'
  OBVIOUS
<1>1. SentAndGot /\ (Within \/ Beyond)
  BY DEF HttpInv
<1>2. CASE \E type \in {"GET", "HTTP"} : Retrieve(type)
  BY <1>2, RetrieveKeeps
<1>3. CASE UNCHANGED vars
  <2>1. UNCHANGED <<status, message, chunk_buffer, buffer, wire, sent, full, stored, bad, got, pc>>
    BY <1>3 DEF vars, protoVars, stored
  <2>2. SentAndGot' /\ (Beyond => Beyond')
    BY <1>1, <2>1 DEF SentAndGot, Sends, Beyond
  <2>3. ASSUME Within
        PROVE  Within'
    <3>1. buffer' \in Seq(Byte) /\ wire' \in Seq(Byte)
      BY <2>1, <2>3 DEF Within
    <3>2. AtStart => AtStart'
      BY <2>1, Zenon DEF AtStart
    <3>3. ASSUME NEW m \in Stored, NEW rest \in Seq(Byte), At(m, rest), InMessage(m, rest)
          PROVE  Within'
      <4>1. InHead(m, rest) => InHead(m, rest)'
        BY <2>1, Zenon DEF InHead, Reading, SameBytes
      <4>2. AtEmptyLine(m, rest) => AtEmptyLine(m, rest)'
        BY <2>1, Zenon DEF AtEmptyLine, Reading, SameBytes
      <4>3. InLength(m, rest) => InLength(m, rest)'
        BY <2>1, Zenon DEF InLength, Reading, SameBytes
      <4>4. InChunk(m, rest) => InChunk(m, rest)'
        BY <2>1, Zenon DEF InChunk, Reading, SameBytes
      <4>5. Finished(m, rest) => Finished(m, rest)'
        BY <2>1, Zenon DEF Finished
      <4>6. Failed => Failed'
        BY <2>1, Zenon DEF Failed, CutAfterLastChunk
      <4>7. InMessage(m, rest)'
        BY <3>3, <4>1, <4>2, <4>3, <4>4, <4>5, <4>6, Zenon DEF InMessage
      <4> QED
        BY <2>1, <3>1, <3>3, <4>7, StaysInMessage
    <3> QED
      BY <2>3, <3>1, <3>2, <3>3 DEF Within
  <2> QED
    BY <1>1, <2>2, <2>3 DEF HttpInv
<1>4. ASSUME (\E n \in 1 .. Len(wire) : Arrive(n)) \/ recvMessage
      PROVE  HttpInv'
  <2>1. UNCHANGED <<sent, full, stored, bad, got>>
    BY <1>4
    DEF Arrive, recvMessage, readStartLine, readHeader, readBodyLength, readBodyChunk,
        readBodyNone, Handler, stored
  <2>2. SentAndGot'
    BY <1>1, <2>1 DEF SentAndGot, Sends
  <2>3. CASE Within
    <3>1. Within' \/ Beyond'
      BY <1>1, <1>4, <2>3, ArriveKeeps, StartLineKeeps, HeaderKeeps, BodyLengthKeeps,
         BodyChunkKeeps, BodyNoneKeeps DEF recvMessage
    <3> QED
      BY <2>2, <3>1 DEF HttpInv
  <2>4. CASE Beyond
    <3>1. status' = "READING_START_LINE" => status = "READING_START_LINE"
      BY <1>4
      DEF Arrive, recvMessage, readStartLine, readHeader, readBodyLength, readBodyChunk,
          readBodyNone, Handler, MoreData, Error, protoVars
    <3>2. Beyond'
      BY <2>1, <2>4, <3>1 DEF Beyond
    <3> QED
      BY <2>2, <3>2 DEF HttpInv
  <2> QED
    BY <1>1, <2>3, <2>4
<1> QED
  BY <1>2, <1>3, <1>4 DEF Next, Over

LEMMA HttpInvariant == Spec => []HttpInv
  BY HttpInitInv, HttpNextInv, PTL DEF Spec

-----------------------------------------------------------------------------
(* However the bytes are cut, the parser gives up on a connection only     *)
(* after it has given all messages that were sent to the application, when *)
(* something else follows them (which for this parser a message with a     *)
(* trailer is, and one whose writer had no room for the NUL of snprintf),  *)
(* or at the one cut where memcmp reads bytes that have not arrived (the   *)
(* end of readBody).                                                       *)
THEOREM ErrorsComeAfterMessages == Spec => []ErrorComesAfterSent
<1>1. HttpInv => ErrorComesAfterSent
  BY DEF HttpInv, SentAndGot, Within, Beyond, AtStart, InMessage, InHead, AtEmptyLine, InLength,
         InChunk, Finished, Failed, ErrorComesAfterSent
<1> QED
  BY <1>1, HttpInvariant, PTL

(* No complete message stays in the buffer: recvMessage returns for more   *)
(* data, with nothing to come, only when the application has all.          *)
THEOREM ParserLeavesNothing == Spec => []NothingLeftLying
<1>1. HttpInv => NothingLeftLying
  <2> SUFFICES ASSUME HttpInv, pc = "wait", wire = <<>>, bad = <<>>
               PROVE  Len(got) = Len(sent)
    BY DEF NothingLeftLying
  <2>1. AtStart
    BY DEF HttpInv, Within, Beyond, InMessage, InHead, AtEmptyLine, InLength, InChunk,
           Finished, Failed, Reading
  <2>2. Len(got) \in Nat /\ Len(stored) \in Nat /\ Len(stored) = Len(sent)
    BY Lengths DEF HttpInv, SentAndGot
  <2> QED
    BY <2>1, <2>2 DEF AtStart
<1> QED
  BY <1>1, HttpInvariant, PTL

(* The application gets the messages that were sent, each with its body    *)
(* put together, in order, and between two of them the stream is where the *)
(* next one begins; a body that filled the buffer of its sender has a NUL  *)
(* for its last byte, and is otherwise what was sent.  Whatever follows    *)
(* the messages does not change what came before it; when nothing follows  *)
(* them, nothing else is ever retrieved.                                   *)
THEOREM ParserRetrievesWhatWasSent ==
    Spec => [](SentComesFirst /\ (bad = <<>> => RetrievesWhatWasSent))
<1>1. HttpInv => SentComesFirst /\ (bad = <<>> => RetrievesWhatWasSent)
  <2> SUFFICES ASSUME HttpInv
               PROVE  SentComesFirst /\ (bad = <<>> => RetrievesWhatWasSent)
    OBVIOUS
  <2>1. PICK k \in Nat, n \in Nat : k = Len(got) /\ n = Len(stored) /\ n = Len(sent)
    BY Lengths DEF HttpInv, SentAndGot
  <2>2. \A i \in 1 .. Len(got) : i <= Len(sent) => got[i] = Arrived(sent[i], full[i])
    <3>1. \A i \in 1 .. n : Value(stored[i]) = Arrived(sent[i], full[i])
      BY <2>1, StoredIs DEF HttpInv, SentAndGot
    <3>2. \A i \in 1 .. k : i <= n => got[i] = Value(stored[i])
      BY <2>1 DEF HttpInv, SentAndGot
    <3> QED
      BY <2>1, <3>1, <3>2
  <2>3. ASSUME Within
        PROVE  k <= n /\ MessageBoundaries
    <3>1. CASE AtStart
      <4>1. EncodeFrom(sent, full, k + 1) \o bad = Left(stored, bad, k)
        BY StoredIs DEF HttpInv, SentAndGot
      <4> QED
        BY <2>1, <3>1, <4>1, Zenon DEF AtStart, MessageBoundaries
    <3>2. ASSUME NEW m \in Stored, NEW rest \in Seq(Byte), At(m, rest), InMessage(m, rest)
          PROVE  k <= n /\ MessageBoundaries
      <4>1. k < n
        BY <2>1, <3>2, Zenon DEF At
      <4>2. status # "READING_START_LINE"
        BY <3>2 DEF InMessage, InHead, AtEmptyLine, InLength, InChunk, Finished, Failed
      <4> QED
        BY <2>1, <4>1, <4>2 DEF MessageBoundaries
    <3> QED
      BY <2>3, <3>1, <3>2 DEF Within
  <2>4. Beyond => bad # <<>> /\ (k <= n => MessageBoundaries)
    BY <2>1 DEF Beyond, MessageBoundaries
  <2>5. Within \/ Beyond
    BY DEF HttpInv
  <2>6. SentComesFirst
    BY <2>1, <2>2, <2>3, <2>4, <2>5 DEF SentComesFirst
  <2>7. bad = <<>> => k <= n
    BY <2>3, <2>4, <2>5
  <2> QED
    BY <2>1, <2>6, <2>7 DEF RetrievesWhatWasSent
<1> QED
  BY <1>1, HttpInvariant, PTL
=============================================================================
