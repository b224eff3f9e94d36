-------------------------- MODULE TimerHeapProofs --------------------------
(***************************************************************************)
(* What the timer heap keeps true, for any number of timers, any clock and *)
(* any delays.                                                             *)
(***************************************************************************)
EXTENDS TimerHeap, FiniteSetTheorems, TLAPS

-----------------------------------------------------------------------------
(* Induction, over sets: a set of numbers has a least one. *)
LEMMA Least ==
    ASSUME NEW S \in SUBSET Nat, S # {}
    PROVE  \E n \in S : \A m \in S : n <= m
<1> DEFINE R == {ss \in Nat \X Nat : ss[1] < ss[2]}
<1>1. IsWellFoundedOn(R, Nat)
  BY NatLessThanWellFounded DEF OpToRel
<1>2. PICK x \in S : \A y \in S : ~ (<<y, x>> \in R)
  <2> HIDE DEF R
  <2> QED
    BY <1>1, WFMin, Zenon
<1>3. ASSUME NEW y \in S
      PROVE  x <= y
  <2>1. <<y, x>> \notin R
    BY <1>2
  <2> QED
    BY <2>1
<1> QED
  BY <1>3

LEMMA Induction ==
    ASSUME NEW S, 0 \in S, \A n \in Nat : n \in S => n + 1 \in S
    PROVE  \A n \in Nat : n \in S
<1> SUFFICES ASSUME ~ \A n \in Nat : n \in S
             PROVE  FALSE
  OBVIOUS
<1>1. PICK n \in Nat \ S : \A m \in Nat \ S : n <= m
  BY Least
<1>2. n # 0 /\ n - 1 \in Nat
  BY <1>1
<1>3. n - 1 \in S
  BY <1>1, <1>2
<1> QED
  BY <1>1, <1>2, <1>3

(* g holds the states after 0 to N turns. *)
IsRunOf(step, x, N, g) == g = [n \in 0 .. N |-> IF n = 0 THEN x ELSE step[g[n - 1]]]

(* A loop whose turn is a function on a set of states has a run. *)
LEMMA Run ==
    ASSUME NEW S, NEW x \in S, NEW step \in [S -> S], NEW N \in Nat
    PROVE  \E g \in [0 .. N -> S] : IsRunOf(step, x, N, g)
<1> DEFINE Runs(k, g) == g[0] = x /\ \A m \in 1 .. k : g[m] = step[g[m - 1]]
           P == {k \in Nat : \E g \in [0 .. k -> S] : Runs(k, g)}
<1>1. 0 \in P
  <2> DEFINE g == [i \in 0 .. 0 |-> x]
  <2>1. g \in [0 .. 0 -> S] /\ Runs(0, g)
    OBVIOUS
  <2> QED
    BY <2>1
<1>2. ASSUME NEW k \in Nat, k \in P
      PROVE  k + 1 \in P
  <2>1. PICK g \in [0 .. k -> S] : Runs(k, g)
    BY <1>2
  <2> DEFINE h == [i \in 0 .. k + 1 |-> IF i = k + 1 THEN step[g[k]] ELSE g[i]]
  <2>2. h \in [0 .. k + 1 -> S]
    BY <2>1
  <2>3. Runs(k + 1, h)
    BY <2>1
  <2> HIDE DEF h
  <2>4. \E f \in [0 .. k + 1 -> S] : Runs(k + 1, f)
    <3> HIDE DEF Runs
    <3> QED
      BY <2>2, <2>3
  <2> QED
    BY <2>4
<1>3. N \in P
  <2> HIDE DEF P
  <2> QED
    BY <1>1, <1>2, Induction
<1>4. PICK g \in [0 .. N -> S] : Runs(N, g)
  BY <1>3
<1>5. IsRunOf(step, x, N, g)
  BY <1>4 DEF IsRunOf
<1> QED
  BY <1>5

-----------------------------------------------------------------------------
(* The turns of a loop, as the definitions of SiftUp and SiftDown have them. *)
UpTurns(l) ==
    LET turn[n \in 0 .. Len(l.h)] == IF n = 0 THEN l ELSE UpTurn(turn[n - 1])
    IN  turn

LEMMA SiftUpIsLastTurn == ASSUME NEW l PROVE SiftUp(l) = UpTurns(l)[Len(l.h)]
  BY DEF SiftUp, UpTurns

LEMMA UpTurnsRun ==
    ASSUME NEW S, NEW l \in S, NEW N \in Nat, N = Len(l.h),
           \A m \in S : UpTurn(m) \in S
    PROVE  /\ UpTurns(l) \in [0 .. N -> S]
           /\ UpTurns(l)[0] = l
           /\ \A n \in 1 .. N : UpTurns(l)[n] = UpTurn(UpTurns(l)[n - 1])
<1> DEFINE step == [m \in S |-> UpTurn(m)]
           IsRun(f) == f = [n \in 0 .. N |-> IF n = 0 THEN l ELSE UpTurn(f[n - 1])]
<1>1. step \in [S -> S]
  OBVIOUS
<1>2. PICK g \in [0 .. N -> S] : IsRunOf(step, l, N, g)
  <2> HIDE DEF step
  <2> QED
    BY <1>1, Run
<1>3. IsRun(g)
  <2>1. ASSUME NEW n \in 0 .. N, n # 0
        PROVE  step[g[n - 1]] = UpTurn(g[n - 1])
    <3>1. n - 1 \in 0 .. N
      BY <2>1
    <3>2. g[n - 1] \in S
      BY <3>1, <1>2
    <3> QED
      BY <3>2
  <2> HIDE DEF step
  <2> QED
    BY <1>2, <2>1, Zenon DEF IsRunOf
<1>4. IsRun(UpTurns(l))
  <2>1. UpTurns(l) = CHOOSE f : IsRun(f)
    BY DEF UpTurns
  <2> HIDE DEF IsRun
  <2> QED
    BY <1>3, <2>1
<1>5. PICK f : f = UpTurns(l)
  OBVIOUS
<1>6. f = [n \in 0 .. N |-> IF n = 0 THEN l ELSE UpTurn(f[n - 1])]
  BY <1>4, <1>5
<1>7. f[0] = l /\ \A n \in 1 .. N : f[n] = UpTurn(f[n - 1])
  <2>1. \A n \in 0 .. N : f[n] = IF n = 0 THEN l ELSE UpTurn(f[n - 1])
    BY <1>6, Zenon
  <2>2. 0 \in 0 .. N /\ \A n \in 1 .. N : n \in 0 .. N /\ n # 0
    OBVIOUS
  <2> QED
    BY <2>1, <2>2, Zenon
<1>8. \A n \in Nat : n \in {k \in Nat : k <= N => f[k] \in S}
  <2> DEFINE P == {k \in Nat : k <= N => f[k] \in S}
  <2>1. 0 \in P
    BY <1>7
  <2>2. ASSUME NEW n \in Nat, n \in P
        PROVE  n + 1 \in P
    BY <2>2, <1>7
  <2> HIDE DEF P
  <2>3. \A n \in Nat : n \in P
    BY <2>1, <2>2, Induction
  <2> QED
    BY <2>3 DEF P
<1>9. DOMAIN f = 0 .. N
  BY <1>6
<1> QED
  BY <1>5, <1>6, <1>7, <1>8

(* The loop of minHeapInsert keeps what its turns keep, and it has met its
   break: each turn before it makes cur smaller. *)
LEMMA SiftUpEnds ==
    ASSUME NEW S, NEW l \in S, NEW N \in Nat, N = Len(l.h), l.cur <= N,
           \A m \in S : m.cur \in Nat \ {0} /\ UpTurn(m) \in S,
           \A m \in S : UpTurn(m) = m \/ UpTurn(m).cur < m.cur
    PROVE  SiftUp(l) \in S /\ UpTurn(SiftUp(l)) = SiftUp(l)
<1>1. PICK f : f = UpTurns(l)
  OBVIOUS
<1>2. f \in [0 .. N -> S] /\ f[0] = l /\ \A n \in 1 .. N : f[n] = UpTurn(f[n - 1])
  BY <1>1, UpTurnsRun
<1> DEFINE P == {n \in Nat : n <= N => UpTurn(f[n]) = f[n] \/ f[n].cur <= N - n}
<1>3. 0 \in P
  BY <1>2
<1>4. ASSUME NEW n \in Nat, n \in P
      PROVE  n + 1 \in P
  <2> SUFFICES ASSUME n + 1 <= N
               PROVE  UpTurn(f[n + 1]) = f[n + 1] \/ f[n + 1].cur <= N - (n + 1)
    OBVIOUS
  <2>1. PICK m \in S : m = f[n]
    <3>1. n \in 0 .. N
      OBVIOUS
    <3> HIDE DEF P
    <3>2. f[n] \in S
      BY <1>2, <3>1
    <3> QED
      BY <3>2
  <2>2. f[n + 1] = UpTurn(m)
    <3>1. n + 1 \in 1 .. N /\ (n + 1) - 1 = n
      OBVIOUS
    <3> QED
      BY <2>1, <3>1, <1>2
  <2>3. CASE UpTurn(m) = m
    BY <2>2, <2>3
  <2>4. CASE UpTurn(m) # m
    <3>1. m.cur <= N - n
      BY <2>1, <2>4, <1>4
    <3>2. UpTurn(m).cur < m.cur
      BY <2>4
    <3>3. m.cur \in Nat /\ UpTurn(m).cur \in Nat
      OBVIOUS
    <3>4. UpTurn(m).cur <= N - (n + 1)
      BY <3>1, <3>2, <3>3
    <3> QED
      BY <3>4, <2>2
  <2> QED
    BY <2>3, <2>4
<1>5. N \in P
  <2> HIDE DEF P
  <2> QED
    BY <1>3, <1>4, Induction
<1>6. f[N] \in S /\ UpTurn(f[N]) = f[N]
  <2>1. PICK m \in S : m = f[N]
    BY <1>2
  <2>2. m.cur \in Nat \ {0}
    OBVIOUS
  <2> QED
    BY <2>1, <2>2, <1>5
<1> QED
  BY <1>1, <1>6, SiftUpIsLastTurn, Zenon

-----------------------------------------------------------------------------
(* The turns of the loop of minHeapErase, in the same way. *)
DownTurns(l) ==
    LET turn[n \in 0 .. Len(l.h)] == IF n = 0 THEN l ELSE DownTurn(turn[n - 1])
    IN  turn

LEMMA SiftDownIsLastTurn == ASSUME NEW l PROVE SiftDown(l) = DownTurns(l)[Len(l.h)]
  BY DEF SiftDown, DownTurns

LEMMA DownTurnsRun ==
    ASSUME NEW S, NEW l \in S, NEW N \in Nat, N = Len(l.h),
           \A m \in S : DownTurn(m) \in S
    PROVE  /\ DownTurns(l) \in [0 .. N -> S]
           /\ DownTurns(l)[0] = l
           /\ \A n \in 1 .. N : DownTurns(l)[n] = DownTurn(DownTurns(l)[n - 1])
<1> DEFINE step == [m \in S |-> DownTurn(m)]
           IsRun(f) == f = [n \in 0 .. N |-> IF n = 0 THEN l ELSE DownTurn(f[n - 1])]
<1>1. step \in [S -> S]
  OBVIOUS
<1>2. PICK g \in [0 .. N -> S] : IsRunOf(step, l, N, g)
  <2> HIDE DEF step
  <2> QED
    BY <1>1, Run
<1>3. IsRun(g)
  <2>1. ASSUME NEW n \in 0 .. N, n # 0
        PROVE  step[g[n - 1]] = DownTurn(g[n - 1])
    <3>1. n - 1 \in 0 .. N
      BY <2>1
    <3>2. g[n - 1] \in S
      BY <3>1, <1>2
    <3> QED
      BY <3>2
  <2> HIDE DEF step
  <2> QED
    BY <1>2, <2>1, Zenon DEF IsRunOf
<1>4. IsRun(DownTurns(l))
  <2>1. DownTurns(l) = CHOOSE f : IsRun(f)
    BY DEF DownTurns
  <2> HIDE DEF IsRun
  <2> QED
    BY <1>3, <2>1
<1>5. PICK f : f = DownTurns(l)
  OBVIOUS
<1>6. f = [n \in 0 .. N |-> IF n = 0 THEN l ELSE DownTurn(f[n - 1])]
  BY <1>4, <1>5
<1>7. f[0] = l /\ \A n \in 1 .. N : f[n] = DownTurn(f[n - 1])
  <2>1. \A n \in 0 .. N : f[n] = IF n = 0 THEN l ELSE DownTurn(f[n - 1])
    BY <1>6, Zenon
  <2>2. 0 \in 0 .. N /\ \A n \in 1 .. N : n \in 0 .. N /\ n # 0
    OBVIOUS
  <2> QED
    BY <2>1, <2>2, Zenon
<1>8. \A n \in Nat : n \in {k \in Nat : k <= N => f[k] \in S}
  <2> DEFINE P == {k \in Nat : k <= N => f[k] \in S}
  <2>1. 0 \in P
    BY <1>7
  <2>2. ASSUME NEW n \in Nat, n \in P
        PROVE  n + 1 \in P
    BY <2>2, <1>7
  <2> HIDE DEF P
  <2>3. \A n \in Nat : n \in P
    BY <2>1, <2>2, Induction
  <2> QED
    BY <2>3 DEF P
<1>9. DOMAIN f = 0 .. N
  BY <1>6
<1> QED
  BY <1>5, <1>6, <1>7, <1>8

(* The loop of minHeapErase keeps what its turns keep, and it has met its
   break: each turn before it makes cur larger. *)
LEMMA SiftDownEnds ==
    ASSUME NEW S, NEW l \in S, NEW N \in Nat, N = Len(l.h),
           \A m \in S : m.cur \in Nat \ {0} /\ DownTurn(m) \in S,
           \A m \in S : m.cur > N => DownTurn(m) = m,
           \A m \in S : DownTurn(m) = m \/ DownTurn(m).cur > m.cur
    PROVE  SiftDown(l) \in S /\ DownTurn(SiftDown(l)) = SiftDown(l)
<1>1. PICK f : f = DownTurns(l)
  OBVIOUS
<1>2. f \in [0 .. N -> S] /\ f[0] = l /\ \A n \in 1 .. N : f[n] = DownTurn(f[n - 1])
  BY <1>1, DownTurnsRun
<1> DEFINE P == {n \in Nat : n <= N => DownTurn(f[n]) = f[n] \/ f[n].cur > n}
<1>3. 0 \in P
  BY <1>2
<1>4. ASSUME NEW n \in Nat, n \in P
      PROVE  n + 1 \in P
  <2> SUFFICES ASSUME n + 1 <= N
               PROVE  DownTurn(f[n + 1]) = f[n + 1] \/ f[n + 1].cur > n + 1
    OBVIOUS
  <2>1. PICK m \in S : m = f[n]
    <3>1. n \in 0 .. N
      OBVIOUS
    <3> HIDE DEF P
    <3>2. f[n] \in S
      BY <1>2, <3>1
    <3> QED
      BY <3>2
  <2>2. f[n + 1] = DownTurn(m)
    <3>1. n + 1 \in 1 .. N /\ (n + 1) - 1 = n
      OBVIOUS
    <3> QED
      BY <2>1, <3>1, <1>2
  <2>3. CASE DownTurn(m) = m
    BY <2>2, <2>3
  <2>4. CASE DownTurn(m) # m
    <3>1. m.cur > n
      BY <2>1, <2>4, <1>4
    <3>2. DownTurn(m).cur > m.cur
      BY <2>4
    <3>3. m.cur \in Nat /\ DownTurn(m).cur \in Nat
      OBVIOUS
    <3>4. DownTurn(m).cur > n + 1
      BY <3>1, <3>2, <3>3
    <3> QED
      BY <3>4, <2>2
  <2> QED
    BY <2>3, <2>4
<1>5. N \in P
  <2> HIDE DEF P
  <2> QED
    BY <1>3, <1>4, Induction
<1>6. f[N] \in S /\ DownTurn(f[N]) = f[N]
  <2>1. PICK m \in S : m = f[N]
    BY <1>2
  <2>2. DownTurn(m) = m \/ m.cur > N
    BY <2>1, <1>5
  <2> QED
    BY <2>1, <2>2
<1> QED
  BY <1>1, <1>6, SiftDownIsLastTurn, Zenon

-----------------------------------------------------------------------------
(* The loops work on arrays of n timers with the ids L, out of the ids D.  *)

Timer == [at : Int, timeout : Nat, left : Int, pos : Int]

(* The array and the positions are inverse to each other. *)
Indexed(h, ts, n, L) ==
    /\ \A i \in 1 .. n : ts[h[i]].pos = i
    /\ \A x \in L : ts[x].pos \in 1 .. n /\ h[ts[x].pos] = x

(* Only the positions differ. *)
SameTimers(ts, tt, D) ==
    \A x \in D : /\ ts[x].at = tt[x].at
                 /\ ts[x].timeout = tt[x].timeout
                 /\ ts[x].left = tt[x].left

Loops(n, D, L, tt) ==
    {l \in [h : [1 .. n -> L], ts : [D -> Timer], cur : 1 .. n + 1] :
        Indexed(l.h, l.ts, n, L) /\ SameTimers(l.ts, tt, D)}

At(l, k) == l.ts[l.h[k]].at

LEMMA SetPos ==
    ASSUME NEW t \in Timer, NEW p \in Int
    PROVE  [t EXCEPT !.pos = p] \in Timer
<1>1. PICK a \in Int, b \in Nat, c \in Int, d \in Int :
          t = [at |-> a, timeout |-> b, left |-> c, pos |-> d]
  BY DEF Timer
<1>2. [t EXCEPT !.pos = p] = [at |-> a, timeout |-> b, left |-> c, pos |-> p]
  BY <1>1
<1> QED
  BY <1>2 DEF Timer

LEMMA LoopLen ==
    ASSUME NEW n \in Nat, NEW D, NEW L, NEW tt, NEW l \in Loops(n, D, L, tt)
    PROVE  Len(l.h) = n
<1>1. PICK h \in [1 .. n -> L] : h = l.h
  BY DEF Loops
<1> QED
  BY <1>1

(* A turn that swaps keeps the array and the positions inverse, and no timer
   but the two at cur and i moves. *)
LEMMA SwapKeeps ==
    ASSUME NEW n \in Nat, NEW D, NEW L \in SUBSET D, NEW tt,
           NEW l \in Loops(n, D, L, tt), l.cur <= n,
           NEW i \in 1 .. n, i # l.cur
    PROVE  /\ Swap(l, i) \in Loops(n, D, L, tt)
           /\ Swap(l, i).cur = i
           /\ At(Swap(l, i), i) = At(l, l.cur)
           /\ At(Swap(l, i), l.cur) = At(l, i)
           /\ \A k \in 1 .. n : k # i /\ k # l.cur => At(Swap(l, i), k) = At(l, k)
<1>1. PICK h \in [1 .. n -> L], ts \in [D -> Timer], c \in 1 .. n :
          h = l.h /\ ts = l.ts /\ c = l.cur
  BY DEF Loops
<1>2. Indexed(h, ts, n, L) /\ SameTimers(ts, tt, D)
  BY <1>1 DEF Loops
<1>3. PICK x \in L, y \in L : x = h[c] /\ y = h[i]
  OBVIOUS
<1>4. x # y
  BY <1>1, <1>2, <1>3 DEF Indexed
<1> DEFINE hh == [h EXCEPT ![c] = y, ![i] = x]
           uu == [ts EXCEPT ![x].pos = i, ![y].pos = c]
<1>5. Swap(l, i) = [h |-> hh, ts |-> uu, cur |-> i]
  BY <1>1, <1>3 DEF Swap
<1>6. hh \in [1 .. n -> L] /\ hh[c] = y /\ hh[i] = x
      /\ \A k \in 1 .. n : k # i /\ k # c => hh[k] = h[k]
  BY <1>1
<1>7. uu \in [D -> Timer]
  <2> DEFINE vv == [ts EXCEPT ![x] = [@ EXCEPT !.pos = i]]
  <2>1. vv \in [D -> Timer]
    <3>1. [ts[x] EXCEPT !.pos = i] \in Timer
      BY SetPos
    <3> QED
      BY <3>1
  <2>2. uu = [vv EXCEPT ![y] = [@ EXCEPT !.pos = c]]
    OBVIOUS
  <2> HIDE DEF vv
  <2>3. [vv[y] EXCEPT !.pos = c] \in Timer
    BY <2>1, SetPos
  <2> QED
    BY <2>1, <2>2, <2>3
<1>8. /\ uu[x].pos = i /\ uu[y].pos = c
      /\ \A z \in D : z # x /\ z # y => uu[z].pos = ts[z].pos
      /\ \A z \in D : uu[z].at = ts[z].at /\ uu[z].timeout = ts[z].timeout /\ uu[z].left = ts[z].left
  BY <1>4 DEF Timer
<1> HIDE DEF hh, uu
<1>9. Indexed(hh, uu, n, L)
  <2>1. ASSUME NEW k \in 1 .. n
        PROVE  uu[hh[k]].pos = k
    <3>1. CASE k # i /\ k # c
      <4>1. hh[k] = h[k] /\ h[k] # x /\ h[k] # y /\ h[k] \in D
        BY <3>1, <1>6, <1>2, <1>3 DEF Indexed
      <4> QED
        BY <4>1, <1>8, <1>2 DEF Indexed
    <3> QED
      BY <3>1, <1>6, <1>8
  <2>2. ASSUME NEW z \in L
        PROVE  uu[z].pos \in 1 .. n /\ hh[uu[z].pos] = z
    <3>1. CASE z # x /\ z # y
      <4>1. uu[z].pos = ts[z].pos
        BY <3>1, <1>8
      <4>2. ts[z].pos \in 1 .. n /\ h[ts[z].pos] = z
        BY <1>2 DEF Indexed
      <4>3. ts[z].pos # i /\ ts[z].pos # c
        BY <3>1, <4>2, <1>3
      <4> QED
        BY <4>1, <4>2, <4>3, <1>6
    <3> QED
      BY <3>1, <1>6, <1>8
  <2> QED
    BY <2>1, <2>2 DEF Indexed
<1>10. SameTimers(uu, tt, D)
  BY <1>2, <1>8 DEF SameTimers
<1>11. Swap(l, i) \in Loops(n, D, L, tt)
  <2>1. i \in 1 .. n + 1
    OBVIOUS
  <2> QED
    BY <2>1, <1>5, <1>6, <1>7, <1>9, <1>10 DEF Loops
<1>12. Swap(l, i).h = hh /\ Swap(l, i).ts = uu /\ Swap(l, i).cur = i
  BY <1>5
<1>13. uu[hh[i]].at = ts[h[c]].at /\ uu[hh[c]].at = ts[h[i]].at
  BY <1>3, <1>6, <1>8
<1>14. ASSUME NEW k \in 1 .. n, k # i, k # c
       PROVE  uu[hh[k]].at = ts[h[k]].at
  BY <1>14, <1>6, <1>8
<1> QED
  BY <1>1, <1>11, <1>12, <1>13, <1>14 DEF At

(* The times of the timers in the array are numbers. *)
LEMMA AtType ==
    ASSUME NEW n \in Nat, NEW D, NEW L \in SUBSET D, NEW tt,
           NEW l \in Loops(n, D, L, tt), NEW k \in 1 .. n
    PROVE  At(l, k) \in Int
  BY DEF Loops, At, Timer

(* What parent and children are. *)
LEMMA Half ==
    ASSUME NEW k \in Nat
    PROVE  k \div 2 \in Nat /\ 2 * (k \div 2) <= k /\ k <= 2 * (k \div 2) + 1
  OBVIOUS

-----------------------------------------------------------------------------
(* The order.  Moving up: only the timer at cur may be early; moving down:
   only the timer at cur may be late. *)
Ordered(l, n) == \A k \in 2 .. n : At(l, k \div 2) <= At(l, k)

AroundHole(l, n) ==
    \A k \in 2 .. n : k \div 2 = l.cur /\ l.cur >= 2 => At(l, l.cur \div 2) <= At(l, k)

UpOrdered(l, n) ==
    /\ \A k \in 2 .. n : k # l.cur => At(l, k \div 2) <= At(l, k)
    /\ AroundHole(l, n)

DownOrdered(l, n) ==
    /\ \A k \in 2 .. n : k \div 2 # l.cur => At(l, k \div 2) <= At(l, k)
    /\ AroundHole(l, n)

LEMMA UpTurnKeeps ==
    ASSUME NEW n \in Nat, NEW D, NEW L \in SUBSET D, NEW tt,
           NEW l \in Loops(n, D, L, tt), l.cur <= n
    PROVE  /\ UpTurn(l) \in Loops(n, D, L, tt) /\ UpTurn(l).cur <= n
           /\ UpTurn(l) = l \/ UpTurn(l).cur < l.cur
           /\ UpOrdered(l, n) => UpOrdered(UpTurn(l), n)
           /\ UpOrdered(l, n) /\ UpTurn(l) = l => Ordered(l, n)
<1>1. PICK c \in 1 .. n : c = l.cur
  BY DEF Loops
<1>2. PICK p \in Nat : p = c \div 2 /\ 2 * p <= c /\ c <= 2 * p + 1
  BY Half
<1>3. CASE p = 0 \/ Less(l, p, c)
  <2>1. UpTurn(l) = l
    BY <1>1, <1>2, <1>3 DEF UpTurn
  <2>2. ASSUME UpOrdered(l, n)
        PROVE  Ordered(l, n)
    <3>1. ASSUME NEW k \in 2 .. n
          PROVE  At(l, k \div 2) <= At(l, k)
      <4>1. CASE k # c
        BY <4>1, <2>2, <1>1 DEF UpOrdered
      <4>2. CASE k = c
        <5>1. p \in 1 .. n
          BY <4>2, <1>2
        <5>2. At(l, p) < At(l, c)
          BY <5>1, <1>3 DEF Less, At
        <5>3. At(l, p) \in Int /\ At(l, c) \in Int
          BY <5>1, AtType
        <5>4. At(l, p) <= At(l, c)
          BY <5>2, <5>3
        <5> QED
          BY <5>4, <4>2, <1>2
      <4> QED
        BY <4>1, <4>2
    <3> QED
      BY <3>1 DEF Ordered
  <2> QED
    BY <2>1, <2>2
<1>4. CASE ~(p = 0 \/ Less(l, p, c))
  <2>1. UpTurn(l) = Swap(l, p)
    BY <1>1, <1>2, <1>4 DEF UpTurn
  <2>2. p \in 1 .. n /\ p < c
    BY <1>2, <1>4
  <2>3. PICK m \in Loops(n, D, L, tt) :
            /\ m = Swap(l, p)
            /\ m.cur = p
            /\ At(m, p) = At(l, c)
            /\ At(m, c) = At(l, p)
            /\ \A k \in 1 .. n : k # p /\ k # c => At(m, k) = At(l, k)
    BY <1>1, <2>2, SwapKeeps
  <2>4. UpTurn(l) # l /\ UpTurn(l).cur < l.cur
    BY <2>1, <2>2, <2>3, <1>1
  <2>5. \A k \in 1 .. n : At(l, k) \in Int /\ At(m, k) \in Int
    BY AtType
  <2>6. At(l, c) <= At(l, p)
    <3>1. ~(At(l, p) < At(l, c))
      BY <1>4 DEF Less, At
    <3> QED
      BY <3>1, <2>2, <2>5
  <2>7. ASSUME UpOrdered(l, n)
        PROVE  UpOrdered(m, n)
    <3>1. ASSUME NEW k \in 2 .. n, k # p
          PROVE  At(m, k \div 2) <= At(m, k)
      <4>1. PICK q \in 1 .. n : q = k \div 2 /\ 2 * q <= k /\ k <= 2 * q + 1
        BY Half
      <4>2. CASE k = c
        BY <4>2, <4>1, <1>2, <2>3, <2>6
      <4>3. CASE k # c /\ q # c /\ q # p
        <5>1. At(l, q) <= At(l, k)
          BY <4>1, <4>3, <2>7, <1>1 DEF UpOrdered
        <5> QED
          BY <5>1, <4>1, <4>3, <3>1, <2>3
      <4>4. CASE k # c /\ q = p
        <5>1. At(l, p) <= At(l, k)
          BY <4>1, <4>4, <2>7, <1>1 DEF UpOrdered
        <5>2. At(m, k) = At(l, k) /\ At(m, q) = At(l, c)
          BY <4>4, <3>1, <2>3
        <5>3. At(l, c) <= At(l, k)
          BY <5>1, <2>6, <2>5, <2>2
        <5> QED
          BY <5>2, <5>3, <4>1
      <4>5. CASE k # c /\ q = c
        <5>1. c >= 2
          BY <2>2
        <5>2. At(l, p) <= At(l, k)
          BY <4>1, <4>5, <5>1, <2>7, <1>1, <1>2 DEF UpOrdered, AroundHole
        <5>3. At(m, k) = At(l, k) /\ At(m, q) = At(l, p)
          BY <4>5, <3>1, <2>3
        <5> QED
          BY <5>2, <5>3, <4>1
      <4> QED
        BY <4>2, <4>3, <4>4, <4>5
    <3>2. ASSUME NEW k \in 2 .. n, k \div 2 = p, p >= 2
          PROVE  At(m, p \div 2) <= At(m, k)
      <4>1. PICK g \in 1 .. n : g = p \div 2 /\ 2 * g <= p
        BY <3>2, <2>2, Half
      <4>2. At(m, g) = At(l, g) /\ g # p /\ g # c
        BY <4>1, <2>2, <2>3
      <4>3. At(l, g) <= At(l, p)
        BY <4>1, <3>2, <2>2, <2>7, <1>1 DEF UpOrdered
      <4>4. k # p
        BY <3>2, Half
      <4>5. CASE k = c
        BY <4>1, <4>2, <4>3, <4>5, <2>3
      <4>6. CASE k # c
        <5>1. At(l, p) <= At(l, k)
          BY <4>6, <3>2, <2>7, <1>1 DEF UpOrdered
        <5>2. At(m, k) = At(l, k)
          BY <4>4, <4>6, <2>3
        <5>3. At(l, g) <= At(l, k)
          BY <5>1, <4>3, <2>5, <2>2
        <5> QED
          BY <4>1, <4>2, <5>2, <5>3
      <4> QED
        BY <4>5, <4>6
    <3> QED
      BY <3>1, <3>2, <2>3 DEF UpOrdered, AroundHole
  <2> QED
    BY <2>1, <2>2, <2>3, <2>4, <2>7
<1> QED
  BY <1>3, <1>4

(* The child the loop of minHeapErase looks at is the earlier one. *)
LEMMA MinChildIsEarlier ==
    ASSUME NEW n \in Nat, NEW D, NEW L \in SUBSET D, NEW tt,
           NEW l \in Loops(n, D, L, tt), 2 * l.cur <= n
    PROVE  /\ MinChild(l) \in 1 .. n /\ MinChild(l) \div 2 = l.cur /\ MinChild(l) > l.cur
           /\ \A k \in 2 .. n : k \div 2 = l.cur => At(l, MinChild(l)) <= At(l, k)
<1>1. PICK c \in Nat \ {0} : c = l.cur
  BY DEF Loops
<1>2. Len(l.h) = n
  BY LoopLen
<1>3. PICK j \in {2 * c, 2 * c + 1} :
          /\ j = MinChild(l) /\ j <= n
          /\ j = 2 * c => ~(2 * c + 1 <= n /\ Less(l, 2 * c + 1, 2 * c))
          /\ j = 2 * c + 1 => Less(l, 2 * c + 1, 2 * c)
  BY <1>1, <1>2 DEF MinChild
<1>4. j \in 1 .. n /\ j \div 2 = c /\ j > c
  <2>1. PICK q \in Nat : q = j \div 2 /\ 2 * q <= j /\ j <= 2 * q + 1
    BY <1>3, Half
  <2> QED
    BY <2>1, <1>3
<1>5. ASSUME NEW k \in 2 .. n, k \div 2 = c
      PROVE  At(l, j) <= At(l, k)
  <2>1. k \in {2 * c, 2 * c + 1}
    BY <1>5, Half
  <2>2. At(l, j) \in Int /\ At(l, k) \in Int
    BY <1>4, AtType
  <2>3. CASE j = k
    BY <2>2, <2>3
  <2>4. CASE j # k
    <3>1. ~(At(l, k) < At(l, j))
      BY <2>1, <2>2, <2>4, <1>3 DEF Less, At
    <3> QED
      BY <3>1, <2>2
  <2> QED
    BY <2>3, <2>4
<1> QED
  BY <1>1, <1>3, <1>4, <1>5

LEMMA DownTurnKeeps ==
    ASSUME NEW n \in Nat, NEW D, NEW L \in SUBSET D, NEW tt,
           NEW l \in Loops(n, D, L, tt)
    PROVE  /\ DownTurn(l) \in Loops(n, D, L, tt)
           /\ l.cur > n => DownTurn(l) = l
           /\ DownTurn(l) = l \/ DownTurn(l).cur > l.cur
           /\ DownOrdered(l, n) => DownOrdered(DownTurn(l), n)
           /\ DownOrdered(l, n) /\ DownTurn(l) = l => Ordered(l, n)
<1>1. PICK c \in Nat \ {0} : c = l.cur
  BY DEF Loops
<1>2. Len(l.h) = n
  BY LoopLen
<1>3. CASE 2 * c > n
  <2>1. DownTurn(l) = l
    BY <1>1, <1>2, <1>3 DEF DownTurn
  <2>2. ASSUME DownOrdered(l, n), NEW k \in 2 .. n
        PROVE  At(l, k \div 2) <= At(l, k)
    <3>1. k \div 2 # c
      BY <1>3, Half
    <3> QED
      BY <3>1, <2>2, <1>1 DEF DownOrdered
  <2> QED
    BY <2>1, <2>2 DEF Ordered
<1>4. CASE 2 * c <= n
  <2>1. PICK j \in 1 .. n :
            /\ j = MinChild(l) /\ j \div 2 = c /\ j > c
            /\ \A k \in 2 .. n : k \div 2 = c => At(l, j) <= At(l, k)
    BY <1>1, <1>4, MinChildIsEarlier
  <2>2. c \in 1 .. n /\ ~(c > n)
    BY <1>4
  <2>3. CASE Less(l, c, j)
    <3>1. DownTurn(l) = l
      BY <1>1, <1>2, <2>1, <2>3 DEF DownTurn
    <3>2. ASSUME DownOrdered(l, n), NEW k \in 2 .. n
          PROVE  At(l, k \div 2) <= At(l, k)
      <4>1. CASE k \div 2 # c
        BY <4>1, <3>2, <1>1 DEF DownOrdered
      <4>2. CASE k \div 2 = c
        <5>1. At(l, c) < At(l, j) /\ At(l, j) <= At(l, k)
          BY <4>2, <2>1, <2>3 DEF Less, At
        <5>2. At(l, c) \in Int /\ At(l, j) \in Int /\ At(l, k) \in Int
          BY <2>2, AtType
        <5>3. At(l, c) <= At(l, k)
          BY <5>1, <5>2
        <5> QED
          BY <5>3, <4>2
      <4> QED
        BY <4>1, <4>2
    <3> QED
      BY <3>1, <3>2, <2>2, <1>1 DEF Ordered
  <2>4. CASE ~Less(l, c, j)
    <3>1. DownTurn(l) = Swap(l, j)
      BY <1>1, <1>2, <1>4, <2>1, <2>4 DEF DownTurn
    <3>2. PICK m \in Loops(n, D, L, tt) :
              /\ m = Swap(l, j)
              /\ m.cur = j
              /\ At(m, j) = At(l, c)
              /\ At(m, c) = At(l, j)
              /\ \A k \in 1 .. n : k # j /\ k # c => At(m, k) = At(l, k)
      <4>1. l.cur <= n /\ j # l.cur
        BY <1>1, <2>1, <2>2
      <4> QED
        BY <4>1, <1>1, SwapKeeps
    <3>3. DownTurn(l) # l /\ DownTurn(l).cur > l.cur
      BY <3>1, <3>2, <2>1, <1>1
    <3>4. \A k \in 1 .. n : At(l, k) \in Int /\ At(m, k) \in Int
      BY AtType
    <3>5. At(l, j) <= At(l, c)
      <4>1. ~(At(l, c) < At(l, j))
        BY <2>4 DEF Less, At
      <4> QED
        BY <4>1, <2>2, <3>4
    <3>6. ASSUME DownOrdered(l, n)
          PROVE  DownOrdered(m, n)
      <4>1. ASSUME NEW k \in 2 .. n, k \div 2 # j
            PROVE  At(m, k \div 2) <= At(m, k)
        <5>1. PICK q \in 1 .. n : q = k \div 2 /\ 2 * q <= k /\ k <= 2 * q + 1
          BY Half
        <5>2. CASE k = j
          <6>1. q = c
            BY <5>1, <5>2, <2>1
          <6> QED
            BY <6>1, <5>1, <5>2, <3>2, <3>5
        <5>3. CASE k # j /\ q = c
          <6>1. k # c
            BY <5>1, <5>3
          <6>2. At(l, j) <= At(l, k)
            BY <5>1, <5>3, <2>1
          <6>3. At(m, k) = At(l, k) /\ At(m, q) = At(l, j)
            BY <6>1, <5>3, <3>2
          <6> QED
            BY <6>2, <6>3, <5>1
        <5>4. CASE k = c
          <6>1. c >= 2 /\ q # c /\ q # j
            BY <5>1, <5>4, <4>1
          <6>2. At(l, q) <= At(l, j)
            BY <6>1, <5>1, <5>4, <3>6, <2>1, <1>1 DEF DownOrdered, AroundHole
          <6>3. At(m, k) = At(l, j) /\ At(m, q) = At(l, q)
            BY <6>1, <5>4, <3>2
          <6> QED
            BY <6>2, <6>3, <5>1
        <5>5. CASE k # j /\ k # c /\ q # c
          <6>1. At(l, q) <= At(l, k)
            BY <5>1, <5>5, <3>6, <1>1 DEF DownOrdered
          <6>2. At(m, k) = At(l, k) /\ At(m, q) = At(l, q)
            BY <5>1, <5>5, <4>1, <3>2
          <6> QED
            BY <6>1, <6>2, <5>1
        <5> QED
          BY <5>2, <5>3, <5>4, <5>5
      <4>2. ASSUME NEW k \in 2 .. n, k \div 2 = j
            PROVE  At(m, c) <= At(m, k)
        <5>1. k > j /\ k # c
          BY <4>2, <2>1, Half
        <5>2. At(l, j) <= At(l, k)
          BY <4>2, <3>6, <2>1, <1>1 DEF DownOrdered
        <5>3. At(m, k) = At(l, k)
          BY <5>1, <3>2
        <5> QED
          BY <5>2, <5>3, <3>2
      <4> QED
        BY <4>1, <4>2, <3>2, <2>1 DEF DownOrdered, AroundHole
    <3> QED
      BY <3>1, <3>2, <3>3, <3>6, <2>2, <1>1
  <2> QED
    BY <2>3, <2>4
<1> QED
  BY <1>3, <1>4

-----------------------------------------------------------------------------
(* What the loops give.  The order comes with them where it was there. *)
LEMMA SiftUpGives ==
    ASSUME NEW n \in Nat, NEW D, NEW L \in SUBSET D, NEW tt,
           NEW l \in Loops(n, D, L, tt), l.cur <= n
    PROVE  /\ SiftUp(l) \in Loops(n, D, L, tt)
           /\ UpOrdered(l, n) => Ordered(SiftUp(l), n)
<1> DEFINE S == {m \in Loops(n, D, L, tt) :
                    m.cur <= n /\ (UpOrdered(l, n) => UpOrdered(m, n))}
<1>1. l \in S
  OBVIOUS
<1>2. Len(l.h) = n
  BY LoopLen
<1>3. ASSUME NEW m \in S
      PROVE  m.cur \in Nat \ {0} /\ UpTurn(m) \in S /\ (UpTurn(m) = m \/ UpTurn(m).cur < m.cur)
  <2>1. m.cur \in Nat \ {0}
    BY DEF Loops
  <2> QED
    BY <2>1, UpTurnKeeps
<1>4. SiftUp(l) \in S /\ UpTurn(SiftUp(l)) = SiftUp(l)
  <2> HIDE DEF S
  <2> QED
    BY <1>1, <1>2, <1>3, SiftUpEnds
<1> QED
  BY <1>4, UpTurnKeeps

LEMMA SiftDownGives ==
    ASSUME NEW n \in Nat, NEW D, NEW L \in SUBSET D, NEW tt,
           NEW l \in Loops(n, D, L, tt)
    PROVE  /\ SiftDown(l) \in Loops(n, D, L, tt)
           /\ DownOrdered(l, n) => Ordered(SiftDown(l), n)
<1> DEFINE S == {m \in Loops(n, D, L, tt) : DownOrdered(l, n) => DownOrdered(m, n)}
<1>1. l \in S
  OBVIOUS
<1>2. Len(l.h) = n
  BY LoopLen
<1>3. ASSUME NEW m \in S
      PROVE  /\ m.cur \in Nat \ {0} /\ DownTurn(m) \in S
             /\ m.cur > n => DownTurn(m) = m
             /\ DownTurn(m) = m \/ DownTurn(m).cur > m.cur
  <2>1. m.cur \in Nat \ {0}
    BY DEF Loops
  <2> QED
    BY <2>1, DownTurnKeeps
<1>4. SiftDown(l) \in S /\ DownTurn(SiftDown(l)) = SiftDown(l)
  <2> HIDE DEF S
  <2> QED
    BY <1>1, <1>2, <1>3, SiftDownEnds
<1> QED
  BY <1>4, DownTurnKeeps

-----------------------------------------------------------------------------
(* The two operations on the heap. *)

(* An array of the timers L, out of the timers D, with the right positions. *)
IsIndexed(h, ts, n, D, L) ==
    /\ h \in [1 .. n -> L]
    /\ ts \in [D -> Timer]
    /\ Indexed(h, ts, n, L)

IsOrdered(h, ts, n) == \A k \in 2 .. n : ts[h[k \div 2]].at <= ts[h[k]].at

LEMMA LoopFromHeap ==
    ASSUME NEW n \in Nat, NEW D, NEW L, NEW h, NEW ts, NEW tt, NEW c \in 1 .. n + 1,
           IsIndexed(h, ts, n, D, L), SameTimers(ts, tt, D)
    PROVE  [h |-> h, ts |-> ts, cur |-> c] \in Loops(n, D, L, tt)
  BY DEF IsIndexed, Loops

LEMMA HeapFromLoop ==
    ASSUME NEW n \in Nat, NEW D, NEW L, NEW tt, NEW l \in Loops(n, D, L, tt)
    PROVE  /\ IsIndexed(l.h, l.ts, n, D, L)
           /\ SameTimers(l.ts, tt, D)
           /\ Ordered(l, n) => IsOrdered(l.h, l.ts, n)
  BY DEF IsIndexed, Loops, Ordered, IsOrdered, At

LEMMA InsertGives ==
    ASSUME NEW n \in Nat, NEW D, NEW L \in SUBSET D, NEW h, NEW ts,
           IsIndexed(h, ts, n, D, L), NEW id \in D \ L,
           NEW r, r = minHeapInsert(h, ts, id)
    PROVE  /\ IsIndexed(r.h, r.ts, n + 1, D, L \cup {id})
           /\ SameTimers(r.ts, ts, D)
           /\ IsOrdered(h, ts, n) => IsOrdered(r.h, r.ts, n + 1)
<1>1. h \in [1 .. n -> L] /\ ts \in [D -> Timer] /\ Indexed(h, ts, n, L)
  BY DEF IsIndexed
<1>2. Len(h) = n /\ h \in Seq(L)
  BY <1>1
<1> DEFINE hh == Append(h, id)
           uu == [ts EXCEPT ![id].pos = n + 1]
           l == [h |-> hh, ts |-> uu, cur |-> n + 1]
           M == L \cup {id}
<1>3. r = SiftUp(l)
  BY <1>2 DEF minHeapInsert
<1>4. hh \in [1 .. n + 1 -> M] /\ hh[n + 1] = id /\ \A k \in 1 .. n : hh[k] = h[k]
  <2>1. hh \in Seq(M) /\ Len(hh) = n + 1
    BY <1>2
  <2>2. hh \in [1 .. n + 1 -> M]
    <3> HIDE DEF hh, M
    <3> QED
      BY <2>1
  <2>3. hh[n + 1] = id /\ \A k \in 1 .. n : hh[k] = h[k]
    BY <1>2
  <2> QED
    BY <2>2, <2>3
<1>5. uu \in [D -> Timer]
  <2>1. [ts[id] EXCEPT !.pos = n + 1] \in Timer
    BY <1>1, SetPos
  <2> QED
    BY <1>1, <2>1
<1>6. /\ uu[id].pos = n + 1
      /\ \A x \in D : x # id => uu[x].pos = ts[x].pos
      /\ SameTimers(uu, ts, D)
  BY <1>1 DEF Timer, SameTimers
<1> HIDE DEF hh, uu
<1>7. Indexed(hh, uu, n + 1, M)
  <2>1. ASSUME NEW k \in 1 .. n + 1
        PROVE  uu[hh[k]].pos = k
    <3>1. CASE k = n + 1
      BY <3>1, <1>4, <1>6
    <3>2. CASE k # n + 1
      <4>1. k \in 1 .. n
        BY <3>2
      <4>2. hh[k] = h[k] /\ h[k] \in L
        BY <4>1, <1>1, <1>4
      <4> QED
        BY <4>1, <4>2, <1>1, <1>6 DEF Indexed
    <3> QED
      BY <3>1, <3>2
  <2>2. ASSUME NEW x \in M
        PROVE  uu[x].pos \in 1 .. n + 1 /\ hh[uu[x].pos] = x
    <3>1. CASE x = id
      BY <3>1, <1>4, <1>6
    <3>2. CASE x # id
      <4>1. x \in L /\ uu[x].pos = ts[x].pos
        BY <3>2, <1>6
      <4>2. ts[x].pos \in 1 .. n /\ h[ts[x].pos] = x
        BY <4>1, <1>1 DEF Indexed
      <4> QED
        BY <4>1, <4>2, <1>4
    <3> QED
      BY <3>1, <3>2
  <2> QED
    BY <2>1, <2>2 DEF Indexed
<1>8. M \in SUBSET D
  OBVIOUS
<1>9. l \in Loops(n + 1, D, M, ts) /\ l.cur <= n + 1
  <2>1. IsIndexed(hh, uu, n + 1, D, M) /\ n + 1 \in 1 .. (n + 1) + 1 /\ n + 1 \in Nat
    BY <1>4, <1>5, <1>7 DEF IsIndexed
  <2> HIDE DEF M
  <2>2. l \in Loops(n + 1, D, M, ts)
    BY <2>1, <1>6, LoopFromHeap
  <2> QED
    BY <2>2
<1>10. ASSUME IsOrdered(h, ts, n)
       PROVE  UpOrdered(l, n + 1)
  <2>1. ASSUME NEW k \in 2 .. n + 1, k # n + 1
        PROVE  At(l, k \div 2) <= At(l, k)
    <3>1. k \in 2 .. n /\ k \div 2 \in 1 .. n
      BY <2>1, Half
    <3>2. PICK q \in 1 .. n : q = k \div 2
      BY <3>1
    <3>3. ts[h[q]].at <= ts[h[k]].at
      BY <3>1, <3>2, <1>10 DEF IsOrdered
    <3>4. hh[q] = h[q] /\ hh[k] = h[k] /\ h[q] \in D /\ h[k] \in D
      BY <3>1, <1>1, <1>4
    <3>5. uu[h[q]].at = ts[h[q]].at /\ uu[h[k]].at = ts[h[k]].at
      BY <3>4, <1>6 DEF SameTimers
    <3> QED
      BY <3>2, <3>3, <3>4, <3>5 DEF At
  <2>2. ASSUME NEW k \in 2 .. n + 1
        PROVE  k \div 2 # n + 1
    BY Half
  <2> QED
    BY <2>1, <2>2 DEF UpOrdered, AroundHole
<1> HIDE DEF l, M
<1>11. PICK N \in Nat : N = n + 1
  OBVIOUS
<1>12. r \in Loops(N, D, M, ts) /\ (IsOrdered(h, ts, n) => Ordered(r, N))
  BY <1>3, <1>8, <1>9, <1>10, <1>11, SiftUpGives
<1>13. IsIndexed(r.h, r.ts, N, D, M) /\ SameTimers(r.ts, ts, D)
       /\ (Ordered(r, N) => IsOrdered(r.h, r.ts, N))
  BY <1>12, HeapFromLoop
<1> QED
  BY <1>11, <1>12, <1>13 DEF M

(* The timer that fills the hole id leaves is not due before the parent of
   the hole: minHeapErase, which only moves it down, is then right. *)
Fits(h, ts, n, id) ==
    ts[id].pos >= 2 => ts[h[ts[id].pos \div 2]].at <= ts[h[n]].at

LEMMA EraseGives ==
    ASSUME NEW n \in Nat \ {0}, NEW D, NEW L \in SUBSET D, NEW h, NEW ts,
           IsIndexed(h, ts, n, D, L), NEW id \in L,
           NEW r, r = minHeapErase(h, ts, id)
    PROVE  /\ IsIndexed(r.h, r.ts, n - 1, D, L \ {id})
           /\ SameTimers(r.ts, ts, D)
           /\ IsOrdered(h, ts, n) /\ Fits(h, ts, n, id) => IsOrdered(r.h, r.ts, n - 1)
<1>1. h \in [1 .. n -> L] /\ ts \in [D -> Timer] /\ Indexed(h, ts, n, L)
  BY DEF IsIndexed
<1>2. Len(h) = n /\ h \in Seq(L)
  BY <1>1
<1>3. PICK c \in 1 .. n : c = ts[id].pos /\ h[c] = id
  BY <1>1 DEF Indexed
<1>4. PICK x \in L : x = h[n]
  BY <1>1
<1>5. PICK N \in Nat : N = n - 1
  OBVIOUS
<1> DEFINE hh == FillHole(h, c)
           uu == [ts EXCEPT ![id].pos = -1, ![x].pos = c]
           l == [h |-> hh, ts |-> uu, cur |-> c]
           M == L \ {id}
<1>6. r = SiftDown(l)
  BY <1>2, <1>3, <1>4 DEF minHeapErase
<1>7. x = id <=> c = n
  BY <1>1, <1>3, <1>4 DEF Indexed
<1>8. hh \in [1 .. N -> L] /\ \A k \in 1 .. N : hh[k] = IF k = c THEN x ELSE h[k]
  <2> DEFINE g == [h EXCEPT ![c] = h[Len(h)]]
  <2>1. hh = SubSeq(g, 1, n - 1)
    BY <1>2 DEF FillHole
  <2>2. g \in [1 .. n -> L] /\ \A k \in 1 .. n : g[k] = IF k = c THEN x ELSE h[k]
    BY <1>1, <1>2, <1>4
  <2> HIDE DEF g
  <2>3. g \in Seq(L) /\ Len(g) = n
    BY <2>2
  <2>4. Len(hh) = N /\ \A k \in 1 .. N : hh[k] = g[k]
    BY <2>1, <2>3, <1>5
  <2>5. hh \in Seq(L)
    BY <2>1, <2>3, <1>5
  <2>6. hh \in [1 .. N -> L]
    BY <2>4, <2>5
  <2> QED
    BY <2>2, <2>4, <2>6, <1>5
<1>9. uu \in [D -> Timer]
  <2> DEFINE vv == [ts EXCEPT ![id] = [@ EXCEPT !.pos = -1]]
  <2>1. vv \in [D -> Timer]
    <3>1. [ts[id] EXCEPT !.pos = -1] \in Timer
      BY <1>1, SetPos
    <3> QED
      BY <1>1, <3>1
  <2>2. uu = [vv EXCEPT ![x] = [@ EXCEPT !.pos = c]]
    OBVIOUS
  <2> HIDE DEF vv
  <2>3. [vv[x] EXCEPT !.pos = c] \in Timer
    BY <2>1, SetPos
  <2> QED
    BY <2>1, <2>2, <2>3
<1>10. /\ uu[x].pos = c
       /\ \A y \in D : y # id /\ y # x => uu[y].pos = ts[y].pos
       /\ SameTimers(uu, ts, D)
  BY <1>1 DEF Timer, SameTimers
<1> HIDE DEF hh, uu
<1>11. ASSUME NEW k \in 1 .. N, k # c
       PROVE  hh[k] = h[k] /\ h[k] \in M /\ h[k] # x
  BY <1>1, <1>3, <1>4, <1>5, <1>8, <1>11 DEF Indexed
<1>12. ASSUME c \in 1 .. N
       PROVE  hh[c] = x /\ x \in M
  BY <1>5, <1>7, <1>8, <1>12
<1>13. hh \in [1 .. N -> M]
  <2>1. \A k \in 1 .. N : hh[k] \in M
    BY <1>11, <1>12
  <2>2. hh = [k \in 1 .. N |-> hh[k]]
    BY <1>8
  <2> QED
    BY <2>1, <2>2
<1>14. Indexed(hh, uu, N, M)
  <2>1. ASSUME NEW k \in 1 .. N
        PROVE  uu[hh[k]].pos = k
    <3>1. CASE k = c
      BY <3>1, <1>10, <1>12
    <3>2. CASE k # c
      <4>1. hh[k] = h[k] /\ h[k] \in D /\ h[k] # id /\ h[k] # x
        BY <3>2, <1>11
      <4>2. k \in 1 .. n
        BY <1>5
      <4> QED
        BY <4>1, <4>2, <1>1, <1>10 DEF Indexed
    <3> QED
      BY <3>1, <3>2
  <2>2. ASSUME NEW y \in M
        PROVE  uu[y].pos \in 1 .. N /\ hh[uu[y].pos] = y
    <3>1. CASE y = x
      <4>1. c \in 1 .. N
        BY <3>1, <1>5, <1>7
      <4> QED
        BY <3>1, <4>1, <1>10, <1>12
    <3>2. CASE y # x
      <4>1. PICK k \in 1 .. n : k = ts[y].pos /\ h[k] = y
        BY <1>1 DEF Indexed
      <4>2. k # n /\ k # c
        BY <3>2, <4>1, <1>3, <1>4
      <4>3. k \in 1 .. N
        BY <4>2, <1>5
      <4> QED
        BY <3>2, <4>1, <4>2, <4>3, <1>10, <1>11
    <3> QED
      BY <3>1, <3>2
  <2> QED
    BY <2>1, <2>2 DEF Indexed
<1>15. l \in Loops(N, D, M, ts)
  <2>1. IsIndexed(hh, uu, N, D, M) /\ c \in 1 .. N + 1
    BY <1>5, <1>9, <1>13, <1>14 DEF IsIndexed
  <2> HIDE DEF M
  <2> QED
    BY <2>1, <1>10, LoopFromHeap
<1>16. ASSUME IsOrdered(h, ts, n), Fits(h, ts, n, id)
       PROVE  DownOrdered(l, N)
  <2>1. \A k \in 1 .. n : ts[h[k]].at \in Int
    BY <1>1 DEF Timer
  <2>2. ASSUME NEW k \in 1 .. N
        PROVE  At(l, k) = IF k = c THEN ts[x].at ELSE ts[h[k]].at
    <3>1. At(l, k) = uu[hh[k]].at
      BY DEF At
    <3>2. hh[k] \in D /\ hh[k] = IF k = c THEN x ELSE h[k]
      BY <1>8, <1>13
    <3>3. uu[hh[k]].at = ts[hh[k]].at
      BY <3>2, <1>10 DEF SameTimers
    <3> QED
      BY <3>1, <3>2, <3>3
  <2>3. ASSUME NEW k \in 2 .. N, k \div 2 # c
        PROVE  At(l, k \div 2) <= At(l, k)
    <3>1. PICK q \in 1 .. N : q = k \div 2
      BY Half
    <3>2. k \in 2 .. n /\ k \in 1 .. N
      BY <1>5
    <3>3. CASE k = c
      <4>1. ts[h[q]].at <= ts[x].at
        BY <3>1, <3>2, <3>3, <1>3, <1>4, <1>16 DEF Fits
      <4> QED
        BY <4>1, <3>1, <3>2, <3>3, <2>2, <2>3
    <3>4. CASE k # c
      <4>1. ts[h[q]].at <= ts[h[k]].at
        BY <3>1, <3>2, <1>16 DEF IsOrdered
      <4> QED
        BY <4>1, <3>1, <3>2, <3>4, <2>2, <2>3
    <3> QED
      BY <3>3, <3>4
  <2>4. ASSUME NEW k \in 2 .. N, k \div 2 = c, c >= 2
        PROVE  At(l, c \div 2) <= At(l, k)
    <3>1. PICK q \in 1 .. N : q = c \div 2 /\ q # c
      BY <2>4, Half
    <3>2. k # c /\ k \in 2 .. n /\ k \in 1 .. N /\ c \in 2 .. n
      BY <2>4, <1>5, Half
    <3>3. ts[h[q]].at <= ts[h[c]].at /\ ts[h[c]].at <= ts[h[k]].at
      BY <3>1, <3>2, <2>4, <1>16 DEF IsOrdered
    <3>4. ts[h[q]].at <= ts[h[k]].at
      BY <3>2, <3>3, <2>1, <1>5
    <3> QED
      BY <3>1, <3>2, <3>4, <2>2
  <2> QED
    BY <2>3, <2>4 DEF DownOrdered, AroundHole
<1> HIDE DEF l
<1>17. M \in SUBSET D
  OBVIOUS
<1> HIDE DEF M
<1>18. r \in Loops(N, D, M, ts)
       /\ (IsOrdered(h, ts, n) /\ Fits(h, ts, n, id) => Ordered(r, N))
  BY <1>6, <1>15, <1>16, <1>17, SiftDownGives
<1>19. IsIndexed(r.h, r.ts, N, D, M) /\ SameTimers(r.ts, ts, D)
       /\ (Ordered(r, N) => IsOrdered(r.h, r.ts, N))
  BY <1>18, HeapFromLoop
<1> QED
  BY <1>5, <1>18, <1>19 DEF M

-----------------------------------------------------------------------------
(* The state.  The map and the array hold the same timers, and the          *)
(* positions are right whenever no operation is under way.                  *)

IndexInv ==
    /\ pc \in {"sleep", "app", "check", "callback"}
    /\ now \in Nat /\ fired \in [at : Int, timeout : Nat]
    /\ Live \subseteq Ids
    /\ heap \in Seq(Live)
    /\ IsIndexed(heap, timers, Len(heap), Live, Live)

(* An int holds the number: the conversion leaves it as it is. *)
LEMMA ToIntIs ==
    ASSUME NEW x \in Int
    PROVE  ToInt(x) \in Int /\ (x \in 0 .. INT_MAX => ToInt(x) = x)
<1>1. PICK N \in Nat : N = INT_MAX
  BY TimerAssumption
<1>2. PICK m \in Nat \ {0} : m = 2 * N + 2
  OBVIOUS
<1>3. PICK y \in Int : y = x + N + 1
  OBVIOUS
<1>4. y % m \in Int /\ (y \in 0 .. m - 1 => y % m = y)
  OBVIOUS
<1>5. ToInt(x) = (y % m) - (N + 1)
  BY <1>1, <1>2, <1>3 DEF ToInt
<1> QED
  BY <1>1, <1>2, <1>3, <1>4, <1>5

LEMMA FromIndexed ==
    ASSUME NEW n \in Nat, NEW D, NEW h, NEW ts, IsIndexed(h, ts, n, D, D)
    PROVE  Len(h) = n /\ h \in Seq(D) /\ DOMAIN ts = D
  BY DEF IsIndexed

LEMMA IndexedInHeap == IndexInv => HeapIndexed
<1> SUFFICES ASSUME IndexInv
             PROVE  HeapIndexed
  OBVIOUS
<1>1. PICK n \in Nat : n = Len(heap)
  BY DEF IndexInv
<1>2. heap \in [1 .. n -> Live] /\ Indexed(heap, timers, n, Live)
  BY <1>1 DEF IndexInv, IsIndexed
<1>3. \A i \in 1 .. n : heap[i] \in Live /\ timers[heap[i]].pos = i
  BY <1>2 DEF Indexed
<1>4. heap \in Bijection(1 .. n, Live)
  <2>1. heap \in Injection(1 .. n, Live)
    BY <1>2, <1>3 DEF Injection, IsInjective
  <2>2. heap \in Surjection(1 .. n, Live)
    <3>1. \A x \in Live : timers[x].pos \in 1 .. n /\ heap[timers[x].pos] = x
      BY <1>2 DEF Indexed
    <3> QED
      BY <1>2, <3>1 DEF Surjection
  <2> QED
    BY <2>1, <2>2 DEF Bijection
<1>5. ExistsBijection(1 .. n, Live)
  BY <1>4 DEF ExistsBijection
<1>6. Cardinality(Live) = n
  BY <1>5, FS_CountingElements
<1> QED
  BY <1>1, <1>3, <1>6 DEF HeapIndexed

(* No more timers than ids. *)
LEMMA AtMostMaxTimers == IndexInv => Len(heap) <= MaxTimers
<1> SUFFICES ASSUME IndexInv
             PROVE  Len(heap) <= MaxTimers
  OBVIOUS
<1>1. Cardinality(Live) = Len(heap)
  BY IndexedInHeap DEF HeapIndexed
<1>2. IsFiniteSet(Ids) /\ Cardinality(Ids) = MaxTimers
  BY FS_Interval, TimerAssumption DEF Ids
<1>3. Cardinality(Live) <= Cardinality(Ids)
  BY <1>2, FS_Subset DEF IndexInv
<1> QED
  BY <1>1, <1>2, <1>3

LEMMA InitIndexed == Init => IndexInv
<1> SUFFICES ASSUME Init
             PROVE  IndexInv
  OBVIOUS
<1>1. heap = <<>> /\ timers = <<>> /\ Live = {}
  BY DEF Init, Live
<1>2. Len(heap) = 0 /\ heap \in Seq(Live) /\ heap \in [1 .. 0 -> Live] /\ timers \in [{} -> Timer]
  BY <1>1
<1>3. IsIndexed(heap, timers, 0, {}, {})
  BY <1>1, <1>2 DEF IsIndexed, Indexed
<1> QED
  BY <1>1, <1>2, <1>3 DEF IndexInv, Init

LEMMA OrderIsMinHeap ==
    ASSUME NEW n \in Nat, n = Len(heap)
    PROVE  MinHeap <=> IsOrdered(heap, timers, n)
  BY DEF MinHeap, IsOrdered

(* The map without id. *)
LEMMA ForgetGives ==
    ASSUME NEW n \in Nat, NEW D, NEW id \in D, NEW h, NEW ts,
           IsIndexed(h, ts, n, D, D \ {id})
    PROVE  /\ IsIndexed(h, Forget(ts, id), n, D \ {id}, D \ {id})
           /\ \A x \in D \ {id} : Forget(ts, id)[x] = ts[x]
           /\ IsOrdered(h, ts, n) => IsOrdered(h, Forget(ts, id), n)
<1> DEFINE M == D \ {id}
<1>1. h \in [1 .. n -> M] /\ ts \in [D -> Timer] /\ Indexed(h, ts, n, M)
  BY DEF IsIndexed
<1>2. Forget(ts, id) = [x \in M |-> ts[x]]
  BY <1>1 DEF Forget
<1>3. PICK uu : uu = Forget(ts, id)
  OBVIOUS
<1>4. uu \in [M -> Timer] /\ \A x \in M : uu[x] = ts[x]
  BY <1>1, <1>2, <1>3
<1>5. Indexed(h, uu, n, M)
  BY <1>1, <1>4 DEF Indexed
<1>6. ASSUME IsOrdered(h, ts, n)
      PROVE  IsOrdered(h, uu, n)
  <2>1. \A k \in 2 .. n : k \in 1 .. n /\ k \div 2 \in 1 .. n
    BY Half
  <2>2. \A k \in 1 .. n : uu[h[k]] = ts[h[k]]
    BY <1>1, <1>4
  <2> QED
    BY <2>1, <2>2, <1>6 DEF IsOrdered
<1> QED
  BY <1>1, <1>3, <1>4, <1>5, <1>6 DEF IsIndexed

SameTime(t, u) == t.at = u.at /\ t.timeout = u.timeout

LEMMA AddEffect ==
    ASSUME IndexInv, NEW id \in Ids, NEW delay \in Delays, NEW times \in CallTimes,
           addTimer(id, delay, times)
    PROVE  /\ IndexInv' /\ (MinHeap => MinHeap')
           /\ Live' = Live \cup {id}
           /\ \A x \in Live : SameTime(timers'[x], timers[x])
           /\ \E timeout \in Nat : /\ timers'[id].at = now + timeout * Res
                                   /\ timers'[id].timeout = timeout
<1>1. PICK n \in Nat : n = Len(heap)
  BY DEF IndexInv
<1>2. PICK timeout \in Nat : timeout = IF delay < 0 THEN 0 ELSE delay
  BY TimerAssumption
<1>3. PICK a \in Int : a = now + timeout * Res
  BY TimerAssumption DEF IndexInv
<1> DEFINE timer == [at |-> a, timeout |-> timeout, left |-> times, pos |-> -1]
           D == Live \cup {id}
           ts == [x \in D |-> IF x = id THEN timer ELSE timers[x]]
<1>4. timer \in Timer
  BY TimerAssumption DEF Timer
<1>5. PICK r : r = minHeapInsert(heap, ts, id)
  OBVIOUS
<1>6. heap' = r.h /\ timers' = r.ts /\ UNCHANGED <<pc, now, fired>> /\ id \notin Live
  BY <1>2, <1>3, <1>5 DEF addTimer
<1>7. heap \in [1 .. n -> Live] /\ timers \in [Live -> Timer] /\ Indexed(heap, timers, n, Live)
  BY <1>1 DEF IndexInv, IsIndexed
<1>8. ts \in [D -> Timer] /\ ts[id] = timer /\ \A x \in Live : ts[x] = timers[x]
  BY <1>4, <1>6, <1>7
<1> HIDE DEF ts
<1>9. IsIndexed(heap, ts, n, D, Live)
  BY <1>7, <1>8 DEF IsIndexed, Indexed
<1>10. IsOrdered(heap, timers, n) => IsOrdered(heap, ts, n)
  <2>1. \A k \in 2 .. n : k \in 1 .. n /\ k \div 2 \in 1 .. n
    BY Half
  <2>2. \A k \in 1 .. n : ts[heap[k]] = timers[heap[k]]
    BY <1>7, <1>8
  <2> QED
    BY <2>1, <2>2 DEF IsOrdered
<1>11. /\ IsIndexed(r.h, r.ts, n + 1, D, D)
       /\ SameTimers(r.ts, ts, D)
       /\ IsOrdered(heap, ts, n) => IsOrdered(r.h, r.ts, n + 1)
  <2>1. id \in D \ Live /\ Live \in SUBSET D
    BY <1>6
  <2>2. D = Live \cup {id}
    OBVIOUS
  <2> HIDE DEF D
  <2> QED
    BY <2>1, <2>2, <1>5, <1>9, InsertGives
<1>12. n + 1 \in Nat
  OBVIOUS
<1>13. Len(heap') = n + 1 /\ heap' \in Seq(D) /\ Live' = D
  BY <1>6, <1>11, <1>12, FromIndexed DEF Live
<1>14. IndexInv'
  <2>1. IsIndexed(heap, timers, Len(heap), Live, Live)'
    BY <1>6, <1>11, <1>13 DEF IsIndexed
  <2> QED
    BY <2>1, <1>6, <1>13 DEF IndexInv
<1>15. MinHeap => MinHeap'
  <2>1. MinHeap <=> IsOrdered(heap, timers, n)
    BY <1>1, OrderIsMinHeap
  <2>2. IsOrdered(r.h, r.ts, n + 1) => MinHeap'
    BY <1>6, <1>13 DEF MinHeap, IsOrdered
  <2> QED
    BY <2>1, <2>2, <1>10, <1>11
<1>16. \A x \in Live : SameTime(timers'[x], timers[x])
  BY <1>6, <1>8, <1>11 DEF SameTimers, SameTime
<1>17. timers'[id].at = a /\ timers'[id].timeout = timeout
  BY <1>6, <1>8, <1>11 DEF SameTimers
<1> QED
  BY <1>3, <1>13, <1>14, <1>15, <1>16, <1>17

(* The hole id leaves is filled by a timer that may stand there. *)
HoleFits(id) == Fits(heap, timers, Len(heap), id)

LEMMA RemoveEffect ==
    ASSUME IndexInv, NEW id \in Ids, removeTimer(id)
    PROVE  /\ IndexInv' /\ (MinHeap /\ HoleFits(id) => MinHeap')
           /\ Live' = Live \ {id}
           /\ \A x \in Live' : SameTime(timers'[x], timers[x])
<1>1. PICK n \in Nat : n = Len(heap)
  BY DEF IndexInv
<1>2. PICK r : r = minHeapErase(heap, timers, id)
  OBVIOUS
<1>3. /\ heap' = r.h /\ timers' = Forget(r.ts, id)
      /\ UNCHANGED <<pc, now, fired>> /\ id \in Live
  BY <1>2 DEF removeTimer
<1>4. IsIndexed(heap, timers, n, Live, Live)
  BY <1>1 DEF IndexInv
<1>5. n # 0
  BY <1>3, <1>4 DEF IsIndexed, Indexed
<1>6. PICK D : D = Live
  OBVIOUS
<1>7. /\ IsIndexed(r.h, r.ts, n - 1, D, D \ {id})
      /\ SameTimers(r.ts, timers, D)
      /\ IsOrdered(heap, timers, n) /\ Fits(heap, timers, n, id) => IsOrdered(r.h, r.ts, n - 1)
  <2>1. n \in Nat \ {0} /\ D \in SUBSET D /\ IsIndexed(heap, timers, n, D, D) /\ id \in D
    BY <1>3, <1>4, <1>5, <1>6
  <2> QED
    BY <2>1, <1>2, EraseGives
<1>8. PICK N \in Nat : N = n - 1
  BY <1>5
<1>9. /\ IsIndexed(heap', timers', N, D \ {id}, D \ {id})
      /\ \A x \in D \ {id} : timers'[x] = r.ts[x]
      /\ IsOrdered(r.h, r.ts, N) => IsOrdered(heap', timers', N)
  <2>1. id \in D /\ IsIndexed(r.h, r.ts, N, D, D \ {id})
    BY <1>3, <1>6, <1>7, <1>8
  <2>2. PICK h, ts : h = r.h /\ ts = r.ts
    OBVIOUS
  <2>3. /\ IsIndexed(h, Forget(ts, id), N, D \ {id}, D \ {id})
        /\ \A x \in D \ {id} : Forget(ts, id)[x] = ts[x]
        /\ IsOrdered(h, ts, N) => IsOrdered(h, Forget(ts, id), N)
    <3>1. IsIndexed(h, ts, N, D, D \ {id})
      BY <2>1, <2>2
    <3> QED
      BY <3>1, <2>1, ForgetGives
  <2> QED
    BY <2>2, <2>3, <1>3, Zenon
<1>10. Len(heap') = N /\ heap' \in Seq(D \ {id}) /\ Live' = D \ {id}
  BY <1>9, FromIndexed DEF Live
<1>11. IndexInv'
  <2>1. IsIndexed(heap, timers, Len(heap), Live, Live)'
    BY <1>9, <1>10 DEF IsIndexed
  <2> QED
    BY <2>1, <1>3, <1>6, <1>10 DEF IndexInv
<1>12. ASSUME MinHeap, HoleFits(id)
       PROVE  MinHeap'
  <2>1. IsOrdered(heap, timers, n) /\ Fits(heap, timers, n, id)
    BY <1>1, <1>12, OrderIsMinHeap DEF HoleFits
  <2>2. IsOrdered(heap', timers', N)
    BY <2>1, <1>7, <1>8, <1>9
  <2> QED
    BY <2>2, <1>10 DEF MinHeap, IsOrdered
<1>13. \A x \in Live' : SameTime(timers'[x], timers[x])
  BY <1>7, <1>9, <1>10 DEF SameTimers, SameTime
<1> QED
  BY <1>6, <1>10, <1>11, <1>12, <1>13

(* One turn of checkTimeout: the top leaves the array, and comes back its
   timeout later, or is deleted. *)
Later(t, u) == t.at = u.at + ToInt(u.timeout) * Res /\ t.timeout = u.timeout

LEMMA FireEffect ==
    ASSUME IndexInv, Fire
    PROVE  /\ IndexInv' /\ (MinHeap => MinHeap')
           /\ heap[1] \in Live
           /\ fired' = [at |-> timers[heap[1]].at, timeout |-> timers[heap[1]].timeout]
           /\ Live' \subseteq Live
           /\ \A x \in Live' : IF x = heap[1] THEN Later(timers'[x], timers[x])
                                              ELSE SameTime(timers'[x], timers[x])
<1>1. PICK n \in Nat : n = Len(heap)
  BY DEF IndexInv
<1>2. PICK D : D = Live
  OBVIOUS
<1>3. IsIndexed(heap, timers, n, D, D)
  BY <1>1, <1>2 DEF IndexInv
<1>4. n # 0
  BY <1>1 DEF Fire, IndexInv
<1>5. PICK id \in D : id = heap[1] /\ timers[id].pos = 1
  BY <1>3, <1>4 DEF IsIndexed, Indexed
<1>6. PICK timer \in Timer : timer = timers[id]
  BY <1>3 DEF IsIndexed
<1>7. PICK s : s = minHeapErase(heap, timers, id)
  OBVIOUS
<1>8. PICK N \in Nat : N = n - 1
  BY <1>4
<1>9. /\ IsIndexed(s.h, s.ts, N, D, D \ {id})
      /\ SameTimers(s.ts, timers, D)
      /\ IsOrdered(heap, timers, n) => IsOrdered(s.h, s.ts, N)
  <2>1. n \in Nat \ {0} /\ D \in SUBSET D
    BY <1>4
  <2>2. Fits(heap, timers, n, id)
    BY <1>5 DEF Fits
  <2> QED
    BY <2>1, <2>2, <1>3, <1>7, <1>8, EraseGives
<1>10. PICK h, ts : h = s.h /\ ts = s.ts
  OBVIOUS
<1> DEFINE again == [ts EXCEPT ![id].left = IF @ > 0 THEN @ - 1 ELSE @,
                               ![id].at = @ + ToInt(timer.timeout) * Res]
<1>11. PICK r : r = minHeapInsert(h, again, id)
  OBVIOUS
<1>12. /\ fired' = [at |-> timer.at, timeout |-> timer.timeout] /\ pc' = "callback" /\ now' = now
       /\ IF timer.left = 1
          THEN heap' = h /\ timers' = Forget(ts, id)
          ELSE heap' = r.h /\ timers' = r.ts
  BY <1>5, <1>6, <1>7, <1>10, <1>11 DEF Fire, minHeapTop
<1>13. timer.at \in Int /\ timer.timeout \in Nat
  BY DEF Timer
<1>14. IsIndexed(h, ts, N, D, D \ {id}) /\ SameTimers(ts, timers, D)
  BY <1>9, <1>10
<1>15. \A x \in D : /\ SameTime(ts[x], timers[x]) /\ timers[x].at \in Int
                    /\ timers[x].timeout \in Nat
  BY <1>3, <1>14 DEF SameTimers, IsIndexed, Timer, SameTime
<1>16. CASE timer.left = 1
  <2>1. heap' = h /\ timers' = Forget(ts, id)
    BY <1>12, <1>16
  <2>2. /\ IsIndexed(h, Forget(ts, id), N, D \ {id}, D \ {id})
        /\ \A x \in D \ {id} : Forget(ts, id)[x] = ts[x]
        /\ IsOrdered(h, ts, N) => IsOrdered(h, Forget(ts, id), N)
    BY <1>14, ForgetGives
  <2>3. IsIndexed(heap', timers', N, D \ {id}, D \ {id})
    BY <2>1, <2>2
  <2>4. Len(heap') = N /\ heap' \in Seq(D \ {id}) /\ Live' = D \ {id}
    BY <2>3, FromIndexed DEF Live
  <2>5. IndexInv'
    <3>1. IsIndexed(heap, timers, Len(heap), Live, Live)'
      BY <2>3, <2>4 DEF IsIndexed
    <3> QED
      BY <3>1, <2>4, <1>2, <1>12, <1>13 DEF IndexInv
  <2>6. ASSUME MinHeap
        PROVE  MinHeap'
    <3>1. IsOrdered(heap, timers, n)
      BY <2>6, <1>1, OrderIsMinHeap
    <3>2. IsOrdered(heap', timers', N)
      BY <3>1, <2>1, <2>2, <1>9, <1>10
    <3> QED
      BY <3>2, <2>4 DEF MinHeap, IsOrdered
  <2>7. \A x \in Live' : x # heap[1] /\ SameTime(timers'[x], timers[x])
    BY <2>1, <2>2, <2>4, <1>5, <1>15
  <2> QED
    BY <2>4, <2>5, <2>6, <2>7, <1>2, <1>5, <1>6, <1>12
<1>17. CASE timer.left # 1
  <2>1. heap' = r.h /\ timers' = r.ts
    BY <1>12, <1>17
  <2>2. h \in [1 .. N -> D \ {id}] /\ ts \in [D -> Timer] /\ Indexed(h, ts, N, D \ {id})
    BY <1>14 DEF IsIndexed
  <2>3. PICK a \in Int : a = timer.at + ToInt(timer.timeout) * Res
    <3>1. PICK k \in Int : k = ToInt(timer.timeout)
      BY <1>13, ToIntIs
    <3>2. k * Res \in Int
      BY TimerAssumption
    <3> QED
      BY <3>1, <3>2, <1>13
  <2>4. again[id] \in Timer /\ again[id].at = a /\ again[id].timeout = timer.timeout
        /\ again[id].pos = ts[id].pos
        /\ \A x \in D \ {id} : again[x] = ts[x]
    <3>1. PICK t \in Timer : t = ts[id] /\ t.at = timer.at /\ t.timeout = timer.timeout
      BY <2>2, <1>6, <1>15 DEF SameTime
    <3>2. PICK b \in Nat, c \in Int, d \in Int :
              /\ t = [at |-> timer.at, timeout |-> b, left |-> c, pos |-> d]
              /\ b = timer.timeout
      BY <3>1 DEF Timer
    <3>3. PICK left \in Int : left = IF c > 0 THEN c - 1 ELSE c
      OBVIOUS
    <3>4. again[id] = [at |-> timer.at + ToInt(timer.timeout) * Res, timeout |-> b,
                       left |-> left, pos |-> d]
      <4>1. PICK u : u = [t EXCEPT !.left = left]
        OBVIOUS
      <4>2. u = [at |-> timer.at, timeout |-> b, left |-> left, pos |-> d]
        BY <4>1, <3>2
      <4>3. again[id] = [[t EXCEPT !.left = IF @ > 0 THEN @ - 1 ELSE @]
                            EXCEPT !.at = @ + ToInt(timer.timeout) * Res]
        BY <2>2, <3>1
      <4>4. [t EXCEPT !.left = IF @ > 0 THEN @ - 1 ELSE @] = u
        BY <4>1, <3>2, <3>3
      <4>5. again[id] = [u EXCEPT !.at = @ + ToInt(timer.timeout) * Res]
        BY <4>3, <4>4
      <4> HIDE DEF again
      <4> QED
        BY <4>5, <4>2
    <3>5. again[id] = [at |-> a, timeout |-> b, left |-> left, pos |-> d]
      BY <3>4, <2>3
    <3>6. \A x \in D \ {id} : again[x] = ts[x]
      BY <2>2
    <3>7. ts[id].pos = d
      BY <3>1, <3>2
    <3> HIDE DEF again
    <3>8. again[id] \in Timer
      BY <3>5 DEF Timer
    <3>9. again[id].at = a /\ again[id].timeout = timer.timeout /\ again[id].pos = d
      BY <3>2, <3>5
    <3> QED
      BY <3>6, <3>7, <3>8, <3>9
  <2>5. again \in [D -> Timer]
    <3>1. DOMAIN again = D
      BY <2>2
    <3>2. \A x \in D : again[x] \in Timer
      BY <2>2, <2>4
    <3>3. again = [x \in D |-> again[x]]
      BY <3>1, <2>2
    <3> HIDE DEF again
    <3> QED
      BY <3>2, <3>3
  <2> HIDE DEF again
  <2>6. IsIndexed(h, again, N, D, D \ {id})
    BY <2>2, <2>4, <2>5 DEF IsIndexed, Indexed
  <2>7. IsOrdered(h, ts, N) => IsOrdered(h, again, N)
    <3>1. \A k \in 2 .. N : k \in 1 .. N /\ k \div 2 \in 1 .. N
      BY Half
    <3>2. \A k \in 1 .. N : again[h[k]] = ts[h[k]]
      BY <2>2, <2>4
    <3> QED
      BY <3>1, <3>2 DEF IsOrdered
  <2>8. PICK L \in SUBSET D : L = D \ {id} /\ id \in D \ L /\ L \cup {id} = D
    <3>1. D \ {id} \in SUBSET D /\ id \in D \ (D \ {id}) /\ (D \ {id}) \cup {id} = D
      OBVIOUS
    <3> QED
      BY <3>1, Zenon
  <2>9. /\ IsIndexed(r.h, r.ts, N + 1, D, L \cup {id})
        /\ SameTimers(r.ts, again, D)
        /\ IsOrdered(h, again, N) => IsOrdered(r.h, r.ts, N + 1)
    <3>1. IsIndexed(h, again, N, D, L)
      BY <2>6, <2>8
    <3> QED
      BY <3>1, <2>8, <1>11, InsertGives
  <2>10. IsIndexed(heap', timers', n, D, D) /\ N + 1 = n
    BY <2>1, <2>8, <2>9, <1>8
  <2>11. Len(heap') = n /\ heap' \in Seq(D) /\ Live' = D
    BY <2>10, FromIndexed DEF Live
  <2>12. IndexInv'
    <3>1. IsIndexed(heap, timers, Len(heap), Live, Live)'
      BY <2>10, <2>11 DEF IsIndexed
    <3> QED
      BY <3>1, <2>11, <1>2, <1>12, <1>13 DEF IndexInv
  <2>13. ASSUME MinHeap
         PROVE  MinHeap'
    <3>1. IsOrdered(heap, timers, n)
      BY <2>13, <1>1, OrderIsMinHeap
    <3>2. IsOrdered(h, ts, N)
      BY <3>1, <1>9, <1>10
    <3>3. IsOrdered(heap', timers', n)
      BY <3>2, <2>1, <2>7, <2>9, <2>10
    <3> QED
      BY <3>3, <2>11 DEF MinHeap, IsOrdered
  <2>14. \A x \in Live' : IF x = heap[1] THEN Later(timers'[x], timers[x])
                                           ELSE SameTime(timers'[x], timers[x])
    <3>1. \A x \in D : SameTime(timers'[x], again[x])
      BY <2>1, <2>9 DEF SameTimers, SameTime
    <3>2. Later(again[id], timers[id])
      BY <2>3, <2>4, <1>6 DEF Later
    <3>3. \A x \in D \ {id} : SameTime(again[x], timers[x])
      BY <2>4, <1>15
    <3> QED
      BY <3>1, <3>2, <3>3, <2>11, <1>5 DEF SameTime, Later
  <2> QED
    BY <2>11, <2>12, <2>13, <2>14, <1>2, <1>5, <1>6, <1>12
<1> QED
  BY <1>16, <1>17

(* The other steps leave the heap alone. *)
LEMMA QuietEffect ==
    ASSUME IndexInv,
           (\E t \in 0 .. MaxNow : Sleep(t)) \/ BeginCheck \/ EndCallback \/ EndCheck
              \/ UNCHANGED vars
    PROVE  IndexInv' /\ UNCHANGED <<heap, timers>>
<1>1. UNCHANGED <<heap, timers>>
  BY DEF Sleep, BeginCheck, EndCallback, EndCheck, vars
<1>2. pc' \in {"sleep", "app", "check", "callback"}
  BY DEF IndexInv, Sleep, BeginCheck, EndCallback, EndCheck, vars
<1>3. now' \in Nat
  BY TimerAssumption DEF IndexInv, Sleep, BeginCheck, EndCallback, EndCheck, vars
<1>4. fired' \in [at : Int, timeout : Nat]
  BY DEF IndexInv, Sleep, BeginCheck, EndCallback, EndCheck, vars
<1> QED
  BY <1>1, <1>2, <1>3, <1>4 DEF IndexInv, Live

(* Each timer is where it says it is, and in the map and the array alike:
   what removeTimer and checkTimeout erase is what they mean to erase. *)
THEOREM TimersAreIndexed == Spec => []HeapIndexed
<1>1. ASSUME IndexInv, [Next]_vars
      PROVE  IndexInv'
  BY <1>1, AddEffect, RemoveEffect, FireEffect, QuietEffect DEF Next
<1> QED
  BY <1>1, InitIndexed, IndexedInHeap, PTL DEF Spec

-----------------------------------------------------------------------------
(* The order and the clock. *)

(* In an ordered array the timer at the top is the earliest. *)
LEMMA TopIsEarliest ==
    ASSUME NEW n \in Nat, NEW D, NEW h, NEW ts, IsIndexed(h, ts, n, D, D),
           IsOrdered(h, ts, n), NEW x \in D
    PROVE  h[1] \in D /\ ts[h[1]].at <= ts[x].at
<1>1. h \in [1 .. n -> D] /\ \A y \in D : ts[y].at \in Int
  BY DEF IsIndexed, Timer
<1>2. PICK i \in 1 .. n : h[i] = x
  BY DEF IsIndexed, Indexed
<1>3. 1 \in 1 .. n
  BY <1>2
<1> DEFINE Bad == {k \in 1 .. n : ~(ts[h[1]].at <= ts[h[k]].at)}
<1>4. Bad = {}
  <2> SUFFICES ASSUME Bad # {}
               PROVE  FALSE
    OBVIOUS
  <2>1. PICK k \in Bad : \A m \in Bad : k <= m
    <3>1. Bad \in SUBSET Nat
      OBVIOUS
    <3> HIDE DEF Bad
    <3> QED
      BY <3>1, Least
  <2>2. k \in 2 .. n
    BY <1>1, <1>3
  <2>3. PICK q \in 1 .. n : q = k \div 2 /\ q < k
    BY <2>2, Half
  <2>4. q \notin Bad
    BY <2>1, <2>3
  <2>5. ts[h[1]].at <= ts[h[q]].at /\ ts[h[q]].at <= ts[h[k]].at
    BY <2>2, <2>3, <2>4 DEF IsOrdered
  <2> QED
    BY <2>1, <2>5, <1>1, <1>3
<1> QED
  BY <1>1, <1>2, <1>3, <1>4

(* Multiplication by a positive number is monotone. *)
LEMMA TimesMonotone ==
    ASSUME NEW r \in Nat \ {0}, NEW a \in Int, NEW b \in Int, a < b
    PROVE  r * a + r <= r * b
<1>1. PICK d \in Nat : b = a + 1 + d
  <2>1. b - a - 1 \in Nat /\ b = a + 1 + (b - a - 1)
    OBVIOUS
  <2> QED
    BY <2>1
<1>2. r * b = r * a + r + r * d
  BY <1>1
<1>3. r * d \in Nat /\ r * a \in Int
  OBVIOUS
<1> QED
  BY <1>2, <1>3

(* Milliseconds, as Timestamp counts them. *)
LEMMA MsIs ==
    ASSUME NEW t \in Int
    PROVE  Ms(t) \in Int /\ Res * Ms(t) <= t /\ t < Res * Ms(t) + Res
  BY TimerAssumption DEF Ms

LEMMA MsMonotone ==
    ASSUME NEW t \in Int, NEW u \in Int, t <= u
    PROVE  Ms(t) <= Ms(u)
<1> SUFFICES ASSUME Ms(u) < Ms(t)
             PROVE  FALSE
  BY MsIs
<1>1. PICK a \in Int, b \in Int : a = Ms(u) /\ b = Ms(t)
  BY MsIs
<1>2. Res * a + Res <= Res * b
  BY <1>1, TimesMonotone, TimerAssumption
<1>3. Res * b <= t /\ u < Res * a + Res
  BY <1>1, MsIs
<1>4. Res * a \in Int /\ Res * b \in Int /\ Res \in Int
  BY TimerAssumption
<1> QED
  BY <1>2, <1>3, <1>4

LEMMA MsShift ==
    ASSUME NEW t \in Int, NEW k \in Int
    PROVE  t + k * Res \in Int /\ Ms(t + k * Res) = Ms(t) + k
<1>1. PICK u \in Int : u = t + k * Res
  BY TimerAssumption
<1>2. PICK a \in Int, b \in Int : a = Ms(t) /\ b = Ms(u)
  BY MsIs
<1>3. Res * a <= t /\ t < Res * a + Res /\ Res * b <= u /\ u < Res * b + Res
  BY <1>2, MsIs
<1>4. PICK c \in Int : c = a + k
  OBVIOUS
<1>5. PICK p \in Int, q \in Int, s \in Int : p = Res * a /\ q = Res * b /\ s = Res * c
  BY TimerAssumption
<1>6. s = p + k * Res
  BY <1>4, <1>5, TimerAssumption
<1>7. k * Res \in Int /\ Res \in Int
  BY TimerAssumption
<1>8. s <= u /\ u < s + Res /\ q <= u /\ u < q + Res
  BY <1>1, <1>3, <1>5, <1>6, <1>7
<1>9. ~(b < c)
  <2> SUFFICES ASSUME b < c
               PROVE  FALSE
    OBVIOUS
  <2>1. q + Res <= s
    BY <1>5, TimesMonotone, TimerAssumption
  <2> QED
    BY <2>1, <1>7, <1>8
<1>10. ~(c < b)
  <2> SUFFICES ASSUME c < b
               PROVE  FALSE
    OBVIOUS
  <2>1. s + Res <= q
    BY <1>5, TimesMonotone, TimerAssumption
  <2> QED
    BY <2>1, <1>7, <1>8
<1> QED
  BY <1>1, <1>2, <1>4, <1>9, <1>10

(* The earliest timer of the heap. *)
LEMMA MinHeapTop ==
    ASSUME IndexInv, MinHeap, NEW x \in Live
    PROVE  /\ heap # <<>> /\ minHeapTop \in Live
           /\ timers[minHeapTop].at \in Int /\ timers[x].at \in Int
           /\ timers[minHeapTop].at <= timers[x].at
           /\ Ms(timers[minHeapTop].at) <= Ms(timers[x].at)
<1>1. PICK n \in Nat : n = Len(heap)
  BY DEF IndexInv
<1>2. IsIndexed(heap, timers, n, Live, Live) /\ IsOrdered(heap, timers, n)
  BY <1>1, OrderIsMinHeap DEF IndexInv
<1>3. heap[1] \in Live /\ timers[heap[1]].at <= timers[x].at
  BY <1>2, TopIsEarliest
<1>4. n # 0
  BY <1>2 DEF IsIndexed, Indexed
<1>5. heap # <<>>
  BY <1>1, <1>4
<1>6. \A y \in Live : timers[y].at \in Int
  BY <1>2 DEF IsIndexed, Timer
<1>7. PICK a \in Int, b \in Int : a = timers[heap[1]].at /\ b = timers[x].at
  BY <1>3, <1>6
<1>8. Ms(a) <= Ms(b)
  BY <1>3, <1>7, MsMonotone
<1> QED
  BY <1>3, <1>5, <1>6, <1>7, <1>8 DEF minHeapTop

(* The timers whose timeout an int can hold.  The next call of one is within
   that timeout, so the loop cannot take the distance to it for another, and
   while the loop works the clock has not passed its millisecond. *)
Short(x) == timers[x].timeout <= INT_MAX

Near == \A id \in Live : Short(id) => Ms(timers[id].at) <= Ms(now) + INT_MAX

NotPassed ==
    pc # "sleep" => \A id \in Live : Short(id) => Ms(timers[id].at) >= Ms(now)

TimeInv == Near /\ NotPassed /\ NothingDueIsLeft /\ OnTime

OrderInv == IndexInv /\ MinHeap /\ TimeInv

(* What the arithmetic below needs of a state. *)
LEMMA Numbers ==
    ASSUME IndexInv
    PROVE  /\ now \in Int /\ Ms(now) \in Int
           /\ \A x \in Live : /\ timers[x].at \in Int /\ Ms(timers[x].at) \in Int
                              /\ timers[x].timeout \in Nat
<1>1. now \in Int /\ \A x \in Live : timers[x].at \in Int /\ timers[x].timeout \in Nat
  BY DEF IndexInv, IsIndexed, Timer
<1> QED
  BY <1>1, MsIs

LEMMA InitOrder == Init => OrderInv
<1> SUFFICES ASSUME Init
             PROVE  OrderInv
  OBVIOUS
<1>1. heap = <<>> /\ Live = {} /\ pc = "app"
  BY DEF Init, Live
<1>2. MinHeap
  BY <1>1 DEF MinHeap
<1> QED
  BY <1>1, <1>2, InitIndexed DEF OrderInv, TimeInv, Near, NotPassed, NothingDueIsLeft, OnTime

LEMMA AddInTime ==
    ASSUME OrderInv, NEW id \in Ids, NEW delay \in Delays, NEW times \in CallTimes,
           addTimer(id, delay, times)
    PROVE  OrderInv'
<1>1. IndexInv /\ MinHeap /\ TimeInv
  BY DEF OrderInv
<1>2. /\ IndexInv' /\ MinHeap'
      /\ Live' = Live \cup {id}
      /\ \A x \in Live : SameTime(timers'[x], timers[x])
      /\ \E timeout \in Nat : /\ timers'[id].at = now + timeout * Res
                              /\ timers'[id].timeout = timeout
  BY <1>1, AddEffect
<1>3. UNCHANGED <<pc, now, fired>> /\ pc # "sleep"
  BY DEF addTimer, Calling
<1>4. PICK timeout \in Nat : /\ Ms(timers'[id].at) = Ms(now) + timeout
                             /\ timers'[id].timeout = timeout
  <2>1. PICK timeout \in Nat : timers'[id].at = now + timeout * Res
                               /\ timers'[id].timeout = timeout
    BY <1>2
  <2>2. now \in Int
    BY <1>1, Numbers
  <2>3. Ms(now + timeout * Res) = Ms(now) + timeout
    BY <2>2, MsShift
  <2> QED
    BY <2>1, <2>3
<1>5. ASSUME NEW x \in Live', timers'[x].timeout <= INT_MAX
      PROVE  Ms(timers'[x].at) >= Ms(now) /\ Ms(timers'[x].at) <= Ms(now) + INT_MAX
  <2>1. CASE x = id
    <3>1. PICK m \in Int, N \in Nat : m = Ms(now) /\ N = INT_MAX
      BY <1>1, Numbers, TimerAssumption
    <3>2. timeout <= N
      BY <2>1, <3>1, <1>4, <1>5
    <3>3. m + timeout >= m /\ m + timeout <= m + N
      BY <3>2
    <3> QED
      BY <2>1, <3>1, <3>3, <1>4
  <2>2. CASE x \in Live
    <3>1. timers'[x].at = timers[x].at /\ Short(x)
      BY <2>2, <1>2, <1>5 DEF SameTime, Short
    <3> QED
      BY <3>1, <2>2, <1>1, <1>3 DEF TimeInv, Near, NotPassed
  <2> QED
    BY <2>1, <2>2, <1>2
<1>6. Near' /\ NotPassed'
  BY <1>3, <1>5 DEF Near, NotPassed, Short, Ms
<1>7. NothingDueIsLeft' /\ OnTime'
  BY <1>1, <1>3 DEF TimeInv, NothingDueIsLeft, OnTime, Ms
<1> QED
  BY <1>2, <1>6, <1>7 DEF OrderInv, TimeInv

LEMMA RemoveInTime ==
    ASSUME OrderInv, NEW id \in Ids, removeTimer(id), HoleFits(id)
    PROVE  OrderInv'
<1>1. IndexInv /\ MinHeap /\ TimeInv
  BY DEF OrderInv
<1>2. /\ IndexInv' /\ MinHeap'
      /\ Live' = Live \ {id}
      /\ \A x \in Live' : SameTime(timers'[x], timers[x])
  BY <1>1, RemoveEffect
<1>3. UNCHANGED <<pc, now, fired>> /\ pc # "sleep"
  BY DEF removeTimer, Calling
<1>4. Near' /\ NotPassed'
  <2>1. \A x \in Live' : x \in Live /\ timers'[x].at = timers[x].at
                         /\ timers'[x].timeout = timers[x].timeout
    BY <1>2 DEF SameTime
  <2> QED
    BY <2>1, <1>1, <1>3 DEF TimeInv, Near, NotPassed, Short, Ms
<1>5. NothingDueIsLeft' /\ OnTime'
  BY <1>1, <1>3 DEF TimeInv, NothingDueIsLeft, OnTime, Ms
<1> QED
  BY <1>2, <1>4, <1>5 DEF OrderInv, TimeInv

LEMMA FireInTime == ASSUME OrderInv, Fire PROVE OrderInv'
<1>1. IndexInv /\ MinHeap /\ TimeInv
  BY DEF OrderInv
<1>2. /\ IndexInv' /\ MinHeap'
      /\ heap[1] \in Live
      /\ fired' = [at |-> timers[heap[1]].at, timeout |-> timers[heap[1]].timeout]
      /\ Live' \subseteq Live
      /\ \A x \in Live' : IF x = heap[1] THEN Later(timers'[x], timers[x])
                                         ELSE SameTime(timers'[x], timers[x])
  BY <1>1, FireEffect
<1>3. pc = "check" /\ pc' = "callback" /\ now' = now /\ Ms(now) >= Ms(timers[heap[1]].at)
  BY DEF Fire, minHeapTop
<1>4. PICK a \in Int, k \in Nat : a = timers[heap[1]].at /\ k = timers[heap[1]].timeout
  BY <1>1, <1>2, Numbers
<1>5. Ms(a) \in Int /\ Ms(now) \in Int
  BY <1>1, <1>4, Numbers, MsIs
<1>6. k <= INT_MAX => Ms(a) = Ms(now)
  <2>1. k <= INT_MAX => Ms(a) >= Ms(now)
    BY <1>1, <1>2, <1>3, <1>4 DEF TimeInv, NotPassed, Short
  <2> QED
    BY <2>1, <1>3, <1>4, <1>5
<1>7. ASSUME NEW x \in Live', timers'[x].timeout <= INT_MAX
      PROVE  Ms(timers'[x].at) >= Ms(now) /\ Ms(timers'[x].at) <= Ms(now) + INT_MAX
  <2>1. CASE x = heap[1]
    <3>1. timers'[x].at = a + ToInt(k) * Res /\ timers'[x].timeout = k
      BY <2>1, <1>2, <1>4, <1>7 DEF Later
    <3>2. k \in 0 .. INT_MAX
      BY <3>1, <1>7, TimerAssumption
    <3>3. ToInt(k) = k
      BY <3>2, ToIntIs
    <3>4. Ms(timers'[x].at) = Ms(a) + k
      BY <3>1, <3>3, MsShift
    <3>5. PICK m \in Int, N \in Nat : m = Ms(now) /\ N = INT_MAX
      BY <1>5, TimerAssumption
    <3>6. m + k >= m /\ m + k <= m + N
      BY <3>2, <3>5
    <3> QED
      BY <3>2, <3>4, <3>5, <3>6, <1>6
  <2>2. CASE x # heap[1]
    <3>1. x \in Live /\ timers'[x].at = timers[x].at /\ Short(x)
      BY <2>2, <1>2, <1>7 DEF SameTime, Short
    <3> QED
      BY <3>1, <1>1, <1>3 DEF TimeInv, Near, NotPassed
  <2> QED
    BY <2>1, <2>2
<1>8. Near' /\ NotPassed'
  BY <1>3, <1>7 DEF Near, NotPassed, Short, Ms
<1>9. OnTime'
  <2>1. fired'.at = a /\ fired'.timeout = k
    BY <1>2, <1>4
  <2>2. Ms(a) <= Ms(now)
    BY <1>3, <1>4, <1>5
  <2> QED
    BY <2>1, <2>2, <1>3, <1>6 DEF OnTime, Ms
<1>10. NothingDueIsLeft'
  BY <1>3 DEF NothingDueIsLeft
<1> QED
  BY <1>2, <1>8, <1>9, <1>10 DEF OrderInv, TimeInv

(* The sleep ends in the millisecond of the earliest timer at the latest. *)
LEMMA SleepInTime ==
    ASSUME OrderInv, NEW t \in 0 .. MaxNow, Sleep(t)
    PROVE  OrderInv'
<1>1. IndexInv /\ MinHeap /\ TimeInv
  BY DEF OrderInv
<1>2. IndexInv' /\ UNCHANGED <<heap, timers>>
  BY <1>1, QuietEffect
<1>3. pc = "sleep" /\ pc' = "app" /\ now' = t /\ t >= now
      /\ (ToInt(getNextTimeoutMillisecond) >= 0 =>
           t <= now + ToInt(getNextTimeoutMillisecond) * Res)
  BY DEF Sleep
<1>4. ASSUME NEW x \in Live, Short(x)
      PROVE  Ms(timers[x].at) >= Ms(t)
  <2>1. PICK a \in Int, b \in Int :
            /\ a = timers[minHeapTop].at /\ b = timers[x].at
            /\ heap # <<>> /\ minHeapTop \in Live /\ Ms(a) <= Ms(b)
    BY <1>1, MinHeapTop
  <2>2. Ms(a) > Ms(now)
    BY <2>1, <1>1, <1>3 DEF TimeInv, NothingDueIsLeft
  <2>3. now \in Int /\ t \in Int
    BY <1>1, TimerAssumption DEF IndexInv
  <2>4. PICK m \in Int, d \in Int : m = Ms(now) /\ d = Ms(a) - Ms(now)
    BY <2>3, MsIs
  <2>5. Ms(a) \in Int /\ Ms(b) \in Int /\ Ms(t) \in Int
    BY <2>3, MsIs
  <2>6. ~(a < now)
    <3>1. ASSUME a < now
          PROVE  FALSE
      <4>1. Ms(a) <= Ms(now)
        BY <3>1, <2>3, MsMonotone
      <4> QED
        BY <4>1, <2>2, <2>4, <2>5
    <3> QED
      BY <3>1
  <2>7. ToInt(getNextTimeoutMillisecond) = d /\ d >= 0
    <3>1. getNextTimeoutMillisecond = d
      BY <2>1, <2>4, <2>6 DEF getNextTimeoutMillisecond, Overdue
    <3>2. Ms(b) <= m + INT_MAX
      BY <2>1, <2>4, <1>1, <1>4 DEF TimeInv, Near
    <3>3. d \in 0 .. INT_MAX
      BY <3>2, <2>1, <2>2, <2>4, <2>5, TimerAssumption
    <3> QED
      BY <3>1, <3>3, ToIntIs
  <2>8. PICK u \in Int : u = now + d * Res /\ Ms(u) = m + d
    BY <2>3, <2>4, MsShift
  <2>9. Ms(t) <= Ms(u)
    BY <2>1, <2>3, <2>7, <2>8, <1>3, MsMonotone
  <2>10. Ms(t) <= Ms(a)
    BY <2>4, <2>5, <2>8, <2>9
  <2>11. Ms(t) <= Ms(b)
    BY <2>1, <2>5, <2>10
  <2> QED
    BY <2>1, <2>5, <2>11
<1>5. NotPassed'
  BY <1>2, <1>3, <1>4 DEF NotPassed, Live, Ms, Short
<1>6. Near'
  <2>1. Ms(now) <= Ms(t) /\ Ms(now) \in Int /\ Ms(t) \in Int
    BY <1>1, <1>3, Numbers, MsIs, MsMonotone, TimerAssumption
  <2>2. ASSUME NEW x \in Live, Short(x)
        PROVE  Ms(timers[x].at) <= Ms(t) + INT_MAX
    <3>1. Ms(timers[x].at) <= Ms(now) + INT_MAX /\ Ms(timers[x].at) \in Int
      BY <2>2, <1>1, Numbers DEF TimeInv, Near
    <3> QED
      BY <3>1, <2>1, TimerAssumption
  <2> QED
    BY <2>2, <1>2, <1>3 DEF Near, Live, Ms, Short
<1>7. MinHeap' /\ NothingDueIsLeft' /\ OnTime'
  BY <1>1, <1>2, <1>3 DEF MinHeap, NothingDueIsLeft, OnTime
<1> QED
  BY <1>2, <1>5, <1>6, <1>7 DEF OrderInv, TimeInv

LEMMA EndCheckInTime == ASSUME OrderInv, EndCheck PROVE OrderInv'
<1>1. IndexInv /\ MinHeap /\ TimeInv
  BY DEF OrderInv
<1>2. IndexInv' /\ UNCHANGED <<heap, timers>>
  BY <1>1, QuietEffect
<1>3. pc' = "sleep" /\ UNCHANGED <<now, fired>>
      /\ (heap # <<>> => Ms(now) < Ms(timers[minHeapTop].at))
  BY DEF EndCheck
<1>4. ASSUME NEW x \in Live
      PROVE  Ms(timers[x].at) > Ms(now)
  <2>1. PICK a \in Int, b \in Int :
            a = timers[minHeapTop].at /\ b = timers[x].at /\ heap # <<>> /\ Ms(a) <= Ms(b)
    BY <1>1, MinHeapTop
  <2>2. Ms(a) \in Int /\ Ms(b) \in Int /\ Ms(now) \in Int
    BY <1>1, MsIs, Numbers
  <2>3. Ms(b) > Ms(now)
    BY <2>1, <2>2, <1>3
  <2> QED
    BY <2>1, <2>3
<1>5. NothingDueIsLeft'
  BY <1>2, <1>3, <1>4 DEF NothingDueIsLeft, Live, Ms
<1>6. MinHeap' /\ Near' /\ NotPassed' /\ OnTime'
  BY <1>1, <1>2, <1>3 DEF MinHeap, TimeInv, Near, NotPassed, OnTime, Live, Ms, Short
<1> QED
  BY <1>2, <1>5, <1>6 DEF OrderInv, TimeInv

LEMMA OtherStepsInTime ==
    ASSUME OrderInv, BeginCheck \/ EndCallback \/ UNCHANGED vars
    PROVE  OrderInv'
<1>1. IndexInv /\ MinHeap /\ TimeInv
  BY DEF OrderInv
<1>2. IndexInv' /\ UNCHANGED <<heap, timers, now>>
  BY <1>1, QuietEffect DEF BeginCheck, EndCallback, vars
<1>3. MinHeap'
  BY <1>1, <1>2 DEF MinHeap
<1>4. \/ pc # "sleep" /\ pc' = "check"
      \/ UNCHANGED <<pc, fired>>
  BY DEF BeginCheck, EndCallback, vars
<1>5. TimeInv'
  BY <1>1, <1>2, <1>4 DEF TimeInv, Near, NotPassed, NothingDueIsLeft, OnTime, Live, Ms, Short
<1> QED
  BY <1>2, <1>3, <1>5 DEF OrderInv

-----------------------------------------------------------------------------
(* Every removal leaves a hole that the last timer of the array may fill. *)
RemovesWhatFits == \A id \in Ids : removeTimer(id) => HoleFits(id)

LEMMA StepInTime ==
    ASSUME OrderInv, [Next]_vars, RemovesWhatFits
    PROVE  OrderInv'
<1>1. CASE \E id \in Ids, delay \in Delays, times \in CallTimes : addTimer(id, delay, times)
  BY <1>1, AddInTime
<1>2. CASE \E id \in Ids : removeTimer(id)
  BY <1>2, RemoveInTime DEF RemovesWhatFits
<1>3. CASE \E t \in 0 .. MaxNow : Sleep(t)
  BY <1>3, SleepInTime
<1>4. CASE Fire
  BY <1>4, FireInTime
<1>5. CASE EndCheck
  BY <1>5, EndCheckInTime
<1>6. CASE BeginCheck \/ EndCallback \/ UNCHANGED vars
  BY <1>6, OtherStepsInTime
<1> QED
  BY <1>1, <1>2, <1>3, <1>4, <1>5, <1>6 DEF Next

(* What minHeapErase lacks, for any number of timers: only a removal that
   has a hole filled by a timer due before the parent of the hole breaks the
   order of the heap.  Without one, checkTimeout leaves no due timer behind,
   and every timer whose timeout an int can hold fires in its millisecond,
   whatever others there are; longer ones may fire late, since
   IOService::loop keeps the distance to the next timer in an int. *)
THEOREM OrderHoldsWhereHolesFit ==
    Init /\ [][Next /\ RemovesWhatFits]_vars
        => [](MinHeap /\ OnTime /\ NothingDueIsLeft)
<1>1. ASSUME OrderInv, [Next /\ RemovesWhatFits]_vars
      PROVE  OrderInv'
  <2>1. CASE Next /\ RemovesWhatFits
    BY <1>1, <2>1, StepInTime
  <2>2. CASE UNCHANGED vars
    BY <1>1, <2>2, OtherStepsInTime
  <2> QED
    BY <1>1, <2>1, <2>2
<1>2. OrderInv => MinHeap /\ OnTime /\ NothingDueIsLeft
  BY DEF OrderInv, TimeInv
<1> QED
  BY <1>1, <1>2, InitOrder, PTL

(* In an ordered array of at most five timers every hole fits: the parent of
   each is above the last timer. *)
LEMMA FiveTimersFit ==
    ASSUME NEW n \in 0 .. 5, NEW D, NEW h, NEW ts, IsIndexed(h, ts, n, D, D),
           IsOrdered(h, ts, n), NEW id \in D
    PROVE  Fits(h, ts, n, id)
<1> SUFFICES ASSUME ts[id].pos >= 2
             PROVE  ts[h[ts[id].pos \div 2]].at <= ts[h[n]].at
  BY DEF Fits
<1>1. PICK c \in 2 .. n : c = ts[id].pos
  BY DEF IsIndexed, Indexed
<1>2. PICK p \in {1, 2} : p = c \div 2 /\ (p = 2 => n \in {4, 5})
  <2>1. PICK p \in Nat : p = c \div 2 /\ 2 * p <= c /\ c <= 2 * p + 1
    BY Half
  <2> QED
    BY <2>1
<1>3. \A k \in 1 .. n : ts[h[k]].at \in Int
  BY DEF IsIndexed, Timer
<1>4. \A k \in 2 .. n : ts[h[k \div 2]].at <= ts[h[k]].at
  BY DEF IsOrdered
<1>5. 2 \div 2 = 1 /\ 3 \div 2 = 1 /\ 4 \div 2 = 2 /\ 5 \div 2 = 2
  OBVIOUS
<1>6. n \in {2, 3, 4, 5}
  BY <1>1
<1>7. n \in {2, 3} => ts[h[1]].at <= ts[h[n]].at
  BY <1>4, <1>5, <1>6
<1>8. n \in {4, 5} => ts[h[2]].at <= ts[h[n]].at /\ ts[h[1]].at <= ts[h[2]].at
  BY <1>4, <1>5, <1>6
<1>9. ts[h[p]].at <= ts[h[n]].at
  <2>1. ts[h[1]].at \in Int /\ ts[h[n]].at \in Int /\ (n \in {4, 5} => ts[h[2]].at \in Int)
    BY <1>3, <1>6
  <2> QED
    BY <2>1, <1>2, <1>6, <1>7, <1>8
<1> QED
  BY <1>1, <1>2, <1>9

LEMMA FewTimersFit == OrderInv /\ MaxTimers <= 5 => RemovesWhatFits
<1> SUFFICES ASSUME OrderInv, MaxTimers <= 5, NEW id \in Ids, removeTimer(id)
             PROVE  HoleFits(id)
  BY DEF RemovesWhatFits
<1>1. PICK n \in Nat : n = Len(heap)
  BY DEF OrderInv, IndexInv
<1>2. n <= MaxTimers
  BY <1>1, AtMostMaxTimers DEF OrderInv
<1>3. n \in 0 .. 5
  BY <1>2, TimerAssumption
<1>4. IsIndexed(heap, timers, n, Live, Live) /\ IsOrdered(heap, timers, n)
  BY <1>1, OrderIsMinHeap DEF OrderInv, IndexInv
<1>5. id \in Live
  BY DEF removeTimer
<1> QED
  BY <1>1, <1>3, <1>4, <1>5, FiveTimersFit DEF HoleFits

(* With at most five timers alive the program is right whatever it removes:
   the invariant of the order holds in every state. *)
LEMMA FewTimersInOrder == ASSUME MaxTimers <= 5 PROVE Spec => []OrderInv
<1>1. ASSUME OrderInv, [Next]_vars
      PROVE  OrderInv'
  BY <1>1, FewTimersFit, StepInTime
<1> QED
  BY <1>1, InitOrder, PTL DEF Spec

(* With at most five timers every timer whose timeout an int can hold fires in
   the millisecond it was set for, for any clock, delays and call times, also
   beside timers with longer timeouts; with six it may fire late. *)
THEOREM FewTimersAreOnTime == ASSUME MaxTimers <= 5 PROVE Spec => []OnTime
<1>1. OrderInv => OnTime
  BY DEF OrderInv, TimeInv
<1> QED
  BY <1>1, FewTimersInOrder, PTL

(* With at most five timers checkTimeout leaves no due timer behind. *)
THEOREM FewTimersAreNotLeft == ASSUME MaxTimers <= 5 PROVE Spec => []NothingDueIsLeft
<1>1. OrderInv => NothingDueIsLeft
  BY DEF OrderInv, TimeInv
<1> QED
  BY <1>1, FewTimersInOrder, PTL
=============================================================================
