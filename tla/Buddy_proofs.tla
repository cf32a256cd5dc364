---------------------------- MODULE Buddy_proofs ----------------------------
(***************************************************************************)
(* The buddy allocator, for every number of orders and every size of the   *)
(* memory: page_alloc and page_free keep free and used pages apart, the    *)
(* bits of buddy_map say what they are to say, and free buddies are        *)
(* merged.  The recursive C functions are recursive functions of the       *)
(* model; that these exist, and what they compute, is proved here by       *)
(* induction (Recursion, LeastNumber).                                     *)
(***************************************************************************)
EXTENDS Buddy, ListLemmas

(* Numbers *)

\* Quotient and remainder determine a quotient.
LEMMA Divided ==
  ASSUME NEW N \in Nat \ {0}, NEW a \in Nat, NEW q \in Nat, NEW r \in Nat, a = q * N + r, r < N
  PROVE  a \div N = q
<1>1. q * N <= a /\ a < q * N + N
  OBVIOUS
<1>2. QED
  BY <1>1, SMTT(30)

\* f is the function that recursion gives: a for 0, and G tells how to go on.
Recursive(f, S, a, G) ==
  f \in [Nat -> S] /\ f[0] = a /\ \A n \in Nat : f[n + 1] = G[n][f[n]]

\* There is such a function.
LEMMA Recursion ==
  ASSUME NEW S, NEW a \in S, NEW G \in [Nat -> [S -> S]]
  PROVE  \E f : Recursive(f, S, a, G)
<1> DEFINE Up(n, f) == f \in [Nat -> S] /\ f[0] = a /\ \A k \in 0 .. n - 1 : f[k + 1] = G[k][f[k]]
           Reaches(n) == \E f : Up(n, f)
<1>1. Reaches(0)
  <2>1. Up(0, [n \in Nat |-> a])
    OBVIOUS
  <2>2. QED
    BY <2>1
<1>2. ASSUME NEW n \in Nat, Reaches(n) PROVE Reaches(n + 1)
  <2>1. PICK f : Up(n, f)
    BY <1>2
  <2> DEFINE g == [f EXCEPT ![n + 1] = G[n][f[n]]]
  <2>2. G[n][f[n]] \in S
    BY <2>1
  <2>3. g \in [Nat -> S] /\ g[0] = a
    BY <2>1, <2>2
  <2>4. ASSUME NEW k \in 0 .. n PROVE g[k + 1] = G[k][g[k]]
    BY <2>1
  <2>5. Up(n + 1, g)
    BY <2>1, <2>2, <2>3, <2>4
  <2>6. QED
    BY <2>5
<1>3. \A n \in Nat : Reaches(n)
  <2> DEFINE T == {n \in Nat : ~Reaches(n)}
  <2> SUFFICES ASSUME T # {} PROVE FALSE
    OBVIOUS
  <2>1. PICK m \in T : \A k \in T : m <= k
    <3> HIDE DEF Reaches
    <3> QED
      BY LeastNumber
  <2>2. m # 0
    BY <1>1
  <2>3. Reaches(m - 1)
    <3> HIDE DEF Reaches
    <3> QED
      BY <2>1, <2>2
  <2>4. Reaches(m - 1 + 1)
    <3> HIDE DEF Reaches
    <3> QED
      BY <2>2, <2>3, <1>2
  <2>5. QED
    BY <2>4
<1>4. \* two that reach n agree up to n
      ASSUME NEW n \in Nat, NEW f, NEW g, Up(n, f), Up(n, g), NEW j \in 0 .. n
      PROVE  f[j] = g[j]
  <2> DEFINE T == {k \in 0 .. n : f[k] # g[k]}
  <2> SUFFICES ASSUME T # {} PROVE FALSE
    OBVIOUS
  <2>1. PICK m \in T : \A k \in T : m <= k
    <3>1. T \subseteq Nat /\ T # {}
      OBVIOUS
    <3> HIDE DEF T
    <3>2. QED
      BY <3>1, LeastNumber
  <2>2. m # 0
    BY <1>4
  <2>3. f[m - 1] = g[m - 1]
    BY <2>1, <2>2
  <2>4. f[m] = G[m - 1][f[m - 1]] /\ g[m] = G[m - 1][g[m - 1]]
    BY <1>4, <2>2
  <2>5. QED
    BY <2>3, <2>4
<1> DEFINE F(n) == CHOOSE f : Up(n, f)
           h == [n \in Nat |-> F(n)[n]]
<1>5. \A n \in Nat : Up(n, F(n))
  <2> HIDE DEF Up
  <2> QED
    BY <1>3
<1>6. h \in [Nat -> S]
  <2> HIDE DEF F
  <2> QED
    BY <1>5
<1>7. h[0] = a
  <2> HIDE DEF F
  <2> QED
    BY <1>5
<1>8. ASSUME NEW n \in Nat PROVE h[n + 1] = G[n][h[n]]
  <2>1. n + 1 \in Nat /\ n \in 0 .. n /\ n + 1 - 1 = n
    OBVIOUS
  <2>2. h[n] = F(n)[n] /\ h[n + 1] = F(n + 1)[n + 1]
    BY <2>1
  <2> HIDE DEF h, F
  <2>3. Up(n, F(n + 1)) /\ Up(n, F(n)) /\ Up(n + 1, F(n + 1))
    BY <1>5, <2>1
  <2>4. F(n + 1)[n] = F(n)[n]
    <3> HIDE DEF Up
    <3> QED
      BY <1>4, <2>1, <2>3
  <2>5. F(n + 1)[n + 1] = G[n][F(n + 1)[n]]
    BY <2>1, <2>3
  <2>6. QED
    BY <2>2, <2>4, <2>5
<1>9. Recursive(h, S, a, G)
  <2> HIDE DEF h
  <2> QED
    BY <1>6, <1>7, <1>8 DEF Recursive
<1>10. QED
  BY <1>9

\* 1 << n doubles with n, and is larger than n.
LEMMA Pow2Unfolds ==
  /\ Pow2 \in [Nat -> Nat]
  /\ Pow2[0] = 1
  /\ \A n \in Nat : Pow2[n + 1] = 2 * Pow2[n] /\ n < Pow2[n]
<1> DEFINE G == [n \in Nat |-> [x \in Nat |-> 2 * x]]
<1>1. G \in [Nat -> [Nat -> Nat]] /\ 1 \in Nat
  OBVIOUS
<1>2. PICK f : Recursive(f, Nat, 1, G)
  <2> HIDE DEF G
  <2> QED
    BY <1>1, Recursion
<1>3. f = [n \in Nat |-> IF n = 0 THEN 1 ELSE 2 * f[n - 1]]
  <2>1. ASSUME NEW n \in Nat, n # 0 PROVE f[n] = 2 * f[n - 1]
    <3>1. n - 1 \in Nat /\ n - 1 + 1 = n
      BY <2>1
    <3>2. f[n] = G[n - 1][f[n - 1]]
      BY <1>2, <3>1 DEF Recursive
    <3>3. f[n - 1] \in Nat
      BY <1>2, <3>1 DEF Recursive
    <3>4. QED
      BY <3>1, <3>2, <3>3
  <2>2. \A n \in Nat : f[n] = IF n = 0 THEN 1 ELSE 2 * f[n - 1]
    BY <1>2, <2>1 DEF Recursive
  <2>3. QED
    BY <1>2, <2>2 DEF Recursive
<1>4. Pow2 = [n \in Nat |-> IF n = 0 THEN 1 ELSE 2 * Pow2[n - 1]]
  BY <1>3 DEF Pow2
<1>5. Pow2[0] = 1 /\ \A n \in Nat : Pow2[n + 1] = 2 * Pow2[n]
  BY <1>4
<1>6. \A n \in Nat : Pow2[n] \in Nat /\ n < Pow2[n]
  <2> DEFINE T == {n \in Nat : ~(Pow2[n] \in Nat /\ n < Pow2[n])}
  <2> SUFFICES ASSUME T # {} PROVE FALSE
    OBVIOUS
  <2>1. PICK m \in T : \A k \in T : m <= k
    BY LeastNumber
  <2>2. m # 0
    BY <1>5
  <2>3. Pow2[m - 1] \in Nat /\ m - 1 < Pow2[m - 1]
    BY <2>1, <2>2
  <2>4. Pow2[m] = 2 * Pow2[m - 1]
    <3>1. m - 1 \in Nat /\ m - 1 + 1 = m
      BY <2>2
    <3>2. QED
      BY <1>5, <3>1
  <2>5. Pow2[m] \in Nat /\ m < Pow2[m]
    BY <2>1, <2>2, <2>3, <2>4
  <2>6. QED
    BY <2>1, <2>5
<1>7. QED
  BY <1>4, <1>5, <1>6

-----------------------------------------------------------------------------
\* The bits of an order lie below those of the next one, whose bytes follow: the
\* memory that is handed out has no more pairs of that order than buddy_map has
\* bits for.  That is what OrdersApart comes to (ApartFits).
BitsFit ==
  \A o \in 0 .. MaxOrder - 2 : Usable \div Pow2[o + 1] <= 8 * ((PgCount \div Pow2[o + 1]) \div 8)

Block(p, o) == o \in Order /\ p \in Page /\ p % Pow2[o] = 0

\* The same for one n.
LEMMA Pow2Type ==
  ASSUME NEW n \in Nat
  PROVE  Pow2[n] \in Nat \ {0} /\ Pow2[n + 1] = 2 * Pow2[n] /\ n < Pow2[n]
<1>1. Pow2[n] \in Nat /\ Pow2[n + 1] = 2 * Pow2[n] /\ n < Pow2[n]
  BY Pow2Unfolds
<1>2. QED
  BY <1>1

\* 1 << (n + d) is (1 << d) times 1 << n.
LEMMA Pow2Sum ==
  ASSUME NEW n \in Nat, NEW d \in Nat
  PROVE  Pow2[n + d] = Pow2[d] * Pow2[n]
<1> DEFINE T == {k \in Nat : Pow2[n + k] # Pow2[k] * Pow2[n]}
<1> SUFFICES ASSUME T # {} PROVE FALSE
  OBVIOUS
<1>1. PICK m \in T : \A k \in T : m <= k
  BY LeastNumber
<1>2. m # 0
  <2>1. Pow2[n + 0] = Pow2[0] * Pow2[n]
    BY Pow2Unfolds, Pow2Type
  <2>2. QED
    BY <1>1, <2>1
<1>3. m \in Nat /\ m - 1 \in Nat /\ Pow2[n + (m - 1)] = Pow2[m - 1] * Pow2[n]
  BY <1>1, <1>2
<1>4. Pow2[n + m] = 2 * Pow2[n + (m - 1)] /\ Pow2[m] = 2 * Pow2[m - 1]
  <2>1. n + (m - 1) \in Nat /\ n + (m - 1) + 1 = n + m /\ m - 1 + 1 = m
    BY <1>3
  <2>2. QED
    BY <1>3, <2>1, Pow2Type
<1>5. Pow2[n] \in Nat /\ Pow2[m - 1] \in Nat
  BY <1>3, Pow2Type
<1>6. 2 * (Pow2[m - 1] * Pow2[n]) = (2 * Pow2[m - 1]) * Pow2[n]
  BY <1>5
<1>7. Pow2[n + m] = Pow2[m] * Pow2[n]
  BY <1>3, <1>4, <1>6
<1>8. QED
  BY <1>1, <1>7

\* What % = 0 means.
LEMMA Multiple ==
  ASSUME NEW N \in Nat \ {0}, NEW a \in Nat, a % N = 0
  PROVE  \E i \in Nat : a = i * N
<1>1. a = N * (a \div N) + (a % N) /\ a \div N \in Int
  OBVIOUS
<1>2. a \div N >= 0
  BY SMTT(30)
<1> DEFINE d == a \div N
<1>3. d \in Nat /\ a = N * d
  BY <1>1, <1>2
<1> HIDE DEF d
<1>4. N * d = d * N
  BY <1>3, SMTT(30)
<1>5. QED
  BY <1>3, <1>4

\* i * N is the i-th multiple of N.
LEMMA MultipleOf ==
  ASSUME NEW N \in Nat \ {0}, NEW i \in Nat
  PROVE  i * N \in Nat /\ (i * N) % N = 0 /\ (i * N) \div N = i
<1>1. i * N \in Nat
  BY SMTT(30)
<1>2. (i * N) \div N = i
  <2>1. i * N = i * N + 0
    BY <1>1
  <2>2. QED
    BY <1>1, <2>1, Divided
<1>3. i * N = N * ((i * N) \div N) + ((i * N) % N) /\ (i * N) % N \in Int
  BY <1>1
<1> DEFINE r == (i * N) % N
<1>4. i * N = N * i + r /\ r \in Int
  BY <1>2, <1>3
<1> HIDE DEF r
<1>5. r = 0
  BY <1>1, <1>4
<1>6. QED
  BY <1>1, <1>2, <1>5 DEF r

\* The usable memory holds a whole number of blocks of every order.
LEMMA UsableMultiple ==
  ASSUME NEW o \in Order
  PROVE  \E j \in Nat : Usable = j * Pow2[o]
<1>1. MaxOrder - 1 \in Nat /\ o \in Nat /\ MaxOrder - 1 - o \in Nat /\ o + (MaxOrder - 1 - o) = MaxOrder - 1
  BY BuddyAssumption DEF Order
<1>2. Largest = Pow2[MaxOrder - 1 - o] * Pow2[o]
  BY <1>1, Pow2Sum DEF Largest
<1>3. PICK j \in Nat : Usable = j * Largest
  BY <1>1, Pow2Type, BuddyAssumption, Multiple DEF Largest
<1> DEFINE c == Pow2[MaxOrder - 1 - o]
           N == Pow2[o]
<1>4. c \in Nat /\ N \in Nat /\ Usable = j * (c * N)
  BY <1>1, <1>2, <1>3, Pow2Type
<1> HIDE DEF c, N
<1>5. Usable = (j * c) * N /\ j * c \in Nat
  BY <1>4, SMTT(30)
<1>6. QED
  BY <1>5 DEF N

\* A block is the i-th of its order.
LEMMA BlockNumber ==
  ASSUME NEW p, NEW o, Block(p, o)
  PROVE  \E i \in Nat : /\ p = i * Pow2[o] /\ p \div Pow2[o] = i /\ p \div Pow2[o + 1] = i \div 2
                        /\ i * Pow2[o] + Pow2[o] <= Usable
                        /\ i % 2 = 0 => (o + 1 < MaxOrder => i * Pow2[o] + Pow2[o] + Pow2[o] <= Usable)
<1>1. o \in Nat /\ p \in Nat /\ p < Usable /\ p % Pow2[o] = 0 /\ Pow2[o] \in Nat \ {0} /\ Usable \in Nat
  BY Pow2Type, BuddyAssumption DEF Block, Order, Page
<1>2. PICK i \in Nat : p = i * Pow2[o]
  BY <1>1, Multiple
<1>3. PICK j \in Nat : Usable = j * Pow2[o]
  BY UsableMultiple DEF Block
<1> DEFINE N == Pow2[o]
<1>4. N \in Nat \ {0} /\ p = i * N /\ Usable = j * N /\ p < Usable /\ Pow2[o + 1] = 2 * N
  BY <1>1, <1>2, <1>3, Pow2Type
<1>5. p \div N = i
  BY <1>2, <1>4, MultipleOf
<1>6. p \div Pow2[o + 1] = i \div 2
  <2>1. i = 2 * (i \div 2) + (i % 2) /\ i \div 2 \in Nat /\ i % 2 \in {0, 1}
    OBVIOUS
  <2> DEFINE h == i \div 2
             r == i % 2
  <2>2. i = 2 * h + r /\ h \in Nat /\ r \in {0, 1}
    BY <2>1
  <2> HIDE DEF h, r, N
  <2>3. r * N \in Nat /\ r * N < 2 * N
    BY <1>4, <2>2
  <2>4. p = h * (2 * N) + r * N
    <3>1. (2 * h + r) * N = h * (2 * N) + r * N
      BY <1>4, <2>2, SMTT(30)
    <3>2. QED
      BY <1>4, <2>2, <3>1
  <2>5. p \div (2 * N) = h
    <3> DEFINE M == 2 * N
               s == r * N
    <3>1. M \in Nat \ {0} /\ s \in Nat /\ s < M /\ p = h * M + s
      BY <1>4, <2>3, <2>4
    <3> HIDE DEF M, s
    <3>2. p \div M = h
      BY <1>1, <2>2, <3>1, Divided
    <3>3. QED
      BY <3>2 DEF M
  <2>6. QED
    BY <1>4, <2>5 DEF h
<1> HIDE DEF N
<1>7. i < j
  <2> SUFFICES ASSUME j <= i PROVE FALSE
    OBVIOUS
  <2>1. j * N <= i * N
    BY <1>4, SMTT(30)
  <2>2. QED
    BY <1>1, <1>4, <2>1
<1>8. i * N + N <= Usable
  <2>1. (i + 1) * N <= j * N /\ (i + 1) * N = i * N + N
    BY <1>4, <1>7, SMTT(30)
  <2>2. QED
    BY <1>4, <2>1
<1>9. ASSUME i % 2 = 0, o + 1 < MaxOrder PROVE i * N + N + N <= Usable
  <2>1. o + 1 \in Order
    BY <1>1, <1>9, BuddyAssumption DEF Order
  <2>2. PICK k \in Nat : Usable = k * Pow2[o + 1]
    BY <2>1, UsableMultiple
  <2>3. Usable = k * (2 * N)
    BY <1>4, <2>2
  <2>4. j = 2 * k
    <3>1. j * N = (2 * k) * N
      BY <1>4, <2>3, SMTT(30)
    <3>2. QED
      BY <1>4, <3>1, SMTT(30)
  <2>5. i + 2 <= j
    BY <1>7, <1>9, <2>4
  <2>6. (i + 2) * N <= j * N /\ (i + 2) * N = i * N + N + N
    BY <1>4, <2>5, SMTT(30)
  <2>7. QED
    BY <1>4, <2>6
<1>10. QED
  BY <1>2, <1>5, <1>6, <1>8, <1>9 DEF N

\* A block lies in memory.
LEMMA BlockInMemory ==
  ASSUME NEW p, NEW o, Block(p, o)
  PROVE  Extent(p, o) \subseteq Page /\ p \in Extent(p, o)
<1>1. PICK i \in Nat : p = i * Pow2[o] /\ i * Pow2[o] + Pow2[o] <= Usable
  BY BlockNumber
<1>2. o \in Nat /\ p \in Nat /\ Usable \in Nat
  BY BuddyAssumption DEF Block, Order, Page
<1>3. Pow2[o] \in Nat \ {0} /\ p + Pow2[o] <= Usable
  BY <1>1, <1>2, Pow2Type
<1>4. QED
  BY <1>2, <1>3 DEF Extent, Page

\* Two buddies are the halves of a block of the next order, with one bit.
LEMMA Buddies ==
  ASSUME NEW p, NEW o, Block(p, o), o + 1 < MaxOrder
  PROVE  LET b   == Buddy(p, o)
             low == IF b < p THEN b ELSE p IN
         /\ Block(b, o) /\ b # p /\ Buddy(b, o) = p /\ BitOf(b, o) = BitOf(p, o)
         /\ Block(low, o + 1)
         /\ Extent(low, o + 1) = Extent(p, o) \cup Extent(b, o)
         /\ Extent(p, o) \cap Extent(b, o) = {}
<1> DEFINE N == Pow2[o]
           b == Buddy(p, o)
           low == IF b < p THEN b ELSE p
<1>1. o \in Nat /\ o \in Order /\ p \in Nat /\ p < Usable /\ Usable \in Nat /\ N \in Nat \ {0}
      /\ Pow2[o + 1] = 2 * N
  BY Pow2Type, BuddyAssumption DEF Block, Order, Page
<1>2. PICK i \in Nat : /\ p = i * N /\ p \div N = i /\ p \div Pow2[o + 1] = i \div 2
                       /\ i * N + N <= Usable
                       /\ i % 2 = 0 => i * N + N + N <= Usable
  <2>1. \E i \in Nat : /\ p = i * Pow2[o] /\ p \div Pow2[o] = i /\ p \div Pow2[o + 1] = i \div 2
                       /\ i * Pow2[o] + Pow2[o] <= Usable
                       /\ i % 2 = 0 => (o + 1 < MaxOrder => i * Pow2[o] + Pow2[o] + Pow2[o] <= Usable)
    BY BlockNumber
  <2>2. QED
    BY <2>1
<1> DEFINE h == i \div 2
<1>3. h \in Nat /\ (i = 2 * h \/ i = 2 * h + 1) /\ (i % 2 = 0 <=> i = 2 * h)
  OBVIOUS
<1>4. b = IF i % 2 = 0 THEN p + N ELSE p - N
  BY <1>2 DEF Buddy
<1>5. o + 1 \in Order
  BY <1>1, BuddyAssumption DEF Order
<1>6. ASSUME NEW c \in Nat
      PROVE  /\ (c * N) % N = 0 /\ (c * N) \div N = c
             /\ (c * (2 * N)) % (2 * N) = 0
  <2>1. 2 * N \in Nat \ {0}
    BY <1>1
  <2> HIDE DEF N
  <2>2. QED
    BY <1>1, <2>1, MultipleOf
<1> HIDE DEF N
<1>7. 2 * h \in Nat /\ 2 * h + 1 \in Nat /\ (2 * h) % 2 = 0 /\ (2 * h + 1) % 2 = 1
      /\ (2 * h) \div 2 = h /\ (2 * h + 1) \div 2 = h
  <2> HIDE DEF h
  <2> QED
    BY <1>3
<1>8. (2 * h) * N = h * (2 * N) /\ (2 * h + 1) * N = (2 * h) * N + N
  <2> HIDE DEF h
  <2> QED
    BY <1>1, <1>3, SMTT(30)
<1>9. \E q \in Nat : q = h * (2 * N)
  <2> HIDE DEF h
  <2> QED
    BY <1>1, <1>3, SMTT(30)
<1>10. PICK q \in Nat : q = h * (2 * N)
  BY <1>9
<1>11. (p = q /\ b = q + N) \/ (p = q + N /\ b = q)
  BY <1>1, <1>2, <1>3, <1>4, <1>8, <1>10
<1>12. low = q /\ b # p /\ q + N + N <= Usable /\ b \in Nat
  <2>1. q + N + N <= Usable
    BY <1>1, <1>2, <1>3, <1>8, <1>10
  <2> HIDE DEF b
  <2>2. QED
    BY <1>1, <1>11, <2>1
<1>13. Block(low, o + 1)
  <2>1. q % Pow2[o + 1] = 0
    BY <1>1, <1>6, <1>10, <1>3
  <2>2. QED
    BY <1>1, <1>5, <1>12, <2>1 DEF Block, Page
<1>14. Block(b, o)
  <2>1. q = (2 * h) * N /\ q + N = (2 * h + 1) * N
    BY <1>8, <1>10
  <2>2. q % N = 0 /\ (q + N) % N = 0
    BY <1>6, <1>7, <2>1
  <2>3. b % N = 0
    BY <1>11, <2>2
  <2>4. b < Usable
    BY <1>1, <1>11, <1>12
  <2>5. QED
    BY <1>1, <1>12, <2>3, <2>4 DEF Block, Page, N
<1>15. Buddy(b, o) = p
  <2>1. q \div N = 2 * h /\ (q + N) \div N = 2 * h + 1
    <3>1. q = (2 * h) * N /\ q + N = (2 * h + 1) * N
      BY <1>8, <1>10
    <3>2. QED
      BY <1>6, <1>7, <3>1
  <2>2. Buddy(b, o) = IF (b \div N) % 2 = 0 THEN b + N ELSE b - N
    BY DEF Buddy, N
  <2> HIDE DEF h, b
  <2>3. CASE b = q /\ p = q + N
    BY <1>7, <2>1, <2>2, <2>3
  <2>4. CASE b = q + N /\ p = q
    BY <1>1, <1>7, <2>1, <2>2, <2>4
  <2>5. QED
    BY <1>11, <2>3, <2>4
<1>16. BitOf(b, o) = BitOf(p, o)
  <2>1. q \div (2 * N) = h /\ (q + N) \div (2 * N) = h
    <3> HIDE DEF h
    <3>1. 2 * N \in Nat \ {0} /\ N < 2 * N /\ 0 < 2 * N
      BY <1>1
    <3> DEFINE M == 2 * N
    <3>2. M \in Nat \ {0} /\ q = h * M + 0 /\ q + N = h * M + N /\ N \in Nat /\ N < M /\ 0 < M /\ q + N \in Nat
      BY <1>1, <1>10, <3>1
    <3> HIDE DEF M
    <3>3. q \div M = h
      BY <1>3, <1>10, <3>2, Divided
    <3>4. (q + N) \div M = h
      BY <1>3, <3>2, Divided
    <3>5. QED
      BY <3>3, <3>4 DEF M
  <2>2. BitOf(b, o) = 8 * MapStart[o] + b \div (2 * N) /\ BitOf(p, o) = 8 * MapStart[o] + p \div (2 * N)
    BY <1>1 DEF BitOf
  <2> HIDE DEF b, h
  <2>3. QED
    BY <1>11, <2>1, <2>2
<1>17. /\ Extent(low, o + 1) = Extent(p, o) \cup Extent(b, o)
       /\ Extent(p, o) \cap Extent(b, o) = {}
  <2>1. Extent(low, o + 1) = q .. (q + 2 * N - 1)
    BY <1>1, <1>12 DEF Extent
  <2>2. Extent(p, o) = p .. (p + N - 1) /\ Extent(b, o) = b .. (b + N - 1)
    BY DEF Extent, N
  <2> HIDE DEF b
  <2>3. QED
    BY <1>1, <1>11, <2>1, <2>2
<1>18. QED
  BY <1>12, <1>13, <1>14, <1>15, <1>16, <1>17

\* buddy_map[o + 1] lies behind the bits of order o.
LEMMA MapStartType ==
  /\ MapStart[0] = 0
  /\ \A n \in Nat : /\ MapStart[n] \in Nat
                    /\ MapStart[n + 1] = MapStart[n] + (PgCount \div Pow2[n + 1]) \div 8
<1>1. \A n \in Nat : (PgCount \div Pow2[n + 1]) \div 8 \in Nat
  <2> SUFFICES ASSUME NEW n \in Nat PROVE (PgCount \div Pow2[n + 1]) \div 8 \in Nat
    OBVIOUS
  <2>1. n + 1 \in Nat /\ Pow2[n + 1] \in Nat \ {0} /\ PgCount \in Nat
    BY Pow2Type, BuddyAssumption
  <2> DEFINE N == Pow2[n + 1]
             d == PgCount \div N
  <2>2. d \in Int /\ d >= 0
    <3> HIDE DEF N
    <3> QED
      BY <2>1, SMTT(30) DEF N
  <2> HIDE DEF d
  <2>3. d \div 8 \in Nat
    BY <2>2
  <2>4. QED
    BY <2>3 DEF d
<1> DEFINE G == [n \in Nat |-> [x \in Nat |-> x + (PgCount \div Pow2[n + 1]) \div 8]]
<1>2. G \in [Nat -> [Nat -> Nat]] /\ 0 \in Nat
  <2> SUFFICES ASSUME NEW n \in Nat, NEW x \in Nat
               PROVE  x + (PgCount \div Pow2[n + 1]) \div 8 \in Nat
    OBVIOUS
  <2> DEFINE e == (PgCount \div Pow2[n + 1]) \div 8
  <2>1. e \in Nat
    BY <1>1
  <2> HIDE DEF e
  <2>2. x + e \in Nat
    BY <2>1
  <2>3. QED
    BY <2>2 DEF e
<1>3. PICK f : Recursive(f, Nat, 0, G)
  <2> HIDE DEF G
  <2> QED
    BY <1>2, Recursion
<1>4. f = [n \in Nat |-> IF n = 0 THEN 0 ELSE f[n - 1] + (PgCount \div Pow2[n]) \div 8]
  <2>1. ASSUME NEW n \in Nat, n # 0 PROVE f[n] = f[n - 1] + (PgCount \div Pow2[n]) \div 8
    <3>1. n - 1 \in Nat /\ n - 1 + 1 = n
      BY <2>1
    <3>2. f[n] = G[n - 1][f[n - 1]] /\ f[n - 1] \in Nat
      <4> HIDE DEF G
      <4> QED
        BY <1>3, <3>1 DEF Recursive
    <3>3. G[n - 1][f[n - 1]] = f[n - 1] + (PgCount \div Pow2[n - 1 + 1]) \div 8
      BY <3>1, <3>2
    <3>4. QED
      BY <3>1, <3>2, <3>3
  <2>2. \A n \in Nat : f[n] = IF n = 0 THEN 0 ELSE f[n - 1] + (PgCount \div Pow2[n]) \div 8
    BY <1>3, <2>1 DEF Recursive
  <2>3. f \in [Nat -> Nat]
    BY <1>3 DEF Recursive
  <2>4. QED
    BY <2>2, <2>3
<1>5. MapStart = [n \in Nat |-> IF n = 0 THEN 0 ELSE MapStart[n - 1] + (PgCount \div Pow2[n]) \div 8]
  BY <1>4 DEF MapStart
<1>6. MapStart[0] = 0
  BY <1>5
<1>7. ASSUME NEW n \in Nat PROVE MapStart[n + 1] = MapStart[n] + (PgCount \div Pow2[n + 1]) \div 8
  <2>1. n + 1 \in Nat /\ n + 1 # 0 /\ n + 1 - 1 = n
    OBVIOUS
  <2>2. MapStart[n + 1] = MapStart[n + 1 - 1] + (PgCount \div Pow2[n + 1]) \div 8
    BY <1>5, <2>1
  <2>3. QED
    BY <2>1, <2>2
<1>8. \A n \in Nat : MapStart[n] \in Nat
  <2> DEFINE T == {n \in Nat : MapStart[n] \notin Nat}
  <2> SUFFICES ASSUME T # {} PROVE FALSE
    OBVIOUS
  <2>1. PICK m \in T : \A k \in T : m <= k
    BY LeastNumber
  <2>2. m # 0
    BY <1>6, <2>1
  <2>3. m - 1 \in Nat /\ m - 1 + 1 = m /\ MapStart[m - 1] \in Nat
    BY <2>1, <2>2
  <2>4. MapStart[m] = MapStart[m - 1] + (PgCount \div Pow2[m]) \div 8 /\ (PgCount \div Pow2[m]) \div 8 \in Nat
    BY <1>1, <1>7, <2>3
  <2> DEFINE e == (PgCount \div Pow2[m]) \div 8
  <2>5. MapStart[m] = MapStart[m - 1] + e /\ e \in Nat
    BY <2>4
  <2> HIDE DEF e
  <2>6. MapStart[m] \in Nat
    BY <2>3, <2>5
  <2>7. QED
    BY <2>1, <2>6
<1>9. QED
  BY <1>6, <1>7, <1>8

\* The bits of a higher order lie behind those of a lower one.
LEMMA MapStartGrows ==
  ASSUME NEW n \in Nat, NEW k \in Nat, n <= k
  PROVE  MapStart[n] <= MapStart[k]
<1> DEFINE T == {j \in Nat : n <= j /\ ~(MapStart[n] <= MapStart[j])}
<1> SUFFICES ASSUME T # {} PROVE FALSE
  OBVIOUS
<1>1. PICK m \in T : \A j \in T : m <= j
  BY LeastNumber
<1>2. MapStart[n] \in Nat /\ n <= m /\ m \in Nat /\ MapStart[m] \in Nat
  BY <1>1, MapStartType
<1>3. m # n
  BY <1>1, <1>2
<1>4. m - 1 \in Nat /\ m - 1 + 1 = m /\ n <= m - 1
  BY <1>2, <1>3
<1>5. MapStart[n] <= MapStart[m - 1]
  BY <1>1, <1>4
<1>6. MapStart[m - 1] <= MapStart[m]
  <2> DEFINE N == Pow2[m]
             e == (PgCount \div N) \div 8
  <2>1. N \in Nat \ {0} /\ PgCount \in Nat
    BY <1>2, Pow2Type, BuddyAssumption
  <2>2. e \in Int /\ e >= 0
    <3> HIDE DEF N
    <3>1. PgCount \div N \in Int /\ PgCount \div N >= 0
      BY <2>1, SMTT(30)
    <3> DEFINE d == PgCount \div N
    <3>2. d \in Int /\ d >= 0
      BY <3>1
    <3> HIDE DEF d
    <3>3. d \div 8 \in Int /\ d \div 8 >= 0
      BY <3>2
    <3>4. QED
      BY <3>3 DEF d
  <2>3. MapStart[m] = MapStart[m - 1] + e /\ MapStart[m - 1] \in Nat
    BY <1>4, MapStartType
  <2> HIDE DEF e
  <2>4. QED
    BY <2>2, <2>3
<1>7. MapStart[m - 1] \in Nat
  BY <1>4, MapStartType
<1>8. QED
  BY <1>1, <1>2, <1>5, <1>6, <1>7

\* Where the bit of a block lies.
LEMMA BitInOrder ==
  ASSUME NEW p, NEW o, Block(p, o), BitsFit
  PROVE  /\ BitOf(p, o) \in Nat /\ BitOf(p, o) >= 8 * MapStart[o]
         /\ o + 1 < MaxOrder => BitOf(p, o) < 8 * MapStart[o + 1]
<1>1. o \in Nat /\ o \in Order /\ p \in Nat /\ p < Usable /\ Usable \in Nat /\ Pow2[o] \in Nat \ {0}
      /\ Pow2[o + 1] = 2 * Pow2[o] /\ MapStart[o] \in Nat /\ MaxOrder \in Nat
  BY Pow2Type, MapStartType, BuddyAssumption DEF Block, Order, Page
<1> DEFINE N == Pow2[o + 1]
           d == p \div N
<1>2. N \in Nat \ {0}
  BY <1>1
<1>3. d \in Nat /\ N * d <= p
  <2> HIDE DEF N
  <2>1. d \in Int /\ d >= 0 /\ N * d <= p
    BY <1>1, <1>2, SMTT(30)
  <2>2. QED
    BY <2>1
<1>4. BitOf(p, o) = 8 * MapStart[o] + d
  BY DEF BitOf
<1>5. ASSUME o + 1 < MaxOrder PROVE d < 8 * ((PgCount \div N) \div 8)
  <2>1. o + 1 \in Order /\ o \in 0 .. MaxOrder - 2
    BY <1>1, <1>5 DEF Order
  <2>2. PICK j \in Nat : Usable = j * N
    BY <2>1, UsableMultiple
  <2>3. Usable \div N = j
    <3> HIDE DEF N
    <3> QED
      BY <1>2, <2>2, MultipleOf
  <2>4. j <= 8 * ((PgCount \div N) \div 8)
    BY <2>1, <2>3 DEF BitsFit
  <2>5. d < j
    <3> HIDE DEF N, d
    <3> SUFFICES ASSUME j <= d PROVE FALSE
      BY <1>3
    <3>1. j * N <= d * N /\ d * N = N * d
      BY <1>2, <1>3, SMTT(30)
    <3>2. QED
      BY <1>1, <1>2, <1>3, <2>2, <3>1
  <2> DEFINE e == (PgCount \div N) \div 8
  <2>6. e \in Int
    <3>1. PgCount \div N \in Int
      <4> HIDE DEF N
      <4> QED
        BY <1>2, BuddyAssumption
    <3>2. QED
      BY <3>1
  <2>7. j <= 8 * e /\ d < j
    BY <2>4, <2>5
  <2> HIDE DEF e, d
  <2>8. d < 8 * e
    BY <1>3, <2>6, <2>7
  <2>9. QED
    BY <2>8 DEF e
<1>6. o + 1 < MaxOrder => BitOf(p, o) < 8 * MapStart[o + 1]
  <2> SUFFICES ASSUME o + 1 < MaxOrder PROVE BitOf(p, o) < 8 * MapStart[o + 1]
    OBVIOUS
  <2> DEFINE e == (PgCount \div N) \div 8
  <2>1. d < 8 * e
    BY <1>5
  <2>2. MapStart[o + 1] = MapStart[o] + e
    BY <1>1, MapStartType
  <2>3. e \in Int
    <3>1. PgCount \div N \in Int
      <4> HIDE DEF N
      <4> QED
        BY <1>2, BuddyAssumption
    <3>2. QED
      BY <3>1
  <2> HIDE DEF e, d
  <2>4. QED
    BY <1>1, <1>3, <1>4, <2>1, <2>2, <2>3
<1> HIDE DEF d
<1>7. BitOf(p, o) \in Nat /\ BitOf(p, o) >= 8 * MapStart[o]
  BY <1>1, <1>3, <1>4
<1>8. QED
  BY <1>6, <1>7

\* Where an order has more pairs than bits, it has the first bit of the next one.
LEMMA ApartFits ==
  ASSUME OrdersApart
  PROVE  BitsFit
<1> SUFFICES ASSUME NEW o \in 0 .. MaxOrder - 2 PROVE Usable \div Pow2[o + 1] <= 8 * ((PgCount \div Pow2[o + 1]) \div 8)
  BY DEF BitsFit
<1> DEFINE N == Pow2[o + 1]
           e == (PgCount \div N) \div 8
<1>1. /\ o \in Nat /\ o + 1 \in Nat /\ o \in Order /\ o + 1 \in Order /\ o # o + 1
      /\ N \in Nat \ {0} /\ MapStart[o] \in Nat /\ MapStart[o + 1] = MapStart[o] + e
      /\ Usable \in Nat \ {0} /\ MapStart[o + 1] \in Nat /\ Pow2[o + 1 + 1] \in Nat \ {0}
  BY Pow2Type, MapStartType, BuddyAssumption DEF Order
<1>2. e \in Nat
  <2> HIDE DEF N
  <2>1. PgCount \div N \in Int /\ PgCount \div N >= 0
    BY <1>1, BuddyAssumption, SMTT(30)
  <2>2. QED
    BY <2>1
<1>3. PICK j \in Nat : Usable = j * N /\ Usable \div N = j
  <2>1. PICK j \in Nat : Usable = j * N
    BY <1>1, UsableMultiple
  <2> HIDE DEF N
  <2>2. QED
    BY <1>1, <2>1, MultipleOf
<1> SUFFICES ASSUME 8 * e < j PROVE FALSE
  <2> HIDE DEF N, e
  <2>1. j <= 8 * e
    BY <1>2
  <2>2. QED
    BY <1>3, <2>1 DEF N, e
<1> DEFINE p == (8 * e) * N
<1>4. p \in Page /\ p \div N = 8 * e
  <2> HIDE DEF N, e
  <2>1. 8 * e \in Nat /\ 8 * e + 1 <= j
    BY <1>2, <1>3
  <2>2. p \in Nat /\ p \div N = 8 * e
    BY <1>1, <2>1, MultipleOf
  <2>3. PICK c \in Nat : c = 8 * e
    BY <2>1
  <2>4. c * N < j * N
    BY <1>1, <1>3, <2>1, <2>3, SMTT(30)
  <2>5. QED
    BY <1>1, <1>3, <2>2, <2>3, <2>4 DEF Page
<1>5. 0 \in Page /\ 0 \div Pow2[o + 1 + 1] = 0
  BY <1>1 DEF Page
<1>6. BitOf(p, o) = 8 * MapStart[o] + 8 * e
  BY <1>4 DEF BitOf
<1>7. BitOf(0, o + 1) = 8 * MapStart[o + 1]
  BY <1>1, <1>5 DEF BitOf
<1>8. BitOf(p, o) = BitOf(0, o + 1)
  <2> HIDE DEF e, p
  <2>1. QED
    BY <1>1, <1>2, <1>6, <1>7
<1>9. QED
  BY <1>1, <1>4, <1>5, <1>8 DEF OrdersApart

\* Only a block and its buddy have the same bit.
LEMMA SameBit ==
  ASSUME NEW p, NEW o, Block(p, o), NEW r, NEW k, Block(r, k), o + 1 < MaxOrder,
         BitsFit, BitOf(r, k) = BitOf(p, o)
  PROVE  k = o /\ (r = p \/ r = Buddy(p, o))
<1>1. o \in Nat /\ k \in Nat /\ MaxOrder \in Nat /\ k < MaxOrder
  BY BuddyAssumption DEF Block, Order
<1>2. /\ MapStart[o] \in Nat /\ MapStart[k] \in Nat /\ MapStart[o + 1] \in Nat /\ MapStart[k + 1] \in Nat
  BY <1>1, MapStartType
<1>3. k = o
  <2>1. ASSUME k < o PROVE FALSE
    <3>1. k + 1 <= o /\ k + 1 < MaxOrder
      BY <1>1, <2>1
    <3>2. MapStart[k + 1] <= MapStart[o]
      BY <1>1, <3>1, MapStartGrows
    <3>3. BitOf(r, k) < 8 * MapStart[k + 1] /\ BitOf(p, o) >= 8 * MapStart[o] /\ BitOf(p, o) \in Nat
      BY <3>1, BitInOrder
    <3>4. QED
      BY <1>2, <3>2, <3>3
  <2>2. ASSUME o < k PROVE FALSE
    <3>1. o + 1 <= k
      BY <1>1, <2>2
    <3>2. MapStart[o + 1] <= MapStart[k]
      BY <1>1, <3>1, MapStartGrows
    <3>3. BitOf(p, o) < 8 * MapStart[o + 1] /\ BitOf(r, k) >= 8 * MapStart[k] /\ BitOf(r, k) \in Nat
      BY BitInOrder
    <3>4. QED
      BY <1>2, <3>2, <3>3
  <2>3. QED
    BY <1>1, <2>1, <2>2
<1> DEFINE N == Pow2[o]
<1>4. N \in Nat \ {0}
  BY <1>1, Pow2Type
<1>5. PICK i \in Nat : p = i * N /\ p \div N = i /\ p \div Pow2[o + 1] = i \div 2
  BY BlockNumber
<1>6. PICK j \in Nat : r = j * N /\ r \div N = j /\ r \div Pow2[o + 1] = j \div 2
  <2>1. Block(r, o)
    BY <1>3
  <2>2. QED
    BY <2>1, BlockNumber
<1>7. i \div 2 = j \div 2
  <2>1. BitOf(p, o) = 8 * MapStart[o] + i \div 2 /\ BitOf(r, k) = 8 * MapStart[o] + j \div 2
    BY <1>3, <1>5, <1>6 DEF BitOf
  <2> DEFINE x == i \div 2
             y == j \div 2
  <2>2. x \in Int /\ y \in Int
    OBVIOUS
  <2>3. 8 * MapStart[o] + x = 8 * MapStart[o] + y
    BY <2>1
  <2> HIDE DEF x, y
  <2>4. x = y
    BY <1>2, <2>2, <2>3
  <2>5. QED
    BY <2>4 DEF x, y
<1>8. Buddy(p, o) = IF i % 2 = 0 THEN p + N ELSE p - N
  BY <1>5 DEF Buddy
<1>9. j = i \/ (i % 2 = 0 /\ j = i + 1) \/ (i % 2 # 0 /\ j = i - 1)
  BY <1>7
<1> HIDE DEF N
<1>10. CASE i % 2 = 0 /\ j = i + 1
  <2>1. j * N = i * N + N
    BY <1>4, <1>10, SMTT(30)
  <2>2. QED
    BY <1>3, <1>5, <1>6, <1>8, <1>10, <2>1
<1>11. CASE i % 2 # 0 /\ j = i - 1
  <2>1. i * N = j * N + N /\ j * N \in Int
    BY <1>4, <1>11, SMTT(30)
  <2>2. r = p - N
    BY <1>4, <1>5, <1>6, <2>1
  <2>3. QED
    BY <1>3, <1>8, <1>11, <2>2
<1>12. QED
  BY <1>3, <1>5, <1>6, <1>9, <1>10, <1>11

-----------------------------------------------------------------------------
(* The free lists and the bits, when exactly the pages U are in use *)

Avail(list, o) == ToSet(list[o])

ListsRight(list) ==
  /\ list \in [Order -> Seq(Page)]
  /\ \A o \in Order : IsInjective(list[o]) /\ \A p \in Avail(list, o) : Block(p, o)

Apart(list) ==
  \A o, k \in Order : \A p \in Avail(list, o), r \in Avail(list, k) :
    (p # r \/ o # k) => Extent(p, o) \cap Extent(r, k) = {}

\* A page is in a free block or in use.
Covered(list, U) ==
  /\ \A q \in U : q \in Page /\ \A o \in Order : \A p \in Avail(list, o) : q \notin Extent(p, o)
  /\ \A q \in Page \ U : \E o \in Order : \E p \in Avail(list, o) : q \in Extent(p, o)

\* The bit of a pair tells whether exactly one of the two is free.
BitsRight(list, map) ==
  \A o \in Order : \A p \in Page : (Block(p, o) /\ o + 1 < MaxOrder) =>
    /\ (BitOf(p, o) \in map) <=> ((p \in Avail(list, o)) # (Buddy(p, o) \in Avail(list, o)))
    /\ ~(p \in Avail(list, o) /\ Buddy(p, o) \in Avail(list, o))

Arena(list, map, U) ==
  ListsRight(list) /\ Apart(list) /\ Covered(list, U) /\ BitsRight(list, map)

\* Taking one block out of its list, or putting one in, inverts one bit: that of its
\* pair and of no other.
LEMMA BitsFollow ==
  ASSUME BitsFit,
         NEW list, NEW map, NEW other, NEW p, NEW o, Block(p, o),
         BitsRight(list, map),
         \A k \in Order : k # o => Avail(other, k) = Avail(list, k),
         \/ p \in Avail(list, o) /\ Avail(other, o) = Avail(list, o) \ {p}
         \/ /\ p \notin Avail(list, o) /\ Avail(other, o) = Avail(list, o) \cup {p}
            /\ o + 1 < MaxOrder => Buddy(p, o) \notin Avail(list, o)
  PROVE  BitsRight(other, XorBit(map, BitOf(p, o)))
<1> DEFINE new == XorBit(map, BitOf(p, o))
<1> SUFFICES ASSUME NEW k \in Order, NEW r \in Page, Block(r, k), k + 1 < MaxOrder
             PROVE  /\ (BitOf(r, k) \in new) <=> ((r \in Avail(other, k)) # (Buddy(r, k) \in Avail(other, k)))
                    /\ ~(r \in Avail(other, k) /\ Buddy(r, k) \in Avail(other, k))
  BY DEF BitsRight
<1>1. /\ (BitOf(r, k) \in map) <=> ((r \in Avail(list, k)) # (Buddy(r, k) \in Avail(list, k)))
      /\ ~(r \in Avail(list, k) /\ Buddy(r, k) \in Avail(list, k))
  BY DEF BitsRight
<1>2. BitOf(r, k) # BitOf(p, o) => ((BitOf(r, k) \in new) <=> (BitOf(r, k) \in map))
  BY DEF XorBit
<1>3. BitOf(r, k) = BitOf(p, o) => ((BitOf(r, k) \in new) <=> (BitOf(r, k) \notin map))
  BY DEF XorBit
<1>4. Buddy(r, k) # r /\ Buddy(Buddy(r, k), k) = r /\ BitOf(Buddy(r, k), k) = BitOf(r, k) /\ Block(Buddy(r, k), k)
  BY Buddies
<1>5. CASE k # o
  <2>1. BitOf(r, k) # BitOf(p, o)
    <3> SUFFICES ASSUME BitOf(r, k) = BitOf(p, o) PROVE FALSE
      OBVIOUS
    <3>1. o = k
      BY SameBit
    <3>2. QED
      BY <1>5, <3>1
  <2>2. Avail(other, k) = Avail(list, k)
    BY <1>5
  <2>3. QED
    BY <1>1, <1>2, <2>1, <2>2
<1>6. CASE k = o /\ r # p /\ Buddy(r, k) # p
  <2>1. BitOf(r, k) # BitOf(p, o)
    <3> SUFFICES ASSUME BitOf(p, o) = BitOf(r, k) PROVE FALSE
      OBVIOUS
    <3>1. p = r \/ p = Buddy(r, k)
      BY SameBit
    <3>2. QED
      BY <1>6, <3>1
  <2>2. (r \in Avail(other, k) <=> r \in Avail(list, k)) /\ (Buddy(r, k) \in Avail(other, k) <=> Buddy(r, k) \in Avail(list, k))
    BY <1>6
  <2>3. QED
    BY <1>1, <1>2, <2>1, <2>2
<1>7. CASE k = o /\ r = p
  <2>1. BitOf(r, k) = BitOf(p, o) /\ Buddy(r, k) = Buddy(p, o)
    BY <1>7
  <2>2. (Buddy(r, k) \in Avail(other, k) <=> Buddy(r, k) \in Avail(list, k))
    BY <1>4, <1>7
  <2>3. QED
    BY <1>1, <1>3, <1>7, <2>1, <2>2
<1>8. CASE k = o /\ Buddy(r, k) = p
  <2>1. BitOf(r, k) = BitOf(p, o) /\ r = Buddy(p, o)
    BY <1>4, <1>8
  <2>2. (r \in Avail(other, k) <=> r \in Avail(list, k))
    BY <1>4, <1>8
  <2>3. QED
    BY <1>1, <1>3, <1>8, <2>1, <2>2
<1>9. QED
  BY <1>5, <1>6, <1>7, <1>8

\* A free block that leaves its list is in use.
LEMMA BlockTaken ==
  ASSUME BitsFit,
         NEW list, NEW map, NEW U, Arena(list, map, U),
         NEW o \in Order, NEW p \in Avail(list, o), NEW s \in Seq(Page),
         IsInjective(s), ToSet(s) = Avail(list, o) \ {p}
  PROVE  Arena([list EXCEPT ![o] = s], XorBit(map, BitOf(p, o)), U \cup Extent(p, o))
<1> DEFINE other == [list EXCEPT ![o] = s]
<1>1. /\ list \in [Order -> Seq(Page)] /\ Block(p, o)
      /\ \A k \in Order : IsInjective(list[k]) /\ \A r \in Avail(list, k) : Block(r, k)
  BY DEF Arena, ListsRight
<1>2. /\ other \in [Order -> Seq(Page)]
      /\ Avail(other, o) = Avail(list, o) \ {p}
      /\ \A k \in Order : k # o => Avail(other, k) = Avail(list, k)
      /\ \A k \in Order : IsInjective(other[k]) /\ Avail(other, k) \subseteq Avail(list, k)
  BY <1>1 DEF Avail
<1> HIDE DEF other
<1>3. ListsRight(other)
  BY <1>1, <1>2 DEF ListsRight
<1>4. Apart(other)
  BY <1>2 DEF Apart, Arena
<1>5. BitsRight(other, XorBit(map, BitOf(p, o)))
  BY <1>1, <1>2, BitsFollow DEF Arena
<1>6. Covered(other, U \cup Extent(p, o))
  <2>1. ASSUME NEW q \in U
        PROVE  q \in Page /\ \A k \in Order : \A r \in Avail(other, k) : q \notin Extent(r, k)
    BY <1>2 DEF Arena, Covered
  <2>2. ASSUME NEW q \in Extent(p, o)
        PROVE  q \in Page /\ \A k \in Order : \A r \in Avail(other, k) : q \notin Extent(r, k)
    <3>1. q \in Page
      BY <1>1, BlockInMemory
    <3>2. ASSUME NEW k \in Order, NEW r \in Avail(other, k) PROVE q \notin Extent(r, k)
      <4>1. r \in Avail(list, k) /\ (r # p \/ k # o)
        BY <1>2
      <4>2. Extent(p, o) \cap Extent(r, k) = {}
        BY <4>1 DEF Arena, Apart
      <4>3. QED
        BY <4>2
    <3>3. QED
      BY <3>1, <3>2
  <2>3. ASSUME NEW q \in Page, q \notin U, q \notin Extent(p, o)
        PROVE  \E k \in Order : \E r \in Avail(other, k) : q \in Extent(r, k)
    <3>1. PICK k \in Order : \E r \in Avail(list, k) : q \in Extent(r, k)
      BY <2>3 DEF Arena, Covered
    <3>2. PICK r \in Avail(list, k) : q \in Extent(r, k)
      BY <3>1
    <3>3. r \in Avail(other, k)
      BY <1>2, <2>3, <3>2
    <3>4. QED
      BY <3>2, <3>3
  <2>4. QED
    BY <2>1, <2>2, <2>3 DEF Covered
<1>7. QED
  BY <1>3, <1>4, <1>5, <1>6 DEF Arena, other

\* A used block that enters its list is free; its buddy must not be.
LEMMA BlockPutBack ==
  ASSUME BitsFit,
         NEW list, NEW map, NEW U, Arena(list, map, U),
         NEW o \in Order, NEW p, Block(p, o), Extent(p, o) \subseteq U,
         o + 1 < MaxOrder => Buddy(p, o) \notin Avail(list, o),
         NEW s \in Seq(Page), IsInjective(s), ToSet(s) = Avail(list, o) \cup {p}
  PROVE  Arena([list EXCEPT ![o] = s], XorBit(map, BitOf(p, o)), U \ Extent(p, o))
<1> DEFINE other == [list EXCEPT ![o] = s]
<1>1. /\ list \in [Order -> Seq(Page)]
      /\ \A k \in Order : IsInjective(list[k]) /\ \A r \in Avail(list, k) : Block(r, k)
  BY DEF Arena, ListsRight
<1>2. /\ other \in [Order -> Seq(Page)]
      /\ Avail(other, o) = Avail(list, o) \cup {p}
      /\ \A k \in Order : k # o => Avail(other, k) = Avail(list, k)
      /\ \A k \in Order : IsInjective(other[k]) /\ Avail(list, k) \subseteq Avail(other, k)
  BY <1>1 DEF Avail
<1> HIDE DEF other
<1>3. ListsRight(other)
  BY <1>1, <1>2 DEF ListsRight
<1>4. \A k \in Order : \A r \in Avail(list, k) : Extent(p, o) \cap Extent(r, k) = {}
  BY DEF Arena, Covered
<1>5. Apart(other)
  <2> SUFFICES ASSUME NEW j \in Order, NEW k \in Order, NEW q \in Avail(other, j), NEW r \in Avail(other, k),
                      q # r \/ j # k
               PROVE  Extent(q, j) \cap Extent(r, k) = {}
    BY DEF Apart
  <2>1. CASE q \in Avail(list, j) /\ r \in Avail(list, k)
    BY <2>1 DEF Arena, Apart
  <2>2. CASE q \notin Avail(list, j)
    <3>1. q = p /\ j = o /\ r \in Avail(list, k)
      BY <1>2, <2>2
    <3>2. QED
      BY <1>4, <3>1
  <2>3. CASE r \notin Avail(list, k)
    <3>1. r = p /\ k = o /\ q \in Avail(list, j)
      BY <1>2, <2>3
    <3>2. QED
      BY <1>4, <3>1
  <2>4. QED
    BY <2>1, <2>2, <2>3
<1>6. p \notin Avail(list, o)
  <2>1. p \in Extent(p, o)
    BY BlockInMemory
  <2>2. QED
    BY <1>4, <2>1
<1>7. BitsRight(other, XorBit(map, BitOf(p, o)))
  BY <1>1, <1>2, <1>6, BitsFollow DEF Arena
<1>8. Covered(other, U \ Extent(p, o))
  <2>1. ASSUME NEW q \in U, q \notin Extent(p, o)
        PROVE  q \in Page /\ \A k \in Order : \A r \in Avail(other, k) : q \notin Extent(r, k)
    <3>1. q \in Page /\ \A k \in Order : \A r \in Avail(list, k) : q \notin Extent(r, k)
      BY DEF Arena, Covered
    <3>2. QED
      BY <1>2, <2>1, <3>1
  <2>2. ASSUME NEW q \in Page, q \notin U \ Extent(p, o)
        PROVE  \E k \in Order : \E r \in Avail(other, k) : q \in Extent(r, k)
    <3>1. CASE q \in Extent(p, o)
      BY <1>2, <3>1
    <3>2. CASE q \notin U
      <4>1. PICK k \in Order : \E r \in Avail(list, k) : q \in Extent(r, k)
        BY <2>2, <3>2 DEF Arena, Covered
      <4>2. QED
        BY <1>2, <4>1
    <3>3. QED
      BY <2>2, <3>1, <3>2
  <2>3. QED
    BY <2>1, <2>2 DEF Covered
<1>9. QED
  BY <1>3, <1>5, <1>7, <1>8 DEF Arena, other

-----------------------------------------------------------------------------
(* Allocation *)

\* What is computed on the way: m need not be a state of the allocator for this.
Loose ==
  [list : [Order -> Seq(Int)], map : SUBSET Int, type : [Page -> PageType],
   ref : [Page -> Int], damaged : BOOLEAN]
Step == [mem : Loose, page : Int]

\* z is m but for the type and the references of a block.
Marks(z, m, p, o, type, ref) ==
  /\ z.list = m.list /\ z.map = m.map /\ z.damaged = m.damaged
  /\ \A q \in Page : /\ z.type[q] = IF q \in Extent(p, o) THEN type ELSE m.type[q]
                     /\ z.ref[q] = IF q \in Extent(p, o) THEN ref ELSE m.ref[q]

\* set_page_info changes types and references of one block.
LEMMA LooseSetInfo ==
  ASSUME NEW m \in Loose, NEW p, NEW o, NEW type \in PageType, NEW ref \in Int
  PROVE  /\ SetInfo(m, p, o, type, ref) \in Loose
         /\ Marks(SetInfo(m, p, o, type, ref), m, p, o, type, ref)
<1> HIDE DEF Extent
<1>1. m.type \in [Page -> PageType] /\ m.ref \in [Page -> Int]
  BY DEF Loose
<1> DEFINE t == [q \in Page |-> IF q \in Extent(p, o) THEN type ELSE m.type[q]]
           r == [q \in Page |-> IF q \in Extent(p, o) THEN ref ELSE m.ref[q]]
<1>2. t \in [Page -> PageType] /\ r \in [Page -> Int]
  BY <1>1
<1>3. SetInfo(m, p, o, type, ref) = [m EXCEPT !.type = t, !.ref = r]
  BY DEF SetInfo
<1> HIDE DEF t, r
<1>4. /\ [m EXCEPT !.type = t, !.ref = r] \in Loose
      /\ [m EXCEPT !.type = t, !.ref = r].list = m.list
      /\ [m EXCEPT !.type = t, !.ref = r].map = m.map
      /\ [m EXCEPT !.type = t, !.ref = r].damaged = m.damaged
      /\ [m EXCEPT !.type = t, !.ref = r].type = t
      /\ [m EXCEPT !.type = t, !.ref = r].ref = r
  BY <1>2 DEF Loose
<1>5. QED
  BY <1>3, <1>4 DEF t, r, Marks

\* The number of a bit is a number.
LEMMA BitOfType ==
  ASSUME NEW p \in Int, NEW o \in Nat
  PROVE  BitOf(p, o) \in Int
<1>1. Pow2[o + 1] \in Nat \ {0} /\ MapStart[o] \in Nat
  BY Pow2Type, MapStartType
<1>2. p \div Pow2[o + 1] \in Int
  BY <1>1
<1>3. QED
  BY <1>1, <1>2 DEF BitOf

\* The head of a list is a block; the rest is the list without it.
LEMMA HeadAndTail ==
  ASSUME NEW S, NEW s \in Seq(S), s # <<>>
  PROVE  /\ Head(s) \in ToSet(s) /\ Head(s) \in S /\ Tail(s) \in Seq(S)
         /\ IsInjective(s) => IsInjective(Tail(s)) /\ ToSet(Tail(s)) = ToSet(s) \ {Head(s)}
<1>1. Len(s) \in Nat /\ Len(s) # 0 /\ DOMAIN s = 1 .. Len(s)
  BY EmptySeq, LenProperties
<1>2. /\ Head(s) = s[1] /\ Tail(s) \in Seq(S) /\ Len(Tail(s)) = Len(s) - 1
      /\ \A i \in 1 .. Len(s) - 1 : Tail(s)[i] = s[i + 1]
  BY <1>1, HeadTailProperties
<1>3. DOMAIN Tail(s) = 1 .. Len(s) - 1
  BY <1>2, LenProperties
<1>4. Head(s) \in ToSet(s) /\ Head(s) \in S
  BY <1>1, <1>2, ElementOfSeq DEF ToSet
<1>5. ASSUME IsInjective(s) PROVE IsInjective(Tail(s)) /\ ToSet(Tail(s)) = ToSet(s) \ {Head(s)}
  <2>1. \A i, j \in 1 .. Len(s) : s[i] = s[j] => i = j
    BY <1>1, <1>5 DEF IsInjective
  <2>2. IsInjective(Tail(s))
    <3>1. ASSUME NEW i \in 1 .. Len(s) - 1, NEW j \in 1 .. Len(s) - 1, Tail(s)[i] = Tail(s)[j]
          PROVE  i = j
      <4>1. i + 1 \in 1 .. Len(s) /\ j + 1 \in 1 .. Len(s) /\ s[i + 1] = s[j + 1]
        BY <1>1, <1>2, <3>1
      <4>2. QED
        BY <2>1, <4>1
    <3>2. QED
      BY <1>3, <3>1 DEF IsInjective
  <2>3. ASSUME NEW x \in ToSet(Tail(s)) PROVE x \in ToSet(s) /\ x # Head(s)
    <3>1. PICK i \in 1 .. Len(s) - 1 : x = Tail(s)[i]
      BY <1>3 DEF ToSet
    <3>2. i + 1 \in 1 .. Len(s) /\ 1 \in 1 .. Len(s) /\ x = s[i + 1] /\ i + 1 # 1
      BY <1>1, <1>2, <3>1
    <3>3. QED
      BY <1>1, <1>2, <2>1, <3>2 DEF ToSet
  <2>4. ASSUME NEW x \in ToSet(s), x # Head(s) PROVE x \in ToSet(Tail(s))
    <3>1. PICK i \in 1 .. Len(s) : x = s[i]
      BY <1>1 DEF ToSet
    <3>2. i - 1 \in 1 .. Len(s) - 1 /\ i - 1 + 1 = i
      BY <1>1, <1>2, <2>4, <3>1
    <3>3. Tail(s)[i - 1] = x
      BY <1>2, <3>1, <3>2
    <3>4. QED
      BY <1>3, <3>2, <3>3 DEF ToSet
  <2>5. QED
    BY <2>2, <2>3, <2>4
<1>6. QED
  BY <1>2, <1>4, <1>5

\* And one more in front.
LEMMA OneInFront ==
  ASSUME NEW S, NEW s \in Seq(S), NEW x \in S
  PROVE  /\ <<x>> \o s \in Seq(S)
         /\ (IsInjective(s) /\ x \notin ToSet(s)) => IsInjective(<<x>> \o s)
         /\ ToSet(<<x>> \o s) = ToSet(s) \cup {x}
<1> DEFINE t == <<x>> \o s
<1>1. Len(s) \in Nat /\ DOMAIN s = 1 .. Len(s)
  BY LenProperties
<1>2. <<x>> \in Seq(S) /\ Len(<<x>>) = 1 /\ <<x>>[1] = x
  OBVIOUS
<1>3. /\ t \in Seq(S) /\ Len(t) = 1 + Len(s)
      /\ \A i \in 1 .. 1 + Len(s) : t[i] = IF i <= 1 THEN <<x>>[i] ELSE s[i - 1]
  BY <1>2, ConcatProperties
<1> HIDE DEF t
<1>4. DOMAIN t = 1 .. 1 + Len(s) /\ t[1] = x /\ \A i \in 1 .. Len(s) : t[i + 1] = s[i]
  <2>1. DOMAIN t = 1 .. 1 + Len(s)
    BY <1>3, LenProperties
  <2>2. t[1] = x
    BY <1>1, <1>2, <1>3
  <2>3. ASSUME NEW i \in 1 .. Len(s) PROVE t[i + 1] = s[i]
    <3>1. i + 1 \in 1 .. 1 + Len(s) /\ ~(i + 1 <= 1) /\ i + 1 - 1 = i
      BY <1>1
    <3>2. QED
      BY <1>3, <3>1
  <2>4. QED
    BY <2>1, <2>2, <2>3
<1>5. \A i \in 1 .. 1 + Len(s) : i = 1 \/ (i - 1 \in 1 .. Len(s) /\ t[i] = s[i - 1])
  <2> SUFFICES ASSUME NEW i \in 1 .. 1 + Len(s), i # 1 PROVE i - 1 \in 1 .. Len(s) /\ t[i] = s[i - 1]
    OBVIOUS
  <2>1. i - 1 \in 1 .. Len(s) /\ i - 1 + 1 = i
    BY <1>1
  <2>2. QED
    BY <1>4, <2>1
<1>6. ASSUME IsInjective(s), x \notin ToSet(s) PROVE IsInjective(t)
  <2> SUFFICES ASSUME NEW i \in 1 .. 1 + Len(s), NEW j \in 1 .. 1 + Len(s), t[i] = t[j] PROVE i = j
    BY <1>4 DEF IsInjective
  <2>1. \A k \in 1 .. Len(s) : s[k] # x
    BY <1>1, <1>6 DEF ToSet
  <2>2. \A k, l \in 1 .. Len(s) : s[k] = s[l] => k = l
    BY <1>1, <1>6 DEF IsInjective
  <2>3. QED
    BY <1>1, <1>4, <1>5, <2>1, <2>2
<1>7. ToSet(t) = ToSet(s) \cup {x}
  <2>1. ASSUME NEW y \in ToSet(t) PROVE y \in ToSet(s) \cup {x}
    <3>1. PICK i \in 1 .. 1 + Len(s) : y = t[i]
      BY <1>4 DEF ToSet
    <3>2. i = 1 => y = x
      BY <1>4, <3>1
    <3>3. i # 1 => y \in ToSet(s)
      BY <1>1, <1>5, <3>1 DEF ToSet
    <3>4. QED
      BY <3>2, <3>3
  <2>2. x \in ToSet(t)
    BY <1>1, <1>4 DEF ToSet
  <2>3. ASSUME NEW y \in ToSet(s) PROVE y \in ToSet(t)
    <3>1. PICK i \in 1 .. Len(s) : y = s[i]
      BY <1>1 DEF ToSet
    <3>2. i + 1 \in 1 .. 1 + Len(s) /\ t[i + 1] = y
      BY <1>1, <1>4, <3>1
    <3>3. QED
      BY <1>4, <3>2 DEF ToSet
  <2>4. QED
    BY <2>1, <2>2, <2>3
<1>8. QED
  BY <1>3, <1>6, <1>7 DEF t

\* What TakeFirst and UpperHalf do, field by field.
LEMMA TakeFirstFields ==
  ASSUME NEW m \in Loose, NEW o \in Order, NEW type \in PageType, m.list[o] # <<>>
  PROVE  LET a == TakeFirst(m, o, type)
             p == Head(m.list[o]) IN
         /\ a \in Step /\ a.page = p /\ p \in Int
         /\ a.mem.list = [m.list EXCEPT ![o] = Tail(m.list[o])]
         /\ a.mem.map = XorBit(m.map, BitOf(p, o))
         /\ a.mem.damaged = m.damaged
         /\ \A q \in Page : /\ a.mem.type[q] = IF q \in Extent(p, o) THEN type ELSE m.type[q]
                            /\ a.mem.ref[q] = IF q \in Extent(p, o) THEN 1 ELSE m.ref[q]
<1> DEFINE p == Head(m.list[o])
           n == [m EXCEPT !.list[o] = Tail(@), !.map = XorBit(@, BitOf(p, o))]
<1>1. m.list \in [Order -> Seq(Int)] /\ m.map \in SUBSET Int /\ o \in Nat
  BY DEF Loose, Order
<1>2. p \in Int /\ Tail(m.list[o]) \in Seq(Int)
  BY <1>1, HeadAndTail
<1>3. XorBit(m.map, BitOf(p, o)) \in SUBSET Int
  BY <1>1, <1>2, BitOfType DEF XorBit
<1>4. [m.list EXCEPT ![o] = Tail(m.list[o])] \in [Order -> Seq(Int)]
  BY <1>1, <1>2
<1> DEFINE L == [m.list EXCEPT ![o] = Tail(m.list[o])]
           X == XorBit(m.map, BitOf(p, o))
<1>5. n = [m EXCEPT !.list = L, !.map = X]
  BY <1>1 DEF Loose
<1> HIDE DEF L, X
<1>6. /\ [m EXCEPT !.list = L, !.map = X] \in Loose
      /\ [m EXCEPT !.list = L, !.map = X].list = L
      /\ [m EXCEPT !.list = L, !.map = X].map = X
      /\ [m EXCEPT !.list = L, !.map = X].damaged = m.damaged
      /\ [m EXCEPT !.list = L, !.map = X].type = m.type
      /\ [m EXCEPT !.list = L, !.map = X].ref = m.ref
  BY <1>3, <1>4 DEF Loose, L, X
<1>7. n \in Loose /\ n.list = L /\ n.map = X /\ n.damaged = m.damaged /\ n.type = m.type /\ n.ref = m.ref
  BY <1>5, <1>6
<1>8. TakeFirst(m, o, type) = [page |-> p, mem |-> SetInfo(n, p, o, type, 1)]
  BY DEF TakeFirst
<1> HIDE DEF n, p
<1>9. SetInfo(n, p, o, type, 1) \in Loose /\ Marks(SetInfo(n, p, o, type, 1), n, p, o, type, 1)
  <2>1. n \in Loose /\ type \in PageType /\ 1 \in Int
    BY <1>7
  <2>2. QED
    BY <2>1, LooseSetInfo, Zenon
<1> DEFINE z == SetInfo(n, p, o, type, 1)
<1> HIDE DEF z
<1>10. TakeFirst(m, o, type) = [page |-> p, mem |-> z] /\ z \in Loose
  BY <1>8, <1>9 DEF z
<1>11. TakeFirst(m, o, type) \in Step /\ TakeFirst(m, o, type).page = p /\ TakeFirst(m, o, type).mem = z
  BY <1>2, <1>10 DEF Step
<1>12. QED
  BY <1>2, <1>7, <1>9, <1>11 DEF L, X, z, p, Marks

\* One list gets other blocks, one bit is inverted.
Relists(n, m, o, l, b) ==
  /\ n.list = [m.list EXCEPT ![o] = l] /\ n.map = XorBit(m.map, b)
  /\ n.damaged = m.damaged /\ n.type = m.type /\ n.ref = m.ref

\* One list and one bit, field by field.
LEMMA LooseRelisted ==
  ASSUME NEW m \in Loose, NEW o \in Order, NEW l \in Seq(Int), NEW b \in Int,
         NEW n, n = [m EXCEPT !.list = [m.list EXCEPT ![o] = l], !.map = XorBit(m.map, b)]
  PROVE  n \in Loose /\ Relists(n, m, o, l, b)
<1> DEFINE L == [m.list EXCEPT ![o] = l]
           X == XorBit(m.map, b)
<1>1. L \in [Order -> Seq(Int)] /\ X \in SUBSET Int
  BY DEF Loose, XorBit
<1>2. n = [m EXCEPT !.list = L, !.map = X]
  OBVIOUS
<1> HIDE DEF L, X
<1>3. /\ n \in Loose /\ n.list = L /\ n.map = X
      /\ n.damaged = m.damaged /\ n.type = m.type /\ n.ref = m.ref
  BY <1>1, <1>2 DEF Loose
<1>4. QED
  BY <1>3 DEF Relists, L, X

\* What UpperHalf does, field by field.
LEMMA UpperHalfFields ==
  ASSUME NEW whole \in Step, NEW o \in Order, NEW type \in PageType
  PROVE  LET a == UpperHalf(whole, o, type)
             m == whole.mem
             w == whole.page
             u == w + Pow2[o] IN
         /\ a \in Step /\ a.page = u /\ m \in Loose /\ w \in Int
         /\ a.mem.list = [m.list EXCEPT ![o] = <<w>> \o m.list[o]]
         /\ a.mem.map = XorBit(m.map, BitOf(u, o))
         /\ a.mem.damaged = m.damaged
         /\ \A q \in Page : /\ a.mem.type[q] = IF q \in Extent(u, o) THEN type ELSE m.type[q]
                            /\ a.mem.ref[q] = IF q \in Extent(u, o) THEN 1 ELSE m.ref[q]
<1> DEFINE m == whole.mem
           w == whole.page
           u == w + Pow2[o]
           n == [m EXCEPT !.list[o] = <<w>> \o @, !.map = XorBit(@, BitOf(u, o))]
<1>1. m \in Loose /\ w \in Int /\ o \in Nat /\ Pow2[o] \in Nat
  BY Pow2Type DEF Step, Order
<1>2. m.list \in [Order -> Seq(Int)] /\ u \in Int /\ BitOf(u, o) \in Int
  <2>1. m.list \in [Order -> Seq(Int)]
    BY <1>1 DEF Loose
  <2>2. u \in Int
    BY <1>1
  <2> HIDE DEF u
  <2>3. BitOf(u, o) \in Int
    BY <1>1, <2>2, BitOfType
  <2>4. QED
    BY <2>1, <2>2, <2>3
<1>3. <<w>> \o m.list[o] \in Seq(Int)
  BY <1>1, <1>2, OneInFront
<1>4. n = [m EXCEPT !.list = [m.list EXCEPT ![o] = <<w>> \o m.list[o]], !.map = XorBit(m.map, BitOf(u, o))]
  BY <1>1 DEF Loose
<1>5. n \in Loose /\ Relists(n, m, o, <<w>> \o m.list[o], BitOf(u, o))
  <2> DEFINE l == <<w>> \o m.list[o]
             b == BitOf(u, o)
  <2>1. l \in Seq(Int) /\ b \in Int /\ m \in Loose
    BY <1>1, <1>2, <1>3
  <2>2. n = [m EXCEPT !.list = [m.list EXCEPT ![o] = l], !.map = XorBit(m.map, b)]
    BY <1>4
  <2> HIDE DEF n, m, l, b
  <2>3. n \in Loose /\ Relists(n, m, o, l, b)
    BY <2>1, <2>2, LooseRelisted
  <2>4. QED
    BY <2>3 DEF l, b
<1>6. UpperHalf(whole, o, type) = [page |-> u, mem |-> SetInfo(n, u, o, type, 1)]
  BY DEF UpperHalf
<1> HIDE DEF n, u
<1>7. SetInfo(n, u, o, type, 1) \in Loose /\ Marks(SetInfo(n, u, o, type, 1), n, u, o, type, 1)
  <2>1. n \in Loose /\ type \in PageType /\ 1 \in Int
    BY <1>5
  <2>2. QED
    BY <2>1, LooseSetInfo, Zenon
<1> DEFINE z == SetInfo(n, u, o, type, 1)
<1> HIDE DEF z
<1>8. UpperHalf(whole, o, type) = [page |-> u, mem |-> z] /\ z \in Loose
  BY <1>6, <1>7 DEF z
<1>9. /\ UpperHalf(whole, o, type) \in Step /\ UpperHalf(whole, o, type).page = u
      /\ UpperHalf(whole, o, type).mem = z
  BY <1>2, <1>8 DEF Step
<1>10. QED
  BY <1>1, <1>5, <1>7, <1>9 DEF z, u, Marks, Relists

\* Each call of allocate_pages_of_power_2 gives memory and a page.
LEMMA AllocateFromType ==
  ASSUME NEW m \in Loose, NEW o \in Nat, NEW whole \in Step, NEW type \in PageType
  PROVE  AllocateFrom(m, o, whole, type) \in Step
<1>1. MaxOrder \in Nat
  BY BuddyAssumption
<1>2. CASE o >= MaxOrder
  BY <1>2 DEF AllocateFrom, Step, Nowhere
<1>3. CASE o < MaxOrder
  <2>1. o \in Order /\ ~(o >= MaxOrder)
    BY <1>1, <1>3 DEF Order
  <2>2. m.list[o] # <<>> => TakeFirst(m, o, type) \in Step
    BY <2>1, TakeFirstFields
  <2>3. UpperHalf(whole, o, type) \in Step
    BY <2>1, UpperHalfFields
  <2>4. QED
    BY <2>1, <2>2, <2>3 DEF AllocateFrom
<1>4. QED
  BY <1>1, <1>2, <1>3

\* allocate_pages_of_power_2 calls itself for the next order, up to MAX_ORDER.
LEMMA AllocateUnfolds ==
  ASSUME NEW m \in Loose, NEW o \in Nat, NEW type
  PROVE  \E whole : /\ \A k \in Nat : whole[k] = AllocateFrom(m, k, whole[k + 1], "none")
                    /\ Allocate(m, o, type) = AllocateFrom(m, o, whole[o + 1], type)
<1>1. MaxOrder \in Nat
  BY BuddyAssumption
<1> DEFINE a == [mem |-> m, page |-> Nowhere]
           From(n, x) == IF n + 1 <= MaxOrder THEN AllocateFrom(m, MaxOrder - (n + 1), x, "none") ELSE a
           G == [n \in Nat |-> [x \in Step |-> From(n, x)]]
<1>2. a \in Step
  BY DEF Step, Nowhere
<1>3. \A n \in Nat : \A x \in Step : From(n, x) \in Step
  <2> HIDE DEF a
  <2> SUFFICES ASSUME NEW n \in Nat, NEW x \in Step PROVE From(n, x) \in Step
    OBVIOUS
  <2>1. CASE n + 1 <= MaxOrder
    <3>1. MaxOrder - (n + 1) \in Nat /\ "none" \in PageType
      BY <1>1, <2>1 DEF PageType
    <3>2. AllocateFrom(m, MaxOrder - (n + 1), x, "none") \in Step
      BY <3>1, AllocateFromType
    <3>3. QED
      BY <2>1, <3>2
  <2>2. CASE ~(n + 1 <= MaxOrder)
    BY <1>2, <2>2
  <2>3. QED
    BY <2>1, <2>2
<1> HIDE DEF a, From
<1>4. G \in [Nat -> [Step -> Step]]
  BY <1>3
<1>5. PICK g : Recursive(g, Step, a, G)
  <2> HIDE DEF G
  <2> QED
    BY <1>2, <1>4, Recursion
<1>6. g \in [Nat -> Step] /\ g[0] = a /\ \A n \in Nat : g[n + 1] = From(n, g[n])
  BY <1>5 DEF Recursive
<1> DEFINE f == [k \in Nat |-> IF k >= MaxOrder THEN a ELSE g[MaxOrder - k]]
<1>7. ASSUME NEW k \in Nat PROVE f[k] = AllocateFrom(m, k, f[k + 1], "none")
  <2>1. CASE k >= MaxOrder
    BY <2>1 DEF AllocateFrom, a
  <2>2. CASE k < MaxOrder
    <3> DEFINE n == MaxOrder - (k + 1)
    <3>1. n \in Nat /\ MaxOrder - k = n + 1 /\ n + 1 <= MaxOrder /\ MaxOrder - (n + 1) = k
      BY <1>1, <2>2
    <3>2. f[k] = g[n + 1]
      BY <1>1, <2>2, <3>1
    <3>3. g[n + 1] = AllocateFrom(m, k, g[n], "none")
      BY <1>6, <3>1 DEF From
    <3>4. f[k + 1] = g[n]
      <4>1. CASE k + 1 >= MaxOrder
        <5>1. n = 0
          BY <1>1, <2>2, <4>1
        <5>2. QED
          BY <1>6, <4>1, <5>1
      <4>2. CASE ~(k + 1 >= MaxOrder)
        BY <4>2
      <4>3. QED
        BY <4>1, <4>2
    <3>5. QED
      BY <3>2, <3>3, <3>4
  <2>3. QED
    BY <1>1, <2>1, <2>2
<1>8. f = [k \in Nat |-> AllocateFrom(m, k, f[k + 1], "none")]
  <2>1. f = [k \in Nat |-> f[k]]
    OBVIOUS
  <2> HIDE DEF f
  <2>2. QED
    BY <1>7, <2>1
<1> DEFINE whole == CHOOSE h : h = [k \in Nat |-> AllocateFrom(m, k, h[k + 1], "none")]
<1> HIDE DEF f
<1>9. whole = [k \in Nat |-> AllocateFrom(m, k, whole[k + 1], "none")]
  BY <1>8
<1>10. Allocate(m, o, type) = AllocateFrom(m, o, whole[o + 1], type)
  BY DEF Allocate
<1> HIDE DEF whole
<1>11. \A k \in Nat : whole[k] = AllocateFrom(m, k, whole[k + 1], "none")
  BY <1>9
<1>12. QED
  BY <1>10, <1>11

\* The allocator is in order, and the pages U are in use.
Sound(m, U) ==
  m \in TypeOfMem /\ ~m.damaged /\ Arena(m.list, m.map, U)

\* What page_alloc promises: a block that nobody used is in use, its pages have their
\* type and one reference, and nothing happens to the other pages in use.
Allocated(m, U, type, o, a) ==
  /\ Block(a.page, o) /\ Extent(a.page, o) \cap U = {}
  /\ Sound(a.mem, U \cup Extent(a.page, o))
  /\ \A q \in Extent(a.page, o) : a.mem.type[q] = type /\ a.mem.ref[q] = 1
  /\ \A q \in U : a.mem.type[q] = m.type[q] /\ a.mem.ref[q] = m.ref[q]
  /\ \A q \in Page : (q \notin U /\ q \notin Extent(a.page, o)) => a.mem.type[q] \in {m.type[q], "none"}

\* A memory of the right type can be computed with.
LEMMA SoundIsLoose ==
  ASSUME NEW m \in TypeOfMem
  PROVE  m \in Loose
<1>1. /\ m.list \in [Order -> Seq(Page)] /\ m.map \in SUBSET Nat /\ m.type \in [Page -> PageType]
      /\ m.ref \in [Page -> Int] /\ m.damaged \in BOOLEAN
      /\ m = [list |-> m.list, map |-> m.map, type |-> m.type, ref |-> m.ref, damaged |-> m.damaged]
  BY DEF TypeOfMem
<1>2. Seq(Page) \subseteq Seq(Int)
  <2>1. Page \subseteq Int
    BY BuddyAssumption DEF Page
  <2> HIDE DEF Page
  <2> SUFFICES ASSUME NEW s \in Seq(Page) PROVE s \in Seq(Int)
    OBVIOUS
  <2>2. Len(s) \in Nat /\ s \in [1 .. Len(s) -> Page]
    BY LenProperties
  <2>3. s \in [1 .. Len(s) -> Int]
    BY <2>1, <2>2
  <2>4. QED
    BY <2>2, <2>3, SeqDef
<1>3. m.list \in [Order -> Seq(Int)] /\ m.map \in SUBSET Int
  BY <1>1, <1>2
<1>4. QED
  BY <1>1, <1>3 DEF Loose

\* What comes out of the operations has its type again when lists and bits have.
LEMMA LooseIsTyped ==
  ASSUME NEW m \in Loose, m.list \in [Order -> Seq(Page)], m.map \in SUBSET Nat
  PROVE  m \in TypeOfMem
  BY DEF Loose, TypeOfMem

\* The head of the list of the order asked for is such a block.
LEMMA TakeFirstAllocates ==
  ASSUME BitsFit, NEW m, NEW U, Sound(m, U), NEW o \in Order, NEW type \in PageType, m.list[o] # <<>>
  PROVE  Allocated(m, U, type, o, TakeFirst(m, o, type))
<1> DEFINE a == TakeFirst(m, o, type)
           p == Head(m.list[o])
<1>1. m \in TypeOfMem /\ m \in Loose /\ m.list \in [Order -> Seq(Page)] /\ m.map \in SUBSET Nat
      /\ Arena(m.list, m.map, U) /\ ~m.damaged
  BY SoundIsLoose DEF Sound, TypeOfMem
<1>2. /\ a \in Step /\ a.page = p /\ p \in Int
      /\ a.mem.list = [m.list EXCEPT ![o] = Tail(m.list[o])]
      /\ a.mem.map = XorBit(m.map, BitOf(p, o))
      /\ a.mem.damaged = m.damaged
      /\ \A q \in Page : /\ a.mem.type[q] = IF q \in Extent(p, o) THEN type ELSE m.type[q]
                         /\ a.mem.ref[q] = IF q \in Extent(p, o) THEN 1 ELSE m.ref[q]
  BY <1>1, TakeFirstFields
<1> HIDE DEF a
<1>3. IsInjective(m.list[o]) /\ \A r \in Avail(m.list, o) : Block(r, o)
  BY <1>1 DEF Arena, ListsRight
<1>4. /\ p \in Avail(m.list, o) /\ Tail(m.list[o]) \in Seq(Page)
      /\ IsInjective(Tail(m.list[o])) /\ ToSet(Tail(m.list[o])) = Avail(m.list, o) \ {p}
  BY <1>1, <1>3, HeadAndTail DEF Avail
<1> HIDE DEF p
<1>5. Block(p, o)
  BY <1>3, <1>4
<1>6. Arena(a.mem.list, a.mem.map, U \cup Extent(p, o))
  <2> DEFINE s == Tail(m.list[o])
             L == m.list
             X == m.map
  <2>1. s \in Seq(Page) /\ IsInjective(s) /\ ToSet(s) = Avail(L, o) \ {p} /\ p \in Avail(L, o) /\ Arena(L, X, U)
    BY <1>1, <1>4
  <2>2. a.mem.list = [L EXCEPT ![o] = s] /\ a.mem.map = XorBit(X, BitOf(p, o))
    BY <1>2
  <2> HIDE DEF s, L, X
  <2>3. Arena([L EXCEPT ![o] = s], XorBit(X, BitOf(p, o)), U \cup Extent(p, o))
    BY <2>1, BlockTaken
  <2>4. QED
    BY <2>2, <2>3
<1>7. Extent(p, o) \cap U = {} /\ U \subseteq Page /\ Extent(p, o) \subseteq Page
  BY <1>1, <1>4, <1>5, BlockInMemory DEF Arena, Covered
<1>8. a.mem \in TypeOfMem
  <2>1. BitOf(p, o) \in Nat
    BY <1>5, BitInOrder
  <2>2. a.mem.map \in SUBSET Nat
    BY <1>1, <1>2, <2>1 DEF XorBit
  <2>3. a.mem.list \in [Order -> Seq(Page)]
    BY <1>1, <1>2, <1>4
  <2>4. a.mem \in Loose
    BY <1>2 DEF Step
  <2>5. QED
    BY <2>2, <2>3, <2>4, LooseIsTyped
<1>9. Sound(a.mem, U \cup Extent(p, o))
  BY <1>1, <1>2, <1>6, <1>8 DEF Sound
<1>10. QED
  BY <1>2, <1>5, <1>7, <1>9 DEF Allocated, a

\* The lower half of a block of the next order.
LEMMA LowerHalf ==
  ASSUME NEW w, NEW o \in Order, Block(w, o + 1)
  PROVE  /\ Block(w, o) /\ o + 1 < MaxOrder /\ Buddy(w, o) = w + Pow2[o]
         /\ Block(w + Pow2[o], o) /\ BitOf(w + Pow2[o], o) = BitOf(w, o)
         /\ Extent(w, o + 1) = Extent(w, o) \cup Extent(w + Pow2[o], o)
         /\ Extent(w, o) \cap Extent(w + Pow2[o], o) = {}
         /\ w + Pow2[o] \in Extent(w + Pow2[o], o)
<1> DEFINE N == Pow2[o]
<1>1. /\ o \in Nat /\ o + 1 \in Nat /\ o + 1 < MaxOrder /\ N \in Nat \ {0} /\ Pow2[o + 1] = 2 * N
      /\ w \in Nat /\ w \in Page /\ MaxOrder \in Nat
  BY Pow2Type, BuddyAssumption DEF Block, Order, Page
<1>2. PICK i \in Nat : w = i * (2 * N)
  <2>1. \E i \in Nat : w = i * Pow2[o + 1]
    BY BlockNumber
  <2>2. QED
    BY <1>1, <2>1
<1>3. w = (2 * i) * N /\ 2 * i \in Nat /\ (2 * i) % 2 = 0
  <2>1. i * (2 * N) = (2 * i) * N
    <3> HIDE DEF N
    <3> QED
      BY <1>1, SMTT(30)
  <2>2. QED
    BY <1>2, <2>1
<1>4. w % N = 0 /\ w \div N = 2 * i
  <2> HIDE DEF N
  <2> QED
    BY <1>1, <1>3, MultipleOf
<1>5. Block(w, o)
  BY <1>1, <1>4 DEF Block
<1>6. Buddy(w, o) = w + N
  BY <1>3, <1>4 DEF Buddy
<1>7. w + N # w /\ ~(w + N < w)
  BY <1>1
<1>8. /\ Block(w + N, o) /\ BitOf(w + N, o) = BitOf(w, o)
      /\ Extent(w, o + 1) = Extent(w, o) \cup Extent(w + N, o)
      /\ Extent(w, o) \cap Extent(w + N, o) = {}
  <2>1. LET b   == Buddy(w, o)
            low == IF b < w THEN b ELSE w IN
        /\ Block(b, o) /\ BitOf(b, o) = BitOf(w, o)
        /\ Extent(low, o + 1) = Extent(w, o) \cup Extent(b, o)
        /\ Extent(w, o) \cap Extent(b, o) = {}
    BY <1>1, <1>5, Buddies
  <2>2. QED
    BY <1>6, <1>7, <2>1
<1>9. w + N \in Extent(w + N, o)
  BY <1>8, BlockInMemory
<1>10. QED
  BY <1>1, <1>5, <1>6, <1>8, <1>9

\* The upper half of a block of the next order is one, and the lower half is free again.
LEMMA UpperHalfAllocates ==
  ASSUME BitsFit, NEW m, NEW U, Sound(m, U), NEW o \in Order, NEW type \in PageType,
         NEW whole \in Step, Allocated(m, U, "none", o + 1, whole)
  PROVE  Allocated(m, U, type, o, UpperHalf(whole, o, type))
<1> DEFINE a == UpperHalf(whole, o, type)
           n == whole.mem
           w == whole.page
           u == w + Pow2[o]
           V == U \cup Extent(w, o + 1)
<1>1. /\ Block(w, o + 1) /\ Extent(w, o + 1) \cap U = {} /\ Sound(n, V)
      /\ \A q \in Extent(w, o + 1) : n.type[q] = "none" /\ n.ref[q] = 1
      /\ \A q \in U : n.type[q] = m.type[q] /\ n.ref[q] = m.ref[q]
      /\ \A q \in Page : (q \notin U /\ q \notin Extent(w, o + 1)) => n.type[q] \in {m.type[q], "none"}
  BY DEF Allocated
<1>2. /\ a \in Step /\ a.page = u /\ n \in Loose /\ w \in Int
      /\ a.mem.list = [n.list EXCEPT ![o] = <<w>> \o n.list[o]]
      /\ a.mem.map = XorBit(n.map, BitOf(u, o))
      /\ a.mem.damaged = n.damaged
      /\ \A q \in Page : /\ a.mem.type[q] = IF q \in Extent(u, o) THEN type ELSE n.type[q]
                         /\ a.mem.ref[q] = IF q \in Extent(u, o) THEN 1 ELSE n.ref[q]
  BY UpperHalfFields
<1>3. /\ Block(w, o) /\ o + 1 < MaxOrder /\ Buddy(w, o) = u
      /\ Block(u, o) /\ BitOf(u, o) = BitOf(w, o)
      /\ Extent(w, o + 1) = Extent(w, o) \cup Extent(u, o)
      /\ Extent(w, o) \cap Extent(u, o) = {}
      /\ u \in Extent(u, o)
  BY <1>1, LowerHalf
<1> HIDE DEF a, n, w, u
<1>4. /\ n \in TypeOfMem /\ ~n.damaged /\ Arena(n.list, n.map, V)
      /\ n.list \in [Order -> Seq(Page)] /\ n.map \in SUBSET Nat
  BY <1>1 DEF Sound, TypeOfMem
<1>5. \A k \in Order : \A r \in Avail(n.list, k) : Extent(r, k) \cap V = {} /\ r \in Extent(r, k)
  <2> SUFFICES ASSUME NEW k \in Order, NEW r \in Avail(n.list, k)
               PROVE  Extent(r, k) \cap V = {} /\ r \in Extent(r, k)
    OBVIOUS
  <2>1. Block(r, k)
    BY <1>4 DEF Arena, ListsRight
  <2>2. r \in Extent(r, k)
    BY <2>1, BlockInMemory
  <2>3. \A q \in V : q \notin Extent(r, k)
    BY <1>4 DEF Arena, Covered
  <2>4. QED
    BY <2>2, <2>3
<1>6. w \notin Avail(n.list, o) /\ u \notin Avail(n.list, o) /\ w \in Page
  <2>1. w \in Extent(w, o) /\ w \in Page
    BY <1>3, BlockInMemory DEF Block
  <2>2. QED
    BY <1>3, <1>5, <2>1
<1>7. /\ <<w>> \o n.list[o] \in Seq(Page) /\ IsInjective(<<w>> \o n.list[o])
      /\ ToSet(<<w>> \o n.list[o]) = Avail(n.list, o) \cup {w}
  <2>1. IsInjective(n.list[o]) /\ n.list[o] \in Seq(Page)
    BY <1>4 DEF Arena, ListsRight
  <2>2. QED
    BY <1>6, <2>1, OneInFront DEF Avail
<1>8. Arena(a.mem.list, a.mem.map, V \ Extent(w, o))
  <2>1. Extent(w, o) \subseteq V
    BY <1>3
  <2>2. o + 1 < MaxOrder => Buddy(w, o) \notin Avail(n.list, o)
    BY <1>3, <1>6
  <2>3. a.mem.map = XorBit(n.map, BitOf(w, o))
    BY <1>2, <1>3
  <2> DEFINE s == <<w>> \o n.list[o]
             L == n.list
             X == n.map
  <2>4. /\ s \in Seq(Page) /\ IsInjective(s) /\ ToSet(s) = Avail(L, o) \cup {w} /\ Arena(L, X, V)
        /\ Extent(w, o) \subseteq V /\ (o + 1 < MaxOrder => Buddy(w, o) \notin Avail(L, o))
    BY <1>4, <1>7, <2>1, <2>2
  <2>5. a.mem.list = [L EXCEPT ![o] = s] /\ a.mem.map = XorBit(X, BitOf(w, o))
    BY <1>2, <2>3
  <2> HIDE DEF s, L, X, V
  <2>6. Arena([L EXCEPT ![o] = s], XorBit(X, BitOf(w, o)), V \ Extent(w, o))
    BY <1>3, <2>4, BlockPutBack
  <2>7. QED
    BY <2>5, <2>6
<1>9. V \ Extent(w, o) = U \cup Extent(u, o)
  BY <1>1, <1>3
<1>10. a.mem \in TypeOfMem
  <2>1. BitOf(u, o) \in Nat
    BY <1>3, BitInOrder
  <2>2. a.mem.map \in SUBSET Nat
    BY <1>2, <1>4, <2>1 DEF XorBit
  <2>3. a.mem.list \in [Order -> Seq(Page)]
    BY <1>2, <1>4, <1>7
  <2>4. a.mem \in Loose
    BY <1>2 DEF Step
  <2>5. QED
    BY <2>2, <2>3, <2>4, LooseIsTyped
<1>11. Sound(a.mem, U \cup Extent(u, o))
  BY <1>2, <1>4, <1>8, <1>9, <1>10 DEF Sound
<1>12. Extent(u, o) \cap U = {} /\ U \subseteq Page /\ Extent(u, o) \subseteq Page
  <2>1. U \subseteq Page
    BY <1>4 DEF Arena, Covered
  <2>2. QED
    BY <1>1, <1>3, <2>1, BlockInMemory
<1>13. ASSUME NEW q \in Page, q \notin U, q \notin Extent(u, o)
       PROVE  a.mem.type[q] \in {m.type[q], "none"}
  BY <1>1, <1>2, <1>3, <1>13
<1>14. /\ \A q \in Extent(u, o) : a.mem.type[q] = type /\ a.mem.ref[q] = 1
       /\ \A q \in U : a.mem.type[q] = m.type[q] /\ a.mem.ref[q] = m.ref[q]
  BY <1>1, <1>2, <1>12
<1>15. QED
  BY <1>2, <1>3, <1>11, <1>12, <1>13, <1>14 DEF Allocated, a

\* There is no free block of order o or larger.
NoneFrom(m, o) == \A j \in Order : j >= o => m.list[j] = <<>>

\* page_alloc: a block, or NULL and nothing has happened.
LEMMA AllocateGives ==
  ASSUME BitsFit, NEW m, NEW U, Sound(m, U), NEW o \in Nat, NEW type \in PageType
  PROVE  LET a == Allocate(m, o, type) IN
         \/ a.page = Nowhere /\ a.mem = m /\ NoneFrom(m, o)
         \/ o \in Order /\ Allocated(m, U, type, o, a)
<1>1. m \in Loose /\ MaxOrder \in Nat
  BY SoundIsLoose, BuddyAssumption DEF Sound
<1>2. PICK whole : /\ \A k \in Nat : whole[k] = AllocateFrom(m, k, whole[k + 1], "none")
                   /\ Allocate(m, o, type) = AllocateFrom(m, o, whole[o + 1], type)
  BY <1>1, AllocateUnfolds
<1> DEFINE Gives(k, t, a) ==
      /\ a \in Step
      /\ \/ a.page = Nowhere /\ a.mem = m /\ NoneFrom(m, k)
         \/ k \in Order /\ Allocated(m, U, t, k, a)
<1>3. ASSUME NEW k \in Nat, k >= MaxOrder, NEW t \in PageType, NEW x
      PROVE  Gives(k, t, AllocateFrom(m, k, x, t))
  BY <1>1, <1>3 DEF AllocateFrom, Step, Nowhere, NoneFrom, Order
<1>4. ASSUME NEW k \in Nat, k < MaxOrder, NEW t \in PageType, NEW x, Gives(k + 1, "none", x)
      PROVE  Gives(k, t, AllocateFrom(m, k, x, t))
  <2>1. k \in Order /\ ~(k >= MaxOrder)
    BY <1>1, <1>4 DEF Order
  <2>2. CASE m.list[k] # <<>>
    <3>1. AllocateFrom(m, k, x, t) = TakeFirst(m, k, t)
      BY <2>1, <2>2 DEF AllocateFrom
    <3>2. TakeFirst(m, k, t) \in Step
      BY <1>1, <2>1, <2>2, TakeFirstFields
    <3>3. Allocated(m, U, t, k, TakeFirst(m, k, t))
      BY <2>1, <2>2, TakeFirstAllocates
    <3>4. QED
      BY <2>1, <3>1, <3>2, <3>3
  <2>3. CASE m.list[k] = <<>> /\ x.page = Nowhere
    <3>1. AllocateFrom(m, k, x, t) = x
      BY <2>1, <2>3 DEF AllocateFrom
    <3>2. ~Allocated(m, U, "none", k + 1, x)
      <4>1. Nowhere \notin Page
        BY DEF Page, Nowhere
      <4>2. QED
        BY <2>3, <4>1 DEF Allocated, Block
    <3>3. x \in Step /\ x.mem = m /\ NoneFrom(m, k + 1)
      BY <1>4, <3>2
    <3>4. NoneFrom(m, k)
      <4>1. \A j \in Order : j >= k => j = k \/ j >= k + 1
        BY DEF Order
      <4>2. QED
        BY <2>3, <3>3, <4>1 DEF NoneFrom
    <3>5. QED
      BY <2>3, <3>1, <3>3, <3>4
  <2>4. CASE m.list[k] = <<>> /\ x.page # Nowhere
    <3>1. AllocateFrom(m, k, x, t) = UpperHalf(x, k, t)
      BY <2>1, <2>4 DEF AllocateFrom
    <3>2. x \in Step /\ Allocated(m, U, "none", k + 1, x)
      BY <1>4, <2>4
    <3>3. UpperHalf(x, k, t) \in Step
      BY <2>1, <3>2, UpperHalfFields
    <3>4. Allocated(m, U, t, k, UpperHalf(x, k, t))
      BY <2>1, <3>2, UpperHalfAllocates
    <3>5. QED
      BY <2>1, <3>1, <3>3, <3>4
  <2>5. QED
    BY <2>2, <2>3, <2>4
<1>5. \A k \in Nat : Gives(k, "none", whole[k])
  <2>1. "none" \in PageType
    BY DEF PageType
  <2>2. \A k \in Nat : k >= MaxOrder => Gives(k, "none", whole[k])
    <3> HIDE DEF Gives
    <3> QED
      BY <1>2, <1>3, <2>1
  <2> DEFINE T == {n \in 0 .. MaxOrder : ~Gives(MaxOrder - n, "none", whole[MaxOrder - n])}
  <2>3. T = {}
    <3> SUFFICES ASSUME T # {} PROVE FALSE
      OBVIOUS
    <3>1. PICK n \in T : \A j \in T : n <= j
      <4>1. T \subseteq Nat
        OBVIOUS
      <4> HIDE DEF T
      <4>2. QED
        BY <4>1, LeastNumber
    <3> HIDE DEF Gives
    <3> DEFINE k == MaxOrder - n
    <3>2. n \in 0 .. MaxOrder /\ k \in Nat /\ ~Gives(k, "none", whole[k])
      BY <1>1, <3>1
    <3>3. k < MaxOrder
      BY <1>1, <2>2, <3>2
    <3>4. n - 1 \in 0 .. MaxOrder /\ n - 1 < n /\ MaxOrder - (n - 1) = k + 1
      BY <1>1, <3>2, <3>3
    <3>5. n - 1 \notin T
      BY <3>1, <3>2, <3>4
    <3>6. Gives(k + 1, "none", whole[k + 1])
      BY <3>4, <3>5
    <3> HIDE DEF k
    <3>7. whole[k] = AllocateFrom(m, k, whole[k + 1], "none")
      BY <1>2, <3>2
    <3>8. Gives(k, "none", whole[k])
      BY <1>4, <2>1, <3>2, <3>3, <3>6, <3>7
    <3>9. QED
      BY <3>2, <3>8
  <2>4. ASSUME NEW k \in Nat, k < MaxOrder PROVE Gives(k, "none", whole[k])
    <3>1. MaxOrder - k \in 0 .. MaxOrder /\ MaxOrder - (MaxOrder - k) = k
      BY <1>1, <2>4
    <3>2. MaxOrder - k \notin T
      BY <2>3
    <3> HIDE DEF Gives
    <3>3. QED
      BY <3>1, <3>2
  <2> HIDE DEF Gives
  <2>5. QED
    BY <1>1, <2>2, <2>4
<1>6. Gives(o, type, Allocate(m, o, type))
  <2> HIDE DEF Gives
  <2>1. CASE o >= MaxOrder
    BY <1>2, <1>3, <2>1
  <2>2. CASE o < MaxOrder
    <3>1. o + 1 \in Nat /\ Gives(o + 1, "none", whole[o + 1])
      BY <1>5
    <3>2. QED
      BY <1>2, <1>4, <2>2, <3>1
  <2>3. QED
    BY <1>1, <2>1, <2>2
<1>7. QED
  BY <1>6

-----------------------------------------------------------------------------
(* Giving back *)

\* remove_from_free_list.
LEMMA FirstRemoved ==
  ASSUME NEW S, NEW s \in Seq(S), NEW x
  PROVE  /\ RemoveFirst(s, x) \in Seq(S)
         /\ (IsInjective(s) /\ x \in ToSet(s)) =>
              IsInjective(RemoveFirst(s, x)) /\ ToSet(RemoveFirst(s, x)) = ToSet(s) \ {x}
<1>1. Len(s) \in Nat /\ DOMAIN s = 1 .. Len(s)
  BY LenProperties
<1>2. CASE ~\E i \in 1 .. Len(s) : s[i] = x
  <2>1. RemoveFirst(s, x) = s
    BY <1>2 DEF RemoveFirst
  <2>2. x \notin ToSet(s)
    BY <1>1, <1>2 DEF ToSet
  <2>3. QED
    BY <2>1, <2>2
<1>3. CASE \E i \in 1 .. Len(s) : s[i] = x
  <2> DEFINE I == {i \in 1 .. Len(s) : s[i] = x}
             k == Min(I)
  <2>1. I # {} /\ I \subseteq Nat
    BY <1>1, <1>3
  <2>2. k \in I
    <3> HIDE DEF I
    <3>1. \E j \in I : \A i \in I : j <= i
      BY <2>1, LeastNumber
    <3>2. QED
      BY <3>1 DEF Min
  <2>3. RemoveFirst(s, x) = RemoveAt(s, k)
    <3>1. SelectInSeq(s, LAMBDA v : v = x) = k
      BY <2>1 DEF SelectInSeq
    <3>2. QED
      BY <1>3, <3>1 DEF RemoveFirst
  <2>4. k \in 1 .. Len(s) /\ s[k] = x
    BY <2>2
  <2> HIDE DEF k
  <2>5. RemoveAt(s, k) \in Seq(S)
    BY <2>4, RemoveAtProperties
  <2>6. IsInjective(s) => IsInjective(RemoveAt(s, k)) /\ ToSet(RemoveAt(s, k)) = ToSet(s) \ {s[k]}
    BY <2>4, UnlinkedAt
  <2>7. QED
    BY <2>3, <2>4, <2>5, <2>6
<1>4. QED
  BY <1>2, <1>3

\* What Merge does, field by field.
LEMMA MergeFields ==
  ASSUME NEW m \in Loose, NEW p \in Int, NEW o \in Order
  PROVE  LET b == Buddy(p, o)
             a == Merge(m, p, o) IN
         /\ a \in Step /\ a.page = (IF b < p THEN b ELSE p)
         /\ a.mem.list = [m.list EXCEPT ![o] = RemoveFirst(m.list[o], b)]
         /\ a.mem.map = XorBit(m.map, BitOf(p, o))
         /\ a.mem.damaged = (m.damaged \/ ~Contains(m.list[o], b))
         /\ a.mem.type = m.type /\ a.mem.ref = m.ref
<1> DEFINE b == Buddy(p, o)
           l == RemoveFirst(m.list[o], b)
           L == [m.list EXCEPT ![o] = l]
           X == XorBit(m.map, BitOf(p, o))
           D == m.damaged \/ ~Contains(m.list[o], b)
           n == [m EXCEPT !.map = X, !.list = L, !.damaged = D]
           low == IF b < p THEN b ELSE p
<1>1. m.list \in [Order -> Seq(Int)] /\ m.map \in SUBSET Int /\ m.damaged \in BOOLEAN /\ o \in Nat
  BY DEF Loose, Order
<1>2. b \in Int
  <2>1. Pow2[o] \in Nat
    BY <1>1, Pow2Type
  <2>2. QED
    BY <2>1 DEF Buddy
<1>3. l \in Seq(Int)
  <2> HIDE DEF b
  <2> QED
    BY <1>1, FirstRemoved
<1>4. L \in [Order -> Seq(Int)]
  <2> HIDE DEF l
  <2> QED
    BY <1>1, <1>3
<1>5. X \in SUBSET Int
  BY <1>1, BitOfType DEF XorBit
<1>6. D \in BOOLEAN
  BY <1>1 DEF Contains
<1>7. Merge(m, p, o) = [mem |-> n, page |-> low]
  <2>1. m.list[o] = m.list[o] /\ n = [m EXCEPT !.map = XorBit(@, BitOf(p, o)), !.list[o] = RemoveFirst(@, b),
                      !.damaged = @ \/ ~Contains(m.list[o], b)]
    BY <1>1 DEF Loose
  <2>2. QED
    BY <2>1 DEF Merge
<1>8. low \in Int
  BY <1>2
<1> HIDE DEF X, L, D, low
<1>9. n \in Loose /\ n.list = L /\ n.map = X /\ n.damaged = D /\ n.type = m.type /\ n.ref = m.ref
  BY <1>4, <1>5, <1>6 DEF Loose
<1> HIDE DEF n
<1>10. Merge(m, p, o) \in Step /\ Merge(m, p, o).page = low /\ Merge(m, p, o).mem = n
  BY <1>7, <1>8, <1>9 DEF Step
<1>11. QED
  BY <1>9, <1>10 DEF X, L, D, low, n

\* free_pages_of_power_2 calls itself for the next order as long as the buddy is free.
LEMMA FreeUnfolds ==
  ASSUME NEW m \in Loose, NEW p \in Int, NEW o \in Order
  PROVE  \E merged : \E top \in o .. MaxOrder - 1 :
           LET GoesOn(k) == Merges(XorBit(merged[k].mem.map, BitOf(merged[k].page, k)), merged[k].page, k) IN
           /\ merged[o] = [mem |-> m, page |-> p]
           /\ \A k \in o .. MaxOrder - 2 : merged[k + 1] = Merge(merged[k].mem, merged[k].page, k)
           /\ ~GoesOn(top) /\ \A j \in o .. top - 1 : GoesOn(j)
           /\ Free(m, p, o) = PutBack(merged[top].mem, merged[top].page, top)
<1>1. MaxOrder \in Nat /\ o \in Nat /\ o < MaxOrder
  BY BuddyAssumption DEF Order
<1> DEFINE a == [mem |-> m, page |-> p]
           Within(n, x) == IF n + 1 <= o \/ n \notin Order THEN a ELSE Merge(x.mem, x.page, n)
           G == [n \in Nat |-> [x \in Step |-> Within(n, x)]]
<1>2. a \in Step
  BY DEF Step
<1>3. \A n \in Nat : \A x \in Step : Within(n, x) \in Step
  <2> HIDE DEF a
  <2> SUFFICES ASSUME NEW n \in Nat, NEW x \in Step, n \in Order PROVE Merge(x.mem, x.page, n) \in Step
    BY <1>2
  <2>1. x.mem \in Loose /\ x.page \in Int
    BY DEF Step
  <2>2. QED
    BY <2>1, MergeFields
<1> HIDE DEF a, Within
<1>4. G \in [Nat -> [Step -> Step]]
  BY <1>3
<1>5. PICK g : Recursive(g, Step, a, G)
  <2> HIDE DEF G
  <2> QED
    BY <1>2, <1>4, Recursion
<1>6. g \in [Nat -> Step] /\ g[0] = a /\ \A n \in Nat : g[n + 1] = Within(n, g[n])
  BY <1>5 DEF Recursive
<1> DEFINE f == [k \in 0 .. MaxOrder |-> g[k]]
<1>7. f = [k \in 0 .. MaxOrder |-> IF k <= o THEN a ELSE Merge(f[k - 1].mem, f[k - 1].page, k - 1)]
  <2>1. ASSUME NEW k \in 0 .. MaxOrder
        PROVE  f[k] = IF k <= o THEN a ELSE Merge(f[k - 1].mem, f[k - 1].page, k - 1)
    <3>1. CASE k = 0
      BY <1>1, <1>6, <3>1
    <3>2. CASE k # 0
      <4>1. k - 1 \in Nat /\ k - 1 + 1 = k /\ k - 1 \in 0 .. MaxOrder /\ k - 1 \in Order
        BY <1>1, <3>2 DEF Order
      <4>2. f[k] = Within(k - 1, g[k - 1]) /\ f[k - 1] = g[k - 1]
        BY <1>6, <4>1
      <4>3. QED
        BY <4>1, <4>2 DEF Within
    <3>3. QED
      BY <3>1, <3>2
  <2>2. f = [k \in 0 .. MaxOrder |-> f[k]]
    OBVIOUS
  <2> HIDE DEF f
  <2>3. QED
    BY <2>1, <2>2
<1> DEFINE merged == CHOOSE h : h = [k \in 0 .. MaxOrder |-> IF k <= o THEN a ELSE Merge(h[k - 1].mem, h[k - 1].page, k - 1)]
<1> HIDE DEF f
<1>8. merged = [k \in 0 .. MaxOrder |-> IF k <= o THEN a ELSE Merge(merged[k - 1].mem, merged[k - 1].page, k - 1)]
  BY <1>7
<1> DEFINE GoesOn(k) == Merges(XorBit(merged[k].mem.map, BitOf(merged[k].page, k)), merged[k].page, k)
           top == CHOOSE k \in o .. MaxOrder : ~GoesOn(k) /\ \A j \in o .. k - 1 : GoesOn(j)
<1>9. Free(m, p, o) = PutBack(merged[top].mem, merged[top].page, top)
  BY DEF Free, a
<1> HIDE DEF merged
<1>10. merged[o] = a
  BY <1>1, <1>8
<1>11. ASSUME NEW k \in o .. MaxOrder - 2 PROVE merged[k + 1] = Merge(merged[k].mem, merged[k].page, k)
  <2> DEFINE j == k + 1
  <2>1. j \in 0 .. MaxOrder /\ ~(j <= o) /\ j - 1 = k
    BY <1>1
  <2> HIDE DEF j
  <2>2. merged[j] = Merge(merged[j - 1].mem, merged[j - 1].page, j - 1)
    BY <1>8, <2>1
  <2>3. QED
    BY <2>1, <2>2 DEF j
<1>12. top \in o .. MaxOrder - 1 /\ ~GoesOn(top) /\ \A j \in o .. top - 1 : GoesOn(j)
  <2>1. ~GoesOn(MaxOrder - 1)
    BY <1>1 DEF Merges
  <2> DEFINE T == {k \in o .. MaxOrder - 1 : ~GoesOn(k)}
  <2>2. PICK k \in T : \A j \in T : k <= j
    <3>1. T # {} /\ T \subseteq Nat
      BY <1>1, <2>1
    <3> HIDE DEF T
    <3>2. QED
      BY <3>1, LeastNumber
  <2>3. k \in o .. MaxOrder - 1 /\ ~GoesOn(k) /\ \A j \in o .. k - 1 : GoesOn(j)
    <3> HIDE DEF GoesOn
    <3>1. k \in o .. MaxOrder - 1 /\ ~GoesOn(k)
      BY <2>2
    <3>2. ASSUME NEW j \in o .. k - 1, ~GoesOn(j) PROVE FALSE
      <4>1. j \in T /\ ~(k <= j)
        BY <1>1, <3>1, <3>2
      <4>2. QED
        BY <2>2, <4>1
    <3>3. QED
      BY <3>1, <3>2
  <2> HIDE DEF GoesOn, T
  <2>4. k \in o .. MaxOrder
    BY <1>1, <2>3
  <2>5. top \in o .. MaxOrder /\ ~GoesOn(top) /\ \A j \in o .. top - 1 : GoesOn(j)
    BY <2>3, <2>4
  <2> HIDE DEF top
  <2>6. top # MaxOrder
    <3> SUFFICES ASSUME top = MaxOrder PROVE FALSE
      OBVIOUS
    <3>1. MaxOrder - 1 \in o .. top - 1
      BY <1>1
    <3>2. QED
      BY <2>1, <2>5, <3>1
  <2>7. QED
    BY <1>1, <2>5, <2>6
<1> HIDE DEF top
<1>13. QED
  BY <1>9, <1>10, <1>11, <1>12 DEF a

\* What page_free promises: the pages are free, and nothing happens to those that
\* stay in use.
Freed(m, U, p, o, n) ==
  /\ Sound(n, U \ Extent(p, o))
  /\ \A q \in Extent(p, o) : n.type[q] = "free" /\ n.ref[q] = 0
  /\ \A q \in U \ Extent(p, o) : n.type[q] = m.type[q] /\ n.ref[q] = m.ref[q]
  /\ \A q \in Page \ U : n.type[q] \in {m.type[q], "free"}

\* The block x at order k, which has grown around the one that is given back.
Growing(m, U, p, o, k, x) ==
  /\ x \in Step /\ Block(x.page, k)
  /\ Extent(p, o) \subseteq Extent(x.page, k)
  /\ Extent(x.page, k) \cap (U \ Extent(p, o)) = {}
  /\ Sound(x.mem, U \cup Extent(x.page, k))
  /\ x.mem.type = m.type /\ x.mem.ref = m.ref

\* A free block and the pages in use have nothing in common.
LEMMA FreeIsNotUsed ==
  ASSUME NEW list, NEW map, NEW U, Arena(list, map, U), NEW k \in Order, NEW r \in Avail(list, k)
  PROVE  Extent(r, k) \cap U = {} /\ r \in Extent(r, k) /\ Block(r, k)
<1>1. Block(r, k)
  BY DEF Arena, ListsRight
<1>2. r \in Extent(r, k)
  BY <1>1, BlockInMemory
<1>3. \A q \in U : q \notin Extent(r, k)
  BY DEF Arena, Covered
<1>4. QED
  BY <1>1, <1>2, <1>3

\* The bit says that the buddy is free, so the block grows to twice its size.
LEMMA MergeGrows ==
  ASSUME BitsFit, NEW m, NEW U, NEW p, NEW o, NEW k \in Order, NEW x, Growing(m, U, p, o, k, x),
         Merges(XorBit(x.mem.map, BitOf(x.page, k)), x.page, k)
  PROVE  Growing(m, U, p, o, k + 1, Merge(x.mem, x.page, k))
<1> DEFINE n == x.mem
           w == x.page
           b == Buddy(w, k)
           a == Merge(n, w, k)
           low == IF b < w THEN b ELSE w
           V == U \cup Extent(w, k)
           s == RemoveFirst(n.list[k], b)
<1>1. /\ n \in Loose /\ w \in Int /\ Block(w, k) /\ k + 1 < MaxOrder
      /\ BitOf(w, k) \notin XorBit(n.map, BitOf(w, k))
      /\ n \in TypeOfMem /\ ~n.damaged /\ Arena(n.list, n.map, V)
      /\ n.type = m.type /\ n.ref = m.ref
  BY DEF Growing, Step, Merges, Sound
<1>2. n.list \in [Order -> Seq(Page)] /\ n.map \in SUBSET Nat
  BY <1>1 DEF TypeOfMem
<1>3. BitOf(w, k) \in n.map
  BY <1>1 DEF XorBit
<1>4. /\ Block(b, k) /\ b # w /\ BitOf(b, k) = BitOf(w, k) /\ Block(low, k + 1)
      /\ Extent(low, k + 1) = Extent(w, k) \cup Extent(b, k)
  BY <1>1, Buddies
<1>5. /\ a \in Step /\ a.page = low
      /\ a.mem.list = [n.list EXCEPT ![k] = s]
      /\ a.mem.map = XorBit(n.map, BitOf(w, k))
      /\ a.mem.damaged = (n.damaged \/ ~Contains(n.list[k], b))
      /\ a.mem.type = n.type /\ a.mem.ref = n.ref
  BY <1>1, MergeFields
<1>6. w \in Extent(w, k) /\ w \in Page
  BY <1>1, BlockInMemory DEF Block
<1>7. w \notin Avail(n.list, k)
  <2> SUFFICES ASSUME w \in Avail(n.list, k) PROVE FALSE
    OBVIOUS
  <2> HIDE DEF w, n
  <2>1. Extent(w, k) \cap V = {}
    <3> HIDE DEF V
    <3> QED
      BY <1>1, FreeIsNotUsed
  <2>2. QED
    BY <1>6, <2>1
<1>8. b \in Avail(n.list, k)
  <2>1. (BitOf(w, k) \in n.map) <=> ((w \in Avail(n.list, k)) # (b \in Avail(n.list, k)))
    BY <1>1, <1>6 DEF Arena, BitsRight
  <2> HIDE DEF b, w, n
  <2>2. QED
    BY <1>3, <1>7, <2>1
<1> HIDE DEF a, b, low, w, n
<1>9. s \in Seq(Page) /\ IsInjective(s) /\ ToSet(s) = Avail(n.list, k) \ {b}
  <2>1. n.list[k] \in Seq(Page) /\ IsInjective(n.list[k]) /\ b \in ToSet(n.list[k])
    BY <1>1, <1>2, <1>8 DEF Arena, ListsRight, Avail
  <2>2. QED
    BY <2>1, FirstRemoved DEF Avail
<1>10. Arena(a.mem.list, a.mem.map, V \cup Extent(b, k))
  <2> DEFINE L == n.list
             X == n.map
  <2>1. Arena(L, X, V) /\ b \in Avail(L, k) /\ ToSet(s) = Avail(L, k) \ {b}
    BY <1>1, <1>8, <1>9
  <2>2. a.mem.list = [L EXCEPT ![k] = s] /\ a.mem.map = XorBit(X, BitOf(b, k))
    BY <1>4, <1>5
  <2> HIDE DEF s, L, X, V
  <2>3. Arena([L EXCEPT ![k] = s], XorBit(X, BitOf(b, k)), V \cup Extent(b, k))
    BY <1>9, <2>1, BlockTaken
  <2>4. QED
    BY <2>2, <2>3
<1>11. V \cup Extent(b, k) = U \cup Extent(low, k + 1)
  BY <1>4
<1>12. ~a.mem.damaged
  <2>1. Contains(n.list[k], b)
    <3>1. n.list[k] \in Seq(Page)
      BY <1>2
    <3>2. DOMAIN n.list[k] = 1 .. Len(n.list[k])
      BY <3>1, LenProperties
    <3>3. QED
      BY <1>8, <3>2 DEF Contains, Avail, ToSet
  <2>2. QED
    BY <1>1, <1>5, <2>1
<1>13. a.mem \in TypeOfMem
  <2>1. BitOf(w, k) \in Nat
    BY <1>1, BitInOrder
  <2>2. a.mem.map \in SUBSET Nat
    BY <1>2, <1>5, <2>1 DEF XorBit
  <2>3. a.mem.list \in [Order -> Seq(Page)]
    <3> HIDE DEF s
    <3> QED
      BY <1>2, <1>5, <1>9
  <2>4. a.mem \in Loose
    BY <1>5 DEF Step
  <2>5. QED
    BY <2>2, <2>3, <2>4, LooseIsTyped
<1>14. Sound(a.mem, U \cup Extent(low, k + 1))
  BY <1>10, <1>11, <1>12, <1>13 DEF Sound
<1>15. Extent(p, o) \subseteq Extent(low, k + 1) /\ Extent(low, k + 1) \cap (U \ Extent(p, o)) = {}
  <2>1. /\ Extent(p, o) \subseteq Extent(w, k)
        /\ Extent(w, k) \cap (U \ Extent(p, o)) = {}
    BY DEF Growing, w
  <2>2. Extent(b, k) \cap V = {}
    <3> HIDE DEF V
    <3> QED
      BY <1>1, <1>8, FreeIsNotUsed
  <2>3. QED
    BY <1>4, <2>1, <2>2
<1>16. QED
  BY <1>1, <1>4, <1>5, <1>14, <1>15 DEF Growing, a, n, w

\* When the buddy is in use, or the block has the largest order, it enters its list.
LEMMA PutBackFrees ==
  ASSUME BitsFit, NEW m, NEW U, NEW p, NEW o, NEW k \in Order, NEW x, Growing(m, U, p, o, k, x),
         Extent(p, o) \subseteq U,
         ~Merges(XorBit(x.mem.map, BitOf(x.page, k)), x.page, k)
  PROVE  Freed(m, U, p, o, PutBack(x.mem, x.page, k))
<1> DEFINE n == x.mem
           w == x.page
           V == U \cup Extent(w, k)
           s == <<w>> \o n.list[k]
           t == [n EXCEPT !.map = XorBit(@, BitOf(w, k)), !.list[k] = <<w>> \o @]
           z == PutBack(n, w, k)
<1>1. /\ n \in Loose /\ w \in Int /\ Block(w, k)
      /\ n \in TypeOfMem /\ ~n.damaged /\ Arena(n.list, n.map, V)
      /\ n.type = m.type /\ n.ref = m.ref
      /\ Extent(p, o) \subseteq Extent(w, k)
      /\ Extent(w, k) \cap (U \ Extent(p, o)) = {}
  BY DEF Growing, Step, Sound
<1>2. BitOf(w, k) \notin XorBit(n.map, BitOf(w, k)) => k + 1 >= MaxOrder
  <2>1. k + 1 \in Int /\ MaxOrder \in Int
    BY BuddyAssumption DEF Order
  <2>2. QED
    BY <2>1 DEF Merges
<1> HIDE DEF n, w
<1>3. n.list \in [Order -> Seq(Page)] /\ n.map \in SUBSET Nat /\ n.list[k] \in Seq(Page) /\ IsInjective(n.list[k])
  BY <1>1 DEF TypeOfMem, Arena, ListsRight
<1>4. w \in Extent(w, k) /\ w \in Page
  BY <1>1, BlockInMemory DEF Block
<1>5. w \notin Avail(n.list, k)
  <2> SUFFICES ASSUME w \in Avail(n.list, k) PROVE FALSE
    OBVIOUS
  <2>1. Extent(w, k) \cap V = {}
    <3> HIDE DEF V
    <3> QED
      BY <1>1, FreeIsNotUsed
  <2>2. QED
    BY <1>4, <2>1
<1>6. k + 1 < MaxOrder => Buddy(w, k) \notin Avail(n.list, k)
  <2> SUFFICES ASSUME k + 1 < MaxOrder PROVE Buddy(w, k) \notin Avail(n.list, k)
    OBVIOUS
  <2>1. BitOf(w, k) \notin n.map
    <3>1. ~(k + 1 >= MaxOrder)
      BY BuddyAssumption DEF Order
    <3>2. QED
      BY <1>2, <3>1 DEF XorBit
  <2>2. (BitOf(w, k) \in n.map) <=> ((w \in Avail(n.list, k)) # (Buddy(w, k) \in Avail(n.list, k)))
    BY <1>1, <1>4 DEF Arena, BitsRight
  <2>3. QED
    BY <1>5, <2>1, <2>2
<1>7. s \in Seq(Page) /\ IsInjective(s) /\ ToSet(s) = Avail(n.list, k) \cup {w}
  BY <1>3, <1>4, <1>5, OneInFront DEF Avail
<1>8. t \in Loose /\ Relists(t, n, k, s, BitOf(w, k))
  <2> DEFINE b == BitOf(w, k)
  <2>1. b \in Int
    BY <1>1, BitInOrder
  <2>2. s \in Seq(Int)
    <3>1. n.list[k] \in Seq(Int)
      BY <1>1 DEF Loose
    <3>2. QED
      BY <1>1, <3>1, OneInFront
  <2>3. t = [n EXCEPT !.list = [n.list EXCEPT ![k] = s], !.map = XorBit(n.map, b)]
    BY <1>1 DEF Loose
  <2> HIDE DEF t, s, b
  <2>4. t \in Loose /\ Relists(t, n, k, s, b)
    BY <1>1, <2>1, <2>2, <2>3, LooseRelisted
  <2>5. QED
    BY <2>4 DEF b
<1>9. z = SetInfo(t, w, k, "free", 0)
  BY DEF PutBack
<1> HIDE DEF t, z
<1>10. z \in Loose /\ Marks(z, t, w, k, "free", 0)
  <2>1. t \in Loose /\ "free" \in PageType /\ 0 \in Int
    BY <1>8 DEF PageType
  <2>2. SetInfo(t, w, k, "free", 0) \in Loose /\ Marks(SetInfo(t, w, k, "free", 0), t, w, k, "free", 0)
    BY <2>1, LooseSetInfo, Zenon
  <2>3. QED
    BY <1>9, <2>2
<1>11. /\ z.list = [n.list EXCEPT ![k] = s] /\ z.map = XorBit(n.map, BitOf(w, k)) /\ z.damaged = n.damaged
       /\ \A q \in Page : /\ z.type[q] = IF q \in Extent(w, k) THEN "free" ELSE m.type[q]
                          /\ z.ref[q] = IF q \in Extent(w, k) THEN 0 ELSE m.ref[q]
  BY <1>1, <1>8, <1>10 DEF Marks, Relists
<1>12. Arena(z.list, z.map, V \ Extent(w, k))
  <2> DEFINE L == n.list
             X == n.map
  <2>1. /\ Arena(L, X, V) /\ ToSet(s) = Avail(L, k) \cup {w} /\ Extent(w, k) \subseteq V
        /\ k + 1 < MaxOrder => Buddy(w, k) \notin Avail(L, k)
    BY <1>1, <1>6, <1>7
  <2>2. z.list = [L EXCEPT ![k] = s] /\ z.map = XorBit(X, BitOf(w, k))
    BY <1>11
  <2> HIDE DEF s, L, X, V
  <2>3. Arena([L EXCEPT ![k] = s], XorBit(X, BitOf(w, k)), V \ Extent(w, k))
    BY <1>1, <1>7, <2>1, BlockPutBack
  <2>4. QED
    BY <2>2, <2>3
<1>13. V \ Extent(w, k) = U \ Extent(p, o)
  BY <1>1
<1>14. z \in TypeOfMem
  <2>1. BitOf(w, k) \in Nat
    BY <1>1, BitInOrder
  <2>2. z.map \in SUBSET Nat
    BY <1>3, <1>11, <2>1 DEF XorBit
  <2>3. z.list \in [Order -> Seq(Page)]
    <3> HIDE DEF s
    <3> QED
      BY <1>3, <1>7, <1>11
  <2>4. QED
    BY <1>10, <2>2, <2>3, LooseIsTyped
<1>15. Sound(z, U \ Extent(p, o))
  BY <1>1, <1>11, <1>12, <1>13, <1>14 DEF Sound
<1>16. Extent(w, k) \subseteq Page /\ V \subseteq Page
  BY <1>1, BlockInMemory DEF Arena, Covered
<1>17. QED
  BY <1>1, <1>11, <1>15, <1>16 DEF Freed, z, n, w

\* free_pages_of_power_2: merging and putting back gives exactly the pages back.
LEMMA FreeGivesBack ==
  ASSUME BitsFit, NEW m, NEW U, Sound(m, U), NEW p, NEW o \in Order,
         Block(p, o), Extent(p, o) \subseteq U
  PROVE  Freed(m, U, p, o, Free(m, p, o))
<1>1. m \in Loose /\ p \in Int /\ MaxOrder \in Nat /\ o \in Nat /\ o < MaxOrder
  BY SoundIsLoose, BuddyAssumption DEF Sound, Block, Page, Order
<1>2. PICK merged : \E top \in o .. MaxOrder - 1 :
           LET GoesOn(k) == Merges(XorBit(merged[k].mem.map, BitOf(merged[k].page, k)), merged[k].page, k) IN
           /\ merged[o] = [mem |-> m, page |-> p]
           /\ \A k \in o .. MaxOrder - 2 : merged[k + 1] = Merge(merged[k].mem, merged[k].page, k)
           /\ ~GoesOn(top) /\ \A j \in o .. top - 1 : GoesOn(j)
           /\ Free(m, p, o) = PutBack(merged[top].mem, merged[top].page, top)
  BY <1>1, FreeUnfolds
<1> DEFINE GoesOn(k) == Merges(XorBit(merged[k].mem.map, BitOf(merged[k].page, k)), merged[k].page, k)
<1>3. PICK top \in o .. MaxOrder - 1 :
           /\ merged[o] = [mem |-> m, page |-> p]
           /\ \A k \in o .. MaxOrder - 2 : merged[k + 1] = Merge(merged[k].mem, merged[k].page, k)
           /\ ~GoesOn(top) /\ \A j \in o .. top - 1 : GoesOn(j)
           /\ Free(m, p, o) = PutBack(merged[top].mem, merged[top].page, top)
  BY <1>2
<1>4. Growing(m, U, p, o, o, merged[o])
  <2>1. U \cup Extent(p, o) = U
    OBVIOUS
  <2>2. merged[o].mem = m /\ merged[o].page = p /\ merged[o] \in Step
    BY <1>1, <1>3 DEF Step
  <2>3. QED
    BY <2>1, <2>2 DEF Growing
<1>5. ASSUME NEW k \in o .. top - 1, Growing(m, U, p, o, k, merged[k])
      PROVE  Growing(m, U, p, o, k + 1, merged[k + 1])
  <2>1. k \in Order /\ k \in o .. MaxOrder - 2
    BY <1>1 DEF Order
  <2>2. merged[k + 1] = Merge(merged[k].mem, merged[k].page, k) /\ GoesOn(k)
    BY <1>3, <2>1
  <2>3. QED
    BY <1>5, <2>1, <2>2, MergeGrows
<1>6. Growing(m, U, p, o, top, merged[top])
  <2> DEFINE T == {k \in o .. top : ~Growing(m, U, p, o, k, merged[k])}
  <2>1. T = {}
    <3> SUFFICES ASSUME T # {} PROVE FALSE
      OBVIOUS
    <3>1. PICK k \in T : \A j \in T : k <= j
      <4>1. T \subseteq Nat
        BY <1>1
      <4> HIDE DEF T
      <4>2. QED
        BY <4>1, LeastNumber
    <3>2. k \in o .. top /\ ~Growing(m, U, p, o, k, merged[k]) /\ k # o
      BY <1>4, <3>1
    <3> DEFINE j == k - 1
    <3>3. j \in o .. top /\ j \in o .. top - 1 /\ j + 1 = k /\ ~(k <= j)
      BY <1>1, <3>2
    <3> HIDE DEF j
    <3>4. Growing(m, U, p, o, j, merged[j])
      BY <3>1, <3>3
    <3>5. Growing(m, U, p, o, j + 1, merged[j + 1])
      BY <1>5, <3>3, <3>4
    <3>6. QED
      BY <3>2, <3>3, <3>5
  <2>2. top \in o .. top
    BY <1>1
  <2>3. QED
    BY <2>1, <2>2
<1>7. top \in Order
  BY <1>1 DEF Order
<1>8. Freed(m, U, p, o, PutBack(merged[top].mem, merged[top].page, top))
  <2>1. ~Merges(XorBit(merged[top].mem.map, BitOf(merged[top].page, top)), merged[top].page, top)
    BY <1>3
  <2>2. QED
    BY <1>6, <1>7, <2>1, PutBackFrees
<1>9. QED
  BY <1>3, <1>8

-----------------------------------------------------------------------------
(* The client *)

\* round_up_power_2 gives a large enough block, and that of a power of two is exact.
LEMMA OrderOfRight ==
  ASSUME NEW n \in Nat \ {0}
  PROVE  OrderOf(n) \in Nat /\ Pow2[OrderOf(n)] >= n /\ \A j \in 0 .. OrderOf(n) - 1 : Pow2[j] < n
<1> DEFINE T == {o \in 0 .. n : Pow2[o] >= n}
<1>1. n \in T
  BY Pow2Type
<1>2. PICK o \in T : \A j \in T : o <= j
  <2>1. T # {} /\ T \subseteq Nat
    BY <1>1
  <2> HIDE DEF T
  <2>2. QED
    BY <2>1, LeastNumber
<1>3. o \in 0 .. n /\ Pow2[o] >= n
  BY <1>2
<1>4. \A j \in 0 .. o - 1 : Pow2[j] < n
  <2> SUFFICES ASSUME NEW j \in 0 .. o - 1 PROVE Pow2[j] < n
    OBVIOUS
  <2>1. j \in 0 .. n /\ ~(o <= j) /\ Pow2[j] \in Nat
    BY <1>3, Pow2Type
  <2>2. j \notin T
    BY <1>2, <2>1
  <2>3. QED
    BY <2>1, <2>2
<1>5. QED
  BY <1>3, <1>4 DEF OrderOf

\* 1 << n grows with n.
LEMMA Pow2Grows ==
  ASSUME NEW n \in Nat, NEW k \in Nat, n < k
  PROVE  Pow2[n] < Pow2[k]
<1> DEFINE d == k - n
<1>1. d \in Nat /\ d # 0 /\ n + d = k
  OBVIOUS
<1> HIDE DEF d
<1>2. Pow2[n + d] = Pow2[d] * Pow2[n]
  BY <1>1, Pow2Sum
<1>3. Pow2[d] \in Nat /\ Pow2[d] > 1 /\ Pow2[n] \in Nat \ {0}
  BY <1>1, Pow2Type
<1> DEFINE x == Pow2[d]
           y == Pow2[n]
<1>4. x \in Nat /\ x > 1 /\ y \in Nat \ {0} /\ Pow2[k] = x * y
  BY <1>1, <1>2, <1>3
<1> HIDE DEF x, y
<1>5. x * y > y
  BY <1>4, SMTT(30)
<1>6. QED
  BY <1>4, <1>5 DEF y

\* A block of 1 << o pages has order o.
LEMMA OrderOfPower ==
  ASSUME NEW o \in Nat
  PROVE  OrderOf(Pow2[o]) = o
<1> DEFINE n == Pow2[o]
           k == OrderOf(n)
<1>1. n \in Nat \ {0}
  BY Pow2Type
<1>2. k \in Nat /\ Pow2[k] >= n /\ \A j \in 0 .. k - 1 : Pow2[j] < n
  <2> HIDE DEF n
  <2> QED
    BY <1>1, OrderOfRight
<1> HIDE DEF k
<1>3. ~(o < k)
  <2> SUFFICES ASSUME o < k PROVE FALSE
    OBVIOUS
  <2>1. o \in 0 .. k - 1
    BY <1>2
  <2>2. Pow2[o] < n
    BY <1>2, <2>1
  <2>3. QED
    BY <1>1, <2>2
<1>4. ~(k < o)
  <2> SUFFICES ASSUME k < o PROVE FALSE
    OBVIOUS
  <2>1. Pow2[k] < Pow2[o] /\ Pow2[k] \in Nat
    BY <1>2, Pow2Grows, Pow2Type
  <2>2. QED
    BY <1>1, <1>2, <2>1
<1>5. k = o
  BY <1>2, <1>3, <1>4
<1>6. QED
  BY <1>5 DEF k

\* init_memory: all pages are free, in the largest blocks.
LEMMA InitSound == Sound(InitMemory, {})
<1> DEFINE N == Largest
           top == MaxOrder - 1
           L == InitMemory.list
<1>1. /\ MaxOrder \in Nat /\ top \in Nat /\ top \in Order /\ N = Pow2[top] /\ N \in Nat \ {0} /\ Usable \in Nat \ {0}
  BY Pow2Type, BuddyAssumption DEF Largest, Order
<1>2. PICK j \in Nat : Usable = j * N
  BY <1>1, UsableMultiple
<1> HIDE DEF N, top
<1>3. Usable \div N = j
  BY <1>1, <1>2, MultipleOf
<1> DEFINE s == [i \in 1 .. j |-> Usable - i * N]
<1>4. ASSUME NEW i \in 1 .. j
      PROVE  /\ Usable - i * N = (j - i) * N /\ j - i \in Nat /\ (j - i) * N \in Nat
             /\ (j - i) * N + N <= Usable /\ Block((j - i) * N, top)
  <2>1. (j - i) * N = j * N - i * N /\ j - i \in Nat /\ i * N \in Nat
    BY <1>1, SMTT(30)
  <2>2. (j - i) * N \in Nat /\ ((j - i) * N) % N = 0
    BY <1>1, <2>1, MultipleOf
  <2>3. i * N >= N
    BY <1>1, SMTT(30)
  <2>4. (j - i) * N + N <= Usable
    BY <1>1, <1>2, <2>1, <2>2, <2>3
  <2>5. (j - i) * N \in Page
    BY <1>1, <2>2, <2>4 DEF Page
  <2>6. QED
    BY <1>1, <1>2, <2>1, <2>2, <2>4, <2>5 DEF Block
<1>5. L = [o \in Order |-> IF o = top THEN s ELSE <<>>]
  BY <1>1, <1>3 DEF InitMemory, top, N
<1>6. s \in Seq(Page) /\ DOMAIN s = 1 .. j
  <2>1. s \in [1 .. j -> Page]
    <3>1. \A i \in 1 .. j : Usable - i * N \in Page
      BY <1>4 DEF Block
    <3>2. QED
      BY <3>1
  <2> HIDE DEF s
  <2>2. QED
    BY <2>1, SeqDef
<1>7. \A i, k \in 1 .. j : s[i] = s[k] => i = k
  <2> SUFFICES ASSUME NEW i \in 1 .. j, NEW k \in 1 .. j, s[i] = s[k] PROVE i = k
    OBVIOUS
  <2>1. i * N = k * N
    <3>1. i * N \in Int /\ k * N \in Int
      BY <1>1
    <3>2. Usable - i * N = Usable - k * N
      OBVIOUS
    <3>3. QED
      BY <1>1, <3>1, <3>2
  <2>2. QED
    BY <1>1, <2>1, SMTT(30)
<1>8. \A p \in ToSet(s) : \E i \in 1 .. j : p = s[i]
  BY <1>6 DEF ToSet
<1>9. \A i \in 1 .. j : s[i] \in ToSet(s)
  BY <1>6 DEF ToSet
<1>10. \A i \in 1 .. j : s[i] = (j - i) * N /\ Block(s[i], top)
  BY <1>4
<1> HIDE DEF s, L
<1>11. /\ L \in [Order -> Seq(Page)] /\ Avail(L, top) = ToSet(s)
       /\ \A o \in Order : o # top => Avail(L, o) = {}
  <2>1. <<>> \in Seq(Page) /\ ToSet(<<>>) = {}
    BY EmptySeq DEF ToSet
  <2>2. QED
    BY <1>1, <1>5, <1>6, <2>1 DEF Avail
<1>12. ListsRight(L)
  <2>1. \A o \in Order : IsInjective(L[o])
    <3>1. IsInjective(s)
      BY <1>6, <1>7 DEF IsInjective
    <3>2. IsInjective(<<>>)
      BY DEF IsInjective
    <3>3. QED
      BY <1>5, <3>1, <3>2
  <2>2. \A o \in Order : \A p \in Avail(L, o) : Block(p, o)
    BY <1>8, <1>10, <1>11
  <2>3. QED
    BY <1>11, <2>1, <2>2 DEF ListsRight
<1>13. Apart(L)
  <2> SUFFICES ASSUME NEW p \in ToSet(s), NEW r \in ToSet(s), p # r
               PROVE  Extent(p, top) \cap Extent(r, top) = {}
    BY <1>11 DEF Apart
  <2>1. PICK i \in 1 .. j : p = s[i]
    BY <1>8
  <2>2. PICK k \in 1 .. j : r = s[k]
    BY <1>8
  <2> DEFINE x == j - i
             y == j - k
  <2>3. x \in Nat /\ y \in Nat /\ x # y /\ p = x * N /\ r = y * N
    BY <1>10, <2>1, <2>2
  <2> HIDE DEF x, y
  <2>4. Extent(p, top) = p .. p + N - 1 /\ Extent(r, top) = r .. r + N - 1
    BY <1>1 DEF Extent
  <2>5. p \in Nat /\ r \in Nat
    BY <1>1, <2>3, MultipleOf
  <2>6. CASE x < y
    <3>1. (x + 1) * N <= y * N /\ (x + 1) * N = x * N + N
      BY <1>1, <2>3, <2>6, SMTT(30)
    <3>2. p + N <= r
      BY <1>1, <2>3, <3>1
    <3>3. QED
      BY <1>1, <2>4, <2>5, <3>2
  <2>7. CASE y < x
    <3>1. (y + 1) * N <= x * N /\ (y + 1) * N = y * N + N
      BY <1>1, <2>3, <2>7, SMTT(30)
    <3>2. r + N <= p
      BY <1>1, <2>3, <3>1
    <3>3. QED
      BY <1>1, <2>4, <2>5, <3>2
  <2>8. QED
    BY <2>3, <2>6, <2>7
<1>14. Covered(L, {})
  <2> SUFFICES ASSUME NEW q \in Page PROVE \E p \in ToSet(s) : q \in Extent(p, top)
    BY <1>1, <1>11 DEF Covered
  <2>1. q \in Nat /\ q < Usable
    BY <1>1 DEF Page
  <2> DEFINE c == q \div N
  <2>2. c \in Int /\ c >= 0 /\ N * c <= q /\ q < N * c + N
    BY <1>1, <2>1, SMTT(30)
  <2> HIDE DEF c
  <2>3. c < j
    <3> SUFFICES ASSUME j <= c PROVE FALSE
      BY <2>2
    <3>1. j * N <= N * c
      BY <1>1, <2>2, SMTT(30)
    <3>2. N * c \in Int
      BY <1>1, <2>2
    <3>3. QED
      BY <1>1, <1>2, <2>1, <2>2, <3>1, <3>2
  <2> DEFINE i == j - c
  <2>4. i \in 1 .. j /\ j - i = c
    BY <2>2, <2>3
  <2> HIDE DEF i
  <2>5. s[i] = c * N
    BY <1>10, <2>4
  <2>6. c * N = N * c /\ c * N \in Int
    BY <1>1, <2>2, SMTT(30)
  <2>7. q \in Extent(s[i], top)
    <3>1. Extent(s[i], top) = s[i] .. s[i] + N - 1
      BY <1>1 DEF Extent
    <3> DEFINE x == N * c
    <3>2. x \in Int /\ x <= q /\ q < x + N /\ s[i] = x
      BY <2>2, <2>5, <2>6
    <3> HIDE DEF x
    <3>3. q \in x .. x + N - 1
      BY <1>1, <2>1, <3>2
    <3>4. QED
      BY <3>1, <3>2, <3>3
  <2>8. QED
    BY <1>9, <2>4, <2>7
<1>15. BitsRight(L, {})
  <2> SUFFICES ASSUME NEW o \in Order, o + 1 < MaxOrder PROVE Avail(L, o) = {}
    BY DEF BitsRight
  <2>1. o # top
    BY <1>1 DEF top, Order
  <2>2. QED
    BY <1>11, <2>1
<1>16. InitMemory \in TypeOfMem
  <2>1. [p \in Page |-> "free"] \in [Page -> PageType] /\ [p \in Page |-> 0] \in [Page -> Int]
    BY DEF PageType
  <2>2. InitMemory = [list |-> L, map |-> {}, type |-> [p \in Page |-> "free"], ref |-> [p \in Page |-> 0], damaged |-> FALSE]
    BY DEF InitMemory, L
  <2>3. QED
    BY <1>11, <2>1, <2>2 DEF TypeOfMem
<1>17. InitMemory.map = {} /\ InitMemory.damaged = FALSE
  BY DEF InitMemory
<1>18. QED
  BY <1>12, <1>13, <1>14, <1>15, <1>16, <1>17 DEF Sound, Arena, L

\* The pages of a set of blocks.
PagesOf(blocks) == UNION {Extent(b[1], b[2]) : b \in blocks}

\* What the client holds is in use, and nothing else is.
BuddyInv ==
  /\ held \subseteq Page \X Order
  /\ \A b \in held : Block(b[1], b[2])
  /\ \A b, c \in held : b # c => Extent(b[1], b[2]) \cap Extent(c[1], c[2]) = {}
  /\ Sound(arena, PagesOf(held))

\* page_alloc for the client.
LEMMA TakeKeeps ==
  ASSUME BitsFit, BuddyInv, NEW n \in 1 .. Largest + 1, Take(n)
  PROVE  BuddyInv'
<1> DEFINE o == OrderOf(n)
           U == PagesOf(held)
           a == PageAlloc(arena, n, "user")
<1>1. n \in Nat \ {0} /\ "user" \in PageType
  BY DEF PageType
<1>2. o \in Nat
  BY <1>1, OrderOfRight
<1>3. a = Allocate(arena, o, "user")
  BY DEF PageAlloc
<1> HIDE DEF a, o
<1>4. \/ a.page = Nowhere /\ a.mem = arena
      \/ o \in Order /\ Allocated(arena, U, "user", o, a)
  <2> HIDE DEF U
  <2>1. Sound(arena, U)
    BY DEF BuddyInv, U
  <2>2. QED
    BY <1>1, <1>2, <1>3, <2>1, AllocateGives
<1>5. arena' = a.mem /\ held' = IF a.page = Nowhere THEN held ELSE held \cup {<<a.page, o>>}
  BY DEF Take, a, o
<1>6. CASE a.page = Nowhere
  <2>1. a.mem = arena
    <3>1. Nowhere \notin Page
      BY DEF Page, Nowhere
    <3>2. QED
      BY <1>4, <1>6, <3>1 DEF Allocated, Block
  <2>2. QED
    BY <1>5, <1>6, <2>1 DEF BuddyInv
<1>7. CASE a.page # Nowhere
  <2> DEFINE c == <<a.page, o>>
  <2>1. o \in Order /\ Allocated(arena, U, "user", o, a)
    BY <1>4, <1>7
  <2>2. /\ Block(c[1], c[2]) /\ c \in Page \X Order /\ Extent(c[1], c[2]) \cap U = {}
        /\ Sound(arena', U \cup Extent(c[1], c[2]))
    BY <1>5, <2>1 DEF Allocated, Block
  <2>3. held' = held \cup {c}
    BY <1>5, <1>7
  <2> HIDE DEF c
  <2>4. PagesOf(held') = U \cup Extent(c[1], c[2])
    BY <2>3 DEF PagesOf
  <2>5. \A b \in held : Extent(b[1], b[2]) \cap Extent(c[1], c[2]) = {}
    BY <2>2 DEF PagesOf
  <2>6. QED
    BY <2>2, <2>3, <2>4, <2>5 DEF BuddyInv
<1>8. QED
  BY <1>6, <1>7

\* page_free by the client.
LEMMA GiveKeeps ==
  ASSUME BitsFit, BuddyInv, NEW b \in Page \X Order, Give(b)
  PROVE  BuddyInv'
<1> DEFINE p == b[1]
           o == b[2]
           U == PagesOf(held)
           n == Free(arena, p, o)
<1>1. o \in Order /\ o \in Nat /\ b \in held /\ Block(p, o)
  BY DEF Give, BuddyInv, Order
<1>2. arena' = n /\ held' = held \ {b}
  BY <1>1, OrderOfPower DEF Give, PageFree
<1>3. Extent(p, o) \subseteq U
  BY <1>1 DEF PagesOf
<1>4. Freed(arena, U, p, o, n)
  <2>1. Sound(arena, U)
    BY DEF BuddyInv
  <2> HIDE DEF U, p, o
  <2>2. QED
    BY <1>1, <1>3, <2>1, FreeGivesBack
<1>5. PagesOf(held') = U \ Extent(p, o)
  <2>1. \A c \in held : c # b => Extent(c[1], c[2]) \cap Extent(p, o) = {}
    BY <1>1 DEF BuddyInv
  <2>2. QED
    BY <1>2, <2>1 DEF PagesOf
<1>6. Sound(arena', PagesOf(held'))
  BY <1>2, <1>4, <1>5 DEF Freed
<1>7. QED
  BY <1>2, <1>6 DEF BuddyInv

\* The client's invariant, and with it that the allocator is in order, holds always
\* on a memory where no two orders share a bit (memory_init.c does not see to that).
THEOREM BuddyInvariant ==
  ASSUME OrdersApart
  PROVE  BuddySpec => []BuddyInv
<1>0. BitsFit
  BY ApartFits
<1>1. BuddyInit => BuddyInv
  BY InitSound DEF BuddyInit, BuddyInv, PagesOf
<1>2. BuddyInv /\ [BuddyNext]_<<arena, held>> => BuddyInv'
  <2> SUFFICES ASSUME BuddyInv, [BuddyNext]_<<arena, held>> PROVE BuddyInv'
    OBVIOUS
  <2>1. CASE UNCHANGED <<arena, held>>
    BY <2>1 DEF BuddyInv
  <2>2. ASSUME NEW n \in 1 .. Largest + 1, Take(n) PROVE BuddyInv'
    BY <1>0, <2>2, TakeKeeps
  <2>3. ASSUME NEW b \in Page \X Order, Give(b) PROVE BuddyInv'
    BY <1>0, <2>3, GiveKeeps
  <2>4. QED
    BY <2>1, <2>2, <2>3 DEF BuddyNext
<1>3. QED
  BY <1>1, <1>2, PTL DEF BuddySpec

\* What is in use and what is free is a partition of the memory, and free buddies are merged.
LEMMA SoundPartitions ==
  ASSUME BuddyInv
  PROVE  BlocksPartition
<1>1. /\ arena \in TypeOfMem /\ ~arena.damaged /\ Arena(arena.list, arena.map, PagesOf(held))
      /\ arena.list \in [Order -> Seq(Page)]
  BY DEF BuddyInv, Sound, TypeOfMem
<1>2. \A o \in Order : Avail(arena.list, o) = ToSet(arena.list[o]) /\ Avail(arena.list, o) \subseteq Page
  <2> SUFFICES ASSUME NEW o \in Order PROVE ToSet(arena.list[o]) \subseteq Page
    BY DEF Avail
  <2>1. arena.list[o] \in Seq(Page)
    BY <1>1
  <2>2. \A i \in DOMAIN arena.list[o] : arena.list[o][i] \in Page
    BY <2>1, ElementOfSeq, LenProperties
  <2>3. QED
    BY <2>2 DEF ToSet
<1>3. \A b : b \in FreeBlocks(arena) <=> (b \in Page \X Order /\ b[1] \in Avail(arena.list, b[2]))
  BY <1>2 DEF FreeBlocks
<1>4. Coalesced
  <2> SUFFICES ASSUME NEW b \in FreeBlocks(arena), b[2] + 1 < MaxOrder,
                      <<Buddy(b[1], b[2]), b[2]>> \in FreeBlocks(arena)
               PROVE  FALSE
    BY DEF Coalesced
  <2>1. b[1] \in Page /\ b[2] \in Order /\ b[1] \in Avail(arena.list, b[2])
    BY <1>3
  <2>2. Buddy(b[1], b[2]) \in Avail(arena.list, b[2])
    BY <1>3
  <2>3. Block(b[1], b[2])
    BY <1>1, <2>1 DEF Arena, ListsRight
  <2>4. QED
    BY <1>1, <2>1, <2>2, <2>3 DEF Arena, BitsRight
<1>5. ASSUME NEW q \in Page
      PROVE  Cardinality({b \in FreeBlocks(arena) \cup held : q \in Extent(b[1], b[2])}) = 1
  <2> DEFINE S == {b \in FreeBlocks(arena) \cup held : q \in Extent(b[1], b[2])}
  <2>1. \E b : S = {b}
    <3>1. CASE q \in PagesOf(held)
      <4>1. PICK b \in held : q \in Extent(b[1], b[2])
        BY <3>1 DEF PagesOf
      <4>2. \A c \in FreeBlocks(arena) : q \notin Extent(c[1], c[2])
        BY <1>1, <1>3, <3>1 DEF Arena, Covered
      <4>3. \A c \in held : q \in Extent(c[1], c[2]) => c = b
        BY <4>1 DEF BuddyInv
      <4>4. S = {b}
        BY <4>1, <4>2, <4>3
      <4>5. QED
        BY <4>4
    <3>2. CASE q \notin PagesOf(held)
      <4>1. PICK o \in Order : \E p \in Avail(arena.list, o) : q \in Extent(p, o)
        BY <1>1, <3>2 DEF Arena, Covered
      <4>2. PICK p \in Avail(arena.list, o) : q \in Extent(p, o)
        BY <4>1
      <4> DEFINE b == <<p, o>>
      <4>3. p \in Page
        BY <1>1, <4>2 DEF Arena, ListsRight, Block
      <4>4. b \in FreeBlocks(arena) /\ q \in Extent(b[1], b[2])
        BY <1>3, <4>2, <4>3
      <4>5. \A c \in held : q \notin Extent(c[1], c[2])
        BY <3>2 DEF PagesOf
      <4>6. ASSUME NEW c \in FreeBlocks(arena), q \in Extent(c[1], c[2]) PROVE c = b
        <5>1. c \in Page \X Order /\ c[1] \in Avail(arena.list, c[2])
          BY <1>3
        <5>2. c[1] = p /\ c[2] = o
          BY <1>1, <4>2, <4>6, <5>1 DEF Arena, Apart
        <5>3. QED
          BY <5>1, <5>2
      <4> HIDE DEF b
      <4>7. S = {b}
        BY <4>4, <4>5, <4>6
      <4>8. QED
        BY <4>7
    <3>3. QED
      BY <3>1, <3>2
  <2> HIDE DEF S
  <2>2. Cardinality(S) = 1
    BY <2>1, FS_Singleton
  <2>3. QED
    BY <2>2 DEF S
<1>6. QED
  BY <1>1, <1>4, <1>5 DEF BlocksPartition, ListsIntact

\* Where no two orders share a bit, page_alloc never hands out a page twice and
\* page_free loses none.
THEOREM BuddyPartition ==
  ASSUME OrdersApart
  PROVE  BuddySpec => []BlocksPartition
<1>1. BuddyInv => BlocksPartition
  BY SoundPartitions
<1>2. QED
  BY <1>1, BuddyInvariant, PTL
=============================================================================
