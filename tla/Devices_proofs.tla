--------------------------- MODULE Devices_proofs ---------------------------
(***************************************************************************)
(* Theorems about the drivers and the devices: the order in which          *)
(* core_init_driver starts the drivers, the text on the screen, the        *)
(* requests that TaskDEV takes for the devices and its answers to them,    *)
(* and the bytes of the keyboard.                                          *)
(***************************************************************************)
EXTENDS DriverOrder, Console, DevManager, Keyboard, ListLemmas

-----------------------------------------------------------------------------
(* The order of the drivers *)

\* What is left to sort in is the rest of the declarations, in their order; the
\* first two, which are not loaded, are no higher than any.
Unsorted ==
  /\ level \in [Declaration -> Int]
  /\ \A d \in Declaration : level[1] <= level[d] /\ level[2] <= level[d]
  /\ unsorted \in Seq(Declaration) /\ drivers \in Seq(Declaration)
  /\ Len(unsorted) + Len(drivers) = DriverCount
  /\ \A i \in 1 .. Len(unsorted) : unsorted[i] = Len(drivers) + i

\* The list holds the declarations before, each once, by their levels.
InOrder(s) ==
  /\ IsInjective(s) /\ ToSet(s) = 1 .. Len(s)
  /\ \A i, j \in 1 .. Len(s) : i < j => level[s[i]] <= level[s[j]]

\* The drivers that have been started are those up to `next' that are to be loaded.
StartedSoFar ==
  /\ next \in 0 .. Len(drivers)
  /\ unsorted # << >> => next = 0
  /\ started \in Seq(Declaration)
  /\ ToSet(started) = {drivers[k] : k \in {n \in 1 .. next : level[drivers[n]] >= 0}}
  /\ \A i, j \in DOMAIN started : i < j => started[i] # started[j] /\ level[started[i]] <= level[started[j]]

OrderInv == Unsorted /\ InOrder(drivers) /\ StartedSoFar

\* The numbers of the sort.
LEMMA Counts ==
  ASSUME Unsorted
  PROVE  /\ DriverCount \in Nat /\ DriverCount >= 2 /\ Declaration = 1 .. DriverCount
         /\ 1 \in Declaration /\ 2 \in Declaration
         /\ Len(drivers) \in Nat /\ Len(unsorted) \in Nat
         /\ DOMAIN drivers = 1 .. Len(drivers) /\ DOMAIN unsorted = 1 .. Len(unsorted)
         /\ \A i \in 1 .. Len(drivers) : drivers[i] \in Declaration /\ level[drivers[i]] \in Int
         /\ Len(drivers) = 0 <=> drivers = << >>
         /\ Len(unsorted) = 0 <=> unsorted = << >>
<1>1. DriverCount \in Nat /\ DriverCount >= 2
  BY OrderAssumption DEF OrderAssumption
<1>2. QED
  BY <1>1, LenProperties, ElementOfSeq, EmptySeq DEF Unsorted, Declaration

\* A driver that goes behind the k-th of the list, where it belongs, leaves it in order.
LEMMA SortedIn ==
  ASSUME Unsorted, InOrder(drivers), NEW d, d = Len(drivers) + 1, d \in Declaration,
         NEW k \in 0 .. Len(drivers),
         \A i \in 1 .. Len(drivers) : IF i <= k THEN level[drivers[i]] <= level[d]
                                      ELSE level[d] <= level[drivers[i]],
         NEW t \in Seq(Declaration), Len(t) = Len(drivers) + 1,
         \A i \in 1 .. Len(drivers) + 1 :
           t[i] = IF i <= k THEN drivers[i] ELSE IF i = k + 1 THEN d ELSE drivers[i - 1]
  PROVE  InOrder(t)
<1> DEFINE n == Len(drivers)
           old(i) == IF i <= k THEN i ELSE i - 1
<1>1. /\ n \in Nat /\ DOMAIN drivers = 1 .. n /\ DOMAIN t = 1 .. n + 1 /\ k \in Nat /\ k <= n
      /\ \A i \in 1 .. n : drivers[i] \in 1 .. n /\ level[drivers[i]] \in Int
      /\ level[d] \in Int
  <2>1. n \in Nat /\ DOMAIN drivers = 1 .. n /\ DOMAIN t = 1 .. n + 1
    BY Counts, LenProperties
  <2>2. k \in Nat /\ k <= n
    BY <2>1
  <2>3. \A i \in 1 .. n : drivers[i] \in 1 .. n
    BY <2>1 DEF InOrder, ToSet
  <2>4. level[d] \in Int
    BY DEF Unsorted
  <2>5. QED
    BY Counts, <2>1, <2>2, <2>3, <2>4
<1>2. ASSUME NEW i \in 1 .. n + 1, i # k + 1
      PROVE  old(i) \in 1 .. n /\ t[i] = drivers[old(i)] /\ t[i] # d /\ (old(i) <= k <=> i <= k)
  <2>1. old(i) \in 1 .. n /\ (old(i) <= k <=> i <= k)
    BY <1>1, <1>2
  <2>2. t[i] = drivers[old(i)]
    BY <1>2
  <2>3. QED
    BY <1>1, <2>1, <2>2
<1>3. t[k + 1] = d /\ k + 1 \in 1 .. n + 1
  BY <1>1
<1>4. \A i, j \in 1 .. n + 1 : i # k + 1 /\ j # k + 1 /\ i < j => old(i) < old(j)
  BY <1>1
<1>5. IsInjective(t)
  <2>1. SUFFICES ASSUME NEW i \in 1 .. n + 1, NEW j \in 1 .. n + 1, i < j PROVE t[i] # t[j]
    BY <1>1 DEF IsInjective
  <2>2. CASE i = k + 1 \/ j = k + 1
    BY <1>1, <1>2, <1>3, <2>1, <2>2
  <2>3. CASE i # k + 1 /\ j # k + 1
    <3>1. old(i) \in 1 .. n /\ old(j) \in 1 .. n /\ old(i) # old(j)
      BY <1>1, <1>2, <1>4, <2>1, <2>3
    <3> HIDE DEF old
    <3>2. drivers[old(i)] # drivers[old(j)]
      BY <1>1, <3>1 DEF InOrder, IsInjective
    <3>3. QED
      BY <1>2, <2>3, <3>2
  <2>4. QED
    BY <2>2, <2>3
<1>6. ToSet(t) = 1 .. Len(t)
  <2>1. ToSet(t) \subseteq 1 .. n + 1
    BY <1>1, <1>2, <1>3 DEF ToSet
  <2>2. ASSUME NEW e \in 1 .. n + 1 PROVE e \in ToSet(t)
    <3>1. CASE e = d
      BY <1>1, <1>3, <3>1 DEF ToSet
    <3>2. CASE e # d
      <4>1. e \in 1 .. n
        BY <1>1, <3>2
      <4>2. PICK i \in 1 .. n : drivers[i] = e
        <5>1. e \in ToSet(drivers)
          BY <4>1 DEF InOrder
        <5>2. QED
          BY <1>1, <5>1 DEF ToSet
      <4>3. CASE i <= k
        <5>1. i \in 1 .. n + 1 /\ t[i] = e
          BY <1>1, <4>2, <4>3
        <5>2. QED
          BY <1>1, <5>1 DEF ToSet
      <4>4. CASE ~(i <= k)
        <5>1. i + 1 \in 1 .. n + 1 /\ ~(i + 1 <= k) /\ i + 1 # k + 1 /\ (i + 1) - 1 = i
          BY <1>1, <4>4
        <5>2. t[i + 1] = e
          BY <4>2, <5>1
        <5>3. QED
          BY <1>1, <5>1, <5>2 DEF ToSet
      <4>5. QED
        BY <4>3, <4>4
    <3>3. QED
      BY <3>1, <3>2
  <2>3. QED
    BY <2>1, <2>2
<1>7. ASSUME NEW i \in 1 .. n + 1, NEW j \in 1 .. n + 1, i < j
      PROVE  level[t[i]] <= level[t[j]]
  <2>1. CASE i = k + 1
    <3>1. j # k + 1 /\ ~(j <= k) /\ t[i] = d
      BY <1>1, <1>3, <1>7, <2>1
    <3>2. old(j) \in 1 .. n /\ t[j] = drivers[old(j)] /\ ~(old(j) <= k)
      BY <1>2, <3>1
    <3> HIDE DEF old
    <3>3. QED
      BY <3>1, <3>2
  <2>2. CASE j = k + 1
    <3>1. i # k + 1 /\ i <= k /\ t[j] = d
      BY <1>1, <1>3, <1>7, <2>2
    <3>2. old(i) \in 1 .. n /\ t[i] = drivers[old(i)] /\ old(i) <= k
      BY <1>2, <3>1
    <3> HIDE DEF old
    <3>3. QED
      BY <3>1, <3>2
  <2>3. CASE i # k + 1 /\ j # k + 1
    <3>1. old(i) < old(j)
      BY <1>4, <1>7, <2>3
    <3>2. old(i) \in 1 .. n /\ old(j) \in 1 .. n /\ t[i] = drivers[old(i)] /\ t[j] = drivers[old(j)]
      BY <1>2, <2>3
    <3> HIDE DEF old
    <3>3. QED
      BY <3>1, <3>2 DEF InOrder
  <2>4. QED
    BY <2>1, <2>2, <2>3
<1>8. QED
  BY <1>5, <1>6, <1>7 DEF InOrder

\* There is always a driver to go behind: of the two that are no higher than any, one
\* is not the head, at which the search does not look.
LEMMA BehindFound ==
  ASSUME Unsorted, InOrder(drivers), NEW d, d = Len(drivers) + 1, d \in Declaration,
         drivers # << >>, ~(level[Last(drivers)] <= level[d])
  PROVE  /\ Behind(d) # {}
         /\ \A k \in Behind(d) :
              /\ k \in 0 .. Len(drivers)
              /\ \A i \in 1 .. Len(drivers) : IF i <= k THEN level[drivers[i]] <= level[d]
                                              ELSE level[d] <= level[drivers[i]]
<1> DEFINE n == Len(drivers)
           T == {i \in 2 .. n : level[drivers[i]] <= level[d]}
<1>1. /\ n \in Nat /\ n # 0 /\ DOMAIN drivers = 1 .. n /\ 1 \in Declaration
      /\ \A i \in 1 .. n : level[drivers[i]] \in Int
      /\ level[d] \in Int /\ level[1] <= level[d] /\ level[2] <= level[d]
  BY Counts DEF Unsorted
<1>2. n >= 2
  <2>1. SUFFICES ASSUME n = 1 PROVE FALSE
    BY <1>1
  <2>2. drivers[1] = 1
    <3>1. drivers[1] \in ToSet(drivers)
      BY <1>1, <2>1 DEF ToSet
    <3>2. QED
      BY <2>1, <3>1 DEF InOrder
  <2>3. QED
    BY <1>1, <2>1, <2>2 DEF Last
<1>3. \A e \in {1, 2} : \E i \in 1 .. n : drivers[i] = e
  <2>1. \A e \in {1, 2} : e \in ToSet(drivers)
    BY <1>1, <1>2 DEF InOrder
  <2>2. QED
    BY <1>1, <2>1 DEF ToSet
<1>4. T # {}
  <2>1. PICK a \in 1 .. n : drivers[a] = 1
    BY <1>3
  <2>2. PICK b \in 1 .. n : drivers[b] = 2
    BY <1>3
  <2>3. a # b
    BY <2>1, <2>2
  <2>4. a \in 2 .. n \/ b \in 2 .. n
    BY <1>1, <2>3
  <2>5. QED
    BY <1>1, <2>1, <2>2, <2>4
<1>5. PICK m \in T : \A i \in T : i <= m
  <2>1. T \subseteq 0 .. n
    BY <1>1
  <2> HIDE DEF T
  <2>2. QED
    BY <1>1, <1>4, <2>1, GreatestNumber
<1>6. m \in Behind(d)
  <2>1. ASSUME NEW j \in (m + 1) .. n
        PROVE  level[drivers[j]] > level[d]
    <3>1. j \in 2 .. n /\ j \in 1 .. n /\ ~(j <= m)
      BY <1>1, <1>5
    <3>2. ~(level[drivers[j]] <= level[d])
      BY <1>5, <3>1
    <3>3. QED
      BY <1>1, <3>1, <3>2
  <2>2. QED
    BY <1>5, <2>1 DEF Behind
<1>7. ASSUME NEW k \in Behind(d)
      PROVE  /\ k \in 0 .. n
             /\ \A i \in 1 .. n : IF i <= k THEN level[drivers[i]] <= level[d]
                                  ELSE level[d] <= level[drivers[i]]
  <2>1. /\ k \in 2 .. n /\ level[drivers[k]] <= level[d]
        /\ \A j \in (k + 1) .. n : level[drivers[j]] > level[d]
    BY DEF Behind
  <2>2. k \in 0 .. n /\ k \in 1 .. n
    BY <1>1, <2>1
  <2>3. ASSUME NEW i \in 1 .. n, i <= k
        PROVE  level[drivers[i]] <= level[d]
    <3>1. CASE i = k
      BY <2>1, <3>1
    <3>2. CASE i # k
      <4>1. i < k
        BY <2>2, <2>3, <3>2
      <4>2. level[drivers[i]] <= level[drivers[k]]
        BY <2>2, <4>1 DEF InOrder
      <4>3. QED
        BY <1>1, <2>1, <2>2, <4>2
    <3>3. QED
      BY <3>1, <3>2
  <2>4. ASSUME NEW i \in 1 .. n, ~(i <= k)
        PROVE  level[d] <= level[drivers[i]]
    <3>1. i \in (k + 1) .. n
      BY <1>1, <2>2, <2>4
    <3>2. QED
      BY <1>1, <2>1, <3>1
  <2>5. QED
    BY <2>2, <2>3, <2>4
<1>8. QED
  BY <1>6, <1>7

\* One step of the sort.
LEMMA SortKeeps ==
  ASSUME OrderInv, SortIn
  PROVE  OrderInv'
<1> DEFINE n == Len(drivers)
           d == Head(unsorted)
<1>1. /\ n \in Nat /\ unsorted # << >> /\ Len(unsorted) \in Nat /\ Len(unsorted) >= 1
      /\ unsorted' = Tail(unsorted) /\ UNCHANGED <<level, next, started, initialized>>
      /\ DOMAIN drivers = 1 .. n /\ (n = 0 <=> drivers = << >>)
      /\ unsorted \in Seq(Declaration) /\ drivers \in Seq(Declaration)
      /\ level \in [Declaration -> Int]
  BY Counts DEF OrderInv, Unsorted, SortIn
<1>2. d \in Declaration /\ d = n + 1
  <2>1. d = unsorted[1] /\ 1 \in 1 .. Len(unsorted)
    BY <1>1
  <2>2. d = n + 1
    BY <2>1 DEF OrderInv, Unsorted
  <2>3. unsorted[1] \in Declaration
    BY <1>1, <2>1, ElementOfSeq
  <2>4. QED
    BY <2>1, <2>2, <2>3
<1>3. unsorted' \in Seq(Declaration) /\ Len(unsorted') = Len(unsorted) - 1
      /\ \A i \in 1 .. Len(unsorted) - 1 : unsorted'[i] = unsorted[i + 1]
  BY <1>1
<1>4. drivers' = IF drivers = << >> \/ level[Last(drivers)] <= level[d] THEN Append(drivers, d)
                 ELSE IF Behind(d) = {} THEN <<d>> \o drivers
                 ELSE InsertAt(drivers, 1 + CHOOSE i \in Behind(d) : TRUE, d)
  BY DEF SortIn
<1> HIDE DEF d
<1>5. drivers' \in Seq(Declaration) /\ Len(drivers') = n + 1 /\ InOrder(drivers')
  <2>1. CASE drivers = << >> \/ level[Last(drivers)] <= level[d]
    <3> DEFINE t == Append(drivers, d)
    <3>1. drivers' = t
      BY <1>4, <2>1
    <3>2. t \in Seq(Declaration) /\ Len(t) = n + 1
          /\ \A i \in 1 .. n + 1 : t[i] = IF i <= n THEN drivers[i] ELSE IF i = n + 1 THEN d ELSE drivers[i - 1]
      BY <1>1, <1>2
    <3>3. \A i \in 1 .. n : level[drivers[i]] <= level[d]
      <4>1. SUFFICES ASSUME NEW i \in 1 .. n PROVE level[drivers[i]] <= level[d]
        OBVIOUS
      <4>2. drivers # << >> /\ n \in 1 .. n /\ level[drivers[n]] <= level[d]
        BY <1>1, <2>1 DEF Last
      <4>3. i = n \/ i < n
        <5>1. n \in Nat /\ i \in 1 .. n
          BY <1>1
        <5>2. QED
          BY ONLY <5>1
      <4>4. level[drivers[i]] <= level[drivers[n]] \/ i = n
        BY <4>2, <4>3 DEF OrderInv, InOrder
      <4>5. level[drivers[i]] \in Int /\ level[drivers[n]] \in Int /\ level[d] \in Int
        BY <1>1, <1>2, <4>2, ElementOfSeq
      <4>6. QED
        BY <4>2, <4>4, <4>5
    <3>4. n \in 0 .. n /\ \A i \in 1 .. n : i <= n
      BY <1>1
    <3> HIDE DEF t
    <3>5. InOrder(t)
      BY <1>2, <3>2, <3>3, <3>4, SortedIn DEF OrderInv
    <3>6. QED
      BY <1>1, <3>1, <3>2, <3>5 DEF InOrder
  <2>2. CASE ~(drivers = << >> \/ level[Last(drivers)] <= level[d])
    <3> DEFINE k == CHOOSE i \in Behind(d) : TRUE
               t == InsertAt(drivers, k + 1, d)
    <3>1. /\ Behind(d) # {} /\ k \in 0 .. n
          /\ \A i \in 1 .. n : IF i <= k THEN level[drivers[i]] <= level[d] ELSE level[d] <= level[drivers[i]]
      <4>1. Behind(d) # {} /\ \A j \in Behind(d) :
              /\ j \in 0 .. n
              /\ \A i \in 1 .. n : IF i <= j THEN level[drivers[i]] <= level[d] ELSE level[d] <= level[drivers[i]]
        BY <1>2, <2>2, BehindFound DEF OrderInv
      <4>2. k \in Behind(d)
        BY <4>1
      <4>3. QED
        BY <4>1, <4>2
    <3>2. drivers' = t
      <4>1. drivers' = InsertAt(drivers, 1 + k, d)
        BY <1>4, <2>2, <3>1
      <4>2. 1 + k = k + 1
        BY <3>1
      <4>3. QED
        BY <4>1, <4>2
    <3> HIDE DEF k
    <3>3. t \in Seq(Declaration) /\ Len(t) = n + 1
          /\ \A i \in 1 .. n + 1 : t[i] = IF i <= k THEN drivers[i] ELSE IF i = k + 1 THEN d ELSE drivers[i - 1]
      <4>1. drivers \in Seq(Declaration) /\ d \in Declaration /\ k \in 0 .. Len(drivers)
        BY <1>1, <1>2, <3>1
      <4>2. InsertAt(drivers, k + 1, d) \in Seq(Declaration)
        BY ONLY <4>1, InsertedBehind
      <4>3. Len(InsertAt(drivers, k + 1, d)) = Len(drivers) + 1
        BY ONLY <4>1, InsertedBehind
      <4>4. \A i \in 1 .. Len(drivers) + 1 :
              InsertAt(drivers, k + 1, d)[i] = IF i <= k THEN drivers[i] ELSE IF i = k + 1 THEN d ELSE drivers[i - 1]
        BY ONLY <4>1, InsertedBehind
      <4>5. QED
        BY <4>2, <4>3, <4>4
    <3> HIDE DEF t
    <3>4. InOrder(t)
      BY <1>2, <3>1, <3>3, SortedIn DEF OrderInv
    <3>5. QED
      BY <1>1, <3>2, <3>3, <3>4 DEF InOrder
  <2>3. QED
    BY <2>1, <2>2
<1>6. Unsorted'
  <2>1. ASSUME NEW i \in 1 .. Len(unsorted) - 1 PROVE unsorted'[i] = Len(drivers') + i
    <3>1. i + 1 \in 1 .. Len(unsorted) /\ (n + 1) + i = n + (i + 1)
      BY <1>1
    <3>2. unsorted[i + 1] = n + (i + 1)
      BY <3>1 DEF OrderInv, Unsorted
    <3>3. QED
      BY <1>3, <1>5, <3>1, <3>2
  <2>2. Len(unsorted') + Len(drivers') = DriverCount
    <3>1. Len(unsorted) + n = DriverCount
      BY DEF OrderInv, Unsorted
    <3>2. QED
      BY <1>1, <1>3, <1>5, <3>1
  <2>3. QED
    BY <1>1, <1>3, <1>5, <2>1, <2>2 DEF OrderInv, Unsorted
<1>7. StartedSoFar'
  <2>1. next = 0 /\ next' = 0 /\ started' = started /\ level' = level
    BY <1>1 DEF OrderInv, StartedSoFar
  <2>2. ToSet(started) = {} /\ next' \in 0 .. Len(drivers')
    BY <1>1, <1>5, <2>1 DEF OrderInv, StartedSoFar
  <2>3. QED
    BY <1>1, <2>1, <2>2 DEF OrderInv, StartedSoFar
<1>8. InOrder(drivers)'
  BY <1>1, <1>5 DEF InOrder
<1>9. QED
  BY <1>6, <1>7, <1>8 DEF OrderInv

\* The init of the next driver is called behind those of all that come before it.
LEMMA StartKeeps ==
  ASSUME OrderInv, StartNext
  PROVE  OrderInv'
<1> DEFINE n == Len(drivers)
           d == drivers[next + 1]
           Loaded(m) == {drivers[k] : k \in {i \in 1 .. m : level[drivers[i]] >= 0}}
<1>1. /\ n \in Nat /\ unsorted = << >> /\ next \in Nat /\ next < n /\ next' = next + 1
      /\ UNCHANGED <<level, unsorted, drivers>>
      /\ DOMAIN drivers = 1 .. n /\ next + 1 \in 1 .. n
      /\ d \in Declaration /\ drivers \in Seq(Declaration) /\ started \in Seq(Declaration)
      /\ \A i \in 1 .. n : level[drivers[i]] \in Int
  <2>1. n \in Nat /\ next \in 0 .. n /\ next < n
    BY Counts DEF OrderInv, StartedSoFar, StartNext
  <2>2. next \in Nat /\ next + 1 \in 1 .. n
    BY ONLY <2>1
  <2>3. QED
    BY <2>1, <2>2, Counts DEF OrderInv, StartedSoFar, StartNext, Unsorted
<1>2. Unsorted' /\ InOrder(drivers)'
  BY <1>1 DEF OrderInv, Unsorted, InOrder
<1>3. next' \in 0 .. n /\ (unsorted' # << >> => next' = 0)
  BY <1>1
<1>4. \A k \in 1 .. next + 1 : k \in 1 .. next \/ k = next + 1
  BY <1>1
<1>5. StartedSoFar'
  <2>1. CASE level[d] < 0
    <3>1. started' = started
      BY <2>1 DEF StartNext
    <3>2. Loaded(next + 1) = Loaded(next)
      <4>1. ~(level[drivers[next + 1]] >= 0)
        BY <1>1, <2>1
      <4>2. \A k \in 1 .. next : k \in 1 .. next + 1
        BY <1>1
      <4>3. {i \in 1 .. next + 1 : level[drivers[i]] >= 0} = {i \in 1 .. next : level[drivers[i]] >= 0}
        BY <1>4, <4>1, <4>2
      <4>4. QED
        BY <4>3
    <3>3. QED
      BY <1>1, <1>3, <3>1, <3>2 DEF OrderInv, StartedSoFar
  <2>2. CASE ~(level[d] < 0)
    <3> DEFINE t == Append(started, d)
    <3>1. started' = t
      BY <2>2 DEF StartNext
    <3>2. /\ Len(started) \in Nat /\ DOMAIN started = 1 .. Len(started)
          /\ t \in Seq(Declaration) /\ Len(t) = Len(started) + 1 /\ DOMAIN t = 1 .. Len(started) + 1
          /\ \A i \in 1 .. Len(started) : t[i] = started[i]
          /\ t[Len(started) + 1] = d
      BY <1>1, LenProperties
    <3> HIDE DEF t
    <3>3. ToSet(t) = ToSet(started) \cup {d}
      <4>1. \A i \in 1 .. Len(started) + 1 : i \in 1 .. Len(started) \/ i = Len(started) + 1
        BY <3>2
      <4>2. \A i \in 1 .. Len(started) : i \in 1 .. Len(started) + 1
        BY <3>2
      <4>3. Len(started) + 1 \in 1 .. Len(started) + 1
        BY <3>2
      <4>4. ToSet(t) \subseteq ToSet(started) \cup {d}
        BY <3>2, <4>1 DEF ToSet
      <4>5. ToSet(started) \cup {d} \subseteq ToSet(t)
        BY <3>2, <4>2, <4>3 DEF ToSet
      <4>6. QED
        BY <4>4, <4>5
    <3>4. ToSet(t) = Loaded(next + 1)
      <4>1. level[drivers[next + 1]] >= 0 /\ next + 1 \in 1 .. next + 1
        BY <1>1, <2>2
      <4>2. \A k \in 1 .. next : k \in 1 .. next + 1
        BY <1>1
      <4>3. {i \in 1 .. next + 1 : level[drivers[i]] >= 0} = {i \in 1 .. next : level[drivers[i]] >= 0} \cup {next + 1}
        BY <1>4, <4>1, <4>2
      <4>4. ToSet(started) = Loaded(next)
        BY DEF OrderInv, StartedSoFar
      <4>5. QED
        BY <3>3, <4>3, <4>4
    <3>5. \A e \in ToSet(started) : e # d /\ level[e] <= level[d]
      <4>1. SUFFICES ASSUME NEW k \in 1 .. next
                     PROVE  drivers[k] # d /\ level[drivers[k]] <= level[d]
        BY DEF OrderInv, StartedSoFar
      <4>2. k \in 1 .. n /\ k < next + 1 /\ k # next + 1
        BY <1>1
      <4>3. QED
        BY <1>1, <4>2 DEF OrderInv, InOrder, IsInjective
    <3>6. ASSUME NEW i \in 1 .. Len(started) + 1, NEW j \in 1 .. Len(started) + 1, i < j
          PROVE  t[i] # t[j] /\ level[t[i]] <= level[t[j]]
      <4>1. i \in 1 .. Len(started)
        BY <3>2, <3>6
      <4>2. CASE j \in 1 .. Len(started)
        BY <3>2, <3>6, <4>1, <4>2 DEF OrderInv, StartedSoFar
      <4>3. CASE j = Len(started) + 1
        <5>1. started[i] \in ToSet(started)
          BY <3>2, <4>1 DEF ToSet
        <5>2. QED
          BY <3>2, <3>5, <4>1, <4>3, <5>1
      <4>4. QED
        BY <3>2, <4>2, <4>3
    <3>7. QED
      BY <1>1, <1>3, <3>1, <3>2, <3>4, <3>6 DEF StartedSoFar
  <2>3. QED
    BY <2>1, <2>2
<1>6. QED
  BY <1>2, <1>5 DEF OrderInv

\* At the start everything is to be sorted in.
LEMMA OrderInitially == OrderInit => OrderInv
<1> SUFFICES ASSUME OrderInit PROVE OrderInv
  OBVIOUS
<1>1. DriverCount \in Nat /\ DriverCount >= 2 /\ Declaration = 1 .. DriverCount /\ Level \subseteq Int
  BY OrderAssumption DEF OrderAssumption, Declaration
<1>2. /\ drivers = << >> /\ next = 0 /\ started = << >>
      /\ unsorted = [i \in 1 .. DriverCount |-> i]
  BY <1>1 DEF OrderInit
<1>3. unsorted \in Seq(Declaration) /\ Len(unsorted) = DriverCount
  BY <1>1, <1>2
<1>4. ToSet(<< >>) = {} /\ Len(<< >>) = 0 /\ << >> \in Seq(Declaration) /\ DOMAIN << >> = {}
  BY DEF ToSet
<1>5. level \in [Declaration -> Int] /\ \A d \in Declaration : level[1] <= level[d] /\ level[2] <= level[d]
  BY <1>1 DEF OrderInit
<1>6. Unsorted
  BY <1>1, <1>2, <1>3, <1>4, <1>5 DEF Unsorted
<1>7. InOrder(drivers)
  BY <1>2, <1>4 DEF InOrder, IsInjective
<1>8. StartedSoFar
  BY <1>2, <1>4 DEF StartedSoFar
<1>9. QED
  BY <1>6, <1>7, <1>8 DEF OrderInv

\* The sort is right for any declarations of which the first two are no higher than any.
THEOREM OrderCorrect == OrderSpec => []OrderInv
<1>1. OrderInv /\ [OrderNext]_ovars => OrderInv'
  <2>1. SUFFICES ASSUME OrderInv, [OrderNext]_ovars PROVE OrderInv'
    OBVIOUS
  <2>2. CASE UNCHANGED ovars
    BY <2>1, <2>2 DEF ovars, OrderInv, Unsorted, InOrder, StartedSoFar
  <2>3. QED
    BY <2>1, <2>2, SortKeeps, StartKeeps DEF OrderNext
<1>2. QED
  BY <1>1, OrderInitially, PTL DEF OrderSpec

\* Every driver that is to be loaded is started, once, by its level, whether or not
\* those before it have failed.
THEOREM DriversStartInOrder == OrderSpec => []StartedInOrder
<1>1. OrderInv => StartedInOrder
  <2>1. SUFFICES ASSUME OrderInv, unsorted = << >>, next = Len(drivers)
                 PROVE  ToSet(started) = {d \in Declaration : level[d] >= 0}
    BY DEF OrderInv, StartedSoFar, StartedInOrder
  <2>2. Len(drivers) = DriverCount /\ DOMAIN drivers = 1 .. DriverCount /\ Declaration = 1 .. DriverCount
    BY <2>1, Counts DEF OrderInv, Unsorted
  <2>3. ToSet(drivers) = Declaration
    BY <2>1, <2>2 DEF OrderInv, InOrder
  <2>4. ToSet(started) = {drivers[k] : k \in {n \in DOMAIN drivers : level[drivers[n]] >= 0}}
    BY <2>1, <2>2 DEF OrderInv, StartedSoFar
  <2>5. QED
    BY <2>3, <2>4 DEF ToSet
<1>2. QED
  BY <1>1, OrderCorrect, PTL

-----------------------------------------------------------------------------
(* The screen *)

\* The number of a cell, row by row, and the cell of a number.
Number(x, y) == y * char_width + x
Where(at) == <<at % char_width, at \div char_width>>

LEMMA Widths ==
  /\ char_width \in Nat \ {0} /\ char_height \in Nat /\ char_y_start \in Nat /\ char_y_start < char_height
<1>1. char_width \in Int /\ char_height \in Int /\ char_y_start \in Int
  BY ConsoleAssumption DEF ConsoleAssumption, char_width, char_height, char_y_start, FONT_WIDTH, FONT_GAP_X, FONT_HEIGHT
<1>2. char_y_start >= 0
  BY ConsoleAssumption DEF ConsoleAssumption, char_y_start, FONT_HEIGHT
<1>3. char_width > 0 /\ char_y_start < char_height
  BY ConsoleAssumption DEF ConsoleAssumption
<1>4. QED
  BY ONLY <1>1, <1>2, <1>3

\* A cell and its number tell one another.
LEMMA CellOfNumber ==
  ASSUME NEW x \in 0 .. char_width - 1, NEW y \in Nat
  PROVE  Number(x, y) \in Nat /\ Where(Number(x, y)) = <<x, y>>
<1> DEFINE w == char_width
<1>1. w \in Nat /\ w > 0 /\ x \in Nat /\ x < w /\ y * w \in Nat
  BY Widths
<1> HIDE DEF w
<1>2. (y * w + x) % w = x
  BY <1>1
<1>3. (y * w + x) \div w = y
  BY <1>1
<1>4. QED
  BY <1>1, <1>2, <1>3 DEF Number, Where, w

\* Different numbers are those of different cells.
LEMMA NumbersApart ==
  ASSUME NEW a \in Nat, NEW b \in Nat, a # b
  PROVE  Where(a) # Where(b)
<1> DEFINE w == char_width
<1>1. w \in Nat /\ w > 0
  BY Widths
<1> HIDE DEF w
<1>2. a = w * (a \div w) + (a % w)
  BY <1>1
<1>3. b = w * (b \div w) + (b % w)
  BY <1>1
<1>4. QED
  BY <1>2, <1>3 DEF Where, w

\* The numbers up to that of a cell are those of cells.
LEMMA NumbersOfCells ==
  ASSUME NEW x \in 0 .. char_width - 1, NEW y \in 0 .. char_height - 1, NEW a \in 0 .. Number(x, y)
  PROVE  Where(a) \in Cell
<1> DEFINE w == char_width
           q == a \div w
           r == a % w
<1>1. /\ w \in Nat /\ w > 0 /\ char_height \in Nat /\ x \in Nat /\ x < w /\ y \in Nat /\ y < char_height
      /\ a \in Nat /\ a <= y * w + x
  <2>1. Number(x, y) \in Nat
    BY Widths, CellOfNumber
  <2>2. QED
    BY <2>1, Widths DEF Number
<1> HIDE DEF w
<1>2. q \in Nat /\ r \in Nat /\ r < w /\ a = w * q + r
  BY <1>1
<1> HIDE DEF q, r
<1>3. q <= y
  <2>1. SUFFICES ASSUME q >= y + 1 PROVE FALSE
    BY <1>1, <1>2
  <2>2. w * q >= w * (y + 1)
    BY <1>1, <1>2, <2>1
  <2>3. w * (y + 1) = y * w + w
    BY <1>1
  <2>4. QED
    BY <1>1, <1>2, <2>2, <2>3
<1>4. r \in 0 .. w - 1 /\ q \in 0 .. char_height - 1
  BY <1>1, <1>2, <1>3
<1>5. QED
  BY <1>4 DEF Where, Cell, w, q, r

\* A glyph is drawn in its cell and nowhere else.
LEMMA Drawn ==
  ASSUME NEW x \in 0 .. char_width - 1, NEW y \in 0 .. char_height - 1, NEW g,
         DOMAIN screen = Cell, Draw(x, y, g)
  PROVE  /\ DOMAIN screen' = Cell /\ screen'[<<x, y>>] = g
         /\ \A a \in Nat : Where(a) \in Cell /\ a # Number(x, y) => screen'[Where(a)] = screen[Where(a)]
<1>1. <<x, y>> \in Cell
  BY DEF Cell
<1>2. Number(x, y) \in Nat /\ Where(Number(x, y)) = <<x, y>>
  BY Widths, CellOfNumber
<1>3. screen' = [c \in Cell |-> IF c = <<x, y>> THEN g ELSE screen[c]]
  <2>1. Cell \cup {<<x, y>>} = Cell
    BY <1>1
  <2>2. QED
    BY <2>1 DEF Draw
<1>4. \A a \in Nat : a # Number(x, y) => Where(a) # <<x, y>>
  BY <1>2, NumbersApart
<1>5. QED
  BY <1>1, <1>3, <1>4

\* The cursor is on the screen, and the places before it hold the line.
Before(x, y, text, cells) ==
  \A k \in 1 .. Len(text) : cells[Where(Number(x, y) - k)] = text[Len(text) + 1 - k]

ScreenInv ==
  /\ char_x \in 0 .. char_width - 1 /\ char_y \in 0 .. char_height - 1
  /\ DOMAIN screen = Cell
  /\ line \in Seq(Font \cup {"block"})
  /\ Len(line) <= Number(char_x, char_y)
  /\ Before(char_x, char_y, line, screen)

\* What the steps need to know of it.
LEMMA Cursor ==
  ASSUME ScreenInv
  PROVE  /\ char_width \in Nat \ {0} /\ char_height \in Nat \ {0} /\ char_y_start \in 0 .. char_height - 1
         /\ char_x \in Nat /\ char_y \in Nat /\ Len(line) \in Nat
         /\ Number(char_x, char_y) \in Nat
         /\ \A k \in 1 .. Len(line) : /\ Number(char_x, char_y) - k \in Nat
                                      /\ Where(Number(char_x, char_y) - k) \in Cell
<1>1. /\ char_width \in Nat \ {0} /\ char_height \in Nat \ {0} /\ char_y_start \in 0 .. char_height - 1
  BY Widths
<1>2. Len(line) \in Nat /\ char_x \in Nat /\ char_y \in Nat
  BY <1>1, LenProperties DEF ScreenInv
<1>3. Number(char_x, char_y) \in Nat
  BY <1>2, CellOfNumber DEF ScreenInv
<1>4. \A k \in 1 .. Len(line) : Number(char_x, char_y) - k \in 0 .. Number(char_x, char_y)
  BY <1>2, <1>3 DEF ScreenInv
<1>5. \A k \in 1 .. Len(line) : Where(Number(char_x, char_y) - k) \in Cell
  BY <1>4, NumbersOfCells DEF ScreenInv
<1>6. QED
  BY <1>1, <1>2, <1>3, <1>4, <1>5

\* After the end of a line, nothing is known of what stands before the cursor.
LEMMA NewLineKeeps ==
  ASSUME ScreenInv, NewLine
  PROVE  ScreenInv'
<1>1. char_x' = 0 /\ char_y' \in 0 .. char_height - 1 /\ line' = << >> /\ screen' = screen
  BY Cursor DEF NewLine, RowBelow
<1>2. Number(char_x', char_y') \in Nat /\ 0 \in 0 .. char_width - 1 /\ Len(<< >>) = 0
      /\ << >> \in Seq(Font \cup {"block"})
  <2>1. 0 \in 0 .. char_width - 1 /\ char_y' \in Nat
    BY <1>1, Cursor
  <2>2. QED
    BY <1>1, <2>1, CellOfNumber
<1>3. Before(char_x', char_y', << >>, screen)
  BY <1>2 DEF Before
<1>4. QED
  BY <1>1, <1>2, <1>3 DEF ScreenInv, Before

\* What is put goes behind the line, which may go on in the row below.
LEMMA PutKeeps ==
  ASSUME ScreenInv, NEW c, Put(c)
  PROVE  ScreenInv'
<1> DEFINE at == Number(char_x, char_y)
           g == Glyph(c)
           full == char_x + 1 >= char_width
           n == Len(line)
<1>1. g \in Font \cup {"block"}
  BY DEF Glyph
<1>2. /\ Draw(char_x, char_y, g)
      /\ char_x' = (IF full THEN 0 ELSE char_x + 1)
      /\ char_y' = (IF full THEN RowBelow(char_y) ELSE char_y)
      /\ line' = (IF full /\ char_y' # char_y + 1 THEN << >> ELSE Append(line, g))
  BY DEF Put
<1> HIDE DEF g
<1>3. char_x' \in 0 .. char_width - 1 /\ char_y' \in 0 .. char_height - 1
  BY <1>2, Cursor DEF ScreenInv, RowBelow
<1>4. /\ DOMAIN screen' = Cell /\ screen'[<<char_x, char_y>>] = g
      /\ \A a \in Nat : Where(a) \in Cell /\ a # at => screen'[Where(a)] = screen[Where(a)]
  BY <1>2, Drawn DEF ScreenInv
<1>5. CASE full /\ char_y' # char_y + 1
  <2>1. line' = << >> /\ Len(<< >>) = 0 /\ << >> \in Seq(Font \cup {"block"})
    BY <1>2, <1>5
  <2>2. Number(char_x', char_y') \in Nat
    <3>1. char_y' \in Nat
      BY <1>3, Cursor
    <3>2. QED
      BY <1>3, <3>1, CellOfNumber
  <2>3. QED
    BY <1>3, <1>4, <2>1, <2>2 DEF ScreenInv, Before
<1>6. CASE ~(full /\ char_y' # char_y + 1)
  <2> DEFINE t == Append(line, g)
  <2>1. line' = t /\ n \in Nat /\ at \in Nat /\ n <= at /\ line \in Seq(Font \cup {"block"})
    BY <1>2, <1>6, Cursor DEF ScreenInv
  <2>2. t \in Seq(Font \cup {"block"}) /\ Len(t) = n + 1 /\ t[n + 1] = g /\ \A i \in 1 .. n : t[i] = line[i]
    BY <1>1, <2>1
  <2> HIDE DEF t
  <2>3. Number(char_x', char_y') = at + 1
    <3>1. char_x \in Nat /\ char_y \in Nat /\ char_width \in Nat /\ char_x <= char_width - 1
      BY Cursor DEF ScreenInv
    <3>2. CASE full
      <4>1. char_x = char_width - 1 /\ char_x' = 0 /\ char_y' = char_y + 1
        BY <1>2, <1>6, <3>1, <3>2
      <4>2. (char_y + 1) * char_width + 0 = (char_y * char_width + (char_width - 1)) + 1
        BY <3>1
      <4>3. QED
        BY <4>1, <4>2 DEF Number
    <3>3. CASE ~full
      <4>1. char_x' = char_x + 1 /\ char_y' = char_y
        BY <1>2, <3>3
      <4>2. char_y * char_width + (char_x + 1) = (char_y * char_width + char_x) + 1
        BY <3>1
      <4>3. QED
        BY <4>1, <4>2 DEF Number
    <3>4. QED
      BY <3>2, <3>3
  <2>4. ASSUME NEW k \in 1 .. n + 1
        PROVE  screen'[Where((at + 1) - k)] = t[(n + 1) + 1 - k]
    <3>1. CASE k = 1
      <4>1. (at + 1) - k = at /\ (n + 1) + 1 - k = n + 1
        BY <2>1, <3>1
      <4>2. Where(at) = <<char_x, char_y>>
        BY Cursor, CellOfNumber DEF ScreenInv
      <4> HIDE DEF at, n
      <4>3. QED
        BY <1>4, <2>2, <4>1, <4>2
    <3>2. CASE k # 1
      <4>1. /\ k - 1 \in 1 .. n /\ (at + 1) - k = at - (k - 1) /\ (n + 1) + 1 - k = n + 1 - (k - 1)
            /\ n + 1 - (k - 1) \in 1 .. n
        BY <2>1, <3>2
      <4>2. at - (k - 1) \in Nat /\ Where(at - (k - 1)) \in Cell
        BY <4>1, Cursor
      <4>3. at - (k - 1) # at
        BY <2>1, <4>1
      <4>4. screen[Where(at - (k - 1))] = line[n + 1 - (k - 1)]
        BY <4>1 DEF ScreenInv, Before
      <4> HIDE DEF at, n
      <4>5. QED
        BY <1>4, <2>2, <4>1, <4>2, <4>3, <4>4
    <3>3. QED
      BY <3>1, <3>2
  <2>5. Len(t) <= at + 1
    BY <2>1, <2>2
  <2>6. QED
    BY <1>3, <1>4, <2>1, <2>2, <2>3, <2>4, <2>5 DEF ScreenInv, Before
<1>7. QED
  BY <1>5, <1>6

\* What is left of a line after a backspace, which may find it empty.
LEMMA LineErased ==
  ASSUME NEW S, NEW s \in Seq(S)
  PROVE  LET t == SubSeq(s, 1, Len(s) - 1)
         IN  /\ t \in Seq(S)
             /\ Len(t) = IF Len(s) = 0 THEN 0 ELSE Len(s) - 1
             /\ \A i \in 1 .. Len(t) : t[i] = s[i]
<1>1. CASE Len(s) = 0
  <2>1. SubSeq(s, 1, Len(s) - 1) = << >>
    BY <1>1, SubSeqProperties
  <2>2. QED
    BY <1>1, <2>1
<1>2. CASE Len(s) # 0
  <2>1. Len(s) \in Nat /\ Len(s) - 1 \in Nat
    BY <1>2, LenProperties
  <2>2. \A i \in 1 .. Len(s) - 1 : s[i] \in S
    BY <2>1
  <2> DEFINE m == Len(s) - 1
  <2>3. m \in Nat /\ 1 \in Int /\ m \in Int /\ \A i \in 1 .. m : s[i] \in S
    BY <2>1, <2>2
  <2>4. m = Len(s) - 1
    OBVIOUS
  <2> HIDE DEF m
  <2>5. /\ SubSeq(s, 1, m) \in Seq(S)
        /\ Len(SubSeq(s, 1, m)) = (IF 1 <= m THEN m - 1 + 1 ELSE 0)
        /\ \A i \in 1 .. m - 1 + 1 : SubSeq(s, 1, m)[i] = s[1 + i - 1]
    BY ONLY <2>3, SubSeqProperties
  <2>6. Len(SubSeq(s, 1, m)) = m /\ \A i \in 1 .. m : SubSeq(s, 1, m)[i] = s[i]
    BY <2>3, <2>5
  <2>7. QED
    BY <1>2, <2>4, <2>5, <2>6
<1>3. QED
  BY <1>1, <1>2

\* The place before is that of the character that is erased, if there is one; the
\* rest of the line stands before it.
LEMMA BackspaceKeeps ==
  ASSUME ScreenInv, Backspace
  PROVE  ScreenInv'
<1> DEFINE at == Number(char_x, char_y)
           n == Len(line)
           t == SubSeq(line, 1, n - 1)
<1>1. /\ char_x' = (IF char_x = 0 THEN char_width - 1 ELSE char_x - 1)
      /\ char_y' = (IF char_x = 0 /\ char_y # 0 THEN char_y - 1 ELSE char_y)
      /\ Draw(char_x', char_y', " ") /\ line' = t
  BY DEF Backspace
<1>2. /\ char_x \in Nat /\ char_y \in Nat /\ char_width \in Nat /\ char_width > 0 /\ char_height \in Nat
      /\ char_x < char_width /\ char_y < char_height /\ n \in Nat /\ at \in Nat /\ n <= at
  BY Cursor DEF ScreenInv
<1>3. char_x' \in 0 .. char_width - 1 /\ char_y' \in 0 .. char_height - 1
  <2>1. CASE char_x = 0
    <3>1. char_x' = char_width - 1 /\ char_y' = (IF char_y # 0 THEN char_y - 1 ELSE char_y)
      BY <1>1, <2>1
    <3>2. QED
      BY <1>2, <3>1
  <2>2. CASE char_x # 0
    <3>1. char_x' = char_x - 1 /\ char_y' = char_y
      BY <1>1, <2>2
    <3>2. QED
      BY <1>2, <2>2, <3>1
  <2>3. QED
    BY <2>1, <2>2
<1>4. /\ DOMAIN screen' = Cell
      /\ \A a \in Nat : Where(a) \in Cell /\ a # Number(char_x', char_y') => screen'[Where(a)] = screen[Where(a)]
  <2> DEFINE x == char_x'
             y == char_y'
  <2>1. x \in 0 .. char_width - 1 /\ y \in 0 .. char_height - 1 /\ DOMAIN screen = Cell /\ Draw(x, y, " ")
    BY <1>1, <1>3 DEF ScreenInv
  <2> HIDE DEF x, y
  <2>2. /\ DOMAIN screen' = Cell
        /\ \A a \in Nat : Where(a) \in Cell /\ a # Number(x, y) => screen'[Where(a)] = screen[Where(a)]
    BY <2>1, Drawn
  <2>3. QED
    BY <2>2 DEF x, y
<1>5. t \in Seq(Font \cup {"block"}) /\ Len(t) = (IF n = 0 THEN 0 ELSE n - 1) /\ \A i \in 1 .. Len(t) : t[i] = line[i]
  BY LineErased DEF ScreenInv
<1> HIDE DEF t
<1>6. CASE char_x = 0 /\ char_y = 0
  <2>1. at = 0 /\ n = 0 /\ Len(t) = 0
    <3>1. 0 * char_width + 0 = 0
      BY <1>2
    <3>2. QED
      BY <1>2, <1>5, <1>6, <3>1 DEF Number
  <2>2. Number(char_x', char_y') \in Nat
    <3>1. char_y' \in Nat
      BY <1>2, <1>3
    <3>2. QED
      BY <1>3, <3>1, CellOfNumber
  <2>3. line' = t /\ 0 <= Number(char_x', char_y') /\ 1 .. Len(t) = {}
    <3>1. line' = t
      BY <1>1
    <3>2. \A m \in Nat : 0 <= m
      OBVIOUS
    <3>3. 1 .. Len(t) = {}
      BY <2>1
    <3>4. QED
      BY <2>2, <3>1, <3>2, <3>3
  <2> HIDE DEF at, n
  <2>4. QED
    BY <1>3, <1>4, <1>5, <2>1, <2>3 DEF ScreenInv, Before
<1>7. CASE ~(char_x = 0 /\ char_y = 0)
  <2>1. Number(char_x', char_y') = at - 1
    <3>1. CASE char_x = 0
      <4>1. char_x' = char_width - 1 /\ char_y' = char_y - 1
        BY <1>1, <1>7, <3>1
      <4>2. (char_y - 1) * char_width + (char_width - 1) = (char_y * char_width + 0) - 1
        BY <1>2
      <4>3. QED
        BY <3>1, <4>1, <4>2 DEF Number
    <3>2. CASE char_x # 0
      <4>1. char_x' = char_x - 1 /\ char_y' = char_y
        BY <1>1, <3>2
      <4>2. char_y * char_width + (char_x - 1) = (char_y * char_width + char_x) - 1
        BY <1>2
      <4>3. QED
        BY <4>1, <4>2 DEF Number
    <3>3. QED
      BY <3>1, <3>2
  <2>2. at - 1 \in Nat /\ Len(t) <= at - 1
    <3>1. Number(char_x', char_y') \in Nat
      <4>1. char_y' \in Nat
        BY <1>2, <1>3
      <4>2. QED
        BY <1>3, <4>1, CellOfNumber
    <3>2. QED
      BY <1>2, <1>5, <2>1, <3>1
  <2>3. ASSUME NEW k \in 1 .. Len(t)
        PROVE  screen'[Where((at - 1) - k)] = t[Len(t) + 1 - k]
    <3>1. /\ n # 0 /\ Len(t) = n - 1 /\ k + 1 \in 1 .. n /\ (at - 1) - k = at - (k + 1)
          /\ Len(t) + 1 - k = n + 1 - (k + 1) /\ Len(t) + 1 - k \in 1 .. Len(t)
      <4>1. n \in Nat /\ n # 0 /\ Len(t) = n - 1 /\ at \in Int
        BY <1>2, <1>5
      <4>2. k \in Int /\ 1 <= k /\ k <= n - 1
        BY <4>1
      <4> HIDE DEF at, n, t
      <4>3. QED
        BY ONLY <4>1, <4>2
    <3>2. at - (k + 1) \in Nat /\ Where(at - (k + 1)) \in Cell /\ at - (k + 1) # at - 1
      BY <1>2, <3>1, Cursor
    <3>3. screen[Where(at - (k + 1))] = line[n + 1 - (k + 1)]
      BY <3>1 DEF ScreenInv, Before
    <3>4. screen'[Where(at - (k + 1))] = screen[Where(at - (k + 1))]
      BY <1>4, <2>1, <3>2
    <3> HIDE DEF at, n
    <3>5. QED
      BY <1>5, <3>1, <3>3, <3>4
  <2>4. QED
    BY <1>1, <1>3, <1>4, <1>5, <2>1, <2>2, <2>3 DEF ScreenInv, Before
<1>8. QED
  BY <1>6, <1>7

LEMMA ConsoleInitially == ASSUME ConsoleInit PROVE ScreenInv
<1>1. char_x = 0 /\ char_y = char_y_start /\ line = << >> /\ DOMAIN screen = Cell
  BY DEF ConsoleInit
<1>2. 0 \in 0 .. char_width - 1 /\ char_y_start \in 0 .. char_height - 1 /\ char_y_start \in Nat
  BY Widths
<1>3. Number(0, char_y_start) \in Nat
  BY <1>2, CellOfNumber
<1>4. << >> \in Seq(Font \cup {"block"}) /\ Len(<< >>) = 0
  OBVIOUS
<1>5. QED
  BY <1>1, <1>2, <1>3, <1>4 DEF ScreenInv, Before

\* Each character of write_console and kprintf.
LEMMA ConsoleSteps == ASSUME ScreenInv, [ConsoleNext]_cvars PROVE ScreenInv'
<1>1. CASE UNCHANGED cvars
  BY <1>1 DEF cvars, ScreenInv, Before
<1>2. ASSUME NEW c \in Text, kputc_color(c) PROVE ScreenInv'
  <2>1. CASE c = "newline"
    BY <1>2, <2>1, NewLineKeeps DEF kputc_color
  <2>2. CASE c # "newline" /\ c = "backspace"
    BY <1>2, <2>2, BackspaceKeeps DEF kputc_color
  <2>3. CASE c # "newline" /\ c # "backspace"
    BY <1>2, <2>3, PutKeeps DEF kputc_color
  <2>4. QED
    BY <2>1, <2>2, <2>3
<1>3. QED
  BY <1>1, <1>2 DEF ConsoleNext

\* The text screen (driver/graphic.c): the cursor stays on it, and the line that is
\* being written stands before the cursor, for a screen of any size, any font and
\* any text.
THEOREM ScreenCorrect == ConsoleSpec => []ScreenInv
BY ConsoleInitially, ConsoleSteps, PTL DEF ConsoleSpec

\* Of kputc_color: nothing is drawn beside the screen, and what was written since
\* the last end of a line, and not erased, stands before the cursor in order.
THEOREM TextStands == ConsoleSpec => []ShowsTheText
<1>1. ScreenInv => ShowsTheText
  <2> SUFFICES ASSUME ScreenInv PROVE ShowsTheText
    OBVIOUS
  <2>1. DOMAIN screen = Cell /\ <<char_x, char_y>> \in Cell
    BY DEF ScreenInv, Cell
  <2>2. ASSUME NEW k \in 1 .. Len(line)
        PROVE  LET at == char_y * char_width + char_x - k
               IN  screen[<<at % char_width, at \div char_width>>] = line[Len(line) + 1 - k]
    <3> DEFINE at == char_y * char_width + char_x - k
    <3>1. screen[Where(Number(char_x, char_y) - k)] = line[Len(line) + 1 - k]
      BY DEF ScreenInv, Before
    <3>2. Number(char_x, char_y) - k = at
      BY Cursor DEF Number
    <3>3. screen[Where(at)] = line[Len(line) + 1 - k]
      BY <3>1, <3>2
    <3> HIDE DEF at
    <3>4. screen[<<at % char_width, at \div char_width>>] = line[Len(line) + 1 - k]
      BY <3>3 DEF Where
    <3>5. QED
      BY <3>4 DEF at
  <2>3. QED
    BY <2>1, <2>2 DEF ShowsTheText
<1>2. QED
  BY <1>1, ScreenCorrect, PTL

-----------------------------------------------------------------------------
(* TaskDEV *)

\* The drivers that have a device.
Registered(d) == \E v \in Device : v < impl_free_list /\ impl_list[v].PID = d

\* The devices: the first ones are given, to a driver each.
Request == [app_pid : App, type : {DEV_READ, DEV_OPEN}]
Implementation ==
  [InUse : BOOLEAN, PID : Driver \cup {0}, Has_Permission : BOOLEAN, wait_list : Seq(Request), next : Device \cup {None}]
Entry(v) ==
  /\ impl_list[v] \in Implementation
  /\ impl_list[v].wait_list = << >> \/ impl_list[v].Has_Permission
  /\ v < impl_free_list => impl_list[v].InUse /\ impl_list[v].PID \in Driver
  /\ v >= impl_free_list => impl_list[v] = [Unused EXCEPT !.next = IF v + 1 \in Device THEN v + 1 ELSE None]
OneEach ==
  \A v, w \in Device : v < impl_free_list /\ w < impl_free_list /\ impl_list[v].PID = impl_list[w].PID => v = w
Devices ==
  /\ impl_free_list \in Device /\ DOMAIN impl_list = Device
  /\ (\A v \in Device : Entry(v)) /\ OneEach
  /\ Cardinality({d \in Driver : Registered(d)}) = impl_free_list

\* a has called and its request has left it, but it has no answer.
Await(a) == a \notin sending /\ (a \in waiting \/ pc[a] = "sent")

\* a's request is in a wait list.
OffAt(v, a) == \E i \in 1 .. Len(impl_list[v].wait_list) : impl_list[v].wait_list[i].app_pid = a
Off(a) == \E v \in Device : OffAt(v, a)

\* Who is in a wait list is there once and awaits its answer.
Apart(v, w) ==
  \A i \in 1 .. Len(impl_list[v].wait_list), j \in 1 .. Len(impl_list[w].wait_list) :
    impl_list[v].wait_list[i].app_pid = impl_list[w].wait_list[j].app_pid => v = w /\ i = j
Once == \A v, w \in Device : Apart(v, w)
WaitLists == (\A a \in App : Off(a) => Await(a)) /\ Once

\* The answer to a that status s stands for.
Right(s, a) ==
  \/ s = DEV_STATUS_OK /\ asked[a].done
  \/ s = DEV_STATUS_ERROR /\ ~asked[a].done

Program(a) ==
  /\ pc[a] \in {"run", "sent", "answered"}
  /\ asked[a] \in [type : {0, DEV_READ, DEV_OPEN}, device : Device, done : BOOLEAN]
  /\ a \in sending => /\ pc[a] = "sent" /\ ~asked[a].done /\ asked[a].type # 0
                      /\ msg[a] = [sender |-> a, receiver |-> Dev, body |-> Mail(asked[a].type, asked[a].device, 0, 0)]
  /\ a \in waiting => pc[a] = "answered" /\ msg[a].sender = Dev
  /\ pc[a] = "answered" /\ a \notin waiting => Right(msg[a].body.status, a)

\* The driver of the request that TaskDEV has passed on; it has not answered, or
\* its answer is not yet taken.
Asking    == pc[Dev] \in {"ask", "pass"}
JobDriver == impl_list[job.device].PID
JobMail   == Mail(job.type, job.device, 0, job.app)
IsAsked(d) ==
  /\ JobDriver = d /\ Dev \notin sending
  /\ pc[Dev] = "ask" \/ (pc[Dev] = "pass" /\ Dev \in waiting)
Holds(d)   == pc[d] = "got" /\ Free(d) /\ msg[d].sender = Dev
Replies(d) == d \in sending /\ msg[d].body.type = 0
Updates(d, a) == d \in sending /\ msg[d].body.type = DEV_UPD /\ msg[d].body.app = a
Told(m) ==
  /\ m.body.status \in {DEV_STATUS_OK, DEV_STATUS_WAIT} /\ m.body = Mail(0, 0, m.body.status, job.app)
  /\ m.body.status = DEV_STATUS_OK => asked[job.app].done

\* d has put a's request off: it is in the list of d's device, or will be.
PutBy(d, a) ==
  \/ \E v \in Device : impl_list[v].PID = d /\ OffAt(v, a)
  \/ /\ Asking /\ job.app = a /\ JobDriver = d
     /\ \/ pc[Dev] = "pass" /\ Free(Dev) /\ msg[Dev].body.status = DEV_STATUS_WAIT
        \/ pc[Dev] = "ask" /\ Replies(d) /\ msg[d].body.status = DEV_STATUS_WAIT

\* m is a DEV_UPD of d.
IsUpdate(m, d) ==
  /\ m.body = Mail(DEV_UPD, 0, DEV_STATUS_OK, m.body.app) /\ m.body.app \in App
  /\ asked[m.body.app].done /\ PutBy(d, m.body.app)

\* Where a driver is; it is registered before it is asked anything.
DriverPlace(d) ==
  /\ pc[d] \in {"start", "sent", "serve", "got"}
  /\ pc[d] = "start" => ~Registered(d) /\ Free(d)
  /\ pc[d] = "sent" => d \notin waiting
  /\ pc[d] = "sent" /\ Registered(d) => Dev \in sending /\ pc[Dev] = "recv" /\ msg[Dev].receiver = d

\* It sends its registration, an update, or its answer ...
DriverSend(d) ==
  d \in sending =>
    /\ d \notin waiting /\ msg[d].sender = d /\ msg[d].receiver = Dev
    /\ \/ pc[d] = "sent" /\ msg[d].body.type = DEV_REG /\ ~Registered(d)
       \/ pc[d] = "serve" /\ msg[d].body.type = DEV_UPD /\ IsUpdate(msg[d], d)
       \/ pc[d] = "serve" /\ msg[d].body.type = 0 /\ IsAsked(d) /\ pc[Dev] = "ask" /\ Told(msg[d])

\* ... and waits for its number, or for anything.
DriverWait(d) ==
  d \in waiting =>
    \/ pc[d] = "serve" /\ msg[d].sender = Dev /\ ~Registered(d)
    \/ pc[d] = "got" /\ msg[d].sender = Anybody

\* It has an interrupt, and something to do, or the request that TaskDEV has passed on.
DriverGot(d) ==
  pc[d] = "got" /\ Free(d) =>
    \/ msg[d].sender = Interrupt /\ put[d] # << >>
    \/ msg[d].sender = Dev /\ IsAsked(d) /\ msg[d].body = JobMail /\ ~asked[job.app].done

\* What it has put off is not done, each once, and in a wait list of it soon.
Coming(d, i) == ~asked[put[d][i]].done /\ PutBy(d, put[d][i])
PutOff(d) ==
  /\ put[d] \in Seq(App)
  /\ \A i, j \in 1 .. Len(put[d]) : put[d][i] = put[d][j] => i = j
  /\ \A i \in 1 .. Len(put[d]) : Coming(d, i)

DriverOK(d) == DriverPlace(d) /\ DriverSend(d) /\ DriverWait(d) /\ DriverGot(d) /\ PutOff(d)

\* TaskDEV waits for anybody, or for the driver it has asked.
DevWaits ==
  /\ pc[Dev] \in {"recv", "handle", "ask", "pass"}
  /\ Dev \in waiting => /\ Dev \notin sending
                        /\ \/ pc[Dev] = "handle" /\ msg[Dev].sender = Anybody
                           \/ pc[Dev] = "pass" /\ msg[Dev].sender = JobDriver

\* It sends an answer to a program, its number to a driver, or a request.
DevSends ==
  Dev \in sending => LET r == msg[Dev].receiver IN
    /\ msg[Dev].sender = Dev
    /\ \/ /\ pc[Dev] = "recv" /\ r \in App /\ pc[r] = "sent" /\ Free(r)
          /\ ~Off(r) /\ Right(msg[Dev].body.status, r)
       \/ pc[Dev] = "recv" /\ r \in Driver /\ pc[r] = "sent" /\ Free(r) /\ Registered(r)
       \/ pc[Dev] = "ask" /\ r = JobDriver /\ pc[r] \notin {"start", "sent"} /\ msg[Dev].body = JobMail

\* It has a request, a registration or an update at hand.
DevHandles ==
  pc[Dev] = "handle" /\ Dev \notin waiting => LET p == msg[Dev].sender IN
    /\ Dev \notin sending
    /\ \/ /\ p \in App /\ Await(p) /\ ~Off(p) /\ ~asked[p].done /\ asked[p].type # 0
          /\ msg[Dev].body = Mail(asked[p].type, asked[p].device, 0, 0)
       \/ /\ p \in Driver /\ msg[Dev].body.type = DEV_REG /\ ~Registered(p) /\ p \notin sending
          /\ pc[p] = "sent" \/ (p \in waiting /\ pc[p] = "serve")
       \/ p \in Driver /\ IsUpdate(msg[Dev], p) /\ ~Updates(p, msg[Dev].body.app)

\* The request that it has passed on is in the hands of the driver, or the answer
\* is on its way.
DevAsks ==
  Asking =>
    /\ job.app \in App /\ Await(job.app) /\ ~Off(job.app)
    /\ job.device \in Device /\ job.device < impl_free_list /\ job.type \in {DEV_READ, DEV_OPEN}
    /\ impl_list[job.device].Has_Permission
    /\ Dev \in sending => pc[Dev] = "ask" /\ ~asked[job.app].done
    /\ IsAsked(JobDriver) => Holds(JobDriver) \/ (pc[Dev] = "ask" /\ Replies(JobDriver))

DevPasses == pc[Dev] = "pass" /\ Free(Dev) => msg[Dev].sender = JobDriver /\ Told(msg[Dev])

DevOK == DevWaits /\ DevSends /\ DevHandles /\ DevAsks /\ DevPasses

Shape ==
  /\ sending \subseteq Proc /\ waiting \subseteq Proc
  /\ DOMAIN msg = Proc /\ DOMAIN pc = Proc /\ DOMAIN asked = App /\ DOMAIN put = Driver

DevInv ==
  /\ Shape /\ Devices /\ WaitLists
  /\ (\A a \in App : Program(a)) /\ (\A d \in Driver : DriverOK(d)) /\ DevOK

USE DEF DEV_READ, DEV_OPEN, DEV_REG, DEV_UPD, DEV_STATUS_OK, DEV_STATUS_WAIT, DEV_STATUS_ERROR

LEMMA Names ==
  /\ App \subseteq Proc /\ Driver \subseteq Proc /\ Dev \in Proc /\ \A p \in Proc : p \in App \/ p \in Driver \/ p = Dev
  /\ Dev \notin App /\ Dev \notin Driver /\ App \cap Driver = {}
  /\ Anybody \notin Proc /\ Interrupt \notin Proc /\ Interrupt # Anybody /\ 0 \notin Proc
BY DevAssumption DEF DevAssumption

LEMMA InvParts ==
  ASSUME DevInv
  PROVE  /\ Shape /\ Devices /\ WaitLists
         /\ \A a \in App : Program(a)
         /\ \A d \in Driver : DriverPlace(d) /\ DriverSend(d) /\ DriverWait(d) /\ DriverGot(d) /\ PutOff(d)
         /\ DevWaits /\ DevSends /\ DevHandles /\ DevAsks /\ DevPasses
BY DEF DevInv, DriverOK, DevOK

\* A step that does not touch p's mail.
SameMail(p) ==
  msg'[p] = msg[p] /\ (p \in sending' <=> p \in sending) /\ (p \in waiting' <=> p \in waiting)
Same(p) == pc'[p] = pc[p] /\ SameMail(p)

\* What the kernel's operations do to the two processes and to the others.
LEMMA SendEffect ==
  ASSUME Shape, NEW p \in Proc, NEW r \in Proc, p # r, NEW d, Send(p, r, d)
  PROVE  /\ sending' \subseteq Proc /\ waiting' \subseteq Proc /\ DOMAIN msg' = Proc
         /\ Free(p) /\ p \notin waiting' /\ msg'[p] = [sender |-> p, receiver |-> r, body |-> d]
         /\ \A q \in Proc : q # p /\ q # r => SameMail(q)
         /\ r \in sending' <=> r \in sending
         /\ \/ /\ Accepts(r, p)
               /\ p \notin sending' /\ r \notin waiting' /\ msg'[r] = [sender |-> p, receiver |-> r, body |-> d]
            \/ ~Accepts(r, p) /\ p \in sending' /\ SameMail(r)
<1>1. CASE Accepts(r, p)
  BY <1>1 DEF Shape, Send, Free, SameMail
<1>2. CASE ~Accepts(r, p)
  BY <1>2 DEF Shape, Send, Free, SameMail
<1>3. QED
  BY <1>1, <1>2

LEMMA TakeEffect ==
  ASSUME Shape, NEW p \in Proc, NEW s \in Proc, NEW f, Take(p, s, f)
  PROVE  /\ sending' \subseteq Proc /\ waiting' \subseteq Proc /\ DOMAIN msg' = Proc
         /\ s # p /\ Free(p) /\ s \in sending /\ msg[s].receiver = p /\ f \in {Anybody, s}
         /\ p \notin sending' /\ p \notin waiting' /\ s \notin sending' /\ msg'[p] = msg[s]
         /\ msg'[s] = msg[s] /\ (s \in waiting' <=> s \in waiting)
         /\ \A q \in Proc : q # p /\ q # s => SameMail(q)
BY DEF Shape, Take, Free, Offers, SameMail

LEMMA WaitEffect ==
  ASSUME Shape, NEW p \in Proc, NEW f, Wait(p, f)
  PROVE  /\ sending' \subseteq Proc /\ waiting' \subseteq Proc /\ DOMAIN msg' = Proc
         /\ Free(p) /\ \A s \in sending : msg[s].receiver = p => f \notin {Anybody, s}
         /\ p \notin sending' /\ p \in waiting' /\ msg'[p].sender = f
         /\ \A q \in Proc : q # p => SameMail(q)
BY DEF Shape, Wait, Free, Offers, SameMail

LEMMA GotoEffect ==
  ASSUME Shape, NEW p \in Proc, NEW l, Goto(p, l)
  PROVE  DOMAIN pc' = Proc /\ pc'[p] = l /\ \A q \in Proc : q # p => pc'[q] = pc[q]
BY DEF Shape, Goto

\* The steps that leave the devices alone.
LEMMA DevicesStay ==
  ASSUME UNCHANGED <<impl_list, impl_free_list>>
  PROVE  /\ Devices => Devices'
         /\ \A d : Registered(d)' <=> Registered(d)
         /\ \A v, a : OffAt(v, a)' <=> OffAt(v, a)
         /\ \A a : Off(a)' <=> Off(a)
<1>1. impl_list' = impl_list /\ impl_free_list' = impl_free_list
  OBVIOUS
<1>2. \A d : Registered(d)' <=> Registered(d)
  BY <1>1 DEF Registered
<1>3. \A v, a : OffAt(v, a)' <=> OffAt(v, a)
  BY <1>1 DEF OffAt
<1>4. \A a : Off(a)' <=> Off(a)
  BY <1>3 DEF Off
<1>5. ASSUME Devices PROVE Devices'
  <2>1. {d \in Driver : Registered(d)'} = {d \in Driver : Registered(d)}
    BY <1>2
  <2>2. Cardinality({d \in Driver : Registered(d)'}) = impl_free_list'
    BY <1>1, <1>5, <2>1 DEF Devices
  <2>3. \A v \in Device : Entry(v)'
    BY <1>1, <1>5 DEF Devices, Entry
  <2>4. OneEach'
    BY <1>1, <1>5 DEF Devices, OneEach
  <2>5. QED
    BY <1>1, <1>5, <2>2, <2>3, <2>4 DEF Devices
<1>6. QED
  BY <1>2, <1>3, <1>4, <1>5

LEMMA WaitListsStay ==
  ASSUME WaitLists, UNCHANGED impl_list, \A a \in App : Off(a) /\ Await(a) => Await(a)'
  PROVE  WaitLists'
<1>1. impl_list' = impl_list
  OBVIOUS
<1>2. \A a : Off(a)' <=> Off(a)
  BY <1>1 DEF Off, OffAt
<1>3. QED
  BY <1>1, <1>2 DEF WaitLists, Once, Apart

\* Nobody has two requests that are put off.
LEMMA OneDriver ==
  ASSUME Devices, WaitLists, DevAsks, NEW a, NEW d, NEW e, PutBy(d, a), PutBy(e, a)
  PROVE  d = e
<1>1. ASSUME NEW v \in Device, OffAt(v, a), NEW w \in Device, OffAt(w, a) PROVE v = w
  BY <1>1 DEF OffAt, WaitLists, Once, Apart
<1>2. Asking /\ job.app = a => ~Off(a)
  BY DEF DevAsks
<1>3. QED
  BY <1>1, <1>2 DEF PutBy, Off

LEMMA PutByAwaits ==
  ASSUME Devices, WaitLists, DevAsks, NEW a, NEW d, PutBy(d, a)
  PROVE  a \in App /\ Await(a)
<1>1. ASSUME NEW v \in Device, OffAt(v, a) PROVE a \in App /\ Off(a)
  <2>1. PICK i \in 1 .. Len(impl_list[v].wait_list) : impl_list[v].wait_list[i].app_pid = a
    BY <1>1 DEF OffAt
  <2>2. impl_list[v].wait_list \in Seq(Request)
    BY DEF Devices, Entry, Implementation
  <2>3. impl_list[v].wait_list[i] \in Request
    BY <2>1, <2>2, ElementOfSeq
  <2>4. QED
    BY <1>1, <2>1, <2>3 DEF Request, Off
<1>2. QED
  BY <1>1 DEF PutBy, WaitLists, DevAsks

\* The program a takes no part in a step.
LEMMA ProgramStays ==
  ASSUME NEW a \in App, Program(a), Same(a),
         asked'[a] = asked[a] \/ (Await(a) /\ asked'[a] = [asked[a] EXCEPT !.done = TRUE])
  PROVE  Program(a)'
BY DEF Program, Right, Same, SameMail, Await

\* The driver d takes no part in a step.
LEMMA DriverStays ==
  ASSUME NEW d \in Driver, DriverOK(d), Same(d), put'[d] = put[d],
         Registered(d)' <=> Registered(d),
         Holds(d) /\ IsAsked(d) => IsAsked(d)' /\ UNCHANGED job /\ asked'[job.app].done = asked[job.app].done,
         Replies(d) /\ IsAsked(d) /\ pc[Dev] = "ask" =>
           IsAsked(d)' /\ pc'[Dev] = "ask" /\ UNCHANGED job /\ asked'[job.app].done = asked[job.app].done,
         \A a \in App : PutBy(d, a) /\ (~asked[a].done \/ Updates(d, a)) =>
           PutBy(d, a)' /\ asked'[a].done = asked[a].done,
         Dev \in sending /\ pc[Dev] = "recv" /\ msg[Dev].receiver = d =>
           Dev \in sending' /\ pc'[Dev] = "recv" /\ msg'[Dev].receiver = d
  PROVE  DriverOK(d)'
<1>1. DriverPlace(d)'
  BY DEF DriverOK, DriverPlace, Same, SameMail, Free
<1>2. DriverSend(d)'
  <2> SUFFICES ASSUME d \in sending' PROVE DriverSend(d)'
    BY DEF DriverSend
  <2>1. d \in sending /\ msg'[d] = msg[d] /\ pc'[d] = pc[d] /\ DriverSend(d) /\ d \notin waiting'
    BY DEF DriverOK, DriverSend, Same, SameMail
  <2>2. CASE pc[d] = "sent" /\ msg[d].body.type = DEV_REG /\ ~Registered(d)
    BY <2>1, <2>2 DEF DriverSend
  <2>3. CASE pc[d] = "serve" /\ msg[d].body.type = DEV_UPD /\ IsUpdate(msg[d], d)
    BY <2>1, <2>3 DEF DriverSend, IsUpdate, Updates
  <2>4. CASE pc[d] = "serve" /\ msg[d].body.type = 0 /\ IsAsked(d) /\ pc[Dev] = "ask" /\ Told(msg[d])
    BY <2>1, <2>4 DEF DriverSend, Told, Replies
  <2>5. QED
    BY <2>1, <2>2, <2>3, <2>4 DEF DriverSend
<1>3. DriverWait(d)'
  BY DEF DriverOK, DriverWait, Same, SameMail
<1>4. DriverGot(d)'
  BY DEF DriverOK, DriverGot, Same, SameMail, Free, JobMail, Holds
<1>5. PutOff(d)'
  <2>1. \A i \in 1 .. Len(put[d]) : put[d][i] \in App
    BY DEF DriverOK, PutOff
  <2>2. QED
    BY <2>1 DEF DriverOK, PutOff, Coming
<1>6. QED
  BY <1>1, <1>2, <1>3, <1>4, <1>5 DEF DriverOK

\* TaskDEV takes no part in a step of b.
LEMMA DevStays ==
  ASSUME DevInv, Same(Dev), UNCHANGED <<impl_list, impl_free_list, job>>,
         NEW b \in Proc, b # Dev, \A p \in Proc : p # b => Same(p),
         \A a \in App : Await(a) =>
           /\ Await(a)' /\ asked'[a].type = asked[a].type /\ asked'[a].device = asked[a].device
           /\ asked[a].done => asked'[a].done
           /\ asked'[a] = asked[a] \/ Off(a) \/ (Asking /\ Dev \notin sending /\ job.app = a),
         Dev \in sending => msg[Dev].receiver # b \/ (pc[Dev] = "ask" /\ pc'[b] \notin {"start", "sent"}),
         pc[Dev] = "handle" /\ msg[Dev].sender = b /\ b \in Driver =>
           /\ b \notin sending /\ (pc[b] = "sent" \/ (b \in waiting /\ pc[b] = "serve")) =>
                b \notin sending' /\ (pc'[b] = "sent" \/ (b \in waiting' /\ pc'[b] = "serve"))
           /\ asked[msg[Dev].body.app].done /\ ~Updates(b, msg[Dev].body.app) => ~Updates(b, msg[Dev].body.app)',
         b = JobDriver /\ IsAsked(b) => Holds(b)' \/ (pc[Dev] = "ask" /\ Replies(b)')
  PROVE  DevOK'
<1>1. /\ Shape /\ Devices /\ WaitLists
      /\ \A a \in App : Program(a)
      /\ \A d \in Driver : DriverPlace(d) /\ DriverSend(d) /\ DriverWait(d) /\ DriverGot(d) /\ PutOff(d)
      /\ DevWaits /\ DevSends /\ DevHandles /\ DevAsks /\ DevPasses
  BY InvParts
<1>2. /\ \A d : Registered(d)' <=> Registered(d)
      /\ \A v, a : OffAt(v, a)' <=> OffAt(v, a)
      /\ \A a : Off(a)' <=> Off(a)
  BY DevicesStay
<1>3. /\ pc'[Dev] = pc[Dev] /\ msg'[Dev] = msg[Dev] /\ (Dev \in sending' <=> Dev \in sending)
      /\ (Dev \in waiting' <=> Dev \in waiting)
      /\ job' = job /\ JobDriver' = JobDriver /\ (Asking' <=> Asking) /\ impl_list' = impl_list
      /\ \A d : IsAsked(d)' <=> IsAsked(d)
  BY DEF Same, SameMail, JobDriver, Asking, IsAsked
<1>4. DevWaits'
  BY <1>1, <1>3 DEF DevWaits
<1>5. DevSends'
  <2> SUFFICES ASSUME Dev \in sending' PROVE DevSends'
    BY DEF DevSends
  <2> DEFINE r == msg[Dev].receiver
  <2>1. r \in Proc /\ (r # b => pc'[r] = pc[r] /\ (Free(r)' <=> Free(r)))
    <3>1. r \in Proc
      BY <1>1, <1>3, Names DEF DevSends, DevAsks, Asking, Devices, Entry, JobDriver
    <3>2. QED
      BY <3>1 DEF Same, SameMail, Free
  <2>2. CASE pc[Dev] = "recv" /\ r \in App /\ pc[r] = "sent" /\ Free(r) /\ ~Off(r) /\ Right(msg[Dev].body.status, r)
    <3>1. asked'[r] = asked[r]
      BY <2>2 DEF Await, Free, Asking
    <3>2. QED
      BY <1>1, <1>2, <1>3, <2>1, <2>2, <3>1 DEF DevSends, Right
  <2>3. CASE pc[Dev] = "recv" /\ r \in Driver /\ pc[r] = "sent" /\ Free(r) /\ Registered(r)
    BY <1>1, <1>2, <1>3, <2>1, <2>3 DEF DevSends
  <2>4. CASE pc[Dev] = "ask" /\ r = JobDriver /\ pc[r] \notin {"start", "sent"} /\ msg[Dev].body = JobMail
    BY <1>1, <1>2, <1>3, <2>1, <2>4 DEF DevSends, JobMail
  <2>5. QED
    BY <1>1, <1>3, <2>2, <2>3, <2>4 DEF DevSends
<1>6. DevHandles'
  <2> SUFFICES ASSUME pc[Dev] = "handle", Dev \notin waiting PROVE DevHandles'
    BY <1>3 DEF DevHandles
  <2> DEFINE p == msg[Dev].sender
  <2>1. Dev \notin sending'
    BY <1>1, <1>3 DEF DevHandles
  <2>2. CASE p \in App /\ Await(p) /\ ~Off(p) /\ ~asked[p].done /\ asked[p].type # 0
             /\ msg[Dev].body = Mail(asked[p].type, asked[p].device, 0, 0)
    <3>1. asked'[p] = asked[p] /\ Await(p)'
      BY <1>3, <2>2 DEF Asking
    <3>2. QED
      BY <1>2, <1>3, <2>1, <2>2, <3>1 DEF DevHandles
  <2>3. CASE p \in Driver /\ msg[Dev].body.type = DEV_REG /\ ~Registered(p) /\ p \notin sending
             /\ (pc[p] = "sent" \/ (p \in waiting /\ pc[p] = "serve"))
    <3>1. p \notin sending' /\ (pc'[p] = "sent" \/ (p \in waiting' /\ pc'[p] = "serve"))
      BY <2>3, Names DEF Same, SameMail
    <3>2. QED
      BY <1>2, <1>3, <2>1, <2>3, <3>1 DEF DevHandles
  <2>4. CASE p \in Driver /\ IsUpdate(msg[Dev], p) /\ ~Updates(p, msg[Dev].body.app)
    <3>1. ~Updates(p, msg[Dev].body.app)'
      BY <2>4, Names DEF Same, SameMail, Updates, IsUpdate
    <3>2. PutBy(p, msg[Dev].body.app)'
      BY <1>2, <1>3, <2>4 DEF IsUpdate, PutBy, Asking
    <3>3. asked'[msg[Dev].body.app].done
      BY <1>1, <2>4, PutByAwaits DEF IsUpdate
    <3>4. QED
      BY <1>3, <2>1, <2>4, <3>1, <3>2, <3>3 DEF DevHandles, IsUpdate
  <2>5. QED
    BY <1>1, <2>2, <2>3, <2>4 DEF DevHandles
<1>7. DevAsks'
  <2> SUFFICES ASSUME Asking PROVE DevAsks'
    BY <1>3 DEF DevAsks
  <2>1. job.app \in App /\ Await(job.app)' /\ ~Off(job.app)'
    BY <1>1, <1>2 DEF DevAsks
  <2>2. Dev \in sending => pc[Dev] = "ask" /\ ~asked'[job.app].done
    BY <1>1 DEF DevAsks
  <2>3. IsAsked(JobDriver) => Holds(JobDriver)' \/ (pc[Dev] = "ask" /\ Replies(JobDriver)')
    <3>1. JobDriver \in Proc
      BY <1>1, Names DEF DevAsks, Devices, Entry, JobDriver
    <3>2. CASE JobDriver = b
      BY <1>3, <3>2 DEF Holds, Replies, Free
    <3>3. CASE JobDriver # b
      BY <1>1, <1>3, <3>1, <3>3 DEF DevAsks, Holds, Replies, Same, SameMail, Free
    <3>4. QED
      BY <3>2, <3>3
  <2>4. QED
    BY <1>1, <1>3, <2>1, <2>2, <2>3 DEF DevAsks
<1>8. DevPasses'
  BY <1>1, <1>3, <1>4 DEF DevPasses, Told, Free, DevAsks, Asking
<1>9. QED
  BY <1>4, <1>5, <1>6, <1>7, <1>8 DEF DevOK

\* A program sends its request: TaskDEV gets it at once if it waits for anybody.
LEMMA DevCallKeeps ==
  ASSUME DevInv, NEW b \in App, NEW r \in Requests, DevCall(b, r[1], r[2])
  PROVE  DevInv'
<1> DEFINE body == Mail(r[1], r[2], 0, 0)
           m == [sender |-> b, receiver |-> Dev, body |-> body]
<1>1. /\ Shape /\ Devices /\ WaitLists
      /\ \A a \in App : Program(a)
      /\ \A d \in Driver : DriverPlace(d) /\ DriverSend(d) /\ DriverWait(d) /\ DriverGot(d) /\ PutOff(d)
      /\ DevWaits /\ DevSends /\ DevHandles /\ DevAsks /\ DevPasses
  BY InvParts
<1>2. /\ b \in Proc /\ Dev \in Proc /\ b # Dev
      /\ pc[b] = "run" /\ Free(b)
      /\ r[1] \in {DEV_READ, DEV_OPEN} /\ r[2] \in Device
      /\ UNCHANGED <<impl_list, impl_free_list, job, put>>
  BY Names, DevAssumption DEF DevAssumption, DevCall, At, implv
<1>3. DOMAIN pc' = Proc /\ pc'[b] = "sent" /\ \A q \in Proc : q # b => pc'[q] = pc[q]
  BY <1>1, <1>2, GotoEffect DEF DevCall
<1>4. /\ DOMAIN asked' = App /\ \A a \in App : a # b => asked'[a] = asked[a]
      /\ asked'[b] = [type |-> r[1], device |-> r[2], done |-> FALSE]
  BY <1>1 DEF DevCall, Shape
<1>5. /\ sending' \subseteq Proc /\ waiting' \subseteq Proc /\ DOMAIN msg' = Proc
      /\ b \notin waiting' /\ msg'[b] = m
      /\ \A q \in Proc : q # b /\ q # Dev => SameMail(q)
      /\ Dev \in sending' <=> Dev \in sending
      /\ \/ Accepts(Dev, b) /\ b \notin sending' /\ Dev \notin waiting' /\ msg'[Dev] = m
         \/ ~Accepts(Dev, b) /\ b \in sending' /\ SameMail(Dev)
  <2>1. Send(b, Dev, body)
    BY DEF DevCall
  <2> HIDE DEF body
  <2>2. QED
    BY <1>1, <1>2, <2>1, SendEffect
<1>6. /\ ~Await(b) /\ ~Off(b) /\ ~(Asking /\ job.app = b)
      /\ \A d \in Driver : ~PutBy(d, b)
  <2>1. ~Await(b)
    BY <1>2 DEF Await, Free
  <2>2. QED
    BY <1>1, <2>1, PutByAwaits DEF WaitLists, DevAsks
<1>7. /\ Devices' /\ \A d : Registered(d)' <=> Registered(d)
      /\ \A v, a : OffAt(v, a)' <=> OffAt(v, a)
      /\ \A a : Off(a)' <=> Off(a)
  BY <1>1, <1>2, DevicesStay
<1>8. Accepts(Dev, b) => pc[Dev] = "handle"
  <2>1. Asking => JobDriver \in Driver
    BY <1>1 DEF DevAsks, Devices, Entry, JobDriver
  <2>2. QED
    BY <1>1, <1>2, <2>1, Names DEF Accepts, DevWaits, Asking
<1>9. \A a \in App : Await(a) => a # b /\ Await(a)'
  BY <1>3, <1>5, <1>6, Names DEF Await, SameMail
<1>10. \A d \in Driver, a \in App : PutBy(d, a) => a # b /\ PutBy(d, a)'
  <2> SUFFICES ASSUME NEW d \in Driver, NEW a \in App, PutBy(d, a) PROVE a # b /\ PutBy(d, a)'
    OBVIOUS
  <2>1. impl_list' = impl_list /\ job' = job /\ JobDriver' = JobDriver /\ pc'[Dev] = pc[Dev] /\ SameMail(d)
    BY <1>2, <1>3, <1>5, Names DEF JobDriver
  <2>2. pc[Dev] = "handle" \/ SameMail(Dev)
    BY <1>5, <1>8
  <2>3. QED
    BY <1>6, <1>7, <2>1, <2>2 DEF PutBy, Asking, Replies, SameMail, Free
<1>11. Shape'
  BY <1>1, <1>2, <1>3, <1>4, <1>5 DEF Shape
<1>12. WaitLists'
  BY <1>1, <1>2, <1>9, WaitListsStay
<1>13. \A a \in App : Program(a)'
  <2> SUFFICES ASSUME NEW a \in App PROVE Program(a)'
    OBVIOUS
  <2>1. CASE a = b
    <3>1. /\ asked'[b].type = r[1] /\ asked'[b].device = r[2] /\ ~asked'[b].done
          /\ asked'[b] \in [type : {0, DEV_READ, DEV_OPEN}, device : Device, done : BOOLEAN]
      BY <1>2, <1>4
    <3>2. msg'[b] = [sender |-> b, receiver |-> Dev, body |-> Mail(asked'[b].type, asked'[b].device, 0, 0)]
      BY <1>5, <3>1
    <3>3. pc'[b] = "sent" /\ b \notin waiting' /\ r[1] \in {DEV_READ, DEV_OPEN}
      BY <1>2, <1>3, <1>5
    <3>4. Program(b)'
      BY <3>1, <3>2, <3>3 DEF Program
    <3>5. QED
      BY <2>1, <3>4
  <2>2. CASE a # b
    BY <1>1, <1>3, <1>4, <1>5, <2>2, Names, ProgramStays DEF Same
  <2>3. QED
    BY <2>1, <2>2
<1>14. \A d \in Driver : DriverOK(d)'
  <2> SUFFICES ASSUME NEW d \in Driver PROVE DriverOK(d)'
    OBVIOUS
  <2>1. DriverOK(d) /\ Same(d) /\ put'[d] = put[d]
    BY <1>1, <1>2, <1>3, <1>5, Names DEF DriverOK, Same
  <2>2. pc'[Dev] = pc[Dev] /\ job' = job /\ JobDriver' = JobDriver
    BY <1>2, <1>3 DEF JobDriver
  <2>3. IsAsked(d) => IsAsked(d)' /\ job.app \in App /\ job.app # b
    BY <1>1, <1>5, <1>6, <1>8, <2>2 DEF IsAsked, SameMail, DevAsks, Asking
  <2>4. Dev \in sending => Dev \in sending' /\ msg'[Dev] = msg[Dev]
    BY <1>1, <1>5 DEF Accepts, DevWaits, SameMail
  <2>5. QED
    BY <1>4, <1>7, <1>10, <2>1, <2>2, <2>3, <2>4, DriverStays
<1>15. DevOK'
  <2>1. CASE ~Accepts(Dev, b)
    <3>1. Dev \in sending => msg[Dev].receiver # b
      BY <1>1, <1>2, Names DEF DevSends, DevAsks, Asking, Devices, Entry, JobDriver
    <3>2. Same(Dev) /\ \A p \in Proc : p # b => Same(p)
      BY <1>2, <1>3, <1>5, <2>1 DEF Same
    <3>3. b \notin Driver /\ ~(b = JobDriver /\ IsAsked(b))
      BY <1>1, <1>2, Names DEF DevAsks, Devices, Entry, JobDriver, IsAsked, Asking
    <3>4. QED
      BY <1>2, <1>4, <1>9, <3>1, <3>2, <3>3, DevStays
  <2>2. CASE Accepts(Dev, b)
    <3>1. pc'[Dev] = "handle" /\ Dev \notin waiting' /\ Dev \notin sending' /\ msg'[Dev] = m
      BY <1>1, <1>2, <1>3, <1>5, <1>8, <2>2 DEF Accepts, DevWaits
    <3>2. Await(b)' /\ ~Off(b)'
      BY <1>3, <1>5, <1>6, <1>7, <2>2 DEF Await
    <3>3. DevHandles'
      BY <1>2, <1>4, <3>1, <3>2 DEF DevHandles
    <3>4. QED
      BY <3>1, <3>3 DEF DevOK, DevWaits, DevSends, DevAsks, DevPasses, Asking
  <2>3. QED
    BY <2>1, <2>2
<1>16. QED
  BY <1>7, <1>11, <1>12, <1>13, <1>14, <1>15 DEF DevInv

LEMMA CallEndsKeeps ==
  ASSUME DevInv, NEW b \in App, CallEnds(b)
  PROVE  DevInv'
<1>1. /\ Shape /\ Devices /\ WaitLists
      /\ \A a \in App : Program(a)
      /\ \A d \in Driver : DriverPlace(d) /\ DriverSend(d) /\ DriverWait(d) /\ DriverGot(d) /\ PutOff(d)
      /\ DevWaits /\ DevSends /\ DevHandles /\ DevAsks /\ DevPasses
  BY InvParts
<1>2. /\ b \in Proc /\ Dev \in Proc /\ b # Dev
      /\ pc[b] = "answered" /\ Free(b)
      /\ UNCHANGED <<impl_list, impl_free_list, job, put, asked, sending, waiting, msg>>
  BY Names DEF CallEnds, At, implv, vars
<1>3. DOMAIN pc' = Proc /\ pc'[b] = "run" /\ \A q \in Proc : q # b => pc'[q] = pc[q]
  BY <1>1, <1>2, GotoEffect DEF CallEnds
<1>4. (\A q \in Proc : q # b => Same(q)) /\ Same(Dev)
  BY <1>2, <1>3 DEF Same, SameMail
<1>5. ~Await(b)
  BY <1>2 DEF Await, Free
<1>6. /\ Devices' /\ \A d : Registered(d)' <=> Registered(d)
      /\ \A v, a : OffAt(v, a)' <=> OffAt(v, a)
  BY <1>1, <1>2, DevicesStay
<1>7. \A a \in App : Await(a) => a # b /\ Await(a)'
  BY <1>2, <1>3, <1>5, Names DEF Await
<1>8. \A d : (IsAsked(d)' <=> IsAsked(d)) /\ \A a : PutBy(d, a)' <=> PutBy(d, a)
  BY <1>2, <1>3, <1>6 DEF IsAsked, PutBy, JobDriver, Asking, Free, Replies
<1>9. Shape' /\ WaitLists'
  BY <1>1, <1>2, <1>3, <1>7, WaitListsStay DEF Shape
<1>10. \A a \in App : Program(a)'
  <2>1. Program(b)'
    BY <1>1, <1>2, <1>3 DEF Program, Free
  <2>2. \A a \in App : a # b => Program(a)'
    BY <1>1, <1>2, <1>4, Names, ProgramStays
  <2>3. QED
    BY <2>1, <2>2
<1>11. \A d \in Driver : DriverOK(d)'
  <2> SUFFICES ASSUME NEW d \in Driver PROVE DriverOK(d)'
    OBVIOUS
  <2>1. DriverOK(d) /\ Same(d) /\ pc'[Dev] = pc[Dev]
    BY <1>1, <1>2, <1>3, <1>4, Names DEF DriverOK
  <2>2. QED
    BY <1>2, <1>6, <1>8, <2>1, DriverStays
<1>12. DevOK'
  <2>1. Dev \in sending => msg[Dev].receiver # b
    BY <1>1, <1>2, Names DEF DevSends, DevAsks, Asking, Devices, Entry, JobDriver
  <2>2. b \notin Driver /\ ~(b = JobDriver /\ IsAsked(b))
    BY <1>1, <1>2, Names DEF DevAsks, Devices, Entry, JobDriver, IsAsked, Asking
  <2>3. QED
    BY <1>2, <1>4, <1>7, <2>1, <2>2, DevStays
<1>13. QED
  BY <1>6, <1>9, <1>10, <1>11, <1>12 DEF DevInv

\* A program gets its answer, or waits for it.
LEMMA AwaitStatusKeeps ==
  ASSUME DevInv, NEW b \in App, AwaitStatus(b)
  PROVE  DevInv'
<1>1. /\ Shape /\ Devices /\ WaitLists
      /\ \A a \in App : Program(a)
      /\ \A d \in Driver : DriverPlace(d) /\ DriverSend(d) /\ DriverWait(d) /\ DriverGot(d) /\ PutOff(d)
      /\ DevWaits /\ DevSends /\ DevHandles /\ DevAsks /\ DevPasses
  BY InvParts
<1>2. /\ b \in Proc /\ Dev \in Proc /\ b # Dev
      /\ pc[b] = "sent" /\ Free(b)
      /\ UNCHANGED <<impl_list, impl_free_list, job, put, asked>>
  BY Names DEF AwaitStatus, At, implv
<1>3. DOMAIN pc' = Proc /\ pc'[b] = "answered" /\ \A q \in Proc : q # b => pc'[q] = pc[q]
  BY <1>1, <1>2, GotoEffect DEF AwaitStatus, Receive
<1>4. /\ Devices' /\ \A d : Registered(d)' <=> Registered(d)
      /\ \A v, a : OffAt(v, a)' <=> OffAt(v, a)
      /\ \A a : Off(a)' <=> Off(a)
  BY <1>1, <1>2, DevicesStay
<1>5. JobDriver' = JobDriver /\ (Asking' <=> Asking) /\ (Asking => JobDriver \in Driver)
  BY <1>1, <1>2, <1>3 DEF JobDriver, Asking, DevAsks, Devices, Entry
<1>6. CASE Wait(b, Dev)
  <2>1. /\ sending' \subseteq Proc /\ waiting' \subseteq Proc /\ DOMAIN msg' = Proc
        /\ Dev \in sending => msg[Dev].receiver # b
        /\ b \notin sending' /\ b \in waiting' /\ msg'[b].sender = Dev
        /\ \A q \in Proc : q # b => SameMail(q)
    BY <1>1, <1>2, <1>6, WaitEffect
  <2>2. (\A q \in Proc : q # b => Same(q)) /\ Same(Dev)
    BY <1>2, <1>3, <2>1 DEF Same
  <2>3. \A a \in App : Await(a) => Await(a)'
    BY <1>3, <2>1, <2>2, Names DEF Await, Same, SameMail
  <2>4. \A d : IsAsked(d)' <=> IsAsked(d)
    BY <1>5, <2>2 DEF IsAsked, Same, SameMail
  <2>5. \A d \in Driver : \A a : PutBy(d, a)' <=> PutBy(d, a)
    BY <1>2, <1>4, <1>5, <2>2, Names DEF PutBy, Free, Replies, Same, SameMail
  <2>6. Shape' /\ WaitLists'
    BY <1>1, <1>2, <1>3, <2>1, <2>3, WaitListsStay DEF Shape
  <2>7. \A a \in App : Program(a)'
    <3>1. Program(b)'
      BY <1>1, <1>2, <1>3, <2>1 DEF Program
    <3>2. \A a \in App : a # b => Program(a)'
      BY <1>1, <1>2, <2>2, Names, ProgramStays
    <3>3. QED
      BY <3>1, <3>2
  <2>8. \A d \in Driver : DriverOK(d)'
    <3> SUFFICES ASSUME NEW d \in Driver PROVE DriverOK(d)'
      OBVIOUS
    <3>1. DriverOK(d) /\ Same(d)
      BY <1>1, <1>2, <2>2, Names DEF DriverOK
    <3>2. pc'[Dev] = pc[Dev] /\ (Dev \in sending => Dev \in sending' /\ msg'[Dev] = msg[Dev])
      BY <2>2 DEF Same, SameMail
    <3>3. QED
      BY <1>2, <1>4, <2>4, <2>5, <3>1, <3>2, DriverStays
  <2>9. DevOK'
    <3>1. b \notin Driver /\ ~(b = JobDriver /\ IsAsked(b))
      BY <1>2, <1>5, Names DEF IsAsked, Asking
    <3>2. QED
      BY <1>2, <2>1, <2>2, <2>3, <3>1, DevStays
  <2>10. QED
    BY <1>4, <2>6, <2>7, <2>8, <2>9 DEF DevInv
<1>7. CASE \E s \in Proc : Take(b, s, Dev)
  <2>1. /\ sending' \subseteq Proc /\ waiting' \subseteq Proc /\ DOMAIN msg' = Proc
        /\ Dev \in sending /\ msg[Dev].receiver = b
        /\ b \notin sending' /\ b \notin waiting' /\ Dev \notin sending' /\ msg'[b] = msg[Dev]
        /\ msg'[Dev] = msg[Dev] /\ (Dev \in waiting' <=> Dev \in waiting)
        /\ \A q \in Proc : q # b /\ q # Dev => SameMail(q)
    <3>1. PICK s \in Proc : Take(b, s, Dev)
      BY <1>7
    <3>2. s = Dev
      BY <1>1, <1>2, <3>1, Names, TakeEffect
    <3>3. QED
      BY <1>1, <1>2, <3>1, <3>2, TakeEffect
  <2>2. pc[Dev] = "recv" /\ pc'[Dev] = "recv" /\ Dev \notin waiting' /\ ~Off(b) /\ Right(msg[Dev].body.status, b)
    BY <1>1, <1>2, <1>3, <1>5, <2>1, Names DEF DevSends, DevWaits, Asking
  <2>3. \A q \in Proc : q # b /\ q # Dev => Same(q)
    BY <1>3, <2>1 DEF Same
  <2>4. \A a \in App : a # b /\ Await(a) => Await(a)'
    BY <2>3, Names DEF Await, Same, SameMail
  <2>5. \A d \in Driver : ~IsAsked(d) /\ \A a : PutBy(d, a) => PutBy(d, a)'
    BY <1>2, <1>4, <2>2 DEF IsAsked, PutBy, Asking
  <2>6. Shape' /\ WaitLists'
    BY <1>1, <1>2, <1>3, <2>1, <2>2, <2>4, WaitListsStay DEF Shape
  <2>7. \A a \in App : Program(a)'
    <3>1. Program(b)'
      BY <1>1, <1>2, <1>3, <2>1, <2>2 DEF Program, Right
    <3>2. \A a \in App : a # b => Program(a)'
      BY <1>1, <1>2, <2>3, Names, ProgramStays
    <3>3. QED
      BY <3>1, <3>2
  <2>8. \A d \in Driver : DriverOK(d)'
    <3> SUFFICES ASSUME NEW d \in Driver PROVE DriverOK(d)'
      OBVIOUS
    <3>1. DriverOK(d) /\ Same(d) /\ b # d
      BY <1>1, <1>2, <2>3, Names DEF DriverOK
    <3>2. QED
      BY <1>2, <1>4, <2>1, <2>5, <3>1, DriverStays
  <2>9. DevOK'
    BY <2>1, <2>2 DEF DevOK, DevWaits, DevSends, DevHandles, DevAsks, DevPasses, Asking
  <2>10. QED
    BY <1>4, <2>6, <2>7, <2>8, <2>9 DEF DevInv
<1>8. QED
  BY <1>6, <1>7 DEF AwaitStatus, Receive

LEMMA RegisterKeeps ==
  ASSUME DevInv, NEW b \in Driver, Register(b)
  PROVE  DevInv'
<1> DEFINE m == [sender |-> b, receiver |-> Dev, body |-> Mail(DEV_REG, 0, 0, 0)]
<1>1. /\ Shape /\ Devices /\ WaitLists
      /\ \A a \in App : Program(a)
      /\ \A d \in Driver : DriverPlace(d) /\ DriverSend(d) /\ DriverWait(d) /\ DriverGot(d) /\ PutOff(d)
      /\ DevWaits /\ DevSends /\ DevHandles /\ DevAsks /\ DevPasses
  BY InvParts
<1>2. /\ b \in Proc /\ Dev \in Proc /\ b # Dev
      /\ pc[b] = "start" /\ Free(b) /\ ~Registered(b)
      /\ UNCHANGED <<impl_list, impl_free_list, job, put, asked>>
  BY <1>1, Names DEF Register, At, implv, DriverPlace
<1>3. DOMAIN pc' = Proc /\ pc'[b] = "sent" /\ \A q \in Proc : q # b => pc'[q] = pc[q]
  BY <1>1, <1>2, GotoEffect DEF Register
<1>4. /\ sending' \subseteq Proc /\ waiting' \subseteq Proc /\ DOMAIN msg' = Proc
      /\ b \notin waiting' /\ msg'[b] = m
      /\ \A q \in Proc : q # b /\ q # Dev => SameMail(q)
      /\ Dev \in sending' <=> Dev \in sending
      /\ \/ Accepts(Dev, b) /\ b \notin sending' /\ Dev \notin waiting' /\ msg'[Dev] = m
         \/ ~Accepts(Dev, b) /\ b \in sending' /\ SameMail(Dev)
  BY <1>1, <1>2, SendEffect DEF Register
<1>5. Asking => JobDriver \in Driver /\ JobDriver # b
  BY <1>1, <1>2 DEF JobDriver, DevAsks, Devices, Entry, Registered
<1>6. /\ Devices' /\ \A d : Registered(d)' <=> Registered(d)
      /\ \A v, a : OffAt(v, a)' <=> OffAt(v, a)
      /\ \A a : Off(a)' <=> Off(a)
  BY <1>1, <1>2, DevicesStay
<1>7. Accepts(Dev, b) => pc[Dev] = "handle" /\ Dev \notin sending
  BY <1>1, <1>2, <1>5, Names DEF Accepts, DevWaits, Asking
<1>8. pc'[Dev] = pc[Dev] /\ JobDriver' = JobDriver /\ (Asking' <=> Asking)
  BY <1>2, <1>3 DEF JobDriver, Asking
<1>9. \A q \in Proc : q # b /\ q # Dev => Same(q)
  BY <1>3, <1>4 DEF Same
<1>10. \A a \in App : Await(a) => Await(a)'
  BY <1>9, Names DEF Await, Same, SameMail
<1>11. \A d \in Driver : IsAsked(d) => IsAsked(d)'
  BY <1>4, <1>7, <1>8 DEF IsAsked, SameMail
<1>12. \A d \in Driver : \A a : PutBy(d, a) => PutBy(d, a)'
  <2> SUFFICES ASSUME NEW d \in Driver, NEW a, PutBy(d, a) PROVE PutBy(d, a)'
    OBVIOUS
  <2>1. pc[Dev] = "handle" \/ SameMail(Dev)
    BY <1>4, <1>7
  <2>2. d = b \/ Same(d)
    BY <1>9, Names
  <2>3. QED
    BY <1>2, <1>5, <1>6, <1>8, <2>1, <2>2 DEF PutBy, Asking, Replies, SameMail, Same, Free
<1>13. Shape' /\ WaitLists'
  BY <1>1, <1>2, <1>3, <1>4, <1>10, WaitListsStay DEF Shape
<1>14. \A a \in App : Program(a)'
  BY <1>1, <1>2, <1>9, Names, ProgramStays
<1>15. \A d \in Driver : DriverOK(d)'
  <2> SUFFICES ASSUME NEW d \in Driver PROVE DriverOK(d)'
    OBVIOUS
  <2>1. CASE d = b
    <3>1. DriverPlace(b)' /\ DriverSend(b)' /\ DriverWait(b)' /\ DriverGot(b)'
      BY <1>2, <1>3, <1>4, <1>6 DEF DriverPlace, DriverSend, DriverWait, DriverGot, Mail
    <3>2. PutOff(b)'
      BY <1>1, <1>2, <1>12 DEF PutOff, Coming
    <3>3. QED
      BY <2>1, <3>1, <3>2 DEF DriverOK
  <2>2. CASE d # b
    <3>1. DriverOK(d) /\ Same(d)
      BY <1>1, <1>9, <2>2, Names DEF DriverOK
    <3>2. Dev \in sending => Dev \in sending' /\ msg'[Dev] = msg[Dev]
      BY <1>4, <1>7 DEF SameMail
    <3>3. QED
      BY <1>2, <1>6, <1>8, <1>11, <1>12, <3>1, <3>2, DriverStays
  <2>3. QED
    BY <2>1, <2>2
<1>16. DevOK'
  <2>1. CASE ~Accepts(Dev, b)
    <3>1. Same(Dev) /\ \A p \in Proc : p # b => Same(p)
      BY <1>2, <1>4, <1>8, <1>9, <2>1 DEF Same
    <3>2. Dev \in sending => msg[Dev].receiver # b
      BY <1>1, <1>2, <1>5, Names DEF DevSends, Asking
    <3>3. ~(b = JobDriver /\ IsAsked(b))
      BY <1>5 DEF IsAsked, Asking
    <3>4. pc[Dev] = "handle" /\ msg[Dev].sender = b =>
            /\ ~(b \notin sending /\ (pc[b] = "sent" \/ (b \in waiting /\ pc[b] = "serve")))
            /\ ~Updates(b, msg[Dev].body.app)'
      BY <1>2, <1>4 DEF Updates, Mail
    <3>5. QED
      BY <1>2, <1>10, <3>1, <3>2, <3>3, <3>4, DevStays
  <2>2. CASE Accepts(Dev, b)
    <3>1. pc'[Dev] = "handle" /\ Dev \notin waiting' /\ Dev \notin sending' /\ msg'[Dev] = m
      BY <1>4, <1>7, <1>8, <2>2
    <3>2. DevHandles'
      BY <1>2, <1>3, <1>4, <1>6, <2>2, <3>1 DEF DevHandles, Mail
    <3>3. QED
      BY <3>1, <3>2 DEF DevOK, DevWaits, DevSends, DevAsks, DevPasses, Asking
  <2>3. QED
    BY <2>1, <2>2
<1>17. QED
  BY <1>6, <1>13, <1>14, <1>15, <1>16 DEF DevInv

LEMMA AwaitIDKeeps ==
  ASSUME DevInv, NEW b \in Driver, AwaitID(b)
  PROVE  DevInv'
<1>1. /\ Shape /\ Devices /\ WaitLists
      /\ \A a \in App : Program(a)
      /\ \A d \in Driver : DriverPlace(d) /\ DriverSend(d) /\ DriverWait(d) /\ DriverGot(d) /\ PutOff(d)
      /\ DevWaits /\ DevSends /\ DevHandles /\ DevAsks /\ DevPasses
  BY InvParts
<1>2. /\ b \in Proc /\ Dev \in Proc /\ b # Dev
      /\ pc[b] = "sent" /\ Free(b)
      /\ UNCHANGED <<impl_list, impl_free_list, job, put, asked>>
  BY Names DEF AwaitID, At, implv
<1>3. DOMAIN pc' = Proc /\ pc'[b] = "serve" /\ \A q \in Proc : q # b => pc'[q] = pc[q]
  BY <1>1, <1>2, GotoEffect DEF AwaitID, Receive
<1>4. /\ Devices' /\ \A d : Registered(d)' <=> Registered(d)
      /\ \A v, a : OffAt(v, a)' <=> OffAt(v, a)
      /\ \A a : Off(a)' <=> Off(a)
  BY <1>1, <1>2, DevicesStay
<1>5. pc'[Dev] = pc[Dev] /\ JobDriver' = JobDriver /\ (Asking' <=> Asking) /\ (Asking => JobDriver \in Driver)
  BY <1>1, <1>2, <1>3 DEF JobDriver, Asking, DevAsks, Devices, Entry
<1>6. CASE Wait(b, Dev)
  <2>1. /\ sending' \subseteq Proc /\ waiting' \subseteq Proc /\ DOMAIN msg' = Proc
        /\ Dev \in sending => msg[Dev].receiver # b
        /\ b \notin sending' /\ b \in waiting' /\ msg'[b].sender = Dev
        /\ \A q \in Proc : q # b => SameMail(q)
    BY <1>1, <1>2, <1>6, WaitEffect
  <2>2. (\A q \in Proc : q # b => Same(q)) /\ Same(Dev) /\ ~Registered(b)
    BY <1>1, <1>2, <1>3, <2>1 DEF Same, DriverPlace
  <2>3. \A a \in App : Await(a) => Await(a)'
    BY <2>2, Names DEF Await, Same, SameMail
  <2>4. \A d : IsAsked(d)' <=> IsAsked(d)
    BY <1>5, <2>2 DEF IsAsked, Same, SameMail
  <2>5. \A d \in Driver : \A a : PutBy(d, a) => PutBy(d, a)'
    BY <1>2, <1>4, <1>5, <2>2, Names DEF PutBy, Free, Replies, Same, SameMail
  <2>6. Shape' /\ WaitLists'
    BY <1>1, <1>2, <1>3, <2>1, <2>3, WaitListsStay DEF Shape
  <2>7. \A a \in App : Program(a)'
    BY <1>1, <1>2, <2>2, Names, ProgramStays
  <2>8. \A d \in Driver : DriverOK(d)'
    <3> SUFFICES ASSUME NEW d \in Driver PROVE DriverOK(d)'
      OBVIOUS
    <3>1. CASE d = b
      <4>1. DriverPlace(b)' /\ DriverSend(b)' /\ DriverWait(b)' /\ DriverGot(b)'
        BY <1>3, <1>4, <2>1, <2>2 DEF DriverPlace, DriverSend, DriverWait, DriverGot
      <4>2. PutOff(b)'
        BY <1>1, <1>2, <2>5 DEF PutOff, Coming
      <4>3. QED
        BY <3>1, <4>1, <4>2 DEF DriverOK
    <3>2. CASE d # b
      <4>1. DriverOK(d) /\ Same(d)
        BY <1>1, <2>2, <3>2, Names DEF DriverOK
      <4>2. Dev \in sending => Dev \in sending' /\ msg'[Dev] = msg[Dev]
        BY <2>2 DEF Same, SameMail
      <4>3. QED
        BY <1>2, <1>4, <1>5, <2>4, <2>5, <4>1, <4>2, DriverStays
    <3>3. QED
      BY <3>1, <3>2
  <2>9. DevOK'
    <3>1. ~(b = JobDriver /\ IsAsked(b))
      BY <1>1, <2>2 DEF IsAsked, Asking, DevAsks, JobDriver, Registered
    <3>2. ~Updates(b, msg[Dev].body.app)' /\ b \in waiting' /\ b \notin sending' /\ pc'[b] = "serve"
      BY <1>3, <2>1 DEF Updates
    <3>3. QED
      BY <1>2, <2>1, <2>2, <2>3, <3>1, <3>2, DevStays
  <2>10. QED
    BY <1>4, <2>6, <2>7, <2>8, <2>9 DEF DevInv
<1>7. CASE \E s \in Proc : Take(b, s, Dev)
  <2>1. /\ sending' \subseteq Proc /\ waiting' \subseteq Proc /\ DOMAIN msg' = Proc
        /\ Dev \in sending /\ msg[Dev].receiver = b
        /\ b \notin sending' /\ b \notin waiting' /\ Dev \notin sending' /\ msg'[b] = msg[Dev]
        /\ msg'[Dev] = msg[Dev] /\ (Dev \in waiting' <=> Dev \in waiting)
        /\ \A q \in Proc : q # b /\ q # Dev => SameMail(q)
    <3>1. PICK s \in Proc : Take(b, s, Dev)
      BY <1>7
    <3>2. s = Dev
      BY <1>1, <1>2, <3>1, Names, TakeEffect
    <3>3. QED
      BY <1>1, <1>2, <3>1, <3>2, TakeEffect
  <2>2. pc[Dev] = "recv" /\ pc'[Dev] = "recv" /\ Dev \notin waiting' /\ Registered(b)
    BY <1>1, <1>2, <1>5, <2>1, Names DEF DevSends, DevWaits
  <2>3. \A q \in Proc : q # b /\ q # Dev => Same(q)
    BY <1>3, <2>1 DEF Same
  <2>4. \A a \in App : Await(a) => Await(a)'
    BY <2>3, Names DEF Await, Same, SameMail
  <2>5. \A d \in Driver : ~IsAsked(d) /\ \A a : PutBy(d, a) => PutBy(d, a)'
    BY <1>2, <1>4, <2>2 DEF IsAsked, PutBy, Asking
  <2>6. Shape' /\ WaitLists'
    BY <1>1, <1>2, <1>3, <2>1, <2>4, WaitListsStay DEF Shape
  <2>7. \A a \in App : Program(a)'
    BY <1>1, <1>2, <2>3, Names, ProgramStays
  <2>8. \A d \in Driver : DriverOK(d)'
    <3> SUFFICES ASSUME NEW d \in Driver PROVE DriverOK(d)'
      OBVIOUS
    <3>1. CASE d = b
      <4>1. DriverPlace(b)' /\ DriverSend(b)' /\ DriverWait(b)' /\ DriverGot(b)'
        BY <1>3, <2>1 DEF DriverPlace, DriverSend, DriverWait, DriverGot
      <4>2. PutOff(b)'
        BY <1>1, <1>2, <2>5 DEF PutOff, Coming
      <4>3. QED
        BY <3>1, <4>1, <4>2 DEF DriverOK
    <3>2. CASE d # b
      <4>1. DriverOK(d) /\ Same(d)
        BY <1>1, <1>2, <2>3, <3>2, Names DEF DriverOK
      <4>2. QED
        BY <1>2, <1>4, <2>1, <2>5, <3>2, <4>1, DriverStays
    <3>3. QED
      BY <3>1, <3>2
  <2>9. DevOK'
    BY <2>1, <2>2 DEF DevOK, DevWaits, DevSends, DevHandles, DevAsks, DevPasses, Asking
  <2>10. QED
    BY <1>4, <2>6, <2>7, <2>8, <2>9 DEF DevInv
<1>8. QED
  BY <1>6, <1>7 DEF AwaitID, Receive

\* A driver gets the request that TaskDEV has passed on, or waits.
LEMMA ServeKeeps ==
  ASSUME DevInv, NEW b \in Driver, Serve(b)
  PROVE  DevInv'
<1>1. /\ Shape /\ Devices /\ WaitLists
      /\ \A a \in App : Program(a)
      /\ \A d \in Driver : DriverPlace(d) /\ DriverSend(d) /\ DriverWait(d) /\ DriverGot(d) /\ PutOff(d)
      /\ DevWaits /\ DevSends /\ DevHandles /\ DevAsks /\ DevPasses
  BY InvParts
<1>2. /\ b \in Proc /\ Dev \in Proc /\ b # Dev
      /\ pc[b] = "serve" /\ Free(b)
      /\ UNCHANGED <<impl_list, impl_free_list, job, put, asked>>
  BY Names DEF Serve, At, implv
<1>3. DOMAIN pc' = Proc /\ pc'[b] = "got" /\ \A q \in Proc : q # b => pc'[q] = pc[q]
  BY <1>1, <1>2, GotoEffect DEF Serve, Receive
<1>4. /\ Devices' /\ \A d : Registered(d)' <=> Registered(d)
      /\ \A v, a : OffAt(v, a)' <=> OffAt(v, a)
      /\ \A a : Off(a)' <=> Off(a)
  BY <1>1, <1>2, DevicesStay
<1>5. /\ pc'[Dev] = pc[Dev] /\ JobDriver' = JobDriver /\ JobMail' = JobMail
      /\ (Asking' <=> Asking) /\ (Asking => JobDriver \in Driver)
  BY <1>1, <1>2, <1>3 DEF JobDriver, JobMail, Asking, DevAsks, Devices, Entry
<1>6. CASE Wait(b, Anybody)
  <2>1. /\ sending' \subseteq Proc /\ waiting' \subseteq Proc /\ DOMAIN msg' = Proc
        /\ Dev \in sending => msg[Dev].receiver # b
        /\ b \notin sending' /\ b \in waiting' /\ msg'[b].sender = Anybody
        /\ \A q \in Proc : q # b => SameMail(q)
    BY <1>1, <1>2, <1>6, WaitEffect
  <2>2. (\A q \in Proc : q # b => Same(q)) /\ Same(Dev)
    BY <1>1, <1>2, <1>3, <2>1 DEF Same
  <2>3. \A a \in App : Await(a) => Await(a)'
    BY <2>2, Names DEF Await, Same, SameMail
  <2>4. \A d : IsAsked(d)' <=> IsAsked(d)
    BY <1>5, <2>2 DEF IsAsked, Same, SameMail
  <2>5. \A d \in Driver : \A a : PutBy(d, a) => PutBy(d, a)'
    BY <1>2, <1>4, <1>5, <2>2, Names DEF PutBy, Free, Replies, Same, SameMail
  <2>6. Shape' /\ WaitLists'
    BY <1>1, <1>2, <1>3, <2>1, <2>3, WaitListsStay DEF Shape
  <2>7. \A a \in App : Program(a)'
    BY <1>1, <1>2, <2>2, Names, ProgramStays
  <2>8. \A d \in Driver : DriverOK(d)'
    <3> SUFFICES ASSUME NEW d \in Driver PROVE DriverOK(d)'
      OBVIOUS
    <3>1. CASE d = b
      <4>1. DriverPlace(b)' /\ DriverSend(b)' /\ DriverWait(b)' /\ DriverGot(b)'
        BY <1>3, <2>1 DEF DriverPlace, DriverSend, DriverWait, DriverGot, Free
      <4>2. PutOff(b)'
        BY <1>1, <1>2, <2>5 DEF PutOff, Coming
      <4>3. QED
        BY <3>1, <4>1, <4>2 DEF DriverOK
    <3>2. CASE d # b
      <4>1. DriverOK(d) /\ Same(d)
        BY <1>1, <2>2, <3>2, Names DEF DriverOK
      <4>2. Dev \in sending => Dev \in sending' /\ msg'[Dev] = msg[Dev]
        BY <2>2 DEF Same, SameMail
      <4>3. QED
        BY <1>2, <1>4, <1>5, <2>4, <2>5, <4>1, <4>2, DriverStays
    <3>3. QED
      BY <3>1, <3>2
  <2>9. DevOK'
    <3>1. ~Holds(b) /\ ~Replies(b)
      BY <1>2 DEF Holds, Replies, Free
    <3>2. ~(b = JobDriver /\ IsAsked(b))
      BY <1>1, <3>1 DEF IsAsked, Asking, DevAsks
    <3>3. ~Updates(b, msg[Dev].body.app)'
      BY <2>1 DEF Updates
    <3>4. QED
      BY <1>2, <2>1, <2>2, <2>3, <3>2, <3>3, DevStays DEF Free
  <2>10. QED
    BY <1>4, <2>6, <2>7, <2>8, <2>9 DEF DevInv
<1>7. CASE \E s \in Proc : Take(b, s, Anybody)
  <2>1. /\ sending' \subseteq Proc /\ waiting' \subseteq Proc /\ DOMAIN msg' = Proc
        /\ Dev \in sending /\ msg[Dev].receiver = b
        /\ b \notin sending' /\ b \notin waiting' /\ Dev \notin sending' /\ msg'[b] = msg[Dev]
        /\ msg'[Dev] = msg[Dev] /\ (Dev \in waiting' <=> Dev \in waiting)
        /\ \A q \in Proc : q # b /\ q # Dev => SameMail(q)
    <3>1. PICK s \in Proc : Take(b, s, Anybody)
      BY <1>7
    <3>2. s \in sending /\ msg[s].receiver = b
      BY <1>1, <1>2, <3>1, TakeEffect
    <3>3. s = Dev
      <4>1. ASSUME s \in App PROVE msg[s].receiver = Dev
        <5>1. msg[s] = [sender |-> s, receiver |-> Dev, body |-> Mail(asked[s].type, asked[s].device, 0, 0)]
          BY <1>1, <3>2, <4>1 DEF Program
        <5>2. QED
          BY <5>1
      <4>2. s \in Driver => msg[s].receiver = Dev
        BY <1>1, <3>2 DEF DriverSend
      <4>3. QED
        BY <1>2, <3>2, <4>1, <4>2, Names
    <3>4. QED
      BY <1>1, <1>2, <3>1, <3>3, TakeEffect
  <2>2. /\ pc[Dev] = "ask" /\ JobDriver = b /\ msg[Dev].sender = Dev /\ msg[Dev].body = JobMail
        /\ Dev \notin waiting' /\ ~asked[job.app].done
    BY <1>1, <1>2, <1>5, <2>1, Names DEF DevSends, DevWaits, DevAsks, Asking
  <2>3. \A q \in Proc : q # b /\ q # Dev => Same(q)
    BY <1>3, <2>1 DEF Same
  <2>4. \A a \in App : Await(a) => Await(a)'
    BY <2>3, Names DEF Await, Same, SameMail
  <2>5. \A d \in Driver : (d # b => ~IsAsked(d)) /\ \A a : PutBy(d, a) => PutBy(d, a)'
    BY <1>2, <1>4, <2>2 DEF IsAsked, PutBy, Replies, Free
  <2>6. Shape' /\ WaitLists'
    BY <1>1, <1>2, <1>3, <2>1, <2>4, WaitListsStay DEF Shape
  <2>7. \A a \in App : Program(a)'
    BY <1>1, <1>2, <2>3, Names, ProgramStays
  <2>8. IsAsked(b)' /\ Holds(b)'
    BY <1>3, <1>5, <2>1, <2>2 DEF IsAsked, Holds, Free
  <2>9. \A d \in Driver : DriverOK(d)'
    <3> SUFFICES ASSUME NEW d \in Driver PROVE DriverOK(d)'
      OBVIOUS
    <3>1. CASE d = b
      <4>1. DriverPlace(b)' /\ DriverSend(b)' /\ DriverWait(b)' /\ DriverGot(b)'
        BY <1>2, <1>3, <1>5, <2>1, <2>2, <2>8 DEF DriverPlace, DriverSend, DriverWait, DriverGot
      <4>2. PutOff(b)'
        BY <1>1, <1>2, <2>5 DEF PutOff, Coming
      <4>3. QED
        BY <3>1, <4>1, <4>2 DEF DriverOK
    <3>2. CASE d # b
      <4>1. DriverOK(d) /\ Same(d)
        BY <1>1, <1>2, <2>3, <3>2, Names DEF DriverOK
      <4>2. QED
        BY <1>2, <1>4, <2>2, <2>5, <3>2, <4>1, DriverStays
    <3>3. QED
      BY <3>1, <3>2
  <2>10. DevOK'
    <3>1. DevAsks'
      BY <1>1, <1>2, <1>4, <1>5, <2>1, <2>2, <2>4, <2>8 DEF DevAsks, Asking
    <3>2. QED
      BY <1>5, <2>1, <2>2, <3>1 DEF DevOK, DevWaits, DevSends, DevHandles, DevPasses
  <2>11. QED
    BY <1>4, <2>6, <2>7, <2>9, <2>10 DEF DevInv
<1>8. QED
  BY <1>6, <1>7 DEF Serve, Receive

\* An interrupt wakes a driver for which the hardware is ready.
LEMMA ReadyKeeps ==
  ASSUME DevInv, NEW b \in Driver, Ready(b)
  PROVE  DevInv'
<1>1. /\ Shape /\ Devices /\ WaitLists
      /\ \A a \in App : Program(a)
      /\ \A d \in Driver : DriverPlace(d) /\ DriverSend(d) /\ DriverWait(d) /\ DriverGot(d) /\ PutOff(d)
      /\ DevWaits /\ DevSends /\ DevHandles /\ DevAsks /\ DevPasses
  BY InvParts
<1>2. /\ b \in Proc /\ Dev \in Proc /\ b # Dev
      /\ pc[b] = "got" /\ b \in waiting /\ put[b] # << >>
      /\ UNCHANGED <<impl_list, impl_free_list, job, put, asked, pc>>
  BY Names DEF Ready, implv
<1>3. /\ b \notin sending /\ sending' = sending /\ waiting' = waiting \ {b} /\ DOMAIN msg' = Proc
      /\ msg'[b].sender = Interrupt /\ \A q \in Proc : q # b => msg'[q] = msg[q]
  <2>1. msg[b].sender = Anybody
    BY <1>1, <1>2 DEF DriverWait
  <2>2. b \notin sending
    BY <1>2 DEF Ready, Signal
  <2>3. msg' = [msg EXCEPT ![b] = [@ EXCEPT !.sender = Interrupt, !.receiver = b, !.body = Nothing]]
    BY DEF Ready, Signal
  <2>4. msg'[b].sender = Interrupt
    BY <1>1, <1>2, <2>3 DEF Shape
  <2>5. QED
    BY <1>1, <1>2, <2>2, <2>3, <2>4 DEF Shape, Ready, Signal
<1>4. /\ Devices' /\ \A d : Registered(d)' <=> Registered(d)
      /\ \A v, a : OffAt(v, a)' <=> OffAt(v, a)
      /\ \A a : Off(a)' <=> Off(a)
  BY <1>1, <1>2, DevicesStay
<1>5. pc'[Dev] = pc[Dev] /\ JobDriver' = JobDriver /\ (Asking' <=> Asking) /\ (Asking => JobDriver \in Driver)
  BY <1>1, <1>2, <1>3 DEF JobDriver, Asking, DevAsks, Devices, Entry
<1>6. (\A q \in Proc : q # b => Same(q)) /\ Same(Dev)
  BY <1>2, <1>3 DEF Same, SameMail
<1>7. \A a \in App : Await(a) => Await(a)'
  BY <1>6, Names DEF Await, Same, SameMail
<1>8. \A d : IsAsked(d)' <=> IsAsked(d)
  BY <1>5, <1>6 DEF IsAsked, Same, SameMail
<1>9. \A d \in Driver : \A a : PutBy(d, a) => PutBy(d, a)'
  BY <1>2, <1>3, <1>4, <1>5, <1>6, Names DEF PutBy, Free, Replies, Same, SameMail
<1>10. Shape' /\ WaitLists'
  BY <1>1, <1>2, <1>3, <1>7, WaitListsStay DEF Shape
<1>11. \A a \in App : Program(a)'
  BY <1>1, <1>2, <1>6, Names, ProgramStays
<1>12. \A d \in Driver : DriverOK(d)'
  <2> SUFFICES ASSUME NEW d \in Driver PROVE DriverOK(d)'
    OBVIOUS
  <2>1. CASE d = b
    <3>1. DriverPlace(b)' /\ DriverSend(b)' /\ DriverWait(b)' /\ DriverGot(b)'
      BY <1>2, <1>3 DEF DriverPlace, DriverSend, DriverWait, DriverGot
    <3>2. PutOff(b)'
      BY <1>1, <1>2, <1>9 DEF PutOff, Coming
    <3>3. QED
      BY <2>1, <3>1, <3>2 DEF DriverOK
  <2>2. CASE d # b
    <3>1. DriverOK(d) /\ Same(d)
      BY <1>1, <1>6, <2>2, Names DEF DriverOK
    <3>2. Dev \in sending => Dev \in sending' /\ msg'[Dev] = msg[Dev]
      BY <1>6 DEF Same, SameMail
    <3>3. QED
      BY <1>2, <1>4, <1>5, <1>8, <1>9, <3>1, <3>2, DriverStays
  <2>3. QED
    BY <2>1, <2>2
<1>13. DevOK'
  <2>1. ~Holds(b) /\ ~Replies(b)
    BY <1>2, <1>3 DEF Holds, Replies, Free
  <2>2. ~(b = JobDriver /\ IsAsked(b))
    BY <1>1, <2>1 DEF IsAsked, Asking, DevAsks
  <2>3. ~Updates(b, msg[Dev].body.app)'
    BY <1>3 DEF Updates
  <2>4. Dev \in sending => msg[Dev].receiver # b \/ (pc[Dev] = "ask" /\ pc'[b] \notin {"start", "sent"})
    BY <1>1, <1>2, Names DEF DevSends
  <2>5. pc[Dev] = "handle" => ~(b \notin sending /\ (pc[b] = "sent" \/ (b \in waiting /\ pc[b] = "serve")))
    BY <1>2
  <2>6. QED
    BY <1>2, <1>6, <1>7, <2>2, <2>3, <2>4, <2>5, DevStays
<1>14. QED
  BY <1>4, <1>10, <1>11, <1>12, <1>13 DEF DevInv

\* A driver answers what it has been asked: TaskDEV, which awaits just this, gets
\* the answer at once, or will find it.
LEMMA AnswerKeeps ==
  ASSUME DevInv, NEW b \in Driver, Answer(b)
  PROVE  DevInv'
<1> DEFINE x == job.app
<1>1. /\ Shape /\ Devices /\ WaitLists
      /\ \A a \in App : Program(a)
      /\ \A d \in Driver : DriverPlace(d) /\ DriverSend(d) /\ DriverWait(d) /\ DriverGot(d) /\ PutOff(d)
      /\ DevWaits /\ DevSends /\ DevHandles /\ DevAsks /\ DevPasses
  BY InvParts
<1>2. /\ b \in Proc /\ Dev \in Proc /\ b # Dev
      /\ pc[b] = "got" /\ Free(b) /\ msg[b].sender = Dev /\ Dev # Interrupt
      /\ UNCHANGED <<impl_list, impl_free_list, job>>
  BY Names DEF Answer, At, implv
<1>3. DOMAIN pc' = Proc /\ pc'[b] = "serve" /\ \A q \in Proc : q # b => pc'[q] = pc[q]
  BY <1>1, <1>2, GotoEffect DEF Answer
<1>4. /\ IsAsked(b) /\ msg[b].body = JobMail /\ ~asked[x].done
      /\ Asking /\ JobDriver = b /\ Dev \notin sending
      /\ x \in App /\ Await(x) /\ ~Off(x)
  BY <1>1, <1>2 DEF DriverGot, IsAsked, Asking, DevAsks
<1>5. msg[b].body.app = x
  BY <1>4 DEF JobMail, Mail
<1>6. PICK st \in {DEV_STATUS_OK, DEV_STATUS_WAIT} :
        /\ Send(b, Dev, Mail(0, 0, st, x))
        /\ \/ st = DEV_STATUS_OK /\ asked' = [asked EXCEPT ![x].done = TRUE] /\ put' = put
           \/ st = DEV_STATUS_WAIT /\ asked' = asked /\ put' = [put EXCEPT ![b] = Append(@, x)]
  BY <1>5 DEF Answer
<1> DEFINE m == [sender |-> b, receiver |-> Dev, body |-> Mail(0, 0, st, x)]
<1>7. /\ sending' \subseteq Proc /\ waiting' \subseteq Proc /\ DOMAIN msg' = Proc
      /\ b \notin waiting' /\ msg'[b] = m
      /\ \A q \in Proc : q # b /\ q # Dev => SameMail(q)
      /\ Dev \in sending' <=> Dev \in sending
      /\ \/ Accepts(Dev, b) /\ b \notin sending' /\ Dev \notin waiting' /\ msg'[Dev] = m
         \/ ~Accepts(Dev, b) /\ b \in sending' /\ SameMail(Dev)
  BY <1>1, <1>2, <1>6, SendEffect
<1>8. /\ DOMAIN asked' = App /\ \A a \in App : a # x => asked'[a] = asked[a]
      /\ asked'[x].type = asked[x].type /\ asked'[x].device = asked[x].device
      /\ st = DEV_STATUS_OK => asked'[x] = [asked[x] EXCEPT !.done = TRUE] /\ asked'[x].done
      /\ st = DEV_STATUS_WAIT => asked'[x] = asked[x]
  <2>1. CASE st = DEV_STATUS_OK
    <3>1. asked[x] \in [type : {0, DEV_READ, DEV_OPEN}, device : Device, done : BOOLEAN]
      BY <1>1, <1>4 DEF Program
    <3>2. /\ DOMAIN asked' = App /\ \A a \in App : a # x => asked'[a] = asked[a]
          /\ asked'[x] = [asked[x] EXCEPT !.done = TRUE]
      BY <1>1, <1>4, <1>6, <2>1 DEF Shape
    <3>3. QED
      BY <2>1, <3>1, <3>2
  <2>2. CASE st = DEV_STATUS_WAIT
    BY <1>1, <1>4, <1>6, <2>2 DEF Shape
  <2>3. QED
    BY <2>1, <2>2
<1>9. /\ Devices' /\ \A d : Registered(d)' <=> Registered(d)
      /\ \A v, a : OffAt(v, a)' <=> OffAt(v, a)
      /\ \A a : Off(a)' <=> Off(a)
  BY <1>1, <1>2, DevicesStay
<1>10. /\ pc'[Dev] = pc[Dev] /\ JobDriver' = JobDriver /\ (Asking' <=> Asking) /\ job' = job /\ impl_list' = impl_list
  BY <1>2, <1>3 DEF JobDriver, Asking
<1>11. /\ Accepts(Dev, b) => pc[Dev] = "pass"
       /\ ~Accepts(Dev, b) => pc[Dev] = "ask"
  BY <1>1, <1>4 DEF Accepts, DevWaits, IsAsked
<1>12. \A q \in Proc : q # b /\ q # Dev => Same(q)
  BY <1>3, <1>7 DEF Same
<1>13. \A a \in App : Await(a) => Await(a)'
  BY <1>12, Names DEF Await, Same, SameMail
<1>14. ~PutBy(b, x) /\ \A d \in Driver : d # b => ~PutBy(d, x)
  BY <1>2, <1>4 DEF PutBy, Off, Free, IsAsked, Replies
<1>15. \A d \in Driver : \A a : PutBy(d, a) => PutBy(d, a)'
  <2>1. \A d \in Driver : \A a : PutBy(d, a) => \E v \in Device : impl_list[v].PID = d /\ OffAt(v, a)
    BY <1>2, <1>4 DEF PutBy, Free, IsAsked, Replies
  <2>2. QED
    BY <1>9, <1>10, <2>1 DEF PutBy
<1>16. st = DEV_STATUS_WAIT => PutBy(b, x)'
  <2> SUFFICES ASSUME st = DEV_STATUS_WAIT PROVE PutBy(b, x)'
    OBVIOUS
  <2>1. CASE Accepts(Dev, b)
    BY <1>4, <1>7, <1>10, <1>11, <2>1 DEF PutBy, Free, Mail
  <2>2. CASE ~Accepts(Dev, b)
    BY <1>4, <1>7, <1>10, <1>11, <2>2 DEF PutBy, Replies, Mail
  <2>3. QED
    BY <2>1, <2>2
<1>17. Shape' /\ WaitLists'
  <2>1. DOMAIN put' = Driver
    BY <1>1, <1>6 DEF Shape
  <2>2. QED
    BY <1>1, <1>2, <1>3, <1>7, <1>8, <1>13, <2>1, WaitListsStay DEF Shape
<1>18. \A a \in App : Program(a)'
  <2> SUFFICES ASSUME NEW a \in App PROVE Program(a)'
    OBVIOUS
  <2>1. Program(a) /\ Same(a)
    BY <1>1, <1>2, <1>12, Names
  <2>2. QED
    BY <1>4, <1>8, <2>1, ProgramStays
<1>19. Told(m)'
  BY <1>8, <1>10 DEF Told, Mail
<1>20. \A d \in Driver : DriverOK(d)'
  <2> SUFFICES ASSUME NEW d \in Driver PROVE DriverOK(d)'
    OBVIOUS
  <2>1. CASE d = b
    <3>1. DriverPlace(b)' /\ DriverWait(b)' /\ DriverGot(b)'
      BY <1>3, <1>7 DEF DriverPlace, DriverWait, DriverGot
    <3>2. DriverSend(b)'
      <4> SUFFICES ASSUME b \in sending' PROVE DriverSend(b)'
        BY DEF DriverSend
      <4>1. ~Accepts(Dev, b) /\ pc'[Dev] = "ask" /\ Dev \notin sending'
        BY <1>4, <1>7, <1>10, <1>11
      <4>2. QED
        BY <1>3, <1>4, <1>7, <1>10, <1>19, <4>1 DEF DriverSend, IsAsked, Mail
    <3>3. PutOff(b)'
      <4>1. PutOff(b) /\ put[b] \in Seq(App)
        BY <1>1 DEF PutOff
      <4>2. \A i \in 1 .. Len(put[b]) : put[b][i] # x /\ put[b][i] \in App
        BY <1>14, <4>1 DEF PutOff, Coming
      <4>3. CASE st = DEV_STATUS_OK
        BY <1>6, <1>8, <1>15, <4>1, <4>2, <4>3 DEF PutOff, Coming
      <4>4. CASE st = DEV_STATUS_WAIT
        <5>1. put'[b] = Append(put[b], x) /\ asked' = asked
          BY <1>1, <1>6, <4>4 DEF Shape
        <5>2. /\ put'[b] \in Seq(App) /\ Len(put'[b]) = Len(put[b]) + 1
              /\ \A i \in 1 .. Len(put[b]) + 1 : put'[b][i] = IF i = Len(put[b]) + 1 THEN x ELSE put[b][i]
          BY <1>4, <4>1, <5>1, AppendProperties, LenProperties
        <5>3. Len(put[b]) \in Nat
          BY <4>1, LenProperties
        <5>4. ASSUME NEW i \in 1 .. Len(put[b]) + 1 PROVE Coming(b, i)'
          <6>1. CASE i = Len(put[b]) + 1
            BY <1>4, <1>10, <1>16, <4>4, <5>1, <5>2, <6>1 DEF Coming
          <6>2. CASE i # Len(put[b]) + 1
            <7>1. i \in 1 .. Len(put[b]) /\ put'[b][i] = put[b][i]
              BY <5>2, <5>3, <6>2
            <7>2. QED
              BY <1>15, <4>1, <5>1, <7>1 DEF PutOff, Coming
          <6>3. QED
            BY <6>1, <6>2
        <5>5. \A i, j \in 1 .. Len(put[b]) + 1 : put'[b][i] = put'[b][j] => i = j
          BY <4>1, <4>2, <5>2, <5>3 DEF PutOff
        <5>6. QED
          BY <5>2, <5>4, <5>5 DEF PutOff
      <4>5. QED
        BY <4>3, <4>4
    <3>4. QED
      BY <2>1, <3>1, <3>2, <3>3 DEF DriverOK
  <2>2. CASE d # b
    <3>1. DriverOK(d) /\ Same(d) /\ put'[d] = put[d]
      BY <1>1, <1>6, <1>12, <2>2, Names DEF DriverOK, Shape
    <3>2. ~IsAsked(d) /\ ~PutBy(d, x)
      BY <1>4, <1>14, <2>2 DEF IsAsked
    <3>3. QED
      BY <1>4, <1>8, <1>9, <1>15, <3>1, <3>2, DriverStays
  <2>3. QED
    BY <2>1, <2>2
<1>21. DevOK'
  <2>1. CASE ~Accepts(Dev, b)
    <3>1. Same(Dev) /\ \A p \in Proc : p # b => Same(p)
      BY <1>2, <1>7, <1>10, <1>12, <2>1 DEF Same
    <3>2. pc[Dev] = "ask" /\ Replies(b)'
      BY <1>7, <1>11, <2>1 DEF Replies, Mail
    <3>3. \A a \in App : Await(a) =>
           /\ Await(a)' /\ asked'[a].type = asked[a].type /\ asked'[a].device = asked[a].device
           /\ asked[a].done => asked'[a].done
           /\ asked'[a] = asked[a] \/ Off(a) \/ (Asking /\ Dev \notin sending /\ job.app = a)
      BY <1>4, <1>8, <1>13
    <3>4. QED
      BY <1>2, <1>4, <3>1, <3>2, <3>3, DevStays
  <2>2. CASE Accepts(Dev, b)
    <3>1. pc'[Dev] = "pass" /\ Dev \notin waiting' /\ Dev \notin sending' /\ msg'[Dev] = m
      BY <1>4, <1>7, <1>10, <1>11, <2>2
    <3>2. DevAsks' /\ DevPasses'
      BY <1>1, <1>2, <1>4, <1>9, <1>10, <1>13, <1>19, <3>1 DEF DevAsks, DevPasses, Asking, IsAsked
    <3>3. QED
      BY <3>1, <3>2 DEF DevOK, DevWaits, DevSends, DevHandles
  <2>3. QED
    BY <2>1, <2>2
<1>22. QED
  BY <1>9, <1>17, <1>18, <1>20, <1>21 DEF DevInv

\* A driver tells TaskDEV that a request it has put off is done.
LEMMA UpdateKeeps ==
  ASSUME DevInv, NEW b \in Driver, Update(b)
  PROVE  DevInv'
<1>1. /\ Shape /\ Devices /\ WaitLists
      /\ \A a \in App : Program(a)
      /\ \A d \in Driver : DriverPlace(d) /\ DriverSend(d) /\ DriverWait(d) /\ DriverGot(d) /\ PutOff(d)
      /\ DevWaits /\ DevSends /\ DevHandles /\ DevAsks /\ DevPasses
  BY InvParts
<1>2. /\ b \in Proc /\ Dev \in Proc /\ b # Dev
      /\ pc[b] = "got" /\ Free(b) /\ msg[b].sender = Interrupt /\ Dev # Interrupt
      /\ UNCHANGED <<impl_list, impl_free_list, job>>
  BY Names DEF Update, At, implv
<1>3. DOMAIN pc' = Proc /\ pc'[b] = "serve" /\ \A q \in Proc : q # b => pc'[q] = pc[q]
  BY <1>1, <1>2, GotoEffect DEF Update
<1>4. put[b] # << >> /\ put[b] \in Seq(App) /\ ~Holds(b)
  BY <1>1, <1>2 DEF DriverGot, Holds, PutOff
<1>5. /\ Len(put[b]) \in Nat /\ Len(put[b]) > 0
      /\ Tail(put[b]) \in Seq(App) /\ Len(Tail(put[b])) = Len(put[b]) - 1
      /\ \A i \in 1 .. Len(put[b]) - 1 : Tail(put[b])[i] = put[b][i + 1]
      /\ Head(put[b]) = put[b][1] /\ put[b][1] \in App
  BY <1>4
<1>6. PICK x \in App : x = put[b][1]
  BY <1>5
<1> DEFINE m == [sender |-> b, receiver |-> Dev, body |-> Mail(DEV_UPD, 0, DEV_STATUS_OK, x)]
<1>7. /\ Send(b, Dev, Mail(DEV_UPD, 0, DEV_STATUS_OK, x))
      /\ asked' = [asked EXCEPT ![x].done = TRUE]
      /\ put' = [put EXCEPT ![b] = Tail(@)]
  BY <1>5, <1>6 DEF Update
<1>8. /\ sending' \subseteq Proc /\ waiting' \subseteq Proc /\ DOMAIN msg' = Proc
      /\ b \notin waiting' /\ msg'[b] = m
      /\ \A q \in Proc : q # b /\ q # Dev => SameMail(q)
      /\ Dev \in sending' <=> Dev \in sending
      /\ \/ Accepts(Dev, b) /\ b \notin sending' /\ Dev \notin waiting' /\ msg'[Dev] = m
         \/ ~Accepts(Dev, b) /\ b \in sending' /\ SameMail(Dev)
  BY <1>1, <1>2, <1>7, SendEffect
<1>9. ~asked[x].done /\ PutBy(b, x) /\ Await(x) /\ \A d \in Driver : d # b => ~PutBy(d, x)
  <2>1. Coming(b, 1)
    BY <1>1, <1>5 DEF PutOff
  <2>2. ~asked[x].done /\ PutBy(b, x)
    BY <1>6, <2>1 DEF Coming
  <2>3. QED
    BY <1>1, <2>2, PutByAwaits, OneDriver
<1>10. /\ DOMAIN asked' = App /\ \A a \in App : a # x => asked'[a] = asked[a]
       /\ asked'[x] = [asked[x] EXCEPT !.done = TRUE]
       /\ asked'[x].type = asked[x].type /\ asked'[x].device = asked[x].device /\ asked'[x].done
  <2>1. asked[x] \in [type : {0, DEV_READ, DEV_OPEN}, device : Device, done : BOOLEAN]
    BY <1>1 DEF Program
  <2>2. /\ DOMAIN asked' = App /\ \A a \in App : a # x => asked'[a] = asked[a]
        /\ asked'[x] = [asked[x] EXCEPT !.done = TRUE]
    BY <1>1, <1>7 DEF Shape
  <2>3. QED
    BY <2>1, <2>2
<1>11. /\ Devices' /\ \A d : Registered(d)' <=> Registered(d)
       /\ \A v, a : OffAt(v, a)' <=> OffAt(v, a)
       /\ \A a : Off(a)' <=> Off(a)
  BY <1>1, <1>2, DevicesStay
<1>12. /\ pc'[Dev] = pc[Dev] /\ JobDriver' = JobDriver /\ (Asking' <=> Asking) /\ job' = job /\ impl_list' = impl_list
       /\ Asking => JobDriver \in Driver
  BY <1>1, <1>2, <1>3 DEF JobDriver, Asking, DevAsks, Devices, Entry
<1>13. ~(JobDriver = b /\ IsAsked(b))
  BY <1>1, <1>2, <1>4 DEF IsAsked, Asking, DevAsks, Replies, Free
<1>14. Accepts(Dev, b) => pc[Dev] = "handle" /\ Dev \notin sending
  BY <1>1, <1>2, <1>12, <1>13, Names DEF Accepts, DevWaits, Asking, IsAsked
<1>15. \A q \in Proc : q # b /\ q # Dev => Same(q)
  BY <1>3, <1>8 DEF Same
<1>16. \A a \in App : Await(a) => Await(a)'
  BY <1>15, Names DEF Await, Same, SameMail
<1>17. \A d \in Driver : \A a : PutBy(d, a) => PutBy(d, a)'
  <2> SUFFICES ASSUME NEW d \in Driver, NEW a, PutBy(d, a) PROVE PutBy(d, a)'
    OBVIOUS
  <2>1. pc[Dev] = "handle" \/ SameMail(Dev)
    BY <1>8, <1>14
  <2>2. d = b \/ Same(d)
    BY <1>15, Names
  <2>3. QED
    BY <1>2, <1>11, <1>12, <2>1, <2>2 DEF PutBy, Asking, Replies, SameMail, Same, Free
<1>18. \A d \in Driver : IsAsked(d) => IsAsked(d)'
  BY <1>8, <1>12, <1>14 DEF IsAsked, SameMail
<1>19. Asking /\ job.app = x => JobDriver = b /\ pc[Dev] = "pass" /\ Free(Dev)
  BY <1>1, <1>2, <1>9 DEF PutBy, DevAsks, Off, Replies, Free
<1>20. Shape' /\ WaitLists'
  <2>1. DOMAIN put' = Driver
    BY <1>1, <1>7 DEF Shape
  <2>2. QED
    BY <1>1, <1>2, <1>3, <1>8, <1>10, <1>16, <2>1, WaitListsStay DEF Shape
<1>21. \A a \in App : Program(a)'
  <2> SUFFICES ASSUME NEW a \in App PROVE Program(a)'
    OBVIOUS
  <2>1. Program(a) /\ Same(a)
    BY <1>1, <1>2, <1>15, Names
  <2>2. QED
    BY <1>9, <1>10, <2>1, ProgramStays
<1>22. IsUpdate(m, b)'
  BY <1>9, <1>10, <1>17 DEF IsUpdate, Mail
<1>23. \A d \in Driver : DriverOK(d)'
  <2> SUFFICES ASSUME NEW d \in Driver PROVE DriverOK(d)'
    OBVIOUS
  <2>1. CASE d = b
    <3>1. DriverPlace(b)' /\ DriverWait(b)' /\ DriverGot(b)'
      BY <1>3, <1>8 DEF DriverPlace, DriverWait, DriverGot
    <3>2. DriverSend(b)'
      BY <1>3, <1>8, <1>22 DEF DriverSend, Mail
    <3>3. PutOff(b)'
      <4>1. put'[b] = Tail(put[b])
        BY <1>1, <1>7 DEF Shape
      <4>2. \A i, j \in 1 .. Len(put[b]) : put[b][i] = put[b][j] => i = j
        BY <1>1 DEF PutOff
      <4>3. \A i, j \in 1 .. Len(put'[b]) : put'[b][i] = put'[b][j] => i = j
        BY <1>5, <4>1, <4>2
      <4>4. ASSUME NEW i \in 1 .. Len(put'[b]) PROVE Coming(b, i)'
        <5> DEFINE q == put[b]
        <5> DEFINE n == Len(q)
        <5>6. /\ n \in Nat /\ n > 0 /\ Len(put'[b]) = n - 1
              /\ \A k \in 1 .. n - 1 : put'[b][k] = q[k + 1]
              /\ q[1] = x /\ \A k, l \in 1 .. n : q[k] = q[l] => k = l
          BY <1>5, <1>6, <4>1, <4>2
        <5> HIDE DEF q, n
        <5>7. i \in 1 .. n - 1 /\ 1 \in 1 .. n /\ i + 1 \in 1 .. n /\ i + 1 # 1
          <6>1. i \in 1 .. n - 1
            BY <5>6
          <6>2. QED
            BY <5>6, <6>1
        <5>8. put'[b][i] = q[i + 1] /\ q[i + 1] # x
          BY <5>6, <5>7
        <5>1. i + 1 \in 1 .. Len(put[b]) /\ put'[b][i] = put[b][i + 1] /\ put[b][i + 1] # x
          BY <5>7, <5>8 DEF q, n
        <5>2. Coming(b, i + 1) /\ put[b][i + 1] \in App
          BY <1>1, <1>4, <5>1 DEF PutOff
        <5>3. QED
          BY <1>10, <1>17, <5>1, <5>2 DEF Coming
      <4>5. QED
        BY <1>5, <4>1, <4>3, <4>4 DEF PutOff
    <3>4. QED
      BY <2>1, <3>1, <3>2, <3>3 DEF DriverOK
  <2>2. CASE d # b
    <3>1. DriverOK(d) /\ Same(d) /\ put'[d] = put[d]
      BY <1>1, <1>7, <1>15, <2>2, Names DEF DriverOK, Shape
    <3>2. ~PutBy(d, x) /\ (IsAsked(d) => job.app # x /\ job.app \in App)
      BY <1>1, <1>9, <1>19, <2>2 DEF IsAsked, DevAsks, Asking
    <3>3. Dev \in sending => Dev \in sending' /\ msg'[Dev] = msg[Dev]
      BY <1>8, <1>14 DEF SameMail
    <3>4. QED
      BY <1>10, <1>11, <1>12, <1>17, <1>18, <3>1, <3>2, <3>3, DriverStays
  <2>3. QED
    BY <2>1, <2>2
<1>24. DevOK'
  <2>1. CASE ~Accepts(Dev, b)
    <3>1. Same(Dev) /\ \A p \in Proc : p # b => Same(p)
      BY <1>2, <1>8, <1>12, <1>15, <2>1 DEF Same
    <3>2. \A a \in App : Await(a) =>
           /\ Await(a)' /\ asked'[a].type = asked[a].type /\ asked'[a].device = asked[a].device
           /\ asked[a].done => asked'[a].done
           /\ asked'[a] = asked[a] \/ Off(a) \/ (Asking /\ Dev \notin sending /\ job.app = a)
      <4>1. Off(x) \/ (Asking /\ Dev \notin sending /\ job.app = x)
        BY <1>2, <1>9 DEF PutBy, Off, Replies, Free
      <4>2. QED
        BY <1>9, <1>10, <1>16, <4>1
    <3>3. Dev \in sending => msg[Dev].receiver # b \/ (pc[Dev] = "ask" /\ pc'[b] \notin {"start", "sent"})
      BY <1>1, <1>2, <1>3, Names DEF DevSends
    <3>4. ~(b \notin sending /\ (pc[b] = "sent" \/ (b \in waiting /\ pc[b] = "serve")))
      BY <1>2
    <3>5. asked[msg[Dev].body.app].done => ~Updates(b, msg[Dev].body.app)'
      <4>1. Updates(b, msg[Dev].body.app)' => msg[Dev].body.app = x
        BY <1>8, <2>1 DEF Updates, Mail, SameMail
      <4>2. QED
        BY <1>9, <4>1
    <3>6. QED
      BY <1>2, <1>13, <3>1, <3>2, <3>3, <3>4, <3>5, DevStays
  <2>2. CASE Accepts(Dev, b)
    <3>1. pc'[Dev] = "handle" /\ Dev \notin waiting' /\ Dev \notin sending' /\ msg'[Dev] = m /\ b \notin sending'
      BY <1>8, <1>12, <1>14, <2>2
    <3>2. DevHandles'
      BY <1>22, <3>1 DEF DevHandles, Updates
    <3>3. QED
      BY <3>1, <3>2 DEF DevOK, DevWaits, DevSends, DevAsks, DevPasses, Asking
  <2>3. QED
    BY <2>1, <2>2
<1>25. QED
  BY <1>11, <1>20, <1>21, <1>23, <1>24 DEF DevInv

\* TaskDEV takes what somebody sends it.
LEMMA DevTakeKeeps ==
  ASSUME DevInv, NEW s \in Proc, DevTake(s)
  PROVE  DevInv'
<1>1. /\ Shape /\ Devices /\ WaitLists
      /\ \A a \in App : Program(a)
      /\ \A d \in Driver : DriverPlace(d) /\ DriverSend(d) /\ DriverWait(d) /\ DriverGot(d) /\ PutOff(d)
      /\ DevWaits /\ DevSends /\ DevHandles /\ DevAsks /\ DevPasses
  BY InvParts
<1>2. /\ Dev \in Proc /\ pc[Dev] = "recv" /\ Free(Dev)
      /\ UNCHANGED <<impl_list, impl_free_list, job, put, asked>>
  BY Names DEF DevTake, Receiving, At, implv
<1>3. DOMAIN pc' = Proc /\ pc'[Dev] = "handle" /\ \A q \in Proc : q # Dev => pc'[q] = pc[q]
  BY <1>1, <1>2, GotoEffect DEF DevTake, Receiving
<1>4. /\ sending' \subseteq Proc /\ waiting' \subseteq Proc /\ DOMAIN msg' = Proc
      /\ s # Dev /\ s \in sending /\ msg[s].receiver = Dev
      /\ Dev \notin sending' /\ Dev \notin waiting' /\ s \notin sending' /\ msg'[Dev] = msg[s]
      /\ msg'[s] = msg[s] /\ (s \in waiting' <=> s \in waiting)
      /\ \A q \in Proc : q # Dev /\ q # s => SameMail(q)
  BY <1>1, <1>2, TakeEffect DEF DevTake, Receiving
<1>5. /\ Devices' /\ \A d : Registered(d)' <=> Registered(d)
      /\ \A v, a : OffAt(v, a)' <=> OffAt(v, a)
      /\ \A a : Off(a)' <=> Off(a)
  BY <1>1, <1>2, DevicesStay
<1>6. (\A q \in Proc : q # s /\ q # Dev => Same(q)) /\ pc'[s] = pc[s]
  BY <1>3, <1>4 DEF Same
<1>7. \A a \in App : Await(a) => a # s /\ Await(a)'
  BY <1>4, <1>6, Names DEF Await, Same, SameMail
<1>8. \A d : ~IsAsked(d) /\ \A a : PutBy(d, a)' <=> PutBy(d, a)
  BY <1>2, <1>3, <1>5 DEF IsAsked, PutBy, Asking
<1>9. Shape' /\ WaitLists'
  BY <1>1, <1>2, <1>3, <1>4, <1>7, WaitListsStay DEF Shape
<1>10. \A a \in App : Program(a)'
  <2> SUFFICES ASSUME NEW a \in App PROVE Program(a)'
    OBVIOUS
  <2>1. CASE a = s
    BY <1>1, <1>2, <1>4, <1>6, <2>1 DEF Program
  <2>2. CASE a # s
    BY <1>1, <1>2, <1>6, <2>2, Names, ProgramStays
  <2>3. QED
    BY <2>1, <2>2
<1>11. \A d \in Driver : DriverOK(d)'
  <2> SUFFICES ASSUME NEW d \in Driver PROVE DriverOK(d)'
    OBVIOUS
  <2>1. CASE d = s
    <3>1. d \notin waiting' /\ d \notin sending' /\ pc[d] \in {"sent", "serve"}
      BY <1>1, <1>4, <2>1 DEF DriverSend
    <3>2. DriverPlace(d)' /\ DriverSend(d)' /\ DriverWait(d)' /\ DriverGot(d)'
      BY <1>1, <1>2, <1>5, <1>6, <2>1, <3>1 DEF DriverPlace, DriverSend, DriverWait, DriverGot, Free
    <3>3. PutOff(d)'
      BY <1>1, <1>2, <1>8 DEF PutOff, Coming
    <3>4. QED
      BY <3>2, <3>3 DEF DriverOK
  <2>2. CASE d # s
    <3>1. DriverOK(d) /\ Same(d) /\ Dev \notin sending
      BY <1>1, <1>2, <1>6, <2>2, Names DEF DriverOK, Free
    <3>2. QED
      BY <1>2, <1>5, <1>8, <3>1, DriverStays
  <2>3. QED
    BY <2>1, <2>2
<1>12. DevOK'
  <2>1. CASE s \in App
    <3>1. /\ pc[s] = "sent" /\ ~asked[s].done /\ asked[s].type # 0
          /\ msg[s] = [sender |-> s, receiver |-> Dev, body |-> Mail(asked[s].type, asked[s].device, 0, 0)]
      BY <1>1, <1>4, <2>1 DEF Program
    <3>2. Await(s)' /\ ~Off(s)'
      BY <1>1, <1>4, <1>5, <1>6, <2>1, <3>1 DEF Await, WaitLists
    <3>3. msg[s].sender = s /\ msg[s].body = Mail(asked[s].type, asked[s].device, 0, 0)
      BY <3>1
    <3>4. DevHandles'
      BY <1>2, <1>4, <2>1, <3>1, <3>2, <3>3 DEF DevHandles
    <3>5. QED
      BY <1>3, <1>4, <3>4 DEF DevOK, DevWaits, DevSends, DevAsks, DevPasses, Asking
  <2>2. CASE s \in Driver
    <3>1. DevHandles'
      <4>1. msg[s].sender = s /\ s \notin waiting
        BY <1>1, <1>4, <2>2 DEF DriverSend
      <4>2. CASE pc[s] = "sent" /\ msg[s].body.type = DEV_REG /\ ~Registered(s)
        BY <1>4, <1>5, <1>6, <2>2, <4>1, <4>2 DEF DevHandles
      <4>3. CASE IsUpdate(msg[s], s)
        BY <1>2, <1>4, <1>8, <2>2, <4>1, <4>3 DEF DevHandles, IsUpdate, Updates
      <4>4. QED
        BY <1>1, <1>4, <1>8, <2>2, <4>2, <4>3 DEF DriverSend
    <3>2. QED
      BY <1>3, <1>4, <3>1 DEF DevOK, DevWaits, DevSends, DevAsks, DevPasses, Asking
  <2>3. QED
    BY <1>4, <2>1, <2>2, Names
<1>13. QED
  BY <1>5, <1>9, <1>10, <1>11, <1>12 DEF DevInv

LEMMA DevWaitKeeps ==
  ASSUME DevInv, DevWait
  PROVE  DevInv'
<1>1. /\ Shape /\ Devices /\ WaitLists
      /\ \A a \in App : Program(a)
      /\ \A d \in Driver : DriverPlace(d) /\ DriverSend(d) /\ DriverWait(d) /\ DriverGot(d) /\ PutOff(d)
  BY InvParts
<1>2. /\ Dev \in Proc /\ pc[Dev] = "recv" /\ Free(Dev)
      /\ UNCHANGED <<impl_list, impl_free_list, job, put, asked>>
  BY Names DEF DevWait, Receiving, At, implv
<1>3. DOMAIN pc' = Proc /\ pc'[Dev] = "handle" /\ \A q \in Proc : q # Dev => pc'[q] = pc[q]
  BY <1>1, <1>2, GotoEffect DEF DevWait, Receiving
<1>4. /\ sending' \subseteq Proc /\ waiting' \subseteq Proc /\ DOMAIN msg' = Proc
      /\ Dev \notin sending' /\ Dev \in waiting' /\ msg'[Dev].sender = Anybody
      /\ \A q \in Proc : q # Dev => SameMail(q)
  BY <1>1, <1>2, WaitEffect DEF DevWait, Receiving
<1>5. /\ Devices' /\ \A d : Registered(d)' <=> Registered(d)
      /\ \A v, a : OffAt(v, a)' <=> OffAt(v, a)
  BY <1>1, <1>2, DevicesStay
<1>6. \A q \in Proc : q # Dev => Same(q)
  BY <1>3, <1>4 DEF Same
<1>7. \A a \in App : Await(a) => Await(a)'
  BY <1>6, Names DEF Await, Same, SameMail
<1>8. \A d : ~IsAsked(d) /\ \A a : PutBy(d, a)' <=> PutBy(d, a)
  BY <1>2, <1>3, <1>5 DEF IsAsked, PutBy, Asking
<1>9. Shape' /\ WaitLists'
  BY <1>1, <1>2, <1>3, <1>4, <1>7, WaitListsStay DEF Shape
<1>10. \A a \in App : Program(a)'
  BY <1>1, <1>2, <1>6, Names, ProgramStays
<1>11. \A d \in Driver : DriverOK(d)'
  <2> SUFFICES ASSUME NEW d \in Driver PROVE DriverOK(d)'
    OBVIOUS
  <2>1. DriverOK(d) /\ Same(d) /\ Dev \notin sending
    BY <1>1, <1>2, <1>6, Names DEF DriverOK, Free
  <2>2. QED
    BY <1>2, <1>5, <1>8, <2>1, DriverStays
<1>12. DevOK'
  BY <1>3, <1>4 DEF DevOK, DevWaits, DevSends, DevHandles, DevAsks, DevPasses, Asking
<1>13. QED
  BY <1>5, <1>9, <1>10, <1>11, <1>12 DEF DevInv

\* TaskDEV passes a request to the driver of the device, or refuses or drops it.
LEMMA PassOnKeeps ==
  ASSUME DevInv, PassOn
  PROVE  DevInv'
<1>1. /\ Shape /\ Devices /\ WaitLists
      /\ \A a \in App : Program(a)
      /\ \A d \in Driver : DriverPlace(d) /\ DriverSend(d) /\ DriverWait(d) /\ DriverGot(d) /\ PutOff(d)
      /\ DevWaits /\ DevSends /\ DevHandles /\ DevAsks /\ DevPasses
  BY InvParts
<1>2. /\ Dev \in Proc /\ pc[Dev] = "handle" /\ Free(Dev) /\ msg[Dev].body.type \in {DEV_READ, DEV_OPEN}
      /\ UNCHANGED <<impl_list, impl_free_list, put, asked>>
  BY Names DEF PassOn, Handling, At, implv
<1>3. PICK p \in App : /\ p = msg[Dev].sender /\ Await(p) /\ ~Off(p) /\ ~asked[p].done /\ asked[p].type # 0
                      /\ msg[Dev].body = Mail(asked[p].type, asked[p].device, 0, 0)
  <2>1. Dev \notin waiting
    BY <1>2 DEF Free
  <2>2. ~IsUpdate(msg[Dev], msg[Dev].sender)
    BY <1>2 DEF IsUpdate, Mail
  <2>3. QED
    BY <1>1, <1>2, <2>1, <2>2 DEF DevHandles
<1>4. PICK v \in Device : /\ v = asked[p].device /\ msg[Dev].body.type = asked[p].type /\ msg[Dev].body.major = v
                         /\ asked[p].type \in {DEV_READ, DEV_OPEN}
  <2>1. asked[p] \in [type : {0, DEV_READ, DEV_OPEN}, device : Device, done : BOOLEAN]
    BY <1>1, <1>3 DEF Program
  <2>2. QED
    BY <1>3, <2>1 DEF Mail
<1>5. PICK e : e = impl_list[v].PID
  OBVIOUS
<1>6. /\ Devices' /\ \A d : Registered(d)' <=> Registered(d)
      /\ \A w, a : OffAt(w, a)' <=> OffAt(w, a)
      /\ \A a : Off(a)' <=> Off(a)
  BY <1>1, <1>2, DevicesStay
<1>7. \A d : ~IsAsked(d) /\ \A a : PutBy(d, a) => PutBy(d, a)'
  BY <1>2, <1>6 DEF IsAsked, PutBy, Asking
<1>8. CASE impl_list[v].InUse /\ e # 0 /\ impl_list[v].Has_Permission
  <2> DEFINE m == [sender |-> Dev, receiver |-> e, body |-> Mail(asked[p].type, v, 0, p)]
  <2>1. /\ job' = [app |-> p, type |-> asked[p].type, device |-> v]
        /\ Goto(Dev, "ask") /\ Send(Dev, e, Mail(asked[p].type, v, 0, p))
    BY <1>3, <1>4, <1>5, <1>8 DEF PassOn, Implemented, Denied, Forward
  <2>2. v < impl_free_list /\ e \in Driver /\ Registered(e)
    <3>1. v < impl_free_list
      <4>1. impl_free_list \in Nat /\ v \in Nat /\ Entry(v)
        BY <1>1, <1>4 DEF Devices, Device
      <4>2. v >= impl_free_list => ~impl_list[v].InUse
        BY <4>1 DEF Entry, Unused
      <4>3. QED
        BY <1>8, <4>1, <4>2
    <3>2. QED
      BY <1>1, <1>5, <3>1 DEF Devices, Entry, Registered
  <2>3. DOMAIN pc' = Proc /\ pc'[Dev] = "ask" /\ \A q \in Proc : q # Dev => pc'[q] = pc[q]
    BY <1>1, <1>2, <2>1, GotoEffect
  <2>4. e \in Proc /\ e # Dev
    BY <2>2, Names
  <2>5. /\ sending' \subseteq Proc /\ waiting' \subseteq Proc /\ DOMAIN msg' = Proc
        /\ Dev \notin waiting' /\ msg'[Dev] = m
        /\ \A q \in Proc : q # Dev /\ q # e => SameMail(q)
        /\ e \in sending' <=> e \in sending
        /\ \/ /\ Accepts(e, Dev)
              /\ Dev \notin sending' /\ e \notin waiting' /\ msg'[e] = m
           \/ ~Accepts(e, Dev) /\ Dev \in sending' /\ SameMail(e)
    BY <1>1, <1>2, <2>1, <2>4, SendEffect
  <2>6. \A q \in Proc : q # Dev /\ q # e => Same(q)
    BY <2>3, <2>5 DEF Same
  <2>7. job'.app = p /\ job'.type = asked[p].type /\ job'.device = v /\ JobDriver' = e /\ JobMail' = Mail(asked[p].type, v, 0, p)
    BY <1>2, <1>5, <2>1 DEF JobDriver, JobMail
  <2>8. pc[e] \notin {"start", "sent"} /\ (e \in waiting => pc[e] = "got" /\ e \notin sending)
    BY <1>1, <1>2, <2>2 DEF DriverPlace, DriverWait, DriverSend, Free
  <2>9. \A a \in App : Await(a) => Await(a)'
    BY <2>2, <2>6, Names DEF Await, Same, SameMail
  <2>10. Shape' /\ WaitLists'
    BY <1>1, <1>2, <2>3, <2>5, <2>9, WaitListsStay DEF Shape
  <2>11. \A a \in App : Program(a)'
    BY <1>1, <1>2, <2>2, <2>6, Names, ProgramStays
  <2>12. IsAsked(e)' <=> Dev \notin sending'
    BY <2>3, <2>7 DEF IsAsked
  <2>13. \A d \in Driver : DriverOK(d)'
    <3> SUFFICES ASSUME NEW d \in Driver PROVE DriverOK(d)'
      OBVIOUS
    <3>1. CASE d = e /\ Accepts(e, Dev)
      <4>1. pc'[e] = "got" /\ e \notin sending' /\ e \notin waiting' /\ Dev \notin sending'
        BY <2>3, <2>4, <2>5, <2>8, <3>1 DEF Accepts
      <4>2. msg'[e].sender = Dev /\ msg'[e].body = JobMail' /\ ~asked'[job'.app].done
        BY <1>2, <1>3, <2>5, <2>7, <3>1
      <4>3. DriverPlace(e)' /\ DriverSend(e)' /\ DriverWait(e)' /\ DriverGot(e)'
        BY <2>12, <4>1, <4>2 DEF DriverPlace, DriverSend, DriverWait, DriverGot
      <4>4. PutOff(e)'
        BY <1>1, <1>2, <1>7, <2>2 DEF PutOff, Coming
      <4>5. QED
        BY <3>1, <4>3, <4>4 DEF DriverOK
    <3>2. CASE ~(d = e /\ Accepts(e, Dev))
      <4>1. DriverOK(d) /\ Same(d) /\ Dev \notin sending
        BY <1>1, <1>2, <2>3, <2>4, <2>5, <2>6, <3>2, Names DEF DriverOK, Free, Same
      <4>2. QED
        BY <1>2, <1>6, <1>7, <4>1, DriverStays
    <3>3. QED
      BY <3>1, <3>2
  <2>14. DevOK'
    <3>1. DevSends'
      BY <2>3, <2>4, <2>5, <2>7, <2>8 DEF DevSends
    <3>2. DevAsks'
      <4>1. Dev \notin sending' => Holds(e)'
        BY <2>3, <2>4, <2>5, <2>8 DEF Holds, Free, Accepts
      <4>2. QED
        BY <1>2, <1>3, <1>4, <1>6, <1>8, <2>2, <2>3, <2>7, <2>9, <2>12, <4>1 DEF DevAsks, Holds, Replies, Free
    <3>3. QED
      BY <2>3, <2>5, <3>1, <3>2 DEF DevOK, DevWaits, DevHandles, DevPasses
  <2>15. QED
    BY <1>6, <2>10, <2>11, <2>13, <2>14 DEF DevInv
<1>9. CASE ~(impl_list[v].InUse /\ e # 0)
  <2> DEFINE m == [sender |-> Dev, receiver |-> p, body |-> Mail(asked[p].type, 0, DEV_STATUS_ERROR, 0)]
  <2>1. /\ job' = job
        /\ Goto(Dev, "recv") /\ Send(Dev, p, Mail(asked[p].type, 0, DEV_STATUS_ERROR, 0))
    BY <1>3, <1>4, <1>5, <1>9 DEF PassOn, Implemented, Denied
  <2>2. DOMAIN pc' = Proc /\ pc'[Dev] = "recv" /\ \A q \in Proc : q # Dev => pc'[q] = pc[q]
    BY <1>1, <1>2, <2>1, GotoEffect
  <2>3. p \in Proc /\ p # Dev
    BY <1>3, Names
  <2>4. /\ sending' \subseteq Proc /\ waiting' \subseteq Proc /\ DOMAIN msg' = Proc
        /\ Dev \notin waiting' /\ msg'[Dev] = m
        /\ \A q \in Proc : q # Dev /\ q # p => SameMail(q)
        /\ p \in sending' <=> p \in sending
        /\ \/ /\ Accepts(p, Dev)
              /\ Dev \notin sending' /\ p \notin waiting' /\ msg'[p] = m
           \/ ~Accepts(p, Dev) /\ Dev \in sending' /\ SameMail(p)
    BY <1>1, <1>2, <2>1, <2>3, SendEffect
  <2>5. \A q \in Proc : q # Dev /\ q # p => Same(q)
    BY <2>2, <2>4 DEF Same
  <2>6. \A a \in App : a # p /\ Await(a) => Await(a)'
    BY <2>5, Names DEF Await, Same, SameMail
  <2>7. Shape' /\ WaitLists'
    BY <1>1, <1>2, <1>3, <2>2, <2>4, <2>6, WaitListsStay DEF Shape
  <2>8. Accepts(p, Dev) <=> p \in waiting
    BY <1>1, <1>3 DEF Accepts, Program
  <2>9. \A a \in App : Program(a)'
    <3> SUFFICES ASSUME NEW a \in App PROVE Program(a)'
      OBVIOUS
    <3>1. CASE a = p /\ p \in waiting
      <4>1. pc'[a] = "answered" /\ a \notin sending' /\ a \notin waiting'
        BY <1>1, <1>3, <2>2, <2>3, <2>4, <2>8, <3>1 DEF Program, Await
      <4>2. msg'[a].body.status = DEV_STATUS_ERROR
        BY <2>4, <2>8, <3>1 DEF Mail
      <4>3. QED
        BY <1>1, <1>2, <1>3, <3>1, <4>1, <4>2 DEF Program, Right
    <3>2. CASE ~(a = p /\ p \in waiting)
      <4>1. Same(a)
        BY <2>2, <2>3, <2>4, <2>5, <2>8, <3>2, Names DEF Same
      <4>2. QED
        BY <1>1, <1>2, <4>1, ProgramStays
    <3>3. QED
      BY <3>1, <3>2
  <2>10. \A d \in Driver : DriverOK(d)'
    <3> SUFFICES ASSUME NEW d \in Driver PROVE DriverOK(d)'
      OBVIOUS
    <3>1. DriverOK(d) /\ Same(d) /\ Dev \notin sending
      BY <1>1, <1>2, <1>3, <2>5, Names DEF DriverOK, Free
    <3>2. QED
      BY <1>2, <1>6, <1>7, <3>1, DriverStays
  <2>11. DevOK'
    <3>1. DevSends'
      <4> SUFFICES ASSUME Dev \in sending' PROVE DevSends'
        BY DEF DevSends
      <4>1. p \notin waiting /\ SameMail(p)
        BY <2>4, <2>8
      <4>2. pc'[p] = "sent" /\ p \notin sending' /\ p \notin waiting' /\ ~Off(p)'
        BY <1>3, <1>6, <2>2, <2>3, <4>1 DEF Await, SameMail
      <4>3. msg'[Dev].receiver = p /\ msg'[Dev].sender = Dev /\ msg'[Dev].body.status = DEV_STATUS_ERROR
        BY <2>4 DEF Mail
      <4>4. QED
        BY <1>2, <1>3, <2>2, <4>2, <4>3 DEF DevSends, Right, Free
    <3>2. QED
      BY <2>2, <2>4, <3>1 DEF DevOK, DevWaits, DevHandles, DevAsks, DevPasses, Asking
  <2>12. QED
    BY <1>6, <2>7, <2>9, <2>10, <2>11 DEF DevInv
<1>10. CASE impl_list[v].InUse /\ e # 0 /\ ~impl_list[v].Has_Permission
  <2>1. Goto(Dev, "recv") /\ UNCHANGED <<sending, waiting, msg, job>>
    BY <1>4, <1>5, <1>10 DEF PassOn, Implemented, Denied, Drop, vars
  <2>2. DOMAIN pc' = Proc /\ pc'[Dev] = "recv" /\ \A q \in Proc : q # Dev => pc'[q] = pc[q]
    BY <1>1, <1>2, <2>1, GotoEffect
  <2>3. \A q \in Proc : q # Dev => Same(q)
    BY <2>1, <2>2 DEF Same, SameMail
  <2>4. \A a \in App : Await(a) => Await(a)'
    BY <2>3, Names DEF Await, Same, SameMail
  <2>5. Shape' /\ WaitLists'
    BY <1>1, <1>2, <2>1, <2>2, <2>4, WaitListsStay DEF Shape
  <2>6. \A a \in App : Program(a)'
    BY <1>1, <1>2, <2>3, Names, ProgramStays
  <2>7. \A d \in Driver : DriverOK(d)'
    <3> SUFFICES ASSUME NEW d \in Driver PROVE DriverOK(d)'
      OBVIOUS
    <3>1. DriverOK(d) /\ Same(d) /\ Dev \notin sending
      BY <1>1, <1>2, <2>3, Names DEF DriverOK, Free
    <3>2. QED
      BY <1>2, <1>6, <1>7, <3>1, DriverStays
  <2>8. DevOK'
    BY <1>2, <2>1, <2>2 DEF DevOK, DevWaits, DevSends, DevHandles, DevAsks, DevPasses, Asking, Free
  <2>9. QED
    BY <1>6, <2>5, <2>6, <2>7, <2>8 DEF DevInv
<1>11. QED
  BY <1>8, <1>9, <1>10

\* TaskDEV takes the answer of the driver, or waits for it.
LEMMA AskDriverKeeps ==
  ASSUME DevInv, AskDriver
  PROVE  DevInv'
<1>1. /\ Shape /\ Devices /\ WaitLists
      /\ \A a \in App : Program(a)
      /\ \A d \in Driver : DriverPlace(d) /\ DriverSend(d) /\ DriverWait(d) /\ DriverGot(d) /\ PutOff(d)
      /\ DevWaits /\ DevSends /\ DevHandles /\ DevAsks /\ DevPasses
  BY InvParts
<1>2. /\ Dev \in Proc /\ pc[Dev] = "ask" /\ Free(Dev)
      /\ UNCHANGED <<impl_list, impl_free_list, job, put, asked>>
  BY Names DEF AskDriver, At, implv
<1>3. DOMAIN pc' = Proc /\ pc'[Dev] = "pass" /\ \A q \in Proc : q # Dev => pc'[q] = pc[q]
  BY <1>1, <1>2, GotoEffect DEF AskDriver, Receive
<1>4. PICK e \in Driver : e = JobDriver /\ Registered(e) /\ e \in Proc /\ e # Dev /\ e # Anybody
  BY <1>1, <1>2, Names DEF JobDriver, DevAsks, Asking, Devices, Entry, Registered
<1>5. /\ Devices' /\ \A d : Registered(d)' <=> Registered(d)
      /\ \A v, a : OffAt(v, a)' <=> OffAt(v, a)
      /\ \A a : Off(a)' <=> Off(a)
  BY <1>1, <1>2, DevicesStay
<1>6. Asking /\ Asking' /\ JobDriver' = e /\ job' = job
  BY <1>2, <1>3, <1>4 DEF Asking, JobDriver
<1>7. IsAsked(e) /\ (Holds(e) \/ Replies(e)) /\ \A d \in Driver : d # e => ~IsAsked(d)
  BY <1>1, <1>2, <1>4, <1>6 DEF IsAsked, DevAsks, Free
<1>8. job.app \in App /\ Await(job.app) /\ ~Off(job.app)
  BY <1>1, <1>6 DEF DevAsks
<1>9. CASE Wait(Dev, JobDriver)
  <2>1. /\ sending' \subseteq Proc /\ waiting' \subseteq Proc /\ DOMAIN msg' = Proc
        /\ \A s \in sending : msg[s].receiver = Dev => s # e
        /\ Dev \notin sending' /\ Dev \in waiting' /\ msg'[Dev].sender = e
        /\ \A q \in Proc : q # Dev => SameMail(q)
    BY <1>1, <1>2, <1>4, <1>9, WaitEffect
  <2>2. \A q \in Proc : q # Dev => Same(q)
    BY <1>3, <2>1 DEF Same
  <2>3. e \notin sending /\ ~Replies(e) /\ Holds(e)
    BY <1>1, <1>7, <2>1 DEF DriverSend, Replies
  <2>4. \A a \in App : Await(a) => Await(a)'
    BY <2>2, Names DEF Await, Same, SameMail
  <2>5. IsAsked(e)' /\ Holds(e)'
    BY <1>3, <1>4, <1>6, <2>1, <2>2, <2>3 DEF IsAsked, Holds, Free, Same, SameMail
  <2>6. \A d : \A a : PutBy(d, a) => PutBy(d, a)'
    BY <1>2, <1>4, <1>5, <2>3 DEF PutBy
  <2>7. Shape' /\ WaitLists'
    BY <1>1, <1>2, <1>3, <2>1, <2>4, WaitListsStay DEF Shape
  <2>8. \A a \in App : Program(a)'
    BY <1>1, <1>2, <2>2, Names, ProgramStays
  <2>9. \A d \in Driver : DriverOK(d)'
    <3> SUFFICES ASSUME NEW d \in Driver PROVE DriverOK(d)'
      OBVIOUS
    <3>1. DriverOK(d) /\ Same(d) /\ Dev \notin sending
      BY <1>1, <1>2, <2>2, Names DEF DriverOK, Free
    <3>2. Holds(d) /\ IsAsked(d) => IsAsked(d)'
      BY <1>7, <2>5
    <3>3. ~(Replies(d) /\ IsAsked(d))
      BY <1>7, <2>3
    <3>4. QED
      BY <1>2, <1>5, <2>6, <3>1, <3>2, <3>3, DriverStays
  <2>10. DevOK'
    <3>1. DevAsks'
      BY <1>1, <1>2, <1>4, <1>5, <1>6, <1>8, <2>1, <2>4, <2>5 DEF DevAsks
    <3>2. QED
      BY <1>3, <1>6, <2>1, <3>1 DEF DevOK, DevWaits, DevSends, DevHandles, DevPasses, Free
  <2>11. QED
    BY <1>5, <2>7, <2>8, <2>9, <2>10 DEF DevInv
<1>10. CASE \E s \in Proc : Take(Dev, s, JobDriver)
  <2>1. /\ sending' \subseteq Proc /\ waiting' \subseteq Proc /\ DOMAIN msg' = Proc
        /\ e \in sending /\ msg[e].receiver = Dev
        /\ Dev \notin sending' /\ Dev \notin waiting' /\ e \notin sending' /\ msg'[Dev] = msg[e]
        /\ msg'[e] = msg[e] /\ (e \in waiting' <=> e \in waiting)
        /\ \A q \in Proc : q # Dev /\ q # e => SameMail(q)
    <3>1. PICK s \in Proc : Take(Dev, s, JobDriver)
      BY <1>10
    <3>2. s = e
      BY <1>1, <1>2, <1>4, <3>1, TakeEffect
    <3>3. QED
      BY <1>1, <1>2, <3>1, <3>2, TakeEffect
  <2>2. (\A q \in Proc : q # Dev /\ q # e => Same(q)) /\ pc'[e] = pc[e]
    BY <1>3, <1>4, <2>1 DEF Same
  <2>3. /\ Replies(e) /\ msg[e].sender = e /\ e \notin waiting /\ pc[e] = "serve" /\ Told(msg[e])
    BY <1>1, <1>7, <2>1 DEF Holds, Free, Replies, DriverSend
  <2>4. \A a \in App : Await(a) => Await(a)'
    BY <2>2, Names DEF Await, Same, SameMail
  <2>5. \A d \in Driver : \A a : PutBy(d, a) => PutBy(d, a)'
    <3> SUFFICES ASSUME NEW d \in Driver, NEW a, PutBy(d, a) PROVE PutBy(d, a)'
      OBVIOUS
    <3>1. CASE \E v \in Device : impl_list[v].PID = d /\ OffAt(v, a)
      BY <1>2, <1>5, <3>1 DEF PutBy
    <3>2. CASE job.app = a /\ JobDriver = d /\ msg[d].body.status = DEV_STATUS_WAIT
      BY <1>3, <1>4, <1>6, <2>1, <3>2 DEF PutBy, Free
    <3>3. QED
      BY <1>2, <3>1, <3>2 DEF PutBy
  <2>6. Shape' /\ WaitLists'
    BY <1>1, <1>2, <1>3, <2>1, <2>4, WaitListsStay DEF Shape
  <2>7. \A a \in App : Program(a)'
    BY <1>1, <1>2, <1>4, <2>2, Names, ProgramStays
  <2>8. \A d \in Driver : DriverOK(d)'
    <3> SUFFICES ASSUME NEW d \in Driver PROVE DriverOK(d)'
      OBVIOUS
    <3>1. CASE d = e
      <4>1. DriverPlace(e)' /\ DriverSend(e)' /\ DriverWait(e)' /\ DriverGot(e)'
        BY <2>1, <2>2, <2>3 DEF DriverPlace, DriverSend, DriverWait, DriverGot
      <4>2. PutOff(e)'
        BY <1>1, <1>2, <2>5 DEF PutOff, Coming
      <4>3. QED
        BY <3>1, <4>1, <4>2 DEF DriverOK
    <3>2. CASE d # e
      <4>1. DriverOK(d) /\ Same(d) /\ Dev \notin sending
        BY <1>1, <1>2, <2>2, <3>2, Names DEF DriverOK, Free
      <4>2. QED
        BY <1>2, <1>5, <1>7, <2>5, <3>2, <4>1, DriverStays
    <3>3. QED
      BY <3>1, <3>2
  <2>9. DevOK'
    <3>1. DevAsks'
      BY <1>1, <1>2, <1>3, <1>4, <1>5, <1>6, <1>8, <2>1, <2>4 DEF DevAsks, IsAsked
    <3>2. DevPasses'
      BY <1>2, <1>6, <2>1, <2>3 DEF DevPasses, Told
    <3>3. QED
      BY <1>3, <2>1, <3>1, <3>2 DEF DevOK, DevWaits, DevSends, DevHandles
  <2>10. QED
    BY <1>5, <2>6, <2>7, <2>8, <2>9 DEF DevInv
<1>11. QED
  BY <1>9, <1>10 DEF AskDriver, Receive, JobDriver

\* A step that gives the device v another wait list.
LEMMA ListChanges ==
  ASSUME Devices, NEW v \in Device, v < impl_free_list, NEW new \in Seq(Request), impl_list[v].Has_Permission,
         impl_list' = [impl_list EXCEPT ![v].wait_list = new], impl_free_list' = impl_free_list
  PROVE  /\ Devices' /\ \A d : Registered(d)' <=> Registered(d)
         /\ \A w \in Device : impl_list'[w].PID = impl_list[w].PID
         /\ impl_list'[v].wait_list = new
         /\ \A w \in Device : w # v => impl_list'[w].wait_list = impl_list[w].wait_list
<1>1. /\ DOMAIN impl_list' = Device /\ \A w \in Device : w # v => impl_list'[w] = impl_list[w]
      /\ impl_list'[v] = [impl_list[v] EXCEPT !.wait_list = new]
  BY DEF Devices
<1>2. impl_list[v] \in Implementation /\ Entry(v)
  BY DEF Devices, Entry
<1>3. /\ impl_list'[v] \in Implementation /\ impl_list'[v].wait_list = new
      /\ impl_list'[v].InUse = impl_list[v].InUse /\ impl_list'[v].PID = impl_list[v].PID
      /\ impl_list'[v].Has_Permission
  BY <1>1, <1>2 DEF Implementation
<1>4. \A w \in Device : impl_list'[w].PID = impl_list[w].PID
  BY <1>1, <1>3
<1>5. \A d : Registered(d)' <=> Registered(d)
  BY <1>4 DEF Registered
<1>6. ASSUME NEW w \in Device PROVE Entry(w)'
  <2>1. CASE w = v
    <3>1. v \in Nat /\ impl_free_list \in Nat
      BY DEF Devices, Device
    <3>2. QED
      BY <1>2, <1>3, <2>1, <3>1 DEF Entry
  <2>2. CASE w # v
    BY <1>1, <2>2 DEF Devices, Entry
  <2>3. QED
    BY <2>1, <2>2
<1>7. OneEach'
  BY <1>4 DEF Devices, OneEach
<1>8. Cardinality({d \in Driver : Registered(d)'}) = impl_free_list'
  <2>1. {d \in Driver : Registered(d)'} = {d \in Driver : Registered(d)}
    BY <1>5
  <2>2. QED
    BY <2>1 DEF Devices
<1>9. Devices'
  BY <1>1, <1>6, <1>7, <1>8 DEF Devices
<1>10. QED
  BY <1>1, <1>3, <1>4, <1>5, <1>9

\* TaskDEV's message to a program p that awaits it.
LEMMA ProgramGets ==
  ASSUME DevInv, NEW p \in App, NEW q \in App, NEW d, Await(p), Send(Dev, p, d),
         asked' = asked, pc'[q] = pc[q], Right(d.status, p)
  PROVE  Program(q)'
<1>1. Shape /\ Program(p) /\ Program(q) /\ p \in Proc /\ q \in Proc /\ Dev \in Proc /\ p # Dev /\ q # Dev
  BY InvParts, Names
<1>2. /\ \A r \in Proc : r # Dev /\ r # p => SameMail(r)
      /\ p \in sending' <=> p \in sending
      /\ \/ Accepts(p, Dev) /\ p \notin waiting' /\ msg'[p] = [sender |-> Dev, receiver |-> p, body |-> d]
         \/ ~Accepts(p, Dev) /\ SameMail(p)
  BY <1>1, SendEffect
<1>3. CASE q = p /\ Accepts(p, Dev)
  <2>1. pc'[p] = "answered" /\ p \notin sending' /\ p \notin waiting' /\ msg'[p].body.status = d.status
    BY <1>1, <1>2, <1>3 DEF Program, Accepts, Await
  <2>2. QED
    BY <1>1, <1>3, <2>1 DEF Program, Right
<1>4. CASE ~(q = p /\ Accepts(p, Dev))
  BY <1>1, <1>2, <1>4, ProgramStays DEF Same
<1>5. QED
  BY <1>3, <1>4

\* TaskDEV passes the answer back, or puts the request into the wait list.
LEMMA PassBackKeeps ==
  ASSUME DevInv, PassBack
  PROVE  DevInv'
<1>1. /\ Shape /\ Devices /\ WaitLists
      /\ \A a \in App : Program(a)
      /\ \A d \in Driver : DriverPlace(d) /\ DriverSend(d) /\ DriverWait(d) /\ DriverGot(d) /\ PutOff(d)
      /\ DevWaits /\ DevSends /\ DevHandles /\ DevAsks /\ DevPasses
  BY InvParts
<1>2. /\ Dev \in Proc /\ pc[Dev] = "pass" /\ Free(Dev)
      /\ UNCHANGED <<impl_free_list, job, put, asked>>
  BY Names DEF PassBack, At
<1>3. DOMAIN pc' = Proc /\ pc'[Dev] = "recv" /\ \A q \in Proc : q # Dev => pc'[q] = pc[q]
  BY <1>1, <1>2, GotoEffect DEF PassBack
<1>4. PICK p \in App : p = job.app /\ Await(p) /\ ~Off(p) /\ p \in Proc /\ p # Dev
  BY <1>1, <1>2, Names DEF DevAsks, Asking
<1>5. PICK v \in Device : /\ v = job.device /\ v < impl_free_list /\ job.type \in {DEV_READ, DEV_OPEN}
                         /\ JobDriver = impl_list[v].PID /\ impl_list[v].Has_Permission
  BY <1>1, <1>2 DEF DevAsks, Asking, JobDriver
<1>6. Told(msg[Dev]) /\ \A d : ~IsAsked(d)
  BY <1>1, <1>2 DEF DevPasses, IsAsked, Free
<1>7. CASE msg[Dev].body.status # DEV_STATUS_WAIT
  <2>1. Send(Dev, p, msg[Dev].body) /\ impl_list' = impl_list
    BY <1>4, <1>7 DEF PassBack
  <2>2. msg[Dev].body.status = DEV_STATUS_OK /\ Right(msg[Dev].body.status, p)
    BY <1>4, <1>6, <1>7 DEF Told, Right
  <2>3. /\ sending' \subseteq Proc /\ waiting' \subseteq Proc /\ DOMAIN msg' = Proc
        /\ Dev \notin waiting' /\ msg'[Dev] = [sender |-> Dev, receiver |-> p, body |-> msg[Dev].body]
        /\ \A q \in Proc : q # Dev /\ q # p => SameMail(q)
        /\ p \in sending' <=> p \in sending
        /\ \/ /\ Accepts(p, Dev)
              /\ Dev \notin sending' /\ p \notin waiting'
           \/ ~Accepts(p, Dev) /\ Dev \in sending' /\ SameMail(p)
    BY <1>1, <1>2, <1>4, <2>1, SendEffect
  <2>4. /\ Devices' /\ \A d : Registered(d)' <=> Registered(d)
        /\ \A w, a : OffAt(w, a)' <=> OffAt(w, a)
        /\ \A a : Off(a)' <=> Off(a)
    BY <1>1, <1>2, <2>1, DevicesStay
  <2>5. \A q \in Proc : q # Dev /\ q # p => Same(q)
    BY <1>3, <2>3 DEF Same
  <2>6. \A a \in App : a # p /\ Await(a) => Await(a)'
    BY <2>5, Names DEF Await, Same, SameMail
  <2>7. \A d, a : PutBy(d, a) => PutBy(d, a)'
    BY <1>2, <1>7, <2>1, <2>4 DEF PutBy
  <2>8. Shape' /\ WaitLists'
    BY <1>1, <1>2, <1>3, <1>4, <2>1, <2>3, <2>6, WaitListsStay DEF Shape
  <2>9. \A a \in App : Program(a)'
    BY <1>2, <1>3, <1>4, <2>1, <2>2, Names, ProgramGets
  <2>10. \A d \in Driver : DriverOK(d)'
    <3> SUFFICES ASSUME NEW d \in Driver PROVE DriverOK(d)'
      OBVIOUS
    <3>1. DriverOK(d) /\ Same(d) /\ Dev \notin sending
      BY <1>1, <1>2, <1>4, <2>5, Names DEF DriverOK, Free
    <3>2. QED
      BY <1>2, <1>6, <2>4, <2>7, <3>1, DriverStays
  <2>11. DevSends'
    <3> SUFFICES ASSUME Dev \in sending' PROVE DevSends'
      BY DEF DevSends
    <3>1. ~Accepts(p, Dev) /\ SameMail(p)
      BY <2>3
    <3>2. p \notin waiting
      BY <1>1, <3>1 DEF Program, Accepts
    <3>3. pc'[p] = "sent" /\ p \notin sending' /\ p \notin waiting' /\ ~Off(p)'
      BY <1>3, <1>4, <2>4, <3>1, <3>2 DEF Await, SameMail
    <3>4. msg'[Dev].receiver = p /\ msg'[Dev].sender = Dev /\ msg'[Dev].body.status = msg[Dev].body.status
      BY <2>3
    <3>5. QED
      BY <1>2, <1>3, <2>2, <3>3, <3>4 DEF DevSends, Right, Free
  <2>12. DevOK'
    BY <1>3, <2>3, <2>11 DEF DevOK, DevWaits, DevHandles, DevAsks, DevPasses, Asking
  <2>13. QED
    BY <2>4, <2>8, <2>9, <2>10, <2>12 DEF DevInv
<1>8. CASE msg[Dev].body.status = DEV_STATUS_WAIT
  <2>1. PICK r : r = [app_pid |-> p, type |-> job.type]
    OBVIOUS
  <2>2. PICK old \in Seq(Request) : old = impl_list[v].wait_list
    BY <1>1 DEF Devices, Entry, Implementation
  <2>3. PICK new : new = <<r>> \o old
    OBVIOUS
  <2>4. UNCHANGED <<sending, waiting, msg>> /\ impl_list' = [impl_list EXCEPT ![v].wait_list = new]
    BY <1>4, <1>5, <1>8, <2>1, <2>2, <2>3 DEF PassBack, vars
  <2>5. /\ new \in Seq(Request) /\ Len(old) \in Nat /\ Len(new) = Len(old) + 1
        /\ \A i \in 1 .. Len(new) : new[i] = IF i = 1 THEN r ELSE old[i - 1]
    <3>1. r \in Request
      BY <1>5, <2>1 DEF Request
    <3>2. <<r>> \in Seq(Request) /\ Len(<<r>>) = 1 /\ <<r>>[1] = r
      BY <3>1
    <3>3. QED
      BY <2>3, <3>2, ConcatProperties, LenProperties
  <2>6. /\ Devices' /\ \A d : Registered(d)' <=> Registered(d)
        /\ \A w \in Device : impl_list'[w].PID = impl_list[w].PID
        /\ impl_list'[v].wait_list = new
        /\ \A w \in Device : w # v => impl_list'[w].wait_list = impl_list[w].wait_list
    BY <1>1, <1>2, <1>5, <2>4, <2>5, ListChanges
  <2>7. /\ \A w \in Device : \A a : OffAt(w, a) => OffAt(w, a)'
        /\ \A w \in Device : \A a : OffAt(w, a)' => OffAt(w, a) \/ (w = v /\ a = p)
        /\ OffAt(v, p)'
    <3>1. OffAt(v, p)'
      BY <2>1, <2>5, <2>6 DEF OffAt
    <3>2. \A a : OffAt(v, a) => OffAt(v, a)'
      <4> SUFFICES ASSUME NEW a, OffAt(v, a) PROVE OffAt(v, a)'
        OBVIOUS
      <4>1. PICK i \in 1 .. Len(old) : old[i].app_pid = a
        BY <2>2 DEF OffAt
      <4>2. i + 1 \in 1 .. Len(new) /\ new[i + 1] = old[i]
        BY <2>5
      <4>3. QED
        BY <2>6, <4>1, <4>2 DEF OffAt
    <3>3. \A a : OffAt(v, a)' => OffAt(v, a) \/ a = p
      <4> SUFFICES ASSUME NEW a, OffAt(v, a)' PROVE OffAt(v, a) \/ a = p
        OBVIOUS
      <4>1. PICK i \in 1 .. Len(new) : new[i].app_pid = a
        BY <2>6 DEF OffAt
      <4>2. i = 1 => a = p
        BY <2>1, <2>5, <4>1
      <4>3. i # 1 => i - 1 \in 1 .. Len(old) /\ new[i] = old[i - 1]
        BY <2>5
      <4>4. QED
        BY <2>2, <4>1, <4>2, <4>3 DEF OffAt
    <3>4. \A w \in Device : \A a : w # v => (OffAt(w, a)' <=> OffAt(w, a))
      BY <2>6 DEF OffAt
    <3>5. QED
      BY <3>1, <3>2, <3>3, <3>4
  <2>8. Same(p) /\ \A q \in Proc : q # Dev => Same(q)
    BY <1>3, <1>4, <2>4 DEF Same, SameMail
  <2>9. \A a \in App : Await(a) => Await(a)'
    BY <2>8, Names DEF Await, Same, SameMail
  <2>10. \A d, a : PutBy(d, a) => PutBy(d, a)'
    <3> SUFFICES ASSUME NEW d, NEW a, PutBy(d, a) PROVE PutBy(d, a)'
      OBVIOUS
    <3>1. CASE \E w \in Device : impl_list[w].PID = d /\ OffAt(w, a)
      BY <2>6, <2>7, <3>1 DEF PutBy
    <3>2. CASE job.app = a /\ JobDriver = d
      BY <1>4, <1>5, <2>6, <2>7, <3>2 DEF PutBy
    <3>3. QED
      BY <3>1, <3>2 DEF PutBy
  <2>11. Shape'
    BY <1>1, <1>2, <1>3, <2>4 DEF Shape
  <2>12. WaitLists'
    <3>1. \A a \in App : Off(a)' => Await(a)'
      BY <1>1, <1>4, <2>7, <2>9 DEF WaitLists, Off
    <3>2. \A i \in 1 .. Len(new) : i # 1 => i - 1 \in 1 .. Len(old) /\ new[i] = old[i - 1]
      BY <2>5
    <3>3. \A w \in Device : \A j \in 1 .. Len(impl_list[w].wait_list) : impl_list[w].wait_list[j].app_pid # p
      BY <1>4 DEF Off, OffAt
    <3>4. new[1].app_pid = p
      BY <2>1, <2>5
    <3>5. \A w \in Device : w # v => Apart(v, w)' /\ Apart(w, v)'
      <4> SUFFICES ASSUME NEW w \in Device, w # v, NEW i \in 1 .. Len(new), NEW j \in 1 .. Len(impl_list[w].wait_list),
                          new[i].app_pid = impl_list[w].wait_list[j].app_pid
                   PROVE  FALSE
        BY <2>6 DEF Apart
      <4>1. i - 1 \in 1 .. Len(old) /\ old[i - 1].app_pid = impl_list[w].wait_list[j].app_pid
        BY <3>2, <3>3, <3>4
      <4>2. Apart(v, w)
        BY <1>1 DEF WaitLists, Once
      <4>3. QED
        BY <2>2, <4>1, <4>2 DEF Apart
    <3>6. Apart(v, v)'
      <4> SUFFICES ASSUME NEW i \in 1 .. Len(new), NEW j \in 1 .. Len(new), new[i].app_pid = new[j].app_pid
                   PROVE  i = j
        BY <2>6 DEF Apart
      <4>1. Apart(v, v)
        BY <1>1 DEF WaitLists, Once
      <4>2. \A k \in 1 .. Len(old) : old[k].app_pid # p
        BY <2>2, <3>3
      <4>3. CASE i = 1 \/ j = 1
        BY <3>2, <3>4, <4>2, <4>3
      <4>4. CASE i # 1 /\ j # 1
        <5>1. i - 1 \in 1 .. Len(old) /\ j - 1 \in 1 .. Len(old) /\ old[i - 1].app_pid = old[j - 1].app_pid
          BY <3>2, <4>4
        <5>2. i - 1 = j - 1
          BY <2>2, <4>1, <5>1 DEF Apart
        <5>3. QED
          BY <2>5, <5>2
      <4>5. QED
        BY <4>3, <4>4
    <3>7. ASSUME NEW w \in Device, NEW u \in Device, w # v, u # v PROVE Apart(w, u)'
      <4>1. Apart(w, u) /\ impl_list'[w].wait_list = impl_list[w].wait_list /\ impl_list'[u].wait_list = impl_list[u].wait_list
        BY <1>1, <2>6, <3>7 DEF WaitLists, Once
      <4>2. QED
        BY <4>1 DEF Apart
    <3>8. Once'
      BY <3>5, <3>6, <3>7 DEF Once
    <3>9. QED
      BY <3>1, <3>8 DEF WaitLists
  <2>13. \A a \in App : Program(a)'
    BY <1>1, <1>2, <2>8, Names, ProgramStays
  <2>14. \A d \in Driver : DriverOK(d)'
    <3> SUFFICES ASSUME NEW d \in Driver PROVE DriverOK(d)'
      OBVIOUS
    <3>1. DriverOK(d) /\ Same(d) /\ Dev \notin sending
      BY <1>1, <1>2, <2>8, Names DEF DriverOK, Free
    <3>2. QED
      BY <1>2, <1>6, <2>6, <2>10, <3>1, DriverStays
  <2>15. DevOK'
    BY <1>2, <1>3, <2>4 DEF DevOK, DevWaits, DevSends, DevHandles, DevAsks, DevPasses, Asking, Free
  <2>16. QED
    BY <2>6, <2>11, <2>12, <2>13, <2>14, <2>15 DEF DevInv
<1>9. QED
  BY <1>7, <1>8

\* An update takes the request out of the wait list, and its program gets the answer.
LEMMA UpdateImplKeeps ==
  ASSUME DevInv, UpdateImpl
  PROVE  DevInv'
<1>1. /\ Shape /\ Devices /\ WaitLists
      /\ \A a \in App : Program(a)
      /\ \A d \in Driver : DriverPlace(d) /\ DriverSend(d) /\ DriverWait(d) /\ DriverGot(d) /\ PutOff(d)
      /\ DevWaits /\ DevSends /\ DevHandles /\ DevAsks /\ DevPasses
  BY InvParts
<1>2. /\ Dev \in Proc /\ pc[Dev] = "handle" /\ Free(Dev) /\ msg[Dev].body.type = DEV_UPD
      /\ UNCHANGED <<impl_free_list, job, put, asked>>
  BY Names DEF UpdateImpl, Handling, At
<1>3. PICK e \in Driver : e = msg[Dev].sender /\ IsUpdate(msg[Dev], e) /\ ~Updates(e, msg[Dev].body.app)
  <2>1. Dev \notin waiting
    BY <1>2 DEF Free
  <2>2. ASSUME NEW p \in App, p = msg[Dev].sender, msg[Dev].body = Mail(asked[p].type, asked[p].device, 0, 0)
        PROVE  FALSE
    <3>1. asked[p] \in [type : {0, DEV_READ, DEV_OPEN}, device : Device, done : BOOLEAN]
      BY <1>1 DEF Program
    <3>2. QED
      BY <1>2, <2>2, <3>1 DEF Mail
  <2>3. QED
    BY <1>1, <1>2, <2>1, <2>2 DEF DevHandles
<1>4. PICK p \in App : p = msg[Dev].body.app /\ asked[p].done /\ PutBy(e, p) /\ ~Updates(e, p) /\ p \in Proc /\ p # Dev
  BY <1>3, Names DEF IsUpdate
<1>5. DOMAIN pc' = Proc /\ pc'[Dev] = "recv" /\ \A q \in Proc : q # Dev => pc'[q] = pc[q]
  BY <1>1, <1>2, GotoEffect DEF UpdateImpl
<1>6. \A d : ~IsAsked(d) /\ \A a : PutBy(d, a) => \E v \in Device : impl_list[v].PID = d /\ OffAt(v, a)
  BY <1>2 DEF IsAsked, PutBy, Asking
<1>7. CASE Found(e, p) = {}
  <2>1. UNCHANGED <<sending, waiting, msg, impl_list>>
    BY <1>3, <1>4, <1>7 DEF UpdateImpl, vars
  <2>2. /\ Devices' /\ \A d : Registered(d)' <=> Registered(d)
        /\ \A w, a : OffAt(w, a)' <=> OffAt(w, a)
    BY <1>1, <1>2, <2>1, DevicesStay
  <2>3. \A q \in Proc : q # Dev => Same(q)
    BY <1>5, <2>1 DEF Same, SameMail
  <2>4. \A a \in App : Await(a) => Await(a)'
    BY <2>3, Names DEF Await, Same, SameMail
  <2>5. \A d, a : PutBy(d, a) => PutBy(d, a)'
    BY <1>6, <2>1, <2>2 DEF PutBy
  <2>6. Shape' /\ WaitLists'
    BY <1>1, <1>2, <1>5, <2>1, <2>4, WaitListsStay DEF Shape
  <2>7. \A a \in App : Program(a)'
    BY <1>1, <1>2, <2>3, Names, ProgramStays
  <2>8. \A d \in Driver : DriverOK(d)'
    <3> SUFFICES ASSUME NEW d \in Driver PROVE DriverOK(d)'
      OBVIOUS
    <3>1. DriverOK(d) /\ Same(d) /\ Dev \notin sending
      BY <1>1, <1>2, <2>3, Names DEF DriverOK, Free
    <3>2. QED
      BY <1>2, <1>6, <2>2, <2>5, <3>1, DriverStays
  <2>9. DevOK'
    BY <1>2, <1>5, <2>1 DEF DevOK, DevWaits, DevSends, DevHandles, DevAsks, DevPasses, Asking, Free
  <2>10. QED
    BY <2>2, <2>6, <2>7, <2>8, <2>9 DEF DevInv
<1>8. CASE Found(e, p) # {}
  <2>1. PICK v \in Found(e, p) :
          /\ impl_list' = [impl_list EXCEPT ![v].wait_list = RemoveAt(@, FirstOf(v, p))]
          /\ impl_list[v].Has_Permission
          /\ Send(Dev, p, [msg[Dev].body EXCEPT !.type = impl_list[v].wait_list[FirstOf(v, p)].type])
    <3>1. PICK v \in Found(e, p) :
            /\ impl_list' = [impl_list EXCEPT ![v].wait_list = RemoveAt(@, FirstOf(v, p))]
            /\ IF impl_list[v].Has_Permission
               THEN Send(Dev, p, [msg[Dev].body EXCEPT !.type = impl_list[v].wait_list[FirstOf(v, p)].type])
               ELSE UNCHANGED vars
      BY <1>3, <1>4, <1>8 DEF UpdateImpl
    <3>2. impl_list[v].wait_list # << >> /\ Entry(v)
      BY <1>1, <3>1 DEF Found, Waiting, Devices
    <3>3. impl_list[v].Has_Permission
      BY <3>2 DEF Entry
    <3>4. QED
      BY <3>1, <3>3
  <2>2. PICK old \in Seq(Request) : old = impl_list[v].wait_list
    BY <1>1, <2>1 DEF Found, Devices, Entry, Implementation
  <2>3. PICK k \in 1 .. Len(old) : k = FirstOf(v, p) /\ old[k].app_pid = p
    <3>1. Waiting(v, p) # {} /\ Waiting(v, p) \subseteq 1 .. Len(old) /\ Waiting(v, p) \subseteq Nat
      BY <2>1, <2>2 DEF Found, Waiting
    <3>2. \E i \in Waiting(v, p) : \A j \in Waiting(v, p) : i <= j
      BY <3>1, LeastNumber
    <3>3. FirstOf(v, p) \in Waiting(v, p)
      BY <3>2 DEF FirstOf
    <3>4. QED
      BY <2>2, <3>1, <3>3 DEF Waiting
  <2>4. /\ v \in Device /\ impl_list[v].PID = e /\ v < impl_free_list
    <3>1. v \in Device /\ impl_list[v].PID = e /\ Entry(v) /\ v \in Nat /\ impl_free_list \in Nat
      BY <1>1, <2>1 DEF Found, Devices, Device
    <3>2. v >= impl_free_list => impl_list[v].PID = 0
      BY <3>1 DEF Entry, Unused
    <3>3. e # 0
      BY Names
    <3>4. QED
      BY <3>1, <3>2, <3>3
  <2>5. PICK new : new = RemoveAt(old, k)
    OBVIOUS
  <2>6. /\ new \in Seq(Request) /\ Len(old) \in Nat /\ Len(new) = Len(old) - 1
        /\ \A i \in 1 .. Len(new) : new[i] = IF i < k THEN old[i] ELSE old[i + 1]
    BY <2>5, RemoveAtProperties, LenProperties
  <2>7. PICK body : /\ Send(Dev, p, body) /\ body.status = DEV_STATUS_OK
                    /\ impl_list' = [impl_list EXCEPT ![v].wait_list = new]
    <3>1. [msg[Dev].body EXCEPT !.type = impl_list[v].wait_list[FirstOf(v, p)].type].status = DEV_STATUS_OK
      <4>1. msg[Dev].body = Mail(DEV_UPD, 0, DEV_STATUS_OK, msg[Dev].body.app)
        BY <1>3 DEF IsUpdate
      <4>2. QED
        BY <4>1 DEF Mail
    <3>2. QED
      BY <2>1, <2>2, <2>3, <2>5, <3>1
  <2>8. /\ Devices' /\ \A d : Registered(d)' <=> Registered(d)
        /\ \A w \in Device : impl_list'[w].PID = impl_list[w].PID
        /\ impl_list'[v].wait_list = new
        /\ \A w \in Device : w # v => impl_list'[w].wait_list = impl_list[w].wait_list
    BY <1>1, <1>2, <2>1, <2>4, <2>6, <2>7, ListChanges
  <2>9. /\ sending' \subseteq Proc /\ waiting' \subseteq Proc /\ DOMAIN msg' = Proc
        /\ Dev \notin waiting' /\ msg'[Dev] = [sender |-> Dev, receiver |-> p, body |-> body]
        /\ \A q \in Proc : q # Dev /\ q # p => SameMail(q)
        /\ p \in sending' <=> p \in sending
        /\ \/ /\ Accepts(p, Dev)
              /\ Dev \notin sending' /\ p \notin waiting'
           \/ ~Accepts(p, Dev) /\ Dev \in sending' /\ SameMail(p)
    BY <1>1, <1>2, <1>4, <2>7, SendEffect
  <2>10. \A i \in 1 .. Len(new) : \E j \in 1 .. Len(old) : j # k /\ new[i] = old[j] /\ j = (IF i < k THEN i ELSE i + 1)
    BY <2>6
  <2>11. \A w \in Device : \A i \in 1 .. Len(impl_list[w].wait_list) :
           impl_list[w].wait_list[i].app_pid = p => w = v /\ i = k
    BY <1>1, <2>2, <2>3, <2>4 DEF WaitLists, Once, Apart
  <2>12. /\ \A w \in Device : \A a : OffAt(w, a)' => OffAt(w, a) /\ a # p
         /\ \A w \in Device : \A a : OffAt(w, a) /\ a # p => OffAt(w, a)'
    <3>1. ASSUME NEW a, OffAt(v, a)' PROVE OffAt(v, a) /\ a # p
      <4>1. PICK i \in 1 .. Len(new) : new[i].app_pid = a
        BY <2>8, <3>1 DEF OffAt
      <4>2. PICK j \in 1 .. Len(old) : j # k /\ old[j].app_pid = a
        BY <2>10, <4>1
      <4>3. QED
        BY <2>2, <2>4, <2>11, <4>2 DEF OffAt
    <3>2. ASSUME NEW a, OffAt(v, a), a # p PROVE OffAt(v, a)'
      <4>1. PICK j \in 1 .. Len(old) : old[j].app_pid = a /\ j # k
        BY <2>2, <2>3, <3>2 DEF OffAt
      <4>2. \E i \in 1 .. Len(new) : new[i] = old[j]
        <5>1. CASE j < k
          BY <2>6, <5>1
        <5>2. CASE j > k
          <6>1. j - 1 \in 1 .. Len(new) /\ new[j - 1] = old[j]
            BY <2>6, <5>2
          <6>2. QED
            BY <6>1
        <5>3. QED
          BY <4>1, <5>1, <5>2
      <4>3. QED
        BY <2>8, <4>1, <4>2 DEF OffAt
    <3>3. \A w \in Device : \A a : w # v => (OffAt(w, a)' <=> OffAt(w, a)) /\ (OffAt(w, a) => a # p)
      BY <2>8, <2>11 DEF OffAt
    <3>4. QED
      BY <3>1, <3>2, <3>3
  <2>13. OffAt(v, p) /\ Await(p)
    <3>1. OffAt(v, p)
      BY <2>2, <2>3 DEF OffAt
    <3>2. QED
      BY <1>1, <2>4, <3>1 DEF WaitLists, Off
  <2>14. \A q \in Proc : q # Dev /\ q # p => Same(q)
    BY <1>5, <2>9 DEF Same
  <2>15. \A a \in App : a # p /\ Await(a) => Await(a)'
    BY <2>14, Names DEF Await, Same, SameMail
  <2>16. \A d \in Driver : \A a \in App : PutBy(d, a) /\ (~asked[a].done \/ Updates(d, a)) => PutBy(d, a)'
    <3> SUFFICES ASSUME NEW d \in Driver, NEW a \in App, PutBy(d, a), ~asked[a].done \/ Updates(d, a) PROVE PutBy(d, a)'
      OBVIOUS
    <3>1. a # p
      BY <1>1, <1>4, OneDriver
    <3>2. QED
      BY <1>6, <2>8, <2>12, <3>1 DEF PutBy
  <2>17. Shape'
    BY <1>1, <1>2, <1>5, <2>9 DEF Shape
  <2>18. Once'
    <3>1. ASSUME NEW w \in Device, w # v PROVE Apart(v, w)' /\ Apart(w, v)'
      <4>1. Apart(v, w)
        BY <1>1, <2>4 DEF WaitLists, Once
      <4>2. ASSUME NEW i \in 1 .. Len(new), NEW j \in 1 .. Len(impl_list[w].wait_list),
                   new[i].app_pid = impl_list[w].wait_list[j].app_pid
            PROVE  FALSE
        <5>1. PICK h \in 1 .. Len(old) : new[i] = old[h]
          BY <2>10
        <5>2. QED
          BY <2>2, <3>1, <4>1, <4>2, <5>1 DEF Apart
      <4>3. QED
        BY <2>8, <3>1, <4>2 DEF Apart
    <3>2. Apart(v, v)'
      <4> SUFFICES ASSUME NEW i \in 1 .. Len(new), NEW j \in 1 .. Len(new), new[i].app_pid = new[j].app_pid
                   PROVE  i = j
        BY <2>8 DEF Apart
      <4>1. PICK h \in 1 .. Len(old) : h # k /\ new[i] = old[h] /\ h = (IF i < k THEN i ELSE i + 1)
        BY <2>10
      <4>2. PICK l \in 1 .. Len(old) : l # k /\ new[j] = old[l] /\ l = (IF j < k THEN j ELSE j + 1)
        BY <2>10
      <4>3. Apart(v, v)
        BY <1>1, <2>4 DEF WaitLists, Once
      <4>4. h = l
        BY <2>2, <4>1, <4>2, <4>3 DEF Apart
      <4>5. QED
        BY <2>6, <4>1, <4>2, <4>4
    <3>3. ASSUME NEW w \in Device, NEW u \in Device, w # v, u # v PROVE Apart(w, u)'
      <4>1. Apart(w, u) /\ impl_list'[w].wait_list = impl_list[w].wait_list /\ impl_list'[u].wait_list = impl_list[u].wait_list
        BY <1>1, <2>8, <3>3 DEF WaitLists, Once
      <4>2. QED
        BY <4>1 DEF Apart
    <3>4. QED
      BY <2>4, <3>1, <3>2, <3>3 DEF Once
  <2>19. WaitLists'
    <3>1. \A a \in App : Off(a)' => Await(a)'
      BY <1>1, <2>12, <2>15 DEF WaitLists, Off
    <3>2. QED
      BY <2>18, <3>1 DEF WaitLists
  <2>20. Right(body.status, p)
    BY <1>4, <2>7 DEF Right
  <2>21. \A a \in App : Program(a)'
    BY <1>2, <1>5, <2>7, <2>13, <2>20, Names, ProgramGets
  <2>22. \A d \in Driver : DriverOK(d)'
    <3> SUFFICES ASSUME NEW d \in Driver PROVE DriverOK(d)'
      OBVIOUS
    <3>1. DriverOK(d) /\ Same(d) /\ Dev \notin sending
      BY <1>1, <1>2, <1>4, <2>14, Names DEF DriverOK, Free
    <3>2. QED
      BY <1>2, <1>6, <2>8, <2>16, <3>1, DriverStays
  <2>23. DevSends'
    <3> SUFFICES ASSUME Dev \in sending' PROVE DevSends'
      BY DEF DevSends
    <3>1. ~Accepts(p, Dev) /\ SameMail(p)
      BY <2>9
    <3>2. p \notin waiting
      BY <1>1, <3>1 DEF Program, Accepts
    <3>3. pc'[p] = "sent" /\ p \notin sending' /\ p \notin waiting' /\ ~Off(p)'
      BY <1>4, <1>5, <2>12, <2>13, <3>1, <3>2 DEF Await, SameMail, Off
    <3>4. msg'[Dev].receiver = p /\ msg'[Dev].sender = Dev /\ msg'[Dev].body.status = body.status
      BY <2>9
    <3>5. QED
      BY <1>2, <1>5, <2>20, <3>3, <3>4 DEF DevSends, Right, Free
  <2>24. DevOK'
    BY <1>5, <2>9, <2>23 DEF DevOK, DevWaits, DevHandles, DevAsks, DevPasses, Asking
  <2>25. QED
    BY <2>8, <2>17, <2>19, <2>21, <2>22, <2>24 DEF DevInv
<1>9. QED
  BY <1>7, <1>8

\* A driver gets the first free entry.
LEMMA RegisterImplKeeps ==
  ASSUME DevInv, RegisterImpl
  PROVE  DevInv'
<1>1. /\ Shape /\ Devices /\ WaitLists
      /\ \A a \in App : Program(a)
      /\ \A d \in Driver : DriverPlace(d) /\ DriverSend(d) /\ DriverWait(d) /\ DriverGot(d) /\ PutOff(d)
      /\ DevWaits /\ DevSends /\ DevHandles /\ DevAsks /\ DevPasses
  BY InvParts
<1>2. /\ Dev \in Proc /\ pc[Dev] = "handle" /\ Free(Dev) /\ msg[Dev].body.type = DEV_REG
      /\ UNCHANGED <<job, put, asked>>
  BY Names DEF RegisterImpl, Handling, At
<1>3. PICK p \in Driver : /\ p = msg[Dev].sender /\ ~Registered(p) /\ p \notin sending
                          /\ pc[p] = "sent" \/ (p \in waiting /\ pc[p] = "serve")
  <2>1. Dev \notin waiting
    BY <1>2 DEF Free
  <2>2. ASSUME NEW a \in App, a = msg[Dev].sender, msg[Dev].body = Mail(asked[a].type, asked[a].device, 0, 0)
        PROVE  FALSE
    <3>1. asked[a] \in [type : {0, DEV_READ, DEV_OPEN}, device : Device, done : BOOLEAN]
      BY <1>1 DEF Program
    <3>2. QED
      BY <1>2, <2>2, <3>1 DEF Mail
  <2>3. ~IsUpdate(msg[Dev], msg[Dev].sender)
    BY <1>2 DEF IsUpdate, Mail
  <2>4. QED
    BY <1>1, <1>2, <2>1, <2>2, <2>3 DEF DevHandles
<1>4. p \in Proc /\ p # Dev
  BY Names
<1>5. PICK f \in Nat : f = impl_free_list /\ f \in Device
  BY <1>1 DEF Devices, Device
<1> DEFINE R == {d \in Driver : Registered(d)}
<1>6. /\ IsFiniteSet(Driver) /\ Cardinality(Driver) \in Nat
      /\ IsFiniteSet(R) /\ Cardinality(R) = f /\ p \notin R /\ f + 1 \in Device
  <2>1. IsFiniteSet(Driver) /\ Cardinality(Driver) \in Nat
    BY DevAssumption, FS_CardinalityType DEF DevAssumption
  <2>2. Cardinality(R) = f
    BY <1>1, <1>5 DEF Devices
  <2>3. p \notin R
    BY <1>3
  <2> HIDE DEF R
  <2>4. R \subseteq Driver
    BY DEF R
  <2>5. IsFiniteSet(R) /\ f <= Cardinality(Driver) /\ f # Cardinality(Driver)
    BY <2>1, <2>2, <2>3, <2>4, FS_Subset
  <2>6. QED
    BY <1>5, <2>1, <2>2, <2>3, <2>5 DEF Device
<1>7. /\ \E may \in BOOLEAN :
           impl_list' = [impl_list EXCEPT ![f] = [@ EXCEPT !.InUse = TRUE, !.PID = p, !.Has_Permission = may, !.next = None]]
      /\ impl_free_list' = impl_list[f].next
      /\ Goto(Dev, "recv")
      /\ Send(Dev, p, Mail(DEV_REG, f, 0, 0))
  BY <1>3, <1>5 DEF RegisterImpl
<1>8. /\ impl_list[f] \in Implementation /\ impl_list[f].wait_list = << >> /\ impl_free_list' = f + 1
  <2>1. Entry(f)
    BY <1>1, <1>5 DEF Devices
  <2>2. impl_list[f] = [Unused EXCEPT !.next = f + 1]
    BY <1>5, <1>6, <2>1 DEF Entry
  <2>3. QED
    BY <1>7, <2>1, <2>2 DEF Entry, Unused
<1>9. /\ DOMAIN impl_list' = Device
      /\ \A v \in Device : v # f => impl_list'[v] = impl_list[v]
      /\ impl_list'[f] \in Implementation /\ impl_list'[f].InUse /\ impl_list'[f].PID = p
      /\ impl_list'[f].wait_list = << >>
  <2>1. /\ DOMAIN impl_list' = Device /\ \A v \in Device : v # f => impl_list'[v] = impl_list[v]
        /\ \E may \in BOOLEAN :
             impl_list'[f] = [impl_list[f] EXCEPT !.InUse = TRUE, !.PID = p, !.Has_Permission = may, !.next = None]
    BY <1>1, <1>5, <1>7 DEF Devices
  <2>2. QED
    BY <1>8, <2>1 DEF Implementation
<1>10. \A v \in Device : v \in Nat
  BY DEF Device
<1>11. \A d : Registered(d)' <=> Registered(d) \/ d = p
  BY <1>5, <1>6, <1>8, <1>9, <1>10 DEF Registered
<1>12. Devices'
  <2>1. ASSUME NEW v \in Device PROVE Entry(v)'
    <3>1. CASE v = f
      BY <1>8, <1>9, <1>10, <3>1 DEF Entry
    <3>2. CASE v # f
      <4>1. Entry(v) /\ impl_list'[v] = impl_list[v] /\ v \in Nat
        BY <1>1, <1>9, <1>10, <3>2 DEF Devices
      <4>2. (v < f + 1 => v < f) /\ (v >= f + 1 => v >= f)
        BY <3>2, <4>1
      <4>3. QED
        BY <1>5, <1>8, <4>1, <4>2 DEF Entry
    <3>3. QED
      BY <3>1, <3>2
  <2>2. OneEach'
    <3>1. \A v \in Device : v < f => impl_list[v].PID # p
      BY <1>3, <1>5 DEF Registered
    <3>2. OneEach
      BY <1>1 DEF Devices
    <3>3. \A v \in Device : v < f + 1 => v = f \/ v < f
      BY <1>10
    <3>4. /\ \A v \in Device : v # f => impl_list'[v].PID = impl_list[v].PID
          /\ impl_list'[f].PID = p
      BY <1>9
    <3>5. SUFFICES ASSUME NEW v \in Device, NEW w \in Device, v < f + 1, w < f + 1,
                          impl_list'[v].PID = impl_list'[w].PID
                   PROVE  v = w
      BY <1>5, <1>8 DEF OneEach
    <3>6. CASE v = f \/ w = f
      BY <3>1, <3>3, <3>4, <3>5, <3>6
    <3>7. CASE v # f /\ w # f
      <4>1. v < f /\ w < f /\ impl_list[v].PID = impl_list[w].PID
        BY <3>3, <3>4, <3>5, <3>7
      <4>2. QED
        BY <1>5, <3>2, <4>1 DEF OneEach
    <3>8. QED
      BY <3>6, <3>7
  <2>3. Cardinality({d \in Driver : Registered(d)'}) = f + 1
    <3>1. {d \in Driver : Registered(d)'} = R \cup {p}
      BY <1>11
    <3> HIDE DEF R
    <3>2. QED
      BY <1>6, <3>1, FS_AddElement
  <2>4. QED
    BY <1>6, <1>8, <1>9, <2>1, <2>2, <2>3 DEF Devices
<1>13. \A v \in Device : /\ impl_list'[v].wait_list = impl_list[v].wait_list
                         /\ \A a : (OffAt(v, a)' <=> OffAt(v, a)) /\ (OffAt(v, a) => impl_list'[v].PID = impl_list[v].PID)
  <2>1. \A v \in Device : impl_list'[v].wait_list = impl_list[v].wait_list
    BY <1>8, <1>9
  <2>2. \A v \in Device : \A a : OffAt(v, a)' <=> OffAt(v, a)
    BY <2>1 DEF OffAt
  <2>3. \A a : ~OffAt(f, a)
    BY <1>8 DEF OffAt
  <2>4. QED
    BY <1>9, <2>1, <2>2, <2>3
<1>14. DOMAIN pc' = Proc /\ pc'[Dev] = "recv" /\ \A q \in Proc : q # Dev => pc'[q] = pc[q]
  BY <1>1, <1>2, <1>7, GotoEffect
<1> DEFINE m == [sender |-> Dev, receiver |-> p, body |-> Mail(DEV_REG, f, 0, 0)]
<1>15. /\ sending' \subseteq Proc /\ waiting' \subseteq Proc /\ DOMAIN msg' = Proc
       /\ Dev \notin waiting' /\ msg'[Dev] = m
       /\ \A q \in Proc : q # Dev /\ q # p => SameMail(q)
       /\ p \in sending' <=> p \in sending
       /\ \/ /\ Accepts(p, Dev)
             /\ Dev \notin sending' /\ p \notin waiting' /\ msg'[p] = m
          \/ ~Accepts(p, Dev) /\ Dev \in sending' /\ SameMail(p)
  BY <1>1, <1>2, <1>4, <1>7, SendEffect
<1>16. Accepts(p, Dev) <=> p \in waiting
  BY <1>1, <1>3 DEF Accepts, DriverWait, DriverPlace
<1>17. \A q \in Proc : q # Dev /\ q # p => Same(q)
  BY <1>14, <1>15 DEF Same
<1>18. \A a \in App : Await(a) => Await(a)'
  BY <1>3, <1>17, Names DEF Await, Same, SameMail
<1>19. \A d : ~IsAsked(d) /\ \A a : PutBy(d, a) => PutBy(d, a)'
  <2>1. \A d : ~IsAsked(d) /\ \A a : PutBy(d, a) => \E v \in Device : impl_list[v].PID = d /\ OffAt(v, a)
    BY <1>2 DEF IsAsked, PutBy, Asking
  <2>2. QED
    BY <1>13, <2>1 DEF PutBy
<1>20. Shape'
  BY <1>1, <1>2, <1>14, <1>15 DEF Shape
<1>21. WaitLists'
  <2>1. \A a \in App : Off(a)' => Await(a)'
    BY <1>1, <1>13, <1>18 DEF WaitLists, Off
  <2>2. ASSUME NEW v \in Device, NEW w \in Device PROVE Apart(v, w)'
    <3>1. Apart(v, w)
      BY <1>1 DEF WaitLists, Once
    <3>2. QED
      BY <1>13, <3>1 DEF Apart
  <2>3. QED
    BY <2>1, <2>2 DEF WaitLists, Once
<1>22. \A a \in App : Program(a)'
  BY <1>1, <1>2, <1>3, <1>17, Names, ProgramStays
<1>23. \A d \in Driver : DriverOK(d)'
  <2> SUFFICES ASSUME NEW d \in Driver PROVE DriverOK(d)'
    OBVIOUS
  <2>1. CASE d = p
    <3>1. PutOff(p)'
      BY <1>1, <1>2, <1>19 DEF PutOff, Coming
    <3>2. CASE p \in waiting
      <4>1. pc'[p] = "serve" /\ p \notin sending' /\ p \notin waiting'
        BY <1>1, <1>3, <1>4, <1>14, <1>15, <1>16, <3>2 DEF DriverPlace
      <4>2. QED
        BY <2>1, <3>1, <4>1 DEF DriverOK, DriverPlace, DriverSend, DriverWait, DriverGot
    <3>3. CASE p \notin waiting
      <4>1. pc'[p] = "sent" /\ p \notin sending' /\ p \notin waiting' /\ Dev \in sending' /\ msg'[Dev].receiver = p
        BY <1>3, <1>4, <1>14, <1>15, <1>16, <3>3 DEF SameMail
      <4>2. QED
        BY <1>14, <2>1, <3>1, <4>1 DEF DriverOK, DriverPlace, DriverSend, DriverWait, DriverGot
    <3>4. QED
      BY <3>2, <3>3
  <2>2. CASE d # p
    <3>1. DriverOK(d) /\ Same(d) /\ Dev \notin sending
      BY <1>1, <1>2, <1>17, <2>2, Names DEF DriverOK, Free
    <3>2. QED
      BY <1>2, <1>11, <1>19, <2>2, <3>1, DriverStays
  <2>3. QED
    BY <2>1, <2>2
<1>24. DevSends'
  <2> SUFFICES ASSUME Dev \in sending' PROVE DevSends'
    BY DEF DevSends
  <2>1. pc'[p] = "sent" /\ p \notin sending' /\ p \notin waiting'
    BY <1>3, <1>4, <1>14, <1>15, <1>16 DEF SameMail
  <2>2. msg'[Dev].receiver = p /\ msg'[Dev].sender = Dev /\ Registered(p)'
    BY <1>11, <1>15
  <2>3. QED
    BY <1>14, <2>1, <2>2 DEF DevSends, Free
<1>25. DevOK'
  BY <1>14, <1>15, <1>24 DEF DevOK, DevWaits, DevHandles, DevAsks, DevPasses, Asking
<1>26. QED
  BY <1>12, <1>20, <1>21, <1>22, <1>23, <1>25 DEF DevInv

-----------------------------------------------------------------------------

LEMMA DevInvHolds == DevInit => DevInv
<1> SUFFICES ASSUME DevInit PROVE DevInv
  OBVIOUS
<1>1. /\ sending = {} /\ waiting = {} /\ DOMAIN msg = Proc /\ DOMAIN pc = Proc
      /\ DOMAIN asked = App /\ DOMAIN put = Driver /\ DOMAIN impl_list = Device
      /\ impl_free_list = 0
      /\ \A a \in App : asked[a] = [type |-> 0, device |-> 0, done |-> FALSE] /\ pc[a] = "run"
      /\ \A d \in Driver : put[d] = << >> /\ pc[d] = "start"
      /\ pc[Dev] = "recv"
  BY Names DEF DevInit, Init
<1>2. Shape
  BY <1>1 DEF Shape
<1>3. Cardinality(Driver) \in Nat /\ 0 \in Device /\ \A v \in Device : v \in Nat
  BY DevAssumption, FS_CardinalityType DEF DevAssumption, Device
<1>4. \A d : ~Registered(d)
  BY <1>1, <1>3 DEF Registered
<1>5. \A v \in Device : Entry(v) /\ impl_list[v].wait_list = << >>
  <2> SUFFICES ASSUME NEW v \in Device PROVE Entry(v) /\ impl_list[v].wait_list = << >>
    OBVIOUS
  <2>1. impl_list[v] = [Unused EXCEPT !.next = IF v + 1 \in Device THEN v + 1 ELSE None]
    BY DEF DevInit
  <2>2. PICK n \in Device \cup {None} : n = IF v + 1 \in Device THEN v + 1 ELSE None
    OBVIOUS
  <2>3. impl_list[v] = [InUse |-> FALSE, PID |-> 0, Has_Permission |-> FALSE, wait_list |-> << >>, next |-> n]
    BY <2>1, <2>2 DEF Unused
  <2>4. impl_list[v] \in Implementation /\ impl_list[v].wait_list = << >>
    BY <2>3 DEF Implementation
  <2>5. QED
    BY <1>1, <1>3, <2>1, <2>4 DEF Entry
<1>6. Devices
  <2>1. {d \in Driver : Registered(d)} = {}
    BY <1>4
  <2>2. Cardinality({d \in Driver : Registered(d)}) = 0
    BY <2>1, FS_EmptySet
  <2>3. OneEach
    BY <1>1, <1>3 DEF OneEach
  <2>4. QED
    BY <1>1, <1>3, <1>5, <2>2, <2>3 DEF Devices
<1>7. WaitLists
  BY <1>5 DEF WaitLists, Off, OffAt, Once, Apart
<1>8. \A a \in App : Program(a)
  BY <1>1, <1>3 DEF Program
<1>9. \A d \in Driver : DriverOK(d)
  <2> SUFFICES ASSUME NEW d \in Driver PROVE DriverOK(d)
    OBVIOUS
  <2>1. put[d] = << >> /\ << >> \in Seq(App) /\ Len(<< >>) = 0
    BY <1>1, EmptySeq
  <2>2. PutOff(d)
    BY <2>1 DEF PutOff
  <2>3. QED
    BY <1>1, <1>4, <2>2 DEF DriverOK, DriverPlace, DriverSend, DriverWait, DriverGot, Free
<1>10. DevOK
  BY <1>1 DEF DevOK, DevWaits, DevSends, DevHandles, DevAsks, DevPasses, Asking
<1>11. QED
  BY <1>2, <1>6, <1>7, <1>8, <1>9, <1>10 DEF DevInv

LEMMA DevInvStays == DevInv /\ [DevNext]_dvars => DevInv'
<1> SUFFICES ASSUME DevInv, [DevNext]_dvars PROVE DevInv'
  OBVIOUS
<1>1. CASE DevStep
  BY <1>1, DevWaitKeeps, DevTakeKeeps, RegisterImplKeeps, PassOnKeeps, AskDriverKeeps, PassBackKeeps, UpdateImplKeeps
  DEF DevStep
<1>2. ASSUME NEW d \in Driver, DriverStep(d) \/ Ready(d) PROVE DevInv'
  BY <1>2, RegisterKeeps, AwaitIDKeeps, ServeKeeps, AnswerKeeps, UpdateKeeps, ReadyKeeps DEF DriverStep
<1>3. ASSUME NEW a \in App, (\E r \in Requests : DevCall(a, r[1], r[2])) \/ AwaitStatus(a) \/ CallEnds(a) PROVE DevInv'
  BY <1>3, DevCallKeeps, AwaitStatusKeeps, CallEndsKeeps
<1>4. CASE UNCHANGED dvars
  <2>1. /\ sending' = sending /\ waiting' = waiting /\ msg' = msg /\ impl_list' = impl_list
        /\ impl_free_list' = impl_free_list /\ pc' = pc /\ job' = job /\ asked' = asked /\ put' = put
    BY <1>4 DEF dvars, vars
  <2>2. /\ Devices' /\ \A d : Registered(d)' <=> Registered(d)
        /\ \A v, a : OffAt(v, a)' <=> OffAt(v, a)
        /\ \A a : Off(a)' <=> Off(a)
    BY <2>1, DevicesStay, InvParts
  <2>3. (\A d : IsAsked(d)' <=> IsAsked(d)) /\ \A d, a : PutBy(d, a)' <=> PutBy(d, a)
    BY <2>1, <2>2 DEF IsAsked, PutBy, JobDriver, Asking, Free, Replies
  <2>4. Shape' /\ WaitLists' /\ \A a \in App : Program(a)'
    <3>1. \A p : Await(p)' <=> Await(p)
      BY <2>1 DEF Await
    <3>2. QED
      BY <2>1, <3>1, InvParts, WaitListsStay DEF Shape, Program, Right
  <2>5. ASSUME NEW d \in Driver PROVE DriverOK(d)'
    <3>1. DriverOK(d) /\ Same(d)
      BY <2>1 DEF DevInv, Same, SameMail
    <3>2. QED
      BY <2>1, <2>2, <2>3, <3>1, DriverStays
  <2>6. DevOK'
    <3>1. (\A p : Await(p)' <=> Await(p)) /\ JobDriver' = JobDriver /\ (Asking' <=> Asking)
      BY <2>1 DEF Await, JobDriver, Asking
    <3>2. DevOK
      BY DEF DevInv
    <3>3. QED
      BY <2>1, <2>2, <2>3, <3>1, <3>2 DEF DevOK, DevWaits, DevSends, DevHandles, DevAsks, DevPasses, Right,
         Free, JobMail, IsUpdate, Updates, Holds, Replies, Told
  <2>7. QED
    BY <2>2, <2>4, <2>5, <2>6 DEF DevInv
<1>5. QED
  BY <1>1, <1>2, <1>3, <1>4 DEF DevNext

\* Who waits for what between a call and its answer, whatever drivers put off.
THEOREM DevCorrect == DevSpec => []DevInv
<1>1. DevInit => DevInv
  BY DevInvHolds
<1>2. DevInv /\ [DevNext]_dvars => DevInv'
  BY DevInvStays
<1>3. QED
  BY <1>1, <1>2, PTL DEF DevSpec

\* An answer is that of the program's own request (comment of dev.c).
THEOREM AnswersAreRight == DevSpec => []AnswersMatch
<1>1. DevInv => AnswersMatch
  BY InvParts DEF AnswersMatch, Program, Right, At, Free
<1>2. QED
  BY <1>1, DevCorrect, PTL

\* A request that a driver has put off is in the wait list of its device, once,
\* until the driver says that it is done (dev.c).
THEOREM PutOffStays == DevSpec => []PutOffKept
<1>1. ASSUME DevInv PROVE PutOffKept
  <2> SUFFICES ASSUME NEW d \in Driver, NEW a \in App, a \in ToSet(put[d]), ~(pc[Dev] \in {"ask", "pass"} /\ job.app = a)
               PROVE  \E v \in Device : impl_list[v].PID = d /\ Cardinality(Waiting(v, a)) = 1
    BY DEF PutOffKept
  <2>1. PutOff(d) /\ WaitLists /\ Devices
    BY <1>1, InvParts
  <2>2. PICK i \in 1 .. Len(put[d]) : put[d][i] = a
    <3>1. put[d] \in Seq(App)
      BY <2>1 DEF PutOff
    <3>2. QED
      BY <3>1 DEF ToSet
  <2>3. PutBy(d, a)
    BY <2>1, <2>2 DEF PutOff, Coming
  <2>4. PICK v \in Device : impl_list[v].PID = d /\ OffAt(v, a)
    BY <2>3 DEF PutBy, Asking
  <2>5. PICK k \in 1 .. Len(impl_list[v].wait_list) : impl_list[v].wait_list[k].app_pid = a
    BY <2>4 DEF OffAt
  <2>6. impl_list[v].wait_list \in Seq(Request)
    BY <2>1 DEF Devices, Entry, Implementation
  <2>7. Waiting(v, a) = {k}
    <3>1. Apart(v, v) /\ DOMAIN impl_list[v].wait_list = 1 .. Len(impl_list[v].wait_list)
      BY <2>1, <2>6 DEF WaitLists, Once
    <3>2. QED
      BY <2>5, <3>1 DEF Waiting, Apart
  <2>8. QED
    BY <2>4, <2>7, FS_Singleton
<1>2. QED
  BY <1>1, DevCorrect, PTL

-----------------------------------------------------------------------------
(***************************************************************************)
(* The keyboard: the bytes reach kbd_read in order, for every size of the  *)
(* buffer, any keys and any number of presses (BytesInOrder), and letters  *)
(* come with the modifiers that were down (LettersAsTyped).                *)
(*                                                                         *)
(* The inductive invariant says where in the ring each byte is that has    *)
(* been delivered and not been read, and how far `count', of which the     *)
(* race of interrupt_kbd and read_circular_buffer loses increments, can be *)
(* from their number.                                                      *)
(***************************************************************************)

Code == {"00", "2A", "1E", "E0", "1D", "37", "E1", "45", "9D", "C5", "AA", "9E", "B7"}

Pending  == Len(sent) - nread
Place(j) == IF j >= Size THEN j - Size ELSE j

Types ==
  /\ rd \in 0..(Size - 1) /\ wr \in 0..(Size - 1)
  /\ buf \in [0..(Size - 1) -> Code]
  /\ sent \in Seq([code : Code, down : SUBSET DOMAIN Make])
  /\ coming \in Seq(Code) /\ got \in Seq(Code)
  /\ down \subseteq DOMAIN Make
  /\ nread \in Nat /\ count \in Int /\ loaded \in Int
  /\ stage \in {"recv", "take", "load", "store"}

\* The head is Pending places behind the tail, and between them lie the bytes.
RingHolds ==
  /\ Pending \in 0..Size
  /\ wr = Place(rd + Pending)
  /\ \A i \in 0..(Pending - 1) : buf[Place(rd + i)] = sent[nread + 1 + i].code

\* count is at most Pending, and one more after the byte is taken; what the
\* reader has loaded is not more than count has grown to since.
CountBelow ==
  /\ stage \in {"recv", "take"} => count <= Pending
  /\ stage \in {"load", "store"} => count <= Pending + 1
  /\ stage = "store" => loaded <= count

\* The bytes of the running kbd_read are the last ones that were read.
GotLast ==
  /\ Len(got) <= nread
  /\ \A i \in 1..Len(got) : got[i] = sent[nread - Len(got) + i].code

KbdInv == Types /\ RingHolds /\ CountBelow /\ GotLast

-----------------------------------------------------------------------------

\* The codes of all keys are codes.
LEMMA CodesOfKeys ==
  ASSUME NEW k \in DOMAIN Make
  PROVE  Make[k] \in Seq(Code) /\ Break[k] \in Seq(Code)
<1>1. k \in {"shift", "a", "ctrl_r", "printscreen", "pause"}
  BY DEF Make
<1>2. CASE k = "shift"
  <2>1. Make[k] = <<"2A">> /\ Break[k] = <<"AA">>
    BY <1>2 DEF Make, Break
  <2>2. <<"2A">> \in Seq(Code) /\ <<"AA">> \in Seq(Code)
    BY DEF Code
  <2> QED BY <2>1, <2>2
<1>3. CASE k = "a"
  <2>1. Make[k] = <<"1E">> /\ Break[k] = <<"9E">>
    BY <1>3 DEF Make, Break
  <2>2. <<"1E">> \in Seq(Code) /\ <<"9E">> \in Seq(Code)
    BY DEF Code
  <2> QED BY <2>1, <2>2
<1>4. CASE k = "ctrl_r"
  <2>1. Make[k] = <<"E0", "1D">> /\ Break[k] = <<"E0", "9D">>
    BY <1>4 DEF Make, Break
  <2>2. <<"E0", "1D">> \in Seq(Code) /\ <<"E0", "9D">> \in Seq(Code)
    BY DEF Code
  <2> QED BY <2>1, <2>2
<1>5. CASE k = "printscreen"
  <2>1. Make[k] = <<"E0", "2A", "E0", "37">> /\ Break[k] = <<"E0", "B7", "E0", "AA">>
    BY <1>5 DEF Make, Break
  <2>2. <<"E0", "2A", "E0", "37">> \in Seq(Code) /\ <<"E0", "B7", "E0", "AA">> \in Seq(Code)
    BY DEF Code
  <2> QED BY <2>1, <2>2
<1>6. CASE k = "pause"
  <2>1. Make[k] = <<"E1", "1D", "45", "E1", "9D", "C5">> /\ Break[k] = << >>
    BY <1>6 DEF Make, Break
  <2>2. <<"E1", "1D", "45", "E1", "9D", "C5">> \in Seq(Code) /\ << >> \in Seq(Code)
    BY DEF Code
  <2> QED BY <2>1, <2>2
<1> QED BY <1>1, <1>2, <1>3, <1>4, <1>5, <1>6

\* Places that are less than Size apart differ.
LEMMA PlacesApart ==
  ASSUME NEW r \in 0..(Size - 1), NEW n \in 0..(Size - 1), NEW i \in 0..(n - 1)
  PROVE  Place(r + i) # Place(r + n) /\ Place(r + i) \in 0..(Size - 1)
BY KeyboardAssumption DEF Place

\* Place i behind the next one is place i + 1 behind this one.
LEMMA PlaceAfterNext ==
  ASSUME NEW r \in 0..(Size - 1), NEW i \in 0..(Size - 1)
  PROVE  Place(Wrap(r + 1) + i) = Place(r + (i + 1))
BY KeyboardAssumption DEF Place, Wrap

\* What the invariant says of numbers alone.
LEMMA Numbers ==
  ASSUME KbdInv
  PROVE  /\ Size \in Nat /\ Size > 1 /\ rd \in 0..(Size - 1) /\ nread \in Nat /\ Len(sent) \in Nat
         /\ Pending \in 0..Size /\ Len(sent) = nread + Pending
BY KeyboardAssumption DEF KbdInv, Types, RingHolds, Pending

\* The keyboard starts with nothing to read.
LEMMA InitInv == KbdInit => KbdInv
<1> SUFFICES ASSUME KbdInit PROVE KbdInv
  OBVIOUS
<1>1. Len(sent) = 0 /\ Len(got) = 0 /\ Pending = 0
  BY DEF KbdInit, Pending
<1>2. sent \in Seq([code : Code, down : SUBSET DOMAIN Make]) /\ coming \in Seq(Code) /\ got \in Seq(Code)
  BY DEF KbdInit
<1>3. buf \in [0..(Size - 1) -> Code]
  BY DEF KbdInit, Code
<1>4. Types
  BY <1>2, <1>3, KeyboardAssumption DEF KbdInit, Types
<1>5. RingHolds
  BY <1>1, KeyboardAssumption DEF KbdInit, RingHolds, Place
<1>6. CountBelow /\ GotLast
  BY <1>1 DEF KbdInit, CountBelow, GotLast
<1> QED BY <1>4, <1>5, <1>6 DEF KbdInv

\* A key that goes down or up only makes bytes that are still to come.
LEMMA MoveInv ==
  ASSUME KbdInv, NEW k \in Presses, Move(k)
  PROVE  KbdInv'
BY CodesOfKeys, KeyboardAssumption
   DEF KbdInv, Types, RingHolds, CountBelow, GotLast, Pending, Place, Move, ring, task

\* interrupt_kbd: the byte goes to the place behind the last one that is pending.
LEMMA InterruptInv ==
  ASSUME KbdInv, InterruptKbd
  PROVE  KbdInv'
<1>1. Types'
  BY KeyboardAssumption DEF KbdInv, Types, InterruptKbd, Wrap, task
<1>2. /\ Len(sent') = Len(sent) + 1 /\ Pending' = Pending + 1 /\ Pending < Size
      /\ sent'[Len(sent) + 1].code = Head(coming)
      /\ \A i \in 1..Len(sent) : sent'[i] = sent[i]
  BY DEF KbdInv, Types, InterruptKbd, Pending
<1>3. RingHolds'
  <2>1. wr' = Place(rd' + Pending')
    BY <1>2, KeyboardAssumption DEF KbdInv, Types, RingHolds, InterruptKbd, Wrap, Place, task
  <2>2. ASSUME NEW i \in 0..(Pending - 1)
        PROVE  Place(rd + i) # wr /\ Place(rd + i) \in 0..(Size - 1)
    <3>1. Pending \in 0..(Size - 1) /\ rd \in 0..(Size - 1)
      BY <1>2, Numbers
    <3>2. wr = Place(rd + Pending)
      BY DEF KbdInv, RingHolds
    <3> QED BY ONLY <3>1, <3>2, PlacesApart, i \in 0..(Pending - 1)
  <2>3. ASSUME NEW i \in 0..(Pending' - 1)
        PROVE  buf'[Place(rd' + i)] = sent'[nread' + 1 + i].code
    <3>1. CASE i = Pending
      <4>1. nread + 1 + i = Len(sent) + 1
        BY <3>1 DEF KbdInv, Types, Pending
      <4>2. buf'[Place(rd + i)] = Head(coming)
        BY <3>1 DEF KbdInv, Types, RingHolds, InterruptKbd
      <4> QED BY <4>1, <4>2, <1>2 DEF InterruptKbd, task
    <3>2. CASE i # Pending
      <4>1. i \in 0..(Pending - 1)
        BY <3>2, <1>2 DEF KbdInv, RingHolds
      <4>2. buf'[Place(rd + i)] = buf[Place(rd + i)]
        BY <4>1, <2>2 DEF KbdInv, Types, InterruptKbd
      <4>3. nread + 1 + i \in 1..Len(sent)
        BY <4>1 DEF KbdInv, Types, Pending
      <4> QED BY <4>1, <4>2, <4>3, <1>2 DEF KbdInv, RingHolds, InterruptKbd, task
    <3> QED BY <3>1, <3>2
  <2>4. Pending' \in 0..Size
    BY <1>2, Numbers
  <2> QED BY <2>1, <2>3, <2>4 DEF RingHolds
<1>4. CountBelow'
  BY <1>2 DEF KbdInv, Types, RingHolds, CountBelow, InterruptKbd, task
<1>5. GotLast'
  <2>1. got' = got /\ nread' = nread /\ Len(got) \in Nat /\ Len(got) <= nread /\ nread <= Len(sent)
    BY DEF KbdInv, Types, RingHolds, Pending, GotLast, InterruptKbd, task
  <2>2. \A i \in 1..Len(got) : nread - Len(got) + i \in 1..Len(sent)
    BY <2>1, Numbers
  <2> QED BY <2>1, <2>2, <1>2 DEF KbdInv, GotLast
<1> QED BY <1>1, <1>3, <1>4, <1>5 DEF KbdInv

\* An interrupt message begins a new kbd_read.
LEMMA RecvInv ==
  ASSUME KbdInv, Recv
  PROVE  KbdInv'
<1>1. /\ Types' /\ stage' \in {"recv", "take"} /\ got' = << >>
  BY DEF KbdInv, Types, Recv, ring, keys
<1>2. RingHolds' /\ CountBelow'
  BY <1>1 DEF KbdInv, RingHolds, CountBelow, Pending, Place, Recv, ring, keys
<1>3. GotLast'
  BY <1>1 DEF KbdInv, Types, GotLast, Recv
<1> QED BY <1>1, <1>2, <1>3 DEF KbdInv

\* read_circular_buffer: the byte at the tail is the next one that was delivered.
LEMMA TakeInv ==
  ASSUME KbdInv, TakeByte
  PROVE  KbdInv'
<1>1. Types'
  BY KeyboardAssumption DEF KbdInv, Types, TakeByte, Wrap, keys
<1>2. Pending' = Pending - 1 /\ Pending > 0
  BY DEF KbdInv, Types, RingHolds, CountBelow, Pending, TakeByte
<1>3. RingHolds'
  <2>1. Pending' \in 0..Size
    BY <1>2, Numbers
  <2>2. wr' = Place(rd' + Pending')
    <3>1. Place(Wrap(rd + 1) + (Pending - 1)) = Place(rd + Pending)
      BY <1>2, Numbers, PlaceAfterNext
    <3> QED BY <3>1, <1>2 DEF KbdInv, RingHolds, TakeByte
  <2>3. ASSUME NEW i \in 0..(Pending' - 1)
        PROVE  buf'[Place(rd' + i)] = sent'[nread' + 1 + i].code
    <3>1. i + 1 \in 0..(Pending - 1) /\ i \in 0..(Size - 1)
      BY <1>2, Numbers
    <3>2. Place(rd' + i) = Place(rd + (i + 1))
      BY <3>1, Numbers, PlaceAfterNext DEF TakeByte
    <3>3. nread' + 1 + i = nread + 1 + (i + 1)
      BY DEF KbdInv, Types, TakeByte
    <3> QED BY <3>1, <3>2, <3>3 DEF KbdInv, RingHolds, TakeByte
  <2> QED BY <2>1, <2>2, <2>3 DEF RingHolds
<1>4. CountBelow'
  BY <1>2 DEF KbdInv, Types, RingHolds, CountBelow, TakeByte
<1>5. buf[rd] = sent[nread + 1].code
  <2>1. 0 \in 0..(Pending - 1) /\ Place(rd + 0) = rd /\ nread + 1 + 0 = nread + 1
    BY <1>2, Numbers DEF Place
  <2> QED BY <2>1 DEF KbdInv, RingHolds
<1>6. GotLast'
  <2>1. /\ Len(got') = Len(got) + 1 /\ got'[Len(got) + 1] = buf[rd]
        /\ \A i \in 1..Len(got) : got'[i] = got[i]
    BY DEF KbdInv, Types, TakeByte
  <2>2. Len(got) \in Nat /\ Len(got) <= nread /\ nread' = nread + 1 /\ sent' = sent
    BY DEF KbdInv, Types, GotLast, TakeByte
  <2>3. ASSUME NEW i \in 1..Len(got')
        PROVE  got'[i] = sent'[nread' - Len(got') + i].code
    <3>1. nread' - Len(got') + i = nread - Len(got) + i
      BY <2>1, <2>2, Numbers
    <3>2. CASE i = Len(got) + 1
      <4>1. nread - Len(got) + i = nread + 1
        BY <3>2, <2>2, Numbers
      <4> QED BY ONLY <4>1, <3>1, <3>2, <2>1, <2>2, <1>5
    <3>3. CASE i \in 1..Len(got)
      BY <3>1, <3>3, <2>1, <2>2 DEF KbdInv, GotLast
    <3> QED BY <3>2, <3>3, <2>1, <2>2
  <2> QED BY <2>1, <2>2, <2>3, Numbers DEF GotLast
<1> QED BY <1>1, <1>3, <1>4, <1>6 DEF KbdInv

\* The two halves of `count--'.
LEMMA LoadInv ==
  ASSUME KbdInv, LoadCount
  PROVE  KbdInv'
BY DEF KbdInv, Types, RingHolds, CountBelow, GotLast, Pending, Place, LoadCount, ring, keys

LEMMA StoreInv ==
  ASSUME KbdInv, StoreCount
  PROVE  KbdInv'
<1>1. Types' /\ RingHolds' /\ GotLast'
  BY DEF KbdInv, Types, RingHolds, GotLast, Pending, Place, StoreCount, keys
<1>2. CountBelow'
  BY DEF KbdInv, Types, RingHolds, CountBelow, Pending, StoreCount, keys
<1> QED BY <1>1, <1>2 DEF KbdInv

LEMMA StutterInv == KbdInv /\ UNCHANGED kbvars => KbdInv'
BY DEF KbdInv, Types, RingHolds, CountBelow, GotLast, Pending, Place, kbvars, ring, task, keys

\* What the ring holds is what was delivered and not read, at every time.
THEOREM RingCorrect == KbdSpec => []KbdInv
<1>1. KbdInv /\ [KbdNext]_kbvars => KbdInv'
  BY MoveInv, InterruptInv, RecvInv, TakeInv, LoadInv, StoreInv, StutterInv DEF KbdNext, TTYNext
<1> QED BY InitInv, <1>1, PTL DEF KbdSpec

\* The bytes of the keyboard reach kbd_read in order, each once and whole.
THEOREM KeysArriveInOrder == KbdSpec => []BytesInOrder
<1>1. KbdInv => BytesInOrder
  BY DEF KbdInv, Types, RingHolds, CountBelow, GotLast, Pending, BytesInOrder
<1> QED BY RingCorrect, <1>1, PTL

-----------------------------------------------------------------------------
(* Letters and modifiers *)

\* What kbd_read takes for one key each, whatever it makes of it.
Word == [shift_on |-> <<"2A">>, shift_off |-> <<"AA">>, ctrl_on |-> <<"E0", "1D">>, ctrl_off |-> <<"E0", "9D">>,
         a_on |-> <<"1E">>, a_off |-> <<"9E">>,
         print_on |-> <<"E0", "2A", "E0", "37">>, print_off |-> <<"E0", "B7", "E0", "AA">>,
         pause_1 |-> <<"E1", "1D">>, pause_2 |-> <<"45">>, pause_3 |-> <<"E1", "9D">>, pause_4 |-> <<"C5">>]

Delivered == [code : Code, down : SUBSET DOMAIN Make]

\* The keys that are down after a word, if those of h were before.
Follows(d, n, h) ==
  /\ "shift" \in d <=> (n = "shift_on" \/ (n # "shift_off" /\ "shift" \in h))
  /\ "ctrl_r" \in d <=> (n = "ctrl_on" \/ (n # "ctrl_off" /\ "ctrl_r" \in h))

\* The keys that are down when i bytes of s have been delivered.
DownAt(s, i) == IF i = 0 THEN {} ELSE s[i].down

WordAt(s, b, n) ==
  /\ b + Len(Word[n]) <= Len(s)
  /\ \A i \in 1 .. Len(Word[n]) : s[b + i].code = Word[n][i] /\ Follows(s[b + i].down, n, DownAt(s, b))

\* s is made of words, and B are the ends of them.
MadeOfWords(s, B) ==
  /\ s \in Seq(Delivered) /\ B \subseteq 0 .. Len(s) /\ 0 \in B /\ Len(s) \in B
  /\ \A b \in B : b < Len(s) => \E n \in DOMAIN Word : WordAt(s, b, n) /\ b + Len(Word[n]) \in B

\* The bytes that were delivered, and those that the controller still has.
Stream(s, c, d) == s \o [i \in 1 .. Len(c) |-> [code |-> c[i], down |-> d]]
Typed == Stream(sent, coming, down)

SameKeys(m, h) == ("shift_l" \in m <=> "shift" \in h) /\ ("ctrl_r" \in m <=> "ctrl_r" \in h)

\* The modifiers are those of the last key that has been read, and a kbd_read under
\* way is inside of one word.
Reading(B) ==
  LET start == nread - Len(got) IN
  /\ stage = "recv" => nread \in B /\ SameKeys(mods, DownAt(Typed, nread))
  /\ stage # "recv" =>
       /\ start \in B /\ SameKeys(mods, DownAt(Typed, start))
       /\ stage # "take" => Len(got) > 0
       /\ Len(got) > 0 => \E n \in DOMAIN Word :
            /\ WordAt(Typed, start, n) /\ start + Len(Word[n]) \in B
            /\ IF stage = "take" THEN Len(got) < Len(Word[n]) ELSE Len(got) <= Len(Word[n])

\* Shift and Ctrl are down if they were at the end of the stream: a key that was
\* moved without a code is neither.
DownNow ==
  /\ "shift" \in down <=> "shift" \in DownAt(Typed, Len(Typed))
  /\ "ctrl_r" \in down <=> "ctrl_r" \in DownAt(Typed, Len(Typed))

LettersInv ==
  /\ KbdInv
  /\ \E B \in SUBSET Nat : MadeOfWords(Typed, B) /\ Reading(B)
  /\ DownNow
  /\ shown.at \in 0 .. Len(sent) /\ LettersAsTyped

-----------------------------------------------------------------------------

LEMMA WordsAreCodes ==
  ASSUME NEW n \in DOMAIN Word
  PROVE  Word[n] \in Seq(Code) /\ Len(Word[n]) \in 1 .. 4
<1>1. n \in {"shift_on", "shift_off", "ctrl_on", "ctrl_off", "a_on", "a_off",
             "print_on", "print_off", "pause_1", "pause_2", "pause_3", "pause_4"}
  BY DEF Word
<1>2. CASE n = "shift_on"  BY <1>2 DEF Word, Code
<1>3. CASE n = "shift_off" BY <1>3 DEF Word, Code
<1>4. CASE n = "ctrl_on"   BY <1>4 DEF Word, Code
<1>5. CASE n = "ctrl_off"  BY <1>5 DEF Word, Code
<1>6. CASE n = "a_on"      BY <1>6 DEF Word, Code
<1>7. CASE n = "a_off"     BY <1>7 DEF Word, Code
<1>8. CASE n = "print_on"  BY <1>8 DEF Word, Code
<1>9. CASE n = "print_off" BY <1>9 DEF Word, Code
<1>10. CASE n = "pause_1"  BY <1>10 DEF Word, Code
<1>11. CASE n = "pause_2"  BY <1>11 DEF Word, Code
<1>12. CASE n = "pause_3"  BY <1>12 DEF Word, Code
<1>13. CASE n = "pause_4"  BY <1>13 DEF Word, Code
<1> QED BY <1>1, <1>2, <1>3, <1>4, <1>5, <1>6, <1>7, <1>8, <1>9, <1>10, <1>11, <1>12, <1>13

\* kbd_read goes on until it has a word.
LEMMA WholeWords ==
  ASSUME NEW n \in DOMAIN Word, NEW g \in Seq(Code), Len(g) \in 1 .. Len(Word[n]),
         \A i \in 1 .. Len(g) : g[i] = Word[n][i]
  PROVE  Whole(g) <=> Len(g) = Len(Word[n])
<1>1. n \in {"shift_on", "shift_off", "a_on", "a_off", "pause_2", "pause_4"} \/ n \in {"ctrl_on", "ctrl_off"}
      \/ n \in {"print_on", "print_off"} \/ n \in {"pause_1", "pause_3"}
  BY DEF Word
<1>2. Len(g) \in Nat /\ 1 \in 1 .. Len(g) /\ g[1] = Word[n][1]
  OBVIOUS
<1>3. CASE n \in {"shift_on", "shift_off", "a_on", "a_off", "pause_2", "pause_4"}
  <2>1. Len(Word[n]) = 1 /\ Word[n][1] \notin {"E0", "E1"}
    BY <1>3 DEF Word
  <2>2. QED
    BY <1>2, <2>1 DEF Whole
<1>4. CASE n \in {"ctrl_on", "ctrl_off"}
  <2>1. Len(Word[n]) = 2 /\ Word[n][1] = "E0" /\ Word[n][2] \notin {"2A", "B7"}
    BY <1>4 DEF Word
  <2>2. CASE Len(g) = 1
    BY <1>2, <2>1, <2>2 DEF Whole
  <2>3. CASE Len(g) = 2
    BY <1>2, <2>1, <2>3 DEF Whole
  <2>4. QED
    BY <1>2, <2>1, <2>2, <2>3
<1>5. CASE n \in {"print_on", "print_off"}
  <2>1. Len(Word[n]) = 4 /\ Word[n][1] = "E0" /\ Word[n][2] \in {"2A", "B7"} /\ Word[n][3] = "E0"
    BY <1>5 DEF Word
  <2>2. CASE Len(g) = 1
    BY <1>2, <2>1, <2>2 DEF Whole
  <2>3. CASE Len(g) = 2
    BY <1>2, <2>1, <2>3 DEF Whole
  <2>4. CASE Len(g) = 3
    BY <1>2, <2>1, <2>4 DEF Whole
  <2>5. CASE Len(g) = 4
    BY <1>2, <2>1, <2>5 DEF Whole
  <2>6. QED
    BY <1>2, <2>1, <2>2, <2>3, <2>4, <2>5
<1>6. CASE n \in {"pause_1", "pause_3"}
  <2>1. Len(Word[n]) = 2 /\ Word[n][1] = "E1" /\ Word[n][2] # "E1" /\ PauseCode[1] = "E1"
    BY <1>6 DEF Word, PauseCode
  <2>2. CASE Len(g) = 1
    BY <1>2, <2>1, <2>2 DEF Whole
  <2>3. CASE Len(g) = 2
    <3>1. 1 \in 1 .. (Len(g) - 1) /\ g[1 + 1] # PauseCode[1] /\ g[1] = "E1"
      BY <1>2, <2>1, <2>3
    <3>2. QED
      BY <2>1, <2>3, <3>1 DEF Whole
  <2>4. QED
    BY <1>2, <2>1, <2>2, <2>3
<1>7. QED
  BY <1>1, <1>3, <1>4, <1>5, <1>6

\* What each word does to the modifiers.
LEMMA WordsModify ==
  ASSUME NEW n \in DOMAIN Word
  PROVE  /\ n = "shift_on" => Modified(Word[n]) = mods \cup {"shift_l"}
         /\ n = "shift_off" => Modified(Word[n]) = mods \ {"shift_l"}
         /\ n = "ctrl_on" => Modified(Word[n]) = mods \cup {"ctrl_r"}
         /\ n = "ctrl_off" => Modified(Word[n]) = mods \ {"ctrl_r"}
         /\ n \notin {"shift_on", "shift_off", "ctrl_on", "ctrl_off"} => Modified(Word[n]) = mods
         /\ Word[n] = <<"1E">> <=> n = "a_on"
<1>1. n \in {"shift_on", "shift_off", "a_on", "a_off", "pause_2", "pause_4"} \/ n \in {"ctrl_on", "ctrl_off"}
      \/ n \in {"print_on", "print_off"} \/ n \in {"pause_1", "pause_3"}
  BY DEF Word
<1>2. CASE n \in {"shift_on", "shift_off", "a_on", "a_off", "pause_2", "pause_4"}
  <2>1. /\ Len(Word[n]) = 1
        /\ Word[n][1] = "2A" <=> n = "shift_on"
        /\ Word[n][1] = "AA" <=> n = "shift_off"
        /\ Word[n][1] = "1E" <=> n = "a_on"
        /\ n = "shift_on" => Word[n] = <<"2A">>
        /\ n = "shift_off" => Word[n] = <<"AA">>
        /\ n = "a_on" => Word[n] = <<"1E">>
    BY <1>2 DEF Word
  <2>2. Word[n] # <<"E0", "1D">> /\ Word[n] # <<"E0", "9D">>
    BY <2>1
  <2>3. /\ Word[n] = <<"2A">> <=> n = "shift_on"
        /\ Word[n] = <<"AA">> <=> n = "shift_off"
        /\ Word[n] = <<"1E">> <=> n = "a_on"
    BY <2>1
  <2>4. QED
    BY <1>2, <2>2, <2>3 DEF Modified
<1>3. CASE n \in {"ctrl_on", "ctrl_off"}
  <2>1. /\ Len(Word[n]) = 2
        /\ n = "ctrl_on" => Word[n] = <<"E0", "1D">>
        /\ n = "ctrl_off" => Word[n] = <<"E0", "9D">> /\ Word[n] # <<"E0", "1D">>
    BY <1>3 DEF Word
  <2>2. Word[n] # <<"2A">> /\ Word[n] # <<"AA">> /\ Word[n] # <<"1E">>
    BY <2>1
  <2>3. QED
    BY <1>3, <2>1, <2>2 DEF Modified
<1>4. CASE n \in {"print_on", "print_off"}
  <2>1. Len(Word[n]) = 4
    BY <1>4 DEF Word
  <2>2. /\ Word[n] # <<"2A">> /\ Word[n] # <<"AA">> /\ Word[n] # <<"1E">>
        /\ Word[n] # <<"E0", "1D">> /\ Word[n] # <<"E0", "9D">>
    BY <2>1
  <2>3. QED
    BY <1>4, <2>2 DEF Modified
<1>5. CASE n \in {"pause_1", "pause_3"}
  <2>1. Len(Word[n]) = 2 /\ Word[n][1] = "E1"
    BY <1>5 DEF Word
  <2>2. /\ Word[n] # <<"2A">> /\ Word[n] # <<"AA">> /\ Word[n] # <<"1E">>
        /\ Word[n] # <<"E0", "1D">> /\ Word[n] # <<"E0", "9D">>
    BY <2>1
  <2>3. QED
    BY <1>5, <2>2 DEF Modified
<1>6. QED
  BY <1>1, <1>2, <1>3, <1>4, <1>5

\* The stream is what was delivered, then what is still to come.
LEMMA TypedIs ==
  ASSUME NEW s \in Seq(Delivered), NEW c \in Seq(Code), NEW d \in SUBSET DOMAIN Make
  PROVE  /\ Stream(s, c, d) \in Seq(Delivered) /\ Len(Stream(s, c, d)) = Len(s) + Len(c)
         /\ \A i \in 1 .. Len(s) : Stream(s, c, d)[i] = s[i]
         /\ \A i \in 1 .. Len(c) : Stream(s, c, d)[Len(s) + i] = [code |-> c[i], down |-> d]
<1> DEFINE r == [i \in 1 .. Len(c) |-> [code |-> c[i], down |-> d]]
<1>1. Len(c) \in Nat /\ Len(s) \in Nat /\ \A i \in 1 .. Len(c) : c[i] \in Code
  OBVIOUS
<1>2. \A i \in 1 .. Len(c) : r[i] = [code |-> c[i], down |-> d] /\ r[i] \in Delivered
  BY <1>1 DEF Delivered
<1>3. r \in Seq(Delivered) /\ Len(r) = Len(c)
  BY <1>1, <1>2
<1> HIDE DEF r
<1>4. /\ s \o r \in Seq(Delivered) /\ Len(s \o r) = Len(s) + Len(r)
      /\ \A i \in 1 .. Len(s) + Len(r) : (s \o r)[i] = IF i <= Len(s) THEN s[i] ELSE r[i - Len(s)]
  BY <1>3, ConcatProperties
<1>5. \A i \in 1 .. Len(s) : (s \o r)[i] = s[i]
  BY <1>1, <1>3, <1>4
<1>6. ASSUME NEW i \in 1 .. Len(c) PROVE (s \o r)[Len(s) + i] = [code |-> c[i], down |-> d]
  <2>1. Len(s) + i \in 1 .. Len(s) + Len(r) /\ ~(Len(s) + i <= Len(s)) /\ (Len(s) + i) - Len(s) = i
    BY <1>1, <1>3
  <2>2. QED
    BY <1>2, <1>4, <2>1
<1>7. QED
  BY <1>3, <1>4, <1>5, <1>6 DEF r, Stream

LEMMA TypedNow ==
  ASSUME KbdInv
  PROVE  /\ Typed \in Seq(Delivered) /\ Len(Typed) = Len(sent) + Len(coming)
         /\ Len(sent) \in Nat /\ Len(coming) \in Nat
         /\ \A i \in 1 .. Len(sent) : Typed[i] = sent[i]
         /\ \A i \in 1 .. Len(coming) : Typed[Len(sent) + i] = [code |-> coming[i], down |-> down]
<1>1. sent \in Seq(Delivered) /\ coming \in Seq(Code) /\ down \in SUBSET DOMAIN Make
  BY DEF KbdInv, Types, Delivered
<1>2. QED
  BY <1>1, TypedIs DEF Typed

LEMMA TypedThen ==
  ASSUME KbdInv'
  PROVE  /\ Typed' \in Seq(Delivered) /\ Len(Typed') = Len(sent') + Len(coming')
         /\ Len(sent') \in Nat /\ Len(coming') \in Nat
         /\ \A i \in 1 .. Len(sent') : Typed'[i] = sent'[i]
         /\ \A i \in 1 .. Len(coming') : Typed'[Len(sent') + i] = [code |-> coming'[i], down |-> down']
<1>1. sent' \in Seq(Delivered) /\ coming' \in Seq(Code) /\ down' \in SUBSET DOMAIN Make
  BY DEF KbdInv, Types, Delivered
<1>2. QED
  BY <1>1, TypedIs DEF Typed

\* A word that stands in a stream stands in every longer one.
LEMMA WordsStay ==
  ASSUME NEW s \in Seq(Delivered), NEW t \in Seq(Delivered), Len(s) <= Len(t),
         \A i \in 1 .. Len(s) : t[i] = s[i],
         NEW b \in 0 .. Len(s)
  PROVE  /\ DownAt(t, b) = DownAt(s, b)
         /\ \A n \in DOMAIN Word : WordAt(s, b, n) => WordAt(t, b, n)
<1>1. Len(s) \in Nat /\ Len(t) \in Nat
  OBVIOUS
<1>2. DownAt(t, b) = DownAt(s, b)
  BY <1>1 DEF DownAt
<1>3. ASSUME NEW n \in DOMAIN Word, WordAt(s, b, n) PROVE WordAt(t, b, n)
  <2>1. Len(Word[n]) \in Nat /\ b + Len(Word[n]) <= Len(s)
    BY <1>3, WordsAreCodes DEF WordAt
  <2>2. \A i \in 1 .. Len(Word[n]) : b + i \in 1 .. Len(s) /\ t[b + i] = s[b + i]
    BY <1>1, <2>1
  <2>3. b + Len(Word[n]) <= Len(t)
    BY <1>1, <2>1
  <2>4. QED
    BY <1>2, <1>3, <2>2, <2>3 DEF WordAt
<1>4. QED
  BY <1>2, <1>3

\* One more word at the end.
GoesOn(t, s, n, d) ==
  /\ t \in Seq(Delivered) /\ Len(t) = Len(s) + Len(Word[n])
  /\ \A i \in 1 .. Len(s) : t[i] = s[i]
  /\ \A i \in 1 .. Len(Word[n]) : t[Len(s) + i] = [code |-> Word[n][i], down |-> d]

LEMMA WordAppended ==
  ASSUME NEW s, NEW B \in SUBSET Nat, MadeOfWords(s, B), NEW n \in DOMAIN Word, NEW d,
         Follows(d, n, DownAt(s, Len(s))),
         NEW t, GoesOn(t, s, n, d)
  PROVE  /\ MadeOfWords(t, B \cup {Len(t)}) /\ B \cup {Len(t)} \in SUBSET Nat
         /\ DownAt(t, Len(t)) = d
<1> DEFINE w == Len(Word[n])
<1> USE DEF GoesOn
<1>1. /\ s \in Seq(Delivered) /\ Len(s) \in Nat /\ w \in Nat /\ w > 0 /\ Len(t) \in Nat
      /\ B \subseteq 0 .. Len(s) /\ 0 \in B /\ Len(s) \in B
  <2>1. s \in Seq(Delivered) /\ B \subseteq 0 .. Len(s) /\ 0 \in B /\ Len(s) \in B
    BY DEF MadeOfWords
  <2>2. w \in 1 .. 4
    BY WordsAreCodes
  <2>3. QED
    BY <2>1, <2>2, LenProperties
<1>2. WordAt(t, Len(s), n)
  <2>1. DownAt(t, Len(s)) = DownAt(s, Len(s))
    BY <1>1, WordsStay
  <2>2. ASSUME NEW i \in 1 .. w
        PROVE  t[Len(s) + i].code = Word[n][i] /\ t[Len(s) + i].down = d
    <3>1. t[Len(s) + i] = [code |-> Word[n][i], down |-> d]
      OBVIOUS
    <3>2. QED
      BY ONLY <3>1
  <2>3. QED
    BY <1>1, <2>1, <2>2 DEF WordAt
<1>3. ASSUME NEW b \in B \cup {Len(t)}, b < Len(t)
      PROVE  \E m \in DOMAIN Word : WordAt(t, b, m) /\ b + Len(Word[m]) \in B \cup {Len(t)}
  <2>1. b \in B /\ b \in 0 .. Len(s)
    <3>1. b # Len(t)
      BY <1>1, <1>3
    <3>2. QED
      BY <1>1, <1>3, <3>1
  <2>2. CASE b = Len(s)
    BY <1>2, <2>2
  <2>3. CASE b # Len(s)
    <3>1. b < Len(s)
      BY <1>1, <2>1, <2>3
    <3>2. PICK m \in DOMAIN Word : WordAt(s, b, m) /\ b + Len(Word[m]) \in B
      BY <2>1, <3>1 DEF MadeOfWords
    <3>3. WordAt(t, b, m)
      BY <1>1, <2>1, <3>2, WordsStay
    <3>4. QED
      BY <3>2, <3>3
  <2>4. QED
    BY <2>2, <2>3
<1>4. B \cup {Len(t)} \subseteq 0 .. Len(t)
  <2>1. 0 .. Len(s) \subseteq 0 .. Len(t) /\ Len(t) \in 0 .. Len(t)
    BY <1>1
  <2>2. QED
    BY <1>1, <2>1
<1>5. DownAt(t, Len(t)) = d
  <2>1. Len(t) # 0 /\ t[Len(t)] = [code |-> Word[n][w], down |-> d]
    BY <1>1
  <2>2. QED
    BY <2>1 DEF DownAt
<1>6. QED
  BY <1>1, <1>3, <1>4, <1>5 DEF MadeOfWords

\* Pause is four words for kbd_read.
LEMMA PauseAppended ==
  ASSUME NEW s, NEW B \in SUBSET Nat, MadeOfWords(s, B), NEW d,
         "shift" \in d <=> "shift" \in DownAt(s, Len(s)), "ctrl_r" \in d <=> "ctrl_r" \in DownAt(s, Len(s)),
         NEW t \in Seq(Delivered), Len(t) = Len(s) + 6,
         \A i \in 1 .. Len(s) : t[i] = s[i],
         \A i \in 1 .. 6 : t[Len(s) + i] = [code |-> Make["pause"][i], down |-> d]
  PROVE  /\ \E C \in SUBSET Nat : B \subseteq C /\ MadeOfWords(t, C)
         /\ DownAt(t, Len(t)) = d
<1> DEFINE k == Len(s)
           C == B \cup {k + 2, k + 3, k + 5, k + 6}
<1>1. /\ s \in Seq(Delivered) /\ k \in Nat /\ Len(t) = k + 6
      /\ B \subseteq 0 .. k /\ 0 \in B /\ k \in B
  BY DEF MadeOfWords
<1>2. /\ Len(Word["pause_1"]) = 2 /\ Word["pause_1"][1] = "E1" /\ Word["pause_1"][2] = "1D"
      /\ Len(Word["pause_2"]) = 1 /\ Word["pause_2"][1] = "45"
      /\ Len(Word["pause_3"]) = 2 /\ Word["pause_3"][1] = "E1" /\ Word["pause_3"][2] = "9D"
      /\ Len(Word["pause_4"]) = 1 /\ Word["pause_4"][1] = "C5"
      /\ {"pause_1", "pause_2", "pause_3", "pause_4"} \subseteq DOMAIN Word
  BY DEF Word
<1>3. /\ t[k + 1].code = "E1" /\ t[k + 2].code = "1D" /\ t[k + 3].code = "45"
      /\ t[k + 4].code = "E1" /\ t[k + 5].code = "9D" /\ t[k + 6].code = "C5"
  BY DEF Make
<1>4. \A i \in 1 .. 6 : t[k + i].down = d
  OBVIOUS
<1>5. /\ DownAt(t, k) = DownAt(s, k) /\ DownAt(t, k + 2) = d /\ DownAt(t, k + 3) = d
      /\ DownAt(t, k + 5) = d /\ DownAt(t, k + 6) = d
  <2>1. DownAt(t, k) = DownAt(s, k)
    BY <1>1, WordsStay
  <2>2. \A i \in 1 .. 6 : k + i # 0 /\ DownAt(t, k + i) = d
    BY <1>1, <1>4 DEF DownAt
  <2>3. 2 \in 1 .. 6 /\ 3 \in 1 .. 6 /\ 5 \in 1 .. 6 /\ 6 \in 1 .. 6
    OBVIOUS
  <2> HIDE DEF k
  <2>4. QED
    BY <2>1, <2>2, <2>3
<1>6. \A m \in {"pause_1", "pause_2", "pause_3", "pause_4"} : Follows(d, m, DownAt(s, k)) /\ Follows(d, m, d)
  BY DEF Follows
<1> HIDE DEF k
<1>7. WordAt(t, k, "pause_1") /\ WordAt(t, k + 2, "pause_2") /\ WordAt(t, k + 3, "pause_3") /\ WordAt(t, k + 5, "pause_4")
  <2>1. WordAt(t, k, "pause_1")
    <3>1. k + 2 <= Len(t) /\ \A i \in 1 .. 2 : t[k + i].code = Word["pause_1"][i] /\ t[k + i].down = d
      BY <1>1, <1>2, <1>3, <1>4
    <3>2. QED
      BY <1>2, <1>5, <1>6, <3>1 DEF WordAt
  <2>2. WordAt(t, k + 2, "pause_2")
    <3>1. (k + 2) + 1 <= Len(t) /\ \A i \in 1 .. 1 : t[(k + 2) + i].code = Word["pause_2"][i] /\ t[(k + 2) + i].down = d
      <4>1. (k + 2) + 1 = k + 3
        BY <1>1
      <4>2. QED
        BY <1>1, <1>2, <1>3, <1>4, <4>1
    <3>2. QED
      BY <1>2, <1>5, <1>6, <3>1 DEF WordAt
  <2>3. WordAt(t, k + 3, "pause_3")
    <3>1. (k + 3) + 2 <= Len(t) /\ \A i \in 1 .. 2 : t[(k + 3) + i].code = Word["pause_3"][i] /\ t[(k + 3) + i].down = d
      <4>1. (k + 3) + 1 = k + 4 /\ (k + 3) + 2 = k + 5
        BY <1>1
      <4>2. QED
        BY <1>1, <1>2, <1>3, <1>4, <4>1
    <3>2. QED
      BY <1>2, <1>5, <1>6, <3>1 DEF WordAt
  <2>4. WordAt(t, k + 5, "pause_4")
    <3>1. (k + 5) + 1 <= Len(t) /\ \A i \in 1 .. 1 : t[(k + 5) + i].code = Word["pause_4"][i] /\ t[(k + 5) + i].down = d
      <4>1. (k + 5) + 1 = k + 6
        BY <1>1
      <4>2. QED
        BY <1>1, <1>2, <1>3, <1>4, <4>1
    <3>2. QED
      BY <1>2, <1>5, <1>6, <3>1 DEF WordAt
  <2>5. QED
    BY <2>1, <2>2, <2>3, <2>4
<1>8. ASSUME NEW b \in C, b < Len(t)
      PROVE  \E m \in DOMAIN Word : WordAt(t, b, m) /\ b + Len(Word[m]) \in C
  <2>1. CASE b = k
    BY <1>2, <1>7, <2>1
  <2>2. CASE b = k + 2
    <3>1. (k + 2) + 1 = k + 3
      BY <1>1
    <3>2. QED
      BY <1>2, <1>7, <2>2, <3>1
  <2>3. CASE b = k + 3
    <3>1. (k + 3) + 2 = k + 5
      BY <1>1
    <3>2. QED
      BY <1>2, <1>7, <2>3, <3>1
  <2>4. CASE b = k + 5
    <3>1. (k + 5) + 1 = k + 6
      BY <1>1
    <3>2. QED
      BY <1>2, <1>7, <2>4, <3>1
  <2>5. CASE b \in B /\ b # k
    <3>1. b \in 0 .. k /\ b < k
      BY <1>1, <2>5
    <3>2. PICK m \in DOMAIN Word : WordAt(s, b, m) /\ b + Len(Word[m]) \in B
      BY <2>5, <3>1 DEF MadeOfWords, k
    <3>3. WordAt(t, b, m)
      <4>1. Len(s) <= Len(t) /\ b \in 0 .. Len(s)
        BY <1>1, <3>1 DEF k
      <4>2. QED
        BY <1>1, <3>2, <4>1, WordsStay
    <3>4. QED
      BY <3>2, <3>3
  <2>6. QED
    BY <1>1, <1>8, <2>1, <2>2, <2>3, <2>4, <2>5
<1>9. C \subseteq 0 .. Len(t) /\ 0 \in C /\ Len(t) \in C /\ B \subseteq C /\ C \in SUBSET Nat
  BY <1>1
<1> HIDE DEF C
<1>10. MadeOfWords(t, C)
  BY <1>8, <1>9 DEF MadeOfWords
<1>11. DownAt(t, Len(t)) = d
  BY <1>1, <1>5
<1>12. QED
  BY <1>9, <1>10, <1>11

\* What a step that makes the stream longer, and reads nothing, needs to show.
LEMMA ReadingStays ==
  ASSUME LettersInv, KbdInv', Len(Typed) <= Len(Typed'),
         \A i \in 1 .. Len(Typed) : Typed'[i] = Typed[i],
         UNCHANGED <<stage, got, mods, nread>>,
         NEW B \in SUBSET Nat, Reading(B), B \subseteq 0 .. Len(Typed),
         NEW C \in SUBSET Nat, B \subseteq C
  PROVE  Reading(C)'
<1> DEFINE s == Typed
           t == Typed'
           start == nread - Len(got)
<1>1. s \in Seq(Delivered) /\ t \in Seq(Delivered)
  BY TypedNow, TypedThen DEF LettersInv
<1>2. \A b \in B : /\ DownAt(t, b) = DownAt(s, b)
                   /\ \A n \in DOMAIN Word : WordAt(s, b, n) => WordAt(t, b, n)
  <2> HIDE DEF s, t
  <2>1. Len(s) <= Len(t) /\ \A i \in 1 .. Len(s) : t[i] = s[i]
    BY DEF s, t
  <2>2. \A b \in 0 .. Len(s) : /\ DownAt(t, b) = DownAt(s, b)
                               /\ \A n \in DOMAIN Word : WordAt(s, b, n) => WordAt(t, b, n)
    BY <1>1, <2>1, WordsStay
  <2>3. QED
    BY <2>2 DEF s
<1>3. stage' = stage /\ got' = got /\ mods' = mods /\ nread' = nread
  OBVIOUS
<1>4. CASE stage = "recv"
  <2>1. nread \in B /\ SameKeys(mods, DownAt(s, nread))
    BY <1>4 DEF Reading
  <2>2. nread \in C /\ SameKeys(mods, DownAt(t, nread))
    BY <1>2, <2>1
  <2> HIDE DEF t
  <2>3. QED
    BY <1>3, <1>4, <2>2 DEF Reading, t
<1>5. CASE stage # "recv"
  <2>1. /\ start \in B /\ SameKeys(mods, DownAt(s, start)) /\ (stage # "take" => Len(got) > 0)
        /\ Len(got) > 0 => \E n \in DOMAIN Word :
             /\ WordAt(s, start, n) /\ start + Len(Word[n]) \in B
             /\ IF stage = "take" THEN Len(got) < Len(Word[n]) ELSE Len(got) <= Len(Word[n])
    BY <1>5 DEF Reading
  <2>2. /\ start \in C /\ SameKeys(mods, DownAt(t, start)) /\ (stage # "take" => Len(got) > 0)
        /\ Len(got) > 0 => \E n \in DOMAIN Word :
             /\ WordAt(t, start, n) /\ start + Len(Word[n]) \in C
             /\ IF stage = "take" THEN Len(got) < Len(Word[n]) ELSE Len(got) <= Len(Word[n])
    <3> HIDE DEF s, t, start
    <3>1. QED
      BY <1>2, <2>1
  <2>3. (nread' - Len(got')) = start
    BY <1>3
  <2> HIDE DEF t, start
  <2>4. QED
    BY <1>3, <1>5, <2>2, <2>3 DEF Reading, t
<1>6. QED
  BY <1>4, <1>5

\* A key that goes down or up: its words come behind those that were there.
LEMMA MoveLetters ==
  ASSUME LettersInv, NEW k \in Presses, Move(k)
  PROVE  LettersInv'
<1> DEFINE s == Typed
           t == Typed'
<1>1. /\ KbdInv' /\ KbdInv /\ k \in DOMAIN Make
  BY MoveInv, KeyboardAssumption DEF LettersInv
<1>2. /\ coming = << >> /\ sent' = sent /\ UNCHANGED <<stage, got, mods, nread, shown>>
      /\ \/ k \in down /\ down' = down \ {k} /\ coming' = Break[k]
         \/ k \notin down /\ down' = down \cup {k} /\ coming' = Make[k]
  BY DEF Move, task
<1>3. PICK B \in SUBSET Nat : MadeOfWords(s, B) /\ Reading(B)
  BY DEF LettersInv
<1>4. /\ s \in Seq(Delivered) /\ t \in Seq(Delivered) /\ Len(s) = Len(sent) /\ Len(t) = Len(s) + Len(coming')
      /\ Len(s) \in Nat /\ Len(coming') \in Nat
      /\ \A i \in 1 .. Len(s) : t[i] = s[i]
      /\ \A i \in 1 .. Len(coming') : t[Len(s) + i] = [code |-> coming'[i], down |-> down']
  <2>1. /\ s \in Seq(Delivered) /\ Len(s) = Len(sent) /\ Len(sent) \in Nat /\ \A i \in 1 .. Len(sent) : s[i] = sent[i]
    <3>1. Len(coming) = 0
      BY <1>2
    <3>2. QED
      BY <1>1, <3>1, TypedNow
  <2>2. /\ t \in Seq(Delivered) /\ Len(t) = Len(sent') + Len(coming') /\ Len(coming') \in Nat
        /\ \A i \in 1 .. Len(sent') : t[i] = sent'[i]
        /\ \A i \in 1 .. Len(coming') : t[Len(sent') + i] = [code |-> coming'[i], down |-> down']
    BY <1>1, TypedThen
  <2> HIDE DEF s, t
  <2>3. QED
    BY <1>2, <2>1, <2>2
<1>5. /\ "shift" \in down <=> "shift" \in DownAt(s, Len(s))
      /\ "ctrl_r" \in down <=> "ctrl_r" \in DownAt(s, Len(s))
  BY DEF LettersInv, DownNow
<1>6. B \subseteq 0 .. Len(s)
  BY <1>3 DEF MadeOfWords
<1> HIDE DEF s, t
<1>7. ASSUME NEW n \in DOMAIN Word, coming' = Word[n], Follows(down', n, DownAt(s, Len(s)))
      PROVE  /\ \E C \in SUBSET Nat : B \subseteq C /\ MadeOfWords(t, C)
             /\ DownAt(t, Len(t)) = down'
  <2>1. MadeOfWords(t, B \cup {Len(t)}) /\ B \cup {Len(t)} \in SUBSET Nat /\ DownAt(t, Len(t)) = down'
    <3>1. /\ Len(t) = Len(s) + Len(Word[n])
          /\ \A i \in 1 .. Len(Word[n]) : t[Len(s) + i] = [code |-> Word[n][i], down |-> down']
      BY <1>4, <1>7
    <3>2. MadeOfWords(s, B) /\ t \in Seq(Delivered) /\ \A i \in 1 .. Len(s) : t[i] = s[i]
      BY <1>3, <1>4
    <3> DEFINE d == down'
    <3>3. n \in DOMAIN Word /\ Follows(d, n, DownAt(s, Len(s))) /\ B \in SUBSET Nat
      BY <1>7
    <3>4. \A i \in 1 .. Len(Word[n]) : t[Len(s) + i] = [code |-> Word[n][i], down |-> d]
      BY <3>1
    <3> HIDE DEF d
    <3>5. GoesOn(t, s, n, d)
      BY <3>1, <3>2, <3>4 DEF GoesOn
    <3>6. MadeOfWords(t, B \cup {Len(t)}) /\ B \cup {Len(t)} \in SUBSET Nat /\ DownAt(t, Len(t)) = d
      BY <3>2, <3>3, <3>5, WordAppended
    <3>7. QED
      BY <3>6 DEF d
  <2>2. QED
    BY <2>1
<1>8. /\ \E C \in SUBSET Nat : B \subseteq C /\ MadeOfWords(t, C)
      /\ "shift" \in down' <=> "shift" \in DownAt(t, Len(t))
      /\ "ctrl_r" \in down' <=> "ctrl_r" \in DownAt(t, Len(t))
  <2>1. k \in {"shift", "a", "ctrl_r", "printscreen", "pause"}
    BY <1>1 DEF Make
  <2>2. CASE k = "shift"
    <3>1. \/ coming' = Word["shift_on"] /\ Follows(down', "shift_on", DownAt(s, Len(s))) /\ "shift_on" \in DOMAIN Word
          \/ coming' = Word["shift_off"] /\ Follows(down', "shift_off", DownAt(s, Len(s))) /\ "shift_off" \in DOMAIN Word
      BY <1>2, <1>5, <2>2 DEF Word, Make, Break, Follows
    <3>2. QED
      BY <1>7, <3>1
  <2>3. CASE k = "a"
    <3>1. \/ coming' = Word["a_on"] /\ Follows(down', "a_on", DownAt(s, Len(s))) /\ "a_on" \in DOMAIN Word
          \/ coming' = Word["a_off"] /\ Follows(down', "a_off", DownAt(s, Len(s))) /\ "a_off" \in DOMAIN Word
      BY <1>2, <1>5, <2>3 DEF Word, Make, Break, Follows
    <3>2. QED
      BY <1>7, <3>1
  <2>4. CASE k = "ctrl_r"
    <3>1. \/ coming' = Word["ctrl_on"] /\ Follows(down', "ctrl_on", DownAt(s, Len(s))) /\ "ctrl_on" \in DOMAIN Word
          \/ coming' = Word["ctrl_off"] /\ Follows(down', "ctrl_off", DownAt(s, Len(s))) /\ "ctrl_off" \in DOMAIN Word
      BY <1>2, <1>5, <2>4 DEF Word, Make, Break, Follows
    <3>2. QED
      BY <1>7, <3>1
  <2>5. CASE k = "printscreen"
    <3>1. \/ coming' = Word["print_on"] /\ Follows(down', "print_on", DownAt(s, Len(s))) /\ "print_on" \in DOMAIN Word
          \/ coming' = Word["print_off"] /\ Follows(down', "print_off", DownAt(s, Len(s))) /\ "print_off" \in DOMAIN Word
      BY <1>2, <1>5, <2>5 DEF Word, Make, Break, Follows
    <3>2. QED
      BY <1>7, <3>1
  <2>6. CASE k = "pause"
    <3>1. /\ "shift" \in down' <=> "shift" \in DownAt(s, Len(s))
          /\ "ctrl_r" \in down' <=> "ctrl_r" \in DownAt(s, Len(s))
      BY <1>2, <1>5, <2>6
    <3>2. CASE coming' = Make["pause"]
      <4>1. Len(coming') = 6
        BY <3>2 DEF Make
      <4>2. Len(t) = Len(s) + 6 /\ \A i \in 1 .. 6 : t[Len(s) + i] = [code |-> Make["pause"][i], down |-> down']
        BY <1>4, <3>2, <4>1
      <4>3. (\E C \in SUBSET Nat : B \subseteq C /\ MadeOfWords(t, C)) /\ DownAt(t, Len(t)) = down'
        BY <1>3, <1>4, <3>1, <4>2, PauseAppended
      <4>4. QED
        BY <4>3
    <3>3. CASE coming' = Break["pause"]
      <4>1. Len(coming') = 0
        BY <3>3 DEF Break
      <4>2. t = s
        BY <1>4, <4>1, SeqEqual
      <4>3. QED
        BY <1>3, <3>1, <4>2
    <3>4. QED
      BY <1>2, <2>6, <3>2, <3>3
  <2>7. QED
    BY <2>1, <2>2, <2>3, <2>4, <2>5, <2>6
<1>9. PICK C \in SUBSET Nat : B \subseteq C /\ MadeOfWords(t, C)
  BY <1>8
<1>10. Reading(C)'
  <2>1. Len(Typed) <= Len(Typed') /\ \A i \in 1 .. Len(Typed) : Typed'[i] = Typed[i]
    BY <1>4 DEF s, t
  <2>2. UNCHANGED <<stage, got, mods, nread>> /\ Reading(B) /\ B \subseteq 0 .. Len(Typed)
    BY <1>2, <1>3, <1>6 DEF s
  <2>3. QED
    BY <1>1, <1>9, <2>1, <2>2, ReadingStays
<1>11. DownNow'
  BY <1>8 DEF DownNow, t
<1>12. shown'.at \in 0 .. Len(sent') /\ LettersAsTyped'
  BY <1>2 DEF LettersInv, LettersAsTyped
<1>13. QED
  BY <1>1, <1>9, <1>10, <1>11, <1>12 DEF LettersInv, t

\* interrupt_kbd takes a byte from what comes to what was delivered.
LEMMA InterruptLetters ==
  ASSUME LettersInv, InterruptKbd
  PROVE  LettersInv'
<1>1. KbdInv /\ KbdInv'
  BY InterruptInv DEF LettersInv
<1>2. /\ coming # << >> /\ coming' = Tail(coming) /\ down' = down
      /\ sent' = Append(sent, [code |-> Head(coming), down |-> down])
      /\ UNCHANGED <<stage, got, mods, nread, shown>>
  BY DEF InterruptKbd, task
<1>3. /\ coming \in Seq(Code) /\ sent \in Seq(Delivered) /\ [code |-> Head(coming), down |-> down] \in Delivered
  BY <1>1, <1>2 DEF KbdInv, Types, Delivered
<1>4. /\ Len(coming) \in Nat /\ Len(sent) \in Nat
      /\ Len(coming') = Len(coming) - 1 /\ \A i \in 1 .. Len(coming') : coming'[i] = coming[i + 1]
      /\ Head(coming) = coming[1] /\ Len(coming) >= 1
      /\ Len(sent') = Len(sent) + 1 /\ (\A i \in 1 .. Len(sent) : sent'[i] = sent[i])
      /\ sent'[Len(sent) + 1] = [code |-> Head(coming), down |-> down]
  <2>1. Len(coming) \in Nat /\ Len(coming) >= 1 /\ Head(coming) = coming[1]
    BY <1>2, <1>3
  <2>2. Len(coming') = Len(coming) - 1 /\ \A i \in 1 .. Len(coming') : coming'[i] = coming[i + 1]
    BY <1>2, <1>3, HeadTailProperties
  <2>3. /\ Len(sent) \in Nat /\ Len(sent') = Len(sent) + 1 /\ (\A i \in 1 .. Len(sent) : sent'[i] = sent[i])
        /\ sent'[Len(sent) + 1] = [code |-> Head(coming), down |-> down]
    BY <1>2, <1>3, AppendProperties
  <2>4. QED
    BY <2>1, <2>2, <2>3
<1>5. Typed' = Typed
  <2> DEFINE s == Typed
             t == Typed'
             n == Len(sent)
             c == Len(coming)
  <2>1. /\ s \in Seq(Delivered) /\ Len(s) = n + c
        /\ \A i \in 1 .. n : s[i] = sent[i]
        /\ \A i \in 1 .. c : s[n + i] = [code |-> coming[i], down |-> down]
    BY <1>1, TypedNow
  <2>2. /\ t \in Seq(Delivered) /\ Len(t) = Len(sent') + Len(coming')
        /\ \A i \in 1 .. Len(sent') : t[i] = sent'[i]
        /\ \A i \in 1 .. Len(coming') : t[Len(sent') + i] = [code |-> coming'[i], down |-> down']
    BY <1>1, TypedThen
  <2> HIDE DEF s, t, n, c
  <2>3. n \in Nat /\ c \in Nat /\ c >= 1 /\ Len(sent') = n + 1 /\ Len(coming') = c - 1 /\ Len(t) = n + c
    BY <1>4, <2>2 DEF n, c
  <2>4. ASSUME NEW i \in 1 .. n + c PROVE t[i] = s[i]
    <3>1. CASE i <= n
      <4>1. i \in 1 .. n /\ i \in 1 .. Len(sent') /\ sent'[i] = sent[i]
        BY <1>4, <2>3, <3>1 DEF n
      <4>2. QED
        BY <2>1, <2>2, <4>1
    <3>2. CASE i = n + 1
      <4>1. t[i] = [code |-> Head(coming), down |-> down]
        <5>1. i \in 1 .. Len(sent')
          BY <2>3, <3>2
        <5>2. QED
          BY <1>4, <2>2, <3>2, <5>1 DEF n
      <4>2. s[n + 1] = [code |-> coming[1], down |-> down]
        BY <2>1, <2>3
      <4>3. QED
        BY <1>4, <3>2, <4>1, <4>2
    <3>3. CASE i > n + 1
      <4> DEFINE j == i - (n + 1)
      <4>1. j \in 1 .. Len(coming') /\ i = Len(sent') + j /\ j + 1 \in 1 .. c /\ i = n + (j + 1)
        BY <2>3, <3>3
      <4> HIDE DEF j
      <4>2. t[i] = [code |-> coming'[j], down |-> down'] /\ coming'[j] = coming[j + 1]
        BY <1>4, <2>2, <4>1
      <4>3. s[i] = [code |-> coming[j + 1], down |-> down]
        BY <2>1, <4>1
      <4>4. QED
        BY <1>2, <4>2, <4>3
    <3>4. QED
      BY <2>3, <3>1, <3>2, <3>3
  <2>5. t = s
    BY <2>1, <2>2, <2>3, <2>4, SeqEqual
  <2>6. QED
    BY <2>5 DEF s, t
<1>6. PICK B \in SUBSET Nat : MadeOfWords(Typed, B) /\ Reading(B)
  BY DEF LettersInv
<1>7. Reading(B)'
  <2>1. Len(Typed) <= Len(Typed') /\ Len(Typed) \in Nat
    BY <1>1, <1>4, <1>5, TypedNow
  <2>2. B \subseteq 0 .. Len(Typed)
    BY <1>6 DEF MadeOfWords
  <2>3. QED
    BY <1>1, <1>2, <1>5, <1>6, <2>1, <2>2, ReadingStays
<1>8. MadeOfWords(Typed', B) /\ DownNow'
  BY <1>2, <1>5, <1>6 DEF LettersInv, DownNow
<1>9. shown'.at \in 0 .. Len(sent') /\ LettersAsTyped'
  <2>1. shown' = shown /\ shown.at \in 0 .. Len(sent)
    BY <1>2 DEF LettersInv
  <2>2. shown.at \in 0 .. Len(sent')
    BY <1>4, <2>1
  <2>3. shown.at > 0 => sent'[shown.at] = sent[shown.at]
    BY <1>4, <2>1
  <2>4. QED
    BY <2>1, <2>2, <2>3 DEF LettersInv, LettersAsTyped
<1>10. QED
  BY <1>1, <1>6, <1>7, <1>8, <1>9 DEF LettersInv

\* The steps of TaskTTY do not touch the stream.
LEMMA TypedStays ==
  ASSUME LettersInv, KbdInv', UNCHANGED <<sent, coming, down, shown>>, \E B \in SUBSET Nat : MadeOfWords(Typed, B) /\ Reading(B)'
  PROVE  LettersInv'
<1>1. Typed' = Typed
  BY DEF Typed
<1>2. DownNow' /\ LettersAsTyped' /\ shown'.at \in 0 .. Len(sent')
  BY <1>1 DEF LettersInv, DownNow, LettersAsTyped
<1>3. QED
  BY <1>1, <1>2 DEF LettersInv

LEMMA RecvLetters ==
  ASSUME LettersInv, Recv
  PROVE  LettersInv'
<1>1. KbdInv' /\ KbdInv
  BY RecvInv DEF LettersInv
<1>2. /\ UNCHANGED <<sent, coming, down, shown, mods, nread>> /\ got' = << >> /\ stage = "recv"
      /\ stage' \in {"recv", "take"}
  BY DEF Recv, keys
<1>3. Typed' = Typed
  BY <1>2 DEF Typed
<1>4. PICK B \in SUBSET Nat : MadeOfWords(Typed, B) /\ Reading(B)
  BY DEF LettersInv
<1>5. nread \in B /\ SameKeys(mods, DownAt(Typed, nread))
  BY <1>2, <1>4 DEF Reading
<1>6. Len(got') = 0 /\ nread' - Len(got') = nread
  <2>1. nread \in Nat
    BY <1>1 DEF KbdInv, Types
  <2>2. QED
    BY <1>2, <2>1
<1>7. Reading(B)'
  BY <1>2, <1>3, <1>5, <1>6 DEF Reading
<1>8. QED
  BY <1>1, <1>2, <1>4, <1>7, TypedStays

\* The next byte is that of the word that was begun, or of the next word.
LEMMA TakeLetters ==
  ASSUME LettersInv, TakeByte
  PROVE  LettersInv'
<1> DEFINE start == nread - Len(got)
<1>1. KbdInv' /\ KbdInv
  BY TakeInv DEF LettersInv
<1>2. /\ UNCHANGED <<sent, coming, down, shown, mods>> /\ nread' = nread + 1
      /\ stage = "take" /\ stage' = "load"
  BY DEF TakeByte, keys
<1>3. Typed' = Typed
  BY <1>2 DEF Typed
<1>4. PICK B \in SUBSET Nat : MadeOfWords(Typed, B) /\ Reading(B)
  BY DEF LettersInv
<1>5. /\ nread \in Nat /\ Len(got) \in Nat /\ Len(got') = Len(got) + 1 /\ start \in Int
      /\ nread' - Len(got') = start /\ nread < Len(Typed) /\ start <= nread
  <2>1. got \in Seq(Code) /\ nread \in Nat /\ got' = Append(got, buf[rd]) /\ buf[rd] \in Code
    BY <1>1, <1>2 DEF KbdInv, Types, TakeByte
  <2>2. Len(got) \in Nat /\ Len(got') = Len(got) + 1
    BY <2>1, AppendProperties
  <2>3. nread + 1 <= Len(sent)
    <3>1. Pending' \in 0 .. Size /\ Pending' = Len(sent) - (nread + 1) /\ Size \in Nat
      BY <1>1, <1>2, KeyboardAssumption DEF KbdInv, RingHolds, Pending
    <3>2. Len(sent) \in Nat
      BY <1>1, Numbers
    <3>3. QED
      BY <2>1, <3>1, <3>2
  <2>4. Len(sent) \in Nat /\ Len(sent) <= Len(Typed) /\ Len(Typed) \in Nat
    BY <1>1, TypedNow
  <2>5. QED
    BY <1>2, <2>1, <2>2, <2>3, <2>4
<1>6. start \in B /\ SameKeys(mods, DownAt(Typed, start))
  BY <1>2, <1>4 DEF Reading
<1>7. PICK n \in DOMAIN Word : /\ WordAt(Typed, start, n) /\ start + Len(Word[n]) \in B
                               /\ Len(got) < Len(Word[n])
  <2>1. CASE Len(got) > 0
    BY <1>2, <1>4, <2>1 DEF Reading
  <2>2. CASE Len(got) = 0
    <3>1. start = nread /\ start < Len(Typed)
      BY <1>5, <2>2
    <3>2. PICK n \in DOMAIN Word : WordAt(Typed, start, n) /\ start + Len(Word[n]) \in B
      BY <1>4, <1>6, <3>1 DEF MadeOfWords
    <3>3. Len(Word[n]) \in 1 .. 4
      BY WordsAreCodes
    <3>4. Len(got) < Len(Word[n])
      BY <2>2, <3>3
    <3>5. QED
      BY <3>2, <3>4
  <2>3. QED
    BY <1>5, <2>1, <2>2
<1>8. Len(got') > 0 /\ Len(got') <= Len(Word[n])
  <2>1. Len(Word[n]) \in 1 .. 4
    BY WordsAreCodes
  <2>2. QED
    BY <1>5, <1>7, <2>1
<1>9. Reading(B)'
  <2>1. nread' - Len(got') = start /\ mods' = mods
    BY <1>2, <1>5
  <2> HIDE DEF start
  <2>2. QED
    BY <1>2, <1>3, <1>6, <1>7, <1>8, <2>1 DEF Reading
<1>10. QED
  BY <1>1, <1>2, <1>4, <1>9, TypedStays

LEMMA LoadLetters ==
  ASSUME LettersInv, LoadCount
  PROVE  LettersInv'
<1>1. KbdInv' /\ KbdInv
  BY LoadInv DEF LettersInv
<1>2. /\ UNCHANGED <<sent, coming, down, shown, mods, nread, got>> /\ stage = "load" /\ stage' = "store"
  BY DEF LoadCount, keys
<1>3. Typed' = Typed
  BY <1>2 DEF Typed
<1>4. PICK B \in SUBSET Nat : MadeOfWords(Typed, B) /\ Reading(B)
  BY DEF LettersInv
<1>5. Reading(B)'
  BY <1>2, <1>3, <1>4 DEF Reading
<1>6. QED
  BY <1>1, <1>2, <1>4, <1>5, TypedStays

\* With the last byte of a word kbd_read ends, and the modifiers are those behind it.
LEMMA StoreLetters ==
  ASSUME LettersInv, StoreCount
  PROVE  LettersInv'
<1> DEFINE start == nread - Len(got)
<1>1. KbdInv' /\ KbdInv
  BY StoreInv DEF LettersInv
<1>2. /\ UNCHANGED <<sent, coming, down, got, nread>> /\ stage = "store"
      /\ ~Whole(got) => stage' = "take" /\ UNCHANGED <<mods, shown>>
      /\ Whole(got) => /\ stage' = "recv" /\ mods' = Modified(got)
                       /\ shown' = IF got = <<"1E">> THEN [flags |-> mods, at |-> nread] ELSE shown
  BY DEF StoreCount, keys
<1>3. Typed' = Typed
  BY <1>2 DEF Typed
<1>4. PICK B \in SUBSET Nat : MadeOfWords(Typed, B) /\ Reading(B)
  BY DEF LettersInv
<1>5. start \in B /\ SameKeys(mods, DownAt(Typed, start)) /\ Len(got) > 0
  BY <1>2, <1>4 DEF Reading
<1>6. PICK n \in DOMAIN Word : /\ WordAt(Typed, start, n) /\ start + Len(Word[n]) \in B
                               /\ Len(got) <= Len(Word[n])
  BY <1>2, <1>4, <1>5 DEF Reading
<1>7. /\ nread \in Nat /\ got \in Seq(Code) /\ Len(got) \in 1 .. Len(Word[n]) /\ start \in Nat
      /\ nread = start + Len(got) /\ nread \in 0 .. Len(sent) /\ Word[n] \in Seq(Code) /\ nread # 0
  <2>1. got \in Seq(Code) /\ nread \in Nat /\ Len(got) <= nread /\ nread <= Len(sent) /\ Len(sent) \in Nat
    <3>1. Len(sent) = nread + Pending /\ Pending \in 0 .. Size /\ Size \in Nat /\ nread \in Nat
      BY <1>1, Numbers
    <3>2. QED
      BY <1>1, <3>1 DEF KbdInv, Types, GotLast
  <2>2. Word[n] \in Seq(Code) /\ Len(Word[n]) \in 1 .. 4
    BY WordsAreCodes
  <2>3. QED
    BY <1>5, <1>6, <2>1, <2>2
<1>8. \A i \in 1 .. Len(got) : got[i] = Word[n][i]
  <2> TAKE i \in 1 .. Len(got)
  <2>1. got[i] = sent[start + i].code
    BY <1>1 DEF KbdInv, GotLast
  <2>2. start + i \in 1 .. Len(sent) /\ i \in 1 .. Len(Word[n])
    <3>1. Len(Word[n]) \in Nat /\ Len(sent) \in Nat /\ Len(got) \in Nat
      BY <1>7
    <3> HIDE DEF start
    <3>2. QED
      BY <1>7, <3>1
  <2>3. Typed[start + i] = sent[start + i] /\ Typed[start + i].code = Word[n][i]
    <3> HIDE DEF start
    <3>1. QED
      BY <1>1, <1>6, <2>2, TypedNow DEF WordAt
  <2>4. QED
    BY <2>1, <2>3
<1>9. Whole(got) <=> Len(got) = Len(Word[n])
  BY <1>7, <1>8, WholeWords
<1>10. CASE ~Whole(got)
  <2>1. Len(got) < Len(Word[n])
    BY <1>7, <1>9, <1>10
  <2>2. nread' - Len(got') = start /\ mods' = mods /\ stage' = "take" /\ got' = got /\ shown' = shown
    BY <1>2, <1>10
  <2> HIDE DEF start
  <2>3. Reading(B)'
    BY <1>3, <1>5, <1>6, <2>1, <2>2 DEF Reading
  <2>4. QED
    BY <1>1, <1>2, <1>4, <2>2, <2>3, TypedStays
<1>11. CASE Whole(got)
  <2>1. got = Word[n]
    <3>1. Len(got) = Len(Word[n])
      BY <1>9, <1>11
    <3>2. QED
      BY <1>7, <1>8, <3>1, SeqEqual
  <2>2. nread = start + Len(Word[n]) /\ nread \in B /\ Len(Word[n]) \in 1 .. Len(Word[n])
    BY <1>6, <1>7, <2>1
  <2>3. Follows(DownAt(Typed, nread), n, DownAt(Typed, start))
    <3>1. Follows(Typed[start + Len(Word[n])].down, n, DownAt(Typed, start))
      BY <1>6, <2>2 DEF WordAt
    <3>2. DownAt(Typed, nread) = Typed[start + Len(Word[n])].down
      <4> HIDE DEF start
      <4>1. QED
        BY <1>7, <2>2 DEF DownAt
    <3>3. QED
      BY <3>1, <3>2
  <2>4. SameKeys(mods', DownAt(Typed, nread))
    <3>1. mods' = Modified(Word[n])
      BY <1>2, <1>11, <2>1
    <3> HIDE DEF start
    <3>2. CASE n = "shift_on"
      BY <1>5, <2>3, <3>1, <3>2, WordsModify DEF SameKeys, Follows
    <3>3. CASE n = "shift_off"
      BY <1>5, <2>3, <3>1, <3>3, WordsModify DEF SameKeys, Follows
    <3>4. CASE n = "ctrl_on"
      BY <1>5, <2>3, <3>1, <3>4, WordsModify DEF SameKeys, Follows
    <3>5. CASE n = "ctrl_off"
      BY <1>5, <2>3, <3>1, <3>5, WordsModify DEF SameKeys, Follows
    <3>6. CASE n \notin {"shift_on", "shift_off", "ctrl_on", "ctrl_off"}
      BY <1>5, <2>3, <3>1, <3>6, WordsModify DEF SameKeys, Follows
    <3>7. QED
      BY <3>2, <3>3, <3>4, <3>5, <3>6
  <2>5. stage' = "recv" /\ nread' = nread
    BY <1>2, <1>11
  <2>6. Reading(B)'
    BY <1>3, <2>2, <2>4, <2>5 DEF Reading
  <2>7. shown'.at \in 0 .. Len(sent) /\ LettersAsTyped'
    <3>1. CASE n = "a_on"
      <4>1. shown' = [flags |-> mods, at |-> nread]
        BY <1>2, <1>11, <2>1, <3>1, WordsModify
      <4>2. nread \in 1 .. Len(sent)
        BY <1>7
      <4>3. Typed[nread] = sent[nread] /\ DownAt(Typed, nread) = sent[nread].down
        BY <1>1, <1>7, <4>2, TypedNow DEF DownAt
      <4> HIDE DEF start
      <4>4. /\ "shift_l" \in mods <=> "shift" \in sent[nread].down
            /\ "ctrl_r" \in mods <=> "ctrl_r" \in sent[nread].down
        BY <1>5, <2>3, <3>1, <4>3 DEF SameKeys, Follows
      <4>5. shown'.at = nread /\ shown'.flags = mods /\ sent' = sent
        BY <1>2, <4>1
      <4>6. QED
        BY <1>7, <4>4, <4>5 DEF LettersAsTyped
    <3>2. CASE n # "a_on"
      <4>1. shown' = shown /\ sent' = sent
        BY <1>2, <1>11, <2>1, <3>2, WordsModify
      <4>2. QED
        BY <4>1 DEF LettersInv, LettersAsTyped
    <3>3. QED
      BY <3>1, <3>2
  <2>8. DownNow'
    BY <1>2, <1>3 DEF LettersInv, DownNow
  <2>9. QED
    BY <1>1, <1>2, <1>3, <1>4, <2>6, <2>7, <2>8 DEF LettersInv
<1>12. QED
  BY <1>10, <1>11

LEMMA LettersInitially == ASSUME KbdInit PROVE LettersInv
<1>1. /\ KbdInv /\ sent = << >> /\ coming = << >> /\ nread = 0 /\ stage = "recv" /\ mods = {} /\ down = {}
      /\ shown = [flags |-> {}, at |-> 0]
  BY InitInv DEF KbdInit
<1>2. Typed \in Seq(Delivered) /\ Len(Typed) = 0
  <2>1. Len(sent) = 0 /\ Len(coming) = 0
    BY <1>1
  <2>2. QED
    BY <1>1, <2>1, TypedNow
<1>3. MadeOfWords(Typed, {0}) /\ {0} \in SUBSET Nat
  BY <1>2 DEF MadeOfWords
<1>4. DownAt(Typed, 0) = {}
  BY DEF DownAt
<1>5. Reading({0})
  BY <1>1, <1>4 DEF Reading, SameKeys
<1>6. DownNow
  BY <1>1, <1>2, <1>4 DEF DownNow
<1>7. shown.at \in 0 .. Len(sent) /\ LettersAsTyped
  BY <1>1 DEF LettersAsTyped
<1>8. QED
  BY <1>1, <1>3, <1>5, <1>6, <1>7 DEF LettersInv

LEMMA LettersSteps == ASSUME LettersInv, [KbdNext]_kbvars PROVE LettersInv'
<1>1. CASE UNCHANGED kbvars
  <2>1. KbdInv'
    BY <1>1, StutterInv DEF LettersInv
  <2>2. UNCHANGED <<sent, coming, down, shown, stage, got, mods, nread>>
    BY <1>1 DEF kbvars, ring, task, keys
  <2>3. Typed' = Typed
    BY <2>2 DEF Typed
  <2>4. PICK B \in SUBSET Nat : MadeOfWords(Typed, B) /\ Reading(B)
    BY DEF LettersInv
  <2>5. Reading(B)'
    BY <2>2, <2>3, <2>4 DEF Reading
  <2>6. QED
    BY <2>1, <2>2, <2>4, <2>5, TypedStays
<1>2. CASE KbdNext
  BY <1>2, MoveLetters, InterruptLetters, RecvLetters, TakeLetters, LoadLetters, StoreLetters DEF KbdNext, TTYNext
<1>3. QED
  BY <1>1, <1>2

\* Of kbd_read (kbd.c): between two keys its modifiers are those that were down when
\* the last byte it has read was delivered, with interrupts anywhere in between, and
\* each kbd_read takes exactly one word.
THEOREM ModifiersCorrect == KbdSpec => []LettersInv
BY LettersInitially, LettersSteps, PTL DEF KbdSpec

\* Of kbd_read: a letter comes with the modifiers that were down when it was pressed,
\* for any size of the buffer, any keys and however late it is read.
THEOREM LettersArriveAsTyped == KbdSpec => []LettersAsTyped
<1>1. LettersInv => LettersAsTyped
  BY DEF LettersInv
<1> QED BY ModifiersCorrect, <1>1, PTL
=============================================================================
