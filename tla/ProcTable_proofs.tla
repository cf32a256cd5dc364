--------------------------- MODULE ProcTable_proofs ---------------------------
(***************************************************************************)
(* The process list, the bitmap and the lines of ProcTable, proved right   *)
(* for any table and any number of kernel tasks, as long as no more        *)
(* processes are alive than one word of the bitmap has bits (OneWord).     *)
(*                                                                         *)
(* The list is a chain of next fields; the invariant says that some        *)
(* sequence of slots, without repetition, is the one that chain runs       *)
(* through.  WalkFollows then tells what every walk of it meets, and       *)
(* LinkKeeps and UnlinkKeeps that the two operations on it make the        *)
(* sequence longer or shorter by one process and disturb no other.         *)
(***************************************************************************)
EXTENDS ProcTable, ListLemmas

(* The invariant *)

\* No more processes than the first word of the bitmap has bits: find_first_unset_bit
\* finds nothing else.
OneWord == MaxProcs <= WordBits

\* The list as a sequence: o holds its processes in their order.
ListOf(o) ==
  /\ o \in Seq(Slot)
  /\ IsInjective(o)
  /\ proc_list = IF o = << >> THEN Nil ELSE o[1]
  /\ \A i \in DOMAIN o : proc_table[o[i]].next = IF i = Len(o) THEN Nil ELSE o[i + 1]

\* o is the list, and every process in it has its own pid; while core_main is at it,
\* init has a bit and no place.
Listing(o) ==
  /\ ListOf(o)
  /\ ToSet(o) = IF phase = "up" THEN proc_bitmap ELSE proc_bitmap \ {Init1}
  /\ \A s \in ToSet(o) : proc_table[s].pid = s
  /\ proc_count = Len(o)
  /\ o # << >> => o[1] = 0 /\ Init1 \in proc_bitmap
  /\ o = << >> => proc_bitmap = {}

\* What a slot can hold.
Process == [next : Slot \cup {Nil}, pid : Slot, pstack : 0..UserStack]

\* Every variable of the table has its type.
TableTypes ==
  /\ phase \in {"memory", "zero", "drivers", "tasks", "init", "up"}
  /\ freemem \in 0..CorePages /\ pagelink \in [1..CorePages -> 0..CorePages]
  /\ proc_bitmap \subseteq Slot /\ proc_count \in Nat
  /\ proc_table \in [Slot -> Process]

\* What core_main has done: no process before the memory is there, no more than
\* its tasks before init.
BootOrder ==
  /\ phase \in {"memory", "zero", "drivers"} => proc_count = 0
  /\ phase = "tasks" => proc_count <= TaskCount
  /\ phase \in {"init", "up"} => proc_count > 0
  /\ phase = "init" => proc_count = TaskCount + 1

\* Those that free_proc is done with are user processes in the list, without a stack.
EndedHaveNoStack ==
  /\ \A s \in ended : /\ s \in proc_bitmap /\ s >= FirstUser
                      /\ proc_table[s].pstack = NoPage
  /\ phase # "up" => ended = {}

\* Whoever holds a line has a bit.
LinesRight ==
  /\ method \in [Line -> Slot] /\ told \in [Line -> Slot]
  /\ \A i \in Line : {method[i], told[i]} \subseteq proc_bitmap \cup {0}
  /\ phase # "up" => \A i \in Line : method[i] = 0 /\ told[i] = 0

\* The inductive invariant.
TableInv ==
  /\ TableTypes
  /\ \E o \in Seq(Slot) : Listing(o)
  /\ BootOrder
  /\ EndedHaveNoStack
  /\ LinesRight
  /\ ~spinning

(* Slots *)

\* The slots are the bits of the words, and those of the first word are among them.
LEMMA Slots ==
  /\ WordBits \in Nat /\ WordBits > TaskCount + 2 /\ TaskCount \in Nat \ {0}
  /\ WordBits * Words \in Nat /\ WordBits <= WordBits * Words
  /\ Slot = 0 .. WordBits * Words - 1 /\ 0 .. WordBits - 1 \subseteq Slot
  /\ IsFiniteSet(Slot) /\ Cardinality(Slot) = WordBits * Words
  /\ 0 \in Slot /\ Init1 \in Slot /\ SystaskPid \in Slot /\ Nil \notin Slot
<1>1. /\ WordBits \in Nat \ {0} /\ Words \in Nat \ {0} /\ TaskCount \in Nat \ {0}
      /\ TaskCount + 2 < WordBits
  BY ProcTableAssumption DEF ProcTableAssumption
<1>2. WordBits * Words \in Nat /\ WordBits <= WordBits * Words
  <2>1. Words - 1 \in Nat /\ WordBits * (Words - 1) >= 0
    BY <1>1
  <2>2. WordBits * Words = WordBits * (Words - 1) + WordBits
    BY <1>1
  <2>3. QED
    BY <1>1, <2>1, <2>2
<1>3. Slot = 0 .. WordBits * Words - 1
  BY DEF Slot
<1>4. IsFiniteSet(Slot) /\ Cardinality(Slot) = WordBits * Words
  <2> DEFINE K == WordBits * Words
  <2>1. K \in Nat /\ K > 0
    BY <1>1, <1>2
  <2> HIDE DEF K
  <2>2. IsFiniteSet(0 .. K - 1) /\ Cardinality(0 .. K - 1) = K
    BY <2>1, FS_Interval
  <2>3. QED
    BY <1>3, <2>2 DEF K
<1>5. QED
  BY <1>1, <1>2, <1>3, <1>4 DEF Init1, SystaskPid, Nil

\* While the first word has a bit left, find_first_unset_bit finds one that is free.
LEMMA FirstUnsetFree ==
  ASSUME proc_bitmap \subseteq Slot, Cardinality(proc_bitmap) < WordBits
  PROVE  FirstUnset \in Slot \ proc_bitmap
<1> DEFINE open == {w \in 0 .. (Words - 1) : ~ BitsOf(w) \subseteq proc_bitmap}
           free == BitsOf(0) \ proc_bitmap
<1>1. BitsOf(0) = 0 .. WordBits - 1
  BY Slots DEF BitsOf
<1>2. Cardinality(BitsOf(0)) = WordBits
  BY <1>1, Slots, FS_Interval
<1>3. ~ BitsOf(0) \subseteq proc_bitmap
  <2>1. SUFFICES ASSUME BitsOf(0) \subseteq proc_bitmap PROVE FALSE
    OBVIOUS
  <2>2. IsFiniteSet(proc_bitmap) /\ Cardinality(proc_bitmap) \in Nat
    BY Slots, FS_Subset, FS_CardinalityType
  <2>3. Cardinality(BitsOf(0)) <= Cardinality(proc_bitmap)
    BY <2>1, <2>2, FS_Subset
  <2>4. QED
    BY <1>2, <2>2, <2>3, Slots
<1>4. 0 \in open /\ \A w \in open : w \in Nat
  BY <1>3, ProcTableAssumption DEF ProcTableAssumption
<1>5. Min(open) = 0
  <2> HIDE DEF open
  <2>1. \A w \in open : 0 <= w
    BY <1>4
  <2>2. \A w \in open : (\A v \in open : w <= v) => w = 0
    BY <1>4
  <2>3. QED
    BY <1>4, <2>1, <2>2 DEF Min
<1>6. Min(free) \in free
  <2>1. free \subseteq Nat /\ free # {}
    BY <1>1, <1>3, Slots
  <2> HIDE DEF free
  <2>2. \E m \in free : \A k \in free : m <= k
    BY <2>1, LeastNumber
  <2>3. QED
    BY <2>2 DEF Min
<1>7. FirstUnset = Min(free) - 0 * WordBits
  <2>1. open # {}
    BY <1>4
  <2>2. FirstUnset = IF open = {} THEN Nil ELSE Min(BitsOf(Min(open)) \ proc_bitmap) - Min(open) * WordBits
    BY DEF FirstUnset
  <2> HIDE DEF open
  <2>3. QED
    BY <1>5, <2>1, <2>2
<1>8. FirstUnset = Min(free)
  <2>1. Min(free) \in Nat
    BY <1>1, <1>6, Slots
  <2> HIDE DEF free
  <2>2. QED
    BY <1>7, <2>1, Slots
<1>9. QED
  BY <1>1, <1>6, <1>8, Slots

(* The list *)

\* The walk from proc_list visits the list in its order, and ends.
LEMMA WalkFollows ==
  ASSUME NEW o, ListOf(o)
  PROVE  /\ Len(o) \in Nat /\ DOMAIN o = 1 .. Len(o) /\ Len(o) <= Cardinality(Slot)
         /\ Ends /\ Listed = ToSet(o)
<1> DEFINE K == Cardinality(Slot)
           g == [n \in 0 .. K |-> IF n < Len(o) THEN o[n + 1] ELSE Nil]
           Step(f, n) == IF n = 0 THEN proc_list
                         ELSE LET before == f[n - 1] IN
                              IF before = Nil THEN Nil ELSE proc_table[before].next
<1>1. /\ o \in Seq(Slot) /\ IsInjective(o) /\ Len(o) \in Nat /\ DOMAIN o = 1 .. Len(o)
      /\ \A i \in 1 .. Len(o) : o[i] \in Slot /\ o[i] # Nil
  BY LenProperties, ElementOfSeq, Slots DEF ListOf
<1>2. Len(o) <= K /\ K \in Nat
  <2>1. Cardinality(ToSet(o)) = Len(o)
    BY <1>1, InjectiveLength
  <2>2. ToSet(o) \subseteq Slot
    BY <1>1 DEF ToSet
  <2>3. QED
    BY <2>1, <2>2, Slots, FS_Subset
<1>3. \A n \in 0 .. K : g[n] = Step(g, n)
  <2>1. SUFFICES ASSUME NEW n \in 0 .. K PROVE g[n] = Step(g, n)
    OBVIOUS
  <2>2. CASE n = 0
    BY <1>1, <1>2, <2>2 DEF ListOf
  <2>3. CASE n # 0 /\ n - 1 < Len(o)
    <3>1. n - 1 \in 0 .. K /\ n \in 1 .. Len(o) /\ g[n - 1] = o[n] /\ o[n] # Nil
      BY <1>1, <1>2, <2>3
    <3>2. proc_table[o[n]].next = IF n = Len(o) THEN Nil ELSE o[n + 1]
      BY <1>1, <3>1 DEF ListOf
    <3>3. g[n] = IF n < Len(o) THEN o[n + 1] ELSE Nil
      OBVIOUS
    <3> HIDE DEF g
    <3>4. Step(g, n) = proc_table[o[n]].next
      BY <2>3, <3>1
    <3>5. n < Len(o) <=> n # Len(o)
      <4>1. Len(o) \in Nat /\ n \in 1 .. Len(o)
        BY <1>1, <3>1
      <4>2. QED
        BY ONLY <4>1
    <3> HIDE DEF Step
    <3>6. QED
      BY <3>2, <3>3, <3>4, <3>5
  <2>4. CASE n # 0 /\ ~(n - 1 < Len(o))
    BY <1>1, <1>2, <2>4
  <2>5. QED
    BY <2>2, <2>3, <2>4
<1>4. g = [n \in 0 .. K |-> Step(g, n)]
  BY <1>3
<1>5. Nth = [n \in 0 .. K |-> Step(Nth, n)]
  BY <1>4 DEF Nth
<1>6. \A n \in 0 .. K : Nth[n] = g[n]
  <2> DEFINE T == {n \in 0 .. K : Nth[n] # g[n]}
  <2>1. SUFFICES ASSUME T # {} PROVE FALSE
    OBVIOUS
  <2>2. PICK m \in T : \A k \in T : m <= k
    <3>1. T \subseteq Nat
      BY <1>2
    <3> HIDE DEF T
    <3>2. QED
      BY <2>1, <3>1, LeastNumber
  <2>3. m \in 0 .. K /\ Nth[m] = Step(Nth, m) /\ g[m] = Step(g, m)
    <3>1. m \in 0 .. K
      BY <2>2
    <3>2. g[m] = Step(g, m)
      BY <1>3, <3>1
    <3> HIDE DEF g, K
    <3>3. Nth[m] = Step(Nth, m)
      BY <1>5, <3>1
    <3>4. QED
      BY <3>1, <3>2, <3>3
  <2>4. m # 0
    BY <2>2, <2>3
  <2>5. m - 1 \in 0 .. K /\ Nth[m - 1] = g[m - 1]
    BY <1>2, <2>2, <2>3, <2>4
  <2>6. QED
    BY <2>2, <2>3, <2>5
<1>7. Ends
  BY <1>1, <1>2, <1>6 DEF Ends
<1>8. Listed = ToSet(o)
  <2>1. \A n \in 0 .. K : Nth[n] # Nil => n < Len(o) /\ Nth[n] = o[n + 1] /\ n + 1 \in 1 .. Len(o)
    BY <1>1, <1>2, <1>6
  <2>2. \A i \in 1 .. Len(o) : i - 1 \in 0 .. K /\ Nth[i - 1] = o[i] /\ o[i] # Nil
    BY <1>1, <1>2, <1>6
  <2> HIDE DEF K
  <2>3. Listed = {Nth[n] : n \in 0 .. K} \ {Nil}
    BY DEF Listed, K
  <2>4. Listed \subseteq ToSet(o)
    BY <1>1, <2>1, <2>3 DEF ToSet
  <2>5. ToSet(o) \subseteq Listed
    BY <1>1, <2>2, <2>3 DEF ToSet
  <2>6. QED
    BY <2>4, <2>5
<1>9. QED
  BY <1>1, <1>2, <1>7, <1>8

\* The processes are those of the table, whatever their links.
LinksOnly(table) ==
  /\ DOMAIN proc_table' = Slot
  /\ \A p \in Slot : /\ DOMAIN proc_table'[p] = {"next", "pid", "pstack"}
                     /\ proc_table'[p].pid = table[p].pid
                     /\ proc_table'[p].pstack = table[p].pstack

\* A process linked at the end: the others keep their places.
LEMMA LinkKeeps ==
  ASSUME NEW o, ListOf(o), NEW s \in Slot, s \notin ToSet(o), NEW table,
         DOMAIN table = Slot, DOMAIN table[s] = {"next", "pid", "pstack"},
         \A p \in Slot \ {s} : table[p] = proc_table[p],
         DOMAIN proc_table = Slot, \A p \in Slot : DOMAIN proc_table[p] = {"next", "pid", "pstack"},
         proc_table' = Linked(table, s),
         proc_list' = IF proc_list = Nil THEN s ELSE proc_list
  PROVE  ListOf(Append(o, s))' /\ LinksOnly(table)
<1>1. /\ o \in Seq(Slot) /\ IsInjective(o) /\ Len(o) \in Nat /\ DOMAIN o = 1 .. Len(o)
      /\ \A i \in 1 .. Len(o) : o[i] \in Slot /\ o[i] # s /\ o[i] # Nil
  BY LenProperties, ElementOfSeq, Slots DEF ListOf, ToSet
<1>2. /\ Append(o, s) \in Seq(Slot) /\ IsInjective(Append(o, s)) /\ Len(Append(o, s)) = Len(o) + 1
      /\ DOMAIN Append(o, s) = 1 .. Len(o) + 1
      /\ \A i \in 1 .. Len(o) + 1 : Append(o, s)[i] = IF i = Len(o) + 1 THEN s ELSE o[i]
  <2>1. /\ Append(o, s) \in Seq(Slot) /\ IsInjective(Append(o, s)) /\ Len(Append(o, s)) = Len(o) + 1
        /\ \A i \in 1 .. Len(o) + 1 : Append(o, s)[i] = IF i = Len(o) + 1 THEN s ELSE o[i]
    BY <1>1, LinkedLast
  <2>2. QED
    BY <2>1, LenProperties
<1>3. /\ o = << >> => proc_list = Nil
      /\ o # << >> => Len(o) > 0 /\ proc_list = o[1] /\ proc_list # Nil
  BY <1>1, Slots, EmptySeq DEF ListOf
<1> DEFINE t == Append(o, s)
<1>4. CASE o = << >>
  <2>1. proc_table' = [table EXCEPT ![s].next = Nil] /\ proc_list' = s
    BY <1>3, <1>4 DEF Linked
  <2>2. Len(o) = 0
    BY <1>4
  <2>3. /\ DOMAIN proc_table' = Slot /\ proc_table'[s].next = Nil
        /\ \A p \in Slot : /\ DOMAIN proc_table'[p] = {"next", "pid", "pstack"}
                            /\ proc_table'[p].pid = table[p].pid
                            /\ proc_table'[p].pstack = table[p].pstack
    BY <2>1
  <2>4. t # << >> /\ t[1] = s /\ DOMAIN t = 1 .. 1 /\ Len(t) = 1
    BY <1>2, <2>2
  <2> HIDE DEF t
  <2>5. ListOf(t)'
    BY <1>2, <2>1, <2>3, <2>4 DEF ListOf, t
  <2>6. QED
    BY <2>3, <2>5 DEF t, LinksOnly
<1>5. CASE o # << >>
  <2> DEFINE l == o[Len(o)]
  <2>1. l \in Slot /\ l # s /\ table[l].next = Nil /\ l \in ToSet(o)
    BY <1>1, <1>3, <1>5 DEF ListOf, ToSet
  <2>2. LastOf(table) = l
    <3>1. \A p \in ToSet(o) : table[p].next = Nil => p = l
      <4>1. ASSUME NEW i \in 1 .. Len(o), i # Len(o)
            PROVE  table[o[i]].next # Nil
        <5>1. i + 1 \in 1 .. Len(o) /\ o[i] \in Slot \ {s} /\ o[i + 1] # Nil
          <6>1. Len(o) \in Nat /\ i # Len(o) /\ i \in 1 .. Len(o)
            BY <1>1, <4>1
          <6>2. i + 1 \in 1 .. Len(o)
            BY ONLY <6>1
          <6>3. QED
            BY <1>1, <6>2
        <5>2. proc_table[o[i]].next = o[i + 1]
          BY <1>1, <4>1 DEF ListOf
        <5>3. QED
          BY <5>1, <5>2
      <4>2. QED
        BY <1>1, <4>1 DEF ToSet
    <3>2. QED
      BY <2>1, <3>1, WalkFollows DEF LastOf
  <2>3. proc_table' = [table EXCEPT ![l].next = s, ![s].next = Nil] /\ proc_list' = proc_list
    BY <1>3, <1>5, <2>2 DEF Linked
  <2> HIDE DEF l
  <2>4. /\ DOMAIN proc_table' = Slot /\ proc_table'[s].next = Nil /\ proc_table'[l].next = s
        /\ \A p \in Slot \ {s, l} : proc_table'[p] = proc_table[p]
    BY <2>1, <2>3
  <2>5. \A p \in Slot : /\ DOMAIN proc_table'[p] = {"next", "pid", "pstack"}
                        /\ proc_table'[p].pid = table[p].pid
                        /\ proc_table'[p].pstack = table[p].pstack
    BY <2>1, <2>3
  <2>6. \A i \in 1 .. Len(o) : proc_table'[o[i]].next = IF i = Len(o) THEN s ELSE o[i + 1]
    <3>1. SUFFICES ASSUME NEW i \in 1 .. Len(o)
                   PROVE  proc_table'[o[i]].next = IF i = Len(o) THEN s ELSE o[i + 1]
      OBVIOUS
    <3>2. CASE i = Len(o)
      BY <2>4, <3>2 DEF l
    <3>3. CASE i # Len(o)
      <4>1. o[i] # l
        <5>1. i \in DOMAIN o /\ Len(o) \in DOMAIN o
          BY <1>1
        <5>2. QED
          BY <1>1, <3>3, <5>1 DEF l, IsInjective
      <4>2. QED
        BY <1>1, <2>4, <3>3, <4>1 DEF ListOf
    <3>4. QED
      BY <3>2, <3>3
  <2>7. t # << >> /\ t[1] = o[1]
    BY <1>1, <1>2, <1>3, <1>5
  <2>8. \A i \in DOMAIN t : proc_table'[t[i]].next = IF i = Len(t) THEN Nil ELSE t[i + 1]
    <3>1. SUFFICES ASSUME NEW i \in 1 .. Len(o) + 1
                   PROVE  proc_table'[t[i]].next = IF i = Len(o) + 1 THEN Nil ELSE t[i + 1]
      BY <1>2
    <3>2. CASE i = Len(o) + 1
      BY <1>2, <2>4, <3>2
    <3>3. CASE i # Len(o) + 1
      <4>1. i \in 1 .. Len(o) /\ i + 1 \in 1 .. Len(o) + 1
        BY <1>1, <3>3
      <4>2. t[i] = o[i] /\ t[i + 1] = IF i = Len(o) THEN s ELSE o[i + 1]
        <5>1. i \in 1 .. Len(o) + 1 /\ i # Len(o) + 1 /\ (i + 1 = Len(o) + 1 <=> i = Len(o))
          BY <1>1, <3>3, <4>1
        <5> HIDE DEF t
        <5>2. t[i] = o[i]
          BY <1>2, <5>1 DEF t
        <5>3. t[i + 1] = IF i + 1 = Len(o) + 1 THEN s ELSE o[i + 1]
          BY <1>2, <4>1 DEF t
        <5>4. QED
          BY <5>1, <5>2, <5>3
      <4> HIDE DEF t
      <4>3. QED
        BY <2>6, <3>3, <4>1, <4>2
    <3>4. QED
      BY <3>2, <3>3
  <2>9. ListOf(t)'
    <3> HIDE DEF t
    <3>1. QED
      BY <1>2, <1>3, <1>5, <2>3, <2>7, <2>8 DEF ListOf, t
  <2>10. QED
    BY <2>4, <2>5, <2>9 DEF LinksOnly
<1>6. QED
  BY <1>4, <1>5

\* Every process but s is as it was, whatever its link.
OthersKept(s) ==
  /\ DOMAIN proc_table' = Slot
  /\ \A p \in Slot \ {s} : /\ proc_table'[p].pid = proc_table[p].pid
                           /\ proc_table'[p].pstack = proc_table[p].pstack

\* A process unlinked from behind the first: the others keep their places.
LEMMA UnlinkKeeps ==
  ASSUME NEW o, ListOf(o), NEW s \in ToSet(o), s # proc_list,
         DOMAIN proc_table = Slot, \A p \in Slot : DOMAIN proc_table[p] = {"next", "pid", "pstack"},
         proc_table' = [Unlinked(s) EXCEPT ![s] = Cleared],
         proc_list' = proc_list
  PROVE  \E n \in Seq(Slot) :
           /\ ListOf(n)' /\ ToSet(n) = ToSet(o) \ {s} /\ Len(n) = Len(o) - 1 /\ n # << >> /\ n[1] = o[1]
           /\ OthersKept(s)
<1>1. /\ o \in Seq(Slot) /\ IsInjective(o) /\ Len(o) \in Nat /\ DOMAIN o = 1 .. Len(o)
      /\ \A i \in 1 .. Len(o) : o[i] \in Slot /\ o[i] # Nil
  BY LenProperties, ElementOfSeq, Slots DEF ListOf, ToSet
<1>2. PICK k \in 1 .. Len(o) : o[k] = s
  BY <1>1 DEF ToSet
<1>3. o # << >> /\ proc_list = o[1] /\ k # 1 /\ k \in Nat /\ k <= Len(o) /\ s \in Slot
  BY <1>1, <1>2 DEF ListOf
<1> DEFINE f == o[k - 1]
           n == RemoveAt(o, k)
<1>4. k - 1 \in 1 .. Len(o) /\ k - 1 # Len(o) /\ (k - 1) + 1 = k
  BY ONLY <1>1, <1>3
<1>5. f \in ToSet(o) /\ f \in Slot /\ f # s /\ proc_table[f].next = s
  <2>1. f \in ToSet(o) /\ f \in Slot
    BY <1>1, <1>4 DEF ToSet
  <2>2. f # s
    BY <1>1, <1>2, <1>4 DEF IsInjective
  <2>3. proc_table[f].next = o[(k - 1) + 1]
    BY <1>1, <1>4 DEF ListOf
  <2>4. QED
    BY <1>2, <1>4, <2>1, <2>2, <2>3
<1>6. \A p \in ToSet(o) : proc_table[p].next = s => p = f
  <2>1. SUFFICES ASSUME NEW i \in 1 .. Len(o), proc_table[o[i]].next = s PROVE o[i] = f
    BY <1>1 DEF ToSet
  <2>2. i # Len(o) /\ o[i + 1] = s
    <3>1. proc_table[o[i]].next = IF i = Len(o) THEN Nil ELSE o[i + 1]
      BY <1>1 DEF ListOf
    <3>2. s # Nil
      BY <1>1, <1>2
    <3>3. QED
      BY <2>1, <3>1, <3>2
  <2>3. i + 1 \in 1 .. Len(o) /\ i \in Nat
    <3>1. Len(o) \in Nat /\ i \in 1 .. Len(o) /\ i # Len(o)
      BY <1>1, <2>2
    <3>2. QED
      BY ONLY <3>1
  <2>4. i + 1 = k
    BY <1>1, <1>2, <2>2, <2>3 DEF IsInjective
  <2>5. i = k - 1
    BY ONLY <2>3, <2>4
  <2>6. QED
    BY <2>5
<1>7. (CHOOSE p \in Listed : proc_table[p].next = s) = f
  BY <1>5, <1>6, WalkFollows
<1> DEFINE after == proc_table[s].next
<1>8. proc_table' = [proc_table EXCEPT ![f].next = after, ![s] = Cleared]
  BY <1>7 DEF Unlinked
<1> HIDE DEF f
<1>9. /\ DOMAIN proc_table' = Slot /\ proc_table'[f].next = after
      /\ \A p \in Slot \ {s, f} : proc_table'[p] = proc_table[p]
      /\ \A p \in Slot \ {s} : /\ DOMAIN proc_table'[p] = {"next", "pid", "pstack"}
                               /\ proc_table'[p].pid = proc_table[p].pid
                               /\ proc_table'[p].pstack = proc_table[p].pstack
  BY <1>3, <1>5, <1>8
<1>10. n \in Seq(Slot) /\ IsInjective(n) /\ ToSet(n) = ToSet(o) \ {s}
  BY <1>1, <1>2, UnlinkedAt
<1>11. /\ Len(n) = Len(o) - 1 /\ DOMAIN n = 1 .. Len(o) - 1
       /\ \A i \in 1 .. Len(o) - 1 : n[i] = IF i < k THEN o[i] ELSE o[i + 1]
  <2>1. /\ Len(n) = Len(o) - 1
        /\ \A i \in 1 .. Len(o) - 1 : n[i] = IF i < k THEN o[i] ELSE o[i + 1]
    BY <1>1, <1>2, RemoveAtProperties
  <2>2. QED
    BY <1>10, <2>1, LenProperties
<1> HIDE DEF n
<1> DEFINE Numbers == Len(o) \in Nat /\ k \in 1 .. Len(o) /\ k # 1
<1>n. Numbers
  BY <1>1, <1>2, <1>3
<1>12. 1 \in 1 .. Len(o) - 1 /\ 1 < k /\ n # << >> /\ n[1] = o[1]
  <2>1. 1 \in 1 .. Len(o) - 1 /\ 1 < k
    BY ONLY <1>n
  <2>2. QED
    BY <1>11, <2>1
<1>13. after = IF k = Len(o) THEN Nil ELSE o[k + 1]
  BY <1>1, <1>2 DEF ListOf
<1> HIDE DEF after
<1>14. ASSUME NEW i \in 1 .. Len(o) - 1
       PROVE  proc_table'[n[i]].next = IF i = Len(o) - 1 THEN Nil ELSE n[i + 1]
  <2>1. CASE i < k - 1
    <3>1. i \in 1 .. Len(o) /\ i # Len(o) /\ i # k - 1 /\ i # k /\ i < k /\ i # Len(o) - 1
          /\ i + 1 \in 1 .. Len(o) - 1 /\ i + 1 < k
      BY ONLY <1>n, <2>1, <1>14
    <3>2. n[i] = o[i] /\ n[i + 1] = o[i + 1]
      BY <1>11, <3>1
    <3>3. o[i] # s /\ o[i] # f
      BY <1>1, <1>2, <1>4, <3>1 DEF f, IsInjective
    <3>4. proc_table[o[i]].next = o[i + 1]
      BY <1>1, <3>1 DEF ListOf
    <3>5. QED
      BY <1>1, <1>9, <3>1, <3>2, <3>3, <3>4
  <2>2. CASE i = k - 1
    <3>1. i < k /\ (k = Len(o) <=> i = Len(o) - 1) /\ (i # Len(o) - 1 => i + 1 \in 1 .. Len(o) - 1)
          /\ ~(i + 1 < k) /\ (i + 1) + 1 = k + 1
      BY ONLY <1>n, <2>2, <1>14
    <3>2. n[i] = f
      BY <1>11, <2>2, <3>1 DEF f
    <3>3. i # Len(o) - 1 => n[i + 1] = o[k + 1]
      BY <1>11, <3>1
    <3>4. QED
      BY <1>9, <1>13, <3>1, <3>2, <3>3
  <2>3. CASE i > k - 1
    <3>1. ~(i < k) /\ i + 1 \in 1 .. Len(o) /\ i + 1 # k /\ i + 1 # k - 1
          /\ (i + 1 = Len(o) <=> i = Len(o) - 1) /\ (i # Len(o) - 1 => i + 1 \in 1 .. Len(o) - 1)
          /\ ~(i + 1 < k)
      BY ONLY <1>n, <2>3, <1>14
    <3>2. n[i] = o[i + 1] /\ (i # Len(o) - 1 => n[i + 1] = o[(i + 1) + 1])
      BY <1>11, <3>1
    <3>3. o[i + 1] # s /\ o[i + 1] # f
      BY <1>1, <1>2, <1>4, <3>1 DEF f, IsInjective
    <3>4. proc_table[o[i + 1]].next = IF i + 1 = Len(o) THEN Nil ELSE o[(i + 1) + 1]
      BY <1>1, <3>1 DEF ListOf
    <3>5. proc_table'[o[i + 1]] = proc_table[o[i + 1]]
      BY <1>1, <1>9, <3>1, <3>3
    <3>6. QED
      <4> HIDE DEF Numbers
      <4>1. proc_table'[n[i]].next = IF i = Len(o) - 1 THEN Nil ELSE o[(i + 1) + 1]
        BY <3>1, <3>2, <3>4, <3>5
      <4>2. QED
        BY <3>2, <4>1
  <2>4. i < k - 1 \/ i = k - 1 \/ i > k - 1
    BY ONLY <1>n, <1>14
  <2>5. QED
    BY <2>1, <2>2, <2>3, <2>4
<1>15. ListOf(n)'
  BY <1>3, <1>10, <1>11, <1>12, <1>14 DEF ListOf
<1>16. QED
  <2>1. OthersKept(s)
    BY <1>9 DEF OthersKept
  <2>2. QED
    BY <1>10, <1>11, <1>12, <1>15, <2>1

\* Linking and unlinking leave processes in the slots.
LEMMA LinkTypes ==
  ASSUME NEW table \in [Slot -> Process], NEW s \in Slot, proc_table \in [Slot -> Process]
  PROVE  /\ Linked(table, s) \in [Slot -> Process]
         /\ Unlinked(s) \in [Slot -> Process]
<1> DEFINE Relinked(t, p, v) == [t EXCEPT ![p].next = v]
<1>1. ASSUME NEW t \in [Slot -> Process], NEW p, NEW v \in Slot \cup {Nil}
      PROVE  Relinked(t, p, v) \in [Slot -> Process]
  <2>1. CASE p \in Slot
    <3>1. [t[p] EXCEPT !.next = v] \in Process
      BY <2>1 DEF Process
    <3>2. QED
      BY <2>1, <3>1
  <2>2. CASE p \notin Slot
    BY <2>2
  <2>3. QED
    BY <2>1, <2>2
<1>2. Linked(table, s) \in [Slot -> Process]
  <2>1. CASE proc_list = Nil
    BY <1>1, <2>1 DEF Linked
  <2>2. CASE proc_list # Nil
    <3>1. Linked(table, s) = Relinked(Relinked(table, LastOf(table), s), s, Nil)
      BY <2>2 DEF Linked
    <3> HIDE DEF Relinked
    <3>2. QED
      BY <1>1, <3>1
  <2>3. QED
    BY <2>1, <2>2
<1>3. Unlinked(s) \in [Slot -> Process]
  <2>1. proc_table[s].next \in Slot \cup {Nil}
    BY DEF Process
  <2>2. QED
    BY <1>1, <2>1 DEF Unlinked
<1>4. QED
  BY <1>2, <1>3

(* The bitmap and the list *)

\* The list tells how many bits are set.
LEMMA BitsCounted ==
  ASSUME TableInv, NEW o \in Seq(Slot), Listing(o)
  PROVE  /\ Len(o) \in Nat /\ proc_count = Len(o) /\ Listed = ToSet(o) /\ Ends
         /\ Cardinality(ToSet(o)) = Len(o)
         /\ Listed \subseteq proc_bitmap
         /\ proc_bitmap \subseteq Slot
         /\ phase = "up" => Cardinality(proc_bitmap) = proc_count
         /\ Cardinality(proc_bitmap) <= proc_count + 1
         /\ proc_count = 0 <=> o = << >>
         /\ proc_list = Nil <=> o = << >>
         /\ phase # "up" => Init1 \notin ToSet(o)
<1>1. ListOf(o) /\ proc_count = Len(o) /\ proc_bitmap \subseteq Slot
  BY DEF Listing, TableInv, TableTypes
<1>2. /\ Len(o) \in Nat /\ Listed = ToSet(o) /\ Ends
      /\ ToSet(o) = IF phase = "up" THEN proc_bitmap ELSE proc_bitmap \ {Init1}
  BY <1>1, WalkFollows DEF Listing
<1>3. Cardinality(ToSet(o)) = Len(o)
  BY <1>1, InjectiveLength DEF ListOf
<1>4. IsFiniteSet(ToSet(o)) /\ IsFiniteSet(proc_bitmap)
  BY <1>1, <1>2, Slots, FS_Subset
<1>5. Cardinality(proc_bitmap) <= Len(o) + 1
  <2>1. CASE proc_bitmap = ToSet(o)
    BY <1>2, <1>3, <2>1
  <2>2. CASE proc_bitmap # ToSet(o)
    <3>1. proc_bitmap = ToSet(o) \cup {Init1}
      BY <1>2, <2>2
    <3>2. Cardinality(proc_bitmap) = IF Init1 \in ToSet(o) THEN Cardinality(ToSet(o)) ELSE Cardinality(ToSet(o)) + 1
      BY <1>4, <3>1, FS_AddElement
    <3>3. QED
      BY <1>2, <1>3, <3>2
  <2>3. QED
    BY <2>1, <2>2
<1>6. (proc_count = 0 <=> o = << >>) /\ (proc_list = Nil <=> o = << >>)
  <2>1. Len(o) = 0 <=> o = << >>
    BY <1>2, EmptySeq
  <2>2. o # << >> => o[1] \in Slot
    <3>1. o # << >> => 1 \in 1 .. Len(o)
      BY <1>2, <2>1
    <3>2. QED
      BY <3>1, ElementOfSeq
  <2>3. QED
    BY <1>1, <2>1, <2>2, Slots DEF ListOf
<1>7. QED
  BY <1>1, <1>2, <1>3, <1>5, <1>6

(* Every step keeps the invariant *)

\* Before core_init_memory there is no process.
LEMMA TableInitially == TableInit => TableInv
<1> SUFFICES ASSUME TableInit PROVE TableInv
  OBVIOUS
<1> USE DEF TableInit
<1>1. CorePages \in Nat /\ UserStack \in Nat
  BY ProcTableAssumption DEF ProcTableAssumption, UserStack
<1>2. TableTypes
  <2>1. Cleared \in Process
    BY <1>1, Slots DEF Cleared, NoPage, Process
  <2>2. pagelink \in [1..CorePages -> 0..CorePages] /\ freemem \in 0..CorePages
    BY <1>1 DEF NoPage
  <2>3. QED
    BY <2>1, <2>2 DEF TableTypes
<1>3. Listing(<< >>)
  <2>1. << >> \in Seq(Slot) /\ Len(<< >>) = 0 /\ DOMAIN << >> = {} /\ ToSet(<< >>) = {}
    BY DEF ToSet
  <2>2. ListOf(<< >>)
    BY <2>1 DEF ListOf, IsInjective
  <2>3. QED
    BY <2>1, <2>2 DEF Listing
<1>4. \E o \in Seq(Slot) : Listing(o)
  <2>1. << >> \in Seq(Slot)
    OBVIOUS
  <2>2. QED
    BY <1>3, <2>1, Zenon
<1>5. BootOrder
  BY DEF BootOrder
<1>6. EndedHaveNoStack /\ LinesRight /\ ~spinning
  BY Slots DEF EndedHaveNoStack, LinesRight
<1>7. QED
  BY <1>2, <1>4, <1>5, <1>6 DEF TableInv

\* A slot taken and linked: the list is longer by one, and every other process as it was.
LEMMA TakeSlot ==
  ASSUME TableInv, NEW o \in Seq(Slot), Listing(o), NEW s \in Slot, s \notin ToSet(o),
         NEW r \in Process, r.pid = s,
         proc_table' = Linked([proc_table EXCEPT ![s] = r], s),
         proc_list' = IF proc_list = Nil THEN s ELSE proc_list,
         proc_count' = proc_count + 1,
         proc_bitmap' \subseteq Slot,
         ToSet(o) \cup {s} = IF phase' = "up" THEN proc_bitmap' ELSE proc_bitmap' \ {Init1},
         Init1 \in proc_bitmap', proc_count = 0 => s = 0
  PROVE  /\ (\E n \in Seq(Slot) : Listing(n))'
         /\ proc_table' \in [Slot -> Process]
         /\ OthersKept(s)
<1> DEFINE n == Append(o, s)
<1>1. /\ proc_table \in [Slot -> Process] /\ ListOf(o) /\ proc_count = Len(o) /\ Len(o) \in Nat
      /\ proc_count = 0 <=> o = << >>
  BY BitsCounted DEF TableInv, TableTypes, Listing
<1>0. PICK table \in [Slot -> Process] : table = [proc_table EXCEPT ![s] = r]
  BY <1>1
<1>2. /\ table \in [Slot -> Process] /\ table[s] = r
      /\ \A p \in Slot \ {s} : table[p] = proc_table[p]
      /\ \A q \in Process : DOMAIN q = {"next", "pid", "pstack"}
  BY <1>0, <1>1 DEF Process
<1>3. proc_table' \in [Slot -> Process]
  BY <1>0, <1>1, <1>2, LinkTypes
<1>4. /\ ListOf(n)'
      /\ \A p \in Slot : proc_table'[p].pid = table[p].pid /\ proc_table'[p].pstack = table[p].pstack
  <2>1. proc_table' = Linked(table, s)
    BY <1>0
  <2>2. /\ DOMAIN table = Slot /\ DOMAIN table[s] = {"next", "pid", "pstack"}
        /\ DOMAIN proc_table = Slot /\ \A p \in Slot : DOMAIN proc_table[p] = {"next", "pid", "pstack"}
    BY <1>1, <1>2
  <2>3. ListOf(n)' /\ LinksOnly(table)
    BY <1>1, <1>2, <2>1, <2>2, LinkKeeps
  <2>4. QED
    BY <2>3 DEF LinksOnly
<1>5. /\ n \in Seq(Slot) /\ ToSet(n) = ToSet(o) \cup {s} /\ Len(n) = Len(o) + 1
      /\ n # << >> /\ n[1] = IF o = << >> THEN s ELSE o[1]
  <2>1. /\ n \in Seq(Slot) /\ ToSet(n) = ToSet(o) \cup {s} /\ Len(n) = Len(o) + 1
        /\ \A i \in 1 .. Len(o) + 1 : n[i] = IF i = Len(o) + 1 THEN s ELSE o[i]
    BY <1>1, LinkedLast DEF ListOf
  <2> HIDE DEF n
  <2>2. 1 \in 1 .. Len(o) + 1 /\ (1 = Len(o) + 1 <=> Len(o) = 0) /\ Len(o) + 1 # 0
    BY <1>1
  <2>3. Len(o) = 0 <=> o = << >>
    BY <1>1
  <2>4. QED
    BY <2>1, <2>2, <2>3, EmptySeq
<1> HIDE DEF n
<1>6. Listing(n)'
  <2>1. \A p \in ToSet(n) : proc_table'[p].pid = p
    <3>1. \A p \in ToSet(o) : table[p].pid = p /\ p \in Slot
      <4>1. \A p \in ToSet(o) : p \in Slot /\ p # s /\ proc_table[p].pid = p
        BY ElementOfSeq, LenProperties DEF Listing, ToSet
      <4>2. QED
        BY <1>2, <4>1
    <3>2. table[s].pid = s
      BY <1>2
    <3>3. QED
      BY <1>4, <1>5, <3>1, <3>2
  <2>2. n[1] = 0
    BY <1>1, <1>5 DEF Listing
  <2>3. proc_count' = Len(n)
    BY <1>1, <1>5
  <2>4. QED
    BY <1>4, <1>5, <2>1, <2>2, <2>3 DEF Listing
<1>7. OthersKept(s)
  BY <1>2, <1>3, <1>4 DEF OthersKept
<1>8. QED
  BY <1>3, <1>5, <1>6, <1>7

\* EXIT_PROC takes a process from behind the first.
LEMMA ExitKeeps ==
  ASSUME TableInv, NEW s \in Slot, ExitProc(s)
  PROVE  TableInv'
<1>1. PICK o \in Seq(Slot) : Listing(o)
  BY DEF TableInv
<1>2. /\ proc_table \in [Slot -> Process] /\ ListOf(o) /\ proc_count = Len(o) /\ Len(o) \in Nat
      /\ phase = "up" /\ ToSet(o) = proc_bitmap /\ s \in proc_bitmap /\ s >= FirstUser
      /\ proc_table[s].pstack = NoPage
  <2>1. s \in ended
    BY DEF ExitProc
  <2>2. phase = "up" /\ s \in proc_bitmap /\ s >= FirstUser /\ proc_table[s].pstack = NoPage
    BY <2>1 DEF TableInv, EndedHaveNoStack
  <2>3. QED
    BY <1>1, <2>2, BitsCounted DEF TableInv, TableTypes, Listing
<1>3. /\ proc_table' = [Unlinked(s) EXCEPT ![s] = Cleared] /\ proc_list' = proc_list
      /\ proc_bitmap' = proc_bitmap \ {s} /\ proc_count' = proc_count - 1 /\ phase' = phase
      /\ ended' = ended \ {s} /\ told' = Released(told, s) /\ method' = Released(method, s)
      /\ UNCHANGED <<freemem, pagelink, spinning>>
  <2>1. UserStack # NoPage
    BY ProcTableAssumption DEF ProcTableAssumption, UserStack, NoPage
  <2>2. FreesStack(s) => UNCHANGED <<freemem, pagelink, spinning>>
    BY <1>2, <2>1 DEF FreesStack
  <2>3. QED
    BY <1>2, <2>2 DEF ExitProc
<1>4. s # proc_list /\ s # Init1 /\ s # 0
  <2>1. o # << >> /\ proc_list = 0
    BY <1>1, <1>2 DEF ListOf, Listing, ToSet
  <2>2. s \in Nat /\ s >= TaskCount + 2 /\ TaskCount \in Nat
    BY <1>2, Slots DEF FirstUser
  <2>3. QED
    BY <2>1, <2>2 DEF Init1
<1>5. Cleared \in Process
  <2>1. CorePages \in Nat
    BY ProcTableAssumption DEF ProcTableAssumption
  <2>2. QED
    BY <2>1, Slots DEF Cleared, Process, NoPage, UserStack
<1>6. proc_table' \in [Slot -> Process]
  BY <1>2, <1>3, <1>5, LinkTypes
<1>7. PICK n \in Seq(Slot) : /\ ListOf(n)' /\ ToSet(n) = ToSet(o) \ {s} /\ Len(n) = Len(o) - 1
                             /\ n # << >> /\ n[1] = o[1] /\ OthersKept(s)
  <2>1. DOMAIN proc_table = Slot /\ \A p \in Slot : DOMAIN proc_table[p] = {"next", "pid", "pstack"}
    BY <1>2 DEF Process
  <2>2. QED
    BY <1>2, <1>3, <1>4, <2>1, UnlinkKeeps
<1>8. Listing(n)'
  <2>1. \A p \in ToSet(n) : proc_table'[p].pid = p
    BY <1>1, <1>2, <1>7 DEF Listing, OthersKept, TableInv, TableTypes
  <2>2. n[1] = 0 /\ Init1 \in proc_bitmap'
    <3>1. o # << >>
      BY <1>2 DEF ToSet
    <3>2. QED
      BY <1>1, <1>3, <1>4, <1>7, <3>1 DEF Listing
  <2>3. QED
    BY <1>2, <1>3, <1>7, <2>1, <2>2 DEF Listing
<1>9. TableTypes'
  BY <1>2, <1>3, <1>6, <1>7 DEF TableInv, TableTypes
<1>10. BootOrder'
  <2>1. proc_count' > 0
    <3>1. Len(n) \in Nat /\ (Len(n) = 0 => n = << >>)
      BY EmptySeq
    <3>2. QED
      BY <1>2, <1>3, <1>7, <3>1
  <2>2. QED
    BY <1>2, <1>3, <2>1 DEF BootOrder
<1>11. EndedHaveNoStack'
  BY <1>2, <1>3, <1>7 DEF EndedHaveNoStack, OthersKept, TableInv, TableTypes
<1>12. LinesRight'
  <2>1. /\ method \in [Line -> Slot] /\ told \in [Line -> Slot]
        /\ \A i \in Line : {method[i], told[i]} \subseteq proc_bitmap \cup {0}
    BY DEF TableInv, LinesRight
  <2>2. /\ method' = [i \in Line |-> IF method[i] = s THEN 0 ELSE method[i]]
        /\ told' = [i \in Line |-> IF told[i] = s THEN 0 ELSE told[i]]
    BY <1>3 DEF Released
  <2>3. /\ method' \in [Line -> Slot] /\ told' \in [Line -> Slot]
        /\ \A i \in Line : {method'[i], told'[i]} \subseteq proc_bitmap' \cup {0}
    BY <1>3, <2>1, <2>2, Slots
  <2>4. QED
    BY <1>2, <1>3, <2>3 DEF LinesRight
<1>13. ~spinning' /\ (\E m \in Seq(Slot) : Listing(m))'
  BY <1>3, <1>8 DEF TableInv
<1>14. QED
  BY <1>9, <1>10, <1>11, <1>12, <1>13 DEF TableInv

\* Every stack fits its field, the one below the kernel too.
LEMMA StacksFit ==
  /\ UserStack \in 0 .. UserStack /\ NoPage \in 0 .. UserStack
  /\ \A p \in 0 .. CorePages : p \in 0 .. UserStack
  BY ProcTableAssumption DEF ProcTableAssumption, UserStack, NoPage

\* A slot that gets its pid and a stack.
LEMMA SlotFilled ==
  ASSUME NEW q \in Process, NEW p \in Slot, NEW k \in 0 .. UserStack
  PROVE  /\ [q EXCEPT !.pid = p, !.pstack = k] \in Process
         /\ [q EXCEPT !.pid = p, !.pstack = k].pid = p
  BY DEF Process

\* init_proc takes the pid that it is asked for, or any: there is one in the first word.
LEMMA InitProcKeeps ==
  ASSUME TableInv, InitProc
  PROVE  TableInv'
<1>1. PICK o \in Seq(Slot) : Listing(o)
  BY DEF TableInv
<1> DEFINE pid == IF Preferred \in Slot \ proc_bitmap THEN Preferred ELSE FirstUnset
           r == [proc_table[pid] EXCEPT !.pid = pid, !.pstack = freemem]
<1>2. /\ proc_count = Len(o) /\ Len(o) \in Nat /\ Cardinality(proc_bitmap) <= proc_count + 1
      /\ proc_bitmap \subseteq Slot /\ Init1 \notin ToSet(o) /\ (proc_count = 0 <=> o = << >>)
      /\ ToSet(o) = proc_bitmap \ {Init1} /\ phase = "tasks" /\ proc_count < TaskCount + 1
      /\ o # << >> => Init1 \in proc_bitmap
      /\ o = << >> => proc_bitmap = {}
  BY <1>1, BitsCounted DEF InitProc, Listing
<1>3. /\ proc_bitmap' = proc_bitmap \cup {pid} \cup {Init1}
      /\ proc_table' = Linked([proc_table EXCEPT ![pid] = r], pid)
      /\ proc_list' = IF proc_list = Nil THEN pid ELSE proc_list
      /\ proc_count' = proc_count + 1
      /\ freemem' = IF freemem = NoPage THEN NoPage ELSE pagelink[freemem]
      /\ phase' = IF proc_count = TaskCount THEN "init" ELSE phase
      /\ UNCHANGED <<pagelink, ended, lines, spinning>>
  BY DEF InitProc
<1>4. /\ pid \in Slot \ proc_bitmap /\ pid # Init1
      /\ proc_count = 0 => pid = 0
  <2>1. Cardinality(proc_bitmap) \in Nat
    BY <1>2, Slots, FS_Subset, FS_CardinalityType
  <2>2. Cardinality(proc_bitmap) < WordBits
    BY <1>2, <2>1, Slots
  <2>3. FirstUnset \in Slot \ proc_bitmap
    BY <1>2, <2>2, FirstUnsetFree
  <2>4. proc_count = 0 => Preferred = 0 /\ proc_bitmap = {}
    BY <1>2 DEF Preferred
  <2>5. QED
    BY <1>2, <2>3, <2>4, Slots DEF Init1
<1> HIDE DEF pid
<1>5. /\ proc_table \in [Slot -> Process] /\ freemem \in 0 .. CorePages /\ CorePages \in Nat
      /\ pagelink \in [1 .. CorePages -> 0 .. CorePages]
  BY ProcTableAssumption DEF TableInv, TableTypes, ProcTableAssumption
<1>6. r \in Process /\ r.pid = pid
  <2>1. proc_table[pid] \in Process /\ pid \in Slot /\ freemem \in 0 .. UserStack
    BY <1>4, <1>5, StacksFit
  <2>2. QED
    BY <2>1, SlotFilled
<1> HIDE DEF r
<1>7. /\ proc_bitmap' \subseteq Slot /\ Init1 \in proc_bitmap' /\ pid \notin ToSet(o) /\ phase' # "up"
      /\ ToSet(o) \cup {pid} = proc_bitmap' \ {Init1}
  BY <1>2, <1>3, <1>4, Slots
<1>8. /\ (\E n \in Seq(Slot) : Listing(n))'
      /\ proc_table' \in [Slot -> Process]
      /\ OthersKept(pid)
  BY <1>1, <1>2, <1>3, <1>4, <1>6, <1>7, TakeSlot
<1>9. TableTypes'
  <2>1. freemem' \in 0 .. CorePages
    BY <1>3, <1>5 DEF NoPage
  <2>2. proc_count' \in Nat /\ phase' \in {"tasks", "init"}
    BY <1>2, <1>3
  <2>3. pagelink' \in [1 .. CorePages -> 0 .. CorePages]
    BY <1>3, <1>5
  <2>4. QED
    BY <1>7, <1>8, <2>1, <2>2, <2>3 DEF TableTypes
<1>10. BootOrder'
  BY <1>2, <1>3, Slots DEF TableInv, BootOrder
<1>11. EndedHaveNoStack' /\ LinesRight' /\ ~spinning'
  BY <1>2, <1>3, <1>7 DEF TableInv, EndedHaveNoStack, LinesRight, lines
<1>12. QED
  BY <1>8, <1>9, <1>10, <1>11 DEF TableInv

\* start_up_init gives init the place that its bit was set for.
LEMMA StartInitKeeps ==
  ASSUME TableInv, StartInit
  PROVE  TableInv'
<1>1. PICK o \in Seq(Slot) : Listing(o)
  BY DEF TableInv
<1> DEFINE r == [proc_table[Init1] EXCEPT !.pid = Init1, !.pstack = UserStack]
<1>2. /\ phase = "init" /\ proc_count > 0 /\ proc_count = Len(o) /\ Len(o) \in Nat
      /\ Init1 \notin ToSet(o) /\ (proc_count = 0 <=> o = << >>) /\ (proc_list = Nil <=> o = << >>)
      /\ ToSet(o) = proc_bitmap \ {Init1} /\ Init1 \in proc_bitmap /\ proc_bitmap \subseteq Slot
  BY <1>1, BitsCounted DEF StartInit, Listing, TableInv, BootOrder
<1>3. /\ proc_table' = Linked([proc_table EXCEPT ![Init1] = r], Init1)
      /\ proc_count' = proc_count + 1 /\ phase' = "up"
      /\ proc_list' = IF proc_list = Nil THEN Init1 ELSE proc_list
      /\ UNCHANGED <<freemem, pagelink, proc_bitmap, ended, method, told, spinning>>
  BY <1>2 DEF StartInit, core, lines
<1>4. /\ proc_table \in [Slot -> Process] /\ CorePages \in Nat
  BY ProcTableAssumption DEF TableInv, TableTypes, ProcTableAssumption
<1>5. r \in Process /\ r.pid = Init1
  <2>1. proc_table[Init1] \in Process /\ Init1 \in Slot /\ UserStack \in 0 .. UserStack
    BY <1>4, Slots, StacksFit
  <2>2. QED
    BY <2>1, SlotFilled
<1> HIDE DEF r
<1>6. /\ ToSet(o) \cup {Init1} = proc_bitmap' /\ proc_bitmap' \subseteq Slot /\ Init1 \in proc_bitmap'
      /\ phase' = "up" /\ proc_count # 0
  BY <1>2, <1>3
<1>7. /\ (\E n \in Seq(Slot) : Listing(n))'
      /\ proc_table' \in [Slot -> Process]
      /\ OthersKept(Init1)
  BY <1>1, <1>2, <1>3, <1>5, <1>6, Slots, TakeSlot
<1>8. TableTypes' /\ BootOrder'
  <2>1. proc_count' \in Nat /\ proc_count' > 0
    BY <1>2, <1>3
  <2>2. freemem' \in 0 .. CorePages /\ pagelink' \in [1 .. CorePages -> 0 .. CorePages]
    BY <1>3 DEF TableInv, TableTypes
  <2>3. QED
    BY <1>6, <1>7, <2>1, <2>2 DEF TableTypes, BootOrder
<1>9. EndedHaveNoStack' /\ LinesRight' /\ ~spinning'
  BY <1>2, <1>3 DEF TableInv, EndedHaveNoStack, LinesRight
<1>10. QED
  BY <1>7, <1>8, <1>9 DEF TableInv

\* ALLOC_PROC takes the first free bit, that of no process of the list.
LEMMA AllocProcKeeps ==
  ASSUME OneWord, TableInv, AllocProc
  PROVE  TableInv'
<1>1. PICK o \in Seq(Slot) : Listing(o)
  BY DEF TableInv
<1> DEFINE pid == FirstUnset
           r == [Cleared EXCEPT !.pid = pid, !.pstack = UserStack]
<1>2. /\ phase = "up" /\ proc_count > 0 /\ proc_count = Len(o) /\ Len(o) \in Nat /\ proc_count < MaxProcs
      /\ (proc_count = 0 <=> o = << >>) /\ (proc_list = Nil <=> o = << >>)
      /\ ToSet(o) = proc_bitmap /\ Init1 \in proc_bitmap /\ proc_bitmap \subseteq Slot
      /\ Cardinality(proc_bitmap) = proc_count
  BY <1>1, BitsCounted DEF AllocProc, Listing, TableInv, BootOrder
<1>3. pid \in Slot \ proc_bitmap
  <2>1. MaxProcs <= WordBits /\ MaxProcs \in Nat
    BY ProcTableAssumption DEF OneWord, ProcTableAssumption
  <2>2. Cardinality(proc_bitmap) < WordBits
    BY <1>2, <2>1, Slots
  <2>3. QED
    BY <1>2, <2>2, FirstUnsetFree
<1>4. /\ proc_table' = Linked([proc_table EXCEPT ![pid] = r], pid)
      /\ proc_count' = proc_count + 1 /\ phase' = "up" /\ proc_bitmap' = proc_bitmap \cup {pid}
      /\ proc_list' = IF proc_list = Nil THEN pid ELSE proc_list
      /\ UNCHANGED <<freemem, pagelink, ended, method, told, spinning>>
  BY <1>2 DEF AllocProc, core, lines
<1> HIDE DEF pid
<1>5. /\ proc_table \in [Slot -> Process] /\ CorePages \in Nat
  BY ProcTableAssumption DEF TableInv, TableTypes, ProcTableAssumption
<1>6. r \in Process /\ r.pid = pid
  BY <1>3, <1>5, Slots, StacksFit DEF Process, Cleared
<1> HIDE DEF r
<1>7. /\ ToSet(o) \cup {pid} = proc_bitmap' /\ proc_bitmap' \subseteq Slot /\ Init1 \in proc_bitmap'
      /\ phase' = "up" /\ proc_count # 0 /\ pid \in Slot /\ pid \notin ToSet(o)
  BY <1>2, <1>3, <1>4
<1>8. /\ (\E n \in Seq(Slot) : Listing(n))'
      /\ proc_table' \in [Slot -> Process]
      /\ OthersKept(pid)
  BY <1>1, <1>2, <1>4, <1>6, <1>7, TakeSlot
<1>9. TableTypes' /\ BootOrder'
  <2>1. proc_count' \in Nat /\ proc_count' > 0
    BY <1>2, <1>4
  <2>2. freemem' \in 0 .. CorePages /\ pagelink' \in [1 .. CorePages -> 0 .. CorePages]
    BY <1>4 DEF TableInv, TableTypes
  <2>3. QED
    BY <1>7, <1>8, <2>1, <2>2 DEF TableTypes, BootOrder
<1>10. EndedHaveNoStack'
  BY <1>2, <1>3, <1>4, <1>8 DEF TableInv, EndedHaveNoStack, OthersKept
<1>11. LinesRight' /\ ~spinning'
  BY <1>2, <1>4 DEF TableInv, LinesRight
<1>12. QED
  BY <1>8, <1>9, <1>10, <1>11 DEF TableInv

\* A step that leaves the processes alone leaves the list alone.
LEMMA ListUntouched ==
  ASSUME TableInv, UNCHANGED <<proc_bitmap, proc_table, proc_list, proc_count>>,
         phase' = "up" <=> phase = "up"
  PROVE  (\E o \in Seq(Slot) : Listing(o))'
<1>1. PICK o \in Seq(Slot) : Listing(o)
  BY DEF TableInv
<1>2. Listing(o)'
  BY <1>1 DEF Listing, ListOf
<1>3. QED
  BY <1>2

\* Every step of core_main and of SysTask keeps the invariant.
LEMMA TableKept ==
  ASSUME OneWord, TableInv, [TableNext]_tvars
  PROVE  TableInv'
<1>0. CorePages \in Nat \ {0}
  BY ProcTableAssumption DEF ProcTableAssumption
<1>1. CASE FreeCorePages
  <2>1. /\ proc_count = 0 /\ ended = {} /\ \A i \in Line : method[i] = 0 /\ told[i] = 0
        /\ UNCHANGED <<proc_bitmap, proc_table, proc_list, proc_count, ended, method, told, spinning>>
        /\ phase = "memory" /\ phase' = "zero"
    BY <1>1 DEF FreeCorePages, TableInv, BootOrder, EndedHaveNoStack, LinesRight, procs, lines
  <2>2. freemem' \in 0..CorePages /\ pagelink' \in [1..CorePages -> 0..CorePages]
    BY <1>0, <1>1 DEF FreeCorePages
  <2>3. TableTypes'
    BY <2>1, <2>2 DEF TableInv, TableTypes
  <2>4. QED
    BY <2>1, <2>3, ListUntouched DEF TableInv, BootOrder, EndedHaveNoStack, LinesRight
<1>2. CASE ZeroCoreSpace
  <2>1. /\ proc_count = 0 /\ ended = {} /\ \A i \in Line : method[i] = 0 /\ told[i] = 0
        /\ UNCHANGED <<freemem, proc_bitmap, proc_table, proc_list, proc_count, ended, method, told, spinning>>
        /\ phase = "zero" /\ phase' = "drivers"
    BY <1>2 DEF ZeroCoreSpace, TableInv, BootOrder, EndedHaveNoStack, LinesRight, procs, lines
  <2>2. pagelink' \in [1..CorePages -> 0..CorePages]
    BY <1>0, <1>2 DEF ZeroCoreSpace, NoPage
  <2>3. TableTypes'
    BY <2>1, <2>2 DEF TableInv, TableTypes
  <2>4. QED
    BY <2>1, <2>3, ListUntouched DEF TableInv, BootOrder, EndedHaveNoStack, LinesRight
<1>3. CASE LoadDrivers
  <2>1. /\ proc_count = 0 /\ ended = {} /\ \A i \in Line : method[i] = 0 /\ told[i] = 0
        /\ UNCHANGED <<freemem, pagelink, proc_bitmap, proc_table, proc_list, proc_count, ended, method, told, spinning>>
        /\ phase = "drivers" /\ phase' = "tasks"
    BY <1>3 DEF LoadDrivers, TableInv, BootOrder, EndedHaveNoStack, LinesRight, core, procs, lines
  <2>2. TableTypes'
    BY <2>1 DEF TableInv, TableTypes
  <2>3. BootOrder'
    BY <2>1, Slots DEF BootOrder
  <2>4. QED
    BY <2>1, <2>2, <2>3, ListUntouched DEF TableInv, EndedHaveNoStack, LinesRight
<1>4. CASE InitProc
  BY <1>4, InitProcKeeps
<1>5. CASE StartInit
  BY <1>5, StartInitKeeps
<1>6. CASE AllocProc
  BY <1>6, AllocProcKeeps
<1>7. ASSUME NEW s \in Slot, EndProc(s)
      PROVE  TableInv'
  <2>1. PICK o \in Seq(Slot) : Listing(o)
    BY DEF TableInv
  <2>2. /\ phase = "up" /\ s >= FirstUser /\ s \in proc_bitmap /\ ended' = ended \cup {s}
        /\ proc_table' = [proc_table EXCEPT ![s].pstack = NoPage]
        /\ UNCHANGED <<phase, freemem, pagelink, proc_bitmap, proc_list, proc_count, method, told, spinning>>
    BY <1>7, <2>1, BitsCounted DEF EndProc, core, lines
  <2>3. /\ proc_table \in [Slot -> Process] /\ NoPage \in 0 .. UserStack
    BY StacksFit DEF TableInv, TableTypes
  <2>4. /\ proc_table' \in [Slot -> Process]
        /\ \A p \in Slot : /\ proc_table'[p].next = proc_table[p].next
                           /\ proc_table'[p].pid = proc_table[p].pid
                           /\ proc_table'[p].pstack = IF p = s THEN NoPage ELSE proc_table[p].pstack
    BY <2>2, <2>3 DEF Process
  <2>5. Listing(o)'
    <3>1. \A i \in DOMAIN o : o[i] \in Slot
      BY <2>1, ElementOfSeq, LenProperties
    <3>2. \A p \in ToSet(o) : p \in Slot
      BY <3>1 DEF ToSet
    <3>3. ListOf(o)'
      BY <2>1, <2>2, <2>4, <3>1 DEF Listing, ListOf
    <3>4. QED
      BY <2>1, <2>2, <2>4, <3>2, <3>3 DEF Listing
  <2>6. TableTypes' /\ BootOrder' /\ LinesRight'
    BY <2>2, <2>4 DEF TableInv, TableTypes, BootOrder, LinesRight
  <2>7. EndedHaveNoStack'
    BY <2>2, <2>4 DEF TableInv, TableTypes, EndedHaveNoStack
  <2>8. QED
    BY <2>2, <2>5, <2>6, <2>7 DEF TableInv
<1>8. ASSUME NEW s \in Slot, ExitProc(s)
      PROVE  TableInv'
  BY <1>8, ExitKeeps
<1>9. ASSUME NEW p \in Slot, NEW i \in Line, SetMethod(p, i) \/ SetTold(p, i)
      PROVE  TableInv'
  <2>1. PICK o \in Seq(Slot) : Listing(o)
    BY DEF TableInv
  <2>2. /\ phase = "up" /\ p \in proc_bitmap
        /\ UNCHANGED <<phase, freemem, pagelink, proc_bitmap, proc_table, proc_list, proc_count, ended, spinning>>
    BY <1>9, <2>1, BitsCounted DEF SetMethod, SetTold, Asks, core, procs
  <2>3. /\ method' \in {method, [method EXCEPT ![i] = p], [method EXCEPT ![i] = 0]}
        /\ told' \in {told, [told EXCEPT ![i] = p], [told EXCEPT ![i] = 0]}
    BY <1>9 DEF SetMethod, SetTold
  <2>4. LinesRight'
    <3>1. /\ method' \in [Line -> Slot] /\ told' \in [Line -> Slot]
          /\ \A j \in Line : method'[j] \in {method[j], p, 0} /\ told'[j] \in {told[j], p, 0}
      <4>1. method \in [Line -> Slot] /\ told \in [Line -> Slot] /\ 0 \in Slot
        BY Slots DEF TableInv, LinesRight
      <4>2. \A v \in Slot, f \in [Line -> Slot] :
              /\ [f EXCEPT ![i] = v] \in [Line -> Slot]
              /\ \A j \in Line : [f EXCEPT ![i] = v][j] \in {f[j], v}
        OBVIOUS
      <4>3. method' \in [Line -> Slot] /\ \A j \in Line : method'[j] \in {method[j], p, 0}
        BY <2>3, <4>1, <4>2
      <4>4. told' \in [Line -> Slot] /\ \A j \in Line : told'[j] \in {told[j], p, 0}
        BY <2>3, <4>1, <4>2
      <4>5. QED
        BY <4>3, <4>4
    <3>2. QED
      BY <2>2, <3>1 DEF TableInv, LinesRight
  <2>5. QED
    BY <2>2, <2>4, ListUntouched DEF TableInv, TableTypes, BootOrder, EndedHaveNoStack
<1>10. CASE UNCHANGED tvars
  BY <1>10, ListUntouched DEF tvars, core, procs, lines, TableInv, TableTypes, BootOrder, EndedHaveNoStack, LinesRight
<1>11. QED
  BY <1>1, <1>2, <1>3, <1>4, <1>5, <1>6, <1>7, <1>8, <1>9, <1>10 DEF TableNext

\* The table is right as long as the first word of the bitmap is enough.
THEOREM TableCorrect == OneWord => (TableSpec => []TableInv)
<1> SUFFICES ASSUME OneWord PROVE TableSpec => []TableInv
  OBVIOUS
<1>1. TableInit => TableInv
  BY TableInitially
<1>2. TableInv /\ [TableNext]_tvars => TableInv'
  BY TableKept
<1>3. QED
  BY <1>1, <1>2, PTL DEF TableSpec

(* What it means for the scheduler, for TaskMM and for the interrupts *)

\* The list that the scheduler and exit.c walk ends, and visits exactly the processes
\* whose bit is set, however many were allocated and removed before.
THEOREM ListIsTheBitmap == OneWord => (TableSpec => []SlotsListed)
<1> SUFFICES ASSUME OneWord PROVE TableSpec => []SlotsListed
  OBVIOUS
<1>1. TableInv => SlotsListed
  <2>1. SUFFICES ASSUME TableInv PROVE SlotsListed
    OBVIOUS
  <2>2. PICK o \in Seq(Slot) : Listing(o)
    BY <2>1 DEF TableInv
  <2>3. QED
    BY <2>1, <2>2, BitsCounted DEF SlotsListed, Listing
<1>2. QED
  BY <1>1, TableCorrect, PTL

\* No line is left to a process that EXIT_PROC has removed, nor to the slot it had.
THEOREM NoDeadHolder == OneWord => (TableSpec => []LinesHeldByLive)
<1> SUFFICES ASSUME OneWord PROVE TableSpec => []LinesHeldByLive
  OBVIOUS
<1>1. TableInv => LinesHeldByLive
  <2>1. SUFFICES ASSUME TableInv PROVE LinesHeldByLive
    OBVIOUS
  <2>2. PICK o \in Seq(Slot) : Listing(o)
    BY <2>1 DEF TableInv
  <2>3. Listed = IF phase = "up" THEN proc_bitmap ELSE proc_bitmap \ {Init1}
    BY <2>1, <2>2, BitsCounted DEF Listing
  <2>4. QED
    BY <2>1, <2>3 DEF TableInv, LinesRight, LinesHeldByLive
<1>2. QED
  BY <1>1, TableCorrect, PTL

\* EXIT_PROC never hands kfree_pages a stack that is not a page of the core space:
\* free_proc has emptied pstack before the slot is given back.
THEOREM KfreeReturns == OneWord => (TableSpec => []NeverSpins)
<1> SUFFICES ASSUME OneWord PROVE TableSpec => []NeverSpins
  OBVIOUS
<1>1. TableInv => NeverSpins
  BY DEF TableInv, NeverSpins
<1>2. QED
  BY <1>1, TableCorrect, PTL
=============================================================================
