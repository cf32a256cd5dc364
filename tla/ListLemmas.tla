----------------------------- MODULE ListLemmas -----------------------------
(***************************************************************************)
(* The lists of the kernel and its tasks: what linking and unlinking one   *)
(* element does to a list that has no element twice; and the least number  *)
(* of a set, which stands in for induction where the library's theorems    *)
(* with an operator as a parameter can not be used.                        *)
(***************************************************************************)
EXTENDS Integers, SequencesExt, SequenceTheorems, FiniteSetTheorems, TLAPS

\* A set of numbers that has a member has a least one.
LEMMA LeastNumber ==
  ASSUME NEW T, T \subseteq Nat, T # {}
  PROVE  \E m \in T : \A k \in T : m <= k
<1> DEFINE R == OpToRel(<, Nat)
<1>1. IsWellFoundedOn(R, Nat)
  BY NatLessThanWellFounded
<1>2. \A x, y \in Nat : x < y => <<x, y>> \in R
  BY DEF OpToRel
<1> HIDE DEF R
<1>3. PICK m \in T : \A k \in T : ~ (<<k, m>> \in R)
  BY <1>1, WFMin
<1>4. \A k \in T : ~ (k < m)
  BY <1>2, <1>3
<1>5. QED
  BY <1>4

\* Taking the k-th element out keeps the others in their order.
LEMMA RemoveAtProperties ==
  ASSUME NEW S, NEW s \in Seq(S), NEW k \in 1 .. Len(s)
  PROVE  /\ RemoveAt(s, k) \in Seq(S)
         /\ Len(RemoveAt(s, k)) = Len(s) - 1
         /\ \A i \in 1 .. Len(s) - 1 : RemoveAt(s, k)[i] = IF i < k THEN s[i] ELSE s[i + 1]
<1> DEFINE front == SubSeq(s, 1, k - 1)
           back  == SubSeq(s, k + 1, Len(s))
<1>1. Len(s) \in Nat
  BY LenProperties
<1>2. /\ \A i \in 1 .. k - 1 : s[i] \in S
      /\ \A i \in k + 1 .. Len(s) : s[i] \in S
  BY <1>1, ElementOfSeq
<1>3. /\ front \in Seq(S) /\ Len(front) = k - 1
      /\ \A i \in 1 .. k - 1 : front[i] = s[i]
  BY <1>1, <1>2, SubSeqProperties
<1>4. /\ back \in Seq(S) /\ Len(back) = Len(s) - k
      /\ \A i \in 1 .. Len(s) - k : back[i] = s[k + i]
  BY <1>1, <1>2, SubSeqProperties
<1>5. /\ front \o back \in Seq(S)
      /\ Len(front \o back) = Len(front) + Len(back)
      /\ \A i \in 1 .. Len(front) + Len(back) :
           (front \o back)[i] = IF i <= Len(front) THEN front[i] ELSE back[i - Len(front)]
  BY <1>3, <1>4, ConcatProperties
<1>6. RemoveAt(s, k) = front \o back
  BY DEF RemoveAt
<1> HIDE DEF front, back
<1>7. Len(front) + Len(back) = Len(s) - 1 /\ k \in Nat
  BY <1>1, <1>3, <1>4
<1>8. ASSUME NEW i \in 1 .. Len(s) - 1
      PROVE  (front \o back)[i] = IF i < k THEN s[i] ELSE s[i + 1]
  <2>1. CASE i < k
    <3>1. i \in 1 .. k - 1 /\ i \in 1 .. Len(front) + Len(back)
      BY <1>1, <1>7, <2>1
    <3>2. QED
      BY <3>1, <2>1, <1>3, <1>5
  <2>2. CASE ~(i < k)
    <3>1. /\ i - (k - 1) \in 1 .. Len(s) - k
          /\ k + (i - (k - 1)) = i + 1
          /\ i \in 1 .. Len(front) + Len(back)
          /\ ~(i <= Len(front))
      BY <1>1, <1>3, <1>7, <2>2
    <3>2. QED
      BY <3>1, <2>2, <1>3, <1>4, <1>5
  <2>3. QED
    BY <2>1, <2>2
<1>9. QED
  BY <1>5, <1>6, <1>7, <1>8

\* A list without repetition has as many elements as places.
LEMMA InjectiveLength ==
  ASSUME NEW S, NEW s \in Seq(S), IsInjective(s)
  PROVE  IsFiniteSet(ToSet(s)) /\ Cardinality(ToSet(s)) = Len(s)
<1>1. Len(s) \in Nat /\ DOMAIN s = 1 .. Len(s) /\ s \in [1 .. Len(s) -> ToSet(s)]
  BY LenProperties DEF ToSet
<1>2. s \in Bijection(1 .. Len(s), ToSet(s))
  BY <1>1 DEF Bijection, Injection, Surjection, ToSet
<1>3. IsFiniteSet(1 .. Len(s)) /\ Cardinality(1 .. Len(s)) = Len(s)
  BY <1>1, FS_Interval
<1>4. QED
  BY <1>2, <1>3, FS_Bijection DEF ExistsBijection

\* Linking a new element at the end.
LEMMA LinkedLast ==
  ASSUME NEW S, NEW s \in Seq(S), IsInjective(s), NEW x \in S, x \notin ToSet(s)
  PROVE  /\ Append(s, x) \in Seq(S) /\ IsInjective(Append(s, x))
         /\ ToSet(Append(s, x)) = ToSet(s) \cup {x}
         /\ Len(Append(s, x)) = Len(s) + 1
         /\ \A i \in 1 .. Len(s) + 1 : Append(s, x)[i] = IF i = Len(s) + 1 THEN x ELSE s[i]
<1> DEFINE t == Append(s, x)
<1>1. Len(s) \in Nat /\ DOMAIN s = 1 .. Len(s) /\ \A i \in 1 .. Len(s) : s[i] # x
  BY LenProperties DEF ToSet
<1>2. /\ t \in Seq(S) /\ Len(t) = Len(s) + 1 /\ DOMAIN t = 1 .. Len(s) + 1
      /\ \A i \in 1 .. Len(s) + 1 : t[i] = IF i = Len(s) + 1 THEN x ELSE s[i]
  BY <1>1, AppendProperties, LenProperties
<1> HIDE DEF t
<1>3. IsInjective(t)
  BY <1>1, <1>2 DEF IsInjective
<1>4. ToSet(t) = ToSet(s) \cup {x}
  <2>1. \A i \in 1 .. Len(s) : i \in 1 .. Len(s) + 1 /\ t[i] = s[i]
    BY <1>1, <1>2
  <2>2. Len(s) + 1 \in 1 .. Len(s) + 1 /\ t[Len(s) + 1] = x
    BY <1>1, <1>2
  <2>3. \A i \in 1 .. Len(s) + 1 : t[i] = x \/ (i \in 1 .. Len(s) /\ t[i] = s[i])
    BY <1>1, <1>2
  <2>4. QED
    BY <1>1, <1>2, <2>1, <2>2, <2>3 DEF ToSet
<1>5. QED
  BY <1>2, <1>3, <1>4 DEF t

\* Unlinking the k-th element takes it alone.
LEMMA UnlinkedAt ==
  ASSUME NEW S, NEW s \in Seq(S), IsInjective(s), NEW k \in 1 .. Len(s)
  PROVE  /\ RemoveAt(s, k) \in Seq(S) /\ IsInjective(RemoveAt(s, k))
         /\ ToSet(RemoveAt(s, k)) = ToSet(s) \ {s[k]}
<1> DEFINE t == RemoveAt(s, k)
<1>1. Len(s) \in Nat /\ DOMAIN s = 1 .. Len(s) /\ k \in Nat
  BY LenProperties
<1>2. t \in Seq(S) /\ Len(t) = Len(s) - 1
  BY RemoveAtProperties
<1>3. \A i \in 1 .. Len(s) - 1 : t[i] = IF i < k THEN s[i] ELSE s[i + 1]
  BY RemoveAtProperties
<1>4. DOMAIN t = 1 .. Len(s) - 1
  BY <1>2, LenProperties
<1> HIDE DEF t
<1> DEFINE old(n) == IF n < k THEN n ELSE n + 1
           new(n) == IF n < k THEN n ELSE n - 1
<1>5. \A i \in DOMAIN t : old(i) \in DOMAIN s /\ old(i) # k /\ t[i] = s[old(i)]
  BY <1>1, <1>3, <1>4
<1>6. \A i, j \in DOMAIN t : old(i) = old(j) => i = j
  BY <1>1, <1>4
<1>7. \A i \in DOMAIN s : i # k => new(i) \in DOMAIN t /\ t[new(i)] = s[i]
  BY <1>1, <1>3, <1>4
<1> HIDE DEF old, new
<1>8. IsInjective(t)
  BY <1>5, <1>6 DEF IsInjective
<1>9. ToSet(t) = ToSet(s) \ {s[k]}
  <2>1. \A i \in DOMAIN t : t[i] \in ToSet(s) /\ t[i] # s[k]
    BY <1>1, <1>5 DEF ToSet, IsInjective
  <2>2. \A i \in DOMAIN s : s[i] # s[k] => s[i] \in ToSet(t)
    BY <1>7 DEF ToSet
  <2>3. QED
    BY <2>1, <2>2 DEF ToSet
<1>10. QED
  BY <1>2, <1>8, <1>9 DEF t

\* A set of numbers that has a member and a bound has a greatest one.
LEMMA GreatestNumber ==
  ASSUME NEW n \in Nat, NEW T, T \subseteq 0 .. n, T # {}
  PROVE  \E m \in T : \A k \in T : k <= m
<1> DEFINE R == {n - k : k \in T}
<1>1. R \subseteq Nat /\ R # {}
  <2>1. \A k \in T : n - k \in Nat
    OBVIOUS
  <2>2. QED
    BY <2>1
<1>2. PICK r \in R : \A q \in R : r <= q
  <2> HIDE DEF R
  <2>1. QED
    BY <1>1, LeastNumber
<1>3. PICK m \in T : r = n - m
  OBVIOUS
<1>4. \A k \in T : k <= m
  <2>1. SUFFICES ASSUME NEW k \in T PROVE k <= m
    OBVIOUS
  <2>2. r <= n - k
    BY <1>2
  <2>3. QED
    BY <1>3, <2>2
<1>5. QED
  BY <1>4

\* An element put behind the k-th: those behind it move by one.
LEMMA InsertedBehind ==
  ASSUME NEW S, NEW s \in Seq(S), NEW x \in S, NEW k \in 0 .. Len(s)
  PROVE  /\ InsertAt(s, k + 1, x) \in Seq(S)
         /\ Len(InsertAt(s, k + 1, x)) = Len(s) + 1
         /\ \A i \in 1 .. Len(s) + 1 :
              InsertAt(s, k + 1, x)[i] = IF i <= k THEN s[i] ELSE IF i = k + 1 THEN x ELSE s[i - 1]
<1> DEFINE front == SubSeq(s, 1, k)
           back  == SubSeq(s, k + 1, Len(s))
           t     == front \o <<x>>
<1>1. Len(s) \in Nat /\ k \in Nat /\ k <= Len(s)
  BY LenProperties
<1>2. front \in Seq(S) /\ Len(front) = k /\ \A i \in 1 .. k : front[i] = s[i]
  BY <1>1, SubSeqProperties
<1>3. back \in Seq(S) /\ Len(back) = Len(s) - k /\ \A i \in 1 .. Len(s) - k : back[i] = s[k + i]
  BY <1>1, SubSeqProperties
<1>4. <<x>> \in Seq(S) /\ Len(<<x>>) = 1 /\ <<x>>[1] = x
  OBVIOUS
<1>5. InsertAt(s, k + 1, x) = t \o back
  <2>1. (k + 1) - 1 = k
    BY <1>1
  <2>2. QED
    BY <2>1 DEF InsertAt
<1> HIDE DEF front, back
<1>6. /\ t \in Seq(S) /\ Len(t) = k + 1
      /\ \A i \in 1 .. k + 1 : t[i] = IF i <= k THEN s[i] ELSE x
  <2>1. t \in Seq(S) /\ Len(t) = k + 1
    BY <1>1, <1>2, <1>4, ConcatProperties
  <2>2. ASSUME NEW i \in 1 .. k + 1
        PROVE  t[i] = IF i <= k THEN s[i] ELSE x
    <3>1. t[i] = IF i <= Len(front) THEN front[i] ELSE <<x>>[i - Len(front)]
      BY <1>1, <1>2, <1>4, ConcatProperties
    <3>2. i <= k \/ i = k + 1
      BY <1>1
    <3>3. CASE i <= k
      BY <1>1, <1>2, <3>1, <3>3
    <3>4. CASE i = k + 1
      BY <1>1, <1>2, <1>4, <3>1, <3>4
    <3>5. QED
      BY <3>2, <3>3, <3>4
  <2>3. QED
    BY <2>1, <2>2
<1> HIDE DEF t
<1>7. (t \o back) \in Seq(S) /\ Len(t \o back) = Len(s) + 1
  BY <1>1, <1>3, <1>6, ConcatProperties
<1>8. ASSUME NEW i \in 1 .. Len(s) + 1
      PROVE  (t \o back)[i] = IF i <= k THEN s[i] ELSE IF i = k + 1 THEN x ELSE s[i - 1]
  <2>1. (t \o back)[i] = IF i <= Len(t) THEN t[i] ELSE back[i - Len(t)]
    BY <1>1, <1>3, <1>6, ConcatProperties
  <2>2. CASE i <= k + 1
    BY <1>1, <1>6, <2>1, <2>2
  <2>3. CASE i > k + 1
    <3>1. i - (k + 1) \in 1 .. Len(s) - k /\ k + (i - (k + 1)) = i - 1 /\ ~(i <= k) /\ i # k + 1 /\ ~(i <= k + 1)
      BY <1>1, <2>3
    <3>2. back[i - (k + 1)] = s[i - 1]
      BY <1>3, <3>1
    <3>3. QED
      BY <1>6, <2>1, <3>1, <3>2
  <2>4. i <= k + 1 \/ i > k + 1
    BY <1>1
  <2>5. QED
    BY <2>2, <2>3, <2>4
<1> DEFINE u == t \o back
<1>9. InsertAt(s, k + 1, x) = u /\ u \in Seq(S) /\ Len(u) = Len(s) + 1
      /\ \A i \in 1 .. Len(s) + 1 : u[i] = IF i <= k THEN s[i] ELSE IF i = k + 1 THEN x ELSE s[i - 1]
  BY <1>5, <1>7, <1>8
<1> HIDE DEF u
<1>10. QED
  BY <1>9
=============================================================================
