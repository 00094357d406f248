---- MODULE SeqLemmas ----
(***************************************************************************)
(* Facts about lists: appending and removing a track, least and first.     *)
(***************************************************************************)
EXTENDS SequencesExt, TLAPS, SequenceTheorems, WellFoundedInduction

\* wl_list_insert at the tail: the old elements keep their places.
LEMMA AppendElements ==
    ASSUME NEW S, NEW q \in Seq(S), NEW e \in S
    PROVE  /\ Append(q, e) \in Seq(S)
           /\ DOMAIN Append(q, e) = 1 .. Len(q) + 1
           /\ \A i \in 1 .. Len(q) : Append(q, e)[i] = q[i]
           /\ Append(q, e)[Len(q) + 1] = e
           /\ ToSet(Append(q, e)) = ToSet(q) \cup {e}
<1> DEFINE a == Append(q, e)
<1>1. a \in Seq(S) /\ DOMAIN a = 1 .. Len(q) + 1 /\ DOMAIN q = 1 .. Len(q)
  OBVIOUS
<1>2. \A i \in 1 .. Len(q) : a[i] = q[i]
  OBVIOUS
<1>3. a[Len(q) + 1] = e
  OBVIOUS
<1>4. Len(q) \in Nat
  OBVIOUS
<1>5. ToSet(a) = ToSet(q) \cup {e}
  <2> HIDE DEF a
  <2>1. ASSUME NEW x \in ToSet(a) PROVE x \in ToSet(q) \cup {e}
    <3>1. PICK i \in DOMAIN a : x = a[i]
      BY DEF ToSet
    <3>2. i \in 1 .. Len(q) \/ i = Len(q) + 1
      BY <1>1, <1>4
    <3> QED BY <3>1, <3>2, <1>1, <1>2, <1>3 DEF ToSet
  <2>2. ASSUME NEW x \in ToSet(q) PROVE x \in ToSet(a)
    <3>1. PICK i \in DOMAIN q : x = q[i]
      BY DEF ToSet
    <3>2. i \in DOMAIN a
      BY <1>1, <1>4
    <3> QED BY <3>1, <3>2, <1>1, <1>2 DEF ToSet
  <2>3. e \in ToSet(a)
    BY <1>1, <1>3, <1>4 DEF ToSet
  <2> QED BY <2>1, <2>2, <2>3
<1> QED BY <1>1, <1>2, <1>3, <1>5

\* wl_list_remove: the elements after the removed one move up by one.
LEMMA RemoveAtElements ==
    ASSUME NEW S, NEW q \in Seq(S), NEW i \in DOMAIN q
    PROVE  /\ RemoveAt(q, i) \in Seq(S)
           /\ Len(RemoveAt(q, i)) = Len(q) - 1
           /\ \A j \in 1 .. Len(q) - 1 :
                 RemoveAt(q, i)[j] = IF j < i THEN q[j] ELSE q[j + 1]
<1> DEFINE a == SubSeq(q, 1, i - 1)
           b == SubSeq(q, i + 1, Len(q))
<1>1. i \in 1 .. Len(q) /\ Len(q) \in Nat /\ \A j \in 1 .. Len(q) : q[j] \in S
  OBVIOUS
<1>2. /\ a \in Seq(S) /\ Len(a) = i - 1
      /\ \A j \in 1 .. i - 1 : a[j] = q[j]
  <2>1. \A j \in 1 .. i - 1 : q[j] \in S
    BY <1>1
  <2>2. 1 \in Int /\ i - 1 \in Int
    BY <1>1
  <2> QED BY <2>1, <2>2, <1>1, SubSeqProperties
<1>3. /\ b \in Seq(S) /\ Len(b) = Len(q) - i
      /\ \A j \in 1 .. Len(q) - i : b[j] = q[i + j]
  <2>1. \A j \in i + 1 .. Len(q) : q[j] \in S
    BY <1>1
  <2>2. i + 1 \in Int /\ Len(q) \in Int
    BY <1>1
  <2> HIDE DEF b
  <2>3. /\ b \in Seq(S)
        /\ Len(b) = IF i + 1 <= Len(q) THEN Len(q) - (i + 1) + 1 ELSE 0
        /\ \A j \in 1 .. Len(q) - (i + 1) + 1 : b[j] = q[(i + 1) + j - 1]
    BY <2>1, <2>2, SubSeqProperties DEF b
  <2> QED BY <2>3, <1>1
<1> HIDE DEF a, b
<1>4. /\ a \o b \in Seq(S)
      /\ Len(a \o b) = Len(a) + Len(b)
      /\ \A j \in 1 .. Len(a) + Len(b) :
            (a \o b)[j] = IF j <= Len(a) THEN a[j] ELSE b[j - Len(a)]
  BY <1>2, <1>3, ConcatProperties
<1>5. RemoveAt(q, i) = a \o b
  BY DEF RemoveAt, a, b
<1>6. ASSUME NEW j \in 1 .. Len(q) - 1
      PROVE  (a \o b)[j] = IF j < i THEN q[j] ELSE q[j + 1]
  <2>1. CASE j < i
    <3>1. j \in 1 .. i - 1 /\ j <= Len(a) /\ j \in 1 .. Len(a) + Len(b)
      BY <2>1, <1>1, <1>2, <1>3
    <3>2. (a \o b)[j] = a[j]
      BY <3>1, <1>4
    <3>3. a[j] = q[j]
      BY <3>1, <1>2
    <3> QED BY <2>1, <3>2, <3>3
  <2>2. CASE ~ (j < i)
    <3>1. j - Len(a) \in 1 .. Len(q) - i /\ i + (j - Len(a)) = j + 1
      BY <2>2, <1>1, <1>2
    <3>2. (a \o b)[j] = b[j - Len(a)]
      <4>1. j \in 1 .. Len(a) + Len(b) /\ ~ (j <= Len(a))
        BY <2>2, <1>1, <1>2, <1>3
      <4> QED BY <4>1, <1>4
    <3>3. b[j - Len(a)] = q[j + 1]
      BY <3>1, <1>3
    <3> QED BY <3>2, <3>3, <2>2
  <2> QED BY <2>1, <2>2
<1>7. Len(a \o b) = Len(q) - 1
  BY <1>1, <1>2, <1>3, <1>4
<1> QED BY <1>4, <1>5, <1>6, <1>7

\* Removing from a list without duplicates removes that element and no other.
LEMMA RemoveAtSet ==
    ASSUME NEW S, NEW q \in Seq(S), NEW i \in DOMAIN q,
           \A j, k \in DOMAIN q : q[j] = q[k] => j = k
    PROVE  /\ ToSet(RemoveAt(q, i)) = ToSet(q) \ {q[i]}
           /\ \A j, k \in DOMAIN RemoveAt(q, i) :
                 RemoveAt(q, i)[j] = RemoveAt(q, i)[k] => j = k
<1> DEFINE r == RemoveAt(q, i)
<1>1. /\ r \in Seq(S)
      /\ Len(r) = Len(q) - 1
      /\ \A j \in 1 .. Len(q) - 1 : r[j] = IF j < i THEN q[j] ELSE q[j + 1]
  BY RemoveAtElements
<1> HIDE DEF r
<1>2. /\ DOMAIN q = 1 .. Len(q) /\ DOMAIN r = 1 .. Len(q) - 1
      /\ Len(q) \in Nat /\ i \in 1 .. Len(q)
  BY <1>1
<1>3. ASSUME NEW j \in DOMAIN r, NEW k \in DOMAIN r, r[j] = r[k] PROVE j = k
  <2> DEFINE from(n) == IF n < i THEN n ELSE n + 1
  <2>1. \A n \in DOMAIN r : from(n) \in DOMAIN q /\ r[n] = q[from(n)]
    BY <1>1, <1>2
  <2>2. from(j) = from(k)
    <3> HIDE DEF from
    <3> QED BY <1>3, <2>1
  <2> QED BY <1>2, <2>2
<1>4. ASSUME NEW x \in ToSet(r) PROVE x \in ToSet(q) \ {q[i]}
  <2>1. PICK j \in DOMAIN r : x = r[j]
    BY DEF ToSet
  <2>2. j \in DOMAIN q /\ j + 1 \in DOMAIN q
    BY <1>2
  <2>3. (x = q[j] /\ j # i) \/ (x = q[j + 1] /\ j + 1 # i)
    BY <2>1, <1>1, <1>2
  <2> QED BY <2>2, <2>3 DEF ToSet
<1>5. ASSUME NEW x \in ToSet(q) \ {q[i]} PROVE x \in ToSet(r)
  <2>1. PICK j \in DOMAIN q : x = q[j]
    BY DEF ToSet
  <2>2. j # i
    BY <2>1
  <2>3. CASE j < i
    <3>1. j \in DOMAIN r /\ r[j] = x
      BY <2>1, <2>3, <1>1, <1>2
    <3> QED BY <3>1 DEF ToSet
  <2>4. CASE j > i
    <3>1. j - 1 \in DOMAIN r /\ r[j - 1] = q[(j - 1) + 1] /\ (j - 1) + 1 = j
      BY <2>1, <2>4, <1>1, <1>2
    <3> QED BY <3>1, <2>1 DEF ToSet
  <2> QED BY <2>2, <2>3, <2>4, <1>2
<1> QED BY <1>3, <1>4, <1>5 DEF r

\* A set of numbers has a least one.
LEMMA LeastNatural ==
    ASSUME NEW S \in SUBSET Nat, S # {}
    PROVE  \E n \in S : \A m \in S : n <= m
<1>1. PICK n \in S : \A m \in S : ~ (<<m, n>> \in OpToRel(<, Nat))
  BY NatLessThanWellFounded, WFMin
<1>2. \A m \in S : ~ (m < n)
  BY <1>1 DEF OpToRel
<1> QED BY <1>2

\* Min is the least element.
LEMMA MinLeast ==
    ASSUME NEW S \in SUBSET Nat, S # {}
    PROVE  Min(S) \in S /\ \A m \in S : Min(S) <= m
BY LeastNatural DEF Min

\* What SelectInSeq(q, LAMBDA x : x \in P) is by its definition: the first place
\* with an element looked for, or 0.
LEMMA FirstPlace ==
    ASSUME NEW S, NEW q \in Seq(S), NEW I, NEW at,
           I \in SUBSET (1 .. Len(q)), at = IF I # {} THEN Min(I) ELSE 0
    PROVE  /\ at \in 0 .. Len(q)
           /\ at # 0 => at \in I
           /\ at = 0 => I = {}
           /\ \A n \in I : at <= n
<1>1. I \in SUBSET Nat /\ Len(q) \in Nat
  OBVIOUS
<1>2. CASE I # {}
  <2>1. at \in I /\ \A n \in I : at <= n
    BY <1>1, <1>2, MinLeast
  <2> QED BY <1>1, <2>1
<1> QED BY <1>1, <1>2
====
