--------------------------- MODULE SequenceLemmas ---------------------------
(***************************************************************************)
(* Facts about the sequences with which the wait queues are modelled: what *)
(* inserting and removing an element yields, and that both keep a sequence *)
(* free of duplicates.                                                     *)
(***************************************************************************)
EXTENDS Integers, FiniteSets, SequencesExt, SequenceTheorems,
        WellFoundedInduction, TLAPS

\* A non-empty set of naturals has a least element.
LEMMA LeastNat ==
    ASSUME NEW T \in SUBSET Nat, T # {}
    PROVE  \E x \in T : \A y \in T : x <= y
<1> DEFINE R == OpToRel(<, Nat)
<1>1. IsWellFoundedOn(R, Nat)
  BY NatLessThanWellFounded
<1>2. PICK x \in T : \A y \in T : ~(<<y, x>> \in R)
  BY <1>1, WFMin
<1>3. \A y \in T : y < x => <<y, x>> \in R
  BY Zenon DEF OpToRel
<1>4. \A y \in T : ~(y < x)
  BY <1>2, <1>3, Zenon
<1> HIDE DEF R
<1> QED
  BY <1>4

\* What inserting an element into a sequence yields.
LEMMA InsertAtProperties ==
    ASSUME NEW S, NEW q \in Seq(S), NEW i \in 1 .. (Len(q) + 1), NEW e \in S
    PROVE  /\ InsertAt(q, i, e) \in Seq(S)
           /\ Len(InsertAt(q, i, e)) = Len(q) + 1
           /\ \A k \in 1 .. (Len(q) + 1) :
                 InsertAt(q, i, e)[k] = IF k < i THEN q[k]
                                        ELSE IF k = i THEN e ELSE q[k - 1]
<1> DEFINE a == SubSeq(q, 1, i - 1)
           b == SubSeq(q, i, Len(q))
           one == <<e>>
<1>1. \A k \in 1 .. Len(q) : q[k] \in S
  BY ElementOfSeq
<1>2. a \in Seq(S) /\ Len(a) = i - 1 /\ \A k \in 1 .. (i - 1) : a[k] = q[k]
  BY <1>1
<1>3. /\ b \in Seq(S) /\ Len(b) = Len(q) - i + 1
      /\ \A k \in 1 .. (Len(q) - i + 1) : b[k] = q[k + i - 1]
  BY <1>1
<1>4. one \in Seq(S) /\ Len(one) = 1 /\ one[1] = e
  OBVIOUS
<1>5. InsertAt(q, i, e) = (a \o one) \o b
  BY DEF InsertAt
<1> HIDE DEF a, b, one
<1>6. /\ a \o one \in Seq(S) /\ Len(a \o one) = i
      /\ \A k \in 1 .. i : (a \o one)[k] = IF k < i THEN q[k] ELSE e
  <2>1. /\ a \o one \in Seq(S) /\ Len(a \o one) = Len(a) + Len(one)
        /\ \A k \in 1 .. Len(a) + Len(one) :
              (a \o one)[k] = IF k <= Len(a) THEN a[k] ELSE one[k - Len(a)]
    BY <1>2, <1>4, ConcatProperties
  <2>2. ASSUME NEW k \in 1 .. i PROVE (a \o one)[k] = IF k < i THEN q[k] ELSE e
    <3>1. k = i => k - Len(a) = 1
      BY <1>2
    <3> QED
      BY <2>1, <1>2, <1>4, <3>1
  <2> QED
    BY <2>1, <2>2, <1>2, <1>4
<1> DEFINE c == a \o one
<1>7. /\ c \in Seq(S) /\ Len(c) = i
      /\ \A k \in 1 .. i : c[k] = IF k < i THEN q[k] ELSE e
  BY <1>6
<1> HIDE DEF c
<1>8. /\ c \o b \in Seq(S) /\ Len(c \o b) = Len(q) + 1
      /\ \A k \in 1 .. (Len(q) + 1) :
            (c \o b)[k] = IF k <= i THEN c[k] ELSE b[k - i]
  <2>1. /\ c \o b \in Seq(S) /\ Len(c \o b) = Len(c) + Len(b)
        /\ \A k \in 1 .. Len(c) + Len(b) :
              (c \o b)[k] = IF k <= Len(c) THEN c[k] ELSE b[k - Len(c)]
    <3>1. c \in Seq(S) /\ b \in Seq(S)
      BY <1>3, <1>7
    <3> QED
      BY <3>1, ConcatProperties
  <2>2. Len(c) + Len(b) = Len(q) + 1
    BY <1>3, <1>7
  <2> QED
    BY <1>7, <2>1, <2>2
<1>9. ASSUME NEW k \in 1 .. (Len(q) + 1)
      PROVE  (c \o b)[k] = IF k < i THEN q[k] ELSE IF k = i THEN e ELSE q[k - 1]
  <2>1. CASE k < i
    BY <2>1, <1>7, <1>8
  <2>2. CASE k = i
    BY <2>2, <1>7, <1>8
  <2>3. CASE k > i
    <3>1. k - i \in 1 .. (Len(q) - i + 1) /\ (k - i) + i - 1 = k - 1
      BY <2>3
    <3>2. b[k - i] = q[k - 1]
      BY <1>3, <3>1
    <3> QED
      BY <2>3, <3>2, <1>8
  <2>4. i \in Int /\ k \in Int
    OBVIOUS
  <2>5. k < i \/ k = i \/ k > i
    BY <2>4
  <2> QED
    BY <2>1, <2>2, <2>3, <2>5, Zenon
<1> QED
  BY <1>5, <1>8, <1>9 DEF c

\* What deleting an element of a sequence yields.
LEMMA RemoveAtProperties ==
    ASSUME NEW S, NEW q \in Seq(S), NEW i \in 1 .. Len(q)
    PROVE  /\ RemoveAt(q, i) \in Seq(S)
           /\ Len(RemoveAt(q, i)) = Len(q) - 1
           /\ \A k \in 1 .. (Len(q) - 1) :
                 RemoveAt(q, i)[k] = IF k < i THEN q[k] ELSE q[k + 1]
<1> DEFINE a == SubSeq(q, 1, i - 1)
           b == SubSeq(q, i + 1, Len(q))
<1>1. \A k \in 1 .. Len(q) : q[k] \in S
  BY ElementOfSeq
<1>2. a \in Seq(S) /\ Len(a) = i - 1 /\ \A k \in 1 .. (i - 1) : a[k] = q[k]
  BY <1>1
<1>3. /\ b \in Seq(S) /\ Len(b) = Len(q) - i
      /\ \A k \in 1 .. (Len(q) - i) : b[k] = q[k + i]
  BY <1>1
<1>4. RemoveAt(q, i) = a \o b
  BY DEF RemoveAt
<1> HIDE DEF a, b
<1>5. /\ a \o b \in Seq(S) /\ Len(a \o b) = Len(a) + Len(b)
      /\ \A k \in 1 .. Len(a) + Len(b) :
            (a \o b)[k] = IF k <= Len(a) THEN a[k] ELSE b[k - Len(a)]
  <2>1. a \in Seq(S) /\ b \in Seq(S)
    BY <1>2, <1>3
  <2> QED
    BY <2>1, ConcatProperties
<1>6. Len(a) + Len(b) = Len(q) - 1
  BY <1>2, <1>3
<1>7. ASSUME NEW k \in 1 .. (Len(q) - 1)
      PROVE  (a \o b)[k] = IF k < i THEN q[k] ELSE q[k + 1]
  <2>1. CASE k < i
    BY <2>1, <1>2, <1>5, <1>6
  <2>2. CASE ~(k < i)
    <3>1. k - (i - 1) \in 1 .. (Len(q) - i) /\ k - (i - 1) + i = k + 1
      BY <2>2
    <3>2. b[k - (i - 1)] = q[k + 1]
      BY <1>3, <3>1
    <3> QED
      BY <2>2, <3>2, <1>2, <1>5, <1>6
  <2> QED
    BY <2>1, <2>2
<1> QED
  BY <1>4, <1>5, <1>6, <1>7

\* Inserting a new element into a sequence without duplicates.
LEMMA InsertAtInjective ==
    ASSUME NEW S, NEW q \in Seq(S), NEW i \in 1 .. (Len(q) + 1), NEW e \in S,
           IsInjective(q), e \notin Range(q)
    PROVE  /\ IsInjective(InsertAt(q, i, e))
           /\ Range(InsertAt(q, i, e)) = Range(q) \cup {e}
<1> DEFINE r == InsertAt(q, i, e)
<1>1. /\ r \in Seq(S) /\ Len(r) = Len(q) + 1
      /\ \A k \in 1 .. (Len(q) + 1) :
            r[k] = IF k < i THEN q[k] ELSE IF k = i THEN e ELSE q[k - 1]
  BY InsertAtProperties
<1> HIDE DEF r
<1>2. DOMAIN r = 1 .. (Len(q) + 1) /\ DOMAIN q = 1 .. Len(q) /\ Len(q) \in Nat
  BY <1>1, LenProperties
<1> DEFINE Old(k) == IF k < i THEN k ELSE k - 1
<1>3. ASSUME NEW k \in DOMAIN r, k # i
      PROVE  Old(k) \in DOMAIN q /\ r[k] = q[Old(k)]
  BY <1>1, <1>2, <1>3
<1>4. i \in DOMAIN r /\ r[i] = e
  BY <1>1, <1>2
<1>5. \A k \in DOMAIN q : q[k] # e
  BY DEF Range
<1>6. ASSUME NEW j \in DOMAIN r, NEW k \in DOMAIN r, r[j] = r[k]
      PROVE  j = k
  <2>1. CASE j # i /\ k # i
    <3>1. Old(j) = Old(k)
      BY <1>3, <1>6, <2>1 DEF IsInjective
    <3> QED
      BY <1>2, <2>1, <3>1
  <2>2. CASE j = i \/ k = i
    BY <1>3, <1>4, <1>5, <1>6, <2>2
  <2> QED
    BY <2>1, <2>2
<1>7. ASSUME NEW k \in DOMAIN q
      PROVE  \E j \in DOMAIN r : r[j] = q[k]
  <2>1. CASE k < i
    BY <1>1, <1>2, <2>1
  <2>2. CASE ~(k < i)
    <3>1. k + 1 \in DOMAIN r /\ ~(k + 1 < i) /\ k + 1 # i /\ (k + 1) - 1 = k
      BY <1>2, <2>2
    <3> QED
      BY <1>1, <1>2, <3>1
  <2> QED
    BY <2>1, <2>2
<1>8. Range(r) = Range(q) \cup {e}
  <2>1. ASSUME NEW x \in Range(r) PROVE x \in Range(q) \cup {e}
    BY <1>3, <1>4, <2>1 DEF Range
  <2>2. ASSUME NEW x \in Range(q) PROVE x \in Range(r)
    BY <1>7, <2>2 DEF Range
  <2>3. e \in Range(r)
    BY <1>4 DEF Range
  <2> QED
    BY <2>1, <2>2, <2>3
<1> QED
  BY <1>6, <1>8 DEF r, IsInjective

\* Deleting an element of a sequence without duplicates.
LEMMA RemoveAtInjective ==
    ASSUME NEW S, NEW q \in Seq(S), NEW i \in 1 .. Len(q), IsInjective(q)
    PROVE  /\ IsInjective(RemoveAt(q, i))
           /\ Range(RemoveAt(q, i)) = Range(q) \ {q[i]}
<1> DEFINE r == RemoveAt(q, i)
<1>1. /\ r \in Seq(S) /\ Len(r) = Len(q) - 1
      /\ \A k \in 1 .. (Len(q) - 1) : r[k] = IF k < i THEN q[k] ELSE q[k + 1]
  BY RemoveAtProperties
<1> HIDE DEF r
<1>2. DOMAIN r = 1 .. (Len(q) - 1) /\ DOMAIN q = 1 .. Len(q) /\ Len(q) \in Nat
  BY <1>1, LenProperties
<1> DEFINE Old(k) == IF k < i THEN k ELSE k + 1
<1>3. ASSUME NEW k \in DOMAIN r
      PROVE  Old(k) \in DOMAIN q /\ Old(k) # i /\ r[k] = q[Old(k)]
  BY <1>1, <1>2, <1>3
<1>4. ASSUME NEW j \in DOMAIN r, NEW k \in DOMAIN r, r[j] = r[k]
      PROVE  j = k
  <2>1. Old(j) = Old(k)
    BY <1>3, <1>4 DEF IsInjective
  <2> QED
    BY <1>2, <2>1
<1>5. ASSUME NEW k \in DOMAIN q, k # i
      PROVE  \E j \in DOMAIN r : r[j] = q[k]
  <2>1. CASE k < i
    <3>1. k \in DOMAIN r
      BY <1>2, <2>1
    <3> QED
      BY <1>1, <1>2, <2>1, <3>1
  <2>2. CASE ~(k < i)
    <3>1. k - 1 \in DOMAIN r /\ ~(k - 1 < i) /\ (k - 1) + 1 = k
      BY <1>2, <1>5, <2>2
    <3> QED
      BY <1>1, <1>2, <3>1
  <2> QED
    BY <2>1, <2>2
<1>6. Range(r) = Range(q) \ {q[i]}
  <2>1. ASSUME NEW x \in Range(r) PROVE x \in Range(q) \ {q[i]}
    BY <1>2, <1>3, <2>1 DEF Range, IsInjective
  <2>2. ASSUME NEW x \in Range(q) \ {q[i]} PROVE x \in Range(r)
    BY <1>5, <2>2 DEF Range
  <2> QED
    BY <2>1, <2>2
<1> QED
  BY <1>4, <1>6 DEF r, IsInjective

\* Range and emptiness of a sequence.
LEMMA RangeEmpty ==
    ASSUME NEW S, NEW q \in Seq(S)
    PROVE  Range(q) \subseteq S /\ (Range(q) = {} <=> q = << >>)
<1>1. DOMAIN q = 1 .. Len(q) /\ Len(q) \in Nat /\ (q = << >> <=> Len(q) = 0)
  BY LenProperties, EmptySeq
<1>2. \A i \in 1 .. Len(q) : q[i] \in S
  BY ElementOfSeq
<1>3. q # << >> => 1 \in DOMAIN q
  BY <1>1
<1>4. q = << >> => DOMAIN q = {}
  BY <1>1
<1> QED
  BY <1>1, <1>2, <1>3, <1>4 DEF Range

\* RemoveFirst removes an occurrence of its element.
LEMMA RemoveFirstPlace ==
    ASSUME NEW S, NEW q \in Seq(S), NEW e \in Range(q)
    PROVE  \E i \in 1 .. Len(q) : q[i] = e /\ RemoveFirst(q, e) = RemoveAt(q, i)
<1> DEFINE I == {i \in 1 .. Len(q) : q[i] = e}
           m == Min(I)
<1>1. DOMAIN q = 1 .. Len(q) /\ Len(q) \in Nat
  BY LenProperties
<1>2. I # {} /\ I \in SUBSET Nat
  BY <1>1 DEF Range
<1>3. \E x \in I : \A y \in I : x <= y
  BY <1>2, LeastNat
<1>4. m \in I
  BY <1>3 DEF Min
<1>5. RemoveFirst(q, e) = RemoveAt(q, m)
  BY <1>2 DEF RemoveFirst, SelectInSeq
<1> HIDE DEF m
<1> QED
  BY <1>4, <1>5

\* RemoveFirst takes the one occurrence of an element away.
LEMMA RemoveFirstInjective ==
    ASSUME NEW S, NEW q \in Seq(S), NEW e \in Range(q), IsInjective(q)
    PROVE  /\ RemoveFirst(q, e) \in Seq(S)
           /\ IsInjective(RemoveFirst(q, e))
           /\ Range(RemoveFirst(q, e)) = Range(q) \ {e}
BY RemoveFirstPlace, RemoveAtProperties, RemoveAtInjective

\* Taking the head off a sequence without duplicates.
LEMMA TailInjective ==
    ASSUME NEW S, NEW q \in Seq(S), q # << >>, IsInjective(q)
    PROVE  /\ Tail(q) \in Seq(S)
           /\ IsInjective(Tail(q))
           /\ Head(q) \in Range(q)
           /\ Range(Tail(q)) = Range(q) \ {Head(q)}
<1>1. Tail(q) = RemoveAt(q, 1) /\ Head(q) = q[1] /\ 1 \in 1 .. Len(q)
  <2>1. Len(q) \in Nat \ {0}
    BY EmptySeq
  <2>2. SubSeq(q, 1, 0) = << >>
    BY SubSeqEmpty
  <2>3. Tail(q) = SubSeq(q, 2, Len(q)) /\ Tail(q) \in Seq(S)
    BY TailIsSubSeq, HeadTailProperties
  <2>4. RemoveAt(q, 1) = << >> \o Tail(q)
    BY <2>2, <2>3 DEF RemoveAt
  <2>5. << >> \o Tail(q) = Tail(q)
    BY <2>3, ConcatEmptySeq
  <2> QED
    BY <2>1, <2>4, <2>5
<1>2. RemoveAt(q, 1) \in Seq(S)
  BY <1>1, RemoveAtProperties
<1>3. IsInjective(RemoveAt(q, 1)) /\ Range(RemoveAt(q, 1)) = Range(q) \ {q[1]}
  BY <1>1, RemoveAtInjective
<1>4. q[1] \in Range(q)
  BY <1>1, LenProperties DEF Range
<1> QED
  BY <1>1, <1>2, <1>3, <1>4
=============================================================================
