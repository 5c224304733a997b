----------------------------- MODULE SequenceFacts -----------------------------
(***************************************************************************)
(* Facts about sequences put together, which the proofs of the console and *)
(* of the browser cite.  They are by minimal counterexample, since the     *)
(* library's induction theorems cannot be instantiated.                    *)
(***************************************************************************)
EXTENDS Integers, Sequences, SequencesExt, WellFoundedInduction, TLAPS

\* What FlattenSeq builds, step by step.
Flattens(g, seqs, n, S) ==
    /\ g \in [1..n -> Seq(S)]
    /\ FlattenSeq(seqs) = g[n] /\ g[1] = seqs[1]
    /\ \A i \in 1..n : i # 1 => g[i] = g[i - 1] \o seqs[i]

LEMMA Flattened ==
    ASSUME NEW n \in Nat \ {0}, NEW S, NEW seqs \in [1..n -> Seq(S)]
    PROVE  \E g : Flattens(g, seqs, n, S)
<1> DEFINE Next1(g, i) == IF i = 1 THEN seqs[i] ELSE g[i - 1] \o seqs[i]
           Grows(m) == \E g : g \in [1..m -> Seq(S)] /\ g = [i \in 1..m |-> Next1(g, i)]
           Bad == {m \in Nat : m \in 1..n /\ ~Grows(m)}
<1>1. Bad = {}
  <2>1. SUFFICES ASSUME Bad # {} PROVE FALSE
    OBVIOUS
  <2>2. PICK m \in Bad : \A k \in Bad : ~(<<k, m>> \in OpToRel(<, Nat))
    BY <2>1, WFMin, NatLessThanWellFounded
  <2>3. m \in 1..n /\ ~Grows(m) /\ \A k \in Bad : ~(k < m)
    BY <2>2 DEF OpToRel
  <2>4. CASE m = 1
    <3> DEFINE g == [i \in 1..1 |-> seqs[1]]
    <3>1. g \in [1..1 -> Seq(S)]
      BY <2>3
    <3>2. g = [i \in 1..1 |-> Next1(g, i)]
      OBVIOUS
    <3> QED
      BY <2>3, <2>4, <3>1, <3>2
  <2>5. CASE m # 1
    <3>1. m - 1 \in Nat /\ m - 1 \in 1..n /\ m - 1 < m
      BY <2>3, <2>5
    <3>2. PICK g : g \in [1..(m - 1) -> Seq(S)] /\ g = [i \in 1..(m - 1) |-> Next1(g, i)]
      BY <2>3, <3>1
    <3> DEFINE h == [i \in 1..m |-> IF i < m THEN g[i] ELSE g[m - 1] \o seqs[m]]
    <3>3. g[m - 1] \in Seq(S) /\ seqs[m] \in Seq(S)
      BY <2>3, <2>5, <3>1, <3>2
    <3>4. g[m - 1] \o seqs[m] \in Seq(S)
      BY <3>3
    <3>5. h \in [1..m -> Seq(S)]
      <4>1. ASSUME NEW i \in 1..m, i < m PROVE g[i] \in Seq(S)
        <5>1. i \in 1..(m - 1)
          BY <2>3, <4>1
        <5> QED
          BY <3>2, <5>1
      <4> QED
        BY <3>4, <4>1
    <3>6. \A i \in 1..m : h[i] = Next1(h, i)
      <4>1. SUFFICES ASSUME NEW i \in 1..m PROVE h[i] = Next1(h, i)
        OBVIOUS
      <4>2. CASE i = m
        <5>1. h[i] = g[m - 1] \o seqs[m] /\ i - 1 \in 1..m /\ i - 1 < m
          BY <2>3, <2>5, <4>2
        <5>2. h[i - 1] = g[m - 1]
          BY <4>2, <5>1
        <5> QED
          BY <2>5, <4>2, <5>1, <5>2
      <4>3. CASE i # m
        <5>1. i < m /\ i \in 1..(m - 1) /\ h[i] = g[i]
          BY <2>3, <4>1, <4>3
        <5>2. g[i] = Next1(g, i)
          BY <3>2, <5>1
        <5>3. i # 1 => i - 1 \in 1..m /\ i - 1 < m
          BY <2>3, <5>1
        <5>4. i # 1 => h[i - 1] = g[i - 1]
          BY <5>3
        <5> QED
          BY <5>1, <5>2, <5>4
      <4> QED
        BY <4>2, <4>3
    <3>7. h = [i \in 1..m |-> Next1(h, i)]
      BY <3>6
    <3> HIDE DEF h
    <3> QED
      BY <2>3, <3>5, <3>7
  <2> QED
    BY <2>4, <2>5
<1>2. Grows(n)
  <2>1. n \in 1..n /\ n \in Nat
    OBVIOUS
  <2> HIDE DEF Grows
  <2> QED
    BY <1>1, <2>1
<1> DEFINE flat == CHOOSE g : g = [i \in 1..n |-> Next1(g, i)]
<1>3. flat = [i \in 1..n |-> Next1(flat, i)]
  BY <1>2
<1>4. Len(seqs) = n
  OBVIOUS
<1>5. FlattenSeq(seqs) = flat[n]
  BY <1>4 DEF FlattenSeq
<1> HIDE DEF flat
<1> DEFINE Odd == {i \in Nat : i \in 1..n /\ flat[i] \notin Seq(S)}
<1>6. Odd = {}
  <2>1. SUFFICES ASSUME Odd # {} PROVE FALSE
    OBVIOUS
  <2>2. PICK m \in Odd : \A k \in Odd : ~(<<k, m>> \in OpToRel(<, Nat))
    BY <2>1, WFMin, NatLessThanWellFounded
  <2>3. m \in 1..n /\ flat[m] \notin Seq(S) /\ \A k \in Odd : ~(k < m)
    BY <2>2 DEF OpToRel
  <2>4. flat[m] = Next1(flat, m) /\ seqs[m] \in Seq(S)
    BY <1>3, <2>3
  <2>5. CASE m = 1
    BY <2>3, <2>4, <2>5
  <2>6. CASE m # 1
    <3>1. m - 1 \in 1..n /\ m - 1 < m /\ m - 1 \in Nat
      BY <2>3, <2>6
    <3>2. flat[m - 1] \in Seq(S)
      BY <2>3, <3>1
    <3>3. flat[m - 1] \o seqs[m] \in Seq(S)
      BY <2>4, <3>2
    <3> QED
      BY <2>3, <2>4, <2>6, <3>3
  <2> QED
    BY <2>5, <2>6
<1>7. flat \in [1..n -> Seq(S)]
  <2>1. ASSUME NEW i \in 1..n PROVE flat[i] \in Seq(S)
    <3>1. i \in Nat
      OBVIOUS
    <3>2. i \notin Odd
      BY <1>6
    <3> QED
      BY <3>1, <3>2
  <2>2. flat = [i \in 1..n |-> flat[i]]
    BY <1>3
  <2> HIDE DEF Odd
  <2> QED
    BY <2>1, <2>2
<1>8. flat[1] = seqs[1] /\ \A i \in 1..n : i # 1 => flat[i] = flat[i - 1] \o seqs[i]
  <2>1. \A i \in 1..n : flat[i] = Next1(flat, i)
    BY <1>3
  <2>2. 1 \in 1..n
    OBVIOUS
  <2> QED
    BY <2>1, <2>2
<1> QED
  BY <1>5, <1>7, <1>8 DEF Flattens

\* It is what any sequence of prefixes built in the same way ends with.
GrowsAs(h, seqs, n) ==
    /\ h[1] = seqs[1]
    /\ \A i \in 1..n : i # 1 => h[i] = h[i - 1] \o seqs[i]

LEMMA FlattenIs ==
    ASSUME NEW n \in Nat \ {0}, NEW S, NEW seqs \in [1..n -> Seq(S)], NEW h, GrowsAs(h, seqs, n)
    PROVE  FlattenSeq(seqs) = h[n]
<1>1. PICK g : Flattens(g, seqs, n, S)
  BY Flattened
<1> DEFINE Odd == {i \in Nat : i \in 1..n /\ g[i] # h[i]}
<1>2. Odd = {}
  <2>1. SUFFICES ASSUME Odd # {} PROVE FALSE
    OBVIOUS
  <2>2. PICK m \in Odd : \A k \in Odd : ~(<<k, m>> \in OpToRel(<, Nat))
    BY <2>1, WFMin, NatLessThanWellFounded
  <2>3. m \in 1..n /\ g[m] # h[m] /\ \A k \in Odd : ~(k < m)
    BY <2>2 DEF OpToRel
  <2>4. m # 1
    BY <1>1, <2>3 DEF Flattens, GrowsAs
  <2>5. m - 1 \in Nat /\ m - 1 \in 1..n /\ m - 1 < m
    BY <2>3, <2>4
  <2>6. g[m - 1] = h[m - 1]
    BY <2>3, <2>5
  <2> QED
    BY <1>1, <2>3, <2>4, <2>6 DEF Flattens, GrowsAs
<1>3. n \in Nat /\ n \in 1..n
  OBVIOUS
<1> QED
  BY <1>1, <1>2, <1>3 DEF Flattens

LEMMA ElementsOfBoth ==
    ASSUME NEW S, NEW p \in Seq(S), NEW q \in Seq(S)
    PROVE  ToSet(p \o q) = ToSet(p) \union ToSet(q)
<1>1. Len(p) \in Nat /\ Len(q) \in Nat /\ DOMAIN p = 1..Len(p) /\ DOMAIN q = 1..Len(q)
  OBVIOUS
<1>2. /\ DOMAIN (p \o q) = 1..(Len(p) + Len(q))
      /\ \A i \in 1..(Len(p) + Len(q)) : (p \o q)[i] = IF i <= Len(p) THEN p[i] ELSE q[i - Len(p)]
  BY <1>1
<1>3. ASSUME NEW i \in DOMAIN p PROVE i \in DOMAIN (p \o q) /\ (p \o q)[i] = p[i]
  BY <1>1, <1>2
<1>4. ASSUME NEW i \in DOMAIN q PROVE i + Len(p) \in DOMAIN (p \o q) /\ (p \o q)[i + Len(p)] = q[i]
  BY <1>1, <1>2
<1>5. ASSUME NEW i \in DOMAIN (p \o q)
      PROVE  (i \in DOMAIN p /\ (p \o q)[i] = p[i]) \/ (i - Len(p) \in DOMAIN q /\ (p \o q)[i] = q[i - Len(p)])
  BY <1>1, <1>2
<1>6. ASSUME NEW x \in ToSet(p \o q) PROVE x \in ToSet(p) \union ToSet(q)
  <2>1. PICK i \in DOMAIN (p \o q) : x = (p \o q)[i]
    BY <1>6 DEF ToSet
  <2> QED
    BY <1>5, <2>1 DEF ToSet
<1>7. ASSUME NEW x \in ToSet(p) PROVE x \in ToSet(p \o q)
  <2>1. PICK i \in DOMAIN p : x = p[i]
    BY <1>7 DEF ToSet
  <2> QED
    BY <1>3, <2>1 DEF ToSet
<1>8. ASSUME NEW x \in ToSet(q) PROVE x \in ToSet(p \o q)
  <2>1. PICK i \in DOMAIN q : x = q[i]
    BY <1>8 DEF ToSet
  <2> QED
    BY <1>4, <2>1 DEF ToSet
<1> QED
  BY <1>6, <1>7, <1>8

LEMMA FlattenedElements ==
    ASSUME NEW n \in Nat \ {0}, NEW S, NEW seqs \in [1..n -> Seq(S)]
    PROVE  /\ FlattenSeq(seqs) \in Seq(S)
           /\ ToSet(FlattenSeq(seqs)) = UNION {ToSet(seqs[i]) : i \in 1..n}
<1>1. PICK g : Flattens(g, seqs, n, S)
  BY Flattened
<1> DEFINE Odd == {i \in Nat : i \in 1..n /\ ToSet(g[i]) # UNION {ToSet(seqs[k]) : k \in 1..i}}
<1>2. Odd = {}
  <2>1. SUFFICES ASSUME Odd # {} PROVE FALSE
    OBVIOUS
  <2>2. PICK m \in Odd : \A k \in Odd : ~(<<k, m>> \in OpToRel(<, Nat))
    BY <2>1, WFMin, NatLessThanWellFounded
  <2>3. m \in 1..n /\ ToSet(g[m]) # UNION {ToSet(seqs[k]) : k \in 1..m} /\ \A k \in Odd : ~(k < m)
    BY <2>2 DEF OpToRel
  <2>4. m # 1
    <3>1. SUFFICES ASSUME m = 1 PROVE FALSE
      OBVIOUS
    <3>2. 1..m = {1}
      BY <3>1
    <3> QED
      BY <1>1, <2>3, <3>1, <3>2 DEF Flattens
  <2>5. m - 1 \in Nat /\ m - 1 \in 1..n /\ m - 1 < m /\ 1..m = 1..(m - 1) \union {m}
    BY <2>3, <2>4
  <2>6. ToSet(g[m - 1]) = UNION {ToSet(seqs[k]) : k \in 1..(m - 1)}
    BY <2>3, <2>5
  <2>7. PICK p, q : p = g[m - 1] /\ q = seqs[m] /\ p \in Seq(S) /\ q \in Seq(S)
    BY <1>1, <2>3, <2>5 DEF Flattens
  <2>8. g[m] = p \o q
    BY <1>1, <2>3, <2>4, <2>7 DEF Flattens
  <2>9. ToSet(p \o q) = ToSet(p) \union ToSet(q)
    BY <2>7, ElementsOfBoth
  <2> QED
    BY <2>3, <2>5, <2>6, <2>7, <2>8, <2>9
<1>3. n \in Nat /\ n \in 1..n
  OBVIOUS
<1> QED
  BY <1>1, <1>2, <1>3 DEF Flattens

LEMMA FlattenedSingles ==
    ASSUME NEW S, NEW new \in Seq(S), NEW seqs, seqs = [i \in DOMAIN new |-> <<new[i]>>]
    PROVE  FlattenSeq(seqs) = new
<1>1. CASE new = <<>>
  <2>1. seqs = <<>>
    BY <1>1
  <2> QED
    BY <1>1, <2>1 DEF FlattenSeq
<1>2. CASE new # <<>>
  <2>1. PICK n : n = Len(new) /\ n \in Nat \ {0} /\ DOMAIN new = 1..n
    BY <1>2
  <2>2. seqs \in [1..n -> Seq(S)]
    BY <2>1
  <2>8. PICK h : h = [i \in 1..n |-> SubSeq(new, 1, i)]
    OBVIOUS
  <2>3. h[1] = seqs[1]
    <3>1. 1 \in 1..n /\ new[1] \in S
      BY <2>1
    <3>2. SubSeq(new, 1, 1) \in Seq(S) /\ Len(SubSeq(new, 1, 1)) = 1 /\ SubSeq(new, 1, 1)[1] = new[1]
      BY <2>1, <3>1
    <3>3. SubSeq(new, 1, 1) = [i \in 1..1 |-> new[1]]
      BY <2>1, <3>1
    <3>4. \A x : [i \in 1..1 |-> x] = <<x>>
      OBVIOUS
    <3>5. SubSeq(new, 1, 1) = <<new[1]>>
      BY <3>3, <3>4
    <3>6. seqs[1] = <<new[1]>> /\ h[1] = SubSeq(new, 1, 1)
      BY <2>1, <2>8, <3>1
    <3> QED
      BY <3>5, <3>6
  <2>4. \A i \in 1..n : i # 1 => h[i] = h[i - 1] \o seqs[i]
    <3>0. SUFFICES ASSUME NEW i \in 1..n, i # 1 PROVE h[i] = h[i - 1] \o seqs[i]
      OBVIOUS
    <3>1. i - 1 \in 1..n /\ new[i] \in S
      BY <2>1, <3>0
    <3>2. SubSeq(new, 1, i) = SubSeq(new, 1, i - 1) \o <<new[i]>>
      BY <2>1, <3>0, <3>1
    <3> QED
      BY <2>1, <2>8, <3>1, <3>2
  <2>5. SubSeq(new, 1, n) = new
    BY <2>1
  <2>6. h[n] = new
    BY <2>1, <2>5, <2>8
  <2>9. GrowsAs(h, seqs, n)
    BY <2>3, <2>4 DEF GrowsAs
  <2>7. FlattenSeq(seqs) = h[n]
    BY <2>1, <2>2, <2>9, FlattenIs
  <2> QED
    BY <2>6, <2>7
<1> QED
  BY <1>1, <1>2

----------------------------------------------------------------------------
(* A sequence cut into slices of p elements, the last of which may be shorter. *)
UpTo(s, p, n) == IF n * p < Len(s) THEN n * p ELSE Len(s)
Slice(s, p, n) == SubSeq(s, (n - 1) * p + 1, UpTo(s, p, n))

LEMMA Products ==
    \A n, p \in Nat : n * p \in Nat /\ (n + 1) * p = n * p + p /\ 1 * p = p /\ 0 * p = 0
  OBVIOUS

LEMMA Slices ==
    ASSUME NEW S, NEW s \in Seq(S), NEW m \in 0..Len(s), NEW n \in m..Len(s)
    PROVE  SubSeq(s, 1, m) \o SubSeq(s, m + 1, n) = SubSeq(s, 1, n)
  OBVIOUS

LEMMA SlicesFollow ==
    ASSUME NEW S, NEW s \in Seq(S), NEW p \in Nat \ {0}, NEW n \in Nat \ {0}
    PROVE  /\ UpTo(s, p, n) \in 0..Len(s) /\ Slice(s, p, n) \in Seq(S)
           /\ Slice(s, p, 1) = SubSeq(s, 1, UpTo(s, p, 1))
           /\ SubSeq(s, 1, UpTo(s, p, n)) \o Slice(s, p, n + 1) = SubSeq(s, 1, UpTo(s, p, n + 1))
<1>1. PICK m, len : m = n * p /\ len = Len(s) /\ m \in Nat /\ len \in Nat
  BY Products
<1>2. (n + 1) * p = m + p /\ (n + 1) - 1 = n /\ 1 * p = p /\ (1 - 1) * p = 0
  <2>1. 1 - 1 = 0 /\ (n + 1) - 1 = n
    OBVIOUS
  <2> QED
    BY <1>1, <2>1, Products
<1>3. UpTo(s, p, n) = IF m < len THEN m ELSE len
  BY <1>1 DEF UpTo
<1>4. UpTo(s, p, n + 1) = IF m + p < len THEN m + p ELSE len
  BY <1>1, <1>2 DEF UpTo
<1>5. Slice(s, p, n + 1) = SubSeq(s, m + 1, UpTo(s, p, n + 1))
  BY <1>1, <1>2, <1>4 DEF Slice, UpTo
<1>6. Slice(s, p, 1) = SubSeq(s, 1, UpTo(s, p, 1))
  <2>1. Slice(s, p, 1) = SubSeq(s, 0 + 1, UpTo(s, p, 1))
    BY <1>1, <1>2 DEF Slice, UpTo
  <2>2. 0 + 1 = 1
    OBVIOUS
  <2> QED
    BY <2>1, <2>2
<1>7. SubSeq(s, 1, UpTo(s, p, n)) \o Slice(s, p, n + 1) = SubSeq(s, 1, UpTo(s, p, n + 1))
  <2>1. CASE m < len
    <3>1. m \in 0..len /\ UpTo(s, p, n + 1) \in m..len
      BY <1>1, <1>4, <2>1
    <3>2. SubSeq(s, 1, m) \o SubSeq(s, m + 1, UpTo(s, p, n + 1)) = SubSeq(s, 1, UpTo(s, p, n + 1))
      BY <1>1, <3>1, Slices
    <3> QED
      BY <1>3, <1>5, <2>1, <3>2
  <2>2. CASE ~(m < len)
    <3>1. UpTo(s, p, n) = len /\ UpTo(s, p, n + 1) = len
      BY <1>1, <1>3, <1>4, <2>2
    <3>2. SubSeq(s, m + 1, len) = <<>>
      <4>1. \A i \in Int : ~(i >= 1 /\ i <= len - (m + 1) + 1)
        BY <1>1, <2>2
      <4>2. Len(SubSeq(s, m + 1, len)) = 0 /\ SubSeq(s, m + 1, len) \in Seq(S)
        BY <1>1, <2>2
      <4> QED
        BY <4>2
    <3>3. SubSeq(s, 1, len) \o <<>> = SubSeq(s, 1, len)
      BY <1>1
    <3> QED
      BY <1>5, <3>1, <3>2, <3>3
  <2> QED
    BY <2>1, <2>2
<1>8. Slice(s, p, n) \in Seq(S)
  <2>1. PICK a : a = (n - 1) * p /\ a \in Nat
    <3>1. n - 1 \in Nat
      OBVIOUS
    <3> QED
      BY <3>1, Products
  <2>2. PICK b : b = (IF m < len THEN m ELSE len) /\ b \in Nat /\ b <= len
    BY <1>1
  <2>3. Slice(s, p, n) = SubSeq(s, a + 1, b)
    BY <1>1, <2>1, <2>2 DEF Slice, UpTo
  <2>4. SubSeq(s, a + 1, b) \in Seq(S)
    BY <1>1, <2>1, <2>2
  <2> QED
    BY <2>3, <2>4
<1>9. UpTo(s, p, n) \in 0..Len(s)
  BY <1>1, <1>3
<1> QED
  BY <1>1, <1>6, <1>7, <1>8, <1>9

LEMMA SlicesTogether ==
    ASSUME NEW S, NEW s \in Seq(S), NEW p \in Nat \ {0}, NEW n \in Nat \ {0}
    PROVE  FlattenSeq([i \in 1..n |-> Slice(s, p, i)]) = SubSeq(s, 1, UpTo(s, p, n))
<1>1. PICK seqs : seqs = [i \in 1..n |-> Slice(s, p, i)]
  OBVIOUS
<1>2. PICK h : h = [i \in 1..n |-> SubSeq(s, 1, UpTo(s, p, i))]
  OBVIOUS
<1>3. seqs \in [1..n -> Seq(S)]
  <2>1. \A i \in 1..n : i \in Nat \ {0}
    OBVIOUS
  <2>2. \A i \in 1..n : Slice(s, p, i) \in Seq(S)
    BY <2>1, SlicesFollow
  <2> QED
    BY <1>1, <2>2
<1>4. h[1] = seqs[1]
  <2>1. 1 \in 1..n
    OBVIOUS
  <2>2. Slice(s, p, 1) = SubSeq(s, 1, UpTo(s, p, 1))
    BY SlicesFollow
  <2> QED
    BY <1>1, <1>2, <2>1, <2>2
<1>5. ASSUME NEW i \in 1..n, i # 1 PROVE h[i] = h[i - 1] \o seqs[i]
  <2>1. PICK j : j = i - 1 /\ j \in Nat \ {0} /\ j \in 1..n /\ j + 1 = i
    BY <1>5
  <2>2. SubSeq(s, 1, UpTo(s, p, j)) \o Slice(s, p, j + 1) = SubSeq(s, 1, UpTo(s, p, j + 1))
    BY <2>1, SlicesFollow
  <2> QED
    BY <1>1, <1>2, <2>1, <2>2
<1>6. GrowsAs(h, seqs, n)
  BY <1>4, <1>5 DEF GrowsAs
<1>7. FlattenSeq(seqs) = h[n]
  BY <1>3, <1>6, FlattenIs
<1>8. h[n] = SubSeq(s, 1, UpTo(s, p, n))
  <2>1. n \in 1..n
    OBVIOUS
  <2> QED
    BY <1>2, <2>1
<1>9. FlattenSeq([i \in 1..n |-> Slice(s, p, i)]) = FlattenSeq(seqs)
  BY <1>1
<1> QED
  BY <1>7, <1>8, <1>9

SliceOf(q, s, m, b, S) ==
    /\ q \in Seq(S)
    /\ \A i \in DOMAIN q : i \in Nat /\ i >= 1 /\ m + i <= b /\ q[i] = s[m + i] /\ m + i \in DOMAIN s

LEMMA SliceFacts ==
    ASSUME NEW S, NEW s \in Seq(S), NEW m \in Nat, NEW b \in Nat, b <= Len(s), NEW q, q = SubSeq(s, m + 1, b)
    PROVE  SliceOf(q, s, m, b, S)
<1>1. Len(s) \in Nat /\ DOMAIN s = 1..Len(s)
  OBVIOUS
<1>2. q = [i \in 1..(IF m + 1 <= b THEN b - m ELSE 0) |-> s[m + i]]
  BY <1>1
<1>3. \A i \in 1..(IF m + 1 <= b THEN b - m ELSE 0) : i \in Nat /\ i >= 1 /\ m + i <= b /\ m + i \in DOMAIN s
  BY <1>1
<1>4. DOMAIN q = 1..(IF m + 1 <= b THEN b - m ELSE 0)
  BY <1>2
<1>5. q \in Seq(S)
  BY <1>1
<1> QED
  BY <1>2, <1>3, <1>4, <1>5 DEF SliceOf
===============================================================================
