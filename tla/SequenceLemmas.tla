---------------------------- MODULE SequenceLemmas ----------------------------
(***************************************************************************)
(* What the proofs need to know of the sequence operators that the modules *)
(* are built from: lengths, elements, and where each element came from.    *)
(* Two are about naturals: there is a least one, and a recursive function  *)
(* that adds numbers up is what its equation says.                         *)
(***************************************************************************)
EXTENDS Naturals, Sequences, SequencesExt, SequenceTheorems, WellFoundedInduction, TLAPS

(* A sequence cut after its first n elements. *)
LEMMA RemovedFront ==
    ASSUME NEW S, NEW s \in Seq(S), NEW n \in Nat, n <= Len(s)
    PROVE  /\ SubSeq(s, n + 1, Len(s)) \in Seq(S)
           /\ Len(SubSeq(s, n + 1, Len(s))) = Len(s) - n
           /\ \A i \in 1 .. (Len(s) - n) : SubSeq(s, n + 1, Len(s))[i] = s[n + i]
           /\ SubSeq(s, 1, n) \in Seq(S)
           /\ Len(SubSeq(s, 1, n)) = n
           /\ \A i \in 1 .. n : SubSeq(s, 1, n)[i] = s[i]
<1>1. CASE n = Len(s)
  BY <1>1, SMT
<1>2. CASE n < Len(s)
  BY <1>2, SMT
<1> QED BY <1>1, <1>2

(* Two sequences joined. *)
LEMMA JoinedParts ==
    ASSUME NEW S, NEW s \in Seq(S), NEW t \in Seq(S)
    PROVE  /\ s \o t \in Seq(S)
           /\ Len(s \o t) = Len(s) + Len(t)
           /\ \A i \in 1 .. Len(s) : (s \o t)[i] = s[i]
           /\ \A i \in 1 .. Len(t) : (s \o t)[Len(s) + i] = t[i]
OBVIOUS

(* A sequence without its k-th element. *)
LEMMA RemovedAt ==
    ASSUME NEW S, NEW w \in Seq(S), NEW k \in 1 .. Len(w)
    PROVE  /\ RemoveAt(w, k) \in Seq(S)
           /\ Len(RemoveAt(w, k)) = Len(w) - 1
           /\ \A i \in 1 .. (Len(w) - 1) :
                 RemoveAt(w, k)[i] = IF i < k THEN w[i] ELSE w[i + 1]
<1> DEFINE a == SubSeq(w, 1, k - 1)
           b == SubSeq(w, k + 1, Len(w))
<1>1. /\ a \in Seq(S) /\ Len(a) = k - 1
      /\ \A i \in 1 .. (k - 1) : a[i] = w[i]
  BY RemovedFront, k - 1 \in Nat, k - 1 <= Len(w)
<1>2. /\ b \in Seq(S) /\ Len(b) = Len(w) - k
      /\ \A i \in 1 .. (Len(w) - k) : b[i] = w[k + i]
  BY RemovedFront, k \in Nat, k <= Len(w)
<1> HIDE DEF a, b
<1>s. a \in Seq(S) /\ b \in Seq(S)
  BY <1>1, <1>2
<1>j. /\ a \o b \in Seq(S) /\ Len(a \o b) = Len(a) + Len(b)
      /\ \A i \in 1 .. Len(a) : (a \o b)[i] = a[i]
      /\ \A i \in 1 .. Len(b) : (a \o b)[Len(a) + i] = b[i]
  BY ONLY <1>s
<1>3. /\ a \o b \in Seq(S) /\ Len(a \o b) = Len(w) - 1
      /\ \A i \in 1 .. (k - 1) : (a \o b)[i] = w[i]
      /\ \A i \in 1 .. (Len(w) - k) : (a \o b)[(k - 1) + i] = w[k + i]
  BY <1>1, <1>2, <1>j
<1>4. ASSUME NEW i \in 1 .. (Len(w) - 1)
      PROVE  (a \o b)[i] = IF i < k THEN w[i] ELSE w[i + 1]
  <2>1. CASE i < k
    BY <1>3, <2>1
  <2>2. CASE ~(i < k)
    <3>1. i - (k - 1) \in 1 .. (Len(w) - k) /\ (k - 1) + (i - (k - 1)) = i
          /\ k + (i - (k - 1)) = i + 1
      BY <2>2
    <3> QED BY <1>3, <2>2, <3>1
  <2> QED BY <2>1, <2>2
<1> QED BY <1>3, <1>4 DEF RemoveAt, a, b

(* The deletion of r from a list that has it at k, and nowhere else. *)
LEMMA RemovedFirst ==
    ASSUME NEW S, NEW w \in Seq(S), NEW r,
           \A i, j \in DOMAIN w : w[i] = w[j] => i = j,
           NEW k \in DOMAIN w, w[k] = r
    PROVE  RemoveFirst(w, r) = RemoveAt(w, k)
<1> DEFINE I == {i \in 1 .. Len(w) : w[i] = r}
<1>1. I = {k}
  OBVIOUS
<1>2. Min({k}) = k
  BY DEF Min
<1>3. RemoveFirst(w, r) = RemoveAt(w, IF I # {} THEN Min(I) ELSE 0)
  BY DEF RemoveFirst, SelectInSeq
<1> QED BY <1>1, <1>2, <1>3

(* The deletion of r from a list without it. *)
LEMMA RemovedNone ==
    ASSUME NEW S, NEW w \in Seq(S), NEW r, \A i \in DOMAIN w : w[i] # r
    PROVE  RemoveFirst(w, r) = w
BY DEF RemoveFirst

(* What is left of a list without repeats once r is deleted from it. *)
LEMMA WithoutFirst ==
    ASSUME NEW S, NEW w \in Seq(S), NEW r,
           \A i, j \in DOMAIN w : w[i] = w[j] => i = j
    PROVE  /\ RemoveFirst(w, r) \in Seq(S)
           /\ \A i \in DOMAIN RemoveFirst(w, r) :
                 /\ RemoveFirst(w, r)[i] # r
                 /\ \E k \in DOMAIN w : w[k] = RemoveFirst(w, r)[i]
           /\ \A i, j \in DOMAIN RemoveFirst(w, r) :
                 RemoveFirst(w, r)[i] = RemoveFirst(w, r)[j] => i = j
           /\ \A k \in DOMAIN w :
                 w[k] # r => \E i \in DOMAIN RemoveFirst(w, r) : RemoveFirst(w, r)[i] = w[k]
<1> DEFINE u == RemoveFirst(w, r)
<1>1. CASE ~\E k \in DOMAIN w : w[k] = r
  BY <1>1, RemovedNone
<1>2. ASSUME NEW k \in DOMAIN w, w[k] = r
      PROVE  /\ u \in Seq(S)
             /\ \A i \in DOMAIN u : u[i] # r /\ \E m \in DOMAIN w : w[m] = u[i]
             /\ \A i, j \in DOMAIN u : u[i] = u[j] => i = j
             /\ \A m \in DOMAIN w : w[m] # r => \E i \in DOMAIN u : u[i] = w[m]
  <2>1. u = RemoveAt(w, k)
    BY <1>2, RemovedFirst
  <2>2. DOMAIN w = 1 .. Len(w) /\ Len(w) \in Nat /\ k \in 1 .. Len(w)
    BY <1>2
  <2>3. /\ u \in Seq(S) /\ Len(u) = Len(w) - 1 /\ DOMAIN u = 1 .. (Len(w) - 1)
        /\ \A i \in 1 .. (Len(w) - 1) : u[i] = IF i < k THEN w[i] ELSE w[i + 1]
    <3>1. /\ RemoveAt(w, k) \in Seq(S) /\ Len(RemoveAt(w, k)) = Len(w) - 1
          /\ \A i \in 1 .. (Len(w) - 1) :
                RemoveAt(w, k)[i] = IF i < k THEN w[i] ELSE w[i + 1]
      BY ONLY w \in Seq(S), <2>2, RemovedAt
    <3> HIDE DEF u
    <3> QED BY <2>1, <2>2, <3>1
  <2> HIDE DEF u
  <2>4. ASSUME NEW i \in DOMAIN u
        PROVE  u[i] # r /\ \E m \in DOMAIN w : w[m] = u[i]
    BY <1>2, <2>2, <2>3
  <2>5. ASSUME NEW i \in DOMAIN u, NEW j \in DOMAIN u, u[i] = u[j]
        PROVE  i = j
    <3> DEFINE pos(x) == IF x < k THEN x ELSE x + 1
    <3>1. pos(i) \in DOMAIN w /\ pos(j) \in DOMAIN w
      BY <2>2, <2>3
    <3>2. w[pos(i)] = w[pos(j)]
      BY <2>3, <2>5
    <3>3. pos(i) = pos(j)
      BY <3>1, <3>2
    <3> QED BY <2>2, <2>3, <3>3
  <2>6. ASSUME NEW m \in DOMAIN w, w[m] # r
        PROVE  \E i \in DOMAIN u : u[i] = w[m]
    <3>1. CASE m < k
      BY <2>2, <2>3, <3>1
    <3>2. CASE m > k
      <4>1. m - 1 \in DOMAIN u /\ u[m - 1] = w[m]
        BY <2>2, <2>3, <3>2
      <4> QED BY <4>1
    <3> QED BY <1>2, <2>2, <2>6, <3>1, <3>2
  <2> QED BY <2>3, <2>4, <2>5, <2>6
<1> QED BY <1>1, <1>2

(* A set of naturals has a least one. *)
LEMMA LeastNatural ==
    ASSUME NEW S \in SUBSET Nat, S # {}
    PROVE  \E m \in S : \A k \in S : m <= k
<1> DEFINE R == OpToRel(<, Nat)
<1>1. IsWellFoundedOn(R, Nat)
  BY NatLessThanWellFounded
<1>2. \A x, y \in Nat : x < y => <<x, y>> \in R
  BY DEF OpToRel
<1> HIDE DEF R
<1>3. \E m \in S : \A k \in S : ~ (<<k, m>> \in R)
  BY <1>1, WFMin
<1>4. PICK m \in S : \A k \in S : ~ (<<k, m>> \in R)
  BY <1>3
<1>5. ASSUME NEW k \in S PROVE m <= k
  <2>1. k \in Nat /\ m \in Nat /\ ~ (k < m)
    BY <1>2, <1>4
  <2> QED BY <2>1
<1> QED BY <1>5

(* The sums of the first numbers of w. *)
LEMMA PrefixSums ==
    ASSUME NEW N \in Nat, NEW w \in [1 .. N -> Nat]
    PROVE  \E f \in [0 .. N -> Nat] :
              f = [k \in 0 .. N |-> IF k = 0 THEN 0 ELSE f[k - 1] + w[k]]
<1> DEFINE Sums(m, f) ==
               f \in [0 .. m -> Nat] /\ f[0] = 0 /\ \A k \in 1 .. m : f[k] = f[k - 1] + w[k]
           Bad == {m \in 0 .. N : ~\E f : Sums(m, f)}
<1>1. ASSUME Bad # {}
      PROVE  FALSE
  <2>1. PICK m \in Bad : \A k \in Bad : m <= k
    <3>1. Bad \in SUBSET Nat
      OBVIOUS
    <3> HIDE DEF Bad
    <3> QED BY <1>1, <3>1, LeastNatural
  <2>2. m # 0
    <3>1. Sums(0, [k \in 0 .. 0 |-> 0])
      OBVIOUS
    <3> HIDE DEF Sums
    <3> QED BY <3>1
  <2>3. m - 1 \in 0 .. N /\ ~(m <= m - 1) /\ m \in 1 .. N
    BY <2>2
  <2>4. PICK f : Sums(m - 1, f)
    <3>1. m - 1 \notin Bad
      <4> HIDE DEF Bad
      <4> QED BY <2>1, <2>3
    <3> HIDE DEF Sums
    <3> QED BY <2>3, <3>1
  <2> DEFINE g == [k \in 0 .. m |-> IF k = m THEN f[m - 1] + w[m] ELSE f[k]]
  <2>5. /\ \A k \in 0 .. (m - 1) : f[k] \in Nat
        /\ \A k \in 1 .. (m - 1) : f[k] = f[k - 1] + w[k]
        /\ f[0] = 0 /\ w[m] \in Nat
    BY <2>3, <2>4
  <2>6. g \in [0 .. m -> Nat] /\ g[0] = 0
    BY <2>3, <2>5
  <2>7. ASSUME NEW k \in 1 .. m
        PROVE  g[k] = g[k - 1] + w[k]
    <3>1. k - 1 \in 0 .. m /\ k - 1 # m /\ g[k - 1] = f[k - 1]
      BY <2>3
    <3>2. CASE k = m
      BY <3>1, <3>2
    <3>3. CASE k # m
      BY <2>3, <2>5, <3>1, <3>3
    <3> QED BY <3>2, <3>3
  <2>8. Sums(m, g)
    BY <2>6, <2>7
  <2> HIDE DEF Sums, g
  <2> QED BY <2>1, <2>8
<1>2. PICK f : Sums(N, f)
  <2>1. N \in 0 .. N
    OBVIOUS
  <2> HIDE DEF Sums
  <2> QED BY <1>1, <2>1
<1>3. f = [k \in 0 .. N |-> IF k = 0 THEN 0 ELSE f[k - 1] + w[k]]
  BY <1>2
<1> QED BY <1>2, <1>3

(* Running sums of naturals are naturals. *)
LEMMA SumsAreNatural ==
    ASSUME NEW N \in Nat, NEW w \in [1 .. N -> Nat], NEW S,
           S[0] = 0, \A n \in 1 .. N : S[n] = S[n - 1] + w[n]
    PROVE  \A n \in 0 .. N : S[n] \in Nat
<1> DEFINE Bad == {n \in 0 .. N : S[n] \notin Nat}
<1> SUFFICES ASSUME Bad # {} PROVE FALSE
  OBVIOUS
<1>1. PICK m \in Bad : \A k \in Bad : m <= k
  <2>1. Bad \in SUBSET Nat
    OBVIOUS
  <2> HIDE DEF Bad
  <2> QED BY <2>1, LeastNatural
<1>2. m \in 1 .. N /\ m - 1 \in 0 .. N /\ ~(m <= m - 1)
  BY <1>1
<1>3. S[m - 1] \in Nat
  BY <1>1, <1>2
<1> QED BY <1>1, <1>2, <1>3

(* The greatest and the least of some places in a sequence. *)
LEMMA Extremes ==
    ASSUME NEW n \in Nat, NEW I \in SUBSET (1 .. n), I # {}
    PROVE  /\ Max(I) \in I /\ \A i \in I : i <= Max(I)
           /\ Min(I) \in I /\ \A i \in I : Min(I) <= i
<1>1. \E m \in I : \A i \in I : m <= i
  BY LeastNatural, I \in SUBSET Nat
<1>2. \E m \in I : \A i \in I : i <= m
  <2> DEFINE J == {n - i : i \in I}
  <2>1. J \in SUBSET Nat /\ J # {}
    <3>1. \A i \in I : i \in 1 .. n /\ n - i \in Nat
      OBVIOUS
    <3> QED BY <3>1
  <2>2. PICK j \in J : \A k \in J : j <= k
    <3> HIDE DEF J
    <3> QED BY <2>1, LeastNatural
  <2>3. PICK m \in I : j = n - m
    BY <2>2
  <2>4. ASSUME NEW i \in I PROVE i <= m
    <3>1. j <= n - i
      BY <2>2
    <3> QED BY <2>3, <3>1
  <2> QED BY <2>4
<1> QED BY <1>1, <1>2 DEF Max, Min

(* One symbol. *)
LEMMA Singleton ==
    ASSUME NEW S, NEW x \in S
    PROVE  <<x>> \in Seq(S) /\ Len(<<x>>) = 1 /\ <<x>>[1] = x
OBVIOUS

(* Two symbols. *)
LEMMA Pair ==
    ASSUME NEW S, NEW x \in S, NEW y \in S
    PROVE  <<x, y>> \in Seq(S) /\ Len(<<x, y>>) = 2 /\ <<x, y>>[1] = x /\ <<x, y>>[2] = y
OBVIOUS

(* Four symbols. *)
LEMMA Quadruple ==
    ASSUME NEW S, NEW a \in S, NEW b \in S, NEW c \in S, NEW d \in S
    PROVE  /\ <<a, b, c, d>> \in Seq(S) /\ Len(<<a, b, c, d>>) = 4
           /\ <<a, b, c, d>>[1] = a /\ <<a, b, c, d>>[2] = b
           /\ <<a, b, c, d>>[3] = c /\ <<a, b, c, d>>[4] = d
OBVIOUS

(* Two sequences joined, and taken apart again. *)
LEMMA TakenApart ==
    ASSUME NEW S, NEW s \in Seq(S), NEW t \in Seq(S)
    PROVE  /\ SubSeq(s \o t, 1, Len(s)) = s
           /\ SubSeq(s \o t, Len(s) + 1, Len(s \o t)) = t
<1> DEFINE w == s \o t
           a == SubSeq(w, 1, Len(s))
           z == SubSeq(w, Len(s) + 1, Len(w))
<1>1. /\ w \in Seq(S) /\ Len(w) = Len(s) + Len(t) /\ Len(s) \in Nat /\ Len(t) \in Nat
      /\ \A i \in 1 .. Len(s) : w[i] = s[i]
      /\ \A i \in 1 .. Len(t) : w[Len(s) + i] = t[i]
  BY JoinedParts
<1> HIDE DEF w
<1>2. /\ a \in Seq(S) /\ Len(a) = Len(s) /\ \A i \in 1 .. Len(s) : a[i] = w[i]
      /\ z \in Seq(S) /\ Len(z) = Len(w) - Len(s)
      /\ \A i \in 1 .. (Len(w) - Len(s)) : z[i] = w[Len(s) + i]
  BY <1>1, RemovedFront, Len(s) <= Len(w)
<1> HIDE DEF a, z
<1>3. a = s
  BY <1>1, <1>2, SeqEqual
<1>4. z = t
  <2>1. Len(z) = Len(t) /\ \A i \in 1 .. Len(t) : z[i] = t[i]
    BY <1>1, <1>2
  <2> QED BY <1>2, <2>1, SeqEqual
<1> QED BY <1>3, <1>4 DEF a, z, w

(* The elements of two sequences joined. *)
LEMMA JoinedElements ==
    ASSUME NEW S, NEW s \in Seq(S), NEW t \in Seq(S), NEW i \in 1 .. Len(s \o t)
    PROVE  \/ i \in 1 .. Len(s) /\ (s \o t)[i] = s[i]
           \/ \E k \in 1 .. Len(t) : i = Len(s) + k /\ (s \o t)[i] = t[k]
<1>1. /\ Len(s \o t) = Len(s) + Len(t) /\ Len(s) \in Nat /\ Len(t) \in Nat
      /\ \A j \in 1 .. Len(s) + Len(t) : (s \o t)[j] = IF j <= Len(s) THEN s[j] ELSE t[j - Len(s)]
  BY ConcatProperties
<1>2. CASE i <= Len(s)
  BY <1>1, <1>2
<1>3. CASE ~(i <= Len(s))
  <2>1. i - Len(s) \in 1 .. Len(t) /\ i = Len(s) + (i - Len(s))
    BY <1>1, <1>3
  <2>2. (s \o t)[i] = t[i - Len(s)]
    BY <1>1, <1>3
  <2> QED BY <2>1, <2>2
<1> QED BY <1>2, <1>3

(* A part of a sequence. *)
LEMMA PartOf ==
    ASSUME NEW S, NEW s \in Seq(S), NEW m \in Nat, NEW n \in Nat, 1 <= m, n <= Len(s)
    PROVE  /\ SubSeq(s, m, n) \in Seq(S)
           /\ m <= n => Len(SubSeq(s, m, n)) = n - m + 1 /\ SubSeq(s, m, n)[1] = s[m]
           /\ \A i \in 1 .. Len(SubSeq(s, m, n)) :
                 \E j \in 1 .. Len(s) : SubSeq(s, m, n)[i] = s[j]
<1> DEFINE t == SubSeq(s, m, n)
<1>1. \A i \in m .. n : s[i] \in S
  <2> TAKE i \in m .. n
  <2>1. i \in 1 .. Len(s)
    OBVIOUS
  <2> QED BY <2>1, ElementOfSeq
<1>2. /\ t \in Seq(S) /\ Len(t) = (IF m <= n THEN n - m + 1 ELSE 0)
      /\ \A i \in 1 .. n - m + 1 : t[i] = s[m + i - 1]
  BY <1>1, SubSeqProperties
<1> HIDE DEF t
<1>3. m <= n => Len(t) = n - m + 1 /\ t[1] = s[m]
  BY <1>2, m + 1 - 1 = m
<1>4. ASSUME NEW i \in 1 .. Len(t) PROVE \E j \in 1 .. Len(s) : t[i] = s[j]
  <2>1. i \in 1 .. n - m + 1
    BY <1>2
  <2>2. m + i - 1 \in 1 .. Len(s) /\ t[i] = s[m + i - 1]
    BY <1>2, <2>1
  <2> QED BY <2>2
<1> QED BY <1>2, <1>3, <1>4 DEF t

(* One symbol before a sequence. *)
LEMMA Headed ==
    ASSUME NEW S, NEW x \in S, NEW r \in Seq(S)
    PROVE  LET w == <<x>> \o r
           IN  /\ w \in Seq(S) /\ w # <<>> /\ Len(w) = 1 + Len(r) /\ w[1] = x
               /\ \A i \in 1 .. Len(r) : w[1 + i] = r[i]
               /\ Tail(w) = r
<1> DEFINE o == <<x>>
           w == o \o r
<1>1. o \in Seq(S) /\ Len(o) = 1 /\ o[1] = x
  BY Singleton
<1> HIDE DEF o
<1>2. /\ w \in Seq(S) /\ Len(w) = Len(o) + Len(r)
      /\ \A i \in 1 .. Len(o) : w[i] = o[i]
      /\ \A i \in 1 .. Len(r) : w[Len(o) + i] = r[i]
  <2>1. o \in Seq(S) /\ r \in Seq(S)
    BY <1>1
  <2> QED BY ONLY <2>1
<1>l. Len(r) \in Nat
  BY LenProperties
<1> HIDE DEF w
<1>3. /\ Len(w) = 1 + Len(r) /\ w[1] = x
      /\ \A i \in 1 .. Len(r) : w[1 + i] = r[i]
  BY <1>1, <1>2
<1>4. Len(w) # 0
  BY ONLY <1>l, <1>3
<1>5. w # <<>>
  BY <1>4
<1>6. /\ Tail(w) \in Seq(S) /\ Len(Tail(w)) = Len(w) - 1
      /\ \A i \in 1 .. (Len(w) - 1) : Tail(w)[i] = w[i + 1]
  <2>1. w \in Seq(S) /\ w # <<>>
    BY <1>2, <1>5
  <2> QED BY ONLY <2>1
<1> DEFINE t == Tail(w)
<1> HIDE DEF t
<1>7. t \in Seq(S) /\ Len(t) = Len(r) /\ \A i \in 1 .. Len(r) : t[i] = r[i]
  <2>1. Len(w) - 1 = Len(r)
    BY ONLY <1>l, <1>3
  <2>2. \A i \in 1 .. Len(r) : i + 1 = 1 + i
    OBVIOUS
  <2> QED BY <1>3, <1>6, <2>1, <2>2 DEF t
<1>8. t = r
  BY <1>7, SeqEqual
<1> QED BY <1>2, <1>3, <1>5, <1>8 DEF w, o, t

(* Three symbols before a sequence, one by one. *)
LEMMA Triple ==
    ASSUME NEW S, NEW a \in S, NEW b \in S, NEW c \in S
    PROVE  /\ <<a, b, c>> \in Seq(S) /\ Len(<<a, b, c>>) = 3
           /\ <<a, b, c>>[1] = a /\ <<a, b, c>>[2] = b /\ <<a, b, c>>[3] = c
OBVIOUS

(* Two symbols are one and another. *)
LEMMA TwoOnes ==
    ASSUME NEW S, NEW a \in S, NEW b \in S
    PROVE  <<a, b>> = <<a>> \o <<b>>
<1> DEFINE t == <<a, b>>
           o == <<a>>
           q == <<b>>
           w == o \o q
<1>1. t \in Seq(S) /\ Len(t) = 2 /\ t[1] = a /\ t[2] = b
  BY Pair
<1>2. o \in Seq(S) /\ Len(o) = 1 /\ o[1] = a
  BY Singleton
<1>3. q \in Seq(S) /\ Len(q) = 1 /\ q[1] = b
  BY Singleton
<1> HIDE DEF t, o, q
<1>4. /\ w \in Seq(S) /\ Len(w) = Len(o) + Len(q)
      /\ \A i \in 1 .. Len(o) : w[i] = o[i]
      /\ \A i \in 1 .. Len(q) : w[Len(o) + i] = q[i]
  <2>1. o \in Seq(S) /\ q \in Seq(S)
    BY <1>2, <1>3
  <2> QED BY ONLY <2>1
<1> HIDE DEF w
<1>5. Len(w) = 2 /\ w[1] = a /\ w[2] = b
  <2>1. 1 \in 1 .. Len(o) /\ 1 \in 1 .. Len(q) /\ Len(o) + 1 = 2
    BY <1>2, <1>3
  <2> QED BY <1>2, <1>3, <1>4, <2>1
<1>6. \A i \in 1 .. 2 : t[i] = w[i]
  BY <1>1, <1>5
<1>7. t = w
  BY <1>1, <1>4, <1>5, <1>6, SeqEqual
<1> QED BY <1>7 DEF t, w, o, q
=============================================================================
