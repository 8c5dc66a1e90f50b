------------------------- MODULE PbftServiceProofs -------------------------
(***************************************************************************)
(* Pbft implements Service, for any number of replicas, faults, clients,   *)
(* requests, repeated deliveries and bad signatures, as long as the pre-   *)
(* prepares are verified in the order of their numbers: the mapping of     *)
(* PbftService takes every step of Pbft to a step of Service or to none.   *)
(*                                                                         *)
(* The log of the service is the batches of the replica that executed      *)
(* most, one after the other.  The first part is about that sequence: it   *)
(* grows as the replicas execute, and the j-th request of the k-th batch   *)
(* has its place in it.  The second part is an invariant that says of      *)
(* every reply, from the table of a replica to the results of a client, in *)
(* which place the request it answers was executed.  The third part takes  *)
(* the steps one by one.                                                   *)
(***************************************************************************)
EXTENDS PbftProofs, PbftService

-----------------------------------------------------------------------------
(***************************************************************************)
(* The batches one after the other.                                        *)
(***************************************************************************)

(* Induction on a number, as the least counterexample. *)
LEMMA LeastOne ==
  ASSUME NEW S \in SUBSET Nat, S # {}
  PROVE  \E n \in S : \A m \in S : n <= m
<1>1. PICK n \in S : \A m \in S : ~(<<m, n>> \in OpToRel(<, Nat))
  BY NatLessThanWellFounded, WFMin
<1>2. \A m \in S : ~(m < n)
  BY <1>1 DEF OpToRel
<1> QED
  BY <1>2

(* The function that FlattenSeq defines. *)
IsFlat(g, s, n) == g = [i \in 1..n |-> IF i = 1 THEN s[i] ELSE g[i - 1] \o s[i]]

LEMMA FlatExists ==
  ASSUME NEW s, NEW n \in Nat
  PROVE  \E g : IsFlat(g, s, n)
<1> SUFFICES ASSUME ~\E g : IsFlat(g, s, n) PROVE FALSE
  OBVIOUS
<1> DEFINE Bad == {m \in Nat : ~\E g : IsFlat(g, s, m)}
<1>1. PICK m \in Bad : \A k \in Bad : m <= k
  <2>1. Bad \in SUBSET Nat /\ Bad # {}
    OBVIOUS
  <2> HIDE DEF Bad
  <2> QED
    BY <2>1, LeastOne
<1>2. m # 0
  <2>1. IsFlat([i \in 1..0 |-> 0], s, 0)
    BY DEF IsFlat
  <2> QED
    BY <2>1
<1>3. m - 1 \in Nat /\ m - 1 \notin Bad
  BY <1>1, <1>2
<1>4. PICK h : IsFlat(h, s, m - 1)
  BY <1>3
<1> DEFINE g == [i \in 1..m |-> IF i = 1 THEN s[i] ELSE h[i - 1] \o s[i]]
<1>5. \A i \in 1..(m - 1) : h[i] = IF i = 1 THEN s[i] ELSE h[i - 1] \o s[i]
  BY <1>4 DEF IsFlat
<1>6. \A i \in 1..(m - 1) : g[i] = h[i]
  BY <1>3, <1>5
<1>7. \A i \in 1..m : i # 1 => g[i - 1] = h[i - 1]
  <2>1. \A i \in 1..m : i # 1 => i - 1 \in 1..(m - 1)
    BY <1>3
  <2> HIDE DEF g
  <2> QED
    BY <1>6, <2>1
<1>8. IsFlat(g, s, m)
  BY <1>7 DEF IsFlat
<1> QED
  BY <1>1, <1>8

(* It depends on the sequence that is flattened as far as it goes only. *)
LEMMA FlatUnique ==
  ASSUME NEW s, NEW t, NEW n \in Nat, NEW m \in Nat, n <= m, NEW g, NEW h,
         IsFlat(g, s, n), IsFlat(h, t, m), \A i \in 1..n : s[i] = t[i]
  PROVE  \A i \in 1..n : g[i] = h[i]
<1>1. /\ \A i \in 1..n : g[i] = IF i = 1 THEN s[i] ELSE g[i - 1] \o s[i]
      /\ \A i \in 1..m : h[i] = IF i = 1 THEN t[i] ELSE h[i - 1] \o t[i]
  BY DEF IsFlat
<1> DEFINE Bad == {i \in 1..n : g[i] # h[i]}
<1> SUFFICES ASSUME Bad # {} PROVE FALSE
  OBVIOUS
<1>2. PICK i \in Bad : \A k \in Bad : i <= k
  <2>1. Bad \in SUBSET Nat
    OBVIOUS
  <2> HIDE DEF Bad
  <2> QED
    BY <2>1, LeastOne
<1>3. i \in 1..n /\ i \in 1..m /\ g[i] # h[i] /\ s[i] = t[i]
  BY <1>2
<1>4. i # 1
  BY <1>1, <1>3
<1>5. i - 1 \in 1..n /\ i - 1 \notin Bad
  BY <1>2, <1>3, <1>4
<1>6. g[i - 1] = h[i - 1]
  BY <1>5
<1> QED
  BY <1>1, <1>3, <1>4, <1>6

LEMMA FlattenIsFlat ==
  ASSUME NEW s, Len(s) \in Nat \ {0}
  PROVE  \E g : IsFlat(g, s, Len(s)) /\ FlattenSeq(s) = g[Len(s)]
<1> DEFINE g == CHOOSE f : IsFlat(f, s, Len(s))
<1>1. IsFlat(g, s, Len(s))
  BY FlatExists
<1>2. FlattenSeq(s) = g[Len(s)]
  BY DEF FlattenSeq, IsFlat
<1> QED
  BY <1>1, <1>2

(* The first n batches of s one after the other, by recursion. *)
Flat(s, n) == FlattenSeq(SubSeq(s, 1, n))

LEMMA FlatStep ==
  ASSUME NEW S, NEW s \in Seq(S)
  PROVE  /\ Flat(s, 0) = <<>>
         /\ Flat(s, Len(s)) = FlattenSeq(s)
         /\ Len(s) >= 1 => Flat(s, 1) = s[1]
         /\ \A n \in 2..Len(s) : Flat(s, n) = Flat(s, n - 1) \o s[n]
<1>0. Len(s) \in Nat
  OBVIOUS
<1>1. Flat(s, 0) = <<>>
  <2>1. SubSeq(s, 1, 0) = <<>> /\ Len(<<>>) = 0
    OBVIOUS
  <2> QED
    BY <2>1 DEF Flat, FlattenSeq
<1>2. Flat(s, Len(s)) = FlattenSeq(s)
  <2>1. SubSeq(s, 1, Len(s)) = s
    OBVIOUS
  <2> QED
    BY <2>1 DEF Flat
<1>3. ASSUME NEW n \in 1..Len(s)
      PROVE  \E g : IsFlat(g, SubSeq(s, 1, n), n) /\ Flat(s, n) = g[n]
  <2>1. Len(SubSeq(s, 1, n)) = n /\ n \in Nat \ {0}
    BY <1>0
  <2> QED
    BY <2>1, FlattenIsFlat DEF Flat
<1>4. \A n \in 1..Len(s) : \A i \in 1..n : SubSeq(s, 1, n)[i] = s[i]
  BY <1>0
<1>5. Len(s) >= 1 => Flat(s, 1) = s[1]
  <2> SUFFICES ASSUME Len(s) >= 1 PROVE Flat(s, 1) = s[1]
    OBVIOUS
  <2>1. 1 \in 1..Len(s)
    BY <1>0
  <2>2. PICK g : IsFlat(g, SubSeq(s, 1, 1), 1) /\ Flat(s, 1) = g[1]
    BY <1>3, <2>1
  <2>3. g[1] = SubSeq(s, 1, 1)[1]
    BY <2>2 DEF IsFlat
  <2> QED
    BY <1>4, <2>1, <2>2, <2>3
<1>6. ASSUME NEW n \in 2..Len(s) PROVE Flat(s, n) = Flat(s, n - 1) \o s[n]
  <2>1. n \in 1..Len(s) /\ n - 1 \in 1..Len(s) /\ n \in Nat /\ n - 1 \in Nat /\ n - 1 <= n
        /\ n - 1 \in 1..(n - 1) /\ n \in 1..n /\ n # 1 /\ 1..(n - 1) \subseteq 1..n
    BY <1>0
  <2>2. PICK g : IsFlat(g, SubSeq(s, 1, n), n) /\ Flat(s, n) = g[n]
    BY <1>3, <2>1
  <2>3. PICK h : IsFlat(h, SubSeq(s, 1, n - 1), n - 1) /\ Flat(s, n - 1) = h[n - 1]
    BY <1>3, <2>1
  <2>4. \A i \in 1..(n - 1) : SubSeq(s, 1, n - 1)[i] = SubSeq(s, 1, n)[i]
    BY <1>4, <2>1
  <2>5. h[n - 1] = g[n - 1]
    <3> DEFINE a == SubSeq(s, 1, n - 1)
               b == SubSeq(s, 1, n)
               k == n - 1
    <3>1. k \in Nat /\ n \in Nat /\ k <= n /\ IsFlat(h, a, k) /\ IsFlat(g, b, n)
          /\ k \in 1..k /\ \A i \in 1..k : a[i] = b[i]
      BY <2>1, <2>2, <2>3, <2>4
    <3> HIDE DEF a, b, k
    <3>2. \A i \in 1..k : h[i] = g[i]
      BY <3>1, FlatUnique
    <3>3. h[k] = g[k]
      BY <3>1, <3>2
    <3> QED
      BY <3>3 DEF k
  <2>6. g[n] = g[n - 1] \o SubSeq(s, 1, n)[n]
    BY <2>1, <2>2 DEF IsFlat
  <2> QED
    BY <1>4, <2>1, <2>2, <2>3, <2>5, <2>6
<1> QED
  BY <1>1, <1>2, <1>5, <1>6

(* Batches of requests one after the other are requests, and the places of *)
(* a prefix are places of the whole.                                       *)
LEMMA FlatTyped ==
  ASSUME NEW R, NEW s \in Seq(Seq(R)), NEW n \in 0..Len(s)
  PROVE  /\ Flat(s, n) \in Seq(R)
         /\ n > 0 => Flat(s, n) = Flat(s, n - 1) \o s[n]
<1> DEFINE Bad == {k \in 0..Len(s) : Flat(s, k) \notin Seq(R)}
<1>0. Len(s) \in Nat /\ \A k \in 1..Len(s) : s[k] \in Seq(R)
  BY ElementOfSeq, LenProperties
<1>1. /\ Flat(s, 0) = <<>>
      /\ Len(s) >= 1 => Flat(s, 1) = s[1]
      /\ \A k \in 2..Len(s) : Flat(s, k) = Flat(s, k - 1) \o s[k]
  BY FlatStep
<1>2. ASSUME NEW k \in 1..Len(s)
      PROVE  Flat(s, k) = Flat(s, k - 1) \o s[k]
  <2>1. CASE k = 1
    <3>1. s[1] \in Seq(R) /\ Len(s) >= 1
      BY <1>0, <2>1
    <3>2. <<>> \o s[1] = s[1]
      BY <3>1
    <3> QED
      BY <1>1, <2>1, <3>1, <3>2
  <2>2. CASE k # 1
    <3>1. k \in 2..Len(s)
      BY <1>0, <2>2
    <3> QED
      BY <1>1, <3>1
  <2> QED
    BY <2>1, <2>2
<1>3. Bad = {}
  <2> SUFFICES ASSUME Bad # {} PROVE FALSE
    OBVIOUS
  <2>1. PICK k \in Bad : \A j \in Bad : k <= j
    <3>1. Bad \in SUBSET Nat
      BY <1>0
    <3> HIDE DEF Bad
    <3> QED
      BY <3>1, LeastOne
  <2>2. k \in 0..Len(s) /\ Flat(s, k) \notin Seq(R)
    BY <2>1
  <2>3. k # 0
    <3>1. <<>> \in Seq(R)
      OBVIOUS
    <3> QED
      BY <1>1, <2>2, <3>1
  <2>4. k - 1 \in 0..Len(s) /\ k \in 1..Len(s) /\ ~(k <= k - 1)
    BY <1>0, <2>2, <2>3
  <2>5. Flat(s, k - 1) \in Seq(R)
    BY <2>1, <2>4
  <2>6. Flat(s, k - 1) \o s[k] \in Seq(R)
    BY <1>0, <2>4, <2>5, ConcatSeq
  <2> QED
    BY <1>2, <2>2, <2>4, <2>6
<1>4. n > 0 => n \in 1..Len(s)
  BY <1>0
<1> QED
  BY <1>2, <1>3, <1>4

LEMMA FlatPrefix ==
  ASSUME NEW R, NEW s \in Seq(Seq(R)), NEW n \in 0..Len(s), NEW m \in n..Len(s)
  PROVE  /\ Len(Flat(s, n)) <= Len(Flat(s, m))
         /\ \A i \in 1..Len(Flat(s, n)) : Flat(s, m)[i] = Flat(s, n)[i]
<1>0. Len(s) \in Nat /\ n \in Nat /\ \A k \in 1..Len(s) : s[k] \in Seq(R)
  BY ElementOfSeq, LenProperties
<1> DEFINE Ok(k) == /\ Len(Flat(s, n)) <= Len(Flat(s, k))
                    /\ \A i \in 1..Len(Flat(s, n)) : Flat(s, k)[i] = Flat(s, n)[i]
           Bad == {k \in n..Len(s) : ~Ok(k)}
<1>1. \A k \in 0..Len(s) : Flat(s, k) \in Seq(R) /\ Len(Flat(s, k)) \in Nat
  BY FlatTyped, LenProperties
<1>2. Ok(n)
  BY <1>1
<1> SUFFICES ASSUME Bad # {} PROVE FALSE
  OBVIOUS
<1>3. PICK k \in Bad : \A j \in Bad : k <= j
  <2>1. Bad \in SUBSET Nat
    BY <1>0
  <2> HIDE DEF Bad
  <2> QED
    BY <2>1, LeastOne
<1> HIDE DEF Ok
<1>4. k \in n..Len(s) /\ ~Ok(k) /\ k # n
  BY <1>2, <1>3
<1>5. /\ k - 1 \in n..Len(s) /\ ~(k <= k - 1) /\ k \in 1..Len(s) /\ k - 1 \in 0..Len(s)
      /\ k \in 0..Len(s) /\ k > 0
  BY <1>0, <1>4
<1>6. Ok(k - 1)
  BY <1>3, <1>5
<1> DEFINE a == Flat(s, n)
           b == Flat(s, k - 1)
           c == Flat(s, k)
<1>7. c = b \o s[k] /\ a \in Seq(R) /\ b \in Seq(R) /\ s[k] \in Seq(R)
  BY <1>0, <1>1, <1>5, FlatTyped
<1>8. Len(a) <= Len(b) /\ \A i \in 1..Len(a) : b[i] = a[i]
  BY <1>6 DEF Ok
<1> HIDE DEF a, b, c
<1>9. Len(a) \in Nat /\ Len(b) \in Nat /\ Len(s[k]) \in Nat
  BY <1>7, LenProperties
<1>10. Len(c) = Len(b) + Len(s[k]) /\ \A i \in 1..Len(b) : c[i] = b[i]
  BY <1>7, <1>9, ConcatSeq
<1>11. Len(a) <= Len(c) /\ \A i \in 1..Len(a) : c[i] = a[i]
  BY <1>8, <1>9, <1>10
<1>12. Ok(k)
  BY <1>11 DEF Ok, a, c
<1> QED
  BY <1>4, <1>12

(* The j-th request of the k-th batch is in place Len(Flat(s, k - 1)) + j  *)
(* of the whole, and every place is such.                                  *)
LEMMA FlatPlace ==
  ASSUME NEW R, NEW s \in Seq(Seq(R)), NEW k \in 1..Len(s), NEW j \in 1..Len(s[k])
  PROVE  /\ Len(Flat(s, k - 1)) + j \in 1..Len(FlattenSeq(s))
         /\ FlattenSeq(s)[Len(Flat(s, k - 1)) + j] = s[k][j]
<1>0. Len(s) \in Nat /\ s[k] \in Seq(R) /\ k \in 0..Len(s) /\ k - 1 \in 0..Len(s) /\ k > 0
      /\ Len(s) \in k..Len(s) /\ Len(s) \in 0..Len(s)
  BY ElementOfSeq, LenProperties
<1> DEFINE b == Flat(s, k - 1)
           c == Flat(s, k)
           w == Flat(s, Len(s))
           p == Len(b) + j
<1>1. c = b \o s[k] /\ b \in Seq(R) /\ c \in Seq(R) /\ w \in Seq(R)
  BY <1>0, FlatTyped
<1>2. Len(c) <= Len(w) /\ \A i \in 1..Len(c) : w[i] = c[i]
  BY <1>0, FlatPrefix
<1>3. w = FlattenSeq(s)
  BY FlatStep
<1> HIDE DEF b, c, w
<1>4. Len(b) \in Nat /\ Len(c) \in Nat /\ Len(w) \in Nat /\ Len(s[k]) \in Nat
  BY <1>0, <1>1, LenProperties
<1>5. /\ Len(c) = Len(b) + Len(s[k])
      /\ \A i \in 1..(Len(b) + Len(s[k])) : c[i] = IF i <= Len(b) THEN b[i] ELSE s[k][i - Len(b)]
  BY <1>0, <1>1, ConcatSeq
<1>6. p \in 1..Len(c) /\ p \in 1..Len(w) /\ ~(p <= Len(b)) /\ p - Len(b) = j
  BY <1>2, <1>4, <1>5
<1>7. c[p] = s[k][j]
  BY <1>5, <1>6
<1> QED
  BY <1>2, <1>3, <1>6, <1>7 DEF b

LEMMA FlatFind ==
  ASSUME NEW R, NEW s \in Seq(Seq(R)), NEW i \in 1..Len(FlattenSeq(s))
  PROVE  \E k \in 1..Len(s) : \E j \in 1..Len(s[k]) : i = Len(Flat(s, k - 1)) + j
<1> DEFINE Good == {k \in 0..Len(s) : i <= Len(Flat(s, k))}
<1>0. Len(s) \in Nat /\ \A k \in 1..Len(s) : s[k] \in Seq(R) /\ Len(s[k]) \in Nat
  BY ElementOfSeq, LenProperties
<1>1. \A k \in 0..Len(s) : Flat(s, k) \in Seq(R) /\ Len(Flat(s, k)) \in Nat
  BY FlatTyped, LenProperties
<1>2. Len(s) \in Good /\ i \in Nat \ {0}
  <2>1. FlattenSeq(s) = Flat(s, Len(s))
    BY FlatStep
  <2>2. Len(s) \in 0..Len(s)
    BY <1>0
  <2>3. Len(FlattenSeq(s)) \in Nat
    BY <1>1, <2>1, <2>2
  <2> QED
    BY <2>1, <2>2, <2>3
<1>3. PICK k \in Good : \A m \in Good : k <= m
  <2>1. Good \in SUBSET Nat
    BY <1>0
  <2> HIDE DEF Good
  <2> QED
    BY <1>2, <2>1, LeastOne
<1>4. k \in 0..Len(s) /\ i <= Len(Flat(s, k))
  BY <1>3
<1>5. k # 0
  <2>1. Flat(s, 0) = <<>> /\ Len(<<>>) = 0
    BY FlatStep
  <2> QED
    BY <1>2, <1>4, <2>1
<1>6. k - 1 \in 0..Len(s) /\ k \in 1..Len(s) /\ ~(k <= k - 1) /\ k > 0
  BY <1>0, <1>4, <1>5
<1>7. ~(i <= Len(Flat(s, k - 1)))
  BY <1>3, <1>6
<1> DEFINE b == Flat(s, k - 1)
           j == i - Len(b)
<1>8. Flat(s, k) = b \o s[k] /\ b \in Seq(R)
  BY <1>1, <1>4, <1>6, FlatTyped
<1> HIDE DEF b
<1>9. Len(b) \in Nat /\ Len(s[k]) \in Nat /\ Len(b \o s[k]) = Len(b) + Len(s[k])
  BY <1>0, <1>6, <1>8, ConcatSeq, LenProperties
<1>10. j \in 1..Len(s[k]) /\ i = Len(b) + j
  <2> DEFINE n == Len(b)
             m == Len(s[k])
  <2>1. n \in Nat /\ m \in Nat /\ i <= n + m /\ ~(i <= n) /\ i \in Nat
    BY <1>2, <1>4, <1>7, <1>8, <1>9 DEF b
  <2> HIDE DEF n, m
  <2>2. i - n \in 1..m /\ i = n + (i - n)
    BY <2>1
  <2> QED
    BY <2>2 DEF n, m
<1> QED
  BY <1>6, <1>10 DEF b

-----------------------------------------------------------------------------
(***************************************************************************)
(* Where what a reply says was executed.                                   *)
(***************************************************************************)

Prefix(a, b) == Len(a) <= Len(b) /\ \A i \in 1..Len(a) : b[i] = a[i]

(* The result is that of the request q, at its place in the batches a. *)
AnswersTo(result, q, a) ==
  \E k \in 1..Len(a) : \E j \in 1..Len(a[k]) :
     result = [history |-> SubSeq(a, 1, k), index |-> j] /\ a[k][j] = q

(* No request is twice in the batches a. *)
Once(a) ==
  \A k \in 1..Len(a) : \A m \in 1..Len(a) : \A i \in 1..Len(a[k]) : \A j \in 1..Len(a[m]) :
     a[k][i] = a[m][j] => k = m /\ i = j

LEMMA SamePrefix ==
  ASSUME NEW S, NEW a \in Seq(S), NEW b \in Seq(S), Prefix(a, b), NEW n \in 0..Len(a)
  PROVE  SubSeq(a, 1, n) = SubSeq(b, 1, n)
<1>1. Len(a) \in Nat /\ Len(b) \in Nat /\ Len(a) <= Len(b)
  BY LenProperties DEF Prefix
<1>2. \A i \in 1..n : a[i] = b[i]
  BY <1>1 DEF Prefix
<1>3. /\ SubSeq(a, 1, n) \in Seq(S) /\ SubSeq(b, 1, n) \in Seq(S)
      /\ Len(SubSeq(a, 1, n)) = n /\ Len(SubSeq(b, 1, n)) = n
      /\ \A i \in 1..n : SubSeq(a, 1, n)[i] = a[i] /\ SubSeq(b, 1, n)[i] = b[i]
  BY <1>1
<1> DEFINE x == SubSeq(a, 1, n)
           y == SubSeq(b, 1, n)
<1>4. x \in Seq(S) /\ y \in Seq(S) /\ Len(x) = Len(y) /\ \A i \in 1..Len(x) : x[i] = y[i]
  BY <1>2, <1>3
<1> HIDE DEF x, y
<1>5. x = y
  BY <1>4, SeqEqual
<1> QED
  BY <1>5 DEF x, y

LEMMA AnswersKept ==
  ASSUME NEW S, NEW a \in Seq(S), NEW b \in Seq(S), Prefix(a, b), NEW result, NEW q, AnswersTo(result, q, a)
  PROVE  AnswersTo(result, q, b)
<1>0. PICK k \in 1..Len(a) : \E j \in 1..Len(a[k]) :
         result = [history |-> SubSeq(a, 1, k), index |-> j] /\ a[k][j] = q
  BY DEF AnswersTo
<1>1. PICK j \in 1..Len(a[k]) : result = [history |-> SubSeq(a, 1, k), index |-> j] /\ a[k][j] = q
  BY <1>0
<1>2. Len(a) \in Nat /\ Len(b) \in Nat /\ Len(a) <= Len(b)
  BY LenProperties DEF Prefix
<1>3. k \in 1..Len(b) /\ k \in 0..Len(a) /\ b[k] = a[k]
  BY <1>2 DEF Prefix
<1>4. SubSeq(a, 1, k) = SubSeq(b, 1, k)
  BY <1>3, SamePrefix
<1> QED
  BY <1>1, <1>3, <1>4 DEF AnswersTo

(* A result says its place. *)
LEMMA AnswerPlace ==
  ASSUME NEW R, NEW a \in Seq(Seq(R)), NEW result, NEW q, AnswersTo(result, q, a)
  PROVE  Place(result) \in 1..Len(FlattenSeq(a)) /\ FlattenSeq(a)[Place(result)] = q
<1>0. PICK k \in 1..Len(a) : \E j \in 1..Len(a[k]) :
         result = [history |-> SubSeq(a, 1, k), index |-> j] /\ a[k][j] = q
  BY DEF AnswersTo
<1>1. PICK j \in 1..Len(a[k]) : result = [history |-> SubSeq(a, 1, k), index |-> j] /\ a[k][j] = q
  BY <1>0
<1>2. Len(a) \in Nat /\ k \in Nat \ {0}
  BY LenProperties
<1>3. Front(SubSeq(a, 1, k)) = SubSeq(a, 1, k - 1)
  <2> DEFINE x == SubSeq(a, 1, k)
             S == Seq(R)
  <2>1. a \in Seq(S) /\ Len(x) = k /\ x \in Seq(S) /\ k - 1 \in 0..Len(x)
    BY <1>2
  <2>2. Prefix(x, a)
    BY <1>2, <2>1 DEF Prefix
  <2> HIDE DEF x, S
  <2>3. SubSeq(x, 1, k - 1) = SubSeq(a, 1, k - 1)
    BY <2>1, <2>2, SamePrefix
  <2>4. Front(x) = SubSeq(x, 1, k - 1)
    BY <2>1 DEF Front
  <2> QED
    BY <2>3, <2>4 DEF x
<1>4. Place(result) = Len(Flat(a, k - 1)) + j
  BY <1>1, <1>3 DEF Place, Flat
<1>5. /\ Len(Flat(a, k - 1)) + j \in 1..Len(FlattenSeq(a))
      /\ FlattenSeq(a)[Len(Flat(a, k - 1)) + j] = a[k][j]
  BY FlatPlace
<1> QED
  BY <1>1, <1>4, <1>5

LEMMA FlatGrows ==
  ASSUME NEW R, NEW a \in Seq(Seq(R)), NEW b \in Seq(Seq(R)), Prefix(a, b)
  PROVE  Prefix(FlattenSeq(a), FlattenSeq(b))
<1>1. Len(a) \in Nat /\ Len(b) \in Nat /\ Len(a) <= Len(b)
  BY LenProperties DEF Prefix
<1>2. Len(a) \in 0..Len(b) /\ Len(b) \in Len(a)..Len(b) /\ Len(a) \in 0..Len(a)
  BY <1>1
<1>3. SubSeq(a, 1, Len(a)) = SubSeq(b, 1, Len(a))
  <2> DEFINE S == Seq(R)
  <2>1. a \in Seq(S) /\ b \in Seq(S)
    OBVIOUS
  <2> HIDE DEF S
  <2> QED
    BY <1>2, <2>1, SamePrefix
<1>4. FlattenSeq(a) = Flat(a, Len(a))
  BY FlatStep
<1>5. FlattenSeq(b) = Flat(b, Len(b))
  BY FlatStep
<1>6. Flat(a, Len(a)) = Flat(b, Len(a))
  BY <1>3 DEF Flat
<1>7. /\ Len(Flat(b, Len(a))) <= Len(Flat(b, Len(b)))
      /\ \A i \in 1..Len(Flat(b, Len(a))) : Flat(b, Len(b))[i] = Flat(b, Len(a))[i]
  BY <1>2, FlatPrefix
<1> QED
  BY <1>4, <1>5, <1>6, <1>7 DEF Prefix

LEMMA FlatOnce ==
  ASSUME NEW R, NEW a \in Seq(Seq(R)), Once(a)
  PROVE  \A x, y \in 1..Len(FlattenSeq(a)) : FlattenSeq(a)[x] = FlattenSeq(a)[y] => x = y
<1> SUFFICES ASSUME NEW x \in 1..Len(FlattenSeq(a)), NEW y \in 1..Len(FlattenSeq(a)),
                    FlattenSeq(a)[x] = FlattenSeq(a)[y]
             PROVE  x = y
  OBVIOUS
<1>a. PICK k \in 1..Len(a) : \E i \in 1..Len(a[k]) : x = Len(Flat(a, k - 1)) + i
  BY FlatFind
<1>b. PICK m \in 1..Len(a) : \E j \in 1..Len(a[m]) : y = Len(Flat(a, m - 1)) + j
  BY FlatFind
<1>1. PICK i \in 1..Len(a[k]) : x = Len(Flat(a, k - 1)) + i
  BY <1>a
<1>2. PICK j \in 1..Len(a[m]) : y = Len(Flat(a, m - 1)) + j
  BY <1>b
<1>3. FlattenSeq(a)[x] = a[k][i]
  BY <1>1, FlatPlace
<1>4. FlattenSeq(a)[y] = a[m][j]
  BY <1>2, FlatPlace
<1>5. k = m /\ i = j
  <2>1. a[k][i] = a[m][j]
    BY <1>3, <1>4
  <2> QED
    BY <2>1 DEF Once
<1> QED
  BY <1>1, <1>2, <1>5

-----------------------------------------------------------------------------
(***************************************************************************)
(* What the replies say, wherever they are.                                *)
(***************************************************************************)

RequestOf(c, n) == [client |-> c, seq |-> n]

(* What the table of s and the replies of r on their way say is at its     *)
(* place in what the replica executed.                                     *)
TableTrue(s) ==
  \A c \in Clients : s.replies[c].reply # None =>
    AnswersTo(s.replies[c].reply, RequestOf(c, s.replies[c].seq), s.app)

ReplyTrue(m, rep) == AnswersTo(m.result, RequestOf(m.client, m.seq), rep[m.from].app)

(* A client has one result for each of its calls but the one under way,    *)
(* and each is the true one.                                               *)
ResultsTrue(c, rep) ==
  /\ Len(results[c]) = IF invoke[c] = None THEN seq[c] ELSE seq[c] - 1
  /\ \A i \in 1..Len(results[c]) : \E r \in Replicas :
        AnswersTo(results[c][i], RequestOf(c, i), rep[r].app)

RInv ==
  /\ \A r \in Replicas : TableTrue(replica[r])
  /\ \A m \in toClient : ReplyTrue(m, replica)
  /\ \A c \in Clients : ResultsTrue(c, replica)

(* What a handler of r tells that takes it to t: it goes on executing, and *)
(* what it notes and sends is true.                                        *)
Tells(s, t) ==
  /\ Prefix(s.app, t.app)
  /\ \A c \in Clients : t.replies[c].reply # None =>
        t.replies[c] = s.replies[c] \/ AnswersTo(t.replies[c].reply, RequestOf(c, t.replies[c].seq), t.app)

Speaks(r, t) ==
  /\ UNCHANGED <<seq, invoke, results>> /\ Becomes(r, t) /\ Tells(replica[r], t)
  /\ \A m \in toClient' : m \in toClient \/ (m.from = r /\ AnswersTo(m.result, RequestOf(m.client, m.seq), t.app))

AppsTyped == \A r \in Replicas : replica[r].app \in Seq(Batches)

LEMMA AppsAre == ASSUME IInv PROVE AppsTyped
<1> SUFFICES ASSUME NEW r \in Replicas PROVE replica[r].app \in Seq(Batches)
  BY DEF AppsTyped
<1>1. replica[r].app \in Seq(Seq(TheWorld.req))
  BY DEF IInv, Local, AppRight
<1>2. TheWorld.req \subseteq Requests
  BY WorldOfRight DEF TheWorld, World
<1>3. Seq(TheWorld.req) \subseteq Batches
  BY <1>2, SeqMonotone DEF Batches
<1>4. Seq(Seq(TheWorld.req)) \subseteq Seq(Batches)
  BY <1>3, SeqMonotone
<1> QED
  BY <1>1, <1>4

LEMMA SameTells ==
  ASSUME NEW s, NEW t, t.app = s.app, t.replies = s.replies, Len(s.app) \in Nat
  PROVE  Tells(s, t)
  BY DEF Tells, Prefix

LEMMA TellsTransitive ==
  ASSUME NEW S, NEW s, NEW t, NEW u, s.app \in Seq(S), t.app \in Seq(S), u.app \in Seq(S),
         Tells(s, t), Tells(t, u)
  PROVE  Tells(s, u)
<1>1. Prefix(s.app, u.app)
  <2>1. Len(s.app) \in Nat /\ Len(t.app) \in Nat /\ Len(u.app) \in Nat
    BY LenProperties
  <2> QED
    BY <2>1 DEF Tells, Prefix
<1>2. ASSUME NEW c \in Clients, u.replies[c].reply # None, u.replies[c] # s.replies[c]
      PROVE  AnswersTo(u.replies[c].reply, RequestOf(c, u.replies[c].seq), u.app)
  <2>1. CASE u.replies[c] = t.replies[c]
    <3>1. AnswersTo(u.replies[c].reply, RequestOf(c, u.replies[c].seq), t.app)
      BY <1>2, <2>1 DEF Tells
    <3>2. Prefix(t.app, u.app)
      BY DEF Tells
    <3> QED
      BY <3>1, <3>2, AnswersKept
  <2>2. CASE u.replies[c] # t.replies[c]
    BY <1>2, <2>2 DEF Tells
  <2> QED
    BY <2>1, <2>2
<1> QED
  BY <1>1, <1>2 DEF Tells

(* The invariant is kept when a replica speaks.                            *)
LEMMA SpeaksTrue ==
  ASSUME IInv, IInv', RInv, NEW r \in Replicas, NEW t, Speaks(r, t)
  PROVE  RInv'
<1>1. \A d \in Replicas : replica[d].app \in Seq(Batches) /\ replica'[d].app \in Seq(Batches)
  <2>1. AppsTyped /\ AppsTyped'
    <3>1. AppsTyped
      BY AppsAre
    <3>2. AppsTyped'
      BY AppsAre, PTL
    <3> QED
      BY <3>1, <3>2
  <2> QED
    BY <2>1 DEF AppsTyped
<1>2. \A d \in Replicas : replica'[d] = IF d = r THEN t ELSE replica[d]
  BY DEF Speaks, Becomes
<1>3. ASSUME NEW d \in Replicas PROVE Prefix(replica[d].app, replica'[d].app)
  <2>1. Len(replica[d].app) \in Nat
    BY <1>1, LenProperties
  <2>2. d = r => Prefix(replica[d].app, t.app)
    BY DEF Speaks, Tells
  <2>3. Prefix(replica[d].app, replica[d].app)
    BY <2>1 DEF Prefix
  <2> QED
    BY <1>2, <2>2, <2>3
<1>4. ASSUME NEW d \in Replicas, NEW result, NEW q, AnswersTo(result, q, replica[d].app)
      PROVE  AnswersTo(result, q, replica'[d].app)
  BY <1>1, <1>3, <1>4, AnswersKept
<1>5. ASSUME NEW d \in Replicas PROVE TableTrue(replica'[d])
  <2>1. CASE d # r
    BY <1>2, <2>1 DEF RInv
  <2>2. CASE d = r
    <3> SUFFICES ASSUME NEW c \in Clients, t.replies[c].reply # None
                 PROVE  AnswersTo(t.replies[c].reply, RequestOf(c, t.replies[c].seq), t.app)
      BY <1>2, <2>2 DEF TableTrue
    <3>1. CASE t.replies[c] = replica[r].replies[c]
      <4>1. AnswersTo(t.replies[c].reply, RequestOf(c, t.replies[c].seq), replica[r].app)
        BY <3>1 DEF RInv, TableTrue
      <4> QED
        BY <1>2, <1>4, <4>1
    <3>2. CASE t.replies[c] # replica[r].replies[c]
      BY <3>2 DEF Speaks, Tells
    <3> QED
      BY <3>1, <3>2
  <2> QED
    BY <2>1, <2>2
<1>6. ASSUME NEW m \in toClient' PROVE ReplyTrue(m, replica')
  <2>1. CASE m \in toClient
    <3>1. m.from \in Replicas
      BY <2>1, ReplicasAssumption DEF IInv, RepliesRight
    <3>2. AnswersTo(m.result, RequestOf(m.client, m.seq), replica[m.from].app)
      BY <2>1 DEF RInv, ReplyTrue
    <3> QED
      BY <1>4, <3>1, <3>2 DEF ReplyTrue
  <2>2. CASE m.from = r /\ AnswersTo(m.result, RequestOf(m.client, m.seq), t.app)
    BY <1>2, <2>2 DEF ReplyTrue
  <2> QED
    BY <2>1, <2>2 DEF Speaks
<1>7. ASSUME NEW c \in Clients PROVE ResultsTrue(c, replica)'
  <2>1. UNCHANGED <<seq, invoke, results>> /\ ResultsTrue(c, replica)
    BY DEF Speaks, RInv
  <2>2. ASSUME NEW i \in 1..Len(results[c])
        PROVE  \E d \in Replicas : AnswersTo(results[c][i], RequestOf(c, i), replica'[d].app)
    <3>1. PICK d \in Replicas : AnswersTo(results[c][i], RequestOf(c, i), replica[d].app)
      BY <2>1 DEF ResultsTrue
    <3> QED
      BY <1>4, <3>1
  <2> QED
    BY <2>1, <2>2 DEF ResultsTrue
<1> QED
  BY <1>5, <1>6, <1>7 DEF RInv

-----------------------------------------------------------------------------
(***************************************************************************)
(* Every handler speaks the truth.                                         *)
(***************************************************************************)

LEMMA ExecutedAnswers ==
  ASSUME NEW s, Len(s.app) \in Nat, NEW first \in Nat \ {0}, NEW e \in Executed(s, first),
         Len(s.app[e[1]]) \in Nat
  PROVE  AnswersTo(Result(s, e), RequestAt(s, e), s.app)
<1> DEFINE k == e[1]
           j == e[2]
<1>1. k \in first..Len(s.app) /\ j \in 1..MaxBatch /\ j <= Len(s.app[k])
  BY DEF Executed
<1>2. /\ Result(s, e) = [history |-> SubSeq(s.app, 1, k), index |-> j]
      /\ RequestAt(s, e) = s.app[k][j]
  BY DEF Result, RequestAt
<1>3. Len(s.app[k]) \in Nat
  OBVIOUS
<1> HIDE DEF k, j
<1>4. k \in 1..Len(s.app) /\ j \in 1..Len(s.app[k])
  BY <1>1, <1>3, BoundsAssumption
<1> QED
  BY <1>2, <1>4 DEF AnswersTo

(* The first loop of insert_commit.                                        *)
LEMMA ExecuteTells ==
  ASSUME NEW M, World(M), NEW r, NEW s, Local(s, r, M)
  PROVE  Tells(s, Execute(s))
<1> DEFINE t == Execute(s)
<1>1. ExecutesTo(s, t) /\ Local(t, r, M) /\ Len(s.app) \in Nat
  BY ExecuteRight
<1> HIDE DEF t
<1>2. t.app \in Seq(Seq(M.req)) /\ M.req \subseteq Requests
  BY <1>1 DEF Local, AppRight, World
<1>3. Prefix(s.app, t.app)
  <2>1. Len(t.app) \in Nat /\ Len(s.app) <= Len(t.app)
    BY <1>1, <1>2, LenProperties DEF ExecutesTo
  <2>2. \A i \in 1..Len(s.app) : t.app[i] = s.app[i]
    BY <1>1, <2>1 DEF ExecutesTo
  <2> QED
    BY <2>1, <2>2 DEF Prefix
<1>4. ASSUME NEW c \in Clients, t.replies[c] # s.replies[c]
      PROVE  AnswersTo(t.replies[c].reply, RequestOf(c, t.replies[c].seq), t.app)
  <2> DEFINE first == Len(s.app) + 1
  <2>1. PICK e \in Executed(t, first) :
           /\ RequestAt(t, e).client = c
           /\ t.replies[c] = [seq |-> RequestAt(t, e).seq, reply |-> Result(t, e)]
    BY <1>1, <1>4 DEF ExecutesTo, Answers
  <2>2. first \in Nat \ {0}
    BY <1>1
  <2> HIDE DEF first
  <2>3. RequestAt(t, e) \in M.req /\ e[1] \in first..Len(t.app) /\ Len(t.app) \in Nat
    BY <1>2, <2>2, ExecutedFacts
  <2>4. t.app[e[1]] \in Seq(M.req)
    BY <1>2, <2>2, <2>3, ElementOfSeq
  <2>5. AnswersTo(Result(t, e), RequestAt(t, e), t.app)
    BY <2>2, <2>3, <2>4, LenProperties, ExecutedAnswers
  <2>6. RequestAt(t, e) = RequestOf(c, t.replies[c].seq)
    BY <1>2, <2>1, <2>3 DEF Requests, RequestOf
  <2> QED
    BY <2>1, <2>5, <2>6
<1>5. Tells(s, t)
  BY <1>3, <1>4 DEF Tells
<1> QED
  BY <1>5 DEF t

(* The replies that insert_commit sends.                                   *)
LEMMA SentAnswers ==
  ASSUME IInv, NEW r \in Alive, NEW s, NEW u, Local(u, r, TheWorld), Len(s.app) \in Nat,
         NEW m \in Replies(r, s, u)
  PROVE  m.from = r /\ AnswersTo(m.result, RequestOf(m.client, m.seq), u.app)
<1> DEFINE first == Len(s.app) + 1
           R == TheWorld.req
<1>1. R \subseteq Requests /\ u.app \in Seq(Seq(R)) /\ first \in Nat \ {0}
  <2>1. R \subseteq Requests
    BY Here DEF InvokedBy
  <2>2. u.app \in Seq(Seq(R))
    BY DEF Local, AppRight
  <2> QED
    BY <2>1, <2>2
<1>2. PICK e \in Executed(u, first) :
         m = [client |-> RequestAt(u, e).client, seq |-> RequestAt(u, e).seq,
              result |-> Result(u, e), from |-> r]
  BY DEF Replies
<1> HIDE DEF R, first
<1>3. RequestAt(u, e) \in R /\ e[1] \in first..Len(u.app) /\ Len(u.app) \in Nat
  BY <1>1, ExecutedFacts
<1>4. u.app[e[1]] \in Seq(R)
  BY <1>1, <1>3, ElementOfSeq
<1>5. AnswersTo(Result(u, e), RequestAt(u, e), u.app)
  BY <1>1, <1>3, <1>4, LenProperties, ExecutedAnswers
<1>6. RequestAt(u, e) = RequestOf(m.client, m.seq)
  BY <1>1, <1>2, <1>3 DEF Requests, RequestOf
<1> QED
  BY <1>2, <1>5, <1>6

LEMMA CloseBatchesSay ==
  ASSUME NEW s, DOMAIN s = Fields, NEW r
  PROVE  CloseBatches(s, r).app = s.app /\ CloseBatches(s, r).replies = s.replies
<1>1. \A k : CloseBatch(s, k).app = s.app /\ CloseBatch(s, k).replies = s.replies
  BY DEF CloseBatch, Fields
<1> QED
  BY <1>1 DEF CloseBatches

LEMMA InsertCommitTells ==
  ASSUME IInv, NEW r \in Replicas, NEW s, Local(s, r, TheWorld), NEW p \in TheWorld.com,
         HasEntry(s, p.op) /\ s.log[p.op].committed =>
            Quorum(s.commits, p.op) = {} /\ Verifying(s, "Commit", p.op) = {}
  PROVE  Tells(s, InsertCommit(s, r, p))
<1> DEFINE M == TheWorld
           Q == Inserted(s.commits, p)
           t == InsertCommit(s, r, p)
<1>0. World(M)
  BY WorldOfRight DEF TheWorld
<1> HIDE DEF M
<1>1. /\ Q \subseteq M.com /\ OnePerSender(Q)
      /\ p \in Q
      /\ \A op : op # p.op => Quorum(Q, op) = Quorum(s.commits, op)
      /\ Quorum(s.commits, p.op) = {} => Quorum(Q, p.op) = {p}
  <2>1. s.commits \subseteq M.com /\ OnePerSender(s.commits) /\ p \in M.com
    BY DEF Local, Quorums, M
  <2> QED
    BY <2>1, InsertedFacts
<1>2. p \in Votes("Commit", Replicas, M.req)
  BY <1>0 DEF World, M
<1>3. p.op \in Nat \ {0}
  BY <1>2 DEF Votes
<1>4. DOMAIN s = Fields /\ Len(s.log) \in Nat /\ Len(s.app) \in Nat
  BY LenProperties DEF Local, LogRight, AppRight, M
<1>5. HasCommitQuorum(Q, p.op) /\ HasEntry(s, p.op) => ~s.log[p.op].committed
  BY <1>1, OneIsNoQuorum
<1>6. CASE ~(HasCommitQuorum(Q, p.op) /\ HasEntry(s, p.op) /\ s.log[p.op].prepared)
  <2>1. t = [s EXCEPT !.commits = Q]
    BY <1>5, <1>6 DEF InsertCommit
  <2> HIDE DEF Q
  <2>2. t.app = s.app /\ t.replies = s.replies
    BY <1>4, <2>1 DEF Fields
  <2> QED
    BY <1>4, <2>2, SameTells
<1>7. CASE HasCommitQuorum(Q, p.op) /\ HasEntry(s, p.op) /\ s.log[p.op].prepared
  <2> DEFINE u == WithCommitted(s, Q, p.op)
  <2>1. t = CloseBatches(Execute(u), r)
    BY <1>5, <1>7 DEF InsertCommit, SetCommitted, WithCommitted
  <2>2. p.op \in 1..Len(s.log)
    BY <1>3, <1>4, <1>7 DEF HasEntry
  <2> HIDE DEF t, Q
  <2>3. Local(u, r, M)
    BY <1>0, <1>1, <1>7, <2>2, CommittedRight DEF M
  <2>4. u.app = s.app /\ u.replies = s.replies
    BY <1>4 DEF WithCommitted, Fields
  <2> HIDE DEF u
  <2> DEFINE x == Execute(u)
  <2>5. Tells(u, x)
    BY <1>0, <2>3, ExecuteTells
  <2>6. Local(x, r, M)
    BY <1>0, <2>3, ExecuteRight
  <2> HIDE DEF x
  <2>7. DOMAIN x = Fields
    BY <2>6 DEF Local
  <2>8. t.app = x.app /\ t.replies = x.replies
    BY <2>1, <2>7, CloseBatchesSay DEF x
  <2>9. Tells(s, t)
    BY <2>4, <2>5, <2>8 DEF Tells
  <2> QED
    BY <2>9 DEF t
<1> QED
  BY <1>6, <1>7

(* A handler that executes nothing and replies nothing. *)
LEMMA QuietSpeaks ==
  ASSUME IInv, NEW r \in Replicas, NEW t, UNCHANGED <<seq, invoke, results>>, toClient' = toClient,
         Becomes(r, t), t.app = replica[r].app, t.replies = replica[r].replies
  PROVE  Speaks(r, t)
<1>1. Len(replica[r].app) \in Nat
  BY LenProperties DEF IInv, Local, AppRight
<1>2. Tells(replica[r], t)
  BY <1>1, SameTells
<1> QED
  BY <1>2 DEF Speaks

LEMMA RecvRequestSpeaks ==
  ASSUME IInv, RInv, NEW r \in Alive, NEW e \in toReplica, RecvRequest(r, e)
  PROVE  \E t : Speaks(r, t)
<1>1. /\ r \in Replicas /\ World(TheWorld) /\ Local(replica[r], r, TheWorld) /\ TheWorld.req = InvokedBy(seq)
  BY Here
<1>2. e.dst = r /\ e.body.type = "Request" /\ UNCHANGED <<seq, invoke, results>>
  <2>1. Receive(r, e, "Request")
    BY Zenon DEF RecvRequest
  <2> QED
    BY <2>1 DEF Receive
<1> DEFINE q == e.body.req
           s == replica[r]
           stored == s.replies[q.client]
           t == IF Known(s, q) THEN s ELSE IF IsPrimary(r) THEN Accept(s, q) ELSE Panic(s)
           answer == [client |-> q.client, seq |-> q.seq, result |-> stored.reply, from |-> r]
<1>3. \/ toClient' = toClient
      \/ q.seq = stored.seq /\ stored.reply # None /\ toClient' = toClient \cup {answer}
  BY DEF RecvRequest
<1>4. Becomes(r, t)
  <2>1. replica' = [replica EXCEPT ![r] = t]
    BY DEF RecvRequest
  <2> HIDE DEF t
  <2> QED
    BY <1>1, <2>1, BecomesBy
<1>5. q \in TheWorld.req /\ IsPrimary(r)
  BY <1>1, <1>2, MessageTypes DEF IInv, NetRight, MessageRight, IsPrimary
<1>6. q.client \in Clients
  BY <1>1, <1>5 DEF InvokedBy, Requests
<1>7. DOMAIN s = Fields /\ Len(s.app) \in Nat /\ s.replies \in [Clients -> [seq : Nat, reply : Results \cup {None}]]
  BY <1>1, LenProperties DEF Local, AppRight, Queue, RepliesTyped
<1>8. t.app = s.app /\ \A c \in Clients : t.replies[c].reply # None => t.replies[c] = s.replies[c]
  <2>1. \A v, k : DOMAIN v = Fields => CloseBatch(v, k).app = v.app /\ CloseBatch(v, k).replies = v.replies
    BY DEF CloseBatch, Fields
  <2> DEFINE v == [s EXCEPT !.replies[q.client] = [seq |-> q.seq, reply |-> None], !.requests = Append(@, q)]
  <2>2. DOMAIN v = Fields /\ v.app = s.app
        /\ v.replies = [s.replies EXCEPT ![q.client] = [seq |-> q.seq, reply |-> None]]
    BY <1>7 DEF Fields
  <2>3. Accept(s, q) \in {v, CloseBatch(v, 1)}
    BY DEF Accept
  <2> HIDE DEF v
  <2>4. Accept(s, q).app = s.app /\ Accept(s, q).replies = [s.replies EXCEPT ![q.client] = [seq |-> q.seq, reply |-> None]]
    BY <2>1, <2>2, <2>3
  <2> HIDE DEF q
  <2>5. \A c \in Clients : c # q.client => Accept(s, q).replies[c] = s.replies[c]
    BY <1>6, <1>7, <2>4
  <2>6. Accept(s, q).replies[q.client].reply = None
    BY <1>6, <1>7, <2>4
  <2> QED
    BY <1>5, <2>4, <2>5, <2>6
<1>9. Tells(s, t)
  <2>1. Prefix(s.app, t.app)
    <3> HIDE DEF t, s
    <3> QED
      BY <1>7, <1>8 DEF Prefix
  <2> HIDE DEF t, s
  <2> QED
    BY <1>8, <2>1 DEF Tells
<1>10. ASSUME q.seq = stored.seq, stored.reply # None
       PROVE  answer.from = r /\ AnswersTo(answer.result, RequestOf(answer.client, answer.seq), t.app)
  BY <1>1, <1>6, <1>8, <1>10 DEF RInv, TableTrue
<1>11. \A m \in toClient' :
          m \in toClient \/ (m.from = r /\ AnswersTo(m.result, RequestOf(m.client, m.seq), t.app))
  <2> HIDE DEF answer, t, stored, q
  <2> QED
    BY <1>3, <1>10
<1> HIDE DEF t
<1> QED
  BY <1>2, <1>4, <1>9, <1>11 DEF Speaks

LEMMA RecvVoteSpeaks ==
  ASSUME IInv, NEW r \in Alive, NEW e \in toReplica,
         RecvPrePrepare(r, e) \/ RecvPrepare(r, e) \/ RecvCommit(r, e)
  PROVE  \E t : Speaks(r, t)
<1> DEFINE s == replica[r]
<1>1. r \in Replicas /\ DOMAIN s = Fields
  BY Here DEF Local
<1>2. CASE RecvPrePrepare(r, e)
  <2> DEFINE t == IF HasBatch(s, e.body.op) THEN s ELSE [s EXCEPT !.tasks = @ \cup {Verify(e.body)}]
  <2>1. UNCHANGED <<seq, invoke, results>> /\ toClient' = toClient
    BY <1>2 DEF RecvPrePrepare, Receive
  <2>2. Becomes(r, t)
    <3>1. CASE HasBatch(s, e.body.op)
      BY <1>1, <1>2, <3>1 DEF RecvPrePrepare, IInv, Becomes
    <3>2. CASE ~HasBatch(s, e.body.op)
      BY <1>1, <1>2, <3>2 DEF RecvPrePrepare, IInv, Becomes
    <3> QED
      BY <3>1, <3>2
  <2>3. t.app = s.app /\ t.replies = s.replies
    BY <1>1 DEF Fields
  <2> HIDE DEF t
  <2> QED
    BY <1>1, <2>1, <2>2, <2>3, QuietSpeaks
<1>3. CASE RecvPrepare(r, e) \/ RecvCommit(r, e)
  <2>1. UNCHANGED <<seq, invoke, results>> /\ toClient' = toClient
    BY <1>3 DEF RecvPrepare, RecvCommit, Receive
  <2>2. PICK t \in {PushPrepare(s, e.body), PushCommit(s, e.body)} : replica' = [replica EXCEPT ![r] = t]
    BY <1>3 DEF RecvPrepare, RecvCommit
  <2>3. t.app = s.app /\ t.replies = s.replies
    BY <1>1, PushSame DEF Same
  <2> QED
    BY <1>1, <2>1, <2>2, <2>3, BecomesBy, QuietSpeaks
<1> QED
  BY <1>2, <1>3

LEMMA PrePrepareSpeaks ==
  ASSUME IInv, NEW r \in Alive, NEW x \in replica[r].tasks, SignedPrePrepare(r, x) \/ VerifiedPrePrepare(r, x)
  PROVE  \E t : Speaks(r, t)
<1> DEFINE s == Done(r, x)
           op == x.msg.op
           Retained(quorums) == {q \in quorums : q.op = op => q.digest = x.msg.digest}
           v == [s EXCEPT !.log = [Resize(@, op) EXCEPT ![op].batch = x.msg.digest]]
           w == [s EXCEPT !.log = [Resize(@, op) EXCEPT ![op].batch = x.msg.digest],
                          !.tasks = @ \cup {Sign(Prepare(op, x.msg.digest, r))},
                          !.prepares = Retained(@),
                          !.commits = Retained(@)]
<1>1. r \in Replicas /\ DOMAIN s = Fields /\ s.app = replica[r].app /\ s.replies = replica[r].replies
  <2>1. DOMAIN replica[r] = Fields /\ r \in Replicas
    BY Here DEF Local
  <2> QED
    BY <2>1 DEF Done, Fields
<1>2. UNCHANGED <<seq, invoke, results>> /\ toClient' = toClient
  BY DEF SignedPrePrepare, VerifiedPrePrepare, Finish
<1>3. PICK t \in {s, v, w, Panic(s)} : replica' = [replica EXCEPT ![r] = t]
  BY DEF SignedPrePrepare, VerifiedPrePrepare
<1> HIDE DEF s
<1>4. /\ v.app = s.app /\ v.replies = s.replies /\ w.app = s.app /\ w.replies = s.replies
      /\ Panic(s).app = s.app /\ Panic(s).replies = s.replies
  BY <1>1 DEF Panic, Fields
<1> HIDE DEF v, w
<1>5. t.app = replica[r].app /\ t.replies = replica[r].replies
  BY <1>1, <1>3, <1>4
<1> QED
  BY <1>1, <1>2, <1>3, <1>5, BecomesBy, QuietSpeaks

LEMMA PrepareSpeaks ==
  ASSUME IInv, NEW r \in Alive, NEW x \in replica[r].tasks, SignedPrepare(r, x) \/ VerifiedPrepare(r, x)
  PROVE  \E t : Speaks(r, t)
<1> DEFINE s == Done(r, x)
           p == x.msg
           v == InsertPrepare(s, r, p)
           u == PopPrepare(v, p.op)
<1>1. r \in Replicas /\ s.app = replica[r].app /\ s.replies = replica[r].replies
  <2>1. DOMAIN replica[r] = Fields /\ r \in Replicas
    BY Here DEF Local
  <2> QED
    BY <2>1 DEF Done, Fields
<1>2. UNCHANGED <<seq, invoke, results>> /\ toClient' = toClient /\ p.type = "Prepare"
  BY DEF SignedPrepare, VerifiedPrepare, Finish
<1>3. p.op \in Nat \ {0} /\ Local(s, r, TheWorld)
  BY <1>2, TaskIs, DoneRight
<1>4. v.app = s.app /\ v.replies = s.replies
  BY <1>3, InsertPrepareSame DEF Same
<1>5. CASE SignedPrepare(r, x)
  <2>1. PICK t \in {s, v} : replica' = [replica EXCEPT ![r] = t]
    BY <1>5 DEF SignedPrepare
  <2> HIDE DEF s, v
  <2>2. t.app = replica[r].app /\ t.replies = replica[r].replies
    BY <1>1, <1>4, <2>1
  <2> QED
    BY <1>1, <1>2, <2>1, <2>2, BecomesBy, QuietSpeaks
<1>6. CASE VerifiedPrepare(r, x)
  <2>0. x.kind = "Verify" /\ replica' = [replica EXCEPT ![r] = u]
    BY <1>6 DEF VerifiedPrepare, Finish
  <2>1. /\ Verifying(s, "Prepare", p.op) = {}
        /\ HasEntry(s, p.op) /\ s.log[p.op].prepared => Quorum(s.prepares, p.op) = {}
    BY <1>2, <2>0, DoneVerifying
  <2>2. World(TheWorld) /\ p \in TheWorld.prep
    BY <1>2, <2>0, Here, TaskIs
  <2> HIDE DEF s
  <2>3. Local(v, r, TheWorld)
    BY <1>1, <1>3, <2>1, <2>2, InsertPrepareRight
  <2>4. DOMAIN v = Fields
    BY <2>3 DEF Local
  <2> HIDE DEF v
  <2>5. u.app = v.app /\ u.replies = v.replies
    BY <2>4, PopSame DEF Same
  <2> HIDE DEF u
  <2> QED
    BY <1>1, <1>2, <1>4, <2>0, <2>5, BecomesBy, QuietSpeaks
<1> QED
  BY <1>5, <1>6

LEMMA CommitSpeaks ==
  ASSUME IInv, IInv', NEW r \in Alive, NEW x \in replica[r].tasks, SignedCommit(r, x) \/ VerifiedCommit(r, x)
  PROVE  \E t : Speaks(r, t)
<1> DEFINE s == Done(r, x)
           p == x.msg
           v == InsertCommit(s, r, p)
           w == IF s.log[p.op].committed THEN s ELSE v
           u == PopCommit(v, p.op)
<1>1. r \in Replicas /\ s.app = replica[r].app /\ s.replies = replica[r].replies
  <2>1. DOMAIN replica[r] = Fields /\ r \in Replicas
    BY Here DEF Local
  <2> QED
    BY <2>1 DEF Done, Fields
<1>2. UNCHANGED <<seq, invoke, results>> /\ p.type = "Commit"
  BY DEF SignedCommit, VerifiedCommit, Finish
<1>3. p \in TheWorld.com /\ Local(s, r, TheWorld) /\ World(TheWorld)
  BY <1>2, Here, TaskIs, DoneRight DEF SignedCommit, VerifiedCommit, Finish
<1>4. Len(s.app) \in Nat
  BY <1>3, LenProperties DEF Local, AppRight
<1>5. CASE SignedCommit(r, x)
  <2>1. replica' = [replica EXCEPT ![r] = w] /\ toClient' = toClient \cup Replies(r, s, w)
    BY <1>5 DEF SignedCommit
  <2>a. p.from = r
    BY <1>2, <1>5, TaskIs DEF SignedCommit, Finish
  <2> HIDE DEF s
  <2>2. ASSUME ~s.log[p.op].committed PROVE Local(v, r, TheWorld) /\ Tells(s, v)
    <3>1. Local(v, r, TheWorld)
      BY <1>1, <1>3, <2>2, InsertCommitRight
    <3>2. Tells(s, v)
      BY <1>1, <1>3, <2>2, InsertCommitTells
    <3> QED
      BY <3>1, <3>2
  <2>3. Tells(s, s)
    BY <1>4, SameTells
  <2> HIDE DEF v
  <2>4. Local(w, r, TheWorld) /\ Tells(s, w)
    BY <1>3, <2>2, <2>3
  <2> HIDE DEF w
  <2>5. Tells(replica[r], w)
    BY <1>1, <2>4 DEF Tells
  <2>6. Becomes(r, w)
    BY <1>1, <2>1, BecomesBy
  <2>7. \A m \in Replies(r, s, w) : m.from = r /\ AnswersTo(m.result, RequestOf(m.client, m.seq), w.app)
    BY <1>4, <2>4, SentAnswers
  <2> QED
    BY <1>2, <2>1, <2>5, <2>6, <2>7 DEF Speaks
<1>6. CASE VerifiedCommit(r, x)
  <2>1. replica' = [replica EXCEPT ![r] = u] /\ toClient' = toClient \cup Replies(r, s, v) /\ x.kind = "Verify"
    BY <1>6 DEF VerifiedCommit, Finish
  <2>2. /\ Verifying(s, "Commit", p.op) = {}
        /\ HasEntry(s, p.op) /\ s.log[p.op].committed => Quorum(s.commits, p.op) = {}
    BY <1>2, <2>1, DoneVerifying
  <2> HIDE DEF s
  <2>3. Local(v, r, TheWorld)
    BY <1>1, <1>3, <2>2, InsertCommitRight
  <2>4. Tells(s, v)
    BY <1>1, <1>3, <2>2, InsertCommitTells
  <2> HIDE DEF v
  <2>5. u.app = v.app /\ u.replies = v.replies
    <3>1. DOMAIN v = Fields
      BY <2>3 DEF Local
    <3> QED
      BY <3>1, PopSame DEF Same
  <2> HIDE DEF u
  <2>6. Tells(replica[r], u)
    BY <1>1, <2>4, <2>5 DEF Tells
  <2>7. Becomes(r, u)
    BY <1>1, <2>1, BecomesBy
  <2>8. \A m \in Replies(r, s, v) : m.from = r /\ AnswersTo(m.result, RequestOf(m.client, m.seq), u.app)
    BY <1>4, <2>3, <2>5, SentAnswers
  <2> QED
    BY <1>2, <2>1, <2>6, <2>7, <2>8 DEF Speaks
<1> QED
  BY <1>5, <1>6

LEMMA VerifyFailsSpeaks ==
  ASSUME IInv, NEW r \in Alive, NEW x \in replica[r].tasks, VerifyFails(r, x)
  PROVE  \E t : Speaks(r, t)
<1>1. DOMAIN replica[r] = Fields /\ r \in Replicas
  BY Here DEF Local
<1>2. Done(r, x).app = replica[r].app /\ Done(r, x).replies = replica[r].replies
  BY <1>1 DEF Done, Fields
<1> QED
  BY <1>1, <1>2, BecomesBy, QuietSpeaks DEF VerifyFails

(* What the replicas do: one of them speaks. *)
ReplicaNext ==
  \E r \in Alive : Recv(r) \/ Crypto(r) \/ \E t \in replica[r].tasks : VerifyFails(r, t)

LEMMA ReplicasSpeak ==
  ASSUME IInv, IInv', RInv, ReplicaNext
  PROVE  \E r \in Alive : \E t : Speaks(r, t)
<1>1. PICK r \in Alive : Recv(r) \/ Crypto(r) \/ \E t \in replica[r].tasks : VerifyFails(r, t)
  BY DEF ReplicaNext
<1>2. ASSUME Recv(r) PROVE \E t : Speaks(r, t)
  BY <1>2, RecvRequestSpeaks, RecvVoteSpeaks DEF Recv
<1>3. ASSUME Crypto(r) PROVE \E t : Speaks(r, t)
  BY <1>3, PrePrepareSpeaks, PrepareSpeaks, CommitSpeaks DEF Crypto
<1>4. ASSUME NEW x \in replica[r].tasks, VerifyFails(r, x) PROVE \E t : Speaks(r, t)
  BY <1>4, VerifyFailsSpeaks
<1> QED
  BY <1>1, <1>2, <1>3, <1>4

-----------------------------------------------------------------------------
(***************************************************************************)
(* The invariant of the replies.                                           *)
(***************************************************************************)

LEMMA InitTrue == ASSUME Init PROVE RInv
<1>1. ASSUME NEW r \in Replicas PROVE TableTrue(replica[r])
  BY <1>1 DEF Init, InitReplica, TableTrue
<1>2. \A c \in Clients : ResultsTrue(c, replica)
  BY DEF Init, ResultsTrue
<1> QED
  BY <1>1, <1>2 DEF Init, RInv

LEMMA InvokeTrue ==
  ASSUME IInv, RInv, NEW c \in Clients, ClientInvoke(c)
  PROVE  RInv' /\ invoke'[c] # None
<1>1. /\ UNCHANGED <<results, replica, toClient>> /\ invoke[c] = None
      /\ seq' = [seq EXCEPT ![c] = @ + 1] /\ invoke' = [invoke EXCEPT ![c] = <<>>]
  BY DEF ClientInvoke
<1>2. seq \in [Clients -> 0..MaxSeq] /\ DOMAIN invoke = Clients
  BY DEF IInv, ClientsRight
<1>3. None # <<>>
  <2>1. <<>> \in [{} -> Results]
    OBVIOUS
  <2>2. None \notin [{} -> Results]
    BY NoneAssumption
  <2> QED
    BY <2>1, <2>2
<1>4. ASSUME NEW d \in Clients PROVE ResultsTrue(d, replica)'
  <2>1. ResultsTrue(d, replica)
    BY DEF RInv
  <2>2. CASE d # c
    BY <1>1, <1>2, <2>1, <2>2 DEF ResultsTrue
  <2>3. CASE d = c
    <3>1. seq'[d] = seq[d] + 1 /\ invoke'[d] # None /\ seq[d] \in Nat
      BY <1>1, <1>2, <1>3, <2>3, BoundsAssumption
    <3> QED
      BY <1>1, <2>1, <2>3, <3>1 DEF ResultsTrue
  <2> QED
    BY <2>2, <2>3
<1>5. invoke'[c] # None
  BY <1>1, <1>2, <1>3
<1> QED
  BY <1>1, <1>4, <1>5 DEF RInv, TableTrue, ReplyTrue

(* A reply completes the call, or is gathered and the call goes on. *)
Completes(c, result) ==
  /\ invoke[c] # None
  /\ invoke' = [invoke EXCEPT ![c] = None] /\ results' = [results EXCEPT ![c] = Append(@, result)]

GoesOn(c) ==
  /\ invoke[c] # None /\ invoke'[c] # None /\ results' = results
  /\ \A d \in Clients : d # c => invoke'[d] = invoke[d]

LEMMA RecvReplyDoes ==
  ASSUME IInv, NEW c \in Clients, NEW m \in toClient, ClientRecvReply(c, m)
  PROVE  /\ UNCHANGED <<seq, replica, toClient>> /\ m.client = c /\ m.seq = seq[c]
         /\ Completes(c, m.result) \/ GoesOn(c)
<1> DEFINE gathered == WithKey(invoke[c], m.from, m.result)
<1>1. /\ UNCHANGED <<seq, replica, toClient>> /\ m.client = c /\ m.seq = seq[c] /\ invoke[c] # None
      /\ \/ Completes(c, m.result)
         \/ invoke' = [invoke EXCEPT ![c] = gathered] /\ results' = results
  BY DEF ClientRecvReply, Completes
<1>2. gathered # None
  <2>1. m.result \in Results /\ m.from \in Replicas
    BY ReplicasAssumption DEF IInv, RepliesRight
  <2>2. PICK rs \in SUBSET Replicas : invoke[c] \in [rs -> Results]
    BY <1>1 DEF IInv, ClientsRight, Gathered
  <2>3. gathered \in [rs \cup {m.from} -> Results] /\ rs \cup {m.from} \in SUBSET Replicas
    BY <2>1, <2>2 DEF WithKey
  <2> HIDE DEF gathered
  <2>4. None \notin [rs \cup {m.from} -> Results]
    BY <2>3, NoneAssumption
  <2> QED
    BY <2>3, <2>4
<1>3. DOMAIN invoke = Clients
  BY DEF IInv, ClientsRight
<1> HIDE DEF gathered
<1> QED
  BY <1>1, <1>2, <1>3 DEF GoesOn

LEMMA RecvReplyTrue ==
  ASSUME IInv, RInv, NEW c \in Clients, NEW m \in toClient, ClientRecvReply(c, m)
  PROVE  RInv'
<1>1. /\ UNCHANGED <<seq, replica, toClient>> /\ m.client = c /\ m.seq = seq[c]
      /\ Completes(c, m.result) \/ GoesOn(c)
  BY RecvReplyDoes
<1>2. /\ seq \in [Clients -> 0..MaxSeq] /\ DOMAIN invoke = Clients /\ DOMAIN results = Clients
      /\ \A d \in Clients : results[d] \in Seq(Results)
  BY DEF IInv, ClientsRight
<1>3. m.result \in Results /\ m.from \in Replicas
  BY ReplicasAssumption DEF IInv, RepliesRight
<1>4. AnswersTo(m.result, RequestOf(c, seq[c]), replica[m.from].app)
  BY <1>1 DEF RInv, ReplyTrue
<1>5. ASSUME NEW d \in Clients PROVE ResultsTrue(d, replica)'
  <2>1. ResultsTrue(d, replica)
    BY DEF RInv
  <2>2. CASE d # c \/ GoesOn(c)
    BY <1>1, <1>2, <2>1, <2>2 DEF ResultsTrue, Completes, GoesOn
  <2>3. CASE d = c /\ Completes(c, m.result)
    <3>1. /\ results'[c] = Append(results[c], m.result) /\ invoke'[c] = None /\ seq'[c] = seq[c]
          /\ results[c] \in Seq(Results) /\ Len(results[c]) = seq[c] - 1
          /\ seq[c] \in Nat
      BY <1>1, <1>2, <2>1, <2>3, BoundsAssumption DEF Completes, ResultsTrue
    <3>2. /\ Len(results'[c]) = seq[c] /\ results'[c][seq[c]] = m.result
          /\ \A i \in 1..Len(results[c]) : results'[c][i] = results[c][i]
      BY <1>3, <3>1
    <3>3. ASSUME NEW i \in 1..Len(results'[c])
          PROVE  \E r \in Replicas : AnswersTo(results'[c][i], RequestOf(c, i), replica[r].app)
      <4>1. CASE i = seq[c]
        BY <1>3, <1>4, <3>2, <4>1
      <4>2. CASE i # seq[c]
        <5>1. i \in 1..Len(results[c])
          BY <3>1, <3>2, <4>2
        <5> QED
          BY <2>1, <2>3, <3>2, <5>1 DEF ResultsTrue
      <4> QED
        BY <4>1, <4>2
    <3> QED
      BY <1>1, <2>3, <3>1, <3>2, <3>3 DEF ResultsTrue
  <2> QED
    BY <1>1, <2>2, <2>3
<1> QED
  BY <1>1, <1>5 DEF RInv, TableTrue, ReplyTrue

(* A step is one of a client or of the replicas. *)
LEMMA StepTrue ==
  ASSUME IInv, IInv', RInv, [Next]_vars
  PROVE  RInv'
<1>1. CASE UNCHANGED vars
  BY <1>1 DEF vars, RInv, TableTrue, ReplyTrue, ResultsTrue
<1>2. ASSUME NEW c \in Clients, ClientInvoke(c) PROVE RInv'
  BY <1>2, InvokeTrue
<1>3. ASSUME NEW c \in Clients, RecvReply(c) PROVE RInv'
  BY <1>3, RecvReplyTrue DEF RecvReply
<1>4. ASSUME ReplicaNext PROVE RInv'
  <2>1. PICK r \in Alive : \E t : Speaks(r, t)
    BY <1>4, ReplicasSpeak
  <2>2. PICK t : Speaks(r, t)
    BY <2>1
  <2>3. r \in Replicas
    BY ReplicasAssumption
  <2> QED
    BY <2>2, <2>3, SpeaksTrue
<1>5. Next => (\E c \in Clients : ClientInvoke(c) \/ RecvReply(c)) \/ ReplicaNext
  BY DEF Next, ReplicaNext
<1> QED
  BY <1>1, <1>2, <1>3, <1>4, <1>5

-----------------------------------------------------------------------------
(***************************************************************************)
(* The order of the service.                                               *)
(***************************************************************************)

(* The replica that executed most has executed what any other has. *)
LeadRight ==
  Lead \in Replicas /\ \A d \in Replicas : Prefix(replica[d].app, replica[Lead].app)

LEMMA LeadIs == IInv /\ InOrder => LeadRight
<1> SUFFICES ASSUME IInv, InOrder PROVE LeadRight
  OBVIOUS
<1> DEFINE P == replica[Primary]
           S == {Len(replica[d].app) : d \in Replicas}
<1>1. \A d \in Replicas : replica[d].app \in Seq(Batches) /\ Len(replica[d].app) \in Nat
                          /\ DOMAIN replica[d].app = 1..Len(replica[d].app)
  BY AppsAre, LenProperties DEF AppsTyped
<1>2. Primary \in Replicas /\ Len(P.log) \in Nat
  BY ReplicasAssumption, LenProperties DEF IInv, Local, LogRight
<1>3. ASSUME NEW d \in Replicas PROVE Len(replica[d].app) <= Len(P.log)
  <2>1. CASE Len(replica[d].app) = 0
    BY <1>2, <2>1
  <2>2. CASE Len(replica[d].app) # 0
    <3> DEFINE i == Len(replica[d].app)
    <3>1. i \in DOMAIN replica[d].app
      BY <1>1, <2>2
    <3>2. HasBatch(P, i)
      BY <3>1, AppIsLog
    <3> QED
      BY <3>2 DEF HasBatch, HasEntry
  <2> QED
    BY <2>1, <2>2
<1>4. \E d \in Replicas : \A e \in Replicas : Len(replica[d].app) >= Len(replica[e].app)
  <2>1. S \in SUBSET Nat /\ S # {} /\ \A n \in S : n <= Len(P.log)
    BY <1>1, <1>2, <1>3
  <2>2. Max(S) \in S /\ \A n \in S : n <= Max(S)
    <3> HIDE DEF S
    <3> QED
      BY <1>2, <2>1, MaxOfBounded
  <2>3. PICK d \in Replicas : Len(replica[d].app) = Max(S)
    BY <2>2
  <2> QED
    BY <1>1, <2>2, <2>3
<1>5. Lead \in Replicas /\ \A e \in Replicas : Len(replica[Lead].app) >= Len(replica[e].app)
  BY <1>4 DEF Lead
<1>6. ASSUME NEW d \in Replicas PROVE Prefix(replica[d].app, replica[Lead].app)
  <2> HIDE DEF P
  <2>1. ASSUME NEW i \in 1..Len(replica[d].app)
        PROVE  replica[Lead].app[i] = replica[d].app[i]
    <3>1. i \in DOMAIN replica[d].app /\ i \in DOMAIN replica[Lead].app
      BY <1>1, <1>5
    <3>2. replica[d].app[i] = P.log[i].batch
      BY <3>1, AppIsLog DEF P
    <3>3. replica[Lead].app[i] = P.log[i].batch
      BY <1>5, <3>1, AppIsLog DEF P
    <3> QED
      BY <3>2, <3>3
  <2> QED
    BY <1>1, <1>5, <2>1 DEF Prefix
<1> QED
  BY <1>5, <1>6 DEF LeadRight

LEMMA AppOnce ==
  ASSUME IInv, KInv, NEW r \in Replicas
  PROVE  Once(replica[r].app)
<1> DEFINE a == replica[r].app
           H == Held(replica[Primary])
<1> SUFFICES ASSUME NEW k \in 1..Len(a), NEW m \in 1..Len(a), NEW i \in 1..Len(a[k]), NEW j \in 1..Len(a[m]),
                    a[k][i] = a[m][j]
             PROVE  k = m /\ i = j
  BY DEF Once
<1>1. Primary \in Replicas /\ Apart(H, replica[Primary].requests)
  BY ReplicasAssumption DEF KInv, Keeps, IsPrimary
<1>2. a[k] # <<>> /\ a[m] # <<>>
  OBVIOUS
<1>3. PrePrepare(k, a[k]) \in H /\ PrePrepare(k, a[k]).op = k /\ PrePrepare(k, a[k]).digest = a[k]
  BY <1>2, AppIsHeld
<1>4. PrePrepare(m, a[m]) \in H /\ PrePrepare(m, a[m]).op = m /\ PrePrepare(m, a[m]).digest = a[m]
  BY <1>2, AppIsHeld
<1>5. \A b, c \in H : \A x \in 1..Len(b.digest), y \in 1..Len(c.digest) :
         b.digest[x] = c.digest[y] => b = c /\ x = y
  BY <1>1 DEF Apart
<1> DEFINE b == PrePrepare(k, a[k])
           c == PrePrepare(m, a[m])
<1> HIDE DEF a, H, b, c
<1>6. b = c /\ i = j
  BY <1>3, <1>4, <1>5 DEF b, c
<1> QED
  BY <1>3, <1>4, <1>6 DEF b, c

(* What the refinement needs of a state: the log of the service is of      *)
(* requests that were invoked, has none of them twice, and has the ones    *)
(* the clients got results of where these say.                             *)
OrderRight ==
  /\ Ordered \in Seq(InvokedBy(seq))
  /\ \A x, y \in 1..Len(Ordered) : Ordered[x] = Ordered[y] => x = y
  /\ \A c \in Clients : \A i \in 1..Len(results[c]) :
        Place(results[c][i]) \in 1..Len(Ordered) /\ Ordered[Place(results[c][i])] = RequestOf(c, i)

(* What answers a request says where it is. *)
LEMMA PlaceInOrder ==
  ASSUME IInv, LeadRight, NEW r \in Replicas, NEW result, NEW q, AnswersTo(result, q, replica[r].app)
  PROVE  Place(result) \in 1..Len(Ordered) /\ Ordered[Place(result)] = q
<1> DEFINE a == replica[r].app
           b == replica[Lead].app
<1>1. a \in Seq(Batches) /\ b \in Seq(Batches) /\ Prefix(a, b)
  BY AppsAre DEF AppsTyped, LeadRight
<1> HIDE DEF a, b
<1>2. AnswersTo(result, q, b)
  BY <1>1, AnswersKept DEF a
<1>3. b \in Seq(Seq(Requests))
  BY <1>1 DEF Batches
<1>4. Place(result) \in 1..Len(FlattenSeq(b)) /\ FlattenSeq(b)[Place(result)] = q
  BY <1>2, <1>3, AnswerPlace
<1> QED
  BY <1>4 DEF b, Ordered

LEMMA OrderIs == IInv /\ KInv /\ RInv /\ InOrder => OrderRight
<1> SUFFICES ASSUME IInv, KInv, RInv, InOrder PROVE OrderRight
  OBVIOUS
<1>1. LeadRight /\ Lead \in Replicas
  BY LeadIs DEF LeadRight
<1> DEFINE R == InvokedBy(seq)
           a == replica[Lead].app
<1>2. R \subseteq Requests /\ TheWorld.req = R
  BY WorldOfRight DEF TheWorld, InvokedBy
<1>3. a \in Seq(Seq(R))
  BY <1>1, <1>2 DEF IInv, Local, AppRight
<1>4. Once(a)
  BY <1>1, AppOnce
<1> HIDE DEF R, a
<1>5. FlattenSeq(a) \in Seq(R)
  <2>1. FlattenSeq(a) = Flat(a, Len(a))
    BY <1>3, FlatStep
  <2>2. Len(a) \in 0..Len(a)
    BY <1>3, LenProperties
  <2> QED
    BY <1>3, <2>1, <2>2, FlatTyped
<1>6. \A x, y \in 1..Len(FlattenSeq(a)) : FlattenSeq(a)[x] = FlattenSeq(a)[y] => x = y
  BY <1>3, <1>4, FlatOnce
<1>7. ASSUME NEW c \in Clients, NEW i \in 1..Len(results[c])
      PROVE  Place(results[c][i]) \in 1..Len(Ordered) /\ Ordered[Place(results[c][i])] = RequestOf(c, i)
  <2>1. PICK r \in Replicas : AnswersTo(results[c][i], RequestOf(c, i), replica[r].app)
    BY DEF RInv, ResultsTrue
  <2> QED
    BY <1>1, <2>1, PlaceInOrder
<1> QED
  BY <1>5, <1>6, <1>7 DEF OrderRight, Ordered, R, a

-----------------------------------------------------------------------------
(***************************************************************************)
(* The steps of the service.                                               *)
(***************************************************************************)

(* The cases of AbsCall. *)
CallsAre ==
  /\ AbsCall = [c \in Clients |-> AbsCall[c]]
  /\ \A c \in Clients :
        /\ invoke[c] = None => AbsCall[c] = Abs!Idle
        /\ invoke[c] # None /\ CallAt(c) = {} => AbsCall[c] = Abs!Pending(seq[c])
        /\ invoke[c] # None /\ CallAt(c) # {} => AbsCall[c] = Abs!Executed(seq[c], Min(CallAt(c)))

LEMMA CallsIs == CallsAre
<1>1. AbsCall = [c \in Clients |-> AbsCall[c]]
  BY DEF AbsCall
<1>2. ASSUME NEW c \in Clients
      PROVE  /\ invoke[c] = None => AbsCall[c] = Abs!Idle
             /\ invoke[c] # None /\ CallAt(c) = {} => AbsCall[c] = Abs!Pending(seq[c])
             /\ invoke[c] # None /\ CallAt(c) # {} => AbsCall[c] = Abs!Executed(seq[c], Min(CallAt(c)))
  BY DEF AbsCall, Abs!Idle, Abs!Pending, Abs!Executed
<1> QED
  BY <1>1, <1>2 DEF CallsAre

LEMMA BothCalls == CallsAre /\ CallsAre'
<1>1. CallsAre
  BY CallsIs
<1>2. CallsAre'
  BY CallsIs, PTL
<1> QED
  BY <1>1, <1>2

(* The place of a call. *)
OnePlace(c) ==
  /\ CallAt(c) = {i \in 1..Len(Ordered) : Ordered[i] = RequestOf(c, seq[c])}
  /\ \A i \in CallAt(c) : CallAt(c) = {i} /\ Min(CallAt(c)) = i

AllPlaced == \A c \in Clients : OnePlace(c)

LEMMA CallIs == OrderRight => AllPlaced
<1> SUFFICES ASSUME OrderRight, NEW c \in Clients PROVE OnePlace(c)
  BY DEF AllPlaced
<1>1. DOMAIN Ordered = 1..Len(Ordered) /\ Len(Ordered) \in Nat
  BY LenProperties DEF OrderRight
<1>2. CallAt(c) = {i \in 1..Len(Ordered) : Ordered[i] = RequestOf(c, seq[c])}
  BY <1>1 DEF CallAt, RequestOf
<1>3. ASSUME NEW i \in CallAt(c) PROVE CallAt(c) = {i} /\ Min(CallAt(c)) = i
  <2>1. CallAt(c) = {i} /\ i \in Nat
    BY <1>1, <1>2 DEF OrderRight
  <2>2. Min({i}) = i
    BY <2>1 DEF Min
  <2> QED
    BY <2>1, <2>2
<1> QED
  BY <1>2, <1>3 DEF OnePlace

(* The log changes with the replicas only. *)
LEMMA OrderSame ==
  ASSUME replica' = replica
  PROVE  Ordered' = Ordered /\ AbsLog' = AbsLog
<1>1. Lead' = Lead
  BY DEF Lead
<1>2. Ordered' = Ordered
  BY <1>1 DEF Ordered
<1> QED
  BY <1>2 DEF AbsLog

LEMMA InvokeImplements ==
  ASSUME IInv, OrderRight, NEW c \in Clients, ClientInvoke(c), invoke'[c] # None
  PROVE  Abs!Invoke(c, seq[c] + 1) /\ seq[c] + 1 \in 1..MaxSeq
<1>1. /\ UNCHANGED <<results, replica>> /\ invoke[c] = None /\ seq[c] < MaxSeq
      /\ seq' = [seq EXCEPT ![c] = @ + 1] /\ invoke' = [invoke EXCEPT ![c] = <<>>]
  BY DEF ClientInvoke
<1>2. seq \in [Clients -> 0..MaxSeq] /\ DOMAIN invoke = Clients
  BY DEF IInv, ClientsRight
<1>3. Ordered' = Ordered /\ AbsLog' = AbsLog /\ AbsResults' = AbsResults
  BY <1>1, OrderSame DEF AbsResults
<1>4. seq[c] \in Nat /\ seq[c] + 1 \in 1..MaxSeq /\ seq'[c] = seq[c] + 1
  BY <1>1, <1>2, BoundsAssumption
<1>5. \A d \in Clients : d # c => seq'[d] = seq[d] /\ invoke'[d] = invoke[d]
  BY <1>1, <1>2
<1>6. CallAt(c)' = {}
  <2>1. DOMAIN Ordered = 1..Len(Ordered) /\ \A i \in 1..Len(Ordered) : Ordered[i] \in InvokedBy(seq)
    BY LenProperties, ElementOfSeq DEF OrderRight
  <2>2. \A i \in DOMAIN Ordered : Ordered[i] # [client |-> c, seq |-> seq[c] + 1]
    BY <1>4, <2>1 DEF InvokedBy
  <2> QED
    BY <1>3, <1>4, <2>2 DEF CallAt
<1>7. CallsAre /\ CallsAre'
  BY BothCalls
<1>8. \A d \in Clients : d # c => AbsCall'[d] = AbsCall[d]
  <2>1. ASSUME NEW d \in Clients, d # c PROVE AbsCall'[d] = AbsCall[d]
    <3>1. CallAt(d)' = CallAt(d)
      BY <1>3, <1>5, <2>1 DEF CallAt
    <3> QED
      BY <1>5, <1>7, <2>1, <3>1 DEF CallsAre
  <2> QED
    BY <2>1
<1>9. AbsCall[c] = Abs!Idle /\ AbsCall'[c] = Abs!Pending(seq[c] + 1)
  BY <1>1, <1>4, <1>6, <1>7 DEF CallsAre
<1>10. AbsCall' = [AbsCall EXCEPT ![c] = Abs!Pending(seq[c] + 1)]
  BY <1>7, <1>8, <1>9 DEF CallsAre
<1> QED
  BY <1>3, <1>4, <1>9, <1>10 DEF Abs!Invoke

LEMMA GoesOnStutters ==
  ASSUME UNCHANGED <<seq, replica>>, NEW c \in Clients, GoesOn(c)
  PROVE  UNCHANGED <<AbsLog, AbsCall, AbsResults>>
<1>1. Ordered' = Ordered /\ AbsLog' = AbsLog /\ AbsResults' = AbsResults
  BY OrderSame DEF AbsResults, GoesOn
<1>2. CallsAre /\ CallsAre'
  BY BothCalls
<1>3. ASSUME NEW d \in Clients PROVE AbsCall'[d] = AbsCall[d]
  <2>1. CallAt(d)' = CallAt(d)
    BY <1>1 DEF CallAt
  <2>2. (invoke'[d] = None) = (invoke[d] = None)
    BY DEF GoesOn
  <2> QED
    BY <1>2, <2>1, <2>2 DEF CallsAre
<1>4. AbsCall' = AbsCall
  BY <1>2, <1>3 DEF CallsAre
<1> QED
  BY <1>1, <1>4

LEMMA CompletesImplements ==
  ASSUME IInv, RInv, LeadRight, OrderRight, NEW c \in Clients, NEW m \in toClient,
         UNCHANGED <<seq, replica>>, m.client = c, m.seq = seq[c], Completes(c, m.result)
  PROVE  Abs!Respond(c)
<1> DEFINE x == Place(m.result)
<1>1. /\ invoke[c] # None /\ invoke' = [invoke EXCEPT ![c] = None]
      /\ results' = [results EXCEPT ![c] = Append(@, m.result)]
  BY DEF Completes
<1>2. /\ seq \in [Clients -> 0..MaxSeq] /\ DOMAIN invoke = Clients /\ DOMAIN results = Clients
      /\ \A d \in Clients : results[d] \in Seq(Results)
  BY DEF IInv, ClientsRight
<1>3. Ordered' = Ordered /\ AbsLog' = AbsLog
  BY OrderSame
<1>4. x \in 1..Len(Ordered) /\ Ordered[x] = RequestOf(c, seq[c])
  <2>1. m.from \in Replicas
    BY ReplicasAssumption DEF IInv, RepliesRight
  <2>2. AnswersTo(m.result, RequestOf(c, seq[c]), replica[m.from].app)
    BY DEF RInv, ReplyTrue
  <2> QED
    BY <2>1, <2>2, PlaceInOrder
<1> HIDE DEF x
<1>5. CallAt(c) # {} /\ Min(CallAt(c)) = x
  BY <1>4, CallIs DEF AllPlaced, OnePlace
<1>6. CallsAre /\ CallsAre'
  BY BothCalls
<1>7. AbsCall[c] = Abs!Executed(seq[c], x)
  BY <1>1, <1>5, <1>6 DEF CallsAre
<1>8. AbsCall' = [AbsCall EXCEPT ![c] = Abs!Idle]
  <2>1. AbsCall'[c] = Abs!Idle
    BY <1>1, <1>2, <1>6 DEF CallsAre
  <2>2. ASSUME NEW d \in Clients, d # c PROVE AbsCall'[d] = AbsCall[d]
    <3>1. CallAt(d)' = CallAt(d)
      BY <1>3 DEF CallAt
    <3>2. invoke'[d] = invoke[d]
      BY <1>1, <1>2, <2>2
    <3> QED
      BY <1>6, <3>1, <3>2 DEF CallsAre
  <2> QED
    BY <1>6, <2>1, <2>2 DEF CallsAre
<1>9. AbsResults' = [AbsResults EXCEPT ![c] = Append(@, [op |-> seq[c], pos |-> x])]
  <2> DEFINE s == results[c]
             t == Append(s, m.result)
             e == [op |-> seq[c], pos |-> x]
             A(u) == [i \in DOMAIN u |-> [op |-> i, pos |-> Place(u[i])]]
  <2>1. s \in Seq(Results) /\ m.result \in Results /\ Len(s) = seq[c] - 1 /\ seq[c] \in Nat
    BY <1>1, <1>2, BoundsAssumption DEF IInv, RepliesRight, RInv, ResultsTrue
  <2>2. /\ t \in Seq(Results) /\ Len(t) = seq[c] /\ t[seq[c]] = m.result
        /\ \A i \in 1..Len(s) : t[i] = s[i]
    BY <2>1
  <2> DEFINE S == [op : Nat, pos : {x} \cup {Place(s[i]) : i \in 1..Len(s)}]
  <2>3. A(s) \in Seq(S) /\ Len(A(s)) = Len(s)
    <3>1. DOMAIN s = 1..Len(s) /\ Len(s) \in Nat
      BY <2>1, LenProperties
    <3>2. A(s) \in [1..Len(s) -> S]
      BY <3>1
    <3> HIDE DEF S, A, s
    <3> QED
      BY <3>1, <3>2
  <2>4. A(t) \in Seq(S) /\ Len(A(t)) = seq[c]
    <3>1. DOMAIN t = 1..seq[c]
      BY <2>2, LenProperties
    <3>2. \A i \in 1..seq[c] : i \in 1..Len(s) \/ i = seq[c]
      BY <2>1
    <3>3. \A i \in 1..seq[c] : Place(t[i]) \in {x} \cup {Place(s[j]) : j \in 1..Len(s)}
      BY <2>2, <3>2 DEF x
    <3> HIDE DEF t, s
    <3>4. A(t) \in [1..seq[c] -> S]
      BY <2>1, <3>1, <3>3
    <3> HIDE DEF S, A
    <3> QED
      BY <2>1, <3>4
  <2>5. e \in S /\ Append(A(s), e) \in Seq(S) /\ Len(Append(A(s), e)) = seq[c]
    <3>1. e \in S
      BY <2>1
    <3> HIDE DEF S, e, A
    <3> QED
      BY <2>1, <2>3, <3>1
  <2>6. ASSUME NEW i \in 1..seq[c] PROVE Append(A(s), e)[i] = A(t)[i]
    <3>1. A(t)[i] = [op |-> i, pos |-> Place(t[i])]
      BY <2>2, LenProperties
    <3>2. CASE i = seq[c]
      <4>1. A(t)[i] = e
        BY <2>2, <3>1, <3>2 DEF x
      <4> HIDE DEF S, e, A
      <4>2. Append(A(s), e)[i] = e
        BY <2>1, <2>3, <3>2
      <4> QED
        BY <4>1, <4>2
    <3>3. CASE i # seq[c]
      <4>1. i \in 1..Len(s) /\ i \in DOMAIN s
        BY <2>1, <3>3, LenProperties
      <4>2. A(s)[i] = [op |-> i, pos |-> Place(s[i])]
        BY <4>1
      <4>3. t[i] = s[i]
        BY <2>2, <4>1
      <4> HIDE DEF S, e, A, t, s
      <4>4. Append(A(s), e)[i] = A(s)[i]
        BY <2>1, <2>3, <4>1
      <4> QED
        BY <3>1, <4>2, <4>3, <4>4
    <3> QED
      BY <3>2, <3>3
  <2>7. A(t) = Append(A(s), e)
    <3> HIDE DEF S, e, A, t, s
    <3> QED
      BY <2>4, <2>5, <2>6, SeqEqual
  <2>8. \A d \in Clients : results'[d] = IF d = c THEN t ELSE results[d]
    BY <1>1, <1>2
  <2>9. /\ AbsResults = [d \in Clients |-> A(results[d])]
        /\ AbsResults' = [d \in Clients |-> A(results'[d])]
    BY DEF AbsResults
  <2> HIDE DEF S, e, A, t
  <2>10. AbsResults' = [AbsResults EXCEPT ![c] = Append(@, e)]
    BY <2>7, <2>8, <2>9
  <2> QED
    BY <2>10 DEF e
<1>10. AbsCall[c].phase = "executed" /\ AbsCall[c].op = seq[c] /\ AbsCall[c].pos = x
  BY <1>7 DEF Abs!Executed
<1> QED
  BY <1>3, <1>8, <1>9, <1>10 DEF Abs!Respond

LEMMA ConcatIs ==
  ASSUME NEW S, NEW s \in Seq(S), NEW t \in Seq(S), NEW u \in Seq(S), Len(u) = Len(s) + Len(t),
         \A i \in 1..Len(s) : u[i] = s[i], \A i \in 1..Len(t) : u[Len(s) + i] = t[i]
  PROVE  u = s \o t
<1>1. Len(s) \in Nat /\ Len(t) \in Nat
  BY LenProperties
<1>2. s \o t \in Seq(S) /\ Len(s \o t) = Len(s) + Len(t)
  OBVIOUS
<1>3. ASSUME NEW i \in 1..Len(u) PROVE u[i] = (s \o t)[i]
  <2>1. CASE i \in 1..Len(s)
    BY <2>1
  <2>2. CASE i \notin 1..Len(s)
    <3>1. i - Len(s) \in 1..Len(t) /\ i = Len(s) + (i - Len(s))
      BY <1>1, <2>2
    <3>2. (s \o t)[i] = t[i - Len(s)]
      BY <1>1, <2>2
    <3> QED
      BY <3>1, <3>2
  <2> QED
    BY <2>1, <2>2
<1> DEFINE v == s \o t
<1> HIDE DEF v
<1>4. u = v
  BY <1>2, <1>3, SeqEqual DEF v
<1> QED
  BY <1>4 DEF v

(* What is new in the order is the calls under way of some clients, which  *)
(* are not in it yet.                                                      *)
LEMMA NewCalls ==
  ASSUME IInv, OrderRight, OrderRight', RInv, UNCHANGED <<seq, invoke, results>>, Prefix(Ordered, Ordered'),
         NEW i \in (Len(Ordered) + 1)..Len(Ordered')
  PROVE  LET c == Ordered'[i].client
         IN  c \in Clients /\ Ordered'[i] = RequestOf(c, seq[c]) /\ invoke[c] # None /\ CallAt(c) = {}
<1> DEFINE q == Ordered'[i]
           c == q.client
<1>1. /\ Len(Ordered) \in Nat /\ Len(Ordered') \in Nat
      /\ i \in 1..Len(Ordered') /\ i > Len(Ordered)
      /\ \A j \in 1..Len(Ordered) : j \in 1..Len(Ordered') /\ Ordered'[j] = Ordered[j]
  BY LenProperties DEF OrderRight, Prefix
<1>2. q \in InvokedBy(seq)
  BY <1>1, ElementOfSeq DEF OrderRight
<1>3. c \in Clients /\ q.seq \in 1..MaxSeq /\ q.seq <= seq[c] /\ q = RequestOf(c, q.seq)
  BY <1>2 DEF InvokedBy, Requests, RequestOf
<1>4. ASSUME NEW j \in 1..Len(Ordered), Ordered[j] = q PROVE FALSE
  BY <1>1, <1>4 DEF OrderRight
<1>5. seq[c] \in Nat /\ q.seq \in Nat \ {0}
  BY <1>3, BoundsAssumption DEF IInv, ClientsRight
<1> HIDE DEF q
<1>6. invoke[c] # None /\ q.seq = seq[c]
  <2> SUFFICES ASSUME ~(invoke[c] # None /\ q.seq = seq[c]) PROVE FALSE
    OBVIOUS
  <2>1. q.seq \in 1..Len(results[c])
    BY <1>3, <1>5 DEF RInv, ResultsTrue
  <2>2. Place(results[c][q.seq]) \in 1..Len(Ordered) /\ Ordered[Place(results[c][q.seq])] = q
    BY <1>3, <2>1 DEF OrderRight
  <2> QED
    BY <1>4, <2>2
<1>7. CallAt(c) = {}
  BY <1>3, <1>4, <1>6, CallIs DEF AllPlaced, OnePlace
<1> QED
  BY <1>3, <1>6, <1>7 DEF q

LEMMA ExecuteImplements ==
  ASSUME IInv, OrderRight, OrderRight', RInv, UNCHANGED <<seq, invoke, results>>, Prefix(Ordered, Ordered')
  PROVE  (\E order \in Abs!Orders : Abs!Execute(order)) \/ UNCHANGED <<AbsLog, AbsCall, AbsResults>>
<1> DEFINE L == Len(Ordered)
           k == Len(Ordered') - Len(Ordered)
           order == [j \in 1..k |-> Ordered'[L + j].client]
           At(c) == {j \in DOMAIN order : order[j] = c}
           new == [j \in DOMAIN order |-> [client |-> order[j], op |-> AbsCall[order[j]].op]]
<1>1. L \in Nat /\ Len(Ordered') \in Nat /\ k \in Nat
  BY LenProperties DEF OrderRight, Prefix
<1>2. /\ Ordered \in Seq(Requests) /\ Ordered' \in Seq(Requests)
      /\ \A j \in 1..L : Ordered'[j] = Ordered[j]
  <2>1. InvokedBy(seq) \subseteq Requests /\ InvokedBy(seq') \subseteq Requests
    BY DEF InvokedBy
  <2>2. Ordered \in Seq(Requests)
    BY <2>1, SeqMonotone DEF OrderRight
  <2>3. Ordered' \in Seq(Requests)
    BY <2>1, SeqMonotone DEF OrderRight
  <2> QED
    BY <2>2, <2>3 DEF Prefix
<1>3. AbsResults' = AbsResults
  BY DEF AbsResults
<1>4. CallsAre /\ CallsAre'
  BY BothCalls
<1>5. CASE k = 0
  <2>1. Ordered' = Ordered
    BY <1>1, <1>2, <1>5, SeqEqual
  <2>2. \A c : CallAt(c)' = CallAt(c)
    BY <2>1 DEF CallAt
  <2>3. AbsCall' = AbsCall
    BY <1>4, <2>2 DEF CallsAre
  <2> QED
    BY <1>3, <2>1, <2>3 DEF AbsLog
<1>6. ASSUME k # 0 PROVE \E o \in Abs!Orders : Abs!Execute(o)
  <2>1. ASSUME NEW j \in 1..k
        PROVE  /\ order[j] \in Clients /\ Ordered'[L + j] = RequestOf(order[j], seq[order[j]])
               /\ invoke[order[j]] # None /\ CallAt(order[j]) = {}
    <3>1. L + j \in (L + 1)..Len(Ordered')
      BY <1>1
    <3>2. order[j] = Ordered'[L + j].client
      OBVIOUS
    <3> HIDE DEF L, k, order
    <3> QED
      BY <3>1, <3>2, NewCalls DEF L
  <2>2. DOMAIN order = 1..k /\ order \in [1..k -> Clients]
    <3>1. DOMAIN order = 1..k
      OBVIOUS
    <3>2. \A j \in 1..k : order[j] \in Clients
      BY <2>1
    <3>3. order = [j \in 1..k |-> order[j]]
      OBVIOUS
    <3> HIDE DEF order, k
    <3> QED
      BY <3>1, <3>2, <3>3
  <2>3. ASSUME NEW i \in 1..k, NEW j \in 1..k, order[i] = order[j] PROVE i = j
    <3>1. Ordered'[L + i] = Ordered'[L + j]
      BY <2>1, <2>3
    <3>2. L + i \in 1..Len(Ordered') /\ L + j \in 1..Len(Ordered')
      BY <1>1
    <3>3. L + i = L + j
      BY <3>1, <3>2 DEF OrderRight
    <3> QED
      BY <1>1, <3>3
  <2> HIDE DEF order
  <2>4. order \in Abs!Orders
    <3>1. k <= Cardinality(Clients)
      <4>1. order \in Injection(1..k, Clients)
        BY <2>2, <2>3 DEF Injection, IsInjective
      <4>2. Cardinality(1..k) <= Cardinality(Clients)
        BY <4>1, ClientsAssumption, FS_Injection
      <4>3. Cardinality(1..k) = k
        BY <1>1, <1>6, FS_Interval
      <4> QED
        BY <4>2, <4>3
    <3>2. k \in 1..Cardinality(Clients)
      <4>1. Cardinality(Clients) \in Nat
        BY ClientsAssumption, FS_CardinalityType
      <4> QED
        BY <1>1, <1>6, <3>1, <4>1
    <3>3. order \in UNION {[1..n -> Clients] : n \in 1..Cardinality(Clients)}
      BY <2>2, <3>2
    <3>4. \A i, j \in DOMAIN order : order[i] = order[j] => i = j
      BY <2>2, <2>3
    <3>5. Abs!Cardinality(Clients) = Cardinality(Clients)
      BY DEF Abs!Cardinality, Cardinality
    <3> HIDE DEF k
    <3> QED
      BY <3>3, <3>4, <3>5 DEF Abs!Orders
  <2>5. \A j \in 1..k : AbsCall[order[j]].phase = "pending" /\ AbsCall[order[j]].op = seq[order[j]]
    BY <1>4, <2>1 DEF CallsAre, Abs!Pending
  <2>6. AbsLog' = AbsLog \o new
    <3> DEFINE S == [client : Clients, op : Nat]
               E(q) == [client |-> q.client, op |-> q.seq]
    <3>1. \A q \in Requests : E(q) \in S
      BY BoundsAssumption DEF Requests
    <3>2. AbsLog \in Seq(S) /\ Len(AbsLog) = L /\ \A j \in 1..L : AbsLog[j] = E(Ordered[j])
      <4>1. DOMAIN Ordered = 1..L /\ \A j \in 1..L : Ordered[j] \in Requests
        BY <1>1, <1>2, LenProperties, ElementOfSeq
      <4>2. AbsLog \in [1..L -> S] /\ \A j \in 1..L : AbsLog[j] = E(Ordered[j])
        BY <3>1, <4>1 DEF AbsLog
      <4> HIDE DEF L, S, E
      <4> QED
        BY <1>1, <4>2
    <3>3. AbsLog' \in Seq(S) /\ Len(AbsLog') = Len(Ordered')
          /\ \A j \in 1..Len(Ordered') : AbsLog'[j] = E(Ordered'[j])
      <4>1. DOMAIN Ordered' = 1..Len(Ordered') /\ \A j \in 1..Len(Ordered') : Ordered'[j] \in Requests
        BY <1>1, <1>2, LenProperties, ElementOfSeq
      <4>2. AbsLog' \in [1..Len(Ordered') -> S] /\ \A j \in 1..Len(Ordered') : AbsLog'[j] = E(Ordered'[j])
        BY <3>1, <4>1 DEF AbsLog
      <4> HIDE DEF S, E
      <4> QED
        BY <1>1, <4>2
    <3>4. \A j \in 1..k : new[j] = E(Ordered'[L + j]) /\ new[j] \in S
      <4> SUFFICES ASSUME NEW j \in 1..k PROVE new[j] = E(Ordered'[L + j]) /\ new[j] \in S
        OBVIOUS
      <4>1. new[j] = [client |-> order[j], op |-> seq[order[j]]]
        BY <2>2, <2>5
      <4>2. E(Ordered'[L + j]) = [client |-> order[j], op |-> seq[order[j]]]
        <5>1. Ordered'[L + j] = [client |-> order[j], seq |-> seq[order[j]]]
          BY <2>1 DEF RequestOf
        <5> QED
          BY <5>1
      <4>3. order[j] \in Clients /\ seq[order[j]] \in Nat
        BY <2>1, BoundsAssumption DEF IInv, ClientsRight
      <4> HIDE DEF new
      <4> QED
        BY <4>1, <4>2, <4>3
    <3>5. new \in Seq(S) /\ Len(new) = k
      <4>1. DOMAIN new = 1..k
        BY <2>2
      <4>2. new = [j \in 1..k |-> new[j]]
        BY <2>2
      <4> HIDE DEF new, S, E, k
      <4>3. new \in [1..k -> S]
        BY <3>4, <4>1, <4>2
      <4> QED
        BY <1>1, <4>3
    <3>6. Len(AbsLog') = Len(AbsLog) + Len(new)
      <4> HIDE DEF new, S, E
      <4> QED
        BY <1>1, <3>2, <3>3, <3>5
    <3>7. \A j \in 1..Len(AbsLog) : AbsLog'[j] = AbsLog[j]
      <4> HIDE DEF new, S, E
      <4> QED
        BY <1>1, <1>2, <3>2, <3>3
    <3>8. \A j \in 1..Len(new) : AbsLog'[Len(AbsLog) + j] = new[j]
      <4> HIDE DEF new, S, E
      <4> QED
        BY <1>1, <3>2, <3>3, <3>4, <3>5
    <3> HIDE DEF new, S, E
    <3> QED
      BY <3>2, <3>3, <3>5, <3>6, <3>7, <3>8, ConcatIs
  <2>7. Len(AbsLog) = L
    <3>1. \E S : AbsLog \in Seq(S)
      <4> DEFINE S == [client : Clients, op : Nat]
      <4>1. DOMAIN Ordered = 1..L /\ \A j \in 1..L : Ordered[j] \in Requests
        BY <1>1, <1>2, LenProperties, ElementOfSeq
      <4>2. AbsLog \in [1..L -> S]
        BY <4>1, BoundsAssumption DEF AbsLog, Requests
      <4> HIDE DEF L, S
      <4> QED
        BY <1>1, <4>2
    <3>2. DOMAIN AbsLog = 1..L
      BY <1>2, LenProperties DEF AbsLog
    <3> HIDE DEF L
    <3> QED
      BY <1>1, <3>1, <3>2, LenProperties
  <2>8. ASSUME NEW c \in Clients
        PROVE  AbsCall'[c] = IF At(c) = {} THEN AbsCall[c]
                             ELSE Abs!Executed(AbsCall[c].op, Len(AbsLog) + CHOOSE j \in At(c) : TRUE)
    <3>1. /\ CallAt(c) = {i \in 1..L : Ordered[i] = RequestOf(c, seq[c])}
          /\ \A i \in CallAt(c)' : CallAt(c)' = {i} /\ Min(CallAt(c)') = i
      <4>1. AllPlaced
        BY CallIs
      <4>2. AllPlaced'
        BY CallIs, PTL
      <4>3. OnePlace(c) /\ OnePlace(c)'
        BY <4>1, <4>2 DEF AllPlaced
      <4> QED
        BY <4>3 DEF OnePlace
    <3>2. CallAt(c)' = {i \in 1..Len(Ordered') : Ordered'[i] = RequestOf(c, seq[c])}
      BY <1>2, LenProperties DEF CallAt, RequestOf
    <3>3. CASE At(c) = {}
      <4>1. ASSUME NEW i \in CallAt(c)' PROVE i \in 1..L /\ Ordered[i] = RequestOf(c, seq[c])
        <5>1. i \in 1..Len(Ordered') /\ Ordered'[i] = RequestOf(c, seq[c])
          BY <3>2
        <5>2. i \in 1..L
          <6> SUFFICES ASSUME i \notin 1..L PROVE FALSE
            OBVIOUS
          <6>1. i - L \in 1..k /\ L + (i - L) = i
            BY <1>1, <5>1
          <6>2. order[i - L] = c
            BY <5>1, <6>1 DEF order, RequestOf
          <6> QED
            BY <2>2, <3>3, <6>1, <6>2
        <5> QED
          BY <1>2, <5>1, <5>2
      <4>2. \A i \in CallAt(c) : i \in CallAt(c)'
        BY <1>1, <1>2, <3>1, <3>2
      <4>3. CallAt(c)' = CallAt(c)
        BY <3>1, <4>1, <4>2
      <4> QED
        BY <1>4, <3>3, <4>3 DEF CallsAre
    <3>4. CASE At(c) # {}
      <4>1. PICK j \in 1..k : order[j] = c
        BY <2>2, <3>4
      <4>2. At(c) = {j}
        BY <2>2, <2>3, <4>1
      <4>3. (CHOOSE x \in At(c) : TRUE) = j
        BY <4>2
      <4>4. L + j \in CallAt(c)'
        BY <1>1, <2>1, <3>2, <4>1
      <4>5. CallAt(c)' # {} /\ Min(CallAt(c)') = L + j
        BY <3>1, <4>4
      <4>6. invoke'[c] # None /\ seq'[c] = seq[c] /\ AbsCall[c].op = seq[c]
        BY <2>1, <2>5, <4>1
      <4>7. AbsCall'[c] = Abs!Executed(seq[c], L + j)
        BY <1>4, <4>5, <4>6 DEF CallsAre
      <4> QED
        BY <2>7, <3>4, <4>3, <4>6, <4>7
    <3> QED
      BY <3>3, <3>4
  <2>9. AbsCall' = [c \in Clients |->
                      IF At(c) = {} THEN AbsCall[c]
                      ELSE Abs!Executed(AbsCall[c].op, Len(AbsLog) + CHOOSE j \in At(c) : TRUE)]
    <3> HIDE DEF At
    <3> QED
      BY <1>4, <2>8 DEF CallsAre
  <2>10. \A j \in DOMAIN order : AbsCall[order[j]].phase = "pending"
    BY <2>2, <2>5
  <2> HIDE DEF L, k
  <2>11. Abs!Execute(order)
    BY <1>3, <2>6, <2>9, <2>10 DEF Abs!Execute
  <2> QED
    BY <2>4, <2>11
<1> QED
  BY <1>5, <1>6

LEMMA SpeaksImplements ==
  ASSUME IInv, IInv', LeadRight, LeadRight', OrderRight, OrderRight', RInv, NEW r \in Replicas, NEW t, Speaks(r, t)
  PROVE  (\E order \in Abs!Orders : Abs!Execute(order)) \/ UNCHANGED <<AbsLog, AbsCall, AbsResults>>
<1> DEFINE a == replica[Lead].app
           b == replica'[Lead].app
           z == replica'[Lead'].app
<1>1. AppsTyped /\ AppsTyped'
  <2>1. AppsTyped
    BY AppsAre
  <2>2. AppsTyped'
    BY AppsAre, PTL
  <2> QED
    BY <2>1, <2>2
<1>2. Lead \in Replicas /\ Lead' \in Replicas
  BY DEF LeadRight
<1>3. a \in Seq(Batches) /\ b \in Seq(Batches) /\ z \in Seq(Batches)
  BY <1>1, <1>2 DEF AppsTyped
<1>4. Len(a) \in Nat /\ Len(b) \in Nat /\ Len(z) \in Nat
  BY <1>3, LenProperties
<1>5. Prefix(a, b)
  <2>1. Prefix(a, a)
    BY <1>4 DEF Prefix
  <2>2. Lead = r => Prefix(a, t.app)
    BY DEF Speaks, Tells
  <2>3. b = IF Lead = r THEN t.app ELSE a
    BY <1>2 DEF Speaks, Becomes
  <2> QED
    BY <2>1, <2>2, <2>3
<1>6. Prefix(b, z)
  BY <1>2 DEF LeadRight
<1>7. Prefix(a, z)
  <2> HIDE DEF a, b, z
  <2> QED
    BY <1>4, <1>5, <1>6 DEF Prefix
<1>8. Prefix(Ordered, Ordered')
  <2>1. Ordered = FlattenSeq(a) /\ Ordered' = FlattenSeq(z)
    BY DEF Ordered
  <2>2. a \in Seq(Seq(Requests)) /\ z \in Seq(Seq(Requests))
    BY <1>3 DEF Batches
  <2> HIDE DEF a, z
  <2>3. Prefix(FlattenSeq(a), FlattenSeq(z))
    BY <1>7, <2>2, FlatGrows
  <2> QED
    BY <2>1, <2>3
<1> QED
  BY <1>8, ExecuteImplements DEF Speaks

LEMMA InitImplements == ASSUME Init PROVE Abs!Init
<1>1. \A r \in Replicas : replica[r].app = <<>>
  BY DEF Init, InitReplica
<1>2. Lead \in Replicas
  <2>1. Primary \in Replicas
    BY ReplicasAssumption
  <2>2. \A r, d \in Replicas : Len(replica[r].app) >= Len(replica[d].app)
    BY <1>1
  <2> QED
    BY <2>1, <2>2 DEF Lead
<1>3. Ordered = <<>>
  <2>1. <<>> \in Seq({}) /\ Len(<<>>) = 0
    OBVIOUS
  <2>2. FlattenSeq(<<>>) = <<>>
    BY <2>1, FlatStep
  <2> QED
    BY <1>1, <1>2, <2>2 DEF Ordered
<1>4. AbsLog = <<>>
  <2>1. DOMAIN Ordered = {}
    BY <1>3
  <2> QED
    BY <2>1 DEF AbsLog
<1>5. AbsCall = [c \in Clients |-> Abs!Idle]
  BY CallsIs DEF CallsAre, Init
<1>6. AbsResults = [c \in Clients |-> <<>>]
  <2>1. \A c \in Clients : results[c] = <<>> /\ DOMAIN results[c] = {}
    BY DEF Init
  <2>2. \A c \in Clients : [i \in DOMAIN results[c] |-> [op |-> i, pos |-> Place(results[c][i])]] = <<>>
    BY <2>1
  <2> QED
    BY <2>2 DEF AbsResults
<1> QED
  BY <1>4, <1>5, <1>6 DEF Abs!Init

(* Every step is a step of the service or none. *)
LEMMA StepImplements ==
  ASSUME InOrder, IInv, IInv', KInv, KInv', RInv, RInv', [Next]_vars
  PROVE  [Abs!Next]_<<AbsLog, AbsCall, AbsResults>>
<1>1. LeadRight /\ LeadRight' /\ OrderRight /\ OrderRight'
  <2>1. LeadRight /\ OrderRight
    BY LeadIs, OrderIs
  <2>2. LeadRight' /\ OrderRight'
    BY LeadIs, OrderIs, PTL
  <2> QED
    BY <2>1, <2>2
<1>2. CASE UNCHANGED vars
  <2>1. Ordered' = Ordered /\ AbsLog' = AbsLog /\ AbsResults' = AbsResults
    BY <1>2, OrderSame DEF vars, AbsResults
  <2>2. \A c : CallAt(c)' = CallAt(c)
    BY <1>2, <2>1 DEF vars, CallAt
  <2>3. CallsAre /\ CallsAre'
    BY BothCalls
  <2>4. AbsCall' = AbsCall
    BY <1>2, <2>2, <2>3 DEF vars, CallsAre
  <2> QED
    BY <2>1, <2>4
<1>3. ASSUME NEW c \in Clients, ClientInvoke(c) PROVE Abs!Next
  <2>1. invoke'[c] # None
    BY <1>3, InvokeTrue
  <2>2. Abs!Invoke(c, seq[c] + 1) /\ seq[c] + 1 \in 1..MaxSeq
    BY <1>1, <1>3, <2>1, InvokeImplements
  <2> QED
    BY <2>2 DEF Abs!Next
<1>4. ASSUME NEW c \in Clients, NEW m \in toClient, ClientRecvReply(c, m)
      PROVE  Abs!Next \/ UNCHANGED <<AbsLog, AbsCall, AbsResults>>
  <2>1. /\ UNCHANGED <<seq, replica, toClient>> /\ m.client = c /\ m.seq = seq[c]
        /\ Completes(c, m.result) \/ GoesOn(c)
    BY <1>4, RecvReplyDoes
  <2>2. CASE Completes(c, m.result)
    <3>1. Abs!Respond(c)
      BY <1>1, <2>1, <2>2, CompletesImplements
    <3> QED
      BY <3>1 DEF Abs!Next
  <2>3. CASE GoesOn(c)
    BY <2>1, <2>3, GoesOnStutters
  <2> QED
    BY <2>1, <2>2, <2>3
<1>5. ASSUME ReplicaNext PROVE Abs!Next \/ UNCHANGED <<AbsLog, AbsCall, AbsResults>>
  <2>1. PICK r \in Alive : \E t : Speaks(r, t)
    BY <1>5, ReplicasSpeak
  <2>2. PICK t : Speaks(r, t)
    BY <2>1
  <2>3. r \in Replicas
    BY ReplicasAssumption
  <2>4. (\E order \in Abs!Orders : Abs!Execute(order)) \/ UNCHANGED <<AbsLog, AbsCall, AbsResults>>
    BY <1>1, <2>2, <2>3, SpeaksImplements
  <2> QED
    BY <2>4 DEF Abs!Next
<1>6. Next => (\E c \in Clients : ClientInvoke(c) \/ \E m \in toClient : ClientRecvReply(c, m)) \/ ReplicaNext
  BY DEF Next, ReplicaNext, RecvReply
<1> QED
  BY <1>2, <1>3, <1>4, <1>5, <1>6

(***************************************************************************)
(* When the pre-prepares are verified in the order of their numbers, the   *)
(* replicas are one linearizable service: every call takes effect once, in *)
(* an order common to all replicas, between the invocation and the f + 1   *)
(* equal replies that complete it (insert_commit, Recv<Reply> at 158), and *)
(* these were computed at its place in the order.                          *)
(***************************************************************************)
THEOREM ImplementsService ==
  ASSUME InOrder
  PROVE  Spec => ServiceSpec
<1>1. Init => KInv /\ RInv /\ Abs!Init
  BY InitKeeps, InitTrue, InitImplements
<1>2. IInv /\ KInv /\ [Next]_vars => KInv'
  BY KeepsStep
<1>3. IInv /\ IInv' /\ RInv /\ [Next]_vars => RInv'
  BY StepTrue
<1>4. IInv /\ IInv' /\ KInv /\ KInv' /\ RInv /\ RInv' /\ [Next]_vars => [Abs!Next]_<<AbsLog, AbsCall, AbsResults>>
  BY StepImplements
<1> QED
  BY <1>1, <1>2, <1>3, <1>4, Invariance, PTL DEF Spec, ServiceSpec, Abs!Spec, Abs!vars
=============================================================================
