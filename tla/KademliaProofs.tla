--------------------------- MODULE KademliaProofs ---------------------------
(***************************************************************************)
(* Proofs for BucketTable and Kademlia, for every width of identifiers,    *)
(* every size of buckets, and every net of peers.                          *)
(***************************************************************************)
EXTENDS Kademlia, BucketTable, SequenceTheorems, FiniteSetTheorems, WellFoundedInduction, TLAPS

(* What a list of distinct identifiers is after one is taken out of it. *)
LEMMA RemovedFacts ==
  ASSUME NEW s \in Seq(Ids), Distinct(s), NEW id
  PROVE  /\ Removed(s, id) \in Seq(Ids)
         /\ Distinct(Removed(s, id))
         /\ Elements(Removed(s, id)) = Elements(s) \ {id}
         /\ Len(Removed(s, id)) = IF In(s, id) THEN Len(s) - 1 ELSE Len(s)
<1>1. CASE ~In(s, id)
  <2>1. Removed(s, id) = s
    BY <1>1 DEF Removed
  <2>2. Elements(s) = Elements(s) \ {id}
    BY <1>1 DEF In, Elements
  <2> QED
    BY <1>1, <2>1, <2>2
<1>2. CASE In(s, id)
  <2> DEFINE p == Position(s, id)
             r == Removed(s, id)
  <2>1. p \in 1..Len(s) /\ s[p] = id
    BY <1>2 DEF In, Position
  <2>2. r = [k \in 1..Len(s) - 1 |-> s[IF k < p THEN k ELSE k + 1]]
    BY <1>2 DEF Removed
  <2> HIDE DEF p, r
  <2>3. Len(s) - 1 \in Nat
    BY <2>1
  <2>4. r \in Seq(Ids) /\ Len(r) = Len(s) - 1 /\ DOMAIN r = 1..Len(s) - 1
    BY <2>1, <2>2, <2>3
  <2>5. \A k \in 1..Len(s) - 1 : r[k] = s[IF k < p THEN k ELSE k + 1]
    BY <2>2
  <2>6. \A j, k \in 1..Len(s) : s[j] = s[k] => j = k
    BY DEF Distinct
  <2>7. Distinct(r)
    <3> SUFFICES ASSUME NEW j \in 1..Len(s) - 1, NEW k \in 1..Len(s) - 1, r[j] = r[k] PROVE j = k
      BY <2>4 DEF Distinct
    <3> DEFINE a == IF j < p THEN j ELSE j + 1
               b == IF k < p THEN k ELSE k + 1
    <3>1. a \in 1..Len(s) /\ b \in 1..Len(s)
      BY <2>1
    <3>2. s[a] = s[b]
      BY <2>5
    <3>3. a = b
      BY <2>6, <3>1, <3>2
    <3> QED
      BY <2>1, <3>3
  <2>8. Elements(r) \subseteq Elements(s) \ {id}
    BY <2>1, <2>3, <2>4, <2>5, <2>6 DEF Elements
  <2>9. ASSUME NEW x \in Elements(s) \ {id} PROVE x \in Elements(r)
    <3>1. PICK k \in 1..Len(s) : s[k] = x
      BY DEF Elements
    <3>2. k # p
      BY <2>1, <3>1
    <3>3. CASE k < p
      <4>1. k \in DOMAIN r /\ r[k] = x
        BY <2>1, <2>3, <2>4, <2>5, <3>1, <3>3
      <4> QED
        BY <4>1 DEF Elements
    <3>4. CASE k > p
      <4>1. k - 1 \in DOMAIN r /\ r[k - 1] = x
        BY <2>1, <2>3, <2>4, <2>5, <3>1, <3>4
      <4> QED
        BY <4>1 DEF Elements
    <3> QED
      BY <2>1, <3>2, <3>3, <3>4
  <2> QED
    BY <1>2, <2>4, <2>7, <2>8, <2>9 DEF r
<1> QED
  BY <1>1, <1>2

(* One more identifier at the end of such a list. *)
LEMMA AppendFacts ==
  ASSUME NEW s \in Seq(Ids), Distinct(s), NEW id \in Ids, id \notin Elements(s)
  PROVE  /\ Append(s, id) \in Seq(Ids)
         /\ Distinct(Append(s, id))
         /\ Elements(Append(s, id)) = Elements(s) \cup {id}
         /\ Len(Append(s, id)) = Len(s) + 1
<1> DEFINE t == Append(s, id)
<1>1. /\ t \in Seq(Ids) /\ Len(t) = Len(s) + 1 /\ DOMAIN t = 1..Len(s) + 1
      /\ t[Len(s) + 1] = id
      /\ \A k \in 1..Len(s) : t[k] = s[k]
  OBVIOUS
<1> HIDE DEF t
<1>2. \A k \in 1..Len(s) : s[k] # id
  BY DEF Elements
<1>3. Distinct(t)
  BY <1>1, <1>2 DEF Distinct
<1>4. Elements(t) = Elements(s) \cup {id}
  <2>1. Elements(t) \subseteq Elements(s) \cup {id}
    BY <1>1 DEF Elements
  <2>2. id \in Elements(t)
    BY <1>1 DEF Elements
  <2>3. Elements(s) \subseteq Elements(t)
    BY <1>1 DEF Elements
  <2> QED
    BY <2>1, <2>2, <2>3
<1> QED
  BY <1>1, <1>3, <1>4 DEF t

(* One more at the front. *)
LEMMA PrependFacts ==
  ASSUME NEW s \in Seq(Ids), Distinct(s), NEW id \in Ids, id \notin Elements(s)
  PROVE  /\ <<id>> \o s \in Seq(Ids)
         /\ Distinct(<<id>> \o s)
         /\ Elements(<<id>> \o s) = Elements(s) \cup {id}
         /\ Len(<<id>> \o s) = Len(s) + 1
<1> DEFINE t == <<id>> \o s
<1>1. /\ t \in Seq(Ids) /\ Len(t) = Len(s) + 1 /\ DOMAIN t = 1..Len(s) + 1
      /\ t[1] = id
      /\ \A k \in 2..Len(s) + 1 : t[k] = s[k - 1]
  OBVIOUS
<1> HIDE DEF t
<1>2. \A k \in 1..Len(s) : s[k] # id
  BY DEF Elements
<1>3. Distinct(t)
  <2> SUFFICES ASSUME NEW j \in 1..Len(s) + 1, NEW k \in 1..Len(s) + 1, j < k PROVE t[j] # t[k]
    BY <1>1 DEF Distinct
  <2>1. k - 1 \in 1..Len(s) /\ t[k] = s[k - 1]
    BY <1>1
  <2>2. CASE j = 1
    BY <1>1, <1>2, <2>1, <2>2
  <2>3. CASE j # 1
    <3>1. j - 1 \in 1..Len(s) /\ t[j] = s[j - 1] /\ j - 1 # k - 1
      BY <1>1, <2>3
    <3> QED
      BY <2>1, <3>1 DEF Distinct
  <2> QED
    BY <2>2, <2>3
<1>4. Elements(t) = Elements(s) \cup {id}
  <2>1. ASSUME NEW k \in DOMAIN t PROVE t[k] \in Elements(s) \cup {id}
    <3>1. CASE k = 1
      BY <1>1, <3>1
    <3>2. CASE k > 1
      <4>1. k - 1 \in DOMAIN s /\ t[k] = s[k - 1]
        BY <1>1, <3>2
      <4> QED
        BY <4>1 DEF Elements
    <3> QED
      BY <1>1, <3>1, <3>2
  <2>2. id \in Elements(t)
    BY <1>1 DEF Elements
  <2>3. ASSUME NEW k \in DOMAIN s PROVE s[k] \in Elements(t)
    <3>1. k + 1 \in DOMAIN t /\ t[k + 1] = s[k]
      BY <1>1
    <3> QED
      BY <3>1 DEF Elements
  <2> QED
    BY <2>1, <2>2, <2>3 DEF Elements
<1> QED
  BY <1>1, <1>3, <1>4 DEF t

(* Without the first one. *)
LEMMA TailFacts ==
  ASSUME NEW s \in Seq(Ids), Distinct(s), s # <<>>
  PROVE  /\ Tail(s) \in Seq(Ids) /\ Distinct(Tail(s))
         /\ Elements(Tail(s)) \subseteq Elements(s)
         /\ Len(Tail(s)) = Len(s) - 1
  BY DEF Distinct, Elements

(* Without the last one. *)
LEMMA FrontFacts ==
  ASSUME NEW s \in Seq(Ids), Distinct(s), Len(s) > 0
  PROVE  /\ SubSeq(s, 1, Len(s) - 1) \in Seq(Ids) /\ Distinct(SubSeq(s, 1, Len(s) - 1))
         /\ Elements(SubSeq(s, 1, Len(s) - 1)) = Elements(s) \ {s[Len(s)]}
         /\ s[Len(s)] \in Elements(s)
         /\ Len(SubSeq(s, 1, Len(s) - 1)) = Len(s) - 1
<1> DEFINE t == SubSeq(s, 1, Len(s) - 1)
<1>1. /\ t \in Seq(Ids) /\ Len(t) = Len(s) - 1 /\ DOMAIN t = 1..Len(s) - 1
      /\ \A k \in 1..Len(s) - 1 : t[k] = s[k]
  <2>1. Len(s) - 1 \in Nat /\ DOMAIN s = 1..Len(s)
    OBVIOUS
  <2>2. t = [k \in 1..Len(s) - 1 |-> s[k]]
    BY <2>1, SubSeqProperties DEF t
  <2> HIDE DEF t
  <2> QED
    BY <2>1, <2>2
<1> HIDE DEF t
<1>2. \A j, k \in 1..Len(s) : s[j] = s[k] => j = k
  BY DEF Distinct
<1>3. Distinct(t)
  BY <1>1, <1>2 DEF Distinct
<1>4. Elements(t) = Elements(s) \ {s[Len(s)]}
  <2>1. Elements(t) \subseteq Elements(s) \ {s[Len(s)]}
    BY <1>1, <1>2 DEF Elements
  <2>2. ASSUME NEW k \in DOMAIN s, s[k] # s[Len(s)] PROVE s[k] \in Elements(t)
    <3>1. k \in DOMAIN t /\ t[k] = s[k]
      BY <1>1, <2>2
    <3> QED
      BY <3>1 DEF Elements
  <2> QED
    BY <2>1, <2>2 DEF Elements
<1>5. s[Len(s)] \in Elements(s)
  BY DEF Elements
<1> QED
  BY <1>1, <1>3, <1>4, <1>5 DEF t

(* insert keeps a bucket well formed and pushes nobody out. *)
LEMMA InsertedFacts ==
  ASSUME NEW b \in [records : Seq(Ids), cached : Seq(Ids)], WellFormed(b), NEW id \in Ids
  PROVE  /\ Inserted(b, id) \in [records : Seq(Ids), cached : Seq(Ids)]
         /\ WellFormed(Inserted(b, id))
         /\ Elements(Inserted(b, id).records) \cup Elements(Inserted(b, id).cached)
              \subseteq Elements(b.records) \cup Elements(b.cached) \cup {id}
         /\ Elements(b.records) \subseteq Elements(Inserted(b, id).records)
         /\ Len(Inserted(b, id).records) >= Len(b.records)
<1> DEFINE R == Removed(b.records, id)
           C == Removed(b.cached, id)
           D == IF Len(C) = BucketSize THEN Tail(C) ELSE C
<1>1. /\ b.records \in Seq(Ids) /\ b.cached \in Seq(Ids)
      /\ Len(b.records) <= BucketSize /\ Len(b.cached) <= BucketSize
      /\ Distinct(b.records) /\ Distinct(b.cached)
      /\ Elements(b.records) \cap Elements(b.cached) = {}
      /\ b.cached # <<>> => Len(b.records) = BucketSize
  BY DEF WellFormed
<1>2. /\ R \in Seq(Ids) /\ Distinct(R) /\ Elements(R) = Elements(b.records) \ {id}
      /\ Len(R) = IF In(b.records, id) THEN Len(b.records) - 1 ELSE Len(b.records)
  BY <1>1, RemovedFacts
<1>3. /\ C \in Seq(Ids) /\ Distinct(C) /\ Elements(C) = Elements(b.cached) \ {id}
      /\ Len(C) = IF In(b.cached, id) THEN Len(b.cached) - 1 ELSE Len(b.cached)
  BY <1>1, RemovedFacts
<1>4. In(b.records, id) <=> id \in Elements(b.records)
  BY DEF In, Elements
<1>5. BucketSize \in Nat /\ BucketSize > 0
  BY BucketSizeAssumption
<1>6. Inserted(b, id) = IF Len(R) < BucketSize
                        THEN [b EXCEPT !.records = Append(R, id)]
                        ELSE [records |-> R, cached |-> Append(D, id)]
  BY DEF Inserted
<1> HIDE DEF R, C, D
<1>7. CASE Len(R) < BucketSize
  <2>1. Inserted(b, id).records = Append(R, id) /\ Inserted(b, id).cached = b.cached
    BY <1>6, <1>7
  <2>2. /\ Append(R, id) \in Seq(Ids) /\ Distinct(Append(R, id))
        /\ Elements(Append(R, id)) = Elements(R) \cup {id} /\ Len(Append(R, id)) = Len(R) + 1
    BY <1>2, AppendFacts
  <2>3. id \notin Elements(b.cached)
    <3>1. CASE b.cached = <<>>
      BY <3>1 DEF Elements
    <3>2. CASE b.cached # <<>>
      BY <1>1, <1>2, <1>4, <1>5, <1>7, <3>2
    <3> QED
      BY <3>1, <3>2
  <2>4. Len(Append(R, id)) >= Len(b.records) /\ Len(Append(R, id)) <= BucketSize
    BY <1>1, <1>2, <1>5, <1>7, <2>2
  <2>5. b.cached # <<>> => Len(Append(R, id)) = BucketSize
    BY <1>1, <1>2, <1>5, <2>4
  <2>6. WellFormed(Inserted(b, id))
    BY <1>1, <1>2, <2>1, <2>2, <2>3, <2>4, <2>5 DEF WellFormed
  <2>7. Inserted(b, id) \in [records : Seq(Ids), cached : Seq(Ids)]
    BY <1>6, <1>7, <2>2
  <2> QED
    BY <1>2, <2>1, <2>2, <2>4, <2>6, <2>7
<1>8. CASE ~(Len(R) < BucketSize)
  <2>1. Inserted(b, id).records = R /\ Inserted(b, id).cached = Append(D, id)
    BY <1>6, <1>8
  <2>2. ~In(b.records, id) /\ Len(R) = BucketSize /\ Len(b.records) = BucketSize
    BY <1>1, <1>2, <1>5, <1>8
  <2>3. Elements(R) = Elements(b.records)
    BY <1>2, <1>4, <2>2
  <2>4. /\ D \in Seq(Ids) /\ Distinct(D) /\ Elements(D) \subseteq Elements(C)
        /\ Len(D) < BucketSize
    <3>1. CASE Len(C) = BucketSize
      <4>1. C # <<>>
        BY <1>5, <3>1
      <4> QED
        BY <1>3, <1>5, <3>1, <4>1, TailFacts DEF D
    <3>2. CASE Len(C) # BucketSize
      BY <1>1, <1>3, <1>5, <3>2 DEF D
    <3> QED
      BY <3>1, <3>2
  <2>5. /\ Append(D, id) \in Seq(Ids) /\ Distinct(Append(D, id))
        /\ Elements(Append(D, id)) = Elements(D) \cup {id} /\ Len(Append(D, id)) = Len(D) + 1
    BY <1>3, <2>4, AppendFacts
  <2>6. Len(Append(D, id)) <= BucketSize
    BY <1>5, <2>4, <2>5
  <2>7. Elements(R) \cap Elements(Append(D, id)) = {}
    BY <1>1, <1>3, <1>4, <2>2, <2>3, <2>4, <2>5
  <2>8. WellFormed(Inserted(b, id))
    BY <1>2, <1>5, <2>1, <2>2, <2>5, <2>6, <2>7 DEF WellFormed
  <2>9. Inserted(b, id) \in [records : Seq(Ids), cached : Seq(Ids)]
    BY <1>2, <1>6, <1>8, <2>5
  <2> QED
    BY <1>1, <1>3, <1>5, <2>1, <2>2, <2>3, <2>4, <2>5, <2>8, <2>9
<1> QED
  BY <1>7, <1>8

(* remove keeps a bucket well formed and as long as it was, and replaces a *)
(* record only by a cached one.                                            *)
LEMMA WithoutFacts ==
  ASSUME NEW b \in [records : Seq(Ids), cached : Seq(Ids)], WellFormed(b), NEW id \in Ids
  PROVE  /\ Without(b, id) \in [records : Seq(Ids), cached : Seq(Ids)]
         /\ WellFormed(Without(b, id))
         /\ Elements(Without(b, id).records) \cup Elements(Without(b, id).cached)
              \subseteq Elements(b.records) \cup Elements(b.cached)
         /\ Elements(b.records) \subseteq Elements(Without(b, id).records) \/ b.cached # <<>>
         /\ Len(Without(b, id).records) >= Len(b.records)
<1> DEFINE R == Removed(b.records, id)
           n == Len(b.cached)
           last == b.cached[n]
           F == SubSeq(b.cached, 1, n - 1)
<1>1. /\ b.records \in Seq(Ids) /\ b.cached \in Seq(Ids)
      /\ Len(b.records) <= BucketSize /\ Len(b.cached) <= BucketSize
      /\ Distinct(b.records) /\ Distinct(b.cached)
      /\ Elements(b.records) \cap Elements(b.cached) = {}
      /\ b.cached # <<>> => Len(b.records) = BucketSize
      /\ BucketSize \in Nat /\ n \in Nat /\ Len(b.records) \in Nat
  BY BucketSizeAssumption DEF WellFormed
<1>2. /\ R \in Seq(Ids) /\ Distinct(R) /\ Elements(R) = Elements(b.records) \ {id}
      /\ Len(R) = IF In(b.records, id) THEN Len(b.records) - 1 ELSE Len(b.records)
  BY <1>1, RemovedFacts
<1>3. Without(b, id) = IF ~In(b.records, id) THEN b
                       ELSE IF n > 0 THEN [records |-> Append(R, last), cached |-> F]
                       ELSE [b EXCEPT !.records = <<id>> \o R]
  BY DEF Without
<1>4. In(b.records, id) <=> id \in Elements(b.records)
  BY DEF In, Elements
<1> HIDE DEF R, n, last, F
<1>5. CASE ~In(b.records, id)
  <2>1. Without(b, id) = b
    BY <1>3, <1>5
  <2> QED
    BY <1>1, <2>1
<1>6. CASE In(b.records, id) /\ n > 0
  <2>1. Without(b, id).records = Append(R, last) /\ Without(b, id).cached = F
    BY <1>3, <1>6
  <2>2. /\ F \in Seq(Ids) /\ Distinct(F) /\ Elements(F) = Elements(b.cached) \ {last}
        /\ last \in Elements(b.cached) /\ Len(F) = n - 1
    BY <1>1, <1>6, FrontFacts DEF F, n, last
  <2>3. last \in Ids /\ last \notin Elements(R)
    <3>1. last \in Ids
      BY <1>1, <2>2 DEF Elements
    <3>2. last \notin Elements(b.records)
      BY <1>1, <2>2
    <3> QED
      BY <1>2, <3>1, <3>2
  <2>4. /\ Append(R, last) \in Seq(Ids) /\ Distinct(Append(R, last))
        /\ Elements(Append(R, last)) = Elements(R) \cup {last} /\ Len(Append(R, last)) = Len(R) + 1
    BY <1>2, <2>3, AppendFacts
  <2>5. b.cached # <<>>
    BY <1>6 DEF n
  <2>6. Len(Append(R, last)) = Len(b.records) /\ Len(b.records) = BucketSize
    BY <1>1, <1>2, <1>6, <2>4, <2>5
  <2>7. Elements(Append(R, last)) \cap Elements(F) = {}
    BY <1>1, <1>2, <2>2, <2>4
  <2>8. Len(F) <= BucketSize
    BY <1>1, <2>2 DEF n
  <2>9. WellFormed(Without(b, id))
    BY <1>1, <2>1, <2>2, <2>4, <2>6, <2>7, <2>8 DEF WellFormed
  <2>10. Without(b, id) \in [records : Seq(Ids), cached : Seq(Ids)]
    BY <1>3, <1>6, <2>2, <2>4
  <2> QED
    BY <1>1, <1>2, <2>1, <2>2, <2>4, <2>5, <2>6, <2>9, <2>10
<1>7. CASE In(b.records, id) /\ ~(n > 0)
  <2> DEFINE P == <<id>> \o R
  <2>1. Without(b, id).records = P /\ Without(b, id).cached = b.cached
    BY <1>3, <1>7
  <2>2. /\ P \in Seq(Ids) /\ Distinct(P)
        /\ Elements(P) = Elements(R) \cup {id} /\ Len(P) = Len(R) + 1
    BY <1>2, PrependFacts
  <2> HIDE DEF P
  <2>3. Elements(P) = Elements(b.records) /\ Len(P) = Len(b.records)
    BY <1>1, <1>2, <1>4, <1>7, <2>2
  <2>4. WellFormed(Without(b, id))
    BY <1>1, <2>1, <2>2, <2>3 DEF WellFormed
  <2>5. Without(b, id) \in [records : Seq(Ids), cached : Seq(Ids)]
    BY <1>3, <1>7, <2>2 DEF P
  <2> QED
    BY <1>1, <2>1, <2>3, <2>4, <2>5
<1> QED
  BY <1>5, <1>6, <1>7

(* The bucket a step changes is the one of its identifier; the others stay. *)
LEMMA InsertStep ==
  ASSUME BucketsWellFormed, NEW id \in Ids, InsertRecord(id), NEW i \in Indices
  PROVE  table'[i] = IF i = Index(Origin, id) THEN Inserted(table[i], id) ELSE table[i]
  BY DEF BucketsWellFormed, InsertRecord, Insert

LEMMA RemoveStep ==
  ASSUME BucketsWellFormed, NEW id \in Ids, RemoveRecord(id), NEW i \in Indices
  PROVE  table'[i] = IF i = Index(Origin, id) THEN Without(table[i], id) ELSE table[i]
  BY DEF BucketsWellFormed, RemoveRecord, Remove

(* The table stays a table of buckets. *)
LEMMA TableType ==
  ASSUME BucketsWellFormed, [TableNext]_table
  PROVE  table' \in [Indices -> [records : Seq(Ids), cached : Seq(Ids)]]
<1>1. ASSUME NEW id \in Contacts, InsertRecord(id)
      PROVE  table' \in [Indices -> [records : Seq(Ids), cached : Seq(Ids)]]
  <2>0. id \in Ids
    BY ContactsAssumption
  <2>1. Index(Origin, id) \in Indices =>
          Inserted(table[Index(Origin, id)], id) \in [records : Seq(Ids), cached : Seq(Ids)]
    BY <2>0, InsertedFacts DEF BucketsWellFormed
  <2> QED
    BY <1>1, <2>1 DEF BucketsWellFormed, InsertRecord, Insert
<1>2. ASSUME NEW id \in Contacts, RemoveRecord(id)
      PROVE  table' \in [Indices -> [records : Seq(Ids), cached : Seq(Ids)]]
  <2>0. id \in Ids
    BY ContactsAssumption
  <2>1. Index(Origin, id) \in Indices =>
          Without(table[Index(Origin, id)], id) \in [records : Seq(Ids), cached : Seq(Ids)]
    BY <2>0, WithoutFacts DEF BucketsWellFormed
  <2> QED
    BY <1>2, <2>1 DEF BucketsWellFormed, RemoveRecord, Remove
<1>3. CASE UNCHANGED table
  BY <1>3 DEF BucketsWellFormed
<1> QED
  BY <1>1, <1>2, <1>3 DEF TableNext

(* What one step does to a bucket. *)
LEMMA BucketStep ==
  ASSUME TableInv, [TableNext]_table, NEW i \in Indices
  PROVE  /\ WellFormed(table'[i])
         /\ \A id \in Elements(table'[i].records) \cup Elements(table'[i].cached) :
               id # Origin /\ Index(Origin, id) = i
         /\ Len(table'[i].records) >= Len(table[i].records)
         /\ \/ Elements(table[i].records) \subseteq Elements(table'[i].records)
            \/ \E id \in Contacts : RemoveRecord(id) /\ table[i].cached # <<>>
<1>1. /\ table[i] \in [records : Seq(Ids), cached : Seq(Ids)] /\ WellFormed(table[i])
      /\ \A id \in Elements(table[i].records) \cup Elements(table[i].cached) :
            id # Origin /\ Index(Origin, id) = i
      /\ BucketsWellFormed
  BY DEF TableInv, BucketsWellFormed, Placed
<1>2. CASE table'[i] = table[i]
  <2>1. Len(table[i].records) >= Len(table[i].records)
    BY <1>1
  <2> QED
    BY <1>1, <1>2, <2>1
<1>3. ASSUME NEW id \in Contacts, InsertRecord(id), table'[i] # table[i]
      PROVE  /\ WellFormed(table'[i])
             /\ \A x \in Elements(table'[i].records) \cup Elements(table'[i].cached) :
                   x # Origin /\ Index(Origin, x) = i
             /\ Len(table'[i].records) >= Len(table[i].records)
             /\ Elements(table[i].records) \subseteq Elements(table'[i].records)
  <2>0. id \in Ids
    BY ContactsAssumption
  <2>1. i = Index(Origin, id) /\ id # Origin /\ table'[i] = Inserted(table[i], id)
    BY <1>1, <1>3, <2>0, InsertStep DEF InsertRecord
  <2>2. /\ WellFormed(Inserted(table[i], id))
        /\ Elements(Inserted(table[i], id).records) \cup Elements(Inserted(table[i], id).cached)
             \subseteq Elements(table[i].records) \cup Elements(table[i].cached) \cup {id}
        /\ Elements(table[i].records) \subseteq Elements(Inserted(table[i], id).records)
        /\ Len(Inserted(table[i], id).records) >= Len(table[i].records)
    BY <1>1, <2>0, InsertedFacts
  <2> QED
    BY <1>1, <2>1, <2>2
<1>4. ASSUME NEW id \in Contacts, RemoveRecord(id), table'[i] # table[i]
      PROVE  /\ WellFormed(table'[i])
             /\ \A x \in Elements(table'[i].records) \cup Elements(table'[i].cached) :
                   x # Origin /\ Index(Origin, x) = i
             /\ Len(table'[i].records) >= Len(table[i].records)
             /\ Elements(table[i].records) \subseteq Elements(table'[i].records) \/ table[i].cached # <<>>
  <2>0. id \in Ids
    BY ContactsAssumption
  <2>1. i = Index(Origin, id) /\ table'[i] = Without(table[i], id)
    BY <1>1, <1>4, <2>0, RemoveStep
  <2>2. /\ WellFormed(Without(table[i], id))
        /\ Elements(Without(table[i], id).records) \cup Elements(Without(table[i], id).cached)
             \subseteq Elements(table[i].records) \cup Elements(table[i].cached)
        /\ Elements(table[i].records) \subseteq Elements(Without(table[i], id).records) \/ table[i].cached # <<>>
        /\ Len(Without(table[i], id).records) >= Len(table[i].records)
    BY <1>1, <2>0, WithoutFacts
  <2> QED
    BY <1>1, <2>1, <2>2
<1> QED
  BY <1>2, <1>3, <1>4 DEF TableNext

(* The invariant at the start and after every step. *)
LEMMA InvInit == TableInit => TableInv
<1> SUFFICES ASSUME TableInit PROVE TableInv
  OBVIOUS
<1>1. <<>> \in Seq(Ids) /\ Len(<<>>) = 0 /\ Elements(<<>>) = {} /\ Distinct(<<>>)
  BY DEF Elements, Distinct
<1>2. table \in [Indices -> [records : Seq(Ids), cached : Seq(Ids)]]
  BY <1>1 DEF TableInit, EmptyTable
<1>3. \A i \in Indices : table[i].records = <<>> /\ table[i].cached = <<>>
  BY DEF TableInit, EmptyTable
<1>4. ASSUME NEW i \in Indices PROVE WellFormed(table[i])
  <2>1. 0 <= BucketSize
    BY BucketSizeAssumption
  <2>2. table[i].records = <<>> /\ table[i].cached = <<>>
    BY <1>3
  <2> QED
    BY <1>1, <2>1, <2>2, Zenon DEF WellFormed
<1>5. Placed
  BY <1>1, <1>3 DEF Placed
<1> QED
  BY <1>2, <1>4, <1>5 DEF TableInv, BucketsWellFormed

LEMMA InvStep == TableInv /\ [TableNext]_table => TableInv'
<1> SUFFICES ASSUME TableInv, [TableNext]_table PROVE TableInv'
  OBVIOUS
<1>1. BucketsWellFormed'
  BY BucketStep, TableType DEF TableInv, BucketsWellFormed
<1>2. Placed'
  BY BucketStep DEF Placed
<1> QED
  BY <1>1, <1>2 DEF TableInv

(* Under any sequence of insert and remove (kademlia.rs:118, 158) buckets  *)
(* stay within their size, hold nobody twice, cache only behind a full     *)
(* list and hold only identifiers of their distance, for every width and   *)
(* bucket size.                                                            *)
THEOREM Invariance == TableSpec => []TableInv
  BY InvInit, InvStep, PTL DEF TableSpec

(* No insert or remove makes a bucket shorter, and only remove replaces a  *)
(* record, by a cached one (128-137, 163-169).                             *)
THEOREM Keeps == TableSpec => NeverShrinks
<1>1. TableInv /\ [TableNext]_table =>
        [\A i \in Indices : /\ Len(table'[i].records) >= Len(table[i].records)
                            /\ \/ Elements(table[i].records) \subseteq Elements(table'[i].records)
                               \/ \E id \in Contacts : RemoveRecord(id) /\ table[i].cached # <<>>]_table
  BY BucketStep
<1> QED
  BY <1>1, InvInit, InvStep, PTL DEF TableSpec, NeverShrinks

-----------------------------------------------------------------------------
(* The order of distances is the strict order of numbers. *)

LEMMA LeastNumber ==
  ASSUME NEW T \in SUBSET Nat, T # {}
  PROVE  \E n \in T : \A m \in T : n <= m
<1>1. PICK n \in T : \A m \in T : ~(<<m, n>> \in OpToRel(<, Nat))
  BY NatLessThanWellFounded, WFMin
<1>2. ASSUME NEW m \in T, m < n PROVE FALSE
  <2>1. <<m, n>> \in OpToRel(<, Nat)
    BY <1>2 DEF OpToRel
  <2> QED
    BY <1>1, <2>1
<1>3. \A m \in T : n <= m
  BY <1>2
<1> QED
  BY <1>3

(* A set of bits that is not empty has a highest one. *)
LEMMA HighestBit ==
  ASSUME NEW S \in SUBSET Indices, S # {}
  PROVE  \E i \in S : \A j \in S : j <= i
<1> SUFFICES ASSUME \A i \in S : \E j \in S : j > i PROVE FALSE
  BY BitsAssumption DEF Indices
<1> DEFINE gaps == {n \in Nat : \E i \in S : n = Bits - i}
<1>1. \A i \in S : i \in Nat /\ i < Bits
  BY BitsAssumption DEF Indices
<1>2. gaps # {} /\ gaps \subseteq Nat
  BY <1>1, BitsAssumption
<1>3. PICK n \in gaps : \A m \in gaps : n <= m
  <2> HIDE DEF gaps
  <2> QED
    BY <1>2, LeastNumber
<1>4. PICK i \in S : n = Bits - i
  OBVIOUS
<1>5. PICK j \in S : j > i
  OBVIOUS
<1>6. Bits - j \in gaps /\ Bits - j < n
  BY <1>1, <1>4, <1>5, BitsAssumption
<1> QED
  BY <1>3, <1>6

LEMMA BelowNot ==
  ASSUME NEW d
  PROVE  ~Below(d, d)
  BY DEF Below

LEMMA BelowThen ==
  ASSUME NEW d \in Ids, NEW e \in Ids, NEW f \in Ids, Below(d, e), Below(e, f)
  PROVE  Below(d, f)
<1>1. \A i \in Indices : i \in Int
  BY BitsAssumption DEF Indices
<1>2. PICK i \in e \ d : \A j \in Indices : j > i => (j \in d <=> j \in e)
  BY DEF Below
<1>3. PICK k \in f \ e : \A j \in Indices : j > k => (j \in e <=> j \in f)
  BY DEF Below
<1>4. i \in Indices /\ k \in Indices
  BY DEF Ids
<1>5. CASE i < k
  <2>1. k \in f \ d
    BY <1>2, <1>3, <1>4, <1>5
  <2>2. \A j \in Indices : j > k => (j \in d <=> j \in f)
    BY <1>1, <1>2, <1>3, <1>4, <1>5
  <2> QED
    BY <2>1, <2>2 DEF Below
<1>6. CASE k < i
  <2>1. i \in f \ d
    BY <1>2, <1>3, <1>4, <1>6
  <2>2. \A j \in Indices : j > i => (j \in d <=> j \in f)
    BY <1>1, <1>2, <1>3, <1>4, <1>6
  <2> QED
    BY <2>1, <2>2 DEF Below
<1>7. i # k
  BY <1>2, <1>3
<1> QED
  BY <1>1, <1>4, <1>5, <1>6, <1>7

LEMMA BelowOr ==
  ASSUME NEW d \in Ids, NEW e \in Ids, d # e
  PROVE  Below(d, e) \/ Below(e, d)
<1> DEFINE differ == (d \ e) \cup (e \ d)
<1>1. differ \in SUBSET Indices /\ differ # {}
  BY DEF Ids
<1>2. PICK i \in differ : \A j \in differ : j <= i
  BY <1>1, HighestBit
<1>3. \A j \in Indices : j > i => j \notin differ
  BY <1>1, <1>2, BitsAssumption DEF Indices
<1>4. \A j \in Indices : j > i => (j \in d <=> j \in e)
  BY <1>3
<1> QED
  BY <1>2, <1>4 DEF Below

LEMMA DistanceFacts ==
  ASSUME NEW a \in Ids, NEW b \in Ids
  PROVE  /\ Distance(a, b) \in Ids
         /\ Distance(a, b) = Distance(b, a)
         /\ Distance(a, b) = {} <=> a = b
         /\ \A i : i \in Distance(a, b) <=> ~(i \in a <=> i \in b)
  BY DEF Distance, Ids

(* To be nearer to a target is a strict order, and total: no two           *)
(* identifiers are as far from it.                                         *)
LEMMA NearerOrder ==
  ASSUME NEW target \in Ids
  PROVE  /\ \A x : ~Nearer(x, x, target)
         /\ \A x, y, z \in Ids : Nearer(x, y, target) /\ Nearer(y, z, target) => Nearer(x, z, target)
         /\ \A x, y \in Ids : x # y => Nearer(x, y, target) \/ Nearer(y, x, target)
<1>1. \A x \in Ids : Distance(x, target) \in Ids
  BY DistanceFacts
<1>2. \A x : ~Nearer(x, x, target)
  BY BelowNot DEF Nearer
<1>3. \A x, y, z \in Ids : Nearer(x, y, target) /\ Nearer(y, z, target) => Nearer(x, z, target)
  BY <1>1, BelowThen DEF Nearer
<1>4. ASSUME NEW x \in Ids, NEW y \in Ids, x # y PROVE Nearer(x, y, target) \/ Nearer(y, x, target)
  <2>1. Distance(x, target) # Distance(y, target)
    BY <1>4 DEF Distance, Ids
  <2> QED
    BY <1>1, <2>1, BelowOr DEF Nearer
<1> QED
  BY <1>2, <1>3, <1>4

(* In a finite set that R orders strictly and totally, the number of       *)
(* earlier ones is the place of an element: every place from 0 is taken,   *)
(* by one element.                                                         *)
Before(R, S, x) == {y \in S : <<y, x>> \in R}

StrictOrder(R, S) ==
  /\ \A x \in S : <<x, x>> \notin R
  /\ \A x, y, z \in S : <<x, y>> \in R /\ <<y, z>> \in R => <<x, z>> \in R
  /\ \A x, y \in S : x # y => <<x, y>> \in R \/ <<y, x>> \in R

LEMMA Places ==
  ASSUME NEW S, IsFiniteSet(S), NEW R, StrictOrder(R, S)
  PROVE  /\ Cardinality(S) \in Nat
         /\ \A x \in S : Cardinality(Before(R, S, x)) \in 0..Cardinality(S) - 1
         /\ \A x, y \in S : <<x, y>> \in R => Cardinality(Before(R, S, x)) < Cardinality(Before(R, S, y))
         /\ \A n \in 0..Cardinality(S) - 1 : \E x \in S : Cardinality(Before(R, S, x)) = n
<1> USE DEF StrictOrder
<1>1. Cardinality(S) \in Nat
  BY FS_CardinalityType
<1>2. \A x \in S : /\ IsFiniteSet(Before(R, S, x)) /\ Cardinality(Before(R, S, x)) \in Nat
                   /\ Before(R, S, x) \in SUBSET S
  <2> TAKE x \in S
  <2>1. Before(R, S, x) \in SUBSET S
    BY DEF Before
  <2>2. IsFiniteSet(Before(R, S, x))
    BY <2>1, FS_Subset
  <2> QED
    BY <2>1, <2>2, FS_CardinalityType
<1>3. ASSUME NEW x \in S PROVE Cardinality(Before(R, S, x)) \in 0..Cardinality(S) - 1
  <2>1. Cardinality(Before(R, S, x)) <= Cardinality(S)
        /\ (Cardinality(S) = Cardinality(Before(R, S, x)) => S = Before(R, S, x))
    BY <1>2, FS_Subset
  <2>2. x \notin Before(R, S, x)
    BY DEF Before
  <2> QED
    BY <1>1, <1>2, <2>1, <2>2
<1>4. ASSUME NEW x \in S, NEW y \in S, <<x, y>> \in R
      PROVE  Cardinality(Before(R, S, x)) < Cardinality(Before(R, S, y))
  <2>1. Before(R, S, x) \in SUBSET Before(R, S, y)
    BY <1>4 DEF Before
  <2>2. x \in Before(R, S, y) /\ x \notin Before(R, S, x)
    BY <1>4 DEF Before
  <2>3. Cardinality(Before(R, S, x)) <= Cardinality(Before(R, S, y))
        /\ (Cardinality(Before(R, S, y)) = Cardinality(Before(R, S, x)) => Before(R, S, y) = Before(R, S, x))
    BY <1>2, <2>1, FS_Subset
  <2> QED
    BY <1>2, <2>2, <2>3
<1>5. ASSUME NEW x \in S, NEW y \in S, Cardinality(Before(R, S, x)) = Cardinality(Before(R, S, y))
      PROVE  x = y
  <2>1. <<x, y>> \notin R
    BY <1>2, <1>4, <1>5
  <2>2. <<y, x>> \notin R
    BY <1>2, <1>4, <1>5
  <2> QED
    BY <2>1, <2>2
<1> DEFINE places == 0..Cardinality(S) - 1
           f == [x \in S |-> Cardinality(Before(R, S, x))]
<1>6. IsFiniteSet(places) /\ Cardinality(places) = Cardinality(S)
  <2>1. 0 \in Int /\ Cardinality(S) - 1 \in Int
    BY <1>1
  <2>2. /\ IsFiniteSet(0..Cardinality(S) - 1)
        /\ Cardinality(0..Cardinality(S) - 1) =
             IF 0 > Cardinality(S) - 1 THEN 0 ELSE Cardinality(S) - 1 - 0 + 1
    BY <2>1, FS_Interval
  <2> QED
    BY <1>1, <2>2
<1>7. f \in Injection(S, places)
  BY <1>3, <1>5 DEF Injection, IsInjective
<1>8. f \in Surjection(S, places)
  BY <1>6, <1>7, FS_Injection
<1>9. \A n \in places : \E x \in S : f[x] = n
  BY <1>8 DEF Surjection
<1> QED
  BY <1>1, <1>3, <1>4, <1>9

-----------------------------------------------------------------------------
(* Where identifiers belong. *)
LEMMA IndexIs ==
  ASSUME NEW a \in Ids, NEW b \in Ids, a # b
  PROVE  /\ Index(a, b) \in Indices /\ Index(a, b) \in Distance(a, b)
         /\ \A j \in Distance(a, b) : j <= Index(a, b)
<1>1. Distance(a, b) \in SUBSET Indices /\ Distance(a, b) # {}
  BY DistanceFacts DEF Ids
<1>2. PICK i \in Distance(a, b) : \A j \in Distance(a, b) : j <= i
  BY <1>1, HighestBit
<1>3. Index(a, b) \in Distance(a, b) /\ \A j \in Distance(a, b) : j <= Index(a, b)
  BY <1>2 DEF Index
<1> QED
  BY <1>1, <1>3

(* The distance between the target and what is in bucket i: the bits above *)
(* i are those of the distance of the origin, bit i is the other one, but  *)
(* for the origin itself.                                                  *)
InBucket(i, a) == a \in Ids /\ IF a = Origin THEN i = 0 ELSE i = Index(Origin, a)

LEMMA BucketDistance ==
  ASSUME NEW target \in Ids, NEW i \in Indices, NEW a, InBucket(i, a)
  PROVE  /\ \A j \in Indices : j > i => (j \in Distance(a, target) <=> j \in Distance(Origin, target))
         /\ a # Origin => (i \in Distance(a, target) <=> i \notin Distance(Origin, target))
<1>1. a \in Ids /\ Origin \in Ids
  BY OriginAssumption DEF InBucket
<1>2. \A j : /\ j \in Distance(a, target) <=> ~(j \in a <=> j \in target)
             /\ j \in Distance(Origin, target) <=> ~(j \in Origin <=> j \in target)
             /\ j \in Distance(Origin, a) <=> ~(j \in Origin <=> j \in a)
  BY <1>1, DistanceFacts
<1>3. CASE a = Origin
  BY <1>3
<1>4. CASE a # Origin
  <2>1. i \in Distance(Origin, a) /\ \A j \in Distance(Origin, a) : j <= i
    BY <1>1, <1>4, IndexIs DEF InBucket
  <2>2. \A j \in Indices : j > i => j \notin Distance(Origin, a)
    BY <2>1, BitsAssumption DEF Indices
  <2> QED
    BY <1>2, <2>1, <2>2
<1> QED
  BY <1>3, <1>4

(* A bucket that is visited before another one holds what is nearer. *)
LEMMA VisitsNearer ==
  ASSUME NEW target \in Ids, NEW i \in Indices, NEW j \in Indices, NEW a, NEW b,
         InBucket(i, a), InBucket(j, b), VisitedBefore(Distance(Origin, target), i, j)
  PROVE  Nearer(a, b, target)
<1> DEFINE d == Distance(Origin, target)
           da == Distance(a, target)
           db == Distance(b, target)
<1>1. /\ \A k \in Indices : k > i => (k \in da <=> k \in d)
      /\ a # Origin => (i \in da <=> i \notin d)
      /\ \A k \in Indices : k > j => (k \in db <=> k \in d)
      /\ b # Origin => (j \in db <=> j \notin d)
  BY BucketDistance
<1>2. (a = Origin => i = 0) /\ (b = Origin => j = 0)
  BY DEF InBucket
<1>3. \A k \in Indices : k \in Nat
  BY BitsAssumption DEF Indices
<1>4. \/ i \in d /\ (j \notin d \/ i > j)
      \/ i \notin d /\ j \notin d /\ i < j
  BY DEF VisitedBefore
<1> HIDE DEF d, da, db
<1>5. CASE i > j
  <2>1. i \in db \ da
    BY <1>1, <1>2, <1>3, <1>4, <1>5
  <2>2. \A k \in Indices : k > i => (k \in da <=> k \in db)
    BY <1>1, <1>3, <1>5
  <2> QED
    BY <2>1, <2>2 DEF Nearer, Below, da, db
<1>6. CASE i < j
  <2>1. j \notin d
    BY <1>3, <1>4, <1>6
  <2>2. j \in db \ da
    BY <1>1, <1>2, <1>3, <1>6, <2>1
  <2>3. \A k \in Indices : k > j => (k \in da <=> k \in db)
    BY <1>1, <1>3, <1>6
  <2> QED
    BY <2>2, <2>3 DEF Nearer, Below, da, db
<1> QED
  BY <1>3, <1>4, <1>5, <1>6

(* All that find_closest may visit is in its bucket, the order of the      *)
(* visits is the order of the distances, and total.                        *)
Known == {Origin} \cup UNION {Elements(table[i].records) : i \in Indices}

LEMMA VisitsAre ==
  ASSUME TableInv
  PROVE  /\ \A x \in Visits(Origin, table) : x[1] \in Indices /\ InBucket(x[1], x[2]) /\ x = <<x[1], x[2]>>
         /\ \A x \in Visits(Origin, table) : x[2] \in Known
         /\ \A a \in Known : \E x \in Visits(Origin, table) : x[2] = a
         /\ \A x, y \in Visits(Origin, table) : x[2] = y[2] => x = y
         /\ Known \subseteq Ids /\ Visits(Origin, table) \subseteq Indices \X Ids
<1> DEFINE all == Visits(Origin, table)
<1>1. \A i \in Indices : \A a \in Elements(table[i].records) : a \in Ids /\ a # Origin /\ Index(Origin, a) = i
  BY DEF TableInv, BucketsWellFormed, Placed, Elements
<1>2. ASSUME NEW x \in all
      PROVE  /\ x[1] \in Indices /\ InBucket(x[1], x[2]) /\ x = <<x[1], x[2]>> /\ x[2] \in Known
  <2>1. PICK i \in Indices : x \in {i} \X Candidates(Origin, table, i)
    BY DEF Visits
  <2>2. x[1] = i /\ x = <<x[1], x[2]>> /\ x[2] \in Candidates(Origin, table, i)
    BY <2>1
  <2>3. x[2] \in Elements(table[i].records) \/ (i = 0 /\ x[2] = Origin)
    BY <2>2 DEF Candidates, Elements
  <2> QED
    BY <1>1, <2>2, <2>3, OriginAssumption DEF InBucket, Known
<1>3. ASSUME NEW a \in Known PROVE \E x \in all : x[2] = a
  <2>1. CASE a = Origin
    <3>1. 0 \in Indices
      BY BitsAssumption DEF Indices
    <3>2. <<0, a>> \in {0} \X Candidates(Origin, table, 0)
      BY <2>1 DEF Candidates
    <3>3. <<0, a>> \in all
      BY <3>1, <3>2 DEF Visits
    <3> QED
      BY <3>3
  <2>2. CASE a # Origin
    <3>1. PICK i \in Indices : a \in Elements(table[i].records)
      BY <2>2 DEF Known
    <3>2. <<i, a>> \in {i} \X Candidates(Origin, table, i)
      BY <3>1 DEF Candidates, Elements
    <3>3. <<i, a>> \in all
      BY <3>2 DEF Visits
    <3> QED
      BY <3>3
  <2> QED
    BY <2>1, <2>2
<1>4. ASSUME NEW x \in all, NEW y \in all, x[2] = y[2] PROVE x = y
  <2>1. x[1] = y[1]
    BY <1>2, <1>4 DEF InBucket
  <2> QED
    BY <1>2, <1>4, <2>1
<1>5. Known \subseteq Ids
  BY <1>1, OriginAssumption DEF Known
<1>6. all \subseteq Indices \X Ids
  BY <1>2 DEF InBucket
<1> QED
  BY <1>2, <1>3, <1>4, <1>5, <1>6

LEMMA VisitsOrder ==
  ASSUME TableInv, NEW target \in Ids
  PROVE  /\ \A x, y \in Visits(Origin, table) :
               Earlier(Origin, target, x, y) <=> Nearer(x[2], y[2], target)
         /\ \A x, y \in Visits(Origin, table) :
               x # y => Earlier(Origin, target, x, y) \/ Earlier(Origin, target, y, x)
<1> DEFINE all == Visits(Origin, table)
           d == Distance(Origin, target)
<1>1. ASSUME NEW x \in all
      PROVE  x[1] \in Indices /\ InBucket(x[1], x[2]) /\ x = <<x[1], x[2]>> /\ x[2] \in Ids
  BY VisitsAre DEF InBucket
<1>2. ASSUME NEW x \in all, NEW y \in all, Earlier(Origin, target, x, y)
      PROVE  Nearer(x[2], y[2], target)
  <2>1. CASE VisitedBefore(d, x[1], y[1])
    BY <1>1, <2>1, VisitsNearer
  <2>2. CASE Nearer(x[2], y[2], target)
    BY <2>2
  <2> QED
    BY <1>2, <2>1, <2>2 DEF Earlier
<1>3. ASSUME NEW x \in all, NEW y \in all, x # y
      PROVE  Earlier(Origin, target, x, y) \/ Earlier(Origin, target, y, x)
  <2>1. x[1] \in Int /\ y[1] \in Int
    BY <1>1, BitsAssumption DEF Indices
  <2>2. CASE x[1] = y[1]
    <3>1. x[2] # y[2] /\ x[2] \in Ids /\ y[2] \in Ids
      BY <1>1, <1>3, <2>2
    <3>2. Nearer(x[2], y[2], target) \/ Nearer(y[2], x[2], target)
      BY <3>1, NearerOrder
    <3> QED
      BY <2>2, <3>2 DEF Earlier
  <2>3. CASE x[1] # y[1]
    <3> HIDE DEF d
    <3>1. VisitedBefore(d, x[1], y[1]) \/ VisitedBefore(d, y[1], x[1])
      BY <2>1, <2>3 DEF VisitedBefore
    <3> QED
      BY <3>1 DEF Earlier, d
  <2> QED
    BY <2>2, <2>3
<1>4. ASSUME NEW x \in all, NEW y \in all, Nearer(x[2], y[2], target)
      PROVE  Earlier(Origin, target, x, y)
  <2>1. x[2] \in Ids /\ y[2] \in Ids
    BY <1>1
  <2>2. ~Nearer(y[2], x[2], target) /\ x # y
    BY <1>4, <2>1, NearerOrder
  <2>3. ~Earlier(Origin, target, y, x)
    BY <1>2, <2>2
  <2> QED
    BY <1>3, <2>2, <2>3
<1> QED
  BY <1>2, <1>3, <1>4

LEMMA FiniteIds == IsFiniteSet(Ids) /\ IsFiniteSet(Indices)
<1>1. 0 \in Int /\ Bits - 1 \in Int
  BY BitsAssumption
<1>2. IsFiniteSet(Indices)
  BY <1>1, FS_Interval DEF Indices
<1> QED
  BY <1>2, FS_SUBSET DEF Ids

(* The place of a visit, among the visits and among what is known. *)
Place(target, x) == Cardinality({y \in Visits(Origin, table) : Earlier(Origin, target, y, x)})

LEMMA VisitsPlaces ==
  ASSUME TableInv, NEW target \in Ids
  PROVE  /\ Cardinality(Visits(Origin, table)) \in Nat
         /\ \A x \in Visits(Origin, table) : Place(target, x) \in 0..Cardinality(Visits(Origin, table)) - 1
         /\ \A x, y \in Visits(Origin, table) :
               Nearer(x[2], y[2], target) <=> Place(target, x) < Place(target, y)
         /\ \A n \in 0..Cardinality(Visits(Origin, table)) - 1 :
               \E x \in Visits(Origin, table) : Place(target, x) = n
<1> DEFINE all == Visits(Origin, table)
           R == {p \in all \X all : Earlier(Origin, target, p[1], p[2])}
<1>1. /\ \A x, y \in all : Earlier(Origin, target, x, y) <=> Nearer(x[2], y[2], target)
      /\ \A x, y \in all : x # y => Earlier(Origin, target, x, y) \/ Earlier(Origin, target, y, x)
  BY VisitsOrder
<1>2. all \subseteq Indices \X Ids /\ \A x \in all : x[2] \in Ids
  BY VisitsAre DEF InBucket
<1>3. IsFiniteSet(all)
  BY <1>2, FiniteIds, FS_Product, FS_Subset
<1>4. \A x, y \in all : <<x, y>> \in R <=> Nearer(x[2], y[2], target)
  BY <1>1
<1>5. \A x \in all : Before(R, all, x) = {y \in all : Earlier(Origin, target, y, x)}
  BY DEF Before
<1> HIDE DEF R, all
<1>6. /\ \A x \in all : <<x, x>> \notin R
      /\ \A x, y, z \in all : <<x, y>> \in R /\ <<y, z>> \in R => <<x, z>> \in R
      /\ \A x, y \in all : x # y => <<x, y>> \in R \/ <<y, x>> \in R
  <2>1. \A x \in all : <<x, x>> \notin R
    BY <1>4, NearerOrder
  <2>2. \A x, y, z \in all : <<x, y>> \in R /\ <<y, z>> \in R => <<x, z>> \in R
    BY <1>2, <1>4, NearerOrder
  <2>3. \A x, y \in all : x # y => <<x, y>> \in R \/ <<y, x>> \in R
    BY <1>1, <1>4
  <2> QED
    BY <2>1, <2>2, <2>3
<1>7. /\ Cardinality(all) \in Nat
      /\ \A x \in all : Cardinality(Before(R, all, x)) \in 0..Cardinality(all) - 1
      /\ \A x, y \in all : <<x, y>> \in R => Cardinality(Before(R, all, x)) < Cardinality(Before(R, all, y))
      /\ \A n \in 0..Cardinality(all) - 1 : \E x \in all : Cardinality(Before(R, all, x)) = n
  <2>1. StrictOrder(R, all)
    BY <1>6 DEF StrictOrder
  <2> QED
    BY <1>3, <2>1, Places
<1>8. \A x \in all : Place(target, x) = Cardinality(Before(R, all, x))
  BY <1>5 DEF Place, all
<1>9. ASSUME NEW x \in all, NEW y \in all
      PROVE  Nearer(x[2], y[2], target) <=> Place(target, x) < Place(target, y)
  <2>1. Place(target, x) \in Int /\ Place(target, y) \in Int
    BY <1>7, <1>8
  <2>2. CASE <<x, y>> \in R
    BY <1>4, <1>7, <1>8, <2>2
  <2>3. CASE <<y, x>> \in R /\ <<x, y>> \notin R
    <3>1. Place(target, y) < Place(target, x)
      BY <1>7, <1>8, <2>3
    <3> QED
      BY <1>4, <2>1, <2>3, <3>1
  <2>4. CASE x = y
    <3>1. ~Nearer(x[2], x[2], target)
      BY NearerOrder
    <3>2. ~(Place(target, x) < Place(target, x))
      BY <2>1
    <3> QED
      BY <2>4, <3>1, <3>2
  <2> QED
    BY <1>6, <2>2, <2>3, <2>4
<1> QED
  BY <1>7, <1>8, <1>9 DEF all

LEMMA KnownPlaces ==
  ASSUME TableInv, NEW target \in Ids, NEW x \in Visits(Origin, table)
  PROVE  Cardinality({a \in Known : Nearer(a, x[2], target)}) = Place(target, x)
<1> DEFINE all == Visits(Origin, table)
           A == {y \in all : Earlier(Origin, target, y, x)}
           B == {a \in Known : Nearer(a, x[2], target)}
           f == [y \in A |-> y[2]]
<1>1. /\ all \subseteq Indices \X Ids
      /\ \A y \in all : y[2] \in Known
      /\ \A a \in Known : \E y \in all : y[2] = a
      /\ \A y, z \in all : y[2] = z[2] => y = z
  BY VisitsAre
<1>2. \A y \in all : Earlier(Origin, target, y, x) <=> Nearer(y[2], x[2], target)
  BY VisitsOrder
<1>3. IsFiniteSet(A)
  BY <1>1, FiniteIds, FS_Product, FS_Subset
<1>4. f \in Injection(A, B)
  BY <1>1, <1>2 DEF Injection, IsInjective
<1>5. f \in Surjection(A, B)
  BY <1>1, <1>2, <1>4 DEF Surjection, Injection
<1>6. ExistsBijection(A, B)
  BY <1>4, <1>5 DEF ExistsBijection, Bijection
<1>7. Cardinality(B) = Cardinality(A)
  BY <1>3, <1>6, FS_Bijection
<1> QED
  BY <1>7 DEF Place

LEMMA MinOfTwo ==
  ASSUME NEW a \in Int, NEW b \in Int
  PROVE  Min({a, b}) = IF a <= b THEN a ELSE b
BY DEF Min

LEMMA FindRight ==
  ASSUME TableInv, NEW target \in Ids, NEW count \in Nat \ {0}
  PROVE  LET found == FindClosest(Origin, table, target, count)
         IN  /\ Elements(found) = Nearest(Known, target, count)
             /\ \A j, k \in DOMAIN found : j < k => Nearer(found[j], found[k], target)
<1> DEFINE all == Visits(Origin, table)
           N == Cardinality(all)
           last == Min({count, N})
           nth(n) == CHOOSE x \in all : Place(target, x) = n - 1
           found == FindClosest(Origin, table, target, count)
<1>1. /\ N \in Nat
      /\ \A x \in all : Place(target, x) \in 0..N - 1
      /\ \A x, y \in all : Nearer(x[2], y[2], target) <=> Place(target, x) < Place(target, y)
      /\ \A n \in 0..N - 1 : \E x \in all : Place(target, x) = n
  BY VisitsPlaces
<1>2. found = [n \in 1..last |-> nth(n)[2]]
  BY DEF FindClosest, Place
<1>3. last = IF count <= N THEN count ELSE N
  BY <1>1, MinOfTwo
<1>4. \A n \in 1..last : nth(n) \in all /\ Place(target, nth(n)) = n - 1
  <2> TAKE n \in 1..last
  <2>1. n - 1 \in 0..N - 1
    BY <1>1, <1>3
  <2> QED
    BY <1>1, <2>1
<1>5. \A x, y \in all : Place(target, x) = Place(target, y) => x = y
  <2> SUFFICES ASSUME NEW x \in all, NEW y \in all, Place(target, x) = Place(target, y) PROVE x = y
    OBVIOUS
  <2>1. ~Nearer(x[2], y[2], target) /\ ~Nearer(y[2], x[2], target)
    BY <1>1
  <2>2. x[2] \in Ids /\ y[2] \in Ids
    BY VisitsAre DEF InBucket
  <2>3. x[2] = y[2]
    BY <2>1, <2>2, NearerOrder
  <2> QED
    BY <2>3, VisitsAre
<1> HIDE DEF all, last, nth, found
<1>6. DOMAIN found = 1..last /\ \A n \in 1..last : found[n] = nth(n)[2]
  BY <1>2
<1>7. last \in Int
  BY <1>1, <1>3
<1>8. ASSUME NEW j \in DOMAIN found, NEW k \in DOMAIN found, j < k
      PROVE  Nearer(found[j], found[k], target)
  <2>1. Place(target, nth(j)) < Place(target, nth(k))
    BY <1>4, <1>6, <1>7, <1>8
  <2> QED
    BY <1>1, <1>4, <1>6, <2>1
<1>9. ASSUME NEW n \in 1..last PROVE found[n] \in Nearest(Known, target, count)
  <2>1. nth(n) \in all /\ Place(target, nth(n)) < count
    BY <1>1, <1>3, <1>4
  <2>2. nth(n)[2] \in Known /\ Cardinality({a \in Known : Nearer(a, nth(n)[2], target)}) < count
    BY <2>1, VisitsAre, KnownPlaces DEF all
  <2> QED
    BY <1>6, <2>2 DEF Nearest
<1>10. ASSUME NEW a \in Nearest(Known, target, count) PROVE \E n \in 1..last : found[n] = a
  <2>1. a \in Known /\ Cardinality({b \in Known : Nearer(b, a, target)}) < count
    BY DEF Nearest
  <2>2. PICK x \in all : x[2] = a
    BY <2>1, VisitsAre DEF all
  <2>3. Place(target, x) < count
    BY <2>1, <2>2, KnownPlaces DEF all
  <2> DEFINE n == Place(target, x) + 1
  <2>4. n \in 1..last /\ Place(target, x) = n - 1
    BY <1>1, <1>3, <2>3
  <2>5. nth(n) = x
    BY <1>4, <1>5, <2>4
  <2> QED
    BY <1>6, <2>2, <2>4, <2>5
<1>11. Elements(found) = Nearest(Known, target, count)
  BY <1>6, <1>9, <1>10 DEF Elements
<1> QED
  BY <1>8, <1>11 DEF found

(* The order of the visits is right for every width, target and count:     *)
(* find_closest returns the nearest of all that the table knows, nearest   *)
(* first (kademlia.rs 173-206).                                            *)
THEOREM Finds == TableSpec => []FindsNearest
<1>1. TableInv => FindsNearest
  <2> SUFFICES ASSUME TableInv, NEW target \in Ids, NEW count \in 1..Cardinality(Known) + 1
               PROVE  LET found == FindClosest(Origin, table, target, count)
                      IN  /\ Elements(found) = Nearest(Known, target, count)
                          /\ \A j, k \in DOMAIN found : j < k => Nearer(found[j], found[k], target)
    BY DEF FindsNearest, Known
  <2>1. Known \in SUBSET Ids
    BY VisitsAre
  <2>2. Cardinality(Known) \in Nat
    BY <2>1, FiniteIds, FS_Subset, FS_CardinalityType
  <2>3. count \in Nat \ {0}
    BY <2>2
  <2> QED
    BY <2>3, FindRight
<1> QED
  BY <1>1, Invariance, PTL

-----------------------------------------------------------------------------
(* The nearest n of a set: some of it, all of it or at least n, and when n *)
(* is not 0 somebody if there is anybody.                                  *)
LEMMA NearestFacts ==
  ASSUME NEW target \in Ids, NEW S \in SUBSET Ids, NEW n \in Int
  PROVE  /\ Nearest(S, target, n) \subseteq S
         /\ S # {} /\ n > 0 => Nearest(S, target, n) # {}
         /\ Nearest(S, target, n) = S \/ Cardinality(Nearest(S, target, n)) >= n
<1> DEFINE R == {p \in S \X S : Nearer(p[1], p[2], target)}
           N == Cardinality(S)
           near == Nearest(S, target, n)
<1>1. IsFiniteSet(S)
  BY FiniteIds, FS_Subset
<1>2. \A x, y \in S : <<x, y>> \in R <=> Nearer(x, y, target)
  OBVIOUS
<1>3. \A x \in S : Before(R, S, x) = {y \in S : Nearer(y, x, target)}
  BY DEF Before
<1> HIDE DEF R
<1>4. StrictOrder(R, S)
  <2>1. \A x \in S : <<x, x>> \notin R
    BY <1>2, NearerOrder
  <2>2. \A x, y, z \in S : <<x, y>> \in R /\ <<y, z>> \in R => <<x, z>> \in R
    BY <1>2, NearerOrder
  <2>3. \A x, y \in S : x # y => <<x, y>> \in R \/ <<y, x>> \in R
    BY <1>2, NearerOrder
  <2> QED
    BY <2>1, <2>2, <2>3 DEF StrictOrder
<1>5. /\ N \in Nat
      /\ \A x \in S : Cardinality(Before(R, S, x)) \in 0..N - 1
      /\ \A k \in 0..N - 1 : \E x \in S : Cardinality(Before(R, S, x)) = k
  BY <1>1, <1>4, Places
<1>6. \A x \in S : x \in near <=> Cardinality(Before(R, S, x)) < n
  BY <1>3 DEF Nearest
<1>7. near \subseteq S
  BY DEF Nearest
<1> HIDE DEF near
<1>8. ASSUME S # {}, n > 0 PROVE near # {}
  <2>1. 0 \in 0..N - 1
    BY <1>5, <1>8
  <2>2. PICK x \in S : Cardinality(Before(R, S, x)) = 0
    BY <1>5, <2>1
  <2> QED
    BY <1>6, <1>8, <2>2
<1>9. near = S \/ Cardinality(near) >= n
  <2> SUFFICES ASSUME near # S PROVE Cardinality(near) >= n
    OBVIOUS
  <2>1. IsFiniteSet(near) /\ Cardinality(near) \in Nat
    BY <1>1, <1>7, FS_Subset, FS_CardinalityType
  <2>2. PICK y \in S : Cardinality(Before(R, S, y)) >= n
    BY <1>5, <1>6, <1>7
  <2>3. n <= N
    BY <1>5, <2>2
  <2>4. CASE n <= 0
    BY <2>1, <2>4
  <2>5. CASE n > 0
    <3> DEFINE places == 0..n - 1
               at(k) == CHOOSE x \in S : Cardinality(Before(R, S, x)) = k
               f == [k \in places |-> at(k)]
    <3>1. \A k \in places : at(k) \in S /\ Cardinality(Before(R, S, at(k))) = k
      <4> TAKE k \in places
      <4>1. k \in 0..N - 1
        BY <1>5, <2>3
      <4> QED
        BY <1>5, <4>1
    <3>2. \A k \in places : at(k) \in near
      BY <1>6, <3>1
    <3> HIDE DEF at
    <3>3. f \in Injection(places, near)
      BY <3>1, <3>2 DEF Injection, IsInjective
    <3>4. IsFiniteSet(places) /\ Cardinality(places) = n
      <4>1. 0 \in Int /\ n - 1 \in Int
        OBVIOUS
      <4>2. /\ IsFiniteSet(0..n - 1)
            /\ Cardinality(0..n - 1) = IF 0 > n - 1 THEN 0 ELSE n - 1 - 0 + 1
        BY <4>1, FS_Interval
      <4> QED
        BY <2>5, <4>2
    <3>5. Cardinality(places) <= Cardinality(near)
      <4> HIDE DEF places, f
      <4> QED
        BY <2>1, <3>3, <3>4, FS_Injection
    <3> QED
      BY <3>4, <3>5
  <2> QED
    BY <2>4, <2>5
<1> QED
  BY <1>7, <1>8, <1>9 DEF near

-----------------------------------------------------------------------------
(* Buckets of peers: what is taken out of them and put into them are peers, *)
(* and a bucket that was inserted into is not empty.                        *)
Listed == [records : Seq(Peers), cached : Seq(Peers)]

LEMMA RemovedTyped ==
  ASSUME NEW s \in Seq(Peers), NEW id
  PROVE  Removed(s, id) \in Seq(Peers)
<1>1. CASE ~In(s, id)
  BY <1>1 DEF Removed
<1>2. CASE In(s, id)
  <2> DEFINE p == Position(s, id)
  <2>1. p \in 1..Len(s)
    BY <1>2 DEF In, Position
  <2>2. Removed(s, id) = [k \in 1..Len(s) - 1 |-> s[IF k < p THEN k ELSE k + 1]]
    BY <1>2 DEF Removed
  <2> HIDE DEF p
  <2>3. Len(s) - 1 \in Nat
    BY <2>1
  <2> QED
    BY <2>1, <2>2, <2>3
<1> QED
  BY <1>1, <1>2

LEMMA InsertedTyped ==
  ASSUME NEW bucket \in Listed, NEW id \in Peers
  PROVE  Inserted(bucket, id) \in Listed /\ Inserted(bucket, id).records # <<>>
<1> DEFINE records == Removed(bucket.records, id)
           cached == Removed(bucket.cached, id)
           kept == IF Len(cached) = BucketSize THEN Tail(cached) ELSE cached
<1>1. records \in Seq(Peers) /\ cached \in Seq(Peers)
  BY RemovedTyped DEF Listed
<1>2. /\ Len(records) < BucketSize =>
             Inserted(bucket, id) = [bucket EXCEPT !.records = Append(records, id)]
      /\ ~(Len(records) < BucketSize) =>
             Inserted(bucket, id) = [records |-> records, cached |-> Append(kept, id)]
  BY DEF Inserted
<1> HIDE DEF records, cached
<1>3. kept \in Seq(Peers)
  <2>1. CASE Len(cached) = BucketSize
    <3>1. cached # <<>>
      BY <1>1, <2>1, BucketSizeAssumption
    <3> QED
      BY <1>1, <2>1, <3>1
  <2> QED
    BY <1>1, <2>1
<1> HIDE DEF kept
<1>4. CASE Len(records) < BucketSize
  <2> DEFINE longer == Append(records, id)
  <2>1. longer \in Seq(Peers) /\ longer # <<>>
    BY <1>1
  <2>2. Inserted(bucket, id) = [bucket EXCEPT !.records = longer]
    BY <1>2, <1>4
  <2> HIDE DEF longer
  <2>3. Inserted(bucket, id) = [records |-> longer, cached |-> bucket.cached]
    BY <2>2 DEF Listed
  <2>4. bucket.cached \in Seq(Peers)
    BY DEF Listed
  <2> QED
    BY <2>1, <2>3, <2>4 DEF Listed
<1>5. CASE ~(Len(records) < BucketSize)
  <2> DEFINE longer == Append(kept, id)
  <2>1. longer \in Seq(Peers)
    BY <1>3
  <2>2. records # <<>>
    BY <1>1, <1>5, BucketSizeAssumption
  <2>3. Inserted(bucket, id) = [records |-> records, cached |-> longer]
    BY <1>2, <1>5
  <2> HIDE DEF longer
  <2> QED
    BY <1>1, <2>1, <2>2, <2>3 DEF Listed
<1> QED
  BY <1>4, <1>5

(* A peer that heard from another one knows where to start to refresh its  *)
(* buckets: not in bucket 0.                                               *)
LEMMA InsertTyped ==
  ASSUME NEW p \in Peers, NEW q \in Peers \ {p}, NEW t \in [Indices -> Listed]
  PROVE  Insert(p, t, q) \in [Indices -> Listed] /\ StartIndices(Insert(p, t, q)) # {}
<1> DEFINE i == Index(p, q)
<1>1. i \in Indices \ {0}
  BY IndexIs, PeersAssumption, ApartAssumption
<1>2. Inserted(t[i], q) \in Listed /\ Inserted(t[i], q).records # <<>>
  BY <1>1, InsertedTyped
<1>3. Insert(p, t, q) = [t EXCEPT ![i] = Inserted(t[i], q)]
  BY DEF Insert
<1> HIDE DEF i
<1>4. Insert(p, t, q) \in [Indices -> Listed] /\ Insert(p, t, q)[i] = Inserted(t[i], q)
  BY <1>1, <1>2, <1>3
<1>5. i \in StartIndices(Insert(p, t, q))
  BY <1>1, <1>2, <1>4 DEF StartIndices
<1> QED
  BY <1>4, <1>5

LEMMA EmptyTyped == EmptyTable \in [Indices -> Listed]
  BY DEF EmptyTable, Listed

LEMMA MaxOfTwo ==
  ASSUME NEW a \in Int, NEW b \in Int
  PROVE  Max({a, b}) = IF a <= b THEN b ELSE a
  BY DEF Max

(* A finite set in some order. *)
LEMMA InOrder ==
  ASSUME NEW S, IsFiniteSet(S)
  PROVE  Lists!SetToSeq(S) \in Seq(S) /\ Len(Lists!SetToSeq(S)) = Cardinality(S)
<1> DEFINE n == Cardinality(S)
<1>1. n \in Nat /\ ExistsBijection(1..n, S)
  BY FS_CardinalityType
<1>2. PICK f \in Bijection(1..n, S) : TRUE
  BY <1>1 DEF ExistsBijection
<1> HIDE DEF n
<1>3. f \in [1..n -> S] /\ \A a, b \in 1..n : f[a] = f[b] => a = b
  BY <1>2 DEF Bijection, Injection, IsInjective
<1>4. Lists!IsInjective(f)
  BY <1>3 DEF Lists!IsInjective
<1>5. Lists!SetToSeq(S) = CHOOSE g \in [1..n -> S] : Lists!IsInjective(g)
  <2>1. Lists!Cardinality(S) = n
    BY DEF Lists!Cardinality, Cardinality, n
  <2> QED
    BY <2>1 DEF Lists!SetToSeq
<1>6. Lists!SetToSeq(S) \in [1..n -> S]
  BY <1>3, <1>4, <1>5
<1> QED
  BY <1>1, <1>6 DEF n

LEMMA FilledTyped ==
  ASSUME NEW S \in SUBSET Peers
  PROVE  Filled(S) \in Listed
<1> DEFINE order == Lists!SetToSeq(S)
           n == Len(order)
           last == IF n < BucketSize THEN n ELSE BucketSize
           first == Max({BucketSize, n - BucketSize}) + 1
<1>1. S \subseteq Ids
  BY PeersAssumption
<1>2. order \in Seq(S)
  BY <1>1, FiniteIds, FS_Subset, InOrder
<1>3. order \in Seq(Peers) /\ n \in Nat
  BY <1>2
<1>4. last \in 0..n /\ first \in Nat /\ first > 0
  BY <1>3, BucketSizeAssumption, MaxOfTwo
<1>5. Filled(S) = [records |-> SubSeq(order, 1, last), cached |-> SubSeq(order, first, n)]
  BY DEF Filled
<1> HIDE DEF order, n, last, first
<1>6. SubSeq(order, 1, last) \in Seq(Peers) /\ SubSeq(order, first, n) \in Seq(Peers)
  BY <1>3, <1>4 DEF n
<1> QED
  BY <1>5, <1>6 DEF Listed

(* What is left of the queries when one has ended. *)
LEMMA DropFacts ==
  ASSUME NEW f, NEW x
  PROVE  /\ DOMAIN Drop(f, x) = DOMAIN f \ {x}
         /\ \A z \in DOMAIN f : z # x => Drop(f, x)[z] = f[z]
  BY DEF Drop, Restrict

-----------------------------------------------------------------------------
(* What holds of a peer whatever it receives and when, by the parts of its *)
(* state.  A query: it waits for somebody, unless its peer knew nobody, and *)
(* no slot is unused while somebody is left to ask.                         *)
Slots(query) == Cardinality(query.contacting) < NumConcurrency
                  => query.records \subseteq query.contacting \cup query.contacted

QueryRight(p, query) ==
  /\ query \in QueryState /\ p \in query.contacted
  /\ query.contacting # {} \/ query.records = {p}
  /\ query.contacting \cap query.contacted = {}
  /\ query.contacting \cup query.contacted \subseteq query.records \cup {p}
  /\ Slots(query)

AllRight(p, qs) == \A t \in DOMAIN qs : t \in Ids /\ QueryRight(p, qs[t])

(* The timers are those of the contacts. *)
Waits(qs) == UNION {{t} \X qs[t].contacting : t \in DOMAIN qs}

(* What is being signed is no query yet, and is signed once. *)
SignsRight(sign, qs) ==
  /\ sign \in SUBSET (Ids \X (Nat \ {0}))
  /\ \A s, u \in sign : s[1] = u[1] => s = u
  /\ \A s \in sign : s[1] \notin DOMAIN qs

(* The targets signed or queried; during bootstrap there is one at most,   *)
(* its own identifier first and then one of those to refresh.              *)
Under(sign, qs) == {s[1] : s \in sign} \cup DOMAIN qs

BootsRight(p, sign, qs, ref, boot) ==
  /\ ref \in SUBSET Ids /\ boot \in BOOLEAN
  /\ ~boot => ref = {}
  /\ boot => /\ \A t \in Under(sign, qs) : IF ref = {} THEN t = p ELSE t \in ref
             /\ \A t, u \in Under(sign, qs) : t = u

PeerRight(p, tbl, sign, qs, tm, ref, boot) ==
  /\ tbl \in [Indices -> Listed]
  /\ AllRight(p, qs)
  /\ tm = Waits(qs)
  /\ SignsRight(sign, qs)
  /\ BootsRight(p, sign, qs, ref, boot)

(* A message is from one peer to another, and its records are peers. *)
MessageRight(m) ==
  /\ m.from \in Peers /\ m.to \in Peers \ {m.from} /\ m.target \in Ids
  /\ m.type = "FindPeerOk" => m.closest \subseteq Peers

Shape ==
  /\ tables = [p \in Peers |-> tables[p]]
  /\ signing = [p \in Peers |-> signing[p]]
  /\ queries = [p \in Peers |-> queries[p]]
  /\ timers = [p \in Peers |-> timers[p]]
  /\ refresh = [p \in Peers |-> refresh[p]]
  /\ booting = [p \in Peers |-> booting[p]]
  /\ failure = [p \in Peers |-> failure[p]]

PeersInv ==
  /\ Shape
  /\ \A p \in Peers : /\ PeerRight(p, tables[p], signing[p], queries[p], timers[p],
                                   refresh[p], booting[p])
                      /\ failure[p] \in {None, "timeout"}
  /\ \A m \in net : MessageRight(m)

(* What is to be shown follows. *)
LEMMA PeersInvSound == PeersInv => PeersSound
<1> SUFFICES ASSUME PeersInv PROVE PeersSound
  OBVIOUS
<1>1. Shape /\ \A m \in net : MessageRight(m)
  BY DEF PeersInv
<1>2. ASSUME NEW p \in Peers
      PROVE  /\ tables[p] \in [Indices -> Listed] /\ AllRight(p, queries[p])
             /\ timers[p] = Waits(queries[p])
             /\ signing[p] \in SUBSET (Ids \X (Nat \ {0}))
             /\ refresh[p] \in SUBSET Ids /\ booting[p] \in BOOLEAN
             /\ failure[p] \in {None, "timeout"}
  BY DEF PeersInv, PeerRight, SignsRight, BootsRight
<1>3. ASSUME NEW p \in Peers, NEW t \in DOMAIN queries[p]
      PROVE  t \in Ids /\ QueryRight(p, queries[p][t])
  BY <1>2 DEF AllRight
<1>4. ASSUME NEW p \in Peers
      PROVE  timers[p] \in SUBSET (Ids \X Peers)
  <2>1. \A t \in DOMAIN queries[p] : t \in Ids /\ queries[p][t].contacting \subseteq Peers
    BY <1>3 DEF QueryRight, QueryState
  <2> QED
    BY <1>2, <2>1 DEF Waits
<1>5. TypeOK
  <2>1. signing \in [Peers -> SUBSET (Ids \X (Nat \ {0}))]
    BY <1>1, <1>2 DEF Shape
  <2>2. timers \in [Peers -> SUBSET (Ids \X Peers)]
    BY <1>1, <1>4 DEF Shape
  <2>3. refresh \in [Peers -> SUBSET Ids]
    BY <1>1, <1>2 DEF Shape
  <2>4. booting \in [Peers -> BOOLEAN]
    BY <1>1, <1>2 DEF Shape
  <2>5. \A m \in net : m.from \in Peers /\ m.to \in Peers \ {m.from} /\ m.target \in Ids
    BY <1>1 DEF MessageRight
  <2>6. \A p \in Peers : tables[p] \in [Indices -> [records : Seq(Peers), cached : Seq(Peers)]]
    BY <1>2 DEF Listed
  <2>7. \A p \in Peers : \A t \in DOMAIN queries[p] : t \in Ids /\ queries[p][t] \in QueryState
    BY <1>3 DEF QueryRight
  <2> QED
    BY <2>1, <2>2, <2>3, <2>4, <2>5, <2>6, <2>7 DEF TypeOK
<1>6. NoFailure
  BY <1>2 DEF NoFailure
<1>7. QueriesAlive
  <2>1. \A p \in Peers :
          timers[p] = UNION {{t} \X queries[p][t].contacting : t \in DOMAIN queries[p]}
    BY <1>2 DEF Waits
  <2> QED
    BY <1>3, <2>1 DEF QueriesAlive, QueryRight, Slots
<1> QED
  BY <1>5, <1>6, <1>7 DEF PeersSound

LEMMA PeersFinite ==
  ASSUME NEW S \in SUBSET Peers
  PROVE  S \in SUBSET Ids /\ IsFiniteSet(S) /\ Cardinality(S) \in Nat
  BY PeersAssumption, FiniteIds, FS_Subset, FS_CardinalityType

LEMMA ClosestAre ==
  ASSUME NEW p \in Peers, NEW tbl \in [Indices -> Listed], NEW target, NEW n
  PROVE  Closest(p, tbl, target, n) \in SUBSET Peers
<1>1. \A i \in Indices : Records(tbl[i]) \subseteq Peers
  BY DEF Records, Listed
<1> QED
  BY <1>1 DEF Closest, Nearest

LEMMA ClosestPeers ==
  ASSUME NEW p \in Peers, NEW tbl \in [Indices -> Listed], NEW target \in Ids, NEW n \in Nat \ {0}
  PROVE  Closest(p, tbl, target, n) \in SUBSET Peers /\ Closest(p, tbl, target, n) # {}
<1> DEFINE all == {p} \cup UNION {Records(tbl[i]) : i \in Indices}
<1>1. \A i \in Indices : Records(tbl[i]) \subseteq Peers
  BY DEF Records, Listed
<1>2. all \in SUBSET Peers /\ all # {}
  BY <1>1
<1>3. Closest(p, tbl, target, n) = Nearest(all, target, n)
  BY DEF Closest
<1> HIDE DEF all
<1>4. all \in SUBSET Ids /\ n \in Int /\ n > 0
  BY <1>2, PeersAssumption
<1>5. Nearest(all, target, n) \subseteq all /\ Nearest(all, target, n) # {}
  BY <1>2, <1>4, NearestFacts
<1> QED
  BY <1>2, <1>3, <1>5

(* A query that starts, 395-437. *)
LEMMA NewQueryRight ==
  ASSUME NEW p \in Peers, tables[p] \in [Indices -> Listed], NEW target \in Ids, NEW count \in Nat \ {0}
  PROVE  QueryRight(p, NewQuery(p, target, count))
<1> DEFINE n == Max({count, NumConcurrency})
           records == Closest(p, tables[p], target, n)
           others == records \ {p}
           near == Nearest(others, target, NumConcurrency)
           query == NewQuery(p, target, count)
<1>1. n \in Nat \ {0}
  BY MaxOfTwo, NumConcurrencyAssumption
<1>2. query = [count |-> count, records |-> records, contacted |-> {p}, contacting |-> near]
  BY DEF NewQuery
<1> HIDE DEF n, query
<1>3. records \in SUBSET Peers /\ records # {}
  BY <1>1, ClosestPeers
<1> HIDE DEF records
<1>4. others \in SUBSET Ids
  BY <1>3, PeersAssumption
<1> HIDE DEF others
<1>5. /\ near \subseteq others
      /\ others # {} => near # {}
      /\ near = others \/ Cardinality(near) >= NumConcurrency
  BY <1>4, NearestFacts, NumConcurrencyAssumption
<1> HIDE DEF near
<1>6. near \in SUBSET Peers /\ near \subseteq records \ {p} /\ Cardinality(near) \in Nat
  BY <1>3, <1>5, PeersFinite DEF others
<1>7. query \in QueryState
  BY <1>2, <1>3, <1>6 DEF QueryState
<1>8. near # {} \/ records = {p}
  BY <1>3, <1>5 DEF others
<1>9. Cardinality(near) < NumConcurrency => records \subseteq near \cup {p}
  BY <1>5, <1>6, NumConcurrencyAssumption DEF others
<1>10. /\ query.records = records /\ query.contacted = {p} /\ query.contacting = near
  BY <1>2
<1>11. Slots(query)
  BY <1>9, <1>10 DEF Slots
<1>12. near \cap {p} = {} /\ near \cup {p} \subseteq records \cup {p}
  BY <1>6
<1>13. QueryRight(p, query)
  BY <1>7, <1>8, <1>10, <1>11, <1>12 DEF QueryRight
<1> QED
  BY <1>13 DEF query

LEMMA AnsweredIs ==
  ASSUME NEW c, NEW r, NEW ed, NEW ing, NEW from, NEW closest
  PROVE  Answered([count |-> c, records |-> r, contacted |-> ed, contacting |-> ing], from, closest)
         = [count |-> c, records |-> r \cup closest, contacted |-> ed \cup {from},
            contacting |-> ing \ {from}]
<1> DEFINE q0 == [count |-> c, records |-> r, contacted |-> ed, contacting |-> ing]
           ing1 == ing \ {from}
           ed1 == ed \cup {from}
           r1 == r \cup closest
           q1 == [count |-> c, records |-> r, contacted |-> ed, contacting |-> ing1]
           q2 == [count |-> c, records |-> r, contacted |-> ed1, contacting |-> ing1]
           q3 == [count |-> c, records |-> r1, contacted |-> ed1, contacting |-> ing1]
<1>1. q0.contacting \ {from} = ing1 /\ q0.contacted \cup {from} = ed1 /\ q0.records \cup closest = r1
  OBVIOUS
<1> HIDE DEF ing1, ed1, r1
<1>2. [q0 EXCEPT !.contacting = ing1] = q1
  OBVIOUS
<1>3. [q1 EXCEPT !.contacted = ed1] = q2
  OBVIOUS
<1>4. [q2 EXCEPT !.records = r1] = q3
  OBVIOUS
<1> HIDE DEF q0, q1, q2, q3
<1>5. Answered(q0, from, closest) = q3
  BY <1>1, <1>2, <1>3, <1>4 DEF Answered
<1> QED
  BY <1>5 DEF q0, q3, r1, ed1, ing1

LEMMA AnsweredQuery ==
  ASSUME NEW query \in QueryState, NEW from, NEW closest
  PROVE  Answered(query, from, closest)
         = [count |-> query.count, records |-> query.records \cup closest,
            contacted |-> query.contacted \cup {from}, contacting |-> query.contacting \ {from}]
<1> DEFINE c == query.count
           r == query.records
           ed == query.contacted
           ing == query.contacting
           whole == [count |-> c, records |-> r, contacted |-> ed, contacting |-> ing]
<1>1. query = whole
  BY DEF QueryState
<1> HIDE DEF c, r, ed, ing
<1>2. Answered(whole, from, closest)
      = [count |-> c, records |-> r \cup closest, contacted |-> ed \cup {from},
         contacting |-> ing \ {from}]
  BY AnsweredIs
<1> HIDE DEF whole
<1>3. Answered(query, from, closest)
      = [count |-> c, records |-> r \cup closest, contacted |-> ed \cup {from},
         contacting |-> ing \ {from}]
  BY <1>1, <1>2
<1> QED
  BY <1>3 DEF c, r, ed, ing

(* A query that goes on after an answer, 561-640. *)
LEMMA GoesOnRight ==
  ASSUME NEW p \in Peers, NEW query, QueryRight(p, query), NEW from \in query.contacting,
         NEW closest \in SUBSET Peers, NEW target \in Ids,
         Status(Answered(query, from, closest), target) = "Progress"
  PROVE  LET answered == Answered(query, from, closest)
             next == NextContacts(answered, target)
         IN  /\ QueryRight(p, [answered EXCEPT !.contacting = @ \cup next])
             /\ next \in SUBSET (Peers \ {p}) /\ from \notin next
             /\ next \cap query.contacting = {}
             /\ [answered EXCEPT !.contacting = @ \cup next].contacting
                = (query.contacting \ {from}) \cup next
<1> DEFINE ing == query.contacting
           ed == query.contacted
           recs == query.records
           ing1 == ing \ {from}
           ed1 == ed \cup {from}
           recs1 == recs \cup closest
           answered == Answered(query, from, closest)
           left == recs1 \ (ed1 \cup ing1)
           free == NumConcurrency - Cardinality(ing1)
           next == NextContacts(answered, target)
           after == [answered EXCEPT !.contacting = @ \cup next]
<1>1. /\ query \in QueryState /\ p \in ed /\ ing \cap ed = {}
      /\ ing \cup ed \subseteq recs \cup {p}
  BY DEF QueryRight
<1>2. /\ query.count \in Nat \ {0} /\ ing \in SUBSET Peers /\ ed \in SUBSET Peers /\ recs \in SUBSET Peers
      /\ query = [count |-> query.count, records |-> recs, contacted |-> ed, contacting |-> ing]
  BY <1>1 DEF QueryState
<1>3. answered = [count |-> query.count, records |-> recs1, contacted |-> ed1, contacting |-> ing1]
  BY <1>1, AnsweredQuery
<1>4. Status(answered, target) = "Progress" => answered.contacting \cup next # {}
  BY DEF Status
<1>5. next = Nearest(left, target, free)
  BY <1>3 DEF NextContacts
<1> HIDE DEF answered, next, left, free
<1>6. from \in Peers /\ from # p
  BY <1>1, <1>2
<1>7. left \in SUBSET Ids /\ left \in SUBSET Peers
  BY <1>2, PeersAssumption DEF left
<1>8. IsFiniteSet(ing1) /\ Cardinality(ing1) \in Nat /\ free \in Int
  BY <1>2, PeersFinite, NumConcurrencyAssumption DEF free
<1>9. next \subseteq left /\ (next = left \/ Cardinality(next) >= free)
  BY <1>5, <1>7, <1>8, NearestFacts
<1>10. /\ next \in SUBSET Peers /\ next \subseteq recs1
       /\ next \cap (ed1 \cup ing1) = {}
  BY <1>7, <1>9 DEF left
<1>11. after = [count |-> query.count, records |-> recs1, contacted |-> ed1, contacting |-> ing1 \cup next]
  BY <1>3
<1>12. after \in QueryState /\ p \in ed1 /\ (ing1 \cup next) \cap ed1 = {}
       /\ ing1 \cup next \cup ed1 \subseteq recs1 \cup {p}
  <2>1. ing1 \cup next \in SUBSET Peers /\ ed1 \in SUBSET Peers /\ recs1 \in SUBSET Peers
    BY <1>2, <1>6, <1>10
  <2>2. after \in QueryState
    BY <1>2, <1>11, <2>1 DEF QueryState
  <2>3. ing1 \cap ed1 = {} /\ next \cap ed1 = {}
    BY <1>1, <1>10
  <2>4. ing1 \cup ed1 \subseteq recs1 \cup {p}
    BY <1>1
  <2> QED
    BY <1>1, <1>10, <2>2, <2>3, <2>4
<1>13. ing1 \cup next # {}
  BY <1>3, <1>4 DEF answered
<1>14. Cardinality(ing1 \cup next) < NumConcurrency => recs1 \subseteq (ing1 \cup next) \cup ed1
  <2>1. CASE next = left
    BY <2>1 DEF left
  <2>2. CASE Cardinality(next) >= free
    <3>1. IsFiniteSet(next) /\ Cardinality(next) \in Nat
      BY <1>10, PeersFinite
    <3>2. ing1 \cap next = {}
      BY <1>10
    <3>3. Cardinality(ing1 \cup next) = Cardinality(ing1) + Cardinality(next) - Cardinality(ing1 \cap next)
      BY <1>8, <3>1, FS_Union
    <3>4. Cardinality(ing1 \cap next) = 0
      BY <3>2, FS_EmptySet
    <3>5. Cardinality(ing1 \cup next) >= NumConcurrency
      BY <1>8, <2>2, <3>1, <3>3, <3>4, NumConcurrencyAssumption DEF free
    <3>6. Cardinality(ing1 \cup next) \in Nat
      BY <1>8, <3>1, <3>3, <3>4
    <3> QED
      BY <3>5, <3>6, NumConcurrencyAssumption
  <2> QED
    BY <1>9, <2>1, <2>2
<1>15. QueryRight(p, after)
  <2> HIDE DEF after
  <2>1. Slots(after)
    BY <1>11, <1>14 DEF Slots
  <2> QED
    BY <1>11, <1>12, <1>13, <2>1 DEF QueryRight
<1>16. next \in SUBSET (Peers \ {p}) /\ from \notin next /\ next \cap ing = {}
  BY <1>1, <1>10
<1>17. after.contacting = (ing \ {from}) \cup next
  BY <1>11
<1> QED
  BY <1>15, <1>16, <1>17 DEF answered, next

-----------------------------------------------------------------------------
(* A step changes the state of one peer: it is enough that this one is     *)
(* right again, and that what it sends is.                                 *)
LEMMA PeerStep ==
  ASSUME PeersInv, NEW p \in Peers,
         NEW tbl, NEW sign, NEW qs, NEW tm, NEW ref, NEW boot, NEW why \in {None, "timeout"},
         tables' = [tables EXCEPT ![p] = tbl], signing' = [signing EXCEPT ![p] = sign],
         queries' = [queries EXCEPT ![p] = qs], timers' = [timers EXCEPT ![p] = tm],
         refresh' = [refresh EXCEPT ![p] = ref], booting' = [booting EXCEPT ![p] = boot],
         failure' = [failure EXCEPT ![p] = why],
         PeerRight(p, tbl, sign, qs, tm, ref, boot),
         \A m \in net' : MessageRight(m)
  PROVE  PeersInv'
<1>1. Shape'
  BY DEF PeersInv, Shape
<1>2. ASSUME NEW q \in Peers
      PROVE  /\ PeerRight(q, tables'[q], signing'[q], queries'[q], timers'[q], refresh'[q], booting'[q])
             /\ failure'[q] \in {None, "timeout"}
  <2>1. CASE q = p
    <3>1. /\ tables'[q] = tbl /\ signing'[q] = sign /\ queries'[q] = qs /\ timers'[q] = tm
          /\ refresh'[q] = ref /\ booting'[q] = boot /\ failure'[q] = why
      BY <2>1 DEF PeersInv, Shape
    <3> QED
      BY <2>1, <3>1
  <2>2. CASE q # p
    <3>1. /\ tables'[q] = tables[q] /\ signing'[q] = signing[q] /\ queries'[q] = queries[q]
          /\ timers'[q] = timers[q] /\ refresh'[q] = refresh[q] /\ booting'[q] = booting[q]
          /\ failure'[q] = failure[q]
      BY <2>2 DEF PeersInv, Shape
    <3>2. /\ PeerRight(q, tables[q], signing[q], queries[q], timers[q], refresh[q], booting[q])
          /\ failure[q] \in {None, "timeout"}
      BY DEF PeersInv
    <3> QED
      BY <3>1, <3>2
  <2> QED
    BY <2>1, <2>2
<1> QED
  BY <1>1, <1>2 DEF PeersInv

LEMMA Same ==
  ASSUME PeersInv, NEW p \in Peers
  PROVE  /\ tables = [tables EXCEPT ![p] = tables[p]]
         /\ signing = [signing EXCEPT ![p] = signing[p]]
         /\ queries = [queries EXCEPT ![p] = queries[p]]
         /\ timers = [timers EXCEPT ![p] = timers[p]]
         /\ refresh = [refresh EXCEPT ![p] = refresh[p]]
         /\ booting = [booting EXCEPT ![p] = booting[p]]
         /\ failure = [failure EXCEPT ![p] = failure[p]]
<1>1. Shape
  BY DEF PeersInv
<1>2. tables = [tables EXCEPT ![p] = tables[p]]
  BY <1>1 DEF Shape
<1>3. signing = [signing EXCEPT ![p] = signing[p]]
  BY <1>1 DEF Shape
<1>4. queries = [queries EXCEPT ![p] = queries[p]]
  BY <1>1 DEF Shape
<1>5. timers = [timers EXCEPT ![p] = timers[p]]
  BY <1>1 DEF Shape
<1>6. refresh = [refresh EXCEPT ![p] = refresh[p]]
  BY <1>1 DEF Shape
<1>7. booting = [booting EXCEPT ![p] = booting[p]]
  BY <1>1 DEF Shape
<1>8. failure = [failure EXCEPT ![p] = failure[p]]
  BY <1>1 DEF Shape
<1> QED
  BY <1>2, <1>3, <1>4, <1>5, <1>6, <1>7, <1>8

LEMMA PeerIs ==
  ASSUME PeersInv, NEW p \in Peers
  PROVE  /\ PeerRight(p, tables[p], signing[p], queries[p], timers[p], refresh[p], booting[p])
         /\ failure[p] \in {None, "timeout"}
         /\ \A m \in net : MessageRight(m)
  BY DEF PeersInv

(* The session of a peer ends. *)
LEMMA FailKeeps ==
  ASSUME PeersInv, NEW p \in Peers, Fail(p, "timeout")
  PROVE  PeersInv'
<1> DEFINE tbl == EmptyTable
<1>1. /\ failure' = [failure EXCEPT ![p] = "timeout"] /\ tables' = [tables EXCEPT ![p] = tbl]
      /\ signing' = [signing EXCEPT ![p] = {}] /\ queries' = [queries EXCEPT ![p] = <<>>]
      /\ timers' = [timers EXCEPT ![p] = {}] /\ refresh' = [refresh EXCEPT ![p] = {}]
      /\ booting' = booting /\ net' \subseteq net
  BY DEF Fail
<1>2. booting' = [booting EXCEPT ![p] = booting[p]]
  BY <1>1, Same
<1>3. PeerRight(p, tbl, {}, <<>>, {}, {}, booting[p])
  <2>1. tbl \in [Indices -> Listed]
    BY EmptyTyped
  <2>2. AllRight(p, <<>>) /\ {} = Waits(<<>>) /\ SignsRight({}, <<>>) /\ Under({}, <<>>) = {}
    BY DEF AllRight, Waits, SignsRight, Under
  <2>3. booting[p] \in BOOLEAN
    BY PeerIs DEF PeerRight, BootsRight
  <2>4. BootsRight(p, {}, <<>>, {}, booting[p])
    BY <2>2, <2>3 DEF BootsRight
  <2> QED
    BY <2>1, <2>2, <2>4 DEF PeerRight
<1>4. \A m \in net' : MessageRight(m)
  BY <1>1, PeerIs
<1> HIDE DEF tbl
<1> QED
  BY <1>1, <1>2, <1>3, <1>4, PeerStep

(* A query of the user, outside of bootstrap: its target is new. *)
LEMMA QueryKeeps ==
  ASSUME PeersInv, NEW p \in Peers, NEW target \in Ids, NEW count \in Nat \ {0},
         Query(p, target, count)
  PROVE  PeersInv'
<1> DEFINE sign == signing[p] \cup {<<target, count>>}
           qs == queries[p]
<1>1. /\ ~booting[p] /\ target \notin DOMAIN qs /\ \A s \in signing[p] : s[1] # target
      /\ signing' = [signing EXCEPT ![p] = sign]
      /\ UNCHANGED <<tables, queries, timers, refresh, booting, failure, net>>
  BY DEF Query
<1>2. PeerRight(p, tables[p], signing[p], qs, timers[p], refresh[p], booting[p])
  BY PeerIs
<1>3. SignsRight(sign, qs)
  <2>1. SignsRight(signing[p], qs)
    BY <1>2 DEF PeerRight
  <2> HIDE DEF qs
  <2> QED
    BY <1>1, <2>1 DEF SignsRight
<1>4. BootsRight(p, sign, qs, refresh[p], booting[p])
  BY <1>1, <1>2 DEF PeerRight, BootsRight
<1>5. PeerRight(p, tables[p], sign, qs, timers[p], refresh[p], booting[p])
  BY <1>2, <1>3, <1>4 DEF PeerRight
<1>6. /\ tables' = [tables EXCEPT ![p] = tables[p]] /\ queries' = [queries EXCEPT ![p] = qs]
      /\ timers' = [timers EXCEPT ![p] = timers[p]] /\ refresh' = [refresh EXCEPT ![p] = refresh[p]]
      /\ booting' = [booting EXCEPT ![p] = booting[p]] /\ failure' = [failure EXCEPT ![p] = failure[p]]
  BY <1>1, Same
<1>7. failure[p] \in {None, "timeout"}
  BY PeerIs
<1>8. \A m \in net' : MessageRight(m)
  BY <1>1, PeerIs
<1>9. signing' = [signing EXCEPT ![p] = sign]
  BY <1>1
<1> HIDE DEF sign, qs
<1> QED
  BY <1>5, <1>6, <1>7, <1>8, <1>9, PeerStep

(* The timers that queries have, as queries come, change and go. *)
LEMMA WaitsPut ==
  ASSUME NEW qs, NEW t, t \notin DOMAIN qs, NEW query
  PROVE  Waits(Put(qs, t, query)) = Waits(qs) \cup {t} \X query.contacting
<1> DEFINE after == Put(qs, t, query)
<1>1. /\ DOMAIN after = DOMAIN qs \cup {t} /\ after[t] = query
      /\ \A u \in DOMAIN qs : u # t => after[u] = qs[u]
  BY DEF Put
<1> HIDE DEF after
<1>2. ASSUME NEW w \in Waits(after) PROVE w \in Waits(qs) \cup {t} \X query.contacting
  <2>1. PICK u \in DOMAIN after : w \in {u} \X after[u].contacting
    BY DEF Waits
  <2>2. CASE u = t
    BY <1>1, <2>1, <2>2
  <2>3. CASE u # t
    <3>1. u \in DOMAIN qs /\ w \in {u} \X qs[u].contacting
      BY <1>1, <2>1, <2>3
    <3> QED
      BY <3>1 DEF Waits
  <2> QED
    BY <2>2, <2>3
<1>3. ASSUME NEW w \in Waits(qs) PROVE w \in Waits(after)
  <2>1. PICK u \in DOMAIN qs : w \in {u} \X qs[u].contacting
    BY DEF Waits
  <2>2. u \in DOMAIN after /\ w \in {u} \X after[u].contacting
    BY <1>1, <2>1
  <2> QED
    BY <2>2 DEF Waits
<1>4. {t} \X query.contacting \subseteq Waits(after)
  BY <1>1 DEF Waits
<1> QED
  BY <1>2, <1>3, <1>4 DEF after

Elsewhere(qs, after, t) ==
  DOMAIN after = DOMAIN qs /\ \A u \in DOMAIN qs : u # t => after[u] = qs[u]

LEMMA WaitsChange ==
  ASSUME NEW qs, NEW after, NEW t \in DOMAIN qs, Elsewhere(qs, after, t),
         NEW from, NEW next,
         after[t].contacting = (qs[t].contacting \ {from}) \cup next
  PROVE  Waits(after) = (Waits(qs) \ {<<t, from>>}) \cup {t} \X next
<1> USE DEF Elsewhere
<1>1. ASSUME NEW w \in Waits(after) PROVE w \in (Waits(qs) \ {<<t, from>>}) \cup {t} \X next
  <2>1. PICK u \in DOMAIN qs : w \in {u} \X after[u].contacting
    BY DEF Waits
  <2>2. CASE u = t
    <3>1. w[1] = t /\ w = <<t, w[2]>> /\ w[2] \in (qs[t].contacting \ {from}) \cup next
      BY <2>1, <2>2
    <3>2. CASE w[2] \in next
      BY <3>1, <3>2
    <3>3. CASE w[2] \in qs[t].contacting \ {from}
      <4>1. w \in {t} \X qs[t].contacting /\ w # <<t, from>>
        BY <3>1, <3>3
      <4> QED
        BY <4>1 DEF Waits
    <3> QED
      BY <3>1, <3>2, <3>3
  <2>3. CASE u # t
    <3>1. w \in {u} \X qs[u].contacting /\ w # <<t, from>>
      BY <2>1, <2>3
    <3> QED
      BY <3>1 DEF Waits
  <2> QED
    BY <2>2, <2>3
<1>2. ASSUME NEW w \in Waits(qs), w # <<t, from>> PROVE w \in Waits(after)
  <2>1. PICK u \in DOMAIN qs : w \in {u} \X qs[u].contacting
    BY DEF Waits
  <2>2. w \in {u} \X after[u].contacting
    <3>1. CASE u = t
      BY <1>2, <2>1, <3>1
    <3>2. CASE u # t
      BY <2>1, <3>2
    <3> QED
      BY <3>1, <3>2
  <2> QED
    BY <2>2 DEF Waits
<1>3. {t} \X next \subseteq Waits(after)
  BY DEF Waits
<1> QED
  BY <1>1, <1>2, <1>3

LEMMA WaitsDrop ==
  ASSUME NEW qs, NEW t, \A u \in DOMAIN qs : qs[u].contacting \subseteq Peers
  PROVE  Waits(Drop(qs, t)) = Waits(qs) \ ({t} \X Peers)
<1> DEFINE after == Drop(qs, t)
<1>1. /\ DOMAIN after = DOMAIN qs \ {t}
      /\ \A u \in DOMAIN qs : u # t => after[u] = qs[u]
  BY DropFacts
<1> HIDE DEF after
<1>2. ASSUME NEW w \in Waits(after) PROVE w \in Waits(qs) \ ({t} \X Peers)
  <2>1. PICK u \in DOMAIN after : w \in {u} \X after[u].contacting
    BY DEF Waits
  <2>2. u # t /\ u \in DOMAIN qs /\ w \in {u} \X qs[u].contacting
    BY <1>1, <2>1
  <2>3. w \notin {t} \X Peers
    BY <2>2
  <2> QED
    BY <2>2, <2>3 DEF Waits
<1>3. ASSUME NEW w \in Waits(qs) \ ({t} \X Peers) PROVE w \in Waits(after)
  <2>1. PICK u \in DOMAIN qs : w \in {u} \X qs[u].contacting
    BY DEF Waits
  <2>2. u # t
    BY <2>1
  <2>3. u \in DOMAIN after /\ w \in {u} \X after[u].contacting
    BY <1>1, <2>1, <2>2
  <2> QED
    BY <2>3 DEF Waits
<1> QED
  BY <1>2, <1>3 DEF after

(* A FindPeer is signed, and its query begins. *)
LEMMA SignedKeeps ==
  ASSUME PeersInv, NEW p \in Peers, SignedFindPeer(p)
  PROVE  PeersInv'
<1>1. PICK s \in signing[p] :
        LET target == s[1]
            query == NewQuery(p, target, s[2])
        IN  /\ Alive(p)
            /\ IF target \in DOMAIN queries[p]
               THEN Fail(p, "concurrent query")
               ELSE /\ signing' = [signing EXCEPT ![p] = @ \ {s}]
                    /\ queries' = [queries EXCEPT ![p] = Put(@, target, query)]
                    /\ timers' = [timers EXCEPT ![p] = @ \cup {target} \X query.contacting]
                    /\ net' = net \cup {FindPeer(p, to, target, query.count) : to \in query.contacting}
                    /\ UNCHANGED <<tables, refresh, booting, failure, asked, numAsked>>
  BY Zenon DEF SignedFindPeer
<1> DEFINE target == s[1]
           query == NewQuery(p, target, s[2])
           qs == queries[p]
           sign == signing[p] \ {s}
           after == Put(qs, target, query)
           tm == timers[p] \cup {target} \X query.contacting
<1>2. /\ PeerRight(p, tables[p], signing[p], qs, timers[p], refresh[p], booting[p])
      /\ failure[p] \in {None, "timeout"} /\ \A m \in net : MessageRight(m)
  BY PeerIs
<1>3. /\ tables[p] \in [Indices -> Listed] /\ AllRight(p, qs) /\ timers[p] = Waits(qs)
      /\ SignsRight(signing[p], qs) /\ BootsRight(p, signing[p], qs, refresh[p], booting[p])
  BY <1>2 DEF PeerRight
<1>4. /\ target \in Ids /\ s[2] \in Nat \ {0} /\ target \notin DOMAIN qs
      /\ \A u \in signing[p] : u[1] = target => u = s
      /\ \A u \in signing[p] : u[1] \notin DOMAIN qs
      /\ signing[p] \in SUBSET (Ids \X (Nat \ {0}))
      /\ \A u, w \in signing[p] : u[1] = w[1] => u = w
  <2> HIDE DEF qs
  <2> QED
    BY <1>3 DEF SignsRight
<1>5. QueryRight(p, query)
  BY <1>3, <1>4, NewQueryRight
<1>6. /\ signing' = [signing EXCEPT ![p] = sign] /\ queries' = [queries EXCEPT ![p] = after]
      /\ timers' = [timers EXCEPT ![p] = tm]
      /\ net' = net \cup {FindPeer(p, to, target, query.count) : to \in query.contacting}
      /\ tables' = tables /\ refresh' = refresh /\ booting' = booting /\ failure' = failure
  BY <1>1, <1>4
<1>7. /\ DOMAIN after = DOMAIN qs \cup {target} /\ after[target] = query
      /\ \A u \in DOMAIN qs : u # target => after[u] = qs[u]
  <2> HIDE DEF target, query, qs
  <2> QED
    BY DEF Put
<1>8. tm = Waits(after)
  BY <1>3, <1>4, WaitsPut
<1> HIDE DEF query, qs, after, tm, target
<1>9. AllRight(p, after)
  BY <1>3, <1>4, <1>5, <1>7 DEF AllRight
<1>10. SignsRight(sign, after)
  BY <1>4, <1>7 DEF SignsRight, target
<1>11. Under(sign, after) = Under(signing[p], qs)
  BY <1>4, <1>7 DEF Under, target
<1>12. BootsRight(p, sign, after, refresh[p], booting[p])
  BY <1>3, <1>11 DEF BootsRight
<1>13. PeerRight(p, tables[p], sign, after, tm, refresh[p], booting[p])
  BY <1>3, <1>8, <1>9, <1>10, <1>12 DEF PeerRight
<1>14. \A m \in net' : MessageRight(m)
  <2>1. \A to \in query.contacting : to \in Peers \ {p}
    BY <1>5 DEF QueryRight, QueryState
  <2>2. \A to \in query.contacting : MessageRight(FindPeer(p, to, target, query.count))
    BY <1>4, <2>1 DEF MessageRight, FindPeer
  <2> QED
    BY <1>2, <1>6, <2>2
<1>15. tables' = [tables EXCEPT ![p] = tables[p]] /\ refresh' = [refresh EXCEPT ![p] = refresh[p]]
       /\ booting' = [booting EXCEPT ![p] = booting[p]] /\ failure' = [failure EXCEPT ![p] = failure[p]]
  BY <1>6, Same
<1>16. failure[p] \in {None, "timeout"}
  BY <1>2
<1>17. signing' = [signing EXCEPT ![p] = sign] /\ queries' = [queries EXCEPT ![p] = after]
       /\ timers' = [timers EXCEPT ![p] = tm]
  BY <1>6
<1> HIDE DEF sign
<1> QED
  BY <1>13, <1>14, <1>15, <1>16, <1>17, PeerStep

(* The timer of a contact expires: its query is there. *)
LEMMA ResendKeeps ==
  ASSUME PeersInv, NEW p \in Peers, ResendFindPeer(p)
  PROVE  PeersInv'
<1>1. PICK t \in timers[p] : Fail(p, IF t[1] \in DOMAIN queries[p] THEN "timeout" ELSE "unwrap")
  BY DEF ResendFindPeer
<1>2. timers[p] = Waits(queries[p])
  BY PeerIs DEF PeerRight
<1>3. t[1] \in DOMAIN queries[p]
  BY <1>2 DEF Waits
<1>4. Fail(p, "timeout")
  BY <1>1, <1>3
<1> QED
  BY <1>4, FailKeeps

(* What a peer receives comes from another one; it goes into the table. *)
LEMMA ReceivedIs ==
  ASSUME PeersInv, NEW p \in Peers, NEW m \in net, m.to = p
  PROVE  /\ m.from \in Peers \ {p} /\ m.target \in Ids
         /\ Insert(p, tables[p], m.from) \in [Indices -> Listed]
         /\ StartIndices(Insert(p, tables[p], m.from)) # {}
<1>1. m.from \in Peers \ {p} /\ m.target \in Ids
  BY PeerIs DEF MessageRight
<1>2. tables[p] \in [Indices -> Listed]
  BY PeerIs DEF PeerRight
<1>3. Insert(p, tables[p], m.from) \in [Indices -> Listed] /\ StartIndices(Insert(p, tables[p], m.from)) # {}
  BY <1>1, <1>2, InsertTyped
<1> QED
  BY <1>1, <1>3

(* A peer whose table and messages change only. *)
OnlyTable(p, tbl) ==
  /\ tables' = [tables EXCEPT ![p] = tbl]
  /\ UNCHANGED <<signing, queries, timers, refresh, booting, failure>>

LEMMA TableKeeps ==
  ASSUME PeersInv, NEW p \in Peers, NEW tbl \in [Indices -> Listed], OnlyTable(p, tbl),
         \A m \in net' : MessageRight(m)
  PROVE  PeersInv'
<1>1. PeerRight(p, tbl, signing[p], queries[p], timers[p], refresh[p], booting[p])
  BY PeerIs DEF PeerRight
<1>2. /\ signing' = [signing EXCEPT ![p] = signing[p]] /\ queries' = [queries EXCEPT ![p] = queries[p]]
      /\ timers' = [timers EXCEPT ![p] = timers[p]] /\ refresh' = [refresh EXCEPT ![p] = refresh[p]]
      /\ booting' = [booting EXCEPT ![p] = booting[p]] /\ failure' = [failure EXCEPT ![p] = failure[p]]
  BY Same DEF OnlyTable
<1>3. failure[p] \in {None, "timeout"}
  BY PeerIs
<1>4. tables' = [tables EXCEPT ![p] = tbl]
  BY DEF OnlyTable
<1> QED
  BY <1>1, <1>2, <1>3, <1>4, PeerStep

(* A FindPeer is answered. *)
LEMMA FindPeerKeeps ==
  ASSUME PeersInv, NEW p \in Peers, VerifiedFindPeer(p)
  PROVE  PeersInv'
<1>1. PICK m \in net :
        /\ m.to = p
        /\ IF m.from = p THEN Fail(p, "origin")
           ELSE LET known == Insert(p, tables[p], m.from)
                    closest == Closest(p, known, m.target, m.count)
                IN  /\ tables' = [tables EXCEPT ![p] = known]
                    /\ net' = (net \ {m}) \cup {FindPeerOk(p, m.from, m.target, closest)}
                    /\ UNCHANGED <<signing, queries, timers, refresh, booting, failure,
                                   asked, numAsked>>
  BY Zenon DEF VerifiedFindPeer
<1> DEFINE tbl == Insert(p, tables[p], m.from)
           closest == Closest(p, tbl, m.target, m.count)
           answer == FindPeerOk(p, m.from, m.target, closest)
<1>2. m.from \in Peers \ {p} /\ m.target \in Ids /\ tbl \in [Indices -> Listed]
  BY <1>1, ReceivedIs
<1>3. /\ tables' = [tables EXCEPT ![p] = tbl] /\ net' = (net \ {m}) \cup {answer}
      /\ UNCHANGED <<signing, queries, timers, refresh, booting, failure>>
  BY <1>1, <1>2
<1> HIDE DEF tbl
<1>4. closest \in SUBSET Peers
  BY <1>2, ClosestAre
<1> HIDE DEF closest
<1>5. MessageRight(answer)
  BY <1>2, <1>4 DEF MessageRight, FindPeerOk
<1>6. \A x \in net' : MessageRight(x)
  BY <1>3, <1>5, PeerIs
<1>7. OnlyTable(p, tbl)
  BY <1>3 DEF OnlyTable
<1>8. tbl \in [Indices -> Listed]
  BY <1>2
<1> QED
  BY <1>6, <1>7, <1>8, TableKeeps

(* A query that goes on: its timers, its contacts and its state agree      *)
(* again.                                                                  *)
LEMMA GoesOnKeeps ==
  ASSUME PeersInv, NEW p \in Peers, NEW m \in net, m.type = "FindPeerOk", m.to = p,
         m.target \in DOMAIN queries[p], m.from \in queries[p][m.target].contacting,
         Status(Answered(queries[p][m.target], m.from, m.closest), m.target) = "Progress",
         NEW tbl \in [Indices -> Listed], Proceed(p, m, tbl)
  PROVE  PeersInv'
<1> DEFINE target == m.target
           qs == queries[p]
           query == Answered(qs[target], m.from, m.closest)
           next == NextContacts(query, target)
           grown == [query EXCEPT !.contacting = @ \cup next]
           after == [qs EXCEPT ![target] = grown]
           tm == (timers[p] \ {<<target, m.from>>}) \cup {target} \X next
           asks == {FindPeer(p, to, target, query.count) : to \in next}
<1>1. /\ queries' = [queries EXCEPT ![p] = after]
      /\ timers' = [timers EXCEPT ![p] = tm]
      /\ net' = (net \ {m}) \cup asks
      /\ refresh' = [refresh EXCEPT ![p] = refresh[p]]
      /\ signing' = signing /\ booting' = booting
      /\ tables' = [tables EXCEPT ![p] = tbl]
      /\ failure' = failure
  BY Zenon DEF Proceed, TimersAfter
<1>2. /\ target \in Ids /\ m.closest \in SUBSET Peers
  BY PeerIs DEF MessageRight
<1>3. /\ AllRight(p, qs) /\ timers[p] = Waits(qs)
      /\ SignsRight(signing[p], qs) /\ BootsRight(p, signing[p], qs, refresh[p], booting[p])
  BY PeerIs DEF PeerRight
<1>4. target \in DOMAIN qs /\ m.from \in qs[target].contacting
  OBVIOUS
<1> HIDE DEF qs
<1>5. QueryRight(p, qs[target])
  BY <1>3, <1>4 DEF AllRight
<1>6. Status(query, target) = "Progress"
  BY DEF qs
<1>7. /\ QueryRight(p, grown)
      /\ next \in SUBSET (Peers \ {p})
      /\ grown.contacting = (qs[target].contacting \ {m.from}) \cup next
  BY <1>2, <1>4, <1>5, <1>6, GoesOnRight
<1> HIDE DEF query, next, grown
<1>8. /\ DOMAIN after = DOMAIN qs /\ after[target] = grown
      /\ \A u \in DOMAIN qs : u # target => after[u] = qs[u]
  BY <1>4
<1> HIDE DEF after, target
<1>9. Waits(after) = (Waits(qs) \ {<<target, m.from>>}) \cup {target} \X next
  <2>1. after[target].contacting = (qs[target].contacting \ {m.from}) \cup next
    BY <1>7, <1>8
  <2>2. Elsewhere(qs, after, target)
    BY <1>8 DEF Elsewhere
  <2>3. target \in DOMAIN qs
    BY <1>4
  <2> QED
    BY <2>1, <2>2, <2>3, WaitsChange
<1>10. tm = Waits(after)
  BY <1>3, <1>9
<1>11. AllRight(p, after)
  BY <1>2, <1>3, <1>7, <1>8 DEF AllRight
<1>12. SignsRight(signing[p], after)
  BY <1>3, <1>8 DEF SignsRight
<1>13. BootsRight(p, signing[p], after, refresh[p], booting[p])
  <2>1. Under(signing[p], after) = Under(signing[p], qs)
    BY <1>8 DEF Under
  <2> QED
    BY <1>3, <2>1 DEF BootsRight
<1> HIDE DEF tm
<1>14. PeerRight(p, tbl, signing[p], after, tm, refresh[p], booting[p])
  BY <1>10, <1>11, <1>12, <1>13 DEF PeerRight
<1>15. \A x \in net' : MessageRight(x)
  <2>1. \A to \in next : MessageRight(FindPeer(p, to, target, query.count))
    BY <1>2, <1>7 DEF MessageRight, FindPeer
  <2> QED
    BY <1>1, <2>1, PeerIs
<1>16. signing' = [signing EXCEPT ![p] = signing[p]] /\ booting' = [booting EXCEPT ![p] = booting[p]]
       /\ failure' = [failure EXCEPT ![p] = failure[p]]
  BY <1>1, Same
<1>17. failure[p] \in {None, "timeout"}
  BY PeerIs
<1>18. /\ queries' = [queries EXCEPT ![p] = after] /\ timers' = [timers EXCEPT ![p] = tm]
       /\ refresh' = [refresh EXCEPT ![p] = refresh[p]] /\ tables' = [tables EXCEPT ![p] = tbl]
  BY <1>1
<1> QED
  BY <1>14, <1>15, <1>16, <1>17, <1>18, PeerStep

(* The query of bootstrap has ended, it was the only one, and refreshing   *)
(* goes on with one of the targets if there is any.                        *)
Started(p, sign, qs, targets) ==
  /\ signing' = [signing EXCEPT ![p] = sign]
  /\ refresh' = [refresh EXCEPT ![p] = targets]
  /\ booting' = [booting EXCEPT ![p] = targets # {}]
  /\ SignsRight(sign, qs)
  /\ BootsRight(p, sign, qs, targets, targets # {})

LEMMA StartRight ==
  ASSUME PeersInv, NEW p \in Peers, signing[p] = {}, NEW qs, DOMAIN qs = {},
         NEW targets \in SUBSET Ids, StartRefresh(p, targets)
  PROVE  \E sign : Started(p, sign, qs, targets)
<1>1. refresh' = [refresh EXCEPT ![p] = targets] /\ booting' = [booting EXCEPT ![p] = targets # {}]
  BY DEF StartRefresh
<1>2. CASE targets = {}
  <2>1. signing' = signing
    BY <1>2 DEF StartRefresh
  <2>2. signing' = [signing EXCEPT ![p] = signing[p]]
    BY <2>1, Same
  <2>3. Under({}, qs) = {}
    BY DEF Under
  <2>4. SignsRight({}, qs)
    BY DEF SignsRight
  <2>5. BootsRight(p, {}, qs, targets, targets # {})
    BY <1>2, <2>3 DEF BootsRight
  <2>6. Started(p, {}, qs, targets)
    BY <1>1, <2>2, <2>4, <2>5 DEF Started
  <2> QED
    BY <2>6
<1>3. CASE targets # {}
  <2>1. PICK target \in targets : signing' = [signing EXCEPT ![p] = @ \cup {<<target, BucketSize>>}]
    BY <1>3 DEF StartRefresh
  <2> DEFINE sign == {<<target, BucketSize>>}
  <2>2. signing' = [signing EXCEPT ![p] = sign]
    BY <2>1
  <2>3. Under(sign, qs) = {target}
    BY DEF Under
  <2>4. SignsRight(sign, qs)
    BY BucketSizeAssumption DEF SignsRight
  <2> HIDE DEF sign
  <2>5. BootsRight(p, sign, qs, targets, targets # {})
    BY <1>3, <2>3 DEF BootsRight
  <2>6. Started(p, sign, qs, targets)
    BY <1>1, <2>2, <2>4, <2>5 DEF Started
  <2> QED
    BY <2>6
<1> QED
  BY <1>2, <1>3

(* A query that has ended: its timers are unset, and during bootstrap the  *)
(* next one starts.                                                        *)
LEMMA EndedKeeps ==
  ASSUME PeersInv, NEW p \in Peers, NEW m \in net, m.type = "FindPeerOk", m.to = p,
         m.target \in DOMAIN queries[p], m.from \in queries[p][m.target].contacting,
         Status(Answered(queries[p][m.target], m.from, m.closest), m.target) # "Progress",
         NEW tbl \in [Indices -> Listed], Proceed(p, m, tbl)
  PROVE  PeersInv'
<1> DEFINE target == m.target
           qs == queries[p]
           after == Drop(qs, target)
           tm == timers[p] \ ({target} \X Peers)
<1>1. /\ queries' = [queries EXCEPT ![p] = after]
      /\ timers' = [timers EXCEPT ![p] = tm]
      /\ net' = net \ {m}
      /\ booting[p] => BootstrapStep(p, target, tbl)
      /\ ~booting[p] => /\ refresh' = [refresh EXCEPT ![p] = @ \ {target}]
                        /\ signing' = signing /\ booting' = booting
      /\ tables' = [tables EXCEPT ![p] = tbl]
      /\ failure' = failure
  BY Zenon DEF Proceed, TimersAfter
<1>2. /\ AllRight(p, qs) /\ timers[p] = Waits(qs)
      /\ SignsRight(signing[p], qs) /\ BootsRight(p, signing[p], qs, refresh[p], booting[p])
  BY PeerIs DEF PeerRight
<1>3. target \in DOMAIN qs
  OBVIOUS
<1>4. DOMAIN after = DOMAIN qs \ {target} /\ \A u \in DOMAIN qs : u # target => after[u] = qs[u]
  BY DropFacts
<1> HIDE DEF qs, target
<1>5. tm = Waits(after)
  <2>1. \A u \in DOMAIN qs : qs[u].contacting \subseteq Peers
    BY <1>2 DEF AllRight, QueryRight, QueryState
  <2> QED
    BY <1>2, <2>1, WaitsDrop
<1> HIDE DEF after, tm
<1>6. AllRight(p, after)
  BY <1>2, <1>4 DEF AllRight
<1>7. SignsRight(signing[p], after)
  BY <1>2, <1>4 DEF SignsRight
<1>8. \A x \in net' : MessageRight(x)
  BY <1>1, PeerIs
<1>9. failure' = [failure EXCEPT ![p] = failure[p]] /\ failure[p] \in {None, "timeout"}
  BY <1>1, Same, PeerIs
<1>10. queries' = [queries EXCEPT ![p] = after] /\ timers' = [timers EXCEPT ![p] = tm]
       /\ tables' = [tables EXCEPT ![p] = tbl]
  BY <1>1
<1>11. CASE ~booting[p]
  <2>1. refresh[p] = {}
    BY <1>2, <1>11 DEF BootsRight
  <2>2. refresh' = [refresh EXCEPT ![p] = {}]
    BY <1>1, <1>11, <2>1
  <2>3. signing' = [signing EXCEPT ![p] = signing[p]] /\ booting' = [booting EXCEPT ![p] = booting[p]]
    BY <1>1, <1>11, Same
  <2>4. BootsRight(p, signing[p], after, {}, booting[p])
    BY <1>2, <1>11 DEF BootsRight
  <2>5. PeerRight(p, tbl, signing[p], after, tm, {}, booting[p])
    BY <1>5, <1>6, <1>7, <2>4 DEF PeerRight
  <2> QED
    BY <1>8, <1>9, <1>10, <2>2, <2>3, <2>5, PeerStep
<1>12. CASE booting[p]
  <2>1. \A t, u \in Under(signing[p], qs) : t = u
    BY <1>2, <1>12 DEF BootsRight
  <2>2. signing[p] = {} /\ DOMAIN after = {}
    <3>1. target \in Under(signing[p], qs)
      BY <1>3 DEF Under
    <3>2. \A s \in signing[p] : s[1] \in Under(signing[p], qs) /\ s[1] \notin DOMAIN qs
      BY <1>2 DEF Under, SignsRight
    <3>3. signing[p] = {}
      BY <1>3, <2>1, <3>1, <3>2
    <3>4. \A u \in DOMAIN qs : u \in Under(signing[p], qs)
      BY DEF Under
    <3>5. \A u \in DOMAIN qs : u = target
      BY <2>1, <3>1, <3>4
    <3> QED
      BY <1>4, <3>3, <3>5
  <2>3. refresh[p] \in SUBSET Ids
    BY <1>2 DEF BootsRight
  <2>4. PICK targets \in SUBSET Ids : StartRefresh(p, targets)
    <3>1. BootstrapStep(p, target, tbl)
      BY <1>1, <1>12
    <3>2. CASE refresh[p] = {}
      <4>1. PICK targets \in RefreshTargets(p, tbl) : StartRefresh(p, targets)
        BY <3>1, <3>2 DEF BootstrapStep
      <4> DEFINE buckets == Min(StartIndices(tbl))..Bits - 1
      <4>2. PICK f \in [buckets -> Random \ {p}] : targets = {f[i] : i \in buckets}
        BY <4>1, Zenon DEF RefreshTargets
      <4> HIDE DEF buckets
      <4>3. \A i \in buckets : f[i] \in Ids
        BY RandomAssumption
      <4>4. targets \in SUBSET Ids
        BY <4>2, <4>3
      <4> QED
        BY <4>1, <4>4
    <3>3. CASE refresh[p] # {}
      BY <2>3, <3>1, <3>3 DEF BootstrapStep
    <3> QED
      BY <3>2, <3>3
  <2>5. \E sign : Started(p, sign, after, targets)
    BY <2>2, <2>4, StartRight
  <2>6. PICK sign : Started(p, sign, after, targets)
    BY <2>5
  <2>7. PeerRight(p, tbl, sign, after, tm, targets, targets # {})
    BY <1>5, <1>6, <2>6 DEF PeerRight, Started
  <2>8. /\ signing' = [signing EXCEPT ![p] = sign]
        /\ refresh' = [refresh EXCEPT ![p] = targets]
        /\ booting' = [booting EXCEPT ![p] = targets # {}]
    BY <2>6 DEF Started
  <2> DEFINE boot == targets # {}
  <2>9. PeerRight(p, tbl, sign, after, tm, targets, boot) /\ booting' = [booting EXCEPT ![p] = boot]
    BY <2>7, <2>8
  <2> HIDE DEF boot
  <2> QED
    BY <1>8, <1>9, <1>10, <2>8, <2>9, PeerStep
<1> QED
  BY <1>11, <1>12

(* The answer of a peer: what bootstrap asserts of it holds. *)
LEMMA FindPeerOkKeeps ==
  ASSUME PeersInv, NEW p \in Peers, VerifiedFindPeerOk(p)
  PROVE  PeersInv'
<1>1. PICK m \in net :
        /\ m.to = p /\ m.type = "FindPeerOk"
        /\ LET known == Insert(p, tables[p], m.from)
           IN  IF m.target \notin DOMAIN queries[p] \/ m.from \notin queries[p][m.target].contacting
               THEN /\ tables' = [tables EXCEPT ![p] = known]
                    /\ net' = net \ {m}
                    /\ UNCHANGED <<signing, queries, timers, refresh, booting, failure,
                                   asked, numAsked>>
               ELSE IF BootstrapFails(p, m, known)
               THEN Fail(p, "panic")
               ELSE Proceed(p, m, known)
  BY Zenon DEF VerifiedFindPeerOk
<1> DEFINE tbl == Insert(p, tables[p], m.from)
<1>2. /\ m.from \in Peers \ {p} /\ m.target \in Ids
      /\ tbl \in [Indices -> Listed] /\ StartIndices(tbl) # {}
  BY <1>1, ReceivedIs
<1>3. CASE m.target \notin DOMAIN queries[p] \/ m.from \notin queries[p][m.target].contacting
  <2>1. /\ tables' = [tables EXCEPT ![p] = tbl] /\ net' = net \ {m}
        /\ UNCHANGED <<signing, queries, timers, refresh, booting, failure>>
    BY <1>1, <1>3
  <2> HIDE DEF tbl
  <2>2. \A x \in net' : MessageRight(x)
    BY <2>1, PeerIs
  <2>3. OnlyTable(p, tbl)
    BY <2>1 DEF OnlyTable
  <2>4. tbl \in [Indices -> Listed]
    BY <1>2
  <2> QED
    BY <2>2, <2>3, <2>4, TableKeeps
<1>4. CASE m.target \in DOMAIN queries[p] /\ m.from \in queries[p][m.target].contacting
  <2>1. ~BootstrapFails(p, m, tbl)
    <3>1. SUFFICES ASSUME booting[p], refresh[p] # {} PROVE m.target \in refresh[p]
      <4> HIDE DEF tbl
      <4> QED
        BY <1>2 DEF BootstrapFails
    <3>2. BootsRight(p, signing[p], queries[p], refresh[p], booting[p])
      BY PeerIs DEF PeerRight
    <3>3. m.target \in Under(signing[p], queries[p])
      BY <1>4 DEF Under
    <3> QED
      BY <3>1, <3>2, <3>3 DEF BootsRight
  <2>2. Proceed(p, m, tbl)
    BY <1>1, <1>4, <2>1
  <2>3. m.to = p /\ m.type = "FindPeerOk" /\ tbl \in [Indices -> Listed]
    BY <1>1, <1>2
  <2> HIDE DEF tbl
  <2> QED
    BY <1>4, <2>2, <2>3, GoesOnKeeps, EndedKeeps
<1> QED
  BY <1>3, <1>4

-----------------------------------------------------------------------------
LEMMA PeersInit == Init => PeersInv
<1> SUFFICES ASSUME Init PROVE PeersInv
  OBVIOUS
<1>1. Shape
  BY DEF Init, Shape
<1>2. ASSUME NEW p \in Peers
      PROVE  /\ PeerRight(p, tables[p], signing[p], queries[p], timers[p], refresh[p], booting[p])
             /\ failure[p] \in {None, "timeout"}
  <2>1. tables[p] \in [Indices -> Listed]
    <3>1. tables[p] = [i \in Indices |-> Filled({s \in Seeds[p] : Index(p, s) = i})]
      BY DEF Init
    <3>2. \A i \in Indices : Filled({s \in Seeds[p] : Index(p, s) = i}) \in Listed
      <4> TAKE i \in Indices
      <4>1. {s \in Seeds[p] : Index(p, s) = i} \in SUBSET Peers
        BY SeedsAssumption
      <4> QED
        BY <4>1, FilledTyped
    <3> QED
      BY <3>1, <3>2
  <2>2. /\ queries[p] = <<>> /\ timers[p] = {} /\ refresh[p] = {} /\ failure[p] = None
        /\ booting[p] = (Seeds[p] # {})
        /\ signing[p] = IF Seeds[p] # {} THEN {<<p, BucketSize>>} ELSE {}
    BY DEF Init
  <2>3. AllRight(p, queries[p]) /\ timers[p] = Waits(queries[p]) /\ DOMAIN queries[p] = {}
    BY <2>2 DEF AllRight, Waits
  <2>4. p \in Ids /\ <<p, BucketSize>> \in Ids \X (Nat \ {0})
    BY PeersAssumption, BucketSizeAssumption
  <2>5. SignsRight(signing[p], queries[p])
    BY <2>2, <2>3, <2>4 DEF SignsRight
  <2>6. \A t \in Under(signing[p], queries[p]) : t = p
    BY <2>2, <2>3 DEF Under
  <2>7. BootsRight(p, signing[p], queries[p], refresh[p], booting[p])
    BY <2>2, <2>6 DEF BootsRight
  <2> QED
    BY <2>1, <2>2, <2>3, <2>5, <2>7 DEF PeerRight
<1>3. net = {}
  BY DEF Init
<1> QED
  BY <1>1, <1>2, <1>3 DEF PeersInv

LEMMA PeersNext == PeersInv /\ [Next]_vars => PeersInv'
<1> SUFFICES ASSUME PeersInv, [Next]_vars PROVE PeersInv'
  OBVIOUS
<1>1. CASE UNCHANGED vars
  BY <1>1 DEF vars, peerVars, PeersInv, Shape
<1>2. ASSUME NEW lookup \in Lookups, Query(lookup[1], lookup[2], lookup[3]) PROVE PeersInv'
  <2>1. lookup[1] \in Peers /\ lookup[2] \in Ids /\ lookup[3] \in Nat \ {0}
    BY LookupsAssumption
  <2> QED
    BY <1>2, <2>1, QueryKeeps
<1>3. ASSUME NEW p \in Peers, SignedFindPeer(p) PROVE PeersInv'
  BY <1>3, SignedKeeps
<1>4. ASSUME NEW p \in Peers, ResendFindPeer(p) PROVE PeersInv'
  BY <1>4, ResendKeeps
<1>5. ASSUME NEW p \in Peers, VerifiedFindPeer(p) PROVE PeersInv'
  BY <1>5, FindPeerKeeps
<1>6. ASSUME NEW p \in Peers, VerifiedFindPeerOk(p) PROVE PeersInv'
  BY <1>6, FindPeerOkKeeps
<1> QED
  BY <1>1, <1>2, <1>3, <1>4, <1>5, <1>6 DEF Next

(* At any delay, loss and timeout no handler of a peer fails on account of *)
(* its own state, and no query of a peer that knows another is left        *)
(* waiting for nobody (kademlia.rs 406, 432, 445, 493, 673, 692).          *)
THEOREM Sound == Spec => []PeersSound
<1> QED
  BY PeersInit, PeersNext, PeersInvSound, PTL DEF Spec
=============================================================================
