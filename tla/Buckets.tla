------------------------------- MODULE Buckets -------------------------------
(***************************************************************************)
(* The bucket table of kademlia.rs, as operators: identifiers of a reduced *)
(* width (the code is generic in BITS for the same purpose), their         *)
(* distance, and what insert, remove and find_closest do to a table.  A    *)
(* record is its identifier: key and address belong to it.                 *)
(***************************************************************************)
EXTENDS Naturals, Sequences, FiniteSets, FiniteSetsExt

CONSTANTS
    Bits,       \* BITS: width of identifiers
    BucketSize  \* BUCKET_SIZE

ASSUME BitsAssumption == Bits \in Nat \ {0}
ASSUME BucketSizeAssumption == BucketSize \in Nat \ {0}

Indices == 0..Bits - 1

(* A number of Bits bits is the set of its bits that are set. *)
Ids == SUBSET Indices

(* The exclusive or of two identifiers. *)
Distance(a, b) == (a \ b) \cup (b \ a)

(* The order of the numbers: the highest bit in which they differ decides. *)
Below(d, e) == \E i \in e \ d : \A j \in Indices : j > i => (j \in d <=> j \in e)

Nearer(x, y, target) == Below(Distance(x, target), Distance(y, target))

Index(origin, target) ==
    CHOOSE i \in Distance(origin, target) : \A j \in Distance(origin, target) : j <= i

EmptyTable == [i \in Indices |-> [records |-> <<>>, cached |-> <<>>]]

(* `position` and `Vec::remove`. *)
Position(records, id) == CHOOSE k \in DOMAIN records : records[k] = id

In(records, id) == \E k \in DOMAIN records : records[k] = id

Removed(records, id) ==
    IF ~In(records, id) THEN records
    ELSE [k \in 1..Len(records) - 1 |-> records[IF k < Position(records, id) THEN k ELSE k + 1]]

(* Mutant: a full bucket makes room for the new record. *)
InsertedEvicting(bucket, id) ==
    LET records == Removed(bucket.records, id)
    IN  [bucket EXCEPT !.records = Append(IF Len(records) < BucketSize THEN records ELSE Tail(records), id)]

(* What insert does to the bucket of the identifier: to the end of the     *)
(* records, or if they are full to the end of the cached ones.             *)
Inserted(bucket, id) ==
    LET records == Removed(bucket.records, id)
        cached == Removed(bucket.cached, id)
    IN  IF Len(records) < BucketSize
        THEN [bucket EXCEPT !.records = Append(records, id)]
        ELSE [records |-> records,
              cached |-> Append(IF Len(cached) = BucketSize THEN Tail(cached) ELSE cached, id)]

Insert(origin, table, id) == [table EXCEPT ![Index(origin, id)] = Inserted(@, id)]

(* Mutant: the cached record that takes the place stays in the cache. *)
WithoutKept(bucket, id) ==
    LET records == Removed(bucket.records, id)
        last == Len(bucket.cached)
    IN  IF ~In(bucket.records, id) THEN bucket
        ELSE IF last > 0
        THEN [bucket EXCEPT !.records = Append(records, bucket.cached[last])]
        ELSE [bucket EXCEPT !.records = <<id>> \o records]

(* What remove does to a bucket: the latest cached record takes the place; *)
(* when there is none the record itself stays, as the first one.           *)
Without(bucket, id) ==
    LET records == Removed(bucket.records, id)
        last == Len(bucket.cached)
    IN  IF ~In(bucket.records, id) THEN bucket
        ELSE IF last > 0
        THEN [records |-> Append(records, bucket.cached[last]),
              cached |-> SubSeq(bucket.cached, 1, last - 1)]
        ELSE [bucket EXCEPT !.records = <<id>> \o records]

Remove(origin, table, id) == [table EXCEPT ![Index(origin, id)] = Without(@, id)]

(* Mutant: the other buckets are visited downwards, too. *)
VisitedDownwards(d, i, j) ==
    \/ i \in d /\ (j \notin d \/ i > j)
    \/ i \notin d /\ j \notin d /\ i > j

(* The order in which find_closest visits the buckets for a target at      *)
(* distance d: the bits of d that are set, downwards, then the others,     *)
(* upwards.                                                                *)
VisitedBefore(d, i, j) ==
    \/ i \in d /\ (j \notin d \/ i > j)
    \/ i \notin d /\ j \notin d /\ i < j

(* The records of bucket i, the origin among those of bucket 0. *)
Candidates(origin, table, i) ==
    {table[i].records[k] : k \in DOMAIN table[i].records} \cup (IF i = 0 THEN {origin} ELSE {})

(* What find_closest sorts, as it gets to it: the candidates with their    *)
(* buckets, in the order of the visits and within a bucket of distance.    *)
Visits(origin, table) == UNION {{i} \X Candidates(origin, table, i) : i \in Indices}

Earlier(origin, target, x, y) ==
    \/ VisitedBefore(Distance(origin, target), x[1], y[1])
    \/ x[1] = y[1] /\ Nearer(x[2], y[2], target)

(* find_closest: the first candidates, up to the count. *)
FindClosest(origin, table, target, count) ==
    LET all == Visits(origin, table)
        Place(x) == Cardinality({y \in all : Earlier(origin, target, y, x)})
    IN  [n \in 1..Min({count, Cardinality(all)}) |-> (CHOOSE x \in all : Place(x) = n - 1)[2]]

(* The n identifiers of a set that are nearest to the target. *)
Nearest(ids, target, n) ==
    {x \in ids : Cardinality({y \in ids : Nearer(y, x, target)}) < n}
=============================================================================
