----------------------------- MODULE BucketTable -----------------------------
(***************************************************************************)
(* A table under any sequence of insert and remove.                        *)
(***************************************************************************)
EXTENDS Buckets

CONSTANTS
    Origin,   \* the identifier the table belongs to
    Contacts  \* the identifiers it comes to know

ASSUME OriginAssumption == Origin \in Ids
ASSUME ContactsAssumption == Contacts \subseteq Ids

VARIABLE table   \* Buckets.distances

TableInit == table = EmptyTable

(* An insert of the origin itself is refused. *)
InsertRecord(id) == id # Origin /\ table' = Insert(Origin, table, id)

RemoveRecord(id) == id # Origin /\ table' = Remove(Origin, table, id)

TableNext == \E id \in Contacts : InsertRecord(id) \/ RemoveRecord(id)

TableSpec == TableInit /\ [][TableNext]_table

-----------------------------------------------------------------------------
Elements(s) == {s[k] : k \in DOMAIN s}

Distinct(s) == \A j, k \in DOMAIN s : s[j] = s[k] => j = k

(* A bucket is well formed: both lists within the size and without         *)
(* repetition, no identifier in both, and nothing cached unless the        *)
(* records are full.                                                       *)
WellFormed(bucket) ==
    /\ bucket.records \in Seq(Ids) /\ bucket.cached \in Seq(Ids)
    /\ Len(bucket.records) <= BucketSize /\ Len(bucket.cached) <= BucketSize
    /\ Distinct(bucket.records) /\ Distinct(bucket.cached)
    /\ Elements(bucket.records) \cap Elements(bucket.cached) = {}
    /\ bucket.cached # <<>> => Len(bucket.records) = BucketSize

BucketsWellFormed ==
    /\ table \in [Indices -> [records : Seq(Ids), cached : Seq(Ids)]]
    /\ \A i \in Indices : WellFormed(table[i])

(* Every record is in the bucket of its distance. *)
Placed ==
    \A i \in Indices : \A id \in Elements(table[i].records) \cup Elements(table[i].cached) :
        id # Origin /\ Index(Origin, id) = i

(* Whatever is inserted and removed in which order (insert takes an        *)
(* identifier out of one list and puts it to the other, remove moves them  *)
(* back), the buckets are well formed and hold what belongs there.         *)
TableInv == BucketsWellFormed /\ Placed

(* The order of visits that find_closest takes over from libp2p "why this  *)
(* works" is right (181): for every target and count its result is what    *)
(* sorting everything known by distance gives, the origin included.        *)
FindsNearest ==
    LET known == {Origin} \cup UNION {Elements(table[i].records) : i \in Indices}
    IN  \A target \in Ids, count \in 1..Cardinality(known) + 1 :
            LET found == FindClosest(Origin, table, target, count)
            IN  /\ Elements(found) = Nearest(known, target, count)
                /\ \A j, k \in DOMAIN found :
                      j < k => Nearer(found[j], found[k], target)

(* No operation makes a bucket smaller, and a record is only ever replaced *)
(* by remove, for a cached one: inserting cannot push anybody out.         *)
NeverShrinks ==
    [][\A i \in Indices : /\ Len(table'[i].records) >= Len(table[i].records)
                          /\ \/ Elements(table[i].records) \subseteq Elements(table'[i].records)
                             \/ \E id \in Contacts : RemoveRecord(id) /\ table[i].cached # <<>>]_table
=============================================================================
