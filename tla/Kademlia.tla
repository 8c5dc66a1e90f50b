------------------------------ MODULE Kademlia ------------------------------
(***************************************************************************)
(* The peers of kademlia.rs: bootstrap from a seed, iterative queries that *)
(* ask the nearest peers known for nearer ones, refreshing of the buckets, *)
(* and their timers.                                                       *)
(*                                                                         *)
(* A peer is its identifier.  Receiving and verifying a message is one     *)
(* step of its delivery, and so is signing a FindPeerOk (its sequence      *)
(* number only leads back to the address of the request).  Signing a       *)
(* FindPeer is a step of its own: the query begins when it is signed.      *)
(* Records sorted by distance are a set here.                              *)
(***************************************************************************)
EXTENDS Buckets, Functions

Lists == INSTANCE SequencesExt

CONSTANTS
    Peers,           \* identifiers of the peers
    Seeds,           \* the peers in the buckets of each from the start
    NumConcurrency,  \* NUM_CONCURRENCY
    Random,          \* the identifiers chance may choose to refresh a bucket
    Lookups,         \* the queries a user may ask: <<peer, target, count>>
    MaxAsked,        \* bound of the number of queries of the user of each peer
    None             \* no failure

ASSUME PeersAssumption == Peers \subseteq Ids
(* Identifiers are hashes: no two peers differ in the lowest bit only.  A  *)
(* peer that knew only such a one would look for more in bucket 1 and on,  *)
(* past the last bucket (refresh_buckets, 692).                            *)
ASSUME ApartAssumption == \A p, q \in Peers : p # q => Index(p, q) # 0
ASSUME NumConcurrencyAssumption == NumConcurrency \in Nat \ {0}
ASSUME SeedsAssumption == Seeds \in [Peers -> SUBSET Peers] /\ \A p \in Peers : p \notin Seeds[p]
ASSUME RandomAssumption == Random \subseteq Ids
ASSUME MaxAskedAssumption == MaxAsked \in [Peers -> Nat]
ASSUME LookupsAssumption == Lookups \subseteq Peers \X Ids \X (Nat \ {0})

VARIABLES
    tables,   \* Peer.buckets
    signing,  \* FindPeers at the crypto worker
    queries,  \* Peer.query_states
    timers,   \* ResendFindPeer timers of the session
    refresh,  \* Peer.refresh_targets
    booting,  \* Peer.on_bootstrap is there
    failure,  \* why the session of the peer ended
    net,      \* messages in the network
    asked,    \* history: what became of the user's last query to a target
    numAsked  \* history: the number of queries of the user

peerVars == <<tables, signing, queries, timers, refresh, booting, failure>>
vars == <<peerVars, net, asked, numAsked>>

FindPeer(p, to, target, count) ==
    [type |-> "FindPeer", from |-> p, to |-> to, target |-> target, count |-> count]
FindPeerOk(p, to, target, closest) ==
    [type |-> "FindPeerOk", from |-> p, to |-> to, target |-> target, closest |-> closest]

Records(bucket) == {bucket.records[k] : k \in DOMAIN bucket.records}

(* find_closest, as the set that BucketTable!FindsNearest shows it to be. *)
Closest(p, table, target, count) ==
    Nearest({p} \cup UNION {Records(table[i]) : i \in Indices}, target, count)

(* A bucket after inserts of a set of identifiers, one after the other:    *)
(* the first ones are its records, the last of the others are cached.      *)
Filled(ids) ==
    LET order == Lists!SetToSeq(ids)
        n == Len(order)
    IN  [records |-> SubSeq(order, 1, IF n < BucketSize THEN n ELSE BucketSize),
         cached |-> SubSeq(order, Max({BucketSize, n - BucketSize}) + 1, n)]

(* The state of a peer with its seed peers inserted, and after the call of *)
(* bootstrap if it has any; the seed itself does without.                  *)
Init ==
    /\ tables = [p \in Peers |-> [i \in Indices |-> Filled({s \in Seeds[p] : Index(p, s) = i})]]
    /\ booting = [p \in Peers |-> Seeds[p] # {}]
    /\ signing = [p \in Peers |-> IF Seeds[p] # {} THEN {<<p, BucketSize>>} ELSE {}]
    /\ queries = [p \in Peers |-> <<>>]
    /\ timers = [p \in Peers |-> {}]
    /\ refresh = [p \in Peers |-> {}]
    /\ failure = [p \in Peers |-> None]
    /\ net = {}
    /\ asked = [p \in Peers |-> <<>>]
    /\ numAsked = [p \in Peers |-> 0]

Alive(p) == failure[p] = None

(* The handler fails: the session ends and drops the peer, and messages to *)
(* it come to nobody.                                                      *)
Fail(p, why) ==
    /\ failure' = [failure EXCEPT ![p] = why]
    /\ tables' = [tables EXCEPT ![p] = EmptyTable]
    /\ signing' = [signing EXCEPT ![p] = {}]
    /\ queries' = [queries EXCEPT ![p] = <<>>]
    /\ timers' = [timers EXCEPT ![p] = {}]
    /\ refresh' = [refresh EXCEPT ![p] = {}]
    /\ net' = {m \in net : m.to # p}
    /\ UNCHANGED <<booting, asked, numAsked>>

Put(f, x, y) == [z \in DOMAIN f \cup {x} |-> IF z = x THEN y ELSE f[z]]
Drop(f, x) == Restrict(f, DOMAIN f \ {x})

-----------------------------------------------------------------------------
(* The user asks; not during bootstrap, and not a target that is being     *)
(* asked for: that is refused with an error.                               *)
Query(p, target, count) ==
    /\ Alive(p) /\ ~booting[p] /\ numAsked[p] < MaxAsked[p]
    /\ target \notin DOMAIN queries[p] /\ \A s \in signing[p] : s[1] # target
    /\ signing' = [signing EXCEPT ![p] = @ \cup {<<target, count>>}]
    /\ asked' = [asked EXCEPT ![p] = Put(@, target,
                    [count |-> count, status |-> "Pending", closest |-> {},
                     joined |-> {q \in Peers : ~booting[q]}])]
    /\ numAsked' = [numAsked EXCEPT ![p] = @ + 1]
    /\ UNCHANGED <<tables, queries, timers, refresh, booting, failure, net>>

(* The state a query starts with. *)
NewQuery(p, target, count) ==
    LET records == Closest(p, tables[p], target, Max({count, NumConcurrency}))
    IN  [count |-> count, records |-> records, contacted |-> {p},
         contacting |-> Nearest(records \ {p}, target, NumConcurrency)]

SignedFindPeer(p) ==
    \E s \in signing[p] :
        LET target == s[1]
            query == NewQuery(p, target, s[2])
        IN  /\ Alive(p)
            /\ IF target \in DOMAIN queries[p]
               THEN Fail(p, "concurrent query")
               ELSE /\ signing' = [signing EXCEPT ![p] = @ \ {s}]
                    /\ queries' = [queries EXCEPT ![p] = Put(@, target, query)]
                    /\ timers' = [timers EXCEPT ![p] = @ \cup {target} \X query.contacting]
                    /\ net' = net \cup {FindPeer(p, to, target, query.count) : to \in query.contacting}
                    /\ UNCHANGED <<tables, refresh, booting, failure, asked, numAsked>>

(* The timer of a contact expires, which is an error; without a query it   *)
(* is a panic.                                                             *)
ResendFindPeer(p) ==
    \E t \in timers[p] :
        Alive(p) /\ Fail(p, IF t[1] \in DOMAIN queries[p] THEN "timeout" ELSE "unwrap")

(* A FindPeer is answered with what is closest, its sender included. *)
VerifiedFindPeer(p) ==
    \E m \in net :
        /\ Alive(p) /\ m.to = p /\ m.type = "FindPeer"
        /\ IF m.from = p THEN Fail(p, "origin")
           ELSE LET table == Insert(p, tables[p], m.from)
                    closest == Closest(p, table, m.target, m.count)
                IN  /\ tables' = [tables EXCEPT ![p] = table]
                    /\ net' = (net \ {m}) \cup {FindPeerOk(p, m.from, m.target, closest)}
                    /\ UNCHANGED <<signing, queries, timers, refresh, booting, failure,
                                   asked, numAsked>>

-----------------------------------------------------------------------------
(* A query after the answer of a peer: the answer's records are merged.    *)
Answered(query, from, closest) ==
    [query EXCEPT !.contacting = @ \ {from}, !.contacted = @ \cup {from},
                  !.records = @ \cup closest]

(* Mutant: as many as asked for have answered, whoever they are. *)
ConvergedAny(query, target) == Cardinality(query.records \cap query.contacted) >= query.count

(* The nearest ones, as many as asked for, have all answered. *)
Converged(query, target) ==
    /\ Cardinality(query.records) >= query.count
    /\ Nearest(query.records, target, query.count) \subseteq query.contacted

(* Whom to contact next: the nearest ones that have not been, as far as    *)
(* the concurrency goes.                                                   *)
NextContacts(query, target) ==
    Nearest(query.records \ (query.contacted \cup query.contacting), target,
            NumConcurrency - Cardinality(query.contacting))

(* Mutant: with nobody left to ask the query goes on. *)
StatusOn(query, target) == IF Converged(query, target) THEN "Converge" ELSE "Progress"

Status(query, target) ==
    IF Converged(query, target) THEN "Converge"
    ELSE IF query.contacting \cup NextContacts(query, target) = {} THEN "Halted"
    ELSE "Progress"

(* The targets of refresh_buckets during bootstrap: a random one in every  *)
(* bucket, from the first one after bucket 0 that holds a record.          *)
StartIndices(table) == {i \in Indices \ {0} : table[i].records # <<>>}

RefreshTargets(p, table) ==
    LET buckets == Min(StartIndices(table))..Bits - 1
    IN  {{f[i] : i \in buckets} :
            f \in {f \in [buckets -> Random \ {p}] : \A i \in buckets : Index(p, f[i]) = i}}

(* One of the targets left is queried; with none left bootstrap is over. *)
StartRefresh(p, targets) ==
    /\ refresh' = [refresh EXCEPT ![p] = targets]
    /\ booting' = [booting EXCEPT ![p] = targets # {}]
    /\ IF targets = {} THEN UNCHANGED signing
       ELSE \E target \in targets : signing' = [signing EXCEPT ![p] = @ \cup {<<target, BucketSize>>}]

(* What follows when a query of bootstrap has ended. *)
BootstrapStep(p, target, table) ==
    IF refresh[p] = {}
    THEN \E targets \in RefreshTargets(p, table) : StartRefresh(p, targets)
    ELSE StartRefresh(p, refresh[p] \ {target})

(* The result goes to the user, unless it is one of bootstrap or of        *)
(* refreshing a bucket.                                                    *)
Upcall(p, target, status, closest) ==
    IF booting[p] \/ target \in refresh[p] THEN UNCHANGED asked
    ELSE asked' = [asked EXCEPT ![p] = Put(@, target,
                      [@[target] EXCEPT !.status = status, !.closest = closest])]

(* Mutant: the next contacts get no timers. *)
TimersOff(live, target, from, status, next) ==
    IF status = "Progress" THEN live \ {<<target, from>>} ELSE live \ ({target} \X Peers)

(* The timer of the answer is unset, those of the next contacts are set; a *)
(* query that ends unsets them all.                                        *)
TimersAfter(live, target, from, status, next) ==
    IF status = "Progress" THEN (live \ {<<target, from>>}) \cup {target} \X next
    ELSE live \ ({target} \X Peers)

(* The first answer of a peer a query is contacting: merge, find out how   *)
(* far the query is, contact the next ones, report.                        *)
Proceed(p, m, table) ==
    LET target == m.target
        query == Answered(queries[p][target], m.from, m.closest)
        status == Status(query, target)
        next == IF status = "Progress" THEN NextContacts(query, target) ELSE {}
        closest == Nearest(query.records \cap query.contacted, target, query.count)
    IN  /\ queries' = [queries EXCEPT ![p] =
                          IF status = "Progress"
                          THEN [@ EXCEPT ![target] = [query EXCEPT !.contacting = @ \cup next]]
                          ELSE Drop(@, target)]
        /\ timers' = [timers EXCEPT ![p] = TimersAfter(@, target, m.from, status, next)]
        /\ net' = (net \ {m}) \cup {FindPeer(p, to, target, query.count) : to \in next}
        /\ Upcall(p, target, status, closest)
        /\ IF booting[p] /\ status # "Progress" THEN BootstrapStep(p, target, table)
           ELSE /\ refresh' = [refresh EXCEPT ![p] = IF booting[p] \/ status = "Progress" THEN @
                                                     ELSE @ \ {target}]
                /\ UNCHANGED <<signing, booting>>
        /\ tables' = [tables EXCEPT ![p] = table]
        /\ UNCHANGED <<failure, numAsked>>

(* The assertions of a bootstrap step: refresh_buckets runs past the last  *)
(* bucket, or the query that ended is not the one that was started.        *)
BootstrapFails(p, m, table) ==
    /\ booting[p]
    /\ Status(Answered(queries[p][m.target], m.from, m.closest), m.target) # "Progress"
    /\ IF refresh[p] = {} THEN StartIndices(table) = {} ELSE m.target \notin refresh[p]

VerifiedFindPeerOk(p) ==
    \E m \in net :
        /\ Alive(p) /\ m.to = p /\ m.type = "FindPeerOk"
        /\ LET table == Insert(p, tables[p], m.from)
           IN  IF m.target \notin DOMAIN queries[p] \/ m.from \notin queries[p][m.target].contacting
               THEN /\ tables' = [tables EXCEPT ![p] = table]
                    /\ net' = net \ {m}
                    /\ UNCHANGED <<signing, queries, timers, refresh, booting, failure,
                                   asked, numAsked>>
               ELSE IF BootstrapFails(p, m, table)
               THEN Fail(p, "panic")
               ELSE Proceed(p, m, table)

Next ==
    \/ \E lookup \in Lookups : Query(lookup[1], lookup[2], lookup[3])
    \/ \E p \in Peers : \/ SignedFindPeer(p) \/ ResendFindPeer(p)
                       \/ VerifiedFindPeer(p) \/ VerifiedFindPeerOk(p)

Spec == Init /\ [][Next]_vars

(* Workers and timers go on; the network promises nothing: a message that  *)
(* stays there is lost.  No state recurs, so that it is enough that one of *)
(* the peers that can take such a step takes it.                           *)
CanProceed == \E p \in Peers : Alive(p) /\ (signing[p] # {} \/ timers[p] # {})

Proceeds == \E p \in Peers : SignedFindPeer(p) \/ ResendFindPeer(p)

FairSpec == Spec /\ (<>[]CanProceed => []<><<Proceeds>>_vars)

-----------------------------------------------------------------------------
QueryState == [count : Nat \ {0}, records : SUBSET Peers, contacted : SUBSET Peers,
               contacting : SUBSET Peers]

(* Types of the state; a peer contacts others only, and all it knows are   *)
(* peers.                                                                  *)
TypeOK ==
    /\ \A p \in Peers :
          /\ tables[p] \in [Indices -> [records : Seq(Peers), cached : Seq(Peers)]]
          /\ \A t \in DOMAIN queries[p] : t \in Ids /\ queries[p][t] \in QueryState
    /\ signing \in [Peers -> SUBSET (Ids \X (Nat \ {0}))]
    /\ timers \in [Peers -> SUBSET (Ids \X Peers)]
    /\ refresh \in [Peers -> SUBSET Ids]
    /\ booting \in [Peers -> BOOLEAN]
    /\ \A m \in net : m.from \in Peers /\ m.to \in Peers \ {m.from} /\ m.target \in Ids

(* No handler panics or fails on account of its own state: a timer finds   *)
(* its query (445), nobody contacts itself (493), one query per target     *)
(* (432), refresh_buckets stays in the array (692) and bootstrap ends the  *)
(* query it started (673).  A contact that times out is the one failure.   *)
NoFailure == \A p \in Peers : failure[p] \in {None, "timeout"}

(* A query under way always waits for somebody, with a timer for each and  *)
(* none besides, and it leaves no slot of its concurrency unused while     *)
(* there is somebody left to ask.  The exception is the query of a peer    *)
(* that knew nobody.                                                       *)
QueriesAlive ==
    \A p \in Peers :
        /\ timers[p] = UNION {{t} \X queries[p][t].contacting : t \in DOMAIN queries[p]}
        /\ \A t \in DOMAIN queries[p] :
              LET query == queries[p][t]
              IN  /\ query.contacting # {} \/ query.records = {p}
                  /\ query.contacting \cap query.contacted = {}
                  /\ query.contacting \cup query.contacted \subseteq query.records \cup {p}
                  /\ Cardinality(query.contacting) < NumConcurrency
                        => query.records \subseteq query.contacting \cup query.contacted

(* Handlers find the state they expect at any delay and timeout: none      *)
(* fails, and no query is left with nobody to wait for (445, 493, 406).    *)
PeersSound == TypeOK /\ NoFailure /\ QueriesAlive

(* A query that converged or halted returns the nearest peers: whoever had *)
(* joined before it was asked is in the result, or as many as asked for    *)
(* are nearer.  Others join, and are asked, at the same time.              *)
FindsJoined ==
    \A p \in Peers : \A t \in DOMAIN asked[p] :
        LET result == asked[p][t]
        IN  result.status \in {"Converge", "Halted"}
            => /\ result.joined \subseteq
                    result.closest \cup
                    {q \in Peers : Cardinality({r \in result.closest : Nearer(r, q, t)}) = result.count}
               /\ result.status = "Converge" <=> Cardinality(result.closest) = result.count

(* A query of the user without its final result, and one that has nobody   *)
(* to wait for.                                                            *)
Waiting(p, t) == t \in DOMAIN asked[p] /\ asked[p][t].status \in {"Pending", "Progress"}

Stuck(p, t) == t \in DOMAIN queries[p] /\ queries[p][t].records = {p}

(* Whatever is lost: in the end every peer that has not failed has done    *)
(* with bootstrap, and every query has been answered, but for those of a   *)
(* peer that knew nobody.                                                  *)
AllAnswered ==
    <>[](\A p \in Peers : Alive(p) =>
            ~booting[p] /\ \A t \in DOMAIN asked[p] : Waiting(p, t) => Stuck(p, t))
=============================================================================
