------------------------------ MODULE PeerNet ------------------------------
(***************************************************************************)
(* Control of the peer-to-peer net (net/kademlia.rs): a message to a peer, *)
(* or to the peers nearest to a target, waits while the Kademlia peer      *)
(* looks up addresses.  The two are sessions of their own; queries and     *)
(* results travel between them in order.                                   *)
(*                                                                         *)
(* The Kademlia peer is what module Kademlia shows of it: it answers a     *)
(* query with any number of Progress results and one final result, which   *)
(* hold peers it has contacted, nearest first; a query for a peer ends     *)
(* when that peer is contacted; a second query for a target that is being  *)
(* looked up ends its session.                                             *)
(***************************************************************************)
EXTENDS Naturals, Sequences, FiniteSets

Seqs == INSTANCE SequencesExt

CONSTANTS
    NetPeers,
    Requests,    \* Requests[m]: [kind, target, count] of message m
    Rank,        \* Rank[t][p]: how many peers are nearer to t than p
    CacheSize,   \* the capacity of addrs
    MaxProgress  \* bound on the Progress results

Messages == DOMAIN Requests
NetTargets == {Requests[m].target : m \in Messages}
Count(m) == Requests[m].count

ASSUME RequestsAssumption ==
    \A m \in Messages : /\ Count(m) \in Nat \ {0}
                        /\ \/ Requests[m].kind = "unicast" /\ Count(m) = 1
                           \/ Requests[m].kind = "multicast"
ASSUME NetPeersAssumption == IsFiniteSet(NetPeers)
ASSUME RankAssumption == Rank \in [NetTargets -> [NetPeers -> Nat]]
ASSUME CacheSizeAssumption == CacheSize \in Nat \ {0}

VARIABLES
    unicasts,    \* querying_unicasts: target -> messages, none where there is no query
    multicasts,  \* querying_multicasts: target -> [count, messages], or NoQuery
    waiting,     \* pending_multicasts: target -> messages
    addrs,       \* the cached addresses
    netTimers,   \* the QueryTimeout timers that are set
    toPeer,      \* queries on their way to the Kademlia peer
    lookups,     \* the lookups of the Kademlia peer: target -> count, or 0
    toControl,   \* results on their way back
    given,       \* history: the messages given to the net
    sentTo,      \* sentTo[m]: the sequence of destinations of m
    dropped,     \* history: messages dropped because their peer was not found
    ended,       \* why the node ended, or "no"
    progressed   \* history: the number of Progress results

netVars == <<unicasts, multicasts, waiting, addrs, netTimers, toPeer, lookups, toControl,
             given, sentTo, dropped, ended, progressed>>

NoQuery == [count |-> 0, messages |-> {}]

NetInit ==
    /\ unicasts = [t \in NetTargets |-> {}]
    /\ multicasts = [t \in NetTargets |-> NoQuery]
    /\ waiting = [t \in NetTargets |-> {}]
    /\ addrs = {} /\ netTimers = {}
    /\ toPeer = <<>> /\ toControl = <<>>
    /\ lookups = [t \in NetTargets |-> 0]
    /\ given = {} /\ dropped = {} /\ ended = "no" /\ progressed = 0
    /\ sentTo = [m \in Messages |-> <<>>]

Ongoing(t) == multicasts[t] # NoQuery

(* LruCache: what is pushed is the youngest, and the oldest leave when     *)
(* there is no room; which of the others those are is left open.           *)
Pushed(cache, peers) ==
    LET all == cache \cup peers
    IN  {kept \in SUBSET all :
            /\ IF Cardinality(all) <= CacheSize THEN kept = all ELSE Cardinality(kept) = CacheSize
            /\ peers \subseteq kept \/ kept \subseteq peers}

(* The timer of a query. *)
NetTimer(kind, t) == [kind |-> kind, target |-> t]

AskPeer(t, count) == toPeer' = Append(toPeer, [target |-> t, count |-> count])

-----------------------------------------------------------------------------
(* A message to one peer: by its cached address, along with a query for    *)
(* the same target, or with a query of its own.                            *)
Unicast(m) ==
    LET t == Requests[m].target
    IN  /\ ended = "no" /\ m \notin given /\ Requests[m].kind = "unicast"
        /\ given' = given \cup {m}
        /\ \/ /\ t \in addrs
              /\ sentTo' = [sentTo EXCEPT ![m] = Append(@, t)]
              /\ UNCHANGED <<unicasts, multicasts, netTimers, toPeer>>
           \/ /\ t \notin addrs /\ Ongoing(t)
              /\ multicasts' = [multicasts EXCEPT ![t].messages = @ \cup {m}]
              /\ UNCHANGED <<unicasts, netTimers, toPeer, sentTo>>
           \/ /\ t \notin addrs /\ ~Ongoing(t) /\ unicasts[t] # {}
              /\ unicasts' = [unicasts EXCEPT ![t] = @ \cup {m}]
              /\ UNCHANGED <<multicasts, netTimers, toPeer, sentTo>>
           \/ /\ t \notin addrs /\ ~Ongoing(t) /\ unicasts[t] = {}
              /\ AskPeer(t, 1)
              /\ unicasts' = [unicasts EXCEPT ![t] = {m}]
              /\ netTimers' = netTimers \cup {NetTimer("unicast", t)}
              /\ UNCHANGED <<multicasts, sentTo>>
        /\ UNCHANGED <<waiting, addrs, lookups, toControl, dropped, ended, progressed>>

(* The query for the target of m asks for enough peers. *)
Joins(m) ==
    LET t == Requests[m].target
    IN  Ongoing(t) /\ Count(m) <= multicasts[t].count

(* Mutant: only a unicast's query is waited for. *)
WaitsForUnicast(m) == ~Joins(m) /\ unicasts[Requests[m].target] # {}

(* The query for the target of m does not. *)
Waits(m) ==
    LET t == Requests[m].target
    IN  ~Joins(m) /\ (Ongoing(t) \/ unicasts[t] # {})

(* A message to the nearest peers: with a query that asks for as many, or  *)
(* after the query there is.                                               *)
Multicast(m) ==
    LET t == Requests[m].target
    IN  /\ ended = "no" /\ m \notin given /\ Requests[m].kind = "multicast"
        /\ given' = given \cup {m}
        /\ \/ /\ Joins(m)
              /\ multicasts' = [multicasts EXCEPT ![t].messages = @ \cup {m}]
              /\ UNCHANGED <<waiting, netTimers, toPeer>>
           \/ /\ Waits(m)
              /\ waiting' = [waiting EXCEPT ![t] = @ \cup {m}]
              /\ UNCHANGED <<multicasts, netTimers, toPeer>>
           \/ /\ ~Joins(m) /\ ~Waits(m)
              /\ AskPeer(t, Count(m))
              /\ multicasts' = [multicasts EXCEPT ![t] = [count |-> Count(m), messages |-> {m}]]
              /\ netTimers' = netTimers \cup {NetTimer("multicast", t)}
              /\ UNCHANGED waiting
        /\ UNCHANGED <<unicasts, addrs, lookups, toControl, sentTo, dropped, ended, progressed>>

(* QueryTimeout is an error, which ends the session. *)
QueryTimeout(timer) ==
    /\ ended = "no" /\ timer \in netTimers
    /\ ended' = "timeout"
    /\ UNCHANGED <<unicasts, multicasts, waiting, addrs, netTimers, toPeer, lookups, toControl,
                   given, sentTo, dropped, progressed>>

(* Mutant: what was sent is kept with its query. *)
UnresolvedKept(found) == unicasts

(* The unicasts are done with whose peers were found. *)
Unresolved(found) == [x \in NetTargets |-> IF x \in found THEN {} ELSE unicasts[x]]

(* The peers a result holds, and those of them that a unicast waits for. *)
Holds(result) == Seqs!ToSet(result.closest)
Found(result) == {p \in Holds(result) \cap NetTargets : unicasts[p] # {}}

(* A final result without the peer of a unicast; one that ends a query of  *)
(* multicasts; one that lets the multicasts start that waited.             *)
Unreachable(result) == result.final /\ Unresolved(Found(result))[result.target] # {}
Answers(result) == result.final /\ ~Unreachable(result) /\ Ongoing(result.target)
Restarts(result) == result.final /\ ~Unreachable(result) /\ waiting[result.target] # {}

(* The timers that are unset with what a result ends. *)
Stopped(result) ==
    {NetTimer("unicast", p) :
        p \in Found(result) \cup (IF Unreachable(result) THEN {result.target} ELSE {})}
    \cup (IF Answers(result) THEN {NetTimer("multicast", result.target)} ELSE {})

(* What a result has m sent to: its peer, if it was found; or the first of *)
(* the peers, as many as m is meant for.                                   *)
Destinations(m, result) ==
    IF \E p \in Found(result) : m \in unicasts[p] THEN <<Requests[m].target>>
    ELSE IF Answers(result) /\ m \in multicasts[result.target].messages
    THEN SubSeq(result.closest, 1,
                IF Count(m) < Len(result.closest) THEN Count(m) ELSE Len(result.closest))
    ELSE <<>>

(* The multicasts that waited for t start a query that is enough for each  *)
(* of them.                                                                *)
Restart(t) ==
    \E max \in {Count(m) : m \in waiting[t]} :
        /\ \A m \in waiting[t] : Count(m) <= max
        /\ multicasts' = [multicasts EXCEPT ![t] = [count |-> max, messages |-> waiting[t]]]
        /\ waiting' = [waiting EXCEPT ![t] = {}]
        /\ AskPeer(t, max)

(* A result resolves every unicast whose peer it holds; a final one also   *)
(* ends the query of its target: a unicast that is not resolved is dropped *)
(* (and nothing else looked at), a multicast is sent, and the ones that    *)
(* waited start a query of their own.                                      *)
OnQueryResult ==
    LET result == Head(toControl)
        t == result.target
        resolved == Unresolved(Found(result))
    IN  /\ ended = "no" /\ toControl # <<>>
        /\ toControl' = Tail(toControl)
        /\ unicasts' = IF Unreachable(result) THEN [resolved EXCEPT ![t] = {}] ELSE resolved
        /\ dropped' = IF Unreachable(result) THEN dropped \cup unicasts[t] ELSE dropped
        /\ sentTo' = [m \in Messages |-> sentTo[m] \o Destinations(m, result)]
        /\ addrs' \in Pushed(addrs, IF Answers(result) THEN Holds(result) ELSE Found(result))
        /\ \/ Restarts(result) /\ Restart(t)
           \/ /\ ~Restarts(result) /\ UNCHANGED <<waiting, toPeer>>
              /\ multicasts' = IF Answers(result) THEN [multicasts EXCEPT ![t] = NoQuery] ELSE multicasts
        /\ netTimers' = (netTimers \ Stopped(result))
                         \cup (IF Restarts(result) THEN {NetTimer("multicast", t)} ELSE {})
        /\ UNCHANGED <<lookups, given, ended, progressed>>

-----------------------------------------------------------------------------
(* The Kademlia peer *)

PeerStart ==
    LET query == Head(toPeer)
    IN  /\ ended = "no" /\ toPeer # <<>>
        /\ toPeer' = Tail(toPeer)
        /\ IF lookups[query.target] # 0
           THEN ended' = "concurrent" /\ UNCHANGED lookups
           ELSE lookups' = [lookups EXCEPT ![query.target] = query.count] /\ UNCHANGED ended
        /\ UNCHANGED <<unicasts, multicasts, waiting, addrs, netTimers, toControl, given, sentTo,
                       dropped, progressed>>

(* The nearest peers contacted so far; contacting the target itself ends a *)
(* query for one peer.                                                     *)
Result(t, final) ==
    \E n \in 0..lookups[t] : \E closest \in [1..n -> NetPeers] :
        /\ \A i, j \in 1..n : i < j => Rank[t][closest[i]] < Rank[t][closest[j]]
        /\ ~final /\ lookups[t] = 1 => t \notin Seqs!ToSet(closest)
        /\ toControl' = Append(toControl, [target |-> t, final |-> final, closest |-> closest])

PeerProgress(t) ==
    /\ ended = "no" /\ lookups[t] # 0 /\ progressed < MaxProgress
    /\ progressed' = progressed + 1
    /\ Result(t, FALSE)
    /\ UNCHANGED <<unicasts, multicasts, waiting, addrs, netTimers, toPeer, lookups, given, sentTo,
                   dropped, ended>>

PeerFinish(t) ==
    /\ ended = "no" /\ lookups[t] # 0
    /\ Result(t, TRUE)
    /\ lookups' = [lookups EXCEPT ![t] = 0]
    /\ UNCHANGED <<unicasts, multicasts, waiting, addrs, netTimers, toPeer, given, sentTo,
                   dropped, ended, progressed>>

NetWork == PeerStart \/ OnQueryResult \/ \E t \in NetTargets : PeerFinish(t)

NetNext ==
    \/ NetWork
    \/ \E m \in Messages : Unicast(m) \/ Multicast(m)
    \/ \E t \in NetTargets : PeerProgress(t)
    \/ \E timer \in netTimers : QueryTimeout(timer)

NetSpec == NetInit /\ [][NetNext]_netVars

-----------------------------------------------------------------------------
Places(m) ==
    {<<"unicast", t>> : t \in {x \in NetTargets : m \in unicasts[x]}}
    \cup {<<"multicast", t>> : t \in {x \in NetTargets : m \in multicasts[x].messages}}
    \cup {<<"waiting", t>> : t \in {x \in NetTargets : m \in waiting[x]}}

(* A message that was given to the net waits in one place, or was sent, to *)
(* no peer twice and no more of them than it was meant for, or dropped:    *)
(* results of other queries that resolve it, queries it joins and restarts *)
(* neither lose nor repeat it.                                             *)
SentOnce ==
    \A m \in Messages :
        /\ Cardinality(Places(m)) <= IF m \in given THEN 1 ELSE 0
        /\ Places(m) # {} => sentTo[m] = <<>> /\ m \notin dropped
        /\ Seqs!IsInjective(sentTo[m]) /\ Len(sentTo[m]) <= Count(m)
        /\ m \in dropped => sentTo[m] = <<>>

(* The assertions of the handler of results hold: an address that is found *)
(* missing is not in the cache (203), and no query is going on when the    *)
(* multicasts that waited start theirs (226, 227: the target's own entries *)
(* were just removed).  A QueryTimeout is set for the queries that go on   *)
(* and for no other: one that was left would end the node 30 s later.      *)
TimersExact ==
    /\ \A t \in NetTargets : unicasts[t] # {} => t \notin addrs
    /\ netTimers = {NetTimer("unicast", t) : t \in {x \in NetTargets : unicasts[x] # {}}}
                   \cup {NetTimer("multicast", t) : t \in {x \in NetTargets : Ongoing(x)}}

Kinds(t) == {Requests[m].kind : m \in {n \in given : Requests[n].target = t}}
Mixed == {t \in NetTargets : Kinds(t) = {"unicast", "multicast"}}

(* What is waiting for a query has one: its target is on the way to the    *)
(* Kademlia peer, being looked up or on the way back.  The exception is a  *)
(* target of both kinds of messages, where a result may answer for another *)
(* query, and a multicast behind a unicast that found nobody stays.        *)
NoneForgotten ==
    ended = "no" =>
        \A t \in NetTargets \ Mixed :
            unicasts[t] # {} \/ Ongoing(t) \/ waiting[t] # {} =>
                \/ lookups[t] # 0
                \/ \E i \in DOMAIN toPeer : toPeer[i].target = t
                \/ \E i \in DOMAIN toControl : toControl[i].target = t /\ toControl[i].final

(* The Kademlia peer is never asked for a target that it is looking up,    *)
(* which would end the node, as long as a target has one kind of messages  *)
(* and the cache has room for the peers; and a unicast reaches its peer or *)
(* nobody.                                                                 *)
QueriesApart ==
    Mixed = {} /\ CacheSize >= Cardinality(NetPeers) =>
                  /\ ended # "concurrent"
                  /\ \A m \in given : Requests[m].kind = "unicast" => Seqs!ToSet(sentTo[m]) \subseteq {Requests[m].target}

(* The bookkeeping of lookups: timers for exactly the queries that go on,  *)
(* a query for all that waits for one, and never two for a target.         *)
LookupsRight == TimersExact /\ NoneForgotten /\ QueriesApart
=============================================================================
