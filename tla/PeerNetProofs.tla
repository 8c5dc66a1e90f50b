--------------------------- MODULE PeerNetProofs ---------------------------
(***************************************************************************)
(* Proofs for PeerNet, for any finite set of peers, any messages to any    *)
(* targets, any capacity of the address cache and any order of distances.  *)
(***************************************************************************)
EXTENDS PeerNet, SequenceTheorems, FiniteSetTheorems, TLAPS

(* The state is what its types say; the peers of a result are distinct.    *)
Distinct(s) == \A i, j \in DOMAIN s : i # j => s[i] # s[j]

Queries == [target : NetTargets, count : Nat \ {0}]

Results == {r \in [target : NetTargets, final : BOOLEAN, closest : Seq(NetPeers)] : Distinct(r.closest)}

NetTypes ==
  /\ unicasts \in [NetTargets -> SUBSET Messages]
  /\ multicasts \in [NetTargets -> [count : Nat, messages : SUBSET Messages]]
  /\ waiting \in [NetTargets -> SUBSET Messages]
  /\ addrs \subseteq NetPeers
  /\ toPeer \in Seq(Queries) /\ toControl \in Seq(Results)
  /\ lookups \in [NetTargets -> Nat]
  /\ given \subseteq Messages /\ dropped \subseteq Messages
  /\ sentTo \in [Messages -> Seq(NetPeers)]

(* A message that waits for a query for t. *)
Unsent(m, t) == m \in given /\ Requests[m].target = t /\ sentTo[m] = <<>> /\ m \notin dropped

(* Where messages are: in one place, of their own target. *)
PlacesRight ==
  \A t \in NetTargets :
    /\ \A m \in unicasts[t] : Unsent(m, t) /\ Requests[m].kind = "unicast"
    /\ \A m \in multicasts[t].messages : Unsent(m, t) /\ m \notin unicasts[t]
    /\ \A m \in waiting[t] : Unsent(m, t) /\ Requests[m].kind = "multicast"
                             /\ m \notin multicasts[t].messages

(* The query of multicasts is there for one of them at least. *)
OngoingRight ==
  \A t \in NetTargets : Ongoing(t) => \E m \in multicasts[t].messages : Requests[m].kind = "multicast"

(* Messages are sent to distinct peers, no more than they are meant for. *)
SentRight ==
  \A m \in Messages :
    /\ m \notin given => sentTo[m] = <<>> /\ m \notin dropped
    /\ Distinct(sentTo[m]) /\ Len(sentTo[m]) <= Count(m)
    /\ m \in dropped => sentTo[m] = <<>>

HasKind(t, kind) == \E m \in given : Requests[m].target = t /\ Requests[m].kind = kind

(* The messages that share a target with no other kind reach it or nobody. *)
UnicastsRight ==
  \A m \in given : Requests[m].kind = "unicast" /\ Requests[m].target \notin Mixed =>
     \A i \in DOMAIN sentTo[m] : sentTo[m][i] = Requests[m].target

(* Where a query can be. *)
Asked(t) == \E i \in DOMAIN toPeer : toPeer[i].target = t
Ending(t) == \E i \in DOMAIN toControl : toControl[i].target = t /\ toControl[i].final

(* A query is in one place, and what it was started for waits for it, or   *)
(* was resolved by another one and is cached.                              *)
OnePlace(t) ==
  /\ \A i, j \in DOMAIN toPeer : toPeer[i].target = t /\ toPeer[j].target = t => i = j
  /\ \A i, j \in DOMAIN toControl :
        toControl[i].target = t /\ toControl[i].final /\ toControl[j].target = t /\ toControl[j].final => i = j
  /\ Asked(t) => lookups[t] = 0 /\ ~Ending(t)
  /\ lookups[t] # 0 => ~Ending(t)
  /\ Asked(t) \/ lookups[t] # 0 \/ Ending(t) =>
        \/ HasKind(t, "multicast") /\ Ongoing(t)
        \/ HasKind(t, "unicast") /\ (unicasts[t] # {} \/ t \in addrs)

Roomy == CacheSize >= Cardinality(NetPeers)

ApartInv ==
  Roomy => /\ \A t \in NetTargets \ Mixed : OnePlace(t)
           /\ Mixed = {} => ended # "concurrent"

NetInv ==
  /\ NetTypes /\ PlacesRight /\ OngoingRight /\ SentRight /\ UnicastsRight
  /\ TimersExact /\ NoneForgotten /\ ApartInv

-----------------------------------------------------------------------------
(* A target is mixed when messages of both kinds were given for it. *)
LEMMA MixedIs ==
  ASSUME NEW t \in NetTargets, given \subseteq Messages
  PROVE  t \in Mixed <=> HasKind(t, "unicast") /\ HasKind(t, "multicast")
<1>1. \A m \in Messages : Requests[m].kind = "unicast" \/ Requests[m].kind = "multicast"
  BY RequestsAssumption
<1>2. \A k : k \in Kinds(t) <=> HasKind(t, k)
  BY DEF Kinds, HasKind
<1>3. Kinds(t) \subseteq {"unicast", "multicast"}
  BY <1>1 DEF Kinds
<1> QED
  BY <1>2, <1>3 DEF Mixed

LEMMA MixedIsPrimed ==
  ASSUME NEW t \in NetTargets, given' \subseteq Messages
  PROVE  t \in Mixed' <=> HasKind(t, "unicast")' /\ HasKind(t, "multicast")'
<1>1. \A m \in Messages : Requests[m].kind = "unicast" \/ Requests[m].kind = "multicast"
  BY RequestsAssumption
<1>2. \A k : k \in Kinds(t)' <=> HasKind(t, k)'
  BY DEF Kinds, HasKind
<1>3. Kinds(t)' \subseteq {"unicast", "multicast"}
  BY <1>1 DEF Kinds
<1> QED
  BY <1>2, <1>3 DEF Mixed

(* More messages make more targets mixed. *)
LEMMA MixedGrows ==
  ASSUME given \subseteq given', given' \subseteq Messages
  PROVE  /\ \A t \in NetTargets : t \in Mixed => t \in Mixed'
         /\ Mixed' = {} => Mixed = {}
         /\ \A t, k : HasKind(t, k) => HasKind(t, k)'
<1>1. \A t, k : HasKind(t, k) => HasKind(t, k)'
  BY DEF HasKind
<1>2. ASSUME NEW t \in NetTargets, t \in Mixed PROVE t \in Mixed'
  BY <1>1, <1>2, MixedIs, MixedIsPrimed
<1>3. Mixed \subseteq NetTargets
  BY DEF Mixed
<1> QED
  BY <1>1, <1>2, <1>3

(* Sequences: what Append and Tail do to the positions. *)
LEMMA AppendAt ==
  ASSUME NEW S, NEW s \in Seq(S), NEW x \in S
  PROVE  /\ Append(s, x) \in Seq(S) /\ DOMAIN Append(s, x) = 1..Len(s) + 1 /\ DOMAIN s = 1..Len(s)
         /\ Len(s) \in Nat
         /\ \A i \in 1..Len(s) : Append(s, x)[i] = s[i]
         /\ Append(s, x)[Len(s) + 1] = x
  OBVIOUS

LEMMA TailAt ==
  ASSUME NEW S, NEW s \in Seq(S), s # <<>>
  PROVE  /\ Tail(s) \in Seq(S) /\ DOMAIN Tail(s) = 1..Len(s) - 1 /\ DOMAIN s = 1..Len(s)
         /\ Len(s) \in Nat \ {0}
         /\ \A i \in 1..Len(s) - 1 : Tail(s)[i] = s[i + 1]
         /\ Head(s) = s[1] /\ Head(s) \in S
  OBVIOUS

-----------------------------------------------------------------------------
(* The first state. *)
LEMMA InitRight == NetInit => NetInv
<1> SUFFICES ASSUME NetInit PROVE NetInv
  OBVIOUS
<1>1. NetTypes
  BY DEF NetInit, NetTypes, NoQuery
<1>2. PlacesRight /\ OngoingRight /\ SentRight
  BY RequestsAssumption DEF NetInit, PlacesRight, OngoingRight, Ongoing, NoQuery, SentRight, Distinct, Count
<1>3. UnicastsRight /\ TimersExact /\ NoneForgotten
  BY DEF NetInit, UnicastsRight, TimersExact, NoneForgotten, Ongoing
<1>4. ApartInv
  BY DEF NetInit, ApartInv, OnePlace, Asked, Ending
<1> QED
  BY <1>1, <1>2, <1>3, <1>4 DEF NetInv

(* Steps that leave messages and queries alone. *)
Quiet == UNCHANGED <<unicasts, multicasts, waiting, addrs, netTimers, given, sentTo, dropped>>

LEMMA QuietKeeps ==
  ASSUME NetInv, Quiet
  PROVE  /\ PlacesRight' /\ OngoingRight' /\ SentRight' /\ UnicastsRight' /\ TimersExact'
         /\ Mixed' = Mixed /\ (\A t, k : HasKind(t, k)' <=> HasKind(t, k))
         /\ \A t : Ongoing(t)' <=> Ongoing(t)
<1> USE DEF NetInv, Quiet
<1>1. Mixed' = Mixed
  BY DEF Mixed, Kinds
<1>2. \A t, k : HasKind(t, k)' <=> HasKind(t, k)
  BY DEF HasKind
<1>3. \A t : Ongoing(t)' <=> Ongoing(t)
  BY DEF Ongoing
<1>4. PlacesRight'
  BY DEF PlacesRight, Unsent
<1>5. OngoingRight'
  BY <1>3 DEF OngoingRight
<1>6. SentRight'
  BY DEF SentRight
<1>7. UnicastsRight'
  BY <1>1 DEF UnicastsRight
<1>8. TimersExact'
  BY <1>3 DEF TimersExact
<1> QED
  BY <1>1, <1>2, <1>3, <1>4, <1>5, <1>6, <1>7, <1>8

LEMMA TimeoutRight ==
  ASSUME NetInv, NEW timer, QueryTimeout(timer)
  PROVE  NetInv'
<1>1. Quiet /\ toPeer' = toPeer /\ lookups' = lookups /\ toControl' = toControl /\ ended' = "timeout"
  BY DEF QueryTimeout, Quiet
<1>2. /\ PlacesRight' /\ OngoingRight' /\ SentRight' /\ UnicastsRight' /\ TimersExact'
      /\ Mixed' = Mixed /\ (\A t, k : HasKind(t, k)' <=> HasKind(t, k))
      /\ \A t : Ongoing(t)' <=> Ongoing(t)
  BY <1>1, QuietKeeps
<1>3. NetTypes'
  BY <1>1 DEF NetInv, NetTypes, Quiet
<1>4. NoneForgotten'
  BY <1>1 DEF NoneForgotten
<1>5. ApartInv'
  <2>1. ASSUME NEW t \in NetTargets \ Mixed, Roomy PROVE OnePlace(t)'
    <3>1. OnePlace(t)
      BY <2>1 DEF NetInv, ApartInv
    <3> QED
      BY <1>1, <1>2, <3>1 DEF OnePlace, Asked, Ending, Quiet
  <2> QED
    BY <1>1, <1>2, <2>1 DEF ApartInv
<1> QED
  BY <1>2, <1>3, <1>4, <1>5 DEF NetInv

LEMMA StutterRight ==
  ASSUME NetInv, UNCHANGED netVars
  PROVE  NetInv'
<1>1. Quiet /\ toPeer' = toPeer /\ lookups' = lookups /\ toControl' = toControl /\ ended' = ended
  BY DEF netVars, Quiet
<1>2. /\ PlacesRight' /\ OngoingRight' /\ SentRight' /\ UnicastsRight' /\ TimersExact'
      /\ Mixed' = Mixed /\ (\A t, k : HasKind(t, k)' <=> HasKind(t, k))
      /\ \A t : Ongoing(t)' <=> Ongoing(t)
  BY <1>1, QuietKeeps
<1>3. NetTypes'
  BY <1>1 DEF NetInv, NetTypes, Quiet
<1>4. NoneForgotten'
  BY <1>1, <1>2 DEF NetInv, NoneForgotten, Quiet
<1>5. ApartInv'
  <2>1. ASSUME NEW t \in NetTargets \ Mixed, Roomy PROVE OnePlace(t)'
    <3>1. OnePlace(t)
      BY <2>1 DEF NetInv, ApartInv
    <3> QED
      BY <1>1, <1>2, <3>1 DEF OnePlace, Asked, Ending, Quiet
  <2> QED
    BY <1>1, <1>2, <2>1 DEF NetInv, ApartInv
<1> QED
  BY <1>2, <1>3, <1>4, <1>5 DEF NetInv

(* The Kademlia peer takes a query.  Nothing else of its target is in any  *)
(* place, unless the target is mixed.                                      *)
LEMMA PeerStartRight ==
  ASSUME NetInv, PeerStart
  PROVE  NetInv'
<1> DEFINE q == Head(toPeer)
<1>1. /\ Quiet /\ toControl' = toControl /\ toPeer # <<>> /\ toPeer' = Tail(toPeer) /\ ended = "no"
      /\ \/ lookups[q.target] # 0 /\ ended' = "concurrent" /\ lookups' = lookups
         \/ /\ lookups[q.target] = 0 /\ ended' = ended
            /\ lookups' = [lookups EXCEPT ![q.target] = q.count]
  BY DEF PeerStart, Quiet
<1>2. /\ PlacesRight' /\ OngoingRight' /\ SentRight' /\ UnicastsRight' /\ TimersExact'
      /\ Mixed' = Mixed /\ (\A t, k : HasKind(t, k)' <=> HasKind(t, k))
      /\ \A t : Ongoing(t)' <=> Ongoing(t)
  BY <1>1, QuietKeeps
<1>3. toPeer \in Seq(Queries) /\ lookups \in [NetTargets -> Nat]
  BY DEF NetInv, NetTypes
<1>4. /\ toPeer' \in Seq(Queries) /\ DOMAIN toPeer' = 1..Len(toPeer) - 1 /\ DOMAIN toPeer = 1..Len(toPeer)
      /\ Len(toPeer) \in Nat \ {0}
      /\ \A i \in 1..Len(toPeer) - 1 : toPeer'[i] = toPeer[i + 1]
      /\ q = toPeer[1] /\ q \in Queries
  BY <1>1, <1>3, TailAt
<1>5. q.target \in NetTargets /\ q.count \in Nat \ {0}
  BY <1>4 DEF Queries
<1> HIDE DEF q
<1>6. NetTypes'
  BY <1>1, <1>3, <1>4, <1>5 DEF NetInv, NetTypes, Quiet
<1>7. \A t \in NetTargets : Asked(t) => Asked(t)' \/ t = q.target
  <2> SUFFICES ASSUME NEW t \in NetTargets, NEW i \in DOMAIN toPeer, toPeer[i].target = t, t # q.target
               PROVE  Asked(t)'
    BY DEF Asked
  <2>1. i # 1
    BY <1>4
  <2>2. i - 1 \in DOMAIN toPeer' /\ toPeer'[i - 1] = toPeer[i]
    BY <1>4, <2>1
  <2> QED
    BY <2>2 DEF Asked
<1>8. NoneForgotten'
  <2> SUFFICES ASSUME ended' = "no", NEW t \in NetTargets \ Mixed,
                      unicasts[t] # {} \/ Ongoing(t) \/ waiting[t] # {}
               PROVE  lookups'[t] # 0 \/ Asked(t)' \/ Ending(t)'
    BY <1>1, <1>2 DEF NoneForgotten, Asked, Ending, Quiet
  <2>1. lookups[t] # 0 \/ Asked(t) \/ Ending(t)
    BY <1>1 DEF NetInv, NoneForgotten, Asked, Ending
  <2>2. Ending(t)' <=> Ending(t)
    BY <1>1 DEF Ending
  <2>3. lookups'[q.target] # 0 /\ (lookups[t] # 0 => lookups'[t] # 0)
    BY <1>1, <1>3, <1>5
  <2> QED
    BY <1>7, <2>1, <2>2, <2>3
<1>9. ApartInv'
  <2>1. ASSUME NEW t \in NetTargets \ Mixed, Roomy PROVE OnePlace(t)' /\ (t = q.target => lookups[t] = 0)
    <3>1. OnePlace(t)
      BY <2>1 DEF NetInv, ApartInv
    <3>2. t = q.target => Asked(t)
      BY <1>4 DEF Asked
    <3>3. Ending(t)' <=> Ending(t)
      BY <1>1 DEF Ending
    <3>4. Asked(t)' => Asked(t)
      BY <1>4 DEF Asked
    <3>5. Asked(t)' => t # q.target
      BY <1>4, <3>1 DEF Asked, OnePlace
    <3>6. \A i, j \in DOMAIN toPeer' : toPeer'[i].target = t /\ toPeer'[j].target = t => i = j
      <4> SUFFICES ASSUME NEW i \in DOMAIN toPeer', NEW j \in DOMAIN toPeer',
                          toPeer'[i].target = t, toPeer'[j].target = t
                   PROVE  i = j
        OBVIOUS
      <4>1. i + 1 \in DOMAIN toPeer /\ j + 1 \in DOMAIN toPeer
            /\ toPeer[i + 1].target = t /\ toPeer[j + 1].target = t
        BY <1>4
      <4>2. i + 1 = j + 1
        BY <3>1, <4>1 DEF OnePlace
      <4> QED
        BY <1>4, <4>2
    <3>7. lookups'[t] # 0 => lookups[t] # 0 \/ t = q.target
      BY <1>1, <1>3, <1>5
    <3>8. t # q.target => lookups'[t] = lookups[t]
      BY <1>1, <1>3, <1>5
    <3>9. t = q.target => lookups[t] = 0 /\ ~Ending(t)
      BY <3>1, <3>2 DEF OnePlace
    <3>10. /\ Asked(t)' => lookups'[t] = 0 /\ ~Ending(t)'
           /\ lookups'[t] # 0 => ~Ending(t)'
      BY <3>1, <3>3, <3>4, <3>5, <3>7, <3>8, <3>9 DEF OnePlace
    <3>11. Asked(t)' \/ lookups'[t] # 0 \/ Ending(t)' => Asked(t) \/ lookups[t] # 0 \/ Ending(t)
      BY <3>2, <3>3, <3>4, <3>7
    <3> QED
      BY <1>1, <1>2, <3>1, <3>6, <3>9, <3>10, <3>11 DEF OnePlace, Quiet
  <2>2. ASSUME Roomy, Mixed = {} PROVE ended' # "concurrent"
    BY <1>1, <1>5, <2>1, <2>2
  <2> QED
    BY <1>2, <2>1, <2>2 DEF ApartInv
<1> QED
  BY <1>2, <1>6, <1>8, <1>9 DEF NetInv

(* What the Kademlia peer sends back. *)
LEMMA ResultSent ==
  ASSUME NetInv, NEW t \in NetTargets, NEW final \in BOOLEAN, Result(t, final)
  PROVE  \E r \in Results : r.target = t /\ r.final = final /\ toControl' = Append(toControl, r)
<1>1. PICK n \in 0..lookups[t] : \E closest \in [1..n -> NetPeers] :
         /\ \A i, j \in 1..n : i < j => Rank[t][closest[i]] < Rank[t][closest[j]]
         /\ toControl' = Append(toControl, [target |-> t, final |-> final, closest |-> closest])
  BY DEF Result
<1>2. PICK closest \in [1..n -> NetPeers] :
         /\ \A i, j \in 1..n : i < j => Rank[t][closest[i]] < Rank[t][closest[j]]
         /\ toControl' = Append(toControl, [target |-> t, final |-> final, closest |-> closest])
  BY <1>1
<1>3. n \in Nat /\ DOMAIN closest = 1..n
  BY DEF NetInv, NetTypes
<1>4. closest \in Seq(NetPeers)
  BY <1>3
<1>5. Rank[t] \in [NetPeers -> Nat]
  BY RankAssumption
<1>6. \A i \in 1..n : Rank[t][closest[i]] \in Nat
  BY <1>5
<1>7. ASSUME NEW i \in 1..n, NEW j \in 1..n, i # j PROVE closest[i] # closest[j]
  <2>1. CASE i < j
    BY <1>2, <1>6, <2>1
  <2>2. CASE j < i
    BY <1>2, <1>6, <2>2
  <2> QED
    BY <1>3, <1>7, <2>1, <2>2
<1>8. Distinct(closest)
  BY <1>3, <1>7 DEF Distinct
<1> DEFINE r == [target |-> t, final |-> final, closest |-> closest]
<1>9. r \in Results /\ r.target = t /\ r.final = final
  BY <1>4, <1>8 DEF Results
<1> QED
  BY <1>2, <1>9

(* A Progress result changes no query. *)
LEMMA ProgressRight ==
  ASSUME NetInv, NEW t \in NetTargets, PeerProgress(t)
  PROVE  NetInv'
<1>1. Quiet /\ toPeer' = toPeer /\ lookups' = lookups /\ ended' = ended /\ ended = "no" /\ Result(t, FALSE)
  BY DEF PeerProgress, Quiet
<1>2. /\ PlacesRight' /\ OngoingRight' /\ SentRight' /\ UnicastsRight' /\ TimersExact'
      /\ Mixed' = Mixed /\ (\A x, k : HasKind(x, k)' <=> HasKind(x, k))
      /\ \A x : Ongoing(x)' <=> Ongoing(x)
  BY <1>1, QuietKeeps
<1>3. PICK r \in Results : r.target = t /\ r.final = FALSE /\ toControl' = Append(toControl, r)
  BY <1>1, ResultSent
<1>4. toControl \in Seq(Results)
  BY DEF NetInv, NetTypes
<1>5. /\ toControl' \in Seq(Results) /\ DOMAIN toControl' = 1..Len(toControl) + 1
      /\ DOMAIN toControl = 1..Len(toControl) /\ Len(toControl) \in Nat
      /\ \A i \in 1..Len(toControl) : toControl'[i] = toControl[i]
      /\ toControl'[Len(toControl) + 1] = r
  BY <1>3, <1>4, AppendAt
<1>6. NetTypes'
  BY <1>1, <1>5 DEF NetInv, NetTypes, Quiet
<1>7. \A i \in DOMAIN toControl' : toControl'[i].final => i \in DOMAIN toControl /\ toControl'[i] = toControl[i]
  BY <1>3, <1>5
<1>8. \A x : Ending(x)' <=> Ending(x)
  <2>1. \A x : Ending(x)' => Ending(x)
    BY <1>7 DEF Ending
  <2>2. \A x : Ending(x) => Ending(x)'
    BY <1>5 DEF Ending
  <2> QED
    BY <2>1, <2>2
<1>9. NoneForgotten'
  BY <1>1, <1>2, <1>8 DEF NetInv, NoneForgotten, Asked, Ending, Quiet
<1>10. ApartInv'
  <2>1. ASSUME NEW x \in NetTargets \ Mixed, Roomy PROVE OnePlace(x)'
    <3>1. OnePlace(x)
      BY <2>1 DEF NetInv, ApartInv
    <3>2. Asked(x)' <=> Asked(x)
      BY <1>1 DEF Asked
    <3>3. \A i, j \in DOMAIN toControl' :
             toControl'[i].target = x /\ toControl'[i].final /\ toControl'[j].target = x /\ toControl'[j].final
               => i = j
      BY <1>7, <3>1 DEF OnePlace
    <3> QED
      BY <1>1, <1>2, <1>8, <3>1, <3>2, <3>3 DEF OnePlace, Quiet
  <2> QED
    BY <1>1, <1>2, <2>1 DEF NetInv, ApartInv
<1> QED
  BY <1>2, <1>6, <1>9, <1>10 DEF NetInv

(* The final result of a lookup is on the way in its place. *)
LEMMA FinishRight ==
  ASSUME NetInv, NEW t \in NetTargets, PeerFinish(t)
  PROVE  NetInv'
<1>1. /\ Quiet /\ toPeer' = toPeer /\ ended' = ended /\ ended = "no" /\ Result(t, TRUE)
      /\ lookups[t] # 0 /\ lookups' = [lookups EXCEPT ![t] = 0]
  BY DEF PeerFinish, Quiet
<1>2. /\ PlacesRight' /\ OngoingRight' /\ SentRight' /\ UnicastsRight' /\ TimersExact'
      /\ Mixed' = Mixed /\ (\A x, k : HasKind(x, k)' <=> HasKind(x, k))
      /\ \A x : Ongoing(x)' <=> Ongoing(x)
  BY <1>1, QuietKeeps
<1>3. PICK r \in Results : r.target = t /\ r.final = TRUE /\ toControl' = Append(toControl, r)
  BY <1>1, ResultSent
<1>4. toControl \in Seq(Results) /\ lookups \in [NetTargets -> Nat]
  BY DEF NetInv, NetTypes
<1>5. /\ toControl' \in Seq(Results) /\ DOMAIN toControl' = 1..Len(toControl) + 1
      /\ DOMAIN toControl = 1..Len(toControl) /\ Len(toControl) \in Nat
      /\ \A i \in 1..Len(toControl) : toControl'[i] = toControl[i]
      /\ toControl'[Len(toControl) + 1] = r
  BY <1>3, <1>4, AppendAt
<1>6. NetTypes'
  BY <1>1, <1>4, <1>5 DEF NetInv, NetTypes, Quiet
<1>7. \A i \in DOMAIN toControl' : i # Len(toControl) + 1 => i \in DOMAIN toControl /\ toControl'[i] = toControl[i]
  BY <1>5
<1>8. /\ \A x : Ending(x) => Ending(x)'
      /\ \A x : Ending(x)' => Ending(x) \/ x = t
      /\ Ending(t)'
  <2>1. \A x : Ending(x) => Ending(x)'
    BY <1>5 DEF Ending
  <2>2. ASSUME NEW x, Ending(x)', x # t PROVE Ending(x)
    <3>1. PICK i \in DOMAIN toControl' : toControl'[i].target = x /\ toControl'[i].final
      BY <2>2 DEF Ending
    <3>2. i # Len(toControl) + 1
      BY <1>3, <1>5, <2>2, <3>1
    <3> QED
      BY <1>7, <3>1, <3>2 DEF Ending
  <2>3. Ending(t)'
    <3>1. Len(toControl) + 1 \in DOMAIN toControl'
      BY <1>5
    <3> QED
      BY <1>3, <1>5, <3>1 DEF Ending
  <2> QED
    BY <2>1, <2>2, <2>3
<1>9. NoneForgotten'
  <2> SUFFICES ASSUME NEW x \in NetTargets \ Mixed, unicasts[x] # {} \/ Ongoing(x) \/ waiting[x] # {}
               PROVE  lookups'[x] # 0 \/ Asked(x)' \/ Ending(x)'
    BY <1>1, <1>2 DEF NoneForgotten, Asked, Ending, Quiet
  <2>1. lookups[x] # 0 \/ Asked(x) \/ Ending(x)
    BY <1>1 DEF NetInv, NoneForgotten, Asked, Ending
  <2>2. Asked(x)' <=> Asked(x)
    BY <1>1 DEF Asked
  <2>3. x # t => lookups'[x] = lookups[x]
    BY <1>1, <1>4
  <2> QED
    BY <1>8, <2>1, <2>2, <2>3
<1>10. ApartInv'
  <2>1. ASSUME NEW x \in NetTargets \ Mixed, Roomy PROVE OnePlace(x)'
    <3>1. OnePlace(x)
      BY <2>1 DEF NetInv, ApartInv
    <3>2. Asked(x)' <=> Asked(x)
      BY <1>1 DEF Asked
    <3>3. x = t => ~Ending(x) /\ ~Asked(x) /\ lookups'[x] = 0
      BY <1>1, <1>4, <3>1 DEF OnePlace
    <3>4. x # t => lookups'[x] = lookups[x]
      BY <1>1, <1>4
    <3>5. ASSUME NEW i \in DOMAIN toControl', NEW j \in DOMAIN toControl',
                 toControl'[i].target = x, toControl'[i].final, toControl'[j].target = x, toControl'[j].final
          PROVE  i = j
      <4>1. CASE x = t
        <5>1. \A k \in DOMAIN toControl : ~(toControl[k].target = x /\ toControl[k].final)
          BY <3>3, <4>1 DEF Ending
        <5> QED
          BY <1>7, <3>5, <5>1
      <4>2. CASE x # t
        <5>1. i # Len(toControl) + 1 /\ j # Len(toControl) + 1
          BY <1>3, <1>5, <3>5, <4>2
        <5>2. i \in DOMAIN toControl /\ j \in DOMAIN toControl /\ toControl'[i] = toControl[i]
              /\ toControl'[j] = toControl[j]
          BY <1>7, <5>1
        <5> QED
          BY <3>1, <3>5, <5>2 DEF OnePlace
      <4> QED
        BY <4>1, <4>2
    <3>6. /\ Asked(x)' => lookups'[x] = 0 /\ ~Ending(x)'
          /\ lookups'[x] # 0 => ~Ending(x)'
      BY <1>8, <3>1, <3>2, <3>3, <3>4 DEF OnePlace
    <3>7. Asked(x)' \/ lookups'[x] # 0 \/ Ending(x)' => Asked(x) \/ lookups[x] # 0 \/ Ending(x)
      BY <1>1, <1>8, <3>2, <3>4
    <3>8. \A i, j \in DOMAIN toPeer' : toPeer'[i].target = x /\ toPeer'[j].target = x => i = j
      BY <1>1, <3>1 DEF OnePlace
    <3>9. unicasts'[x] = unicasts[x] /\ addrs' = addrs
      BY <1>1 DEF Quiet
    <3> QED
      BY <1>2, <3>1, <3>5, <3>6, <3>7, <3>8, <3>9 DEF OnePlace
  <2> QED
    BY <1>1, <1>2, <2>1 DEF NetInv, ApartInv
<1> QED
  BY <1>2, <1>6, <1>9, <1>10 DEF NetInv

-----------------------------------------------------------------------------
(* A message is given that starts no query. *)
LEMMA GivenKeeps ==
  ASSUME NetInv, NEW m \in Messages, given' = given \cup {m},
         addrs' = addrs, lookups' = lookups, toControl' = toControl, toPeer' = toPeer, ended' = ended,
         \A x \in NetTargets : (unicasts'[x] # {} <=> unicasts[x] # {}) /\ (Ongoing(x)' <=> Ongoing(x)),
         \A x \in NetTargets : waiting'[x] # {} => waiting[x] # {} \/ unicasts[x] # {} \/ Ongoing(x)
  PROVE  NoneForgotten' /\ ApartInv'
<1>1. given \subseteq given' /\ given' \subseteq Messages
  BY DEF NetInv, NetTypes
<1>2. /\ \A t \in NetTargets : t \in Mixed => t \in Mixed'
      /\ Mixed' = {} => Mixed = {}
      /\ \A t, k : HasKind(t, k) => HasKind(t, k)'
  BY <1>1, MixedGrows
<1>3. NoneForgotten'
  <2> SUFFICES ASSUME ended = "no", NEW x \in NetTargets, x \notin Mixed',
                      (unicasts[x] # {} \/ Ongoing(x) \/ waiting[x] # {})'
               PROVE  lookups[x] # 0 \/ Asked(x) \/ Ending(x)
    BY DEF NoneForgotten, Asked, Ending
  <2>1. unicasts[x] # {} \/ Ongoing(x) \/ waiting[x] # {}
    OBVIOUS
  <2> QED
    BY <1>2, <2>1 DEF NetInv, NoneForgotten, Asked, Ending
<1>4. ASSUME Roomy, NEW x \in NetTargets, x \notin Mixed' PROVE OnePlace(x)'
  <2>1. OnePlace(x)
    BY <1>2, <1>4 DEF NetInv, ApartInv
  <2>2. (Asked(x)' <=> Asked(x)) /\ (Ending(x)' <=> Ending(x))
    BY DEF Asked, Ending
  <2> QED
    BY <1>2, <2>1, <2>2 DEF OnePlace
<1>5. ApartInv'
  BY <1>2, <1>4 DEF NetInv, ApartInv
<1> QED
  BY <1>3, <1>5

(* A message is given that starts a query for its target, which no query   *)
(* waits for.                                                              *)
LEMMA AskKeeps ==
  ASSUME NetInv, NEW m \in Messages, given' = given \cup {m}, NEW t \in NetTargets, NEW count \in Nat \ {0},
         addrs' = addrs, lookups' = lookups, toControl' = toControl, ended' = ended, AskPeer(t, count),
         \A x \in NetTargets : x # t => /\ unicasts'[x] = unicasts[x] /\ waiting'[x] = waiting[x]
                                        /\ Ongoing(x)' <=> Ongoing(x),
         ~Ongoing(t),
         t \notin Mixed' => ~(HasKind(t, "unicast") /\ (unicasts[t] # {} \/ t \in addrs)),
         \/ HasKind(t, "multicast")' /\ Ongoing(t)'
         \/ HasKind(t, "unicast")' /\ unicasts'[t] # {}
  PROVE  /\ NoneForgotten' /\ ApartInv' /\ toPeer' \in Seq(Queries)
<1>1. given \subseteq given' /\ given' \subseteq Messages
  BY DEF NetInv, NetTypes
<1>2. /\ \A x \in NetTargets : x \in Mixed => x \in Mixed'
      /\ Mixed' = {} => Mixed = {}
      /\ \A x, k : HasKind(x, k) => HasKind(x, k)'
  BY <1>1, MixedGrows
<1> DEFINE q == [target |-> t, count |-> count]
<1>3. q \in Queries /\ q.target = t /\ toPeer' = Append(toPeer, q) /\ toPeer \in Seq(Queries)
  BY DEF Queries, AskPeer, NetInv, NetTypes
<1> HIDE DEF q
<1>4. /\ toPeer' \in Seq(Queries) /\ DOMAIN toPeer' = 1..Len(toPeer) + 1
      /\ DOMAIN toPeer = 1..Len(toPeer) /\ Len(toPeer) \in Nat
      /\ \A i \in 1..Len(toPeer) : toPeer'[i] = toPeer[i]
      /\ toPeer'[Len(toPeer) + 1] = q
  BY <1>3, AppendAt
<1>5. \A x : Asked(x) => Asked(x)'
  BY <1>4 DEF Asked
<1>6. Asked(t)'
  <2>1. Len(toPeer) + 1 \in DOMAIN toPeer'
    BY <1>4
  <2> QED
    BY <1>3, <1>4, <2>1 DEF Asked
<1>7. \A x : Ending(x)' <=> Ending(x)
  BY DEF Ending
<1>8. NoneForgotten'
  <2> SUFFICES ASSUME ended = "no", NEW x \in NetTargets, x \notin Mixed', x # t,
                      (unicasts[x] # {} \/ Ongoing(x) \/ waiting[x] # {})'
               PROVE  lookups[x] # 0 \/ Asked(x)' \/ Ending(x)'
    BY <1>6 DEF NoneForgotten, Asked, Ending
  <2>1. unicasts[x] # {} \/ Ongoing(x) \/ waiting[x] # {}
    OBVIOUS
  <2>2. lookups[x] # 0 \/ Asked(x) \/ Ending(x)
    BY <1>2, <2>1 DEF NetInv, NoneForgotten, Asked, Ending
  <2> QED
    BY <1>5, <1>7, <2>2
<1>9. ASSUME Roomy, NEW x \in NetTargets, x \notin Mixed' PROVE OnePlace(x)'
  <2>1. OnePlace(x)
    BY <1>2, <1>9 DEF NetInv, ApartInv
  <2>2. x # t => (Asked(x)' => Asked(x))
    <3> SUFFICES ASSUME x # t, NEW i \in DOMAIN toPeer', toPeer'[i].target = x PROVE Asked(x)
      BY DEF Asked
    <3>1. i # Len(toPeer) + 1
      BY <1>3, <1>4
    <3>2. i \in DOMAIN toPeer /\ toPeer[i].target = x
      BY <1>4, <3>1
    <3> QED
      BY <3>2 DEF Asked
  <2>3. x = t => ~Asked(t) /\ lookups[t] = 0 /\ ~Ending(t)
    BY <1>9, <2>1 DEF OnePlace
  <2>4. ASSUME NEW i \in DOMAIN toPeer', NEW j \in DOMAIN toPeer', toPeer'[i].target = x, toPeer'[j].target = x
        PROVE  i = j
    <3>1. CASE x = t
      <4>1. \A k \in DOMAIN toPeer : toPeer[k].target # x
        BY <2>3, <3>1 DEF Asked
      <4>2. \A k \in DOMAIN toPeer' : k # Len(toPeer) + 1 => toPeer'[k].target # x
        BY <1>4, <4>1
      <4> QED
        BY <2>4, <4>2
    <3>2. CASE x # t
      <4>1. i # Len(toPeer) + 1 /\ j # Len(toPeer) + 1
        BY <1>3, <1>4, <2>4, <3>2
      <4>2. i \in DOMAIN toPeer /\ j \in DOMAIN toPeer /\ toPeer[i].target = x /\ toPeer[j].target = x
        BY <1>4, <2>4, <4>1
      <4> QED
        BY <2>1, <4>2 DEF OnePlace
    <3> QED
      BY <3>1, <3>2
  <2>5. \A i, j \in DOMAIN toControl' :
           toControl'[i].target = x /\ toControl'[i].final /\ toControl'[j].target = x /\ toControl'[j].final
             => i = j
    BY <2>1 DEF OnePlace
  <2>6. /\ Asked(x)' => lookups'[x] = 0 /\ ~Ending(x)'
        /\ lookups'[x] # 0 => ~Ending(x)'
    BY <1>7, <2>1, <2>2, <2>3 DEF OnePlace
  <2>7. Asked(x)' \/ lookups'[x] # 0 \/ Ending(x)' =>
           \/ HasKind(x, "multicast")' /\ Ongoing(x)'
           \/ HasKind(x, "unicast")' /\ (unicasts'[x] # {} \/ x \in addrs')
    <3>1. CASE x = t
      BY <3>1
    <3>2. CASE x # t
      <4>1. Asked(x)' \/ lookups'[x] # 0 \/ Ending(x)' => Asked(x) \/ lookups[x] # 0 \/ Ending(x)
        BY <1>7, <2>2, <3>2
      <4>2. unicasts'[x] = unicasts[x] /\ (Ongoing(x)' <=> Ongoing(x))
        BY <3>2
      <4> QED
        BY <1>2, <2>1, <4>1, <4>2 DEF OnePlace
    <3> QED
      BY <3>1, <3>2
  <2> QED
    BY <2>4, <2>5, <2>6, <2>7 DEF OnePlace
<1>10. ApartInv'
  BY <1>2, <1>9 DEF NetInv, ApartInv
<1> QED
  BY <1>4, <1>8, <1>10

(* A message that was not given yet is nowhere. *)
LEMMA NewMessage ==
  ASSUME NetInv, NEW m \in Messages, m \notin given
  PROVE  /\ \A t \in NetTargets : m \notin unicasts[t] /\ m \notin multicasts[t].messages /\ m \notin waiting[t]
         /\ sentTo[m] = <<>> /\ m \notin dropped
  BY DEF NetInv, PlacesRight, Unsent, SentRight

LEMMA SentKeeps ==
  ASSUME NetInv, NEW m \in Messages, m \notin given, given' = given \cup {m}, dropped' = dropped,
         \/ sentTo' = sentTo
         \/ /\ Requests[m].kind = "unicast" /\ Requests[m].target \in addrs
            /\ sentTo' = [sentTo EXCEPT ![m] = Append(@, Requests[m].target)]
  PROVE  SentRight' /\ UnicastsRight' /\ sentTo' \in [Messages -> Seq(NetPeers)]
<1> DEFINE t == Requests[m].target
<1>1. sentTo \in [Messages -> Seq(NetPeers)] /\ addrs \subseteq NetPeers /\ given \subseteq Messages
      /\ SentRight /\ UnicastsRight
  BY DEF NetInv, NetTypes
<1>2. sentTo[m] = <<>> /\ m \notin dropped
  BY NewMessage
<1>3. \A n \in Messages : n # m => sentTo'[n] = sentTo[n]
  BY <1>1
<1>4. \/ sentTo'[m] = <<>>
      \/ Requests[m].kind = "unicast" /\ t \in NetPeers /\ sentTo'[m] = <<t>>
  BY <1>1, <1>2
<1>5. Count(m) \in Nat \ {0}
  BY RequestsAssumption
<1>6. sentTo'[m] \in Seq(NetPeers) /\ Distinct(sentTo'[m]) /\ Len(sentTo'[m]) <= Count(m)
      /\ \A i \in DOMAIN sentTo'[m] : sentTo'[m][i] = t
  <2>1. CASE sentTo'[m] = <<>>
    BY <1>5, <2>1 DEF Distinct
  <2>2. CASE t \in NetPeers /\ sentTo'[m] = <<t>>
    BY <1>5, <2>2 DEF Distinct
  <2> QED
    BY <1>4, <2>1, <2>2
<1>7. SentRight'
  <2> SUFFICES ASSUME NEW n \in Messages
               PROVE  /\ n \notin given' => sentTo'[n] = <<>> /\ n \notin dropped
                      /\ Distinct(sentTo'[n]) /\ Len(sentTo'[n]) <= Count(n)
                      /\ n \in dropped => sentTo'[n] = <<>>
    BY DEF SentRight
  <2>1. CASE n = m
    BY <1>2, <1>6, <2>1
  <2>2. CASE n # m
    BY <1>1, <1>3, <2>2 DEF SentRight
  <2> QED
    BY <2>1, <2>2
<1>8. UnicastsRight'
  <2> SUFFICES ASSUME NEW n \in given', Requests[n].kind = "unicast", Requests[n].target \notin Mixed',
                      NEW i \in DOMAIN sentTo'[n]
               PROVE  sentTo'[n][i] = Requests[n].target
    BY DEF UnicastsRight
  <2>1. CASE n = m
    BY <1>6, <2>1
  <2>2. CASE n # m
    <3>1. n \in given /\ n \in Messages /\ Requests[n].target \in NetTargets
      BY <1>1, <2>2 DEF NetTargets
    <3>2. given \subseteq given' /\ given' \subseteq Messages
      BY <1>1
    <3>3. Requests[n].target \notin Mixed
      BY <3>1, <3>2, MixedGrows
    <3> QED
      BY <1>1, <1>3, <2>2, <3>1, <3>3 DEF UnicastsRight
  <2> QED
    BY <2>1, <2>2
<1>9. sentTo' \in [Messages -> Seq(NetPeers)]
  BY <1>1, <1>6
<1> QED
  BY <1>7, <1>8, <1>9

(* A message joins the multicasts of its target. *)
LEMMA JoinRight ==
  ASSUME NetInv, NEW m \in Messages, m \notin given, given' = given \cup {m},
         NEW t \in NetTargets, t = Requests[m].target, Ongoing(t),
         multicasts' = [multicasts EXCEPT ![t].messages = @ \cup {m}],
         UNCHANGED <<unicasts, waiting, addrs, netTimers, toPeer, lookups, toControl, sentTo, dropped, ended>>
  PROVE  NetInv'
<1>1. NetTypes /\ PlacesRight /\ OngoingRight /\ TimersExact
  BY DEF NetInv
<1>2. multicasts \in [NetTargets -> [count : Nat, messages : SUBSET Messages]] /\ given \subseteq Messages
  BY <1>1 DEF NetTypes
<1>3. /\ multicasts' \in [NetTargets -> [count : Nat, messages : SUBSET Messages]]
      /\ multicasts'[t].messages = multicasts[t].messages \cup {m}
      /\ \A x \in NetTargets : x # t => multicasts'[x] = multicasts[x]
  BY <1>2
<1>4. \A x \in NetTargets : Ongoing(x)' <=> Ongoing(x)
  <2> SUFFICES ASSUME NEW x \in NetTargets PROVE Ongoing(x)' <=> Ongoing(x)
    OBVIOUS
  <2>1. CASE x = t
    <3>1. multicasts'[t] # NoQuery
      BY <1>3 DEF NoQuery
    <3> QED
      BY <2>1, <3>1 DEF Ongoing
  <2>2. CASE x # t
    BY <1>3, <2>2 DEF Ongoing
  <2> QED
    BY <2>1, <2>2
<1>5. NetTypes'
  BY <1>1, <1>2, <1>3 DEF NetTypes
<1>6. sentTo[m] = <<>> /\ m \notin dropped
      /\ \A x \in NetTargets : m \notin unicasts[x] /\ m \notin multicasts[x].messages /\ m \notin waiting[x]
  BY NewMessage
<1>7. Unsent(m, t)' /\ \A n, x : Unsent(n, x) => Unsent(n, x)'
  BY <1>6 DEF Unsent
<1>8. PlacesRight'
  <2> SUFFICES ASSUME NEW x \in NetTargets
               PROVE  /\ \A n \in unicasts[x] : Unsent(n, x)' /\ Requests[n].kind = "unicast"
                      /\ \A n \in multicasts'[x].messages : Unsent(n, x)' /\ n \notin unicasts[x]
                      /\ \A n \in waiting[x] : /\ Unsent(n, x)' /\ Requests[n].kind = "multicast"
                                               /\ n \notin multicasts'[x].messages
    BY DEF PlacesRight
  <2>1. \A n \in multicasts'[x].messages : n \in multicasts[x].messages \/ (n = m /\ x = t)
    BY <1>3
  <2> QED
    BY <1>1, <1>6, <1>7, <2>1 DEF PlacesRight
<1>9. OngoingRight'
  BY <1>1, <1>3, <1>4 DEF OngoingRight
<1>10. SentRight' /\ UnicastsRight'
  BY SentKeeps
<1>11. TimersExact'
  BY <1>1, <1>4 DEF TimersExact
<1>12. NoneForgotten' /\ ApartInv'
  BY <1>4, GivenKeeps
<1> QED
  BY <1>5, <1>8, <1>9, <1>10, <1>11, <1>12 DEF NetInv

(* A message to a cached address is sent at once. *)
LEMMA CachedRight ==
  ASSUME NetInv, NEW m \in Messages, m \notin given, given' = given \cup {m},
         Requests[m].kind = "unicast", Requests[m].target \in addrs,
         sentTo' = [sentTo EXCEPT ![m] = Append(@, Requests[m].target)],
         UNCHANGED <<unicasts, multicasts, waiting, addrs, netTimers, toPeer, lookups, toControl, dropped, ended>>
  PROVE  NetInv'
<1>1. NetTypes /\ PlacesRight /\ OngoingRight /\ TimersExact
  BY DEF NetInv
<1>2. SentRight' /\ UnicastsRight' /\ sentTo' \in [Messages -> Seq(NetPeers)]
  BY SentKeeps
<1>3. \A x \in NetTargets : Ongoing(x)' <=> Ongoing(x)
  BY DEF Ongoing
<1>4. NetTypes'
  BY <1>1, <1>2 DEF NetTypes
<1>5. \A x \in NetTargets : m \notin unicasts[x] /\ m \notin multicasts[x].messages /\ m \notin waiting[x]
  BY NewMessage
<1>6. \A n, x : n # m /\ Unsent(n, x) => Unsent(n, x)'
  <2> SUFFICES ASSUME NEW n, NEW x, n # m, Unsent(n, x) PROVE sentTo'[n] = <<>>
    BY DEF Unsent
  <2>1. n \in Messages /\ sentTo \in [Messages -> Seq(NetPeers)]
    BY <1>1 DEF Unsent, NetTypes
  <2> QED
    BY <2>1 DEF Unsent
<1>7. PlacesRight'
  BY <1>1, <1>5, <1>6 DEF PlacesRight
<1>8. OngoingRight' /\ TimersExact'
  BY <1>1, <1>3 DEF OngoingRight, TimersExact
<1>9. NoneForgotten' /\ ApartInv'
  BY <1>3, GivenKeeps
<1> QED
  BY <1>2, <1>4, <1>7, <1>8, <1>9 DEF NetInv

(* A message to one peer waits for it, with the others or as the first. *)
LEMMA WaitRight ==
  ASSUME NetInv, NEW m \in Messages, m \notin given, given' = given \cup {m},
         NEW t \in NetTargets, t = Requests[m].target, Requests[m].kind = "unicast",
         unicasts' = [unicasts EXCEPT ![t] = @ \cup {m}],
         UNCHANGED <<multicasts, waiting, sentTo, dropped>>
  PROVE  /\ unicasts' \in [NetTargets -> SUBSET Messages]
         /\ unicasts'[t] = unicasts[t] \cup {m}
         /\ \A x \in NetTargets : x # t => unicasts'[x] = unicasts[x]
         /\ \A x \in NetTargets : Ongoing(x)' <=> Ongoing(x)
         /\ given' \subseteq Messages
         /\ PlacesRight' /\ OngoingRight' /\ SentRight' /\ UnicastsRight'
<1>1. NetTypes /\ PlacesRight /\ OngoingRight
  BY DEF NetInv
<1>2. unicasts \in [NetTargets -> SUBSET Messages] /\ given \subseteq Messages
  BY <1>1 DEF NetTypes
<1>3. /\ unicasts' \in [NetTargets -> SUBSET Messages]
      /\ unicasts'[t] = unicasts[t] \cup {m}
      /\ \A x \in NetTargets : x # t => unicasts'[x] = unicasts[x]
  BY <1>2
<1>4. \A x \in NetTargets : Ongoing(x)' <=> Ongoing(x)
  BY DEF Ongoing
<1>5. sentTo[m] = <<>> /\ m \notin dropped
      /\ \A x \in NetTargets : m \notin unicasts[x] /\ m \notin multicasts[x].messages /\ m \notin waiting[x]
  BY NewMessage
<1>6. Unsent(m, t)' /\ \A n, x : Unsent(n, x) => Unsent(n, x)'
  BY <1>5 DEF Unsent
<1>7. PlacesRight'
  <2> SUFFICES ASSUME NEW x \in NetTargets
               PROVE  /\ \A n \in unicasts'[x] : Unsent(n, x)' /\ Requests[n].kind = "unicast"
                      /\ \A n \in multicasts[x].messages : Unsent(n, x)' /\ n \notin unicasts'[x]
                      /\ \A n \in waiting[x] : /\ Unsent(n, x)' /\ Requests[n].kind = "multicast"
                                               /\ n \notin multicasts[x].messages
    BY DEF PlacesRight
  <2>1. \A n \in unicasts'[x] : n \in unicasts[x] \/ (n = m /\ x = t)
    BY <1>3
  <2> QED
    BY <1>1, <1>5, <1>6, <2>1 DEF PlacesRight
<1>8. OngoingRight'
  BY <1>1, <1>4 DEF OngoingRight
<1>9. SentRight' /\ UnicastsRight'
  BY SentKeeps
<1> QED
  BY <1>2, <1>3, <1>4, <1>7, <1>8, <1>9

LEMMA AlongRight ==
  ASSUME NetInv, NEW m \in Messages, m \notin given, given' = given \cup {m},
         NEW t \in NetTargets, t = Requests[m].target, Requests[m].kind = "unicast",
         unicasts[t] # {}, unicasts' = [unicasts EXCEPT ![t] = @ \cup {m}],
         UNCHANGED <<multicasts, waiting, addrs, netTimers, toPeer, lookups, toControl, sentTo, dropped, ended>>
  PROVE  NetInv'
<1>1. NetTypes /\ TimersExact
  BY DEF NetInv
<1>2. /\ unicasts' \in [NetTargets -> SUBSET Messages]
      /\ unicasts'[t] = unicasts[t] \cup {m}
      /\ \A x \in NetTargets : x # t => unicasts'[x] = unicasts[x]
      /\ \A x \in NetTargets : Ongoing(x)' <=> Ongoing(x)
      /\ given' \subseteq Messages
      /\ PlacesRight' /\ OngoingRight' /\ SentRight' /\ UnicastsRight'
  BY WaitRight
<1>3. \A x \in NetTargets : unicasts'[x] # {} <=> unicasts[x] # {}
  BY <1>2
<1>4. NetTypes'
  BY <1>1, <1>2 DEF NetTypes
<1>5. TimersExact'
  BY <1>1, <1>2, <1>3 DEF TimersExact
<1>6. NoneForgotten' /\ ApartInv'
  BY <1>2, <1>3, GivenKeeps
<1> QED
  BY <1>2, <1>4, <1>5, <1>6 DEF NetInv

LEMMA AskedUnicastRight ==
  ASSUME NetInv, NEW m \in Messages, m \notin given, given' = given \cup {m},
         NEW t \in NetTargets, t = Requests[m].target, Requests[m].kind = "unicast",
         t \notin addrs, ~Ongoing(t), unicasts[t] = {}, unicasts' = [unicasts EXCEPT ![t] = {m}],
         AskPeer(t, 1), netTimers' = netTimers \cup {NetTimer("unicast", t)},
         UNCHANGED <<multicasts, waiting, addrs, lookups, toControl, sentTo, dropped, ended>>
  PROVE  NetInv'
<1>1. NetTypes /\ TimersExact
  BY DEF NetInv
<1>2. unicasts' = [unicasts EXCEPT ![t] = @ \cup {m}]
  BY <1>1 DEF NetTypes
<1>3. /\ unicasts' \in [NetTargets -> SUBSET Messages]
      /\ unicasts'[t] = unicasts[t] \cup {m}
      /\ \A x \in NetTargets : x # t => unicasts'[x] = unicasts[x]
      /\ \A x \in NetTargets : Ongoing(x)' <=> Ongoing(x)
      /\ given' \subseteq Messages
      /\ PlacesRight' /\ OngoingRight' /\ SentRight' /\ UnicastsRight'
  BY <1>2, WaitRight
<1>4. HasKind(t, "unicast")'
  BY DEF HasKind
<1>5. NoneForgotten' /\ ApartInv' /\ toPeer' \in Seq(Queries)
  BY <1>3, <1>4, AskKeeps
<1>6. NetTypes'
  BY <1>1, <1>3, <1>5 DEF NetTypes
<1>7. TimersExact'
  <2>1. {x \in NetTargets : unicasts'[x] # {}} = {x \in NetTargets : unicasts[x] # {}} \cup {t}
    BY <1>3
  <2>2. {x \in NetTargets : Ongoing(x)'} = {x \in NetTargets : Ongoing(x)}
    BY <1>3
  <2>3. \A x \in NetTargets : unicasts'[x] # {} => x \notin addrs
    BY <1>1, <1>3 DEF TimersExact
  <2> QED
    BY <1>1, <2>1, <2>2, <2>3 DEF TimersExact
<1> QED
  BY <1>3, <1>5, <1>6, <1>7 DEF NetInv

LEMMA UnicastRight ==
  ASSUME NetInv, NEW m \in Messages, Unicast(m)
  PROVE  NetInv'
<1> DEFINE t == Requests[m].target
<1>1. t \in NetTargets
  BY DEF NetTargets
<1>2. /\ m \notin given /\ given' = given \cup {m} /\ Requests[m].kind = "unicast"
      /\ UNCHANGED <<waiting, addrs, lookups, toControl, dropped, ended>>
  BY DEF Unicast
<1>3. \/ /\ t \in addrs /\ sentTo' = [sentTo EXCEPT ![m] = Append(@, t)]
         /\ UNCHANGED <<unicasts, multicasts, netTimers, toPeer>>
      \/ /\ Ongoing(t) /\ multicasts' = [multicasts EXCEPT ![t].messages = @ \cup {m}]
         /\ UNCHANGED <<unicasts, netTimers, toPeer, sentTo>>
      \/ /\ unicasts[t] # {} /\ unicasts' = [unicasts EXCEPT ![t] = @ \cup {m}]
         /\ UNCHANGED <<multicasts, netTimers, toPeer, sentTo>>
      \/ /\ t \notin addrs /\ ~Ongoing(t) /\ unicasts[t] = {} /\ AskPeer(t, 1)
         /\ unicasts' = [unicasts EXCEPT ![t] = {m}]
         /\ netTimers' = netTimers \cup {NetTimer("unicast", t)}
         /\ UNCHANGED <<multicasts, sentTo>>
  BY DEF Unicast
<1> QED
  BY <1>1, <1>2, <1>3, CachedRight, JoinRight, AlongRight, AskedUnicastRight

-----------------------------------------------------------------------------
(* A multicast waits for the query there is to end. *)
LEMMA BehindRight ==
  ASSUME NetInv, NEW m \in Messages, m \notin given, given' = given \cup {m},
         NEW t \in NetTargets, t = Requests[m].target, Requests[m].kind = "multicast",
         Ongoing(t) \/ unicasts[t] # {}, waiting' = [waiting EXCEPT ![t] = @ \cup {m}],
         UNCHANGED <<unicasts, multicasts, addrs, netTimers, toPeer, lookups, toControl, sentTo, dropped, ended>>
  PROVE  NetInv'
<1>1. NetTypes /\ PlacesRight /\ OngoingRight /\ TimersExact
  BY DEF NetInv
<1>2. waiting \in [NetTargets -> SUBSET Messages] /\ given \subseteq Messages
  BY <1>1 DEF NetTypes
<1>3. /\ waiting' \in [NetTargets -> SUBSET Messages]
      /\ waiting'[t] = waiting[t] \cup {m}
      /\ \A x \in NetTargets : x # t => waiting'[x] = waiting[x]
  BY <1>2
<1>4. \A x \in NetTargets : Ongoing(x)' <=> Ongoing(x)
  BY DEF Ongoing
<1>5. sentTo[m] = <<>> /\ m \notin dropped
      /\ \A x \in NetTargets : m \notin unicasts[x] /\ m \notin multicasts[x].messages /\ m \notin waiting[x]
  BY NewMessage
<1>6. Unsent(m, t)' /\ \A n, x : Unsent(n, x) => Unsent(n, x)'
  BY <1>5 DEF Unsent
<1>7. PlacesRight'
  <2> SUFFICES ASSUME NEW x \in NetTargets
               PROVE  /\ \A n \in unicasts[x] : Unsent(n, x)' /\ Requests[n].kind = "unicast"
                      /\ \A n \in multicasts[x].messages : Unsent(n, x)' /\ n \notin unicasts[x]
                      /\ \A n \in waiting'[x] : /\ Unsent(n, x)' /\ Requests[n].kind = "multicast"
                                                /\ n \notin multicasts[x].messages
    BY DEF PlacesRight
  <2>1. \A n \in waiting'[x] : n \in waiting[x] \/ (n = m /\ x = t)
    BY <1>3
  <2> QED
    BY <1>1, <1>5, <1>6, <2>1 DEF PlacesRight
<1>8. NetTypes'
  BY <1>1, <1>2, <1>3 DEF NetTypes
<1>9. OngoingRight' /\ TimersExact'
  BY <1>1, <1>4 DEF OngoingRight, TimersExact
<1>10. SentRight' /\ UnicastsRight'
  BY SentKeeps
<1>11. \A x \in NetTargets : waiting'[x] # {} => waiting[x] # {} \/ unicasts[x] # {} \/ Ongoing(x)
  BY <1>3
<1>12. NoneForgotten' /\ ApartInv'
  BY <1>4, <1>11, GivenKeeps
<1> QED
  BY <1>7, <1>8, <1>9, <1>10, <1>12 DEF NetInv

(* A multicast starts a query. *)
LEMMA AskedMulticastRight ==
  ASSUME NetInv, NEW m \in Messages, m \notin given, given' = given \cup {m},
         NEW t \in NetTargets, t = Requests[m].target, Requests[m].kind = "multicast",
         ~Ongoing(t), unicasts[t] = {}, AskPeer(t, Count(m)),
         multicasts' = [multicasts EXCEPT ![t] = [count |-> Count(m), messages |-> {m}]],
         netTimers' = netTimers \cup {NetTimer("multicast", t)},
         UNCHANGED <<unicasts, waiting, addrs, lookups, toControl, sentTo, dropped, ended>>
  PROVE  NetInv'
<1>1. NetTypes /\ PlacesRight /\ OngoingRight /\ TimersExact
  BY DEF NetInv
<1>2. /\ multicasts \in [NetTargets -> [count : Nat, messages : SUBSET Messages]] /\ given \subseteq Messages
      /\ Count(m) \in Nat \ {0}
  BY <1>1, RequestsAssumption DEF NetTypes
<1> DEFINE query == [count |-> Count(m), messages |-> {m}]
<1>3. query \in [count : Nat, messages : SUBSET Messages] /\ query.messages = {m} /\ query # NoQuery
  BY <1>2 DEF NoQuery
<1>4. multicasts' = [multicasts EXCEPT ![t] = query]
  OBVIOUS
<1> HIDE DEF query
<1>5. /\ multicasts' \in [NetTargets -> [count : Nat, messages : SUBSET Messages]]
      /\ multicasts'[t] = query
      /\ \A x \in NetTargets : x # t => multicasts'[x] = multicasts[x]
  BY <1>2, <1>3, <1>4
<1>6. Ongoing(t)' /\ \A x \in NetTargets : x # t => (Ongoing(x)' <=> Ongoing(x))
  BY <1>3, <1>5 DEF Ongoing
<1>7. sentTo[m] = <<>> /\ m \notin dropped
      /\ \A x \in NetTargets : m \notin unicasts[x] /\ m \notin multicasts[x].messages /\ m \notin waiting[x]
  BY NewMessage
<1>8. Unsent(m, t)' /\ \A n, x : Unsent(n, x) => Unsent(n, x)'
  BY <1>7 DEF Unsent
<1>9. PlacesRight'
  <2> SUFFICES ASSUME NEW x \in NetTargets
               PROVE  /\ \A n \in unicasts[x] : Unsent(n, x)' /\ Requests[n].kind = "unicast"
                      /\ \A n \in multicasts'[x].messages : Unsent(n, x)' /\ n \notin unicasts[x]
                      /\ \A n \in waiting[x] : /\ Unsent(n, x)' /\ Requests[n].kind = "multicast"
                                               /\ n \notin multicasts'[x].messages
    BY DEF PlacesRight
  <2>1. \A n \in multicasts'[x].messages : (x # t /\ n \in multicasts[x].messages) \/ (n = m /\ x = t)
    BY <1>3, <1>5
  <2> QED
    BY <1>1, <1>7, <1>8, <2>1 DEF PlacesRight
<1>10. OngoingRight'
  <2> SUFFICES ASSUME NEW x \in NetTargets, Ongoing(x)'
               PROVE  \E n \in multicasts'[x].messages : Requests[n].kind = "multicast"
    BY DEF OngoingRight
  <2>1. CASE x = t
    BY <1>3, <1>5, <2>1
  <2>2. CASE x # t
    BY <1>1, <1>5, <1>6, <2>2 DEF OngoingRight
  <2> QED
    BY <2>1, <2>2
<1>11. SentRight' /\ UnicastsRight'
  BY SentKeeps
<1>12. HasKind(t, "multicast")'
  BY DEF HasKind
<1>13. t \notin Mixed' => ~(HasKind(t, "unicast") /\ (unicasts[t] # {} \/ t \in addrs))
  <2>1. given \subseteq given' /\ given' \subseteq Messages
    BY <1>2
  <2>2. HasKind(t, "unicast") => t \in Mixed'
    BY <1>12, <2>1, MixedGrows, MixedIsPrimed
  <2> QED
    BY <2>2
<1>14. NoneForgotten' /\ ApartInv' /\ toPeer' \in Seq(Queries)
  BY <1>2, <1>6, <1>12, <1>13, AskKeeps
<1>15. NetTypes'
  BY <1>1, <1>2, <1>5, <1>14 DEF NetTypes
<1>16. TimersExact'
  <2>1. {x \in NetTargets : Ongoing(x)'} = {x \in NetTargets : Ongoing(x)} \cup {t}
    BY <1>6
  <2> QED
    BY <1>1, <2>1 DEF TimersExact
<1> QED
  BY <1>9, <1>10, <1>11, <1>14, <1>15, <1>16 DEF NetInv

LEMMA MulticastRight ==
  ASSUME NetInv, NEW m \in Messages, Multicast(m)
  PROVE  NetInv'
<1> DEFINE t == Requests[m].target
<1>1. t \in NetTargets
  BY DEF NetTargets
<1>2. /\ m \notin given /\ given' = given \cup {m} /\ Requests[m].kind = "multicast"
      /\ UNCHANGED <<unicasts, addrs, lookups, toControl, sentTo, dropped, ended>>
  BY DEF Multicast
<1>3. CASE /\ Joins(m)
           /\ multicasts' = [multicasts EXCEPT ![t].messages = @ \cup {m}]
           /\ UNCHANGED <<waiting, netTimers, toPeer>>
  <2>1. Ongoing(t)
    BY <1>3 DEF Joins
  <2> QED
    BY <1>1, <1>2, <1>3, <2>1, JoinRight
<1>4. CASE /\ Waits(m)
           /\ waiting' = [waiting EXCEPT ![t] = @ \cup {m}]
           /\ UNCHANGED <<multicasts, netTimers, toPeer>>
  <2>1. Ongoing(t) \/ unicasts[t] # {}
    BY <1>4 DEF Waits
  <2> QED
    BY <1>1, <1>2, <1>4, <2>1, BehindRight
<1>5. CASE /\ ~Joins(m) /\ ~Waits(m)
           /\ AskPeer(t, Count(m))
           /\ multicasts' = [multicasts EXCEPT ![t] = [count |-> Count(m), messages |-> {m}]]
           /\ netTimers' = netTimers \cup {NetTimer("multicast", t)}
           /\ UNCHANGED waiting
  <2>1. ~Ongoing(t) /\ unicasts[t] = {}
    BY <1>5 DEF Waits
  <2> QED
    BY <1>1, <1>2, <1>5, <2>1, AskedMulticastRight
<1> QED
  BY <1>3, <1>4, <1>5 DEF Multicast

-----------------------------------------------------------------------------
(* What is pushed into the cache, and whether there is room for it. *)
LEMMA PushedRight ==
  ASSUME addrs \subseteq NetPeers, NEW peers \in SUBSET NetPeers, NEW kept \in Pushed(addrs, peers)
  PROVE  /\ kept \subseteq addrs \cup peers
         /\ Roomy => kept = addrs \cup peers
<1>1. kept \subseteq addrs \cup peers
      /\ (Cardinality(addrs \cup peers) <= CacheSize => kept = addrs \cup peers)
  BY DEF Pushed
<1>2. addrs \cup peers \in SUBSET NetPeers
  OBVIOUS
<1>3. /\ Cardinality(addrs \cup peers) \in Nat /\ Cardinality(NetPeers) \in Nat
      /\ Cardinality(addrs \cup peers) <= Cardinality(NetPeers)
  BY <1>2, NetPeersAssumption, FS_Subset, FS_CardinalityType
<1>4. Roomy => Cardinality(addrs \cup peers) <= CacheSize
  BY <1>3, CacheSizeAssumption DEF Roomy
<1> QED
  BY <1>1, <1>4

(* The step that handles the result r. *)
Handles(r) ==
  /\ ended = "no" /\ toControl # <<>> /\ r = Head(toControl) /\ toControl' = Tail(toControl)
  /\ unicasts' = IF Unreachable(r) THEN [Unresolved(Found(r)) EXCEPT ![r.target] = {}] ELSE Unresolved(Found(r))
  /\ dropped' = IF Unreachable(r) THEN dropped \cup unicasts[r.target] ELSE dropped
  /\ sentTo' = [m \in Messages |-> sentTo[m] \o Destinations(m, r)]
  /\ addrs' \in Pushed(addrs, IF Answers(r) THEN Holds(r) ELSE Found(r))
  /\ \/ Restarts(r) /\ Restart(r.target)
     \/ /\ ~Restarts(r) /\ UNCHANGED <<waiting, toPeer>>
        /\ multicasts' = IF Answers(r) THEN [multicasts EXCEPT ![r.target] = NoQuery] ELSE multicasts
  /\ netTimers' = (netTimers \ Stopped(r))
                   \cup (IF Restarts(r) THEN {NetTimer("multicast", r.target)} ELSE {})
  /\ UNCHANGED <<lookups, given, ended, progressed>>

LEMMA HandledHead == OnQueryResult => Handles(Head(toControl))
  BY DEF OnQueryResult, Handles

(* The result, and the kinds it is of. *)
LEMMA HandledResult ==
  ASSUME NetInv, NEW r, Handles(r)
  PROVE  /\ r \in Results /\ r.target \in NetTargets /\ r.closest \in Seq(NetPeers) /\ Distinct(r.closest)
         /\ toControl' \in Seq(Results) /\ DOMAIN toControl' = 1..Len(toControl) - 1
         /\ DOMAIN toControl = 1..Len(toControl) /\ Len(toControl) \in Nat \ {0}
         /\ \A i \in 1..Len(toControl) - 1 : toControl'[i] = toControl[i + 1]
         /\ r = toControl[1]
         /\ Holds(r) \subseteq NetPeers /\ Found(r) \subseteq Holds(r) /\ Found(r) \subseteq NetTargets
         /\ \A x \in NetTargets : x \in Found(r) <=> x \in Holds(r) /\ unicasts[x] # {}
         /\ Unreachable(r) <=> r.final /\ r.target \notin Found(r) /\ unicasts[r.target] # {}
         /\ Answers(r) <=> r.final /\ ~Unreachable(r) /\ Ongoing(r.target)
         /\ Restarts(r) <=> r.final /\ ~Unreachable(r) /\ waiting[r.target] # {}
<1>1. toControl \in Seq(Results) /\ toControl # <<>> /\ r = Head(toControl) /\ toControl' = Tail(toControl)
  BY DEF NetInv, NetTypes, Handles
<1>2. /\ toControl' \in Seq(Results) /\ DOMAIN toControl' = 1..Len(toControl) - 1
      /\ DOMAIN toControl = 1..Len(toControl) /\ Len(toControl) \in Nat \ {0}
      /\ \A i \in 1..Len(toControl) - 1 : toControl'[i] = toControl[i + 1]
      /\ r = toControl[1] /\ r \in Results
  BY <1>1, TailAt
<1>3. r.target \in NetTargets /\ r.closest \in Seq(NetPeers) /\ Distinct(r.closest)
  BY <1>2 DEF Results
<1>4. Holds(r) \subseteq NetPeers
  BY <1>3 DEF Holds, Seqs!ToSet
<1>5. /\ Found(r) \subseteq Holds(r) /\ Found(r) \subseteq NetTargets
      /\ \A x \in NetTargets : x \in Found(r) <=> x \in Holds(r) /\ unicasts[x] # {}
  BY DEF Found
<1>6. Unreachable(r) <=> r.final /\ r.target \notin Found(r) /\ unicasts[r.target] # {}
  BY <1>3 DEF Unreachable, Unresolved
<1>7. /\ Answers(r) <=> r.final /\ ~Unreachable(r) /\ Ongoing(r.target)
      /\ Restarts(r) <=> r.final /\ ~Unreachable(r) /\ waiting[r.target] # {}
  BY DEF Answers, Restarts
<1> QED
  BY <1>2, <1>3, <1>4, <1>5, <1>6, <1>7

(* The unicasts it leaves. *)
LEMMA HandledUnicasts ==
  ASSUME NetInv, NEW r, Handles(r)
  PROVE  /\ unicasts' \in [NetTargets -> SUBSET Messages]
         /\ \A x \in NetTargets :
              \/ /\ x \in Found(r) \/ (Unreachable(r) /\ x = r.target)
                 /\ unicasts'[x] = {}
              \/ /\ x \notin Found(r) /\ ~(Unreachable(r) /\ x = r.target)
                 /\ unicasts'[x] = unicasts[x]
<1>1. unicasts \in [NetTargets -> SUBSET Messages]
  BY DEF NetInv, NetTypes
<1> DEFINE left == Unresolved(Found(r))
<1>2. /\ left \in [NetTargets -> SUBSET Messages]
      /\ \A x \in NetTargets : left[x] = IF x \in Found(r) THEN {} ELSE unicasts[x]
  BY <1>1 DEF Unresolved
<1>3. unicasts' = IF Unreachable(r) THEN [left EXCEPT ![r.target] = {}] ELSE left
  BY DEF Handles
<1> HIDE DEF left
<1>4. r.target \in NetTargets
  BY HandledResult
<1>5. CASE Unreachable(r)
  BY <1>2, <1>3, <1>4, <1>5
<1>6. CASE ~Unreachable(r)
  BY <1>2, <1>3, <1>6
<1> QED
  BY <1>5, <1>6

(* The multicasts it leaves. *)
LEMMA HandledMulticasts ==
  ASSUME NetInv, NEW r, Handles(r)
  PROVE  /\ multicasts' \in [NetTargets -> [count : Nat, messages : SUBSET Messages]]
         /\ waiting' \in [NetTargets -> SUBSET Messages]
         /\ \A x \in NetTargets : x # r.target => multicasts'[x] = multicasts[x] /\ waiting'[x] = waiting[x]
                                                  /\ (Ongoing(x)' <=> Ongoing(x))
         /\ Restarts(r) => /\ multicasts'[r.target].messages = waiting[r.target] /\ waiting'[r.target] = {}
                           /\ Ongoing(r.target)'
                           /\ \E count \in Nat \ {0} : AskPeer(r.target, count)
         /\ ~Restarts(r) => waiting' = waiting /\ toPeer' = toPeer
         /\ ~Restarts(r) /\ Answers(r) => multicasts'[r.target].messages = {} /\ ~Ongoing(r.target)'
         /\ ~Restarts(r) /\ ~Answers(r) => multicasts' = multicasts /\ (Ongoing(r.target)' <=> Ongoing(r.target))
<1>1. /\ multicasts \in [NetTargets -> [count : Nat, messages : SUBSET Messages]]
      /\ waiting \in [NetTargets -> SUBSET Messages] /\ r.target \in NetTargets
  BY HandledResult DEF NetInv, NetTypes
<1>2. NoQuery \in [count : Nat, messages : SUBSET Messages] /\ NoQuery.messages = {}
  BY DEF NoQuery
<1>3. CASE Restarts(r)
  <2>1. Restart(r.target)
    BY <1>3 DEF Handles
  <2>2. PICK max \in {Count(m) : m \in waiting[r.target]} :
           /\ multicasts' = [multicasts EXCEPT ![r.target] = [count |-> max, messages |-> waiting[r.target]]]
           /\ waiting' = [waiting EXCEPT ![r.target] = {}]
           /\ AskPeer(r.target, max)
    BY <2>1 DEF Restart
  <2>3. max \in Nat \ {0}
    BY <1>1, <2>2, RequestsAssumption
  <2>4. waiting[r.target] # {} /\ waiting[r.target] \subseteq Messages
    BY <1>1, <2>2
  <2> DEFINE query == [count |-> max, messages |-> waiting[r.target]]
  <2>5. query \in [count : Nat, messages : SUBSET Messages] /\ query.messages = waiting[r.target]
        /\ query # NoQuery
    BY <2>3, <2>4 DEF NoQuery
  <2>6. multicasts' = [multicasts EXCEPT ![r.target] = query]
    BY <2>2
  <2> HIDE DEF query
  <2>7. /\ multicasts' \in [NetTargets -> [count : Nat, messages : SUBSET Messages]]
        /\ multicasts'[r.target] = query
        /\ \A x \in NetTargets : x # r.target => multicasts'[x] = multicasts[x]
    BY <1>1, <2>5, <2>6
  <2>8. /\ waiting' \in [NetTargets -> SUBSET Messages] /\ waiting'[r.target] = {}
        /\ \A x \in NetTargets : x # r.target => waiting'[x] = waiting[x]
    BY <1>1, <2>2
  <2>9. Ongoing(r.target)' /\ \A x \in NetTargets : x # r.target => (Ongoing(x)' <=> Ongoing(x))
    BY <2>5, <2>7 DEF Ongoing
  <2> QED
    BY <1>3, <2>2, <2>3, <2>5, <2>7, <2>8, <2>9
<1>4. CASE ~Restarts(r) /\ Answers(r)
  <2>1. waiting' = waiting /\ toPeer' = toPeer /\ multicasts' = [multicasts EXCEPT ![r.target] = NoQuery]
    BY <1>4 DEF Handles
  <2>2. /\ multicasts' \in [NetTargets -> [count : Nat, messages : SUBSET Messages]]
        /\ multicasts'[r.target] = NoQuery
        /\ \A x \in NetTargets : x # r.target => multicasts'[x] = multicasts[x]
    BY <1>1, <1>2, <2>1
  <2>3. ~Ongoing(r.target)' /\ \A x \in NetTargets : x # r.target => (Ongoing(x)' <=> Ongoing(x))
    BY <2>2 DEF Ongoing
  <2> QED
    BY <1>1, <1>2, <1>4, <2>1, <2>2, <2>3
<1>5. CASE ~Restarts(r) /\ ~Answers(r)
  <2>1. waiting' = waiting /\ toPeer' = toPeer /\ multicasts' = multicasts
    BY <1>5 DEF Handles
  <2>2. \A x : Ongoing(x)' <=> Ongoing(x)
    BY <2>1 DEF Ongoing
  <2> QED
    BY <1>1, <1>5, <2>1, <2>2
<1> QED
  BY <1>3, <1>4, <1>5

(* The messages it resolves, answers or drops are the ones it disturbs. *)
Resolved(m, r) == \E p \in Found(r) : m \in unicasts[p]
Answered(m, r) == Answers(r) /\ m \in multicasts[r.target].messages
Dropped(m, r) == Unreachable(r) /\ m \in unicasts[r.target]

LEMMA HandledSent ==
  ASSUME NetInv, NEW r, Handles(r), NEW m \in Messages
  PROVE  /\ sentTo'[m] \in Seq(NetPeers)
         /\ Resolved(m, r) => sentTo'[m] = <<Requests[m].target>> /\ ~Answered(m, r) /\ ~Dropped(m, r)
         /\ Answered(m, r) => Distinct(sentTo'[m]) /\ Len(sentTo'[m]) <= Count(m)
         /\ ~Resolved(m, r) /\ ~Answered(m, r) => sentTo'[m] = sentTo[m]
         /\ m \in dropped' <=> m \in dropped \/ Dropped(m, r)
<1>1. sentTo \in [Messages -> Seq(NetPeers)] /\ PlacesRight
  BY DEF NetInv, NetTypes
<1>2. /\ r.target \in NetTargets /\ r.closest \in Seq(NetPeers) /\ Distinct(r.closest)
      /\ Found(r) \subseteq NetTargets /\ Found(r) \subseteq NetPeers
      /\ Unreachable(r) => r.target \notin Found(r)
      /\ Answers(r) => ~Unreachable(r)
  BY HandledResult
<1>3. sentTo'[m] = sentTo[m] \o Destinations(m, r)
  BY DEF Handles
<1>4. m \in dropped' <=> m \in dropped \/ Dropped(m, r)
  BY DEF Handles, Dropped
<1>5. CASE Resolved(m, r)
  <2>1. PICK p \in Found(r) : m \in unicasts[p]
    BY <1>5 DEF Resolved
  <2>2. Requests[m].target = p /\ sentTo[m] = <<>>
    BY <1>1, <1>2, <2>1 DEF PlacesRight, Unsent
  <2>3. Destinations(m, r) = <<p>>
    BY <2>1, <2>2 DEF Destinations
  <2>4. sentTo'[m] = <<p>> /\ p \in NetPeers
    BY <1>2, <1>3, <2>2, <2>3
  <2>5. ~Answered(m, r)
    BY <1>1, <1>2, <2>1, <2>2 DEF Answered, PlacesRight, Unsent
  <2>6. ~Dropped(m, r)
    BY <1>1, <1>2, <2>1, <2>2 DEF Dropped, PlacesRight, Unsent
  <2>7. sentTo'[m] \in Seq(NetPeers)
    BY <2>4
  <2> QED
    BY <1>4, <1>5, <2>2, <2>4, <2>5, <2>6, <2>7
<1>6. CASE ~Resolved(m, r) /\ Answered(m, r)
  <2> DEFINE k == IF Count(m) < Len(r.closest) THEN Count(m) ELSE Len(r.closest)
             part == SubSeq(r.closest, 1, k)
  <2>1. Destinations(m, r) = part
    BY <1>6 DEF Destinations, Resolved, Answered
  <2>2. sentTo[m] = <<>>
    BY <1>1, <1>2, <1>6 DEF Answered, PlacesRight, Unsent
  <2>3. Count(m) \in Nat /\ Len(r.closest) \in Nat /\ DOMAIN r.closest = 1..Len(r.closest)
    BY <1>2, RequestsAssumption
  <2>4. k \in 0..Len(r.closest) /\ k <= Count(m)
    BY <2>3
  <2> HIDE DEF k
  <2>5. part \in Seq(NetPeers) /\ Len(part) = k /\ DOMAIN part = 1..k
        /\ \A i \in 1..k : part[i] = r.closest[i]
    BY <1>2, <2>3, <2>4
  <2> HIDE DEF part
  <2>6. Distinct(part)
    BY <1>2, <2>3, <2>4, <2>5 DEF Distinct
  <2>7. sentTo'[m] = part
    BY <1>3, <2>1, <2>2, <2>5
  <2> QED
    BY <1>4, <1>6, <2>4, <2>5, <2>6, <2>7
<1>7. CASE ~Resolved(m, r) /\ ~Answered(m, r)
  <2>1. Destinations(m, r) = <<>>
    BY <1>7 DEF Destinations, Resolved, Answered
  <2>2. sentTo'[m] = sentTo[m] /\ sentTo'[m] \in Seq(NetPeers)
    BY <1>1, <1>3, <2>1
  <2> QED
    BY <1>4, <1>7, <2>2
<1> QED
  BY <1>5, <1>6, <1>7

(* A message waits on in a place it was in before, or in the query that    *)
(* the waiting ones start.                                                 *)
LEMMA HandledPlaces ==
  ASSUME NetInv, NEW r, Handles(r)
  PROVE  PlacesRight' /\ OngoingRight'
<1>1. NetTypes /\ PlacesRight /\ OngoingRight
  BY DEF NetInv
<1>2. /\ r.target \in NetTargets /\ Found(r) \subseteq NetTargets
      /\ Answers(r) => ~Unreachable(r)
      /\ Restarts(r) => waiting[r.target] # {}
  BY HandledResult
<1>3. \A x \in NetTargets :
         \/ /\ x \in Found(r) \/ (Unreachable(r) /\ x = r.target)
            /\ unicasts'[x] = {}
         \/ /\ x \notin Found(r) /\ ~(Unreachable(r) /\ x = r.target)
            /\ unicasts'[x] = unicasts[x]
  BY HandledUnicasts
<1>4. /\ \A x \in NetTargets : x # r.target => multicasts'[x] = multicasts[x] /\ waiting'[x] = waiting[x]
                                               /\ (Ongoing(x)' <=> Ongoing(x))
      /\ Restarts(r) => multicasts'[r.target].messages = waiting[r.target] /\ waiting'[r.target] = {}
      /\ ~Restarts(r) => waiting' = waiting
      /\ ~Restarts(r) /\ Answers(r) => multicasts'[r.target].messages = {} /\ ~Ongoing(r.target)'
      /\ ~Restarts(r) /\ ~Answers(r) => multicasts' = multicasts /\ (Ongoing(r.target)' <=> Ongoing(r.target))
  BY HandledMulticasts
<1>5. \A m, x : /\ Unsent(m, x) => m \in Messages /\ Requests[m].target = x
                /\ Unsent(m, x) /\ ~Resolved(m, r) /\ ~Answered(m, r) /\ ~Dropped(m, r) => Unsent(m, x)'
  <2> SUFFICES ASSUME NEW m, NEW x, Unsent(m, x)
               PROVE  /\ m \in Messages /\ Requests[m].target = x
                      /\ ~Resolved(m, r) /\ ~Answered(m, r) /\ ~Dropped(m, r) => Unsent(m, x)'
    OBVIOUS
  <2>1. m \in Messages /\ Requests[m].target = x
    BY <1>1 DEF Unsent, NetTypes
  <2>2. /\ ~Resolved(m, r) /\ ~Answered(m, r) => sentTo'[m] = sentTo[m]
        /\ m \in dropped' <=> m \in dropped \/ Dropped(m, r)
    BY <2>1, HandledSent
  <2>3. given' = given
    BY DEF Handles
  <2> QED
    BY <2>1, <2>2, <2>3 DEF Unsent
<1>6. ASSUME NEW x \in NetTargets, NEW m \in unicasts'[x]
      PROVE  m \in unicasts[x] /\ Unsent(m, x)' /\ Requests[m].kind = "unicast"
  <2>1. m \in unicasts[x] /\ x \notin Found(r) /\ ~(Unreachable(r) /\ x = r.target)
    BY <1>3, <1>6
  <2>2. Unsent(m, x) /\ Requests[m].kind = "unicast" /\ Requests[m].target = x
    BY <1>1, <1>5, <2>1 DEF PlacesRight
  <2>3. ~Resolved(m, r)
    BY <1>1, <1>2, <1>5, <2>1, <2>2 DEF Resolved, PlacesRight
  <2>4. ~Answered(m, r)
    BY <1>1, <1>2, <1>5, <2>1, <2>2 DEF Answered, PlacesRight
  <2>5. ~Dropped(m, r)
    BY <1>1, <1>2, <1>5, <2>1, <2>2 DEF Dropped, PlacesRight
  <2> QED
    BY <1>5, <2>1, <2>2, <2>3, <2>4, <2>5
<1>7. ASSUME NEW x \in NetTargets, NEW m, Requests[m].kind = "multicast", Unsent(m, x), ~Answered(m, r)
      PROVE  Unsent(m, x)'
  <2>1. \A p \in NetTargets : m \notin unicasts[p]
    BY <1>1, <1>7 DEF PlacesRight
  <2> QED
    BY <1>2, <1>5, <1>7, <2>1 DEF Resolved, Dropped
<1>8. ASSUME NEW x \in NetTargets, NEW m \in multicasts'[x].messages
      PROVE  Unsent(m, x)' /\ m \notin unicasts'[x]
  <2>1. CASE Restarts(r) /\ x = r.target
    <3>1. m \in waiting[x]
      BY <1>4, <1>8, <2>1
    <3>2. Unsent(m, x) /\ Requests[m].kind = "multicast" /\ m \notin multicasts[x].messages
      BY <1>1, <3>1 DEF PlacesRight
    <3>3. Unsent(m, x)'
      BY <1>7, <2>1, <3>2 DEF Answered
    <3> QED
      BY <1>6, <3>2, <3>3
  <2>2. CASE ~(Restarts(r) /\ x = r.target)
    <3>1. m \in multicasts[x].messages /\ ~(Answers(r) /\ x = r.target)
      BY <1>4, <1>8, <2>2
    <3>2. Unsent(m, x) /\ m \notin unicasts[x] /\ Requests[m].target = x
      BY <1>1, <1>5, <3>1 DEF PlacesRight
    <3>3. ~Resolved(m, r)
      BY <1>1, <1>2, <1>5, <3>2 DEF Resolved, PlacesRight
    <3>4. ~Answered(m, r)
      BY <1>1, <1>2, <1>5, <3>1, <3>2 DEF Answered, PlacesRight
    <3>5. ~Dropped(m, r)
      BY <1>1, <1>2, <1>5, <3>2 DEF Dropped, PlacesRight
    <3>6. m \notin unicasts'[x]
      BY <1>6, <3>2
    <3> QED
      BY <1>5, <3>2, <3>3, <3>4, <3>5, <3>6
  <2> QED
    BY <2>1, <2>2
<1>9. ASSUME NEW x \in NetTargets, NEW m \in waiting'[x]
      PROVE  Unsent(m, x)' /\ Requests[m].kind = "multicast" /\ m \notin multicasts'[x].messages
  <2>1. m \in waiting[x] /\ ~(Restarts(r) /\ x = r.target)
    BY <1>4, <1>9
  <2>2. Unsent(m, x) /\ Requests[m].kind = "multicast" /\ m \notin multicasts[x].messages
        /\ Requests[m].target = x
    BY <1>1, <1>5, <2>1 DEF PlacesRight
  <2>3. ~Answered(m, r)
    BY <1>1, <1>2, <1>5, <2>2 DEF Answered, PlacesRight
  <2>4. m \notin multicasts'[x].messages
    BY <1>4, <2>1, <2>2
  <2> QED
    BY <1>7, <2>2, <2>3, <2>4
<1>10. PlacesRight'
  BY <1>6, <1>8, <1>9 DEF PlacesRight
<1>11. OngoingRight'
  <2> SUFFICES ASSUME NEW x \in NetTargets, Ongoing(x)'
               PROVE  \E m \in multicasts'[x].messages : Requests[m].kind = "multicast"
    BY DEF OngoingRight
  <2>1. CASE Restarts(r) /\ x = r.target
    BY <1>1, <1>2, <1>4, <2>1 DEF PlacesRight
  <2>2. CASE ~(Restarts(r) /\ x = r.target)
    BY <1>1, <1>4, <2>2 DEF OngoingRight
  <2> QED
    BY <2>1, <2>2
<1> QED
  BY <1>10, <1>11

(* What was sent: nothing twice, and a unicast to its peer, unless a query *)
(* for multicasts of its target answered for it.                           *)
LEMMA HandledSentRight ==
  ASSUME NetInv, NEW r, Handles(r)
  PROVE  SentRight' /\ UnicastsRight'
<1>1. NetTypes /\ PlacesRight /\ OngoingRight /\ SentRight /\ UnicastsRight
  BY DEF NetInv
<1>2. /\ r.target \in NetTargets /\ Found(r) \subseteq NetTargets
      /\ Answers(r) => ~Unreachable(r) /\ Ongoing(r.target)
      /\ given' = given
  BY HandledResult DEF Handles
<1>3. ASSUME NEW m \in Messages
      PROVE  /\ Resolved(m, r) \/ Answered(m, r) \/ Dropped(m, r) =>
                  \E x \in NetTargets : Unsent(m, x)
             /\ Answered(m, r) => ~Dropped(m, r)
  BY <1>1, <1>2 DEF Resolved, Answered, Dropped, PlacesRight
<1>4. SentRight'
  <2> SUFFICES ASSUME NEW m \in Messages
               PROVE  /\ m \notin given' => sentTo'[m] = <<>> /\ m \notin dropped'
                      /\ Distinct(sentTo'[m]) /\ Len(sentTo'[m]) <= Count(m)
                      /\ m \in dropped' => sentTo'[m] = <<>>
    BY DEF SentRight
  <2>1. /\ sentTo'[m] \in Seq(NetPeers)
        /\ Resolved(m, r) => sentTo'[m] = <<Requests[m].target>> /\ ~Answered(m, r) /\ ~Dropped(m, r)
        /\ Answered(m, r) => Distinct(sentTo'[m]) /\ Len(sentTo'[m]) <= Count(m)
        /\ ~Resolved(m, r) /\ ~Answered(m, r) => sentTo'[m] = sentTo[m]
        /\ m \in dropped' <=> m \in dropped \/ Dropped(m, r)
    BY HandledSent
  <2>2. /\ m \notin given => sentTo[m] = <<>> /\ m \notin dropped
        /\ Distinct(sentTo[m]) /\ Len(sentTo[m]) <= Count(m)
        /\ m \in dropped => sentTo[m] = <<>>
    BY <1>1 DEF SentRight
  <2>3. Count(m) \in Nat \ {0}
    BY RequestsAssumption
  <2>4. CASE Resolved(m, r)
    <3>1. m \in given /\ m \notin dropped
      BY <1>3, <2>4 DEF Unsent
    <3>2. Distinct(sentTo'[m]) /\ Len(sentTo'[m]) <= Count(m)
      <4>1. \A v : Distinct(<<v>>) /\ Len(<<v>>) = 1
        BY DEF Distinct
      <4>2. Distinct(sentTo'[m]) /\ Len(sentTo'[m]) = 1
        BY <2>1, <2>4, <4>1
      <4> QED
        BY <2>3, <4>2
    <3> QED
      BY <1>2, <2>1, <2>4, <3>1, <3>2
  <2>5. CASE Answered(m, r)
    <3>1. m \in given /\ m \notin dropped
      BY <1>3, <2>5 DEF Unsent
    <3> QED
      BY <1>2, <1>3, <2>1, <2>5, <3>1
  <2>6. CASE ~Resolved(m, r) /\ ~Answered(m, r) /\ Dropped(m, r)
    <3>1. m \in given /\ sentTo[m] = <<>>
      BY <1>3, <2>6 DEF Unsent
    <3> QED
      BY <1>2, <2>1, <2>2, <2>6, <3>1
  <2>7. CASE ~Resolved(m, r) /\ ~Answered(m, r) /\ ~Dropped(m, r)
    BY <1>2, <2>1, <2>2, <2>7
  <2> QED
    BY <2>4, <2>5, <2>6, <2>7
<1>5. UnicastsRight'
  <2> SUFFICES ASSUME NEW m \in given, Requests[m].kind = "unicast", Requests[m].target \notin Mixed
               PROVE  \A i \in DOMAIN sentTo'[m] : sentTo'[m][i] = Requests[m].target
    <3>1. Mixed' = Mixed
      BY <1>2 DEF Mixed, Kinds
    <3> QED
      BY <1>2, <3>1 DEF UnicastsRight
  <2>1. m \in Messages /\ Requests[m].target \in NetTargets
    BY <1>1 DEF NetTypes, NetTargets
  <2>2. /\ Resolved(m, r) => sentTo'[m] = <<Requests[m].target>>
        /\ ~Resolved(m, r) /\ ~Answered(m, r) => sentTo'[m] = sentTo[m]
    BY <2>1, HandledSent
  <2>3. ~Answered(m, r)
    <3> SUFFICES ASSUME Answered(m, r) PROVE FALSE
      OBVIOUS
    <3>1. m \in multicasts[r.target].messages /\ Ongoing(r.target) /\ Requests[m].target = r.target
      BY <1>1, <1>2 DEF Answered, PlacesRight, Unsent
    <3>2. PICK n \in multicasts[r.target].messages : Requests[n].kind = "multicast"
      BY <1>1, <1>2, <3>1 DEF OngoingRight
    <3>3. n \in given /\ Requests[n].target = r.target
      BY <1>1, <1>2, <3>2 DEF PlacesRight, Unsent
    <3>4. HasKind(r.target, "multicast") /\ HasKind(r.target, "unicast")
      BY <3>1, <3>2, <3>3 DEF HasKind
    <3> QED
      BY <1>1, <1>2, <3>1, <3>4, MixedIs DEF NetTypes
  <2> QED
    BY <1>1, <2>2, <2>3 DEF UnicastsRight
<1> QED
  BY <1>4, <1>5

(* The timers of the queries. *)
Timers(kind, S) == {NetTimer(kind, x) : x \in S}

LEMMA TimersChange ==
  ASSUME NEW A, NEW B, NEW F, NEW G, NEW H
  PROVE  ((Timers("unicast", A) \cup Timers("multicast", B)) \ (Timers("unicast", F) \cup Timers("multicast", G)))
            \cup Timers("multicast", H)
         = Timers("unicast", A \ F) \cup Timers("multicast", (B \ G) \cup H)
<1>1. \A k, l, x, y : NetTimer(k, x) = NetTimer(l, y) <=> k = l /\ x = y
  BY DEF NetTimer
<1>2. \A k, S, z : z \in Timers(k, S) <=> \E x \in S : z = NetTimer(k, x)
  BY DEF Timers
<1>3. \A k, x, l, S : NetTimer(k, x) \in Timers(l, S) <=> k = l /\ x \in S
  BY <1>1, <1>2
<1> DEFINE L == ((Timers("unicast", A) \cup Timers("multicast", B))
                   \ (Timers("unicast", F) \cup Timers("multicast", G))) \cup Timers("multicast", H)
           R == Timers("unicast", A \ F) \cup Timers("multicast", (B \ G) \cup H)
<1>4. \A x : NetTimer("unicast", x) \in L <=> x \in A /\ x \notin F
  BY <1>3
<1>5. \A x : NetTimer("multicast", x) \in L <=> (x \in B /\ x \notin G) \/ x \in H
  BY <1>3
<1>6. \A x : NetTimer("unicast", x) \in R <=> x \in A /\ x \notin F
  BY <1>3
<1>7. \A x : NetTimer("multicast", x) \in R <=> (x \in B /\ x \notin G) \/ x \in H
  BY <1>3
<1>8. \A z : z \in L \/ z \in R => \E x : z = NetTimer("unicast", x) \/ z = NetTimer("multicast", x)
  BY <1>2
<1> HIDE DEF L, R
<1>9. \A z : z \in L <=> z \in R
  BY <1>4, <1>5, <1>6, <1>7, <1>8
<1> QED
  BY <1>9 DEF L, R

(* A unicast that waits on was not found, so its peer is not cached. *)
LEMMA HandledTimers ==
  ASSUME NetInv, NEW r, Handles(r)
  PROVE  TimersExact'
<1>1. NetTypes /\ TimersExact
  BY DEF NetInv
<1>2. /\ r.target \in NetTargets /\ Found(r) \subseteq Holds(r) /\ Holds(r) \subseteq NetPeers
      /\ \A x \in NetTargets : x \in Found(r) <=> x \in Holds(r) /\ unicasts[x] # {}
  BY HandledResult
<1>3. \A x \in NetTargets :
         \/ /\ x \in Found(r) \/ (Unreachable(r) /\ x = r.target)
            /\ unicasts'[x] = {}
         \/ /\ x \notin Found(r) /\ ~(Unreachable(r) /\ x = r.target)
            /\ unicasts'[x] = unicasts[x]
  BY HandledUnicasts
<1>4. /\ \A x \in NetTargets : x # r.target => (Ongoing(x)' <=> Ongoing(x))
      /\ Restarts(r) => Ongoing(r.target)'
      /\ ~Restarts(r) /\ Answers(r) => ~Ongoing(r.target)'
      /\ ~Restarts(r) /\ ~Answers(r) => (Ongoing(r.target)' <=> Ongoing(r.target))
  BY HandledMulticasts
<1>5. addrs' \subseteq addrs \cup Holds(r)
  <2> DEFINE peers == IF Answers(r) THEN Holds(r) ELSE Found(r)
  <2>1. peers \in SUBSET NetPeers /\ peers \subseteq Holds(r) /\ addrs \subseteq NetPeers
    BY <1>1, <1>2 DEF NetTypes
  <2>2. addrs' \in Pushed(addrs, peers)
    BY DEF Handles
  <2> HIDE DEF peers
  <2>3. addrs' \subseteq addrs \cup peers
    BY <2>1, <2>2, PushedRight
  <2> QED
    BY <2>1, <2>3
<1>6. \A x \in NetTargets : unicasts'[x] # {} => x \notin addrs'
  BY <1>1, <1>2, <1>3, <1>5 DEF TimersExact
<1> DEFINE A == {x \in NetTargets : unicasts[x] # {}}
           B == {x \in NetTargets : Ongoing(x)}
           F == Found(r) \cup (IF Unreachable(r) THEN {r.target} ELSE {})
           G == IF Answers(r) THEN {r.target} ELSE {}
           H == IF Restarts(r) THEN {r.target} ELSE {}
<1>7. netTimers = Timers("unicast", A) \cup Timers("multicast", B)
  BY <1>1 DEF TimersExact, Timers
<1>8. Stopped(r) = Timers("unicast", F) \cup Timers("multicast", G)
  BY DEF Stopped, Timers
<1>9. netTimers' = (netTimers \ Stopped(r)) \cup Timers("multicast", H)
  BY DEF Handles, Timers
<1>10. {x \in NetTargets : unicasts'[x] # {}} = A \ F
  BY <1>3
<1>11. {x \in NetTargets : Ongoing(x)'} = (B \ G) \cup H
  BY <1>2, <1>4
<1> HIDE DEF A, B, F, G, H
<1>12. netTimers' = Timers("unicast", A \ F) \cup Timers("multicast", (B \ G) \cup H)
  BY <1>7, <1>8, <1>9, TimersChange
<1> QED
  BY <1>6, <1>10, <1>11, <1>12 DEF TimersExact, Timers

(* Where queries are once the result r is handled. *)
LEMMA HandledQueries ==
  ASSUME NetInv, NEW r, Handles(r)
  PROVE  /\ r.final => Ending(r.target)
         /\ \A x : x # r.target \/ ~r.final => (Ending(x)' <=> Ending(x))
         /\ \A x : Ending(x)' => Ending(x)
         /\ \A x : Asked(x) => Asked(x)'
         /\ Restarts(r) => Asked(r.target)'
         /\ \A x : x # r.target \/ ~Restarts(r) => (Asked(x)' <=> Asked(x))
         /\ toPeer' \in Seq(Queries) /\ lookups' = lookups
<1>1. /\ r.target \in NetTargets /\ toControl' \in Seq(Results)
      /\ DOMAIN toControl' = 1..Len(toControl) - 1 /\ DOMAIN toControl = 1..Len(toControl)
      /\ Len(toControl) \in Nat \ {0} /\ \A i \in 1..Len(toControl) - 1 : toControl'[i] = toControl[i + 1]
      /\ r = toControl[1]
  BY HandledResult
<1>2. r.final => Ending(r.target)
  BY <1>1 DEF Ending
<1>3. \A x : Ending(x)' => Ending(x)
  <2> SUFFICES ASSUME NEW x, NEW i \in DOMAIN toControl', toControl'[i].target = x, toControl'[i].final
               PROVE  Ending(x)
    BY DEF Ending
  <2>1. i + 1 \in DOMAIN toControl /\ toControl[i + 1].target = x /\ toControl[i + 1].final
    BY <1>1
  <2> QED
    BY <2>1 DEF Ending
<1>4. \A x : x # r.target \/ ~r.final => (Ending(x) => Ending(x)')
  <2> SUFFICES ASSUME NEW x, x # r.target \/ ~r.final,
                      NEW i \in DOMAIN toControl, toControl[i].target = x, toControl[i].final
               PROVE  Ending(x)'
    BY DEF Ending
  <2>1. i # 1
    BY <1>1
  <2>2. i - 1 \in DOMAIN toControl' /\ toControl'[i - 1] = toControl[i]
    BY <1>1, <2>1
  <2> QED
    BY <2>2 DEF Ending
<1>5. toPeer \in Seq(Queries) /\ lookups' = lookups
  BY DEF NetInv, NetTypes, Handles
<1>6. /\ toPeer' \in Seq(Queries)
      /\ \A x : Asked(x) => Asked(x)'
      /\ Restarts(r) => Asked(r.target)'
      /\ \A x : x # r.target \/ ~Restarts(r) => (Asked(x)' <=> Asked(x))
  <2>1. CASE Restarts(r)
    <3>1. PICK count \in Nat \ {0} : AskPeer(r.target, count)
      BY <2>1, HandledMulticasts
    <3> DEFINE q == [target |-> r.target, count |-> count]
    <3>2. q \in Queries /\ q.target = r.target /\ toPeer' = Append(toPeer, q)
      BY <1>1, <3>1 DEF Queries, AskPeer
    <3> HIDE DEF q
    <3>3. /\ toPeer' \in Seq(Queries) /\ DOMAIN toPeer' = 1..Len(toPeer) + 1
          /\ DOMAIN toPeer = 1..Len(toPeer) /\ Len(toPeer) \in Nat
          /\ \A i \in 1..Len(toPeer) : toPeer'[i] = toPeer[i]
          /\ toPeer'[Len(toPeer) + 1] = q
      BY <1>5, <3>2, AppendAt
    <3>4. \A x : Asked(x) => Asked(x)'
      BY <3>3 DEF Asked
    <3>5. Asked(r.target)'
      <4>1. Len(toPeer) + 1 \in DOMAIN toPeer'
        BY <3>3
      <4> QED
        BY <3>2, <3>3, <4>1 DEF Asked
    <3>6. ASSUME NEW x, x # r.target, NEW i \in DOMAIN toPeer', toPeer'[i].target = x PROVE Asked(x)
      <4>1. i # Len(toPeer) + 1
        BY <3>2, <3>3, <3>6
      <4>2. i \in DOMAIN toPeer /\ toPeer[i].target = x
        BY <3>3, <3>6, <4>1
      <4> QED
        BY <4>2 DEF Asked
    <3>7. \A x : x # r.target => (Asked(x)' => Asked(x))
      BY <3>6 DEF Asked
    <3> QED
      BY <2>1, <3>3, <3>4, <3>5, <3>7
  <2>2. CASE ~Restarts(r)
    <3>1. toPeer' = toPeer
      BY <2>2, HandledMulticasts
    <3> QED
      BY <1>5, <2>2, <3>1 DEF Asked
  <2> QED
    BY <2>1, <2>2
<1> QED
  BY <1>2, <1>3, <1>4, <1>5, <1>6

(* A final result ends what waits for a query of its target, unless the    *)
(* target is mixed.                                                        *)
LEMMA HandledForgotten ==
  ASSUME NetInv, NEW r, Handles(r)
  PROVE  NoneForgotten'
<1>1. NetTypes /\ PlacesRight /\ OngoingRight /\ NoneForgotten
  BY DEF NetInv
<1>2. /\ r.target \in NetTargets
      /\ Unreachable(r) <=> r.final /\ r.target \notin Found(r) /\ unicasts[r.target] # {}
      /\ Answers(r) <=> r.final /\ ~Unreachable(r) /\ Ongoing(r.target)
      /\ Restarts(r) <=> r.final /\ ~Unreachable(r) /\ waiting[r.target] # {}
  BY HandledResult
<1>3. \A x \in NetTargets :
         \/ /\ x \in Found(r) \/ (Unreachable(r) /\ x = r.target)
            /\ unicasts'[x] = {}
         \/ /\ x \notin Found(r) /\ ~(Unreachable(r) /\ x = r.target)
            /\ unicasts'[x] = unicasts[x]
  BY HandledUnicasts
<1>4. /\ \A x \in NetTargets : x # r.target => waiting'[x] = waiting[x] /\ (Ongoing(x)' <=> Ongoing(x))
      /\ ~Restarts(r) => waiting' = waiting
      /\ ~Restarts(r) /\ Answers(r) => ~Ongoing(r.target)'
      /\ ~Restarts(r) /\ ~Answers(r) => (Ongoing(r.target)' <=> Ongoing(r.target))
  BY HandledMulticasts
<1>5. /\ \A x : x # r.target \/ ~r.final => (Ending(x)' <=> Ending(x))
      /\ \A x : Asked(x) => Asked(x)'
      /\ Restarts(r) => Asked(r.target)'
      /\ lookups' = lookups
  BY HandledQueries
<1>6. Mixed' = Mixed /\ ended = "no"
  BY DEF Handles, Mixed, Kinds
<1> SUFFICES ASSUME NEW x \in NetTargets, x \notin Mixed,
                    (unicasts[x] # {} \/ Ongoing(x) \/ waiting[x] # {})'
             PROVE  lookups[x] # 0 \/ Asked(x)' \/ Ending(x)'
  BY <1>5, <1>6 DEF NoneForgotten, Asked, Ending
<1>7. CASE Restarts(r) /\ x = r.target
  BY <1>5, <1>7
<1>8. CASE ~(Restarts(r) /\ x = r.target)
  <2>1. unicasts[x] # {} \/ Ongoing(x) \/ waiting[x] # {}
    BY <1>3, <1>4, <1>8
  <2>2. lookups[x] # 0 \/ Asked(x) \/ Ending(x)
    BY <1>1, <1>6, <2>1 DEF NoneForgotten, Asked, Ending
  <2>3. x # r.target \/ ~r.final
    <3> SUFFICES ASSUME x = r.target, r.final PROVE FALSE
      OBVIOUS
    <3>1. CASE Unreachable(r)
      <4>1. unicasts'[x] = {} /\ unicasts[x] # {}
        BY <1>2, <1>3, <3>1
      <4>2. PICK m \in unicasts[x] : TRUE
        BY <4>1
      <4>3. m \in given /\ Requests[m].target = x /\ Requests[m].kind = "unicast"
        BY <1>1, <4>2 DEF PlacesRight, Unsent
      <4>4. ~HasKind(x, "multicast")
        BY <1>1, <4>3, MixedIs DEF HasKind, NetTypes
      <4>5. waiting[x] = {}
        BY <1>1, <4>4 DEF PlacesRight, Unsent, HasKind
      <4>6. ~Ongoing(x)
        BY <1>1, <4>4 DEF PlacesRight, OngoingRight, Unsent, HasKind
      <4>7. ~Restarts(r) /\ ~Answers(r)
        BY <1>2, <3>1
      <4> QED
        BY <1>4, <4>1, <4>5, <4>6, <4>7
    <3>2. CASE ~Unreachable(r)
      <4>1. unicasts'[x] = {}
        BY <1>2, <1>3, <3>2
      <4>2. waiting[x] = {}
        BY <1>2, <1>8, <3>2
      <4>3. ~Ongoing(x)'
        BY <1>2, <1>4, <1>8, <3>2
      <4> QED
        BY <1>4, <1>8, <4>1, <4>2, <4>3
    <3> QED
      BY <3>1, <3>2
  <2> QED
    BY <1>5, <2>2, <2>3
<1> QED
  BY <1>7, <1>8

(* A query ends with its final result, and what a result of another one    *)
(* resolves is cached.                                                     *)
LEMMA HandledApart ==
  ASSUME NetInv, NEW r, Handles(r)
  PROVE  ApartInv'
<1>1. NetTypes /\ PlacesRight /\ ApartInv
  BY DEF NetInv
<1>2. /\ r.target \in NetTargets /\ Found(r) \subseteq Holds(r) /\ Holds(r) \subseteq NetPeers
      /\ DOMAIN toControl' = 1..Len(toControl) - 1 /\ DOMAIN toControl = 1..Len(toControl)
      /\ Len(toControl) \in Nat \ {0} /\ \A i \in 1..Len(toControl) - 1 : toControl'[i] = toControl[i + 1]
      /\ r = toControl[1]
      /\ Unreachable(r) => r.final
      /\ Answers(r) => r.final
      /\ Restarts(r) => r.final /\ waiting[r.target] # {}
  BY HandledResult
<1>3. \A x \in NetTargets :
         \/ /\ x \in Found(r) \/ (Unreachable(r) /\ x = r.target)
            /\ unicasts'[x] = {}
         \/ /\ x \notin Found(r) /\ ~(Unreachable(r) /\ x = r.target)
            /\ unicasts'[x] = unicasts[x]
  BY HandledUnicasts
<1>4. /\ \A x \in NetTargets : x # r.target => (Ongoing(x)' <=> Ongoing(x))
      /\ Restarts(r) => Ongoing(r.target)' /\ \E count \in Nat \ {0} : AskPeer(r.target, count)
      /\ ~Restarts(r) => toPeer' = toPeer
      /\ ~Restarts(r) /\ ~Answers(r) => (Ongoing(r.target)' <=> Ongoing(r.target))
  BY HandledMulticasts
<1>5. /\ r.final => Ending(r.target)
      /\ \A x : x # r.target \/ ~r.final => (Ending(x)' <=> Ending(x))
      /\ \A x : Ending(x)' => Ending(x)
      /\ \A x : x # r.target \/ ~Restarts(r) => (Asked(x)' <=> Asked(x))
      /\ lookups' = lookups
  BY HandledQueries
<1>6. /\ Mixed' = Mixed /\ ended' = ended
      /\ \A x, k : HasKind(x, k)' <=> HasKind(x, k)
  BY DEF Handles, Mixed, Kinds, HasKind
<1>7. Roomy => addrs \cup Found(r) \subseteq addrs'
  <2> DEFINE peers == IF Answers(r) THEN Holds(r) ELSE Found(r)
  <2>1. peers \in SUBSET NetPeers /\ Found(r) \subseteq peers /\ addrs \subseteq NetPeers
    BY <1>1, <1>2 DEF NetTypes
  <2>2. addrs' \in Pushed(addrs, peers)
    BY DEF Handles
  <2> HIDE DEF peers
  <2>3. Roomy => addrs' = addrs \cup peers
    BY <2>1, <2>2, PushedRight
  <2> QED
    BY <2>1, <2>3
<1>8. ASSUME Roomy, NEW x \in NetTargets, x \notin Mixed PROVE OnePlace(x)'
  <2>1. OnePlace(x)
    BY <1>1, <1>8 DEF ApartInv
  <2>2. \A i, j \in DOMAIN toControl' :
           toControl'[i].target = x /\ toControl'[i].final /\ toControl'[j].target = x /\ toControl'[j].final
             => i = j
    <3> SUFFICES ASSUME NEW i \in DOMAIN toControl', NEW j \in DOMAIN toControl',
                        toControl'[i].target = x, toControl'[i].final,
                        toControl'[j].target = x, toControl'[j].final
                 PROVE  i = j
      OBVIOUS
    <3>1. /\ i + 1 \in DOMAIN toControl /\ toControl[i + 1].target = x /\ toControl[i + 1].final
          /\ j + 1 \in DOMAIN toControl /\ toControl[j + 1].target = x /\ toControl[j + 1].final
      BY <1>2
    <3>2. i + 1 = j + 1
      BY <2>1, <3>1 DEF OnePlace
    <3> QED
      BY <1>2, <3>2
  <2>3. CASE x = r.target /\ r.final
    <3>1. Ending(x) /\ ~Asked(x) /\ lookups[x] = 0
      BY <1>5, <2>1, <2>3 DEF OnePlace
    <3>2. ~Ending(x)'
      <4> SUFFICES ASSUME NEW i \in DOMAIN toControl', toControl'[i].target = x, toControl'[i].final
                   PROVE  FALSE
        BY DEF Ending
      <4>1. i + 1 \in DOMAIN toControl /\ toControl[i + 1].target = x /\ toControl[i + 1].final
            /\ 1 \in DOMAIN toControl /\ toControl[1].target = x /\ toControl[1].final
        BY <1>2, <2>3
      <4>2. i + 1 = 1
        BY <2>1, <4>1 DEF OnePlace
      <4> QED
        BY <1>2, <4>2
    <3>3. CASE Restarts(r)
      <4>1. PICK m \in waiting[x] : TRUE
        BY <1>2, <2>3, <3>3
      <4>2. HasKind(x, "multicast")
        BY <1>1, <4>1 DEF PlacesRight, Unsent, HasKind
      <4>3. PICK count \in Nat \ {0} : AskPeer(x, count)
        BY <1>4, <2>3, <3>3
      <4> DEFINE q == [target |-> x, count |-> count]
      <4>4. q \in Queries /\ toPeer' = Append(toPeer, q) /\ toPeer \in Seq(Queries)
        BY <1>1, <4>3 DEF AskPeer, Queries, NetTypes
      <4> HIDE DEF q
      <4>5. /\ DOMAIN toPeer' = 1..Len(toPeer) + 1 /\ DOMAIN toPeer = 1..Len(toPeer) /\ Len(toPeer) \in Nat
            /\ \A i \in 1..Len(toPeer) : toPeer'[i] = toPeer[i]
        BY <4>4, AppendAt
      <4>6. \A i \in DOMAIN toPeer : toPeer[i].target # x
        BY <3>1 DEF Asked
      <4>7. \A i \in DOMAIN toPeer' : toPeer'[i].target = x => i = Len(toPeer) + 1
        BY <4>5, <4>6
      <4> QED
        BY <1>4, <1>5, <1>6, <2>2, <2>3, <3>1, <3>2, <3>3, <4>2, <4>7 DEF OnePlace
    <3>4. CASE ~Restarts(r)
      <4>1. ~Asked(x)' /\ toPeer' = toPeer
        BY <1>4, <1>5, <3>1, <3>4
      <4> QED
        BY <1>5, <2>1, <2>2, <3>1, <3>2, <4>1 DEF OnePlace
    <3> QED
      BY <3>3, <3>4
  <2>4. CASE ~(x = r.target /\ r.final)
    <3>1. (Asked(x)' <=> Asked(x)) /\ (Ending(x)' <=> Ending(x)) /\ (Ongoing(x)' <=> Ongoing(x))
      BY <1>2, <1>4, <1>5, <2>4
    <3>2. unicasts[x] # {} \/ x \in addrs => unicasts'[x] # {} \/ x \in addrs'
      BY <1>2, <1>3, <1>7, <1>8, <2>4
    <3>3. \A i, j \in DOMAIN toPeer' : toPeer'[i].target = x /\ toPeer'[j].target = x => i = j
      <4>1. CASE Restarts(r)
        <5>1. x # r.target
          BY <1>2, <2>4, <4>1
        <5>2. PICK count \in Nat \ {0} : AskPeer(r.target, count)
          BY <1>4, <4>1
        <5> DEFINE q == [target |-> r.target, count |-> count]
        <5>3. q \in Queries /\ q.target = r.target /\ toPeer' = Append(toPeer, q) /\ toPeer \in Seq(Queries)
          BY <1>1, <1>2, <5>2 DEF AskPeer, Queries, NetTypes
        <5> HIDE DEF q
        <5>4. /\ DOMAIN toPeer' = 1..Len(toPeer) + 1 /\ DOMAIN toPeer = 1..Len(toPeer) /\ Len(toPeer) \in Nat
              /\ \A i \in 1..Len(toPeer) : toPeer'[i] = toPeer[i]
              /\ toPeer'[Len(toPeer) + 1] = q
          BY <5>3, AppendAt
        <5>5. \A i \in DOMAIN toPeer' : toPeer'[i].target = x => i \in DOMAIN toPeer /\ toPeer[i].target = x
          <6> SUFFICES ASSUME NEW i \in DOMAIN toPeer', toPeer'[i].target = x
                       PROVE  i \in DOMAIN toPeer /\ toPeer[i].target = x
            OBVIOUS
          <6>1. i # Len(toPeer) + 1
            BY <5>1, <5>3, <5>4
          <6> QED
            BY <5>4, <6>1
        <5> QED
          BY <2>1, <5>5 DEF OnePlace
      <4>2. CASE ~Restarts(r)
        BY <1>4, <2>1, <4>2 DEF OnePlace
      <4> QED
        BY <4>1, <4>2
    <3> QED
      BY <1>5, <1>6, <2>1, <2>2, <3>1, <3>2, <3>3 DEF OnePlace
  <2> QED
    BY <2>3, <2>4
<1> QED
  BY <1>1, <1>6, <1>8 DEF ApartInv

LEMMA ResultRight ==
  ASSUME NetInv, OnQueryResult
  PROVE  NetInv'
<1>1. PICK r : Handles(r)
  BY HandledHead
<1>2. PlacesRight' /\ OngoingRight' /\ SentRight' /\ UnicastsRight' /\ TimersExact' /\ NoneForgotten' /\ ApartInv'
  BY <1>1, HandledPlaces, HandledSentRight, HandledTimers, HandledForgotten, HandledApart
<1>3. NetTypes'
  <2>1. NetTypes
    BY DEF NetInv
  <2>2. unicasts' \in [NetTargets -> SUBSET Messages]
    BY <1>1, HandledUnicasts
  <2>3. /\ multicasts' \in [NetTargets -> [count : Nat, messages : SUBSET Messages]]
        /\ waiting' \in [NetTargets -> SUBSET Messages]
    BY <1>1, HandledMulticasts
  <2>4. toPeer' \in Seq(Queries) /\ lookups' = lookups
    BY <1>1, HandledQueries
  <2>5. /\ toControl' \in Seq(Results) /\ r.target \in NetTargets
        /\ Found(r) \subseteq Holds(r) /\ Holds(r) \subseteq NetPeers
    BY <1>1, HandledResult
  <2>6. given' = given /\ sentTo' = [m \in Messages |-> sentTo[m] \o Destinations(m, r)]
    BY <1>1 DEF Handles
  <2>7. \A m \in Messages : sentTo'[m] \in Seq(NetPeers)
    BY <1>1, HandledSent
  <2>8. sentTo' \in [Messages -> Seq(NetPeers)]
    BY <2>6, <2>7
  <2>9. dropped' \subseteq Messages
    <3>1. dropped' = IF Unreachable(r) THEN dropped \cup unicasts[r.target] ELSE dropped
      BY <1>1 DEF Handles
    <3> QED
      BY <2>1, <2>5, <3>1 DEF NetTypes
  <2>10. addrs' \subseteq NetPeers
    <3> DEFINE peers == IF Answers(r) THEN Holds(r) ELSE Found(r)
    <3>1. peers \in SUBSET NetPeers /\ addrs \subseteq NetPeers
      BY <2>1, <2>5 DEF NetTypes
    <3>2. addrs' \in Pushed(addrs, peers)
      BY <1>1 DEF Handles
    <3> HIDE DEF peers
    <3>3. addrs' \subseteq addrs \cup peers
      BY <3>1, <3>2, PushedRight
    <3> QED
      BY <3>1, <3>3
  <2> QED
    BY <2>1, <2>2, <2>3, <2>4, <2>5, <2>6, <2>8, <2>9, <2>10 DEF NetTypes
<1> QED
  BY <1>2, <1>3 DEF NetInv

-----------------------------------------------------------------------------
LEMMA NetStep == NetInv /\ [NetNext]_netVars => NetInv'
<1> SUFFICES ASSUME NetInv, [NetNext]_netVars PROVE NetInv'
  OBVIOUS
<1>1. CASE PeerStart
  BY <1>1, PeerStartRight
<1>2. CASE OnQueryResult
  BY <1>2, ResultRight
<1>3. ASSUME NEW t \in NetTargets, PeerFinish(t) PROVE NetInv'
  BY <1>3, FinishRight
<1>4. ASSUME NEW m \in Messages, Unicast(m) PROVE NetInv'
  BY <1>4, UnicastRight
<1>5. ASSUME NEW m \in Messages, Multicast(m) PROVE NetInv'
  BY <1>5, MulticastRight
<1>6. ASSUME NEW t \in NetTargets, PeerProgress(t) PROVE NetInv'
  BY <1>6, ProgressRight
<1>7. ASSUME NEW timer \in netTimers, QueryTimeout(timer) PROVE NetInv'
  BY <1>7, TimeoutRight
<1>8. CASE UNCHANGED netVars
  BY <1>8, StutterRight
<1> QED
  BY <1>1, <1>2, <1>3, <1>4, <1>5, <1>6, <1>7, <1>8 DEF NetNext, NetWork

LEMMA NetInvariance == NetSpec => []NetInv
<1>1. NetInit => NetInv
  BY InitRight
<1>2. NetInv /\ [NetNext]_netVars => NetInv'
  BY NetStep
<1> QED
  BY <1>1, <1>2, PTL DEF NetSpec

(* A message waits in one place at most: of the target it is for, and      *)
(* there among the unicasts, the multicasts or the waiting ones.           *)
LEMMA OneOfPlaces ==
  ASSUME NetInv, NEW m \in Messages
  PROVE  /\ Cardinality(Places(m)) <= IF m \in given THEN 1 ELSE 0
         /\ Places(m) # {} => sentTo[m] = <<>> /\ m \notin dropped
<1>1. PlacesRight
  BY DEF NetInv
<1> DEFINE t == Requests[m].target
<1>2. ASSUME NEW p \in Places(m)
      PROVE  /\ m \in given /\ sentTo[m] = <<>> /\ m \notin dropped
             /\ \/ p = <<"unicast", t>> /\ t \in NetTargets /\ m \in unicasts[t]
                \/ p = <<"multicast", t>> /\ t \in NetTargets /\ m \in multicasts[t].messages
                \/ p = <<"waiting", t>> /\ t \in NetTargets /\ m \in waiting[t]
  <2>1. CASE \E x \in NetTargets : m \in unicasts[x] /\ p = <<"unicast", x>>
    BY <1>1, <2>1 DEF PlacesRight, Unsent
  <2>2. CASE \E x \in NetTargets : m \in multicasts[x].messages /\ p = <<"multicast", x>>
    BY <1>1, <2>2 DEF PlacesRight, Unsent
  <2>3. CASE \E x \in NetTargets : m \in waiting[x] /\ p = <<"waiting", x>>
    BY <1>1, <2>3 DEF PlacesRight, Unsent
  <2> QED
    BY <2>1, <2>2, <2>3 DEF Places
<1>3. ASSUME NEW p \in Places(m), NEW q \in Places(m) PROVE p = q
  <2>1. t \in NetTargets => ~(m \in unicasts[t] /\ m \in multicasts[t].messages)
                         /\ ~(m \in unicasts[t] /\ m \in waiting[t])
                         /\ ~(m \in multicasts[t].messages /\ m \in waiting[t])
    BY <1>1 DEF PlacesRight
  <2> HIDE DEF t
  <2> QED
    BY <1>2, <1>3, <2>1
<1>4. CASE Places(m) = {}
  <2>1. Cardinality(Places(m)) = 0
    BY <1>4, FS_EmptySet
  <2> QED
    BY <1>4, <2>1
<1>5. CASE Places(m) # {}
  <2>1. PICK p \in Places(m) : TRUE
    BY <1>5
  <2>2. Places(m) = {p}
    BY <1>3, <2>1
  <2>3. Cardinality(Places(m)) = 1
    BY <2>2, FS_Singleton
  <2> QED
    BY <1>2, <2>1, <2>3
<1> QED
  BY <1>4, <1>5

(* Every message that was given waits in one place, or was sent, to no     *)
(* peer twice and no more of them than it was meant for, or was dropped    *)
(* (net/kademlia.rs 122-243).                                              *)
THEOREM SendsOnce == NetSpec => []SentOnce
<1>1. NetInv => SentOnce
  <2> SUFFICES ASSUME NetInv, NEW m \in Messages
               PROVE  /\ Cardinality(Places(m)) <= IF m \in given THEN 1 ELSE 0
                      /\ Places(m) # {} => sentTo[m] = <<>> /\ m \notin dropped
                      /\ Seqs!IsInjective(sentTo[m]) /\ Len(sentTo[m]) <= Count(m)
                      /\ m \in dropped => sentTo[m] = <<>>
    BY DEF SentOnce
  <2>1. Distinct(sentTo[m]) /\ Len(sentTo[m]) <= Count(m) /\ (m \in dropped => sentTo[m] = <<>>)
    BY DEF NetInv, SentRight
  <2>2. Seqs!IsInjective(sentTo[m])
    BY <2>1 DEF Seqs!IsInjective, Distinct
  <2> QED
    BY <2>1, <2>2, OneOfPlaces
<1> QED
  BY <1>1, NetInvariance, PTL

(* A timer is set for every query that goes on and for no other, what      *)
(* waits for a query has one, and a target is never asked for twice (the   *)
(* assertions at net/kademlia.rs 203, 226 and 227).                        *)
THEOREM KeepsLookups == NetSpec => []LookupsRight
<1>1. NetInv => LookupsRight
  <2> SUFFICES ASSUME NetInv PROVE LookupsRight
    OBVIOUS
  <2>1. TimersExact /\ NoneForgotten /\ ApartInv /\ UnicastsRight /\ NetTypes
    BY DEF NetInv
  <2>2. ASSUME Mixed = {}, NEW m \in given, Requests[m].kind = "unicast"
        PROVE  Seqs!ToSet(sentTo[m]) \subseteq {Requests[m].target}
    BY <2>1, <2>2 DEF UnicastsRight, Seqs!ToSet
  <2>3. QueriesApart
    BY <2>1, <2>2 DEF QueriesApart, ApartInv, Roomy
  <2> QED
    BY <2>1, <2>3 DEF LookupsRight
<1> QED
  BY <1>1, NetInvariance, PTL
=============================================================================
