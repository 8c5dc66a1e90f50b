----------------------------- MODULE MCKademlia -----------------------------
(* Instances for TLC of the two halves of the peer-to-peer net, each on    *)
(* its own in half of the initial states.  Kademlia: a seed and two peers  *)
(* that join at the same time, one of them with two buckets to refresh.    *)
(* PeerNet: two unicasts and a multicast to peer "a", and two multicasts   *)
(* of different counts to "x", which is no peer.                           *)
EXTENDS Kademlia, PeerNet, TLC

VARIABLE part

allVars == <<vars, netVars, part>>

(* The peers are 000, 010 and 100. *)
MCPeers == {{}, {1}, {2}}
MCSeeds == {} :> {} @@ {1} :> {{}} @@ {2} :> {{}}
MCMaxAsked == {} :> 1 @@ {1} :> 2 @@ {2} :> 0
MCLookups == {<<{1}, {2}, 1>>, <<{}, {1}, 4>>}

Request(kind, target, count) == [kind |-> kind, target |-> target, count |-> count]
MCRequests == <<Request("unicast", "a", 1), Request("unicast", "a", 1), Request("multicast", "a", 2),
                Request("multicast", "x", 1), Request("multicast", "x", 2)>>
MCRank == "a" :> ("a" :> 0 @@ "b" :> 1) @@ "x" :> ("b" :> 0 @@ "a" :> 1)

MCInit == part \in {"kademlia", "net"} /\ Init /\ NetInit

MCNext ==
    \/ part = "kademlia" /\ Next /\ UNCHANGED <<netVars, part>>
    \/ part = "net" /\ NetNext /\ UNCHANGED <<vars, part>>

MCSpec ==
    /\ MCInit /\ [][MCNext]_allVars
    /\ <>[](part = "kademlia" /\ CanProceed) =>
          []<><<part = "kademlia" /\ Proceeds /\ UNCHANGED <<netVars, part>>>>_allVars

(* AllAnswered of module Kademlia, where it is Kademlia that runs: every   *)
(* query of a peer that lives is answered in the end, whatever is lost.    *)
QueriesEnd == part = "kademlia" => AllAnswered
=============================================================================
