------------------------------- MODULE MCPbft -------------------------------
(* Instances of Pbft with four replicas, at most one of them faulty.       *)
EXTENDS Pbft, TLC

CONSTANTS p0, b1, b2, b3

Symmetry == Permutations({b1, b2}) \cup Permutations(Clients)
ClientSymmetry == Permutations(Clients)

(***************************************************************************)
(* A schedule with a straggler: b1 handles messages only when nobody else  *)
(* has something to do, and the others take turns.  Its behaviours are     *)
(* behaviours of Spec, few enough to let all four replicas run.            *)
(***************************************************************************)
Quiet(r) == replica[r].tasks = {} /\ \A e \in toReplica : e.dst # r

Ahead(r) ==
    CASE r = p0 -> {}
      [] r = b2 -> {p0}
      [] r = b3 -> {p0, b2}
      [] r = b1 -> {p0, b2, b3}

StragglerNext ==
    \/ \E c \in Clients : ClientInvoke(c) \/ RecvReply(c)
    \/ \E r \in Alive : (\A q \in Ahead(r) : Quiet(q)) /\ (Recv(r) \/ Crypto(r))

StragglerSpec == Init /\ [][StragglerNext]_vars
=============================================================================
