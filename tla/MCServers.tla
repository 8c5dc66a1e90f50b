----------------------------- MODULE MCServers -----------------------------
(* Instances for TLC of the two benchmark deployments and of the TCP net,  *)
(* each on its own in a third of the initial states.  EntropyServer: one   *)
(* put and one get of two chunks of three, on two servers.                 *)
(* ReplicationServer: two rounds with two replicas and three close loops.  *)
(* Dispatch: two nodes that send to each other.                            *)
EXTENDS EntropyServer, ReplicationServer, Dispatch

CONSTANTS s, t

VARIABLE part

allVars == <<serverVars, replVars, dispatchVars, part>>

MCUrl == [y \in Calls |-> IF y[3] = 2 THEN t ELSE s]
MCMessages == <<<<"a", "b">>, <<"b", "a">>, <<"a", "b">>>>

MCInit ==
    part \in {"entropy", "replication", "net"} /\ ServerInit /\ ReplInit /\ DispatchInit

MCNext ==
    \/ part = "entropy" /\ ServerNext /\ UNCHANGED <<replVars, dispatchVars, part>>
    \/ part = "replication" /\ ReplNext /\ UNCHANGED <<serverVars, dispatchVars, part>>
    \/ part = "net" /\ DispatchNext /\ UNCHANGED <<serverVars, replVars, part>>

MCSpec ==
    /\ MCInit /\ [][MCNext]_allVars
    /\ WF_allVars(part = "entropy" /\ ServerWork /\ UNCHANGED <<replVars, dispatchVars, part>>)
    /\ WF_allVars(part = "entropy" /\ ControlWork /\ UNCHANGED <<replVars, dispatchVars, part>>)
    /\ WF_allVars(part = "replication" /\ ReplWork /\ UNCHANGED <<serverVars, dispatchVars, part>>)
    /\ WF_allVars(part = "net" /\ DispatchWork /\ UNCHANGED <<serverVars, replVars, part>>)
=============================================================================
