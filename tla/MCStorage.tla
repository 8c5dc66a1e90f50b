----------------------------- MODULE MCStorage ------------------------------
(* Instances for TLC, each on its own in some of the initial states, of    *)
(* the chunk store and its bulk transfers, and of the workloads.  Entropy: *)
(* peer u puts a chunk at three others, two of which may draw the same     *)
(* index, and u or one of them gets it.  Bulk: an offer with a token that  *)
(* is announced twice, and one without.  Ycsb and Countdown: three loops   *)
(* that share the frontier of inserts, or the count.                       *)
EXTENDS Entropy, Bulk, Ycsb, Countdown, TLC

CONSTANTS u, a, b, v, x

VARIABLE part

allVars == <<entropyVars, bulkVars, ycsbVars, countVars, part>>

MCClosest == x :> Peers
MCDraws == u :> {0} @@ a :> {1} @@ b :> {2} @@ v :> {2, 3}
MCPutters == {<<u, x>>}
MCGetters == {<<v, x>>, <<u, x>>}
MCTasks == {<<1, 1>>, <<1, 2>>, <<2, 1>>}

MCInit ==
    /\ part \in {"entropy", "bulk", "ycsb", "countdown"}
    /\ EntropyInit /\ BulkInit /\ YcsbInit /\ CountInit

MCNext ==
    \/ part = "entropy" /\ EntropyNext /\ UNCHANGED <<bulkVars, ycsbVars, countVars, part>>
    \/ part = "bulk" /\ BulkNext /\ UNCHANGED <<entropyVars, ycsbVars, countVars, part>>
    \/ part = "ycsb" /\ YcsbNext /\ UNCHANGED <<entropyVars, bulkVars, countVars, part>>
    \/ part = "countdown" /\ CountNext /\ UNCHANGED <<entropyVars, bulkVars, ycsbVars, part>>

MCSpec ==
    /\ MCInit /\ [][MCNext]_allVars
    /\ WF_allVars(part = "entropy" /\ EntropyWork /\ UNCHANGED <<bulkVars, ycsbVars, countVars, part>>)
    /\ WF_allVars(part = "bulk" /\ BulkWork /\ UNCHANGED <<entropyVars, ycsbVars, countVars, part>>)
=============================================================================
