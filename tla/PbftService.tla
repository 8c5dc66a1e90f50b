---------------------------- MODULE PbftService ----------------------------
(***************************************************************************)
(* The replicated service of Pbft is the service of Service: clients see   *)
(* one log of requests, although every replica has its own.  The log is    *)
(* the one of the replica that has executed most.                          *)
(***************************************************************************)
EXTENDS Pbft, SequencesExt

ASSUME ClientsAssumption == IsFiniteSet(Clients)

Lead == CHOOSE r \in Replicas : \A d \in Replicas : Len(replica[r].app) >= Len(replica[d].app)

(* The requests executed, batch after batch. *)
Ordered == FlattenSeq(replica[Lead].app)

AbsLog == [i \in DOMAIN Ordered |-> [client |-> Ordered[i].client, op |-> Ordered[i].seq]]

(* Where the current request of a client is executed. *)
CallAt(c) == {i \in DOMAIN Ordered : Ordered[i] = [client |-> c, seq |-> seq[c]]}

AbsCall ==
    [c \in Clients |->
        CASE invoke[c] = None -> [phase |-> "idle"]
          [] invoke[c] # None /\ CallAt(c) = {} -> [phase |-> "pending", op |-> seq[c]]
          [] invoke[c] # None /\ CallAt(c) # {} ->
                [phase |-> "executed", op |-> seq[c], pos |-> Min(CallAt(c))]]

(* The i-th result of a client answers its i-th call; its place in the log *)
(* is the one the answering replicas computed it at.                       *)
Place(result) == Len(FlattenSeq(Front(result.history))) + result.index

AbsResults ==
    [c \in Clients |-> [i \in DOMAIN results[c] |-> [op |-> i, pos |-> Place(results[c][i])]]]

Abs == INSTANCE Service WITH
    Ops <- 1..MaxSeq, log <- AbsLog, call <- AbsCall, results <- AbsResults

(* Every call of a client takes effect once, in one order common to all,   *)
(* between the invocation and the response, and the response is computed   *)
(* there: f + 1 equal replies of replicas that execute batches of their    *)
(* own logs are one linearizable service.                                  *)
ServiceSpec == Abs!Spec
=============================================================================
