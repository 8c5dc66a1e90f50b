------------------------------ MODULE Service ------------------------------
(***************************************************************************)
(* What a replicated (or unreplicated) service promises to its clients: a  *)
(* single log of operations.  A client has at most one call outstanding,   *)
(* the call takes effect exactly once, between its invocation and its      *)
(* response, and the response tells where in the log it took effect.  Any  *)
(* deterministic application computes its result from that prefix of the   *)
(* log, so the position stands for the result.                             *)
(*                                                                         *)
(* The protocols of this repository (unreplicated.rs, pbft.rs) are checked *)
(* against this specification through refinement mappings.                 *)
(***************************************************************************)
EXTENDS Naturals, Sequences, FiniteSets

CONSTANTS Clients, Ops

VARIABLES
    log,     \* the operations that took effect, oldest first
    call,    \* call[c]: the outstanding call of client c
    results  \* results[c]: the responses c has received, oldest first

vars == <<log, call, results>>

Idle            == [phase |-> "idle"]
Pending(op)     == [phase |-> "pending", op |-> op]
Executed(op, i) == [phase |-> "executed", op |-> op, pos |-> i]

Init ==
    /\ log = <<>>
    /\ call = [c \in Clients |-> Idle]
    /\ results = [c \in Clients |-> <<>>]

Invoke(c, op) ==
    /\ call[c] = Idle
    /\ call' = [call EXCEPT ![c] = Pending(op)]
    /\ UNCHANGED <<log, results>>

(* The sequences of distinct clients, the orders in which calls can take effect. *)
Orders ==
    {order \in UNION {[1..k -> Clients] : k \in 1..Cardinality(Clients)} :
        \A i, j \in DOMAIN order : order[i] = order[j] => i = j}

(***************************************************************************)
(* The pending calls of some clients take effect, in the given order.      *)
(***************************************************************************)
Execute(order) ==
    LET At(c) == {i \in DOMAIN order : order[i] = c}
    IN  /\ \A i \in DOMAIN order : call[order[i]].phase = "pending"
        /\ log' = log \o [i \in DOMAIN order |->
                           [client |-> order[i], op |-> call[order[i]].op]]
        /\ call' = [c \in Clients |->
                       IF At(c) = {} THEN call[c]
                       ELSE Executed(call[c].op, Len(log) + CHOOSE i \in At(c) : TRUE)]
        /\ UNCHANGED results

Respond(c) ==
    /\ call[c].phase = "executed"
    /\ results' = [results EXCEPT ![c] =
                      Append(@, [op |-> call[c].op, pos |-> call[c].pos])]
    /\ call' = [call EXCEPT ![c] = Idle]
    /\ UNCHANGED log

Next ==
    \/ \E c \in Clients, op \in Ops : Invoke(c, op)
    \/ \E order \in Orders : Execute(order)
    \/ \E c \in Clients : Respond(c)

Spec == Init /\ [][Next]_vars
=============================================================================
