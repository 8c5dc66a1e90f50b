---------------------------- MODULE Unreplicated ----------------------------
(***************************************************************************)
(* The unreplicated protocol (unreplicated.rs) as it is deployed: every    *)
(* client is a `Client` and a `CloseLoop` (workload.rs), each run by an    *)
(* event session (event/session.rs), and one `Replica` executes the        *)
(* operations.  Messages travel over UDP: they may be lost, repeated and   *)
(* reordered; the client sends again on a timer.                           *)
(*                                                                         *)
(* The application is the sequence of operations it executed, and the      *)
(* result of an operation is its position there: what any deterministic    *)
(* `App` returns is a function of that prefix.                             *)
(***************************************************************************)
EXTENDS Naturals, Sequences, FiniteSets, SessionTimer

CONSTANTS
    Clients,  \* the clients
    Ops,      \* the operations a workload can ask for
    NumOps,   \* the number of operations in the workload of every client
    None      \* no operation

ASSUME ClientsAssumption == IsFiniteSet(Clients)
ASSUME NumOpsAssumption == NumOps \in [Clients -> Nat \ {0}]
ASSUME NoneAssumption == None \notin Ops

VARIABLES
    attach,       \* CloseLoop.workload_attach: the operation being waited for
    invocations,  \* Recorded.invocations: the operations and their results
    done,         \* CloseLoop.done
    invokes,      \* Invoke events in the channel of the client's session
    upcalls,      \* InvokeOk events in the channel of the close loop's session
    seq,          \* Client.seq
    invoke,       \* Client.invoke
    timer,        \* the timers of the client's session
    failed,       \* the client's or its close loop's session ended with an error or a panic
    toReplica,    \* requests in the network
    toClient,     \* replies in the network
    replies,      \* Replica.replies
    app           \* Replica.app

loopVars == <<attach, invocations, done>>
clientVars == <<seq, invoke, timer>>
replicaVars == <<replies, app>>
netVars == <<toReplica, toClient>>
vars == <<attach, invocations, done, invokes, upcalls, seq, invoke, timer, failed,
          toReplica, toClient, replies, app>>

Request == [client : Clients, seq : Nat, op : Ops]
Reply == [client : Clients, seq : Nat, result : Nat]

NoInvoke == [op |-> None, timer |-> 0]
NoReply == [seq |-> 0, result |-> 0]

Init ==
    /\ attach = [c \in Clients |-> None]
    /\ invocations = [c \in Clients |-> <<>>]
    /\ done = [c \in Clients |-> FALSE]
    /\ invokes = [c \in Clients |-> <<>>]
    /\ upcalls = [c \in Clients |-> <<>>]
    /\ seq = [c \in Clients |-> 0]
    /\ invoke = [c \in Clients |-> NoInvoke]
    /\ timer = [c \in Clients |-> TimerInit]
    /\ failed = [c \in Clients |-> FALSE]
    /\ toReplica = {}
    /\ toClient = {}
    /\ replies = [c \in Clients |-> NoReply]
    /\ app = <<>>

-----------------------------------------------------------------------------
(* The close loop *)

(* Init: the first operation of the workload. *)
Launch(c, op) ==
    /\ ~failed[c] /\ ~done[c]
    /\ attach[c] = None /\ invocations[c] = <<>> /\ upcalls[c] = <<>>
    /\ attach' = [attach EXCEPT ![c] = op]
    /\ invokes' = [invokes EXCEPT ![c] = Append(@, op)]
    /\ UNCHANGED <<invocations, done, upcalls, clientVars, failed, netVars, replicaVars>>

(* InvokeOk: record the result, then ask for the next operation or finish. *)
OnInvokeOk(c, op) ==
    /\ ~failed[c]
    /\ upcalls[c] # <<>>
    /\ upcalls' = [upcalls EXCEPT ![c] = Tail(@)]
    /\ IF attach[c] = None
       THEN /\ failed' = [failed EXCEPT ![c] = TRUE]  \* "missing workload attach"
            /\ UNCHANGED <<loopVars, invokes>>
       ELSE /\ invocations' = [invocations EXCEPT ![c] =
                    Append(@, [op |-> attach[c], result |-> Head(upcalls[c])])]
            /\ IF Len(invocations[c]) + 1 < NumOps[c]
               THEN /\ attach' = [attach EXCEPT ![c] = op]
                    /\ invokes' = [invokes EXCEPT ![c] = Append(@, op)]
                    /\ UNCHANGED done
               ELSE /\ attach' = [attach EXCEPT ![c] = None]
                    /\ done' = [done EXCEPT ![c] = TRUE]
                    /\ UNCHANGED invokes
            /\ UNCHANGED failed
    /\ UNCHANGED <<clientVars, netVars, replicaVars>>

-----------------------------------------------------------------------------
(* The client *)

(* invoke.is_some() *)
Waiting(c) == invoke[c] # NoInvoke

(* do_send: the request of the current invocation. *)
DoSend(c, s, op) == toReplica' = toReplica \cup {[client |-> c, seq |-> s, op |-> op]}

OnInvoke(c) ==
    /\ ~failed[c]
    /\ invokes[c] # <<>>
    /\ invokes' = [invokes EXCEPT ![c] = Tail(@)]
    /\ IF Waiting(c)
       THEN /\ failed' = [failed EXCEPT ![c] = TRUE]  \* "concurrent invocation"
            /\ UNCHANGED <<clientVars, toReplica>>
       ELSE /\ seq' = [seq EXCEPT ![c] = @ + 1]
            /\ invoke' = [invoke EXCEPT ![c] =
                    [op |-> Head(invokes[c]), timer |-> NextTimerId(timer[c])]]
            /\ timer' = [timer EXCEPT ![c] = TimerSet(@)]
            /\ DoSend(c, seq[c] + 1, Head(invokes[c]))
            /\ UNCHANGED failed
    /\ UNCHANGED <<loopVars, upcalls, toClient, replicaVars>>

(* A Timer event leaves the channel; on_timer asserts that it belongs to   *)
(* the current invocation, then sends again.                               *)
OnTimer(c, id) ==
    /\ ~failed[c]
    /\ id \in timer[c].queued
    /\ timer' = [timer EXCEPT ![c] = TimerTake(@, id)]
    /\ IF ~IsSet(timer[c], id)
       THEN UNCHANGED <<failed, toReplica>>
       ELSE IF Waiting(c) /\ invoke[c].timer = id
       THEN DoSend(c, seq[c], invoke[c].op) /\ UNCHANGED failed
       ELSE /\ failed' = [failed EXCEPT ![c] = TRUE]
            /\ UNCHANGED toReplica
    /\ UNCHANGED <<loopVars, invokes, upcalls, seq, invoke, toClient, replicaVars>>

Tick(c, id) ==
    /\ CanTick(timer[c], id)
    /\ id \notin timer[c].queued
    /\ timer' = [timer EXCEPT ![c] = TimerTick(@, id)]
    /\ UNCHANGED <<loopVars, invokes, upcalls, seq, invoke, failed, netVars, replicaVars>>

Abort(c, id) ==
    /\ CanAbort(timer[c], id)
    /\ timer' = [timer EXCEPT ![c] = TimerAbort(@, id)]
    /\ UNCHANGED <<loopVars, invokes, upcalls, seq, invoke, failed, netVars, replicaVars>>

(* Mutant: the reply to an earlier request is taken for the current one's. *)
AcceptsAny(c, m) == Waiting(c)

Accepts(c, m) == m.seq = seq[c] /\ Waiting(c)

(* Recv<Reply>.  A duplicate may follow: the message stays in the network. *)
OnReply(m) ==
    LET c == m.client
    IN  /\ ~failed[c]
        /\ Accepts(c, m)
        /\ invoke' = [invoke EXCEPT ![c] = NoInvoke]
        /\ IF CanUnset(timer[c], invoke[c].timer)
           THEN /\ timer' = [timer EXCEPT ![c] = TimerUnset(@, invoke[c].timer)]
                /\ upcalls' = [upcalls EXCEPT ![c] = Append(@, m.result)]
                /\ UNCHANGED failed
           ELSE /\ failed' = [failed EXCEPT ![c] = TRUE]  \* "timer not exists"
                /\ UNCHANGED <<timer, upcalls>>
        /\ UNCHANGED <<loopVars, invokes, seq, netVars, replicaVars>>

-----------------------------------------------------------------------------
(* The replica *)

SendReply(c, reply) ==
    toClient' = toClient \cup {[client |-> c, seq |-> reply.seq, result |-> reply.result]}

(* Mutant: the request executed last is executed again. *)
OnRequestAgain(m) ==
    LET reply == [seq |-> m.seq, result |-> Len(app) + 1]
    IN  /\ replies[m.client].seq <= m.seq
        /\ app' = Append(app, [client |-> m.client, seq |-> m.seq, op |-> m.op])
        /\ replies' = [replies EXCEPT ![m.client] = reply]
        /\ SendReply(m.client, reply)
        /\ UNCHANGED <<loopVars, invokes, upcalls, clientVars, failed, toReplica>>

(* Recv<Request>: drop an old request, repeat the reply of the last one,   *)
(* execute a new one.                                                      *)
OnRequest(m) ==
    LET last == replies[m.client]
        reply == [seq |-> m.seq, result |-> Len(app) + 1]
    IN  /\ last.seq <= m.seq
        /\ IF last.seq = m.seq
           THEN /\ SendReply(m.client, last)
                /\ UNCHANGED replicaVars
           ELSE /\ app' = Append(app, [client |-> m.client, seq |-> m.seq, op |-> m.op])
                /\ replies' = [replies EXCEPT ![m.client] = reply]
                /\ SendReply(m.client, reply)
        /\ UNCHANGED <<loopVars, invokes, upcalls, clientVars, failed, toReplica>>

-----------------------------------------------------------------------------
(* UDP drops a message. *)
LoseRequest(m) ==
    /\ toReplica' = toReplica \ {m}
    /\ UNCHANGED <<loopVars, invokes, upcalls, clientVars, failed, toClient, replicaVars>>

LoseReply(m) ==
    /\ toClient' = toClient \ {m}
    /\ UNCHANGED <<loopVars, invokes, upcalls, clientVars, failed, toReplica, replicaVars>>

Next ==
    \/ \E c \in Clients :
        \/ \E op \in Ops : Launch(c, op) \/ OnInvokeOk(c, op)
        \/ OnInvoke(c)
        \/ \E id \in timer[c].tasks : Tick(c, id) \/ Abort(c, id)
        \/ \E id \in timer[c].queued : OnTimer(c, id)
    \/ \E m \in toClient : OnReply(m) \/ LoseReply(m)
    \/ \E m \in toReplica : OnRequest(m) \/ LoseRequest(m)

Spec == Init /\ [][Next]_vars

(***************************************************************************)
(* Sessions keep running; a timer task keeps waking up while its timer is  *)
(* set; a message that is sent again and again is received again and again *)
(* (UDP is lossy but fair).                                                *)
(***************************************************************************)
Current(c, m) == m.client = c /\ m.seq = seq[c]

Fairness ==
    \A c \in Clients :
        /\ WF_vars(\E op \in Ops : Launch(c, op))
        /\ WF_vars(\E op \in Ops : OnInvokeOk(c, op))
        /\ WF_vars(OnInvoke(c))
        /\ \A id \in 1..NumOps[c] : WF_vars(Tick(c, id)) /\ WF_vars(OnTimer(c, id))
        /\ SF_vars(\E m \in toReplica : Current(c, m) /\ OnRequest(m))
        /\ SF_vars(\E m \in toClient : Current(c, m) /\ OnReply(m))

FairSpec == Spec /\ Fairness

-----------------------------------------------------------------------------
(***************************************************************************)
(* Types of the state: in particular every request and every record of the *)
(* close loop carries an operation of the workload.                        *)
(***************************************************************************)
TypeOK ==
    /\ attach \in [Clients -> Ops \cup {None}]
    /\ invocations \in [Clients -> Seq([op : Ops, result : Nat])]
    /\ done \in [Clients -> BOOLEAN]
    /\ invokes \in [Clients -> Seq(Ops)]
    /\ upcalls \in [Clients -> Seq(Nat)]
    /\ seq \in [Clients -> Nat]
    /\ invoke \in [Clients -> [op : Ops \cup {None}, timer : Nat]]
    /\ timer \in [Clients -> TimerState]
    /\ failed \in [Clients -> BOOLEAN]
    /\ toReplica \in SUBSET Request
    /\ toClient \in SUBSET Reply
    /\ replies \in [Clients -> [seq : Nat, result : Nat]]
    /\ app \in Seq(Request)

(***************************************************************************)
(* No session ever ends with an error: the assertion of on_timer holds for *)
(* every Timer event that reaches it although the timer was unset and set  *)
(* again while events were waiting (unreplicated.rs:99), a close loop      *)
(* never invokes concurrently (:84), every reply finds its timer set, and  *)
(* every InvokeOk finds its attachment (workload.rs:320).                  *)
(***************************************************************************)
NoFailure == \A c \in Clients : ~failed[c]

(***************************************************************************)
(* However often a request is sent again, repeated or delayed, the replica *)
(* executes it at most once, and executes a client's requests in the order *)
(* in which they were invoked (the comparison of sequence numbers at       *)
(* unreplicated.rs:180-186).                                               *)
(***************************************************************************)
ExecutedInOrder ==
    \A i, j \in DOMAIN app :
        i < j /\ app[i].client = app[j].client => app[i].seq < app[j].seq

(***************************************************************************)
(* The n-th result a close loop records is the one of its own n-th         *)
(* operation, whatever stale replies reach the client (unreplicated.rs:106 *)
(* and :109).                                                              *)
(***************************************************************************)
ResultsMatch ==
    \A c \in Clients : \A n \in DOMAIN invocations[c] :
        LET r == invocations[c][n].result
        IN  /\ r \in DOMAIN app
            /\ app[r] = [client |-> c, seq |-> n, op |-> invocations[c][n].op]

(***************************************************************************)
(* The inductive invariant behind the properties above.                    *)
(***************************************************************************)

(* Where the current operation of a close loop is: nowhere, in the channel *)
(* of the client, with the client, or on its way back.                     *)
LoopAt(c) ==
    \/ /\ attach[c] = None
       /\ invokes[c] = <<>> /\ upcalls[c] = <<>> /\ ~Waiting(c)
       /\ seq[c] = Len(invocations[c])
    \/ /\ attach[c] \in Ops
       /\ invokes[c] = <<attach[c]>> /\ upcalls[c] = <<>> /\ ~Waiting(c)
       /\ seq[c] = Len(invocations[c])
    \/ /\ attach[c] \in Ops
       /\ invokes[c] = <<>> /\ upcalls[c] = <<>> /\ Waiting(c) /\ invoke[c].op = attach[c]
       /\ seq[c] = Len(invocations[c]) + 1
    \/ /\ attach[c] \in Ops
       /\ invokes[c] = <<>> /\ upcalls[c] = <<replies[c].result>> /\ ~Waiting(c)
       /\ app[replies[c].result].op = attach[c]
       /\ seq[c] = Len(invocations[c]) + 1

(* Exactly the timer of the current invocation is set. *)
TimerAt(c) == timer[c].handles = IF Waiting(c) THEN {invoke[c].timer} ELSE {}

(* A request in the network is not newer than the client's last one. *)
RequestAt(m) ==
    /\ m.seq \in 1..seq[m.client]
    /\ m.seq = seq[m.client] /\ Waiting(m.client) => m.op = invoke[m.client].op

(* A client that waits for nothing has had its last request executed; the  *)
(* stored reply tells where the last executed request is.                  *)
StoredAt(c) ==
    /\ replies[c].seq <= seq[c] /\ seq[c] <= replies[c].seq + 1
    /\ ~Waiting(c) => replies[c].seq = seq[c]
    /\ replies[c].seq > 0 =>
        /\ replies[c].result \in DOMAIN app
        /\ app[replies[c].result].client = c
        /\ app[replies[c].result].seq = replies[c].seq
        /\ Waiting(c) /\ replies[c].seq = seq[c] => app[replies[c].result].op = invoke[c].op

(* A reply in the network is the stored one or an older one. *)
ReplyAt(m) ==
    /\ m.seq \in 1..replies[m.client].seq
    /\ m.seq = replies[m.client].seq => m.result = replies[m.client].result

LoopInv == \A c \in Clients : LoopAt(c)
TimerInv == \A c \in Clients : TimerAt(c)
RequestInv == \A m \in toReplica : RequestAt(m)
StoredInv == \A c \in Clients : StoredAt(c)
ReplyInv == \A m \in toClient : ReplyAt(m)
AppInv == \A i \in DOMAIN app : app[i].seq <= replies[app[i].client].seq

(***************************************************************************)
(* All of it: what the sessions, their channels, the network and the       *)
(* replica know about each other at every moment.                          *)
(***************************************************************************)
Inv ==
    /\ TypeOK /\ NoFailure
    /\ LoopInv /\ TimerInv /\ RequestInv /\ StoredInv /\ ReplyInv /\ AppInv
    /\ ExecutedInOrder /\ ResultsMatch

(* The service as the clients see it. *)
Abs == INSTANCE Service WITH
    log <- [i \in DOMAIN app |-> [client |-> app[i].client, op |-> app[i].op]],
    call <- [c \in Clients |->
                IF invoke[c] = NoInvoke THEN [phase |-> "idle"]
                ELSE IF replies[c].seq = seq[c]
                THEN [phase |-> "executed", op |-> invoke[c].op, pos |-> replies[c].result]
                ELSE [phase |-> "pending", op |-> invoke[c].op]],
    results <- [c \in Clients |->
                  [i \in DOMAIN invocations[c] |->
                      [op |-> invocations[c][i].op, pos |-> invocations[c][i].result]]
                  \o [i \in DOMAIN upcalls[c] |-> [op |-> attach[c], pos |-> upcalls[c][i]]]]

(***************************************************************************)
(* The protocol implements the abstract service: every invocation takes    *)
(* effect exactly once between Invoke (unreplicated.rs:81) and InvokeOk    *)
(* (:114), whatever the network repeats, loses or delays.                  *)
(***************************************************************************)
ServiceSpec == Abs!Spec

(***************************************************************************)
(* Every close loop gets through its workload: lost requests and replies   *)
(* are made up for by the resend timer (unreplicated.rs:96-102) and by the *)
(* repeated reply (:182).                                                  *)
(***************************************************************************)
AllDone == \A c \in Clients : <>done[c]
=============================================================================
