------------------------- MODULE UnreplicatedCheck -------------------------
(***************************************************************************)
(* The unreplicated system as the repository's own model checker sees it   *)
(* (unreplicated.rs, mod check): one value holds the clients with their    *)
(* close loops and timers, the replica with its key-value store and the    *)
(* messages ever sent.  A step hands one message, again if the search      *)
(* likes, or one timer to a node, then flush moves on what the nodes left  *)
(* in their buffers.                                                       *)
(*                                                                         *)
(* The search (search.rs) never visits two states with the same "dry"      *)
(* state: whether what it leaves out matters is the question here.         *)
(***************************************************************************)
EXTENDS LinearTimer, FiniteSets

LOCAL INSTANCE SequencesExt

CONSTANTS
    CheckClients,  \* the clients, each pushed with its workload
    Script,        \* Script[c]: the operations of c's workload and the results it expects
    RecordedBy,    \* the clients with a Recorded workload; the others have a Check
    NoValue        \* None, and the value of a key that is not stored

ResendPeriod == 1000

Keys == UNION {{e.op.key : e \in ToSet(Script[c])} : c \in CheckClients}

VARIABLE
    state,  \* State: clients, replica and message events
    err     \* the last step returned an error

checkVars == <<state, err>>

-----------------------------------------------------------------------------
(* The application *)

(* KVStore::execute: a string is the sequence of the values put together. *)
KVExecute(store, op) ==
    LET stored == store[op.key]
        appended == (IF stored = NoValue THEN <<>> ELSE stored) \o op.value
    IN  CASE op.kind = "put" ->
               [store |-> [store EXCEPT ![op.key] = op.value], result |-> <<"PutOk">>]
          [] op.kind = "get" ->
               [store |-> store, result |-> IF stored = NoValue THEN <<"KetyNotFound">> ELSE stored]
          [] op.kind = "append" ->
               [store |-> [store EXCEPT ![op.key] = appended], result |-> appended]

(* The mutant executes a repeated request again. *)
ReplicaOnRequestAgain(replica, m) ==
    LET done == KVExecute(replica.store, m.op)
    IN  IF replica.replies[m.client].seq > m.seq THEN replica
        ELSE [replica EXCEPT !.store = done.store,
                             !.replies[m.client] = [seq |-> m.seq, result |-> done.result],
                             !.net = Append(@, [dest |-> m.client, seq |-> m.seq, result |-> done.result])]

(* Replica, Recv(request): the replies stay in its net until flush. *)
ReplicaOnRequest(replica, m) ==
    LET last == replica.replies[m.client]
        done == KVExecute(replica.store, m.op)
        ReplyOf(result) == [dest |-> m.client, seq |-> m.seq, result |-> result]
    IN  IF last.seq > m.seq THEN replica
        ELSE IF last.seq = m.seq
        THEN [replica EXCEPT !.net = Append(@, ReplyOf(last.result))]
        ELSE [replica EXCEPT !.store = done.store,
                             !.replies[m.client] = [seq |-> m.seq, result |-> done.result],
                             !.net = Append(@, ReplyOf(done.result))]

-----------------------------------------------------------------------------
(* The close loop *)

(* next_op of Recorded over Iter, and of Check over its list, and the Invoke sent. *)
NextOp(c, cl) ==
    IF cl.next > Len(Script[c])
    THEN [cl EXCEPT !.done = TRUE, !.attach = NoValue]
    ELSE [cl EXCEPT !.next = @ + 1,
                    !.attach = Script[c][cl.next].op,
                    !.expected = IF c \in RecordedBy THEN NoValue ELSE Script[c][cl.next].result,
                    !.sender = Append(@, Script[c][cl.next].op),
                    !.err = @ \/ cl.expected # NoValue]

(* on_result, then the next operation. *)
LoopOnInvokeOk(c, cl, result) ==
    LET taken == IF c \in RecordedBy
                 THEN [cl EXCEPT !.invocations = Append(@, [op |-> cl.attach, result |-> result])]
                 ELSE [cl EXCEPT !.expected = NoValue, !.err = @ \/ cl.expected # result]
    IN  IF cl.attach = NoValue THEN [cl EXCEPT !.err = TRUE] ELSE NextOp(c, taken)

-----------------------------------------------------------------------------
(* The client *)

DoSendCheck(c, cl) ==
    [cl EXCEPT !.net = Append(@, [dest |-> "replica", client |-> c, seq |-> cl.seq,
                                  op |-> cl.invoke.op])]

ClientOnInvoke(c, cl, op) ==
    IF cl.invoke # NoValue THEN [cl EXCEPT !.err = TRUE]
    ELSE LET timer == LinearSet(cl.timer, ResendPeriod)
         IN  DoSendCheck(c, [cl EXCEPT !.seq = @ + 1, !.timer = timer,
                                       !.invoke = [op |-> op, timer |-> timer.id]])

(* The mutant leaves the resend timer set. *)
ClientOnReplyTimerLeft(cl, m) ==
    IF m.seq # cl.seq \/ cl.invoke = NoValue THEN cl
    ELSE [cl EXCEPT !.invoke = NoValue, !.upcall = Append(@, m.result)]

ClientOnReply(cl, m) ==
    IF m.seq # cl.seq \/ cl.invoke = NoValue THEN cl
    ELSE [cl EXCEPT !.invoke = NoValue, !.timer = LinearUnset(@, cl.invoke.timer),
                    !.upcall = Append(@, m.result)]

(* A TimerEvent: step_timer, then on_timer with its assertion. *)
ClientOnTimer(c, cl, id) ==
    IF cl.invoke = NoValue \/ (cl.invoke # NoValue /\ cl.invoke.timer # id)
    THEN [cl EXCEPT !.err = TRUE]
    ELSE DoSendCheck(c, [cl EXCEPT !.timer = LinearStep(@, id)])

-----------------------------------------------------------------------------
(* The system *)

(* The loop of flush: Invoke events to the client, InvokeOk events to the close loop. *)
RECURSIVE Rerun(_, _)
Rerun(c, cl) ==
    IF cl.sender = <<>> /\ cl.upcall = <<>> THEN cl
    ELSE LET invoked == FoldLeft(LAMBDA a, op : ClientOnInvoke(c, a, op),
                                 [cl EXCEPT !.sender = <<>>], cl.sender)
         IN  Rerun(c, FoldLeft(LAMBDA a, result : LoopOnInvokeOk(c, a, result),
                               [invoked EXCEPT !.upcall = <<>>], invoked.upcall))

(* The nets are drained first: what a client sends in the loop waits for   *)
(* the flush of the next step.                                             *)
Flush(s) ==
    [clients |-> [c \in CheckClients |->
                    Rerun(c, [s.clients[c] EXCEPT !.net = <<>>])],
     replica |-> [s.replica EXCEPT !.net = <<>>],
     messages |-> s.messages \cup ToSet(s.replica.net)
                    \cup UNION {ToSet(s.clients[c].net) : c \in CheckClients}]

PushedClient ==
    [seq |-> 0, invoke |-> NoValue, net |-> <<>>, upcall |-> <<>>, timer |-> LinearNew,
     sender |-> <<>>, attach |-> NoValue, next |-> 1, expected |-> NoValue,
     invocations |-> <<>>, done |-> FALSE, err |-> FALSE]

(* State::new, push_client and launch. *)
Launched ==
    Flush([clients |-> [c \in CheckClients |-> NextOp(c, PushedClient)],
           replica |-> [store |-> [k \in Keys |-> NoValue], net |-> <<>>,
                        replies |-> [c \in CheckClients |-> [seq |-> 0, result |-> NoValue]]],
           messages |-> {}])

(* events() *)
MessageEvents(s) == s.messages
TimerEvents(s) ==
    UNION {{[client |-> c, timer |-> id] : id \in LinearEvents(s.clients[c].timer)} : c \in CheckClients}

StepMessage(s, m) ==
    Flush(IF m.dest = "replica"
          THEN [s EXCEPT !.replica = ReplicaOnRequest(@, m)]
          ELSE [s EXCEPT !.clients[m.dest] = ClientOnReply(@, m)])

StepTimer(s, e) ==
    Flush([s EXCEPT !.clients[e.client] = ClientOnTimer(e.client, @, e.timer)])

CheckInit == state = Launched /\ err = FALSE

(* The search stops at the first error. *)
CheckStep(s) == state' = s /\ err' = \E c \in CheckClients : s.clients[c].err

CheckNext ==
    /\ ~err
    /\ \/ \E m \in MessageEvents(state) : CheckStep(StepMessage(state, m))
       \/ \E e \in TimerEvents(state) : CheckStep(StepTimer(state, e))

CheckSpec == CheckInit /\ [][CheckNext]_checkVars

(* Into<DryState>: without nets, timers, attachments and workload positions. *)
Dry(s) ==
    [clients |-> [c \in CheckClients |->
                    [seq |-> s.clients[c].seq, invoke |-> s.clients[c].invoke,
                     invocations |-> s.clients[c].invocations]],
     replica |-> [store |-> s.replica.store, replies |-> s.replica.replies],
     messages |-> s.messages]

-----------------------------------------------------------------------------
(* Properties *)

(***************************************************************************)
(* The only state whose dry state is d: what was left out can be told from *)
(* what was kept.                                                          *)
(***************************************************************************)
Rehydrated(d) ==
    LET Op(c) == d.clients[c].invoke.op
        Req(c) == [dest |-> "replica", client |-> c, seq |-> d.clients[c].seq, op |-> Op(c)]
        Idle(c) == d.clients[c].invoke = NoValue
        Client(c) ==
            [seq |-> d.clients[c].seq, invoke |-> d.clients[c].invoke,
             net |-> IF Idle(c) \/ Req(c) \in d.messages THEN <<>> ELSE <<Req(c)>>,
             upcall |-> <<>>, sender |-> <<>>, next |-> d.clients[c].seq + 1,
             timer |-> [id |-> d.clients[c].seq,
                        events |-> IF Idle(c) THEN <<>>
                                   ELSE <<[id |-> d.clients[c].seq, period |-> ResendPeriod]>>],
             attach |-> IF Idle(c) THEN NoValue ELSE Op(c),
             expected |-> IF Idle(c) \/ c \in RecordedBy THEN NoValue
                          ELSE Script[c][d.clients[c].seq].result,
             invocations |-> d.clients[c].invocations, done |-> Idle(c), err |-> FALSE]
    IN  [clients |-> [c \in CheckClients |-> Client(c)],
         replica |-> [store |-> d.replica.store, replies |-> d.replica.replies, net |-> <<>>],
         messages |-> d.messages]

(***************************************************************************)
(* Two states with the same dry state are the same, so that the search     *)
(* loses no successor when it drops one of them ("two states with          *)
(* identical dry state will have identical succesor state space").  The    *)
(* requests still in a client's net and the timers are the hard part.      *)
(***************************************************************************)
DrySuffices == state = Rehydrated(Dry(state))

(***************************************************************************)
(* No step fails: events reach nodes that can take them, operations of     *)
(* one client do not overlap, and a Check workload reads the results it    *)
(* expects while other clients use the replica.                            *)
(***************************************************************************)
NoStepFails == ~err

(***************************************************************************)
(* append_linearizable of examples/check-unreplicated.rs: each append to a *)
(* key returns a value that ends with its own, and of two results one is   *)
(* a prefix of the other.  Beyond what the example asserts, no value holds *)
(* more than the appends that were sent, however often they are delivered. *)
(***************************************************************************)
AppendLinearizable ==
    LET Appends(k) == UNION {{i \in ToSet(state.clients[c].invocations) :
                                i.op.kind = "append" /\ i.op.key = k} : c \in RecordedBy}
        Sent(k) == {m \in state.messages :
                      m.dest = "replica" /\ m.op.kind = "append" /\ m.op.key = k}
    IN  \A k \in Keys : \A i, j \in Appends(k) :
            /\ IsSuffix(i.op.value, i.result)
            /\ Len(i.result) <= Cardinality(Sent(k))
            /\ IsPrefix(i.result, j.result) \/ IsPrefix(j.result, i.result)

(***************************************************************************)
(* What the checked system promises to those who run it: no step fails,    *)
(* and the clients see one linearizable store (unreplicated.rs, check;     *)
(* examples/check-unreplicated.rs).                                        *)
(***************************************************************************)
ChecksRight == NoStepFails /\ AppendLinearizable
=============================================================================
