-------------------------------- MODULE Pbft --------------------------------
(***************************************************************************)
(* The normal case of PBFT as pbft.rs implements it: clients, replicas,    *)
(* the network between them and the crypto worker of every replica.        *)
(*                                                                         *)
(* A handler of pbft.rs is an action; the state of a replica is a record,  *)
(* and the methods that several handlers share (close_batch,               *)
(* insert_prepare, ...) are operators from record to record.  The view     *)
(* number is 0 forever (no code assigns it), so the primary is fixed and   *)
(* the view comparisons are trivially passed.                              *)
(*                                                                         *)
(* Signing and verifying are tasks of a worker that finish in any order;   *)
(* the event a finished task sends to the replica is handled at any later  *)
(* moment.  A task and its event are one element of `tasks`.  A digest is  *)
(* the batch of requests itself.  Replicas fail by stopping; messages may  *)
(* be lost (never received), delayed, reordered and repeated.              *)
(***************************************************************************)
EXTENDS Naturals, Sequences, FiniteSets, FiniteSetsExt

CONSTANTS
    Replicas,   \* the replicas
    Primary,    \* replica 0, the primary of view 0
    F,          \* num_faulty
    Alive,      \* the replicas that have not stopped
    Clients,    \* the clients
    None,       \* no reply yet
    InOrder,    \* pre-prepares are verified in the order of their numbers
    Slow,       \* the replicas that receive messages while crypto tasks are under way
    MaxBatch,   \* requests in a batch (100 in the code)
    MaxSeq,     \* bound: requests of a client
    MaxDup,     \* bound: repeated deliveries
    MaxBad      \* bound: messages whose signature does not verify

N == Cardinality(Replicas)

ASSUME ReplicasAssumption ==
    /\ IsFiniteSet(Replicas) /\ Primary \in Alive /\ Alive \subseteq Replicas
    /\ F \in Nat /\ F >= 1 /\ N >= 3 * F + 1
ASSUME BoundsAssumption ==
    /\ MaxBatch \in Nat \ {0}
    /\ MaxSeq \in Nat
    /\ InOrder \in BOOLEAN

VARIABLES
    seq,        \* Client.seq
    invoke,     \* Client.invoke: the replies gathered, by replica, or None
    results,    \* the results given to the close loop so far
    replica,    \* the state of every replica
    toReplica,  \* messages on their way to replicas
    toClient,   \* replies sent to clients
    dups, bad   \* repeated deliveries and bad signatures so far

vars == <<seq, invoke, results, replica, toReplica, toClient, dups, bad>>

IsPrimary(r) == r = Primary

NUM_CONCURRENT_PRE_PREPARE == 1

(* An empty batch: no pre-prepare in the log entry.                        *)
(* `prepared` and `committed`: the entry's prepares and commits are not    *)
(* empty, which is all the code asks of them.                              *)
NoEntry == [batch |-> <<>>, prepared |-> FALSE, committed |-> FALSE]

InitReplica ==
    [replies    |-> [c \in Clients |-> [seq |-> 0, reply |-> None]],
     requests   |-> <<>>,
     opNum      |-> 0,
     log        |-> <<>>,
     prepares   |-> {},   \* prepare_quorums, the prepares of all numbers
     commits    |-> {},   \* commit_quorums
     commitNum  |-> 0,
     app        |-> <<>>, \* the batches executed
     pendingPrepares |-> <<>>,  \* a function on the numbers with a task under way
     pendingCommits  |-> <<>>,
     tasks      |-> {},
     panicked   |-> FALSE]

Init ==
    /\ seq = [c \in Clients |-> 0]
    /\ invoke = [c \in Clients |-> None]
    /\ results = [c \in Clients |-> <<>>]
    /\ replica = [r \in Replicas |-> InitReplica]
    /\ toReplica = {}
    /\ toClient = {}
    /\ dups = 0 /\ bad = 0

(* Messages between replicas (pbft.rs, types), and a message on its way.   *)
PrePrepare(op, batch) == [type |-> "PrePrepare", op |-> op, digest |-> batch]
Prepare(op, digest, r) == [type |-> "Prepare", op |-> op, digest |-> digest, from |-> r]
Commit(op, digest, r) == [type |-> "Commit", op |-> op, digest |-> digest, from |-> r]
Envelope(dst, m) == [dst |-> dst, body |-> m]

(* Work of the crypto worker: to sign or to verify a message. *)
Sign(m) == [kind |-> "Sign", msg |-> m]
Verify(m) == [kind |-> "Verify", msg |-> m]

(* HashMap::insert *)
WithKey(f, key, value) == [k \in DOMAIN f \cup {key} |-> IF k = key THEN value ELSE f[k]]

-----------------------------------------------------------------------------
(* Clients *)

ClientInvoke(c) ==
    /\ invoke[c] = None
    /\ seq[c] < MaxSeq
    /\ seq' = [seq EXCEPT ![c] = @ + 1]
    /\ invoke' = [invoke EXCEPT ![c] = <<>>]
    /\ toReplica' = toReplica \cup
           {Envelope(Primary, [type |-> "Request", req |-> [client |-> c, seq |-> seq[c] + 1]])}
    /\ UNCHANGED <<results, replica, toClient, dups, bad>>

(* Recv<Reply>: f + 1 replicas with the same result complete the call. *)
ClientRecvReply(c, m) ==
    LET gathered == WithKey(invoke[c], m.from, m.result)
        matching == {r \in DOMAIN gathered : gathered[r] = m.result}
    IN  /\ m.client = c /\ m.seq = seq[c]
        /\ invoke[c] # None
        /\ IF Cardinality(matching) = F + 1
           THEN /\ invoke' = [invoke EXCEPT ![c] = None]
                /\ results' = [results EXCEPT ![c] = Append(@, m.result)]
           ELSE /\ invoke' = [invoke EXCEPT ![c] = gathered]
                /\ UNCHANGED results
        /\ UNCHANGED <<seq, replica, toReplica, toClient, dups, bad>>

-----------------------------------------------------------------------------
(* Methods of a replica, from state to state *)

(* log.get(op_num) *)
HasEntry(s, op) == op <= Len(s.log)
HasBatch(s, op) == HasEntry(s, op) /\ s.log[op].batch # <<>>

Resize(log, op) ==
    [i \in 1..Max({Len(log), op}) |-> IF i <= Len(log) THEN log[i] ELSE NoEntry]

Panic(s) == [s EXCEPT !.panicked = TRUE]

(* Mutant: the requests of the batch stay in the queue. *)
CloseBatchUndrained(s, k) ==
    [s EXCEPT !.opNum = @ + k,
              !.tasks = @ \cup {Sign(PrePrepare(s.opNum + j, s.requests)) : j \in 1..k}]

(* close_batch, k times. *)
CloseBatch(s, k) ==
    LET len == Len(s.requests)
        batch(j) == SubSeq(s.requests, (j - 1) * MaxBatch + 1, Min({j * MaxBatch, len}))
    IN  [s EXCEPT !.opNum = @ + k,
                  !.requests = SubSeq(@, k * MaxBatch + 1, len),
                  !.tasks = @ \cup {Sign(PrePrepare(s.opNum + j, batch(j))) : j \in 1..k}]

(* The messages of a quorum about a number, once p is inserted. *)
Inserted(quorums, p) == {q \in quorums : q.op # p.op \/ q.from # p.from} \cup {p}
Quorum(quorums, op) == {q \in quorums : q.op = op}

(* Mutant: one vote less is enough. *)
HasCommitQuorumEarly(quorums, op) == Cardinality(Quorum(quorums, op)) + 1 >= N - F

(* The pre-prepare counts as the prepare of the primary. *)
HasPrepareQuorum(quorums, op) == Cardinality(Quorum(quorums, op)) + 1 >= N - F
HasCommitQuorum(quorums, op) == Cardinality(Quorum(quorums, op)) >= N - F

(* Mutant: the quorum is not removed once it is moved to the log. *)
InsertPrepareKept(s, r, p) ==
    LET quorums == Inserted(s.prepares, p)
    IN  IF ~HasPrepareQuorum(quorums, p.op) \/ ~HasEntry(s, p.op)
        THEN [s EXCEPT !.prepares = quorums]
        ELSE IF s.log[p.op].prepared
        THEN Panic(s)
        ELSE [s EXCEPT !.prepares = quorums, !.log[p.op].prepared = TRUE,
                       !.tasks = @ \cup {Sign(Commit(p.op, p.digest, r))}]

(* insert_prepare by replica r *)
InsertPrepare(s, r, p) ==
    LET quorums == Inserted(s.prepares, p)
    IN  IF ~HasPrepareQuorum(quorums, p.op) \/ ~HasEntry(s, p.op)
        THEN [s EXCEPT !.prepares = quorums]
        ELSE IF s.log[p.op].prepared
        THEN Panic(s)
        ELSE [s EXCEPT !.prepares = quorums \ Quorum(quorums, p.op),
                       !.log[p.op].prepared = TRUE,
                       !.tasks = @ \cup {Sign(Commit(p.op, p.digest, r))}]

(* submit_prepare: whether the prepare is worth verifying *)
SubmitPrepare(s, p) ==
    HasEntry(s, p.op) => ~s.log[p.op].prepared /\ s.log[p.op].batch \in {<<>>, p.digest}

(* The places <<k, j>> of the requests in the batches executed from number *)
(* `first` on, and what the application answers to the request there: its  *)
(* state is the batches executed so far.                                   *)
Executed(s, first) == {e \in (first..Len(s.app)) \X (1..MaxBatch) : e[2] <= Len(s.app[e[1]])}

Result(s, e) == [history |-> SubSeq(s.app, 1, e[1]), index |-> e[2]]

RequestAt(s, e) == s.app[e[1]][e[2]]

(* The replies table after the loop over the requests just executed: the   *)
(* highest request of a client that is not below the one stored.           *)
StoreReplies(s, first) ==
    LET At(c) == {e \in Executed(s, first) :
                    RequestAt(s, e).client = c /\ RequestAt(s, e).seq >= s.replies[c].seq}
        Later(e, e2) == e[1] > e2[1] \/ (e[1] = e2[1] /\ e[2] >= e2[2])
        Last(c) == CHOOSE e \in At(c) : \A e2 \in At(c) :
                      \/ RequestAt(s, e).seq > RequestAt(s, e2).seq
                      \/ RequestAt(s, e).seq = RequestAt(s, e2).seq /\ Later(e, e2)
    IN  [s EXCEPT !.replies = [c \in Clients |->
            IF At(c) = {} THEN s.replies[c]
            ELSE [seq |-> RequestAt(s, Last(c)).seq, reply |-> Result(s, Last(c))]]]

(* Mutant: numbers that are not committed yet are skipped. *)
ExecuteSkipping(s) ==
    LET upTo == Max({s.commitNum} \cup {i \in DOMAIN s.log : s.log[i].committed})
        executed == [s EXCEPT !.commitNum = upTo,
                              !.app = @ \o SelectSeq([i \in 1..(upTo - s.commitNum) |->
                                  IF s.log[s.commitNum + i].committed
                                  THEN s.log[s.commitNum + i].batch ELSE <<>>],
                                  LAMBDA b : b # <<>>)]
    IN  StoreReplies(executed, Len(s.app) + 1)

(* The loops at the end of insert_commit: execute what is committed, then  *)
(* close batches.                                                          *)
Execute(s) ==
    LET upTo == Max({m \in s.commitNum..Len(s.log) :
                        \A i \in s.commitNum + 1 .. m : s.log[i].committed})
        executed == [s EXCEPT !.commitNum = upTo,
                              !.app = @ \o [i \in 1..(upTo - s.commitNum) |->
                                               s.log[s.commitNum + i].batch]]
    IN  StoreReplies(executed, s.commitNum + 1)

CloseBatches(s, r) ==
    LET wanted == (Len(s.requests) + MaxBatch - 1) \div MaxBatch
        allowed == s.commitNum + NUM_CONCURRENT_PRE_PREPARE + 1
    IN  IF IsPrimary(r) /\ s.opNum < allowed
        THEN CloseBatch(s, Min({wanted, allowed - s.opNum}))
        ELSE s

(* insert_commit by replica r *)
InsertCommit(s, r, p) ==
    LET quorums == Inserted(s.commits, p)
    IN  IF ~HasCommitQuorum(quorums, p.op) \/ ~HasEntry(s, p.op)
        THEN [s EXCEPT !.commits = quorums]
        ELSE IF s.log[p.op].committed
        THEN Panic(s)
        ELSE IF ~s.log[p.op].prepared
        THEN [s EXCEPT !.commits = quorums]
        ELSE CloseBatches(Execute([s EXCEPT !.commits = quorums \ Quorum(quorums, p.op),
                                            !.log[p.op].committed = TRUE]), r)

(* submit_commit *)
SubmitCommit(s, p) ==
    HasEntry(s, p.op) => ~s.log[p.op].committed /\ s.log[p.op].batch \in {<<>>, p.digest}

WithoutKey(f, op) == [o \in DOMAIN f \ {op} |-> f[o]]

(* Recv<Prepare>, Recv<Commit>: a message waits while another one of its   *)
(* number is being verified, and otherwise is verified if worth it.        *)
PushPrepare(s, p) ==
    IF p.op \in DOMAIN s.pendingPrepares
    THEN [s EXCEPT !.pendingPrepares[p.op] = Append(@, p)]
    ELSE IF SubmitPrepare(s, p)
    THEN [s EXCEPT !.pendingPrepares = WithKey(@, p.op, <<>>), !.tasks = @ \cup {Verify(p)}]
    ELSE s

PushCommit(s, p) ==
    IF p.op \in DOMAIN s.pendingCommits
    THEN [s EXCEPT !.pendingCommits[p.op] = Append(@, p)]
    ELSE IF SubmitCommit(s, p)
    THEN [s EXCEPT !.pendingCommits = WithKey(@, p.op, <<>>), !.tasks = @ \cup {Verify(p)}]
    ELSE s

(* Mutant: the waiting votes are dropped with the list. *)
PopPrepareDropping(s, op) == [s EXCEPT !.pendingPrepares = WithoutKey(@, op)]

(* The loop that takes messages off the end of the pending list until one  *)
(* of them is submitted.                                                   *)
PopPrepare(s, op) ==
    LET list == s.pendingPrepares[op]
        good == {i \in DOMAIN list : SubmitPrepare(s, list[i])}
    IN  IF op \notin DOMAIN s.pendingPrepares THEN s
        ELSE IF good = {}
        THEN [s EXCEPT !.pendingPrepares = WithoutKey(@, op)]
        ELSE [s EXCEPT !.pendingPrepares[op] = SubSeq(@, 1, Max(good) - 1),
                       !.tasks = @ \cup {Verify(list[Max(good)])}]

PopCommit(s, op) ==
    LET list == s.pendingCommits[op]
        good == {i \in DOMAIN list : SubmitCommit(s, list[i])}
    IN  IF op \notin DOMAIN s.pendingCommits THEN s
        ELSE IF good = {}
        THEN [s EXCEPT !.pendingCommits = WithoutKey(@, op)]
        ELSE [s EXCEPT !.pendingCommits[op] = SubSeq(@, 1, Max(good) - 1),
                       !.tasks = @ \cup {Verify(list[Max(good)])}]

(* The replies sent while the state of a replica went from s to t. *)
Replies(r, s, t) ==
    {[client |-> RequestAt(t, e).client, seq |-> RequestAt(t, e).seq,
      result |-> Result(t, e), from |-> r] : e \in Executed(t, Len(s.app) + 1)}

-----------------------------------------------------------------------------
(* The handlers of a replica.  A replica that panicked or stopped handles  *)
(* nothing.                                                                *)

Runs(r) == r \in Alive /\ ~replica[r].panicked

(* Message e of the given type is received by r, for the last time or not. *)
Receive(r, e, type) ==
    /\ Runs(r)
    /\ r \in Slow \/ replica[r].tasks = {}
    /\ e.dst = r /\ e.body.type = type
    /\ \/ toReplica' = toReplica \ {e} /\ UNCHANGED dups
       \/ dups < MaxDup /\ dups' = dups + 1 /\ UNCHANGED toReplica
    /\ UNCHANGED <<seq, invoke, results, bad>>

(* The worker finished task t of r, and r handles the event. *)
Finish(r, t, kind, type) ==
    /\ Runs(r)
    /\ t \in replica[r].tasks
    /\ t.kind = kind /\ t.msg.type = type
    /\ UNCHANGED <<seq, invoke, results, dups, bad>>

Done(r, t) == [replica[r] EXCEPT !.tasks = @ \ {t}]

(* net.send(All, ...) *)
SendAll(r, m) == toReplica' = toReplica \cup {Envelope(d, m) : d \in Alive \ {r}}

(* Mutant: the request being handled counts as new. *)
KnownBelow(s, q) == q.seq < s.replies[q.client].seq

(* The first two arms of the match: the request is not new. *)
Known(s, q) == q.seq <= s.replies[q.client].seq

Accept(s, q) ==
    LET queued == [s EXCEPT !.replies[q.client] = [seq |-> q.seq, reply |-> None],
                            !.requests = Append(@, q)]
    IN  IF s.opNum < s.commitNum + NUM_CONCURRENT_PRE_PREPARE THEN CloseBatch(queued, 1) ELSE queued

RecvRequest(r, e) ==
    LET q == e.body.req
        s == replica[r]
        stored == s.replies[q.client]
    IN  /\ Receive(r, e, "Request")
        /\ replica' = [replica EXCEPT ![r] =
               IF Known(s, q) THEN s ELSE IF IsPrimary(r) THEN Accept(s, q) ELSE Panic(s)]
        /\ toClient' = IF q.seq = stored.seq /\ stored.reply # None
                       THEN toClient \cup {[client |-> q.client, seq |-> q.seq,
                                            result |-> stored.reply, from |-> r]}
                       ELSE toClient

SignedPrePrepare(r, t) ==
    LET s == Done(r, t)
    IN  /\ Finish(r, t, "Sign", "PrePrepare")
        /\ InOrder => t.msg.op <= Len(s.log) + 1
        /\ IF HasBatch(s, t.msg.op)
           THEN replica' = [replica EXCEPT ![r] = Panic(s)] /\ UNCHANGED toReplica
           ELSE /\ replica' = [replica EXCEPT ![r] =
                      [s EXCEPT !.log = [Resize(@, t.msg.op) EXCEPT ![t.msg.op].batch = t.msg.digest]]]
                /\ SendAll(r, t.msg)
        /\ UNCHANGED toClient

RecvPrePrepare(r, e) ==
    /\ Receive(r, e, "PrePrepare")
    /\ replica' = IF HasBatch(replica[r], e.body.op) THEN replica
                  ELSE [replica EXCEPT ![r].tasks = @ \cup {Verify(e.body)}]
    /\ UNCHANGED toClient

VerifiedPrePrepare(r, t) ==
    LET s == Done(r, t)
        op == t.msg.op
        Retained(quorums) == {q \in quorums : q.op = op => q.digest = t.msg.digest}
    IN  /\ Finish(r, t, "Verify", "PrePrepare")
        /\ InOrder => op <= Len(s.log) + 1
        /\ replica' = [replica EXCEPT ![r] =
               IF HasBatch(s, op) THEN s
               ELSE [s EXCEPT !.log = [Resize(@, op) EXCEPT ![op].batch = t.msg.digest],
                              !.tasks = @ \cup {Sign(Prepare(op, t.msg.digest, r))},
                              !.prepares = Retained(@),
                              !.commits = Retained(@)]]
        /\ UNCHANGED <<toReplica, toClient>>

SignedPrepare(r, t) ==
    LET s == Done(r, t)
    IN  /\ Finish(r, t, "Sign", "Prepare")
        /\ SendAll(r, t.msg)
        /\ replica' = [replica EXCEPT ![r] =
               IF s.log[t.msg.op].prepared THEN s ELSE InsertPrepare(s, r, t.msg)]
        /\ UNCHANGED toClient

RecvPrepare(r, e) ==
    /\ Receive(r, e, "Prepare")
    /\ replica' = [replica EXCEPT ![r] = PushPrepare(@, e.body)]
    /\ UNCHANGED toClient

VerifiedPrepare(r, t) ==
    /\ Finish(r, t, "Verify", "Prepare")
    /\ replica' = [replica EXCEPT ![r] = PopPrepare(InsertPrepare(Done(r, t), r, t.msg), t.msg.op)]
    /\ UNCHANGED <<toReplica, toClient>>

SignedCommit(r, t) ==
    LET s == Done(r, t)
        s2 == IF s.log[t.msg.op].committed THEN s ELSE InsertCommit(s, r, t.msg)
    IN  /\ Finish(r, t, "Sign", "Commit")
        /\ SendAll(r, t.msg)
        /\ replica' = [replica EXCEPT ![r] = s2]
        /\ toClient' = toClient \cup Replies(r, s, s2)

RecvCommit(r, e) ==
    /\ Receive(r, e, "Commit")
    /\ replica' = [replica EXCEPT ![r] = PushCommit(@, e.body)]
    /\ UNCHANGED toClient

VerifiedCommit(r, t) ==
    LET s == Done(r, t)
        s2 == InsertCommit(s, r, t.msg)
    IN  /\ Finish(r, t, "Verify", "Commit")
        /\ replica' = [replica EXCEPT ![r] = PopCommit(s2, t.msg.op)]
        /\ toClient' = toClient \cup Replies(r, s, s2)
        /\ UNCHANGED toReplica

(* The signature does not verify: the task ends without an event. *)
VerifyFails(r, t) ==
    /\ Runs(r)
    /\ bad < MaxBad /\ bad' = bad + 1
    /\ t \in replica[r].tasks /\ t.kind = "Verify"
    /\ replica' = [replica EXCEPT ![r] = Done(r, t)]
    /\ UNCHANGED <<seq, invoke, results, toReplica, toClient, dups>>

-----------------------------------------------------------------------------
Recv(r) ==
    \E e \in toReplica :
        \/ RecvRequest(r, e)
        \/ RecvPrePrepare(r, e)
        \/ RecvPrepare(r, e)
        \/ RecvCommit(r, e)

Crypto(r) ==
    \E t \in replica[r].tasks :
        \/ SignedPrePrepare(r, t)
        \/ VerifiedPrePrepare(r, t)
        \/ SignedPrepare(r, t)
        \/ VerifiedPrepare(r, t)
        \/ SignedCommit(r, t)
        \/ VerifiedCommit(r, t)

RecvReply(c) == \E m \in toClient : ClientRecvReply(c, m)

Next ==
    \/ \E c \in Clients : ClientInvoke(c) \/ RecvReply(c)
    \/ \E r \in Alive : Recv(r) \/ Crypto(r)
    \/ \E r \in Alive : \E t \in replica[r].tasks : VerifyFails(r, t)

Spec == Init /\ [][Next]_vars

(* When Recv(r) and Crypto(r) are enabled. *)
CanRecv(r) == Runs(r) /\ (r \in Slow \/ replica[r].tasks = {}) /\ \E e \in toReplica : e.dst = r

CanCrypto(r) ==
    /\ Runs(r)
    /\ \E t \in replica[r].tasks :
          InOrder /\ t.msg.type = "PrePrepare" => t.msg.op <= Len(replica[r].log) + 1

(* A connected network delivers what it is given, a worker that is running *)
(* ends its tasks, and the close loop invokes again: weak fairness of      *)
(* every actor, written out for the replicas with what enables them.       *)
Fairness ==
    /\ \A c \in Clients : WF_vars(ClientInvoke(c)) /\ WF_vars(RecvReply(c))
    /\ \A r \in Alive : <>[]CanRecv(r) => []<><<Recv(r)>>_vars
    /\ \A r \in Alive : <>[]CanCrypto(r) => []<><<Crypto(r)>>_vars

FairSpec == Spec /\ Fairness

-----------------------------------------------------------------------------
(* Properties *)

Requests == [client : Clients, seq : 1..MaxSeq]

Batches == Seq(Requests)

Results == [history : Seq(Batches), index : Nat]

(* Option::None is no reply, and no replies by replica. *)
ASSUME NoneAssumption ==
    None \notin Results /\ \A rs \in SUBSET Replicas : None \notin [rs -> Results]

Messages(from) ==
    [type : {"PrePrepare"}, op : Nat \ {0}, digest : Batches]
      \cup [type : {"Prepare", "Commit"}, op : Nat \ {0}, digest : Batches, from : from]

LogEntries == [batch : Batches, prepared : BOOLEAN, committed : BOOLEAN]

(* Types of the state.  A backup keeps no queue of requests and counts no  *)
(* numbers of its own; what a replica signs is its own.                    *)
TypeOK ==
    /\ seq \in [Clients -> 0..MaxSeq]
    /\ \A c \in Clients :
          /\ invoke[c] = None \/ \E rs \in SUBSET Replicas : invoke[c] \in [rs -> Results]
          /\ results[c] \in Seq(Results)
    /\ \A r \in Replicas :
          /\ \A c \in Clients :
                /\ replica[r].replies[c].seq \in 0..seq[c]
                /\ replica[r].replies[c].reply \in Results \cup {None}
          /\ replica[r].requests \in Batches
          /\ replica[r].opNum \in Nat /\ replica[r].commitNum \in Nat
          /\ ~IsPrimary(r) => replica[r].requests = <<>> /\ replica[r].opNum = 0
          /\ replica[r].log \in Seq(LogEntries)
          /\ replica[r].prepares \subseteq Messages(Replicas \ {Primary})
          /\ replica[r].commits \subseteq Messages(Replicas)
          /\ replica[r].app \in Seq(Batches)
          /\ \A t \in replica[r].tasks :
                \/ t.kind = "Sign" /\ t.msg \in Messages({r})
                \/ t.kind = "Verify" /\ t.msg \in Messages(Replicas \ {r})
    /\ \A e \in toReplica :
          /\ e.dst \in Alive
          /\ \/ e.body.type = "Request" /\ e.body.req \in Requests
             \/ e.body \in Messages(Replicas \ {e.dst})
    /\ \A m \in toClient :
          m.client \in Clients /\ m.seq \in 1..MaxSeq /\ m.result \in Results /\ m.from \in Alive

(* No replica reaches an assertion of pbft.rs that fails (382: a number is *)
(* signed twice; 575, 704: a quorum completes a second time although a     *)
(* vote was still being verified when it completed the first time) or the  *)
(* todo!() of a backup that gets a request.                                *)
NoPanic == \A r \in Replicas : ~replica[r].panicked

(* Every request a replica executed, it executed once, however often it    *)
(* was delivered to the primary.                                           *)
ExecutedOnce ==
    \A r \in Replicas :
        \A d, e \in Executed(replica[r], 1) :
            RequestAt(replica[r], d) = RequestAt(replica[r], e) => d = e

(* No two replicas execute different batches under the same number. *)
ExecutionAgreement ==
    \A r1, r2 \in Replicas :
        \A i \in DOMAIN replica[r1].app \cap DOMAIN replica[r2].app :
            replica[r1].app[i] = replica[r2].app[i]

(* A number is prepared by a replica only when n - f replicas hold its     *)
(* pre-prepare, and committed only when n - f replicas are prepared, which *)
(* is what a later view would have to find again.                          *)
QuorumBacked ==
    \A r \in Replicas : \A op \in DOMAIN replica[r].log :
        /\ replica[r].log[op].prepared =>
              Cardinality({d \in Replicas : HasBatch(replica[d], op)}) >= N - F
        /\ replica[r].log[op].committed =>
              Cardinality({d \in Replicas : HasEntry(replica[d], op) /\ replica[d].log[op].prepared})
                >= N - F

(* A replica that notes a request of a client as accepted (which makes it  *)
(* ignore the request from then on) still has it queued, being signed or   *)
(* in the log.                                                             *)
AcceptedNotForgotten ==
    \A r \in Replicas : \A c \in Clients :
        LET s == replica[r]
            request == [client |-> c, seq |-> s.replies[c].seq]
            In(batch) == \E i \in DOMAIN batch : batch[i] = request
        IN  (request.seq > 0 /\ s.replies[c].reply = None) =>
                \/ In(s.requests)
                \/ \E t \in s.tasks : t.kind = "Sign" /\ t.msg.type = "PrePrepare" /\ In(t.msg.digest)
                \/ \E op \in DOMAIN s.log : op > s.commitNum /\ In(s.log[op].batch)

(* The comments at 493 and 545: an entry in pending_prepares (or           *)
(* pending_commits) says there is an ongoing task for the number, so that  *)
(* the votes that wait there are taken up.  It is true as long as every    *)
(* signature verifies: a task that fails (519) leaves its entry behind.    *)
PendingMeansOngoing ==
    bad = 0 => \A r \in Replicas :
        LET Verifying(type) == {t \in replica[r].tasks : t.kind = "Verify" /\ t.msg.type = type}
        IN  /\ \A op \in DOMAIN replica[r].pendingPrepares :
                  \E t \in Verifying("Prepare") : t.msg.op = op
            /\ \A op \in DOMAIN replica[r].pendingCommits :
                  \E t \in Verifying("Commit") : t.msg.op = op

(* At most one vote per number is being verified, and every vote being     *)
(* verified is noted as pending: the invariant the asserts at 575 and 704  *)
(* rest on.                                                                *)
OneVerification ==
    \A r \in Replicas :
        \A t \in replica[r].tasks : t.kind = "Verify" /\ t.msg.type # "PrePrepare" =>
            /\ t.msg.op \in DOMAIN (IF t.msg.type = "Prepare" THEN replica[r].pendingPrepares
                                                             ELSE replica[r].pendingCommits)
            /\ \A u \in replica[r].tasks :
                  u.kind = "Verify" /\ u.msg.type = t.msg.type /\ u.msg.op = t.msg.op => u = t

(* Votes are verified one at a time and not left behind, and what they     *)
(* lead to is backed: whatever the order of messages and crypto tasks,     *)
(* with a repeated message and a bad signature among them.                 *)
VotesRight == TypeOK /\ OneVerification /\ PendingMeansOngoing /\ QuorumBacked

(* A request that the primary accepted is neither lost nor executed twice, *)
(* however often it is delivered (the match at 321).                       *)
RequestsKept == AcceptedNotForgotten /\ ExecutedOnce

(* The comment at 571: "postpone entering "prepared" until receiving       *)
(* pre-prepare".                                                           *)
PreparedHasPrePrepare ==
    \A r \in Replicas : \A op \in DOMAIN replica[r].log :
        replica[r].log[op].prepared => replica[r].log[op].batch # <<>>

(* Every call of every client completes. *)
AllDone == \A c \in Clients : <>(Len(results[c]) = MaxSeq)
=============================================================================
