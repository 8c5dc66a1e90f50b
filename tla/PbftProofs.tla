------------------------------ MODULE PbftProofs ------------------------------
(***************************************************************************)
(* Proofs about Pbft.tla, for any number of replicas, faults, clients,     *)
(* requests, repeated deliveries and bad signatures.                       *)
(*                                                                         *)
(* The inductive invariant IInv says of every replica, in Local, what its  *)
(* own state may look like, relative to a "world" M: the requests invoked, *)
(* the pre-prepares the primary has logged, and the prepares and commits   *)
(* that the state of their senders justifies. The world of a state is read *)
(* off the logs (TheWorld), and since logs only grow (Grows) so does the   *)
(* world (WorldOfGrows): what a replica has been told stays true, however  *)
(* late, often or disordered a message or a finished crypto task arrives.  *)
(*                                                                         *)
(* The proof goes from the methods of one replica, against a fixed world,  *)
(* to the handlers, to the theorems.                                       *)
(***************************************************************************)
EXTENDS Pbft, FiniteSetTheorems, WellFoundedInduction, SequenceTheorems, TLAPS

-----------------------------------------------------------------------------
(***************************************************************************)
(* The inductive invariant, part by part.                                  *)
(***************************************************************************)

(* The fields of a replica. *)
Fields == {"replies", "requests", "opNum", "log", "prepares", "commits", "commitNum", "app",
           "pendingPrepares", "pendingCommits", "tasks", "panicked"}

(* The entries of a log, the pre-prepares and the votes, over a set R of   *)
(* requests.                                                               *)
Entries(R) == [batch : Seq(R), prepared : BOOLEAN, committed : BOOLEAN]
PrePrepares(R) == [type : {"PrePrepare"}, op : Nat \ {0}, digest : Seq(R) \ {<<>>}]
Votes(type, from, R) == [type : {type}, op : Nat \ {0}, digest : Seq(R), from : from]

(* A quorum is a map by replica in the code: no sender has two votes about *)
(* a number.                                                               *)
OnePerSender(Q) == \A p, q \in Q : p.op = q.op /\ p.from = q.from => p = q

(* The votes about op of the given type that s has under verification. *)
Verifying(s, type, op) ==
  {t \in s.tasks : t.kind = "Verify" /\ t.msg.type = type /\ t.msg.op = op}

(* What there is to know of the rest of the system: the requests invoked   *)
(* (req), the pre-prepares (pre), the prepares (prep) and the commits      *)
(* (com) that may be around.                                               *)
World(M) ==
  /\ M.req \subseteq Requests
  /\ M.pre \subseteq PrePrepares(M.req)
  /\ M.prep \subseteq Votes("Prepare", Replicas \ {Primary}, M.req)
  /\ M.com \subseteq Votes("Commit", Replicas, M.req)

(* The replies table notes only requests that were invoked. *)
RepliesTyped(replies, R) ==
  /\ replies \in [Clients -> [seq : Nat, reply : Results \cup {None}]]
  /\ \A c \in Clients : replies[c].seq = 0 \/ [client |-> c, seq |-> replies[c].seq] \in R

(* The queue of requests and the last number proposed; a backup has        *)
(* neither.                                                                *)
Queue(s, r, M) ==
  /\ s.requests \in Seq(M.req) /\ s.opNum \in Nat
  /\ ~IsPrimary(r) => s.requests = <<>> /\ s.opNum = 0
  /\ RepliesTyped(s.replies, M.req)

(* The log holds the batches of the primary; without gaps when pre-        *)
(* prepares are verified in order.                                         *)
LogRight(s, r, M) ==
  /\ s.log \in Seq(Entries(M.req))
  /\ \A op \in 1..Len(s.log) :
        /\ ~IsPrimary(r) /\ s.log[op].batch # <<>> => PrePrepare(op, s.log[op].batch) \in M.pre
        /\ InOrder => s.log[op].batch # <<>>

(* A number is prepared or committed in the log for a quorum of votes that *)
(* exist.                                                                  *)
Certified(s, M) ==
  \A op \in 1..Len(s.log) :
     /\ s.log[op].prepared => \E Q \in SUBSET M.prep : OnePerSender(Q) /\ HasPrepareQuorum(Q, op)
     /\ s.log[op].committed => \E Q \in SUBSET M.com : OnePerSender(Q) /\ HasCommitQuorum(Q, op)

(* What was executed is the committed prefix of the log. An entry that was *)
(* executed before its pre-prepare arrived counts as an empty batch.       *)
AppRight(s, M) ==
  /\ s.app \in Seq(Seq(M.req)) /\ s.commitNum = Len(s.app) /\ Len(s.app) <= Len(s.log)
  /\ \A i \in 1..Len(s.app) :
        /\ s.log[i].committed
        /\ s.app[i] # <<>> => s.app[i] = s.log[i].batch
        /\ InOrder => s.app[i] # <<>>

(* The votes gathered exist, one per sender. *)
Quorums(s, M) ==
  /\ s.prepares \subseteq M.prep /\ OnePerSender(s.prepares)
  /\ s.commits \subseteq M.com /\ OnePerSender(s.commits)

(* The votes that wait to be verified exist, and are not the replica's     *)
(* own.                                                                    *)
Pending(s, r, M) ==
  /\ \A op \in DOMAIN s.pendingPrepares :
        s.pendingPrepares[op] \in Seq({p \in M.prep : p.op = op /\ p.from # r})
  /\ \A op \in DOMAIN s.pendingCommits :
        s.pendingCommits[op] \in Seq({p \in M.com : p.op = op /\ p.from # r})

(* What the crypto worker of r is asked to sign or to verify: a prepare is *)
(* signed once there is the pre-prepare, a commit once the number is       *)
(* prepared.                                                               *)
TaskRight(t, s, r, M) ==
  \/ t.kind = "Sign" /\ IsPrimary(r) /\ t.msg \in PrePrepares(M.req)
  \/ t.kind = "Verify" /\ ~IsPrimary(r) /\ t.msg \in M.pre
  \/ t.kind = "Sign" /\ ~IsPrimary(r) /\ t.msg \in Votes("Prepare", {r}, M.req) /\ HasBatch(s, t.msg.op)
  \/ t.kind = "Verify" /\ t.msg \in M.prep /\ t.msg.from # r
  \/ t.kind = "Sign" /\ t.msg \in Votes("Commit", {r}, M.req)
       /\ HasEntry(s, t.msg.op) /\ s.log[t.msg.op].prepared
  \/ t.kind = "Verify" /\ t.msg \in M.com /\ t.msg.from # r

Tasks(s, r, M) == \A t \in s.tasks : TaskRight(t, s, r, M)

(* One vote per number is being verified, and its number is noted as       *)
(* pending.                                                                *)
OneAtATime(s) ==
  \A t \in s.tasks :
    /\ t.kind = "Verify" /\ t.msg.type = "Prepare" =>
         t.msg.op \in DOMAIN s.pendingPrepares /\ Verifying(s, "Prepare", t.msg.op) = {t}
    /\ t.kind = "Verify" /\ t.msg.type = "Commit" =>
         t.msg.op \in DOMAIN s.pendingCommits /\ Verifying(s, "Commit", t.msg.op) = {t}

AtMostOne(Q) == \A p, q \in Q : p = q

(* Once a number is prepared at most one prepare is left, verified or      *)
(* being verified, and the same of commits: never again a quorum, which is *)
(* what the asserts at 575 and 704 of pbft.rs need.                        *)
LeftOver(s) ==
  \A op \in 1..Len(s.log) :
    /\ s.log[op].prepared =>
         /\ AtMostOne(Quorum(s.prepares, op))
         /\ Verifying(s, "Prepare", op) # {} => Quorum(s.prepares, op) = {}
    /\ s.log[op].committed =>
         /\ AtMostOne(Quorum(s.commits, op))
         /\ Verifying(s, "Commit", op) # {} => Quorum(s.commits, op) = {}

(* The primary signs one pre-prepare for a number, and none for a number   *)
(* it has logged, which is what the assert at 382 needs.                   *)
SignedOnce(s, r) ==
  IsPrimary(r) =>
    /\ Len(s.log) <= s.opNum
    /\ \A t \in s.tasks : t.kind = "Sign" /\ t.msg.type = "PrePrepare" =>
         /\ t.msg.op <= s.opNum /\ ~HasBatch(s, t.msg.op)
         /\ \A u \in s.tasks :
              u.kind = "Sign" /\ u.msg.type = "PrePrepare" /\ u.msg.op = t.msg.op => u = t

(* All that is said of one replica. *)
Local(s, r, M) ==
  /\ DOMAIN s = Fields /\ s.panicked = FALSE
  /\ Queue(s, r, M) /\ LogRight(s, r, M) /\ Certified(s, M) /\ AppRight(s, M) /\ Quorums(s, M)
  /\ Pending(s, r, M) /\ Tasks(s, r, M) /\ OneAtATime(s) /\ LeftOver(s) /\ SignedOnce(s, r)

(* The requests invoked so far. *)
InvokedBy(sq) == {q \in Requests : q.seq <= sq[q.client]}

(* The world of a state: a vote is justified by the log of its sender. *)
WorldOf(sq, rep) ==
  [req |-> InvokedBy(sq),
   pre |-> {m \in PrePrepares(InvokedBy(sq)) :
              HasEntry(rep[Primary], m.op) /\ rep[Primary].log[m.op].batch = m.digest},
   prep |-> {p \in Votes("Prepare", Replicas \ {Primary}, InvokedBy(sq)) : HasBatch(rep[p.from], p.op)},
   com |-> {p \in Votes("Commit", Replicas, InvokedBy(sq)) :
              HasEntry(rep[p.from], p.op) /\ rep[p.from].log[p.op].prepared}]

TheWorld == WorldOf(seq, replica)

(* A message on its way is one of the world, and at most for others than   *)
(* its sender.                                                             *)
MessageRight(e, M) ==
  /\ e.dst \in Alive
  /\ \/ e.body.type = "Request" /\ e.body.req \in M.req /\ e.dst = Primary
     \/ e.body \in M.pre /\ e.dst # Primary
     \/ e.body \in M.prep /\ e.body.from # e.dst
     \/ e.body \in M.com /\ e.body.from # e.dst

NetRight == \A e \in toReplica : MessageRight(e, TheWorld)

RepliesRight ==
  \A m \in toClient :
     m.client \in Clients /\ m.seq \in 1..MaxSeq /\ m.result \in Results /\ m.from \in Alive

(* The replies of some replicas to a call. *)
Gathered == UNION {[rs -> Results] : rs \in SUBSET Replicas}

ClientsRight ==
  /\ seq \in [Clients -> 0..MaxSeq]
  /\ DOMAIN invoke = Clients /\ DOMAIN results = Clients
  /\ \A c \in Clients :
          /\ invoke[c] \in Gathered \cup {None}
          /\ results[c] \in Seq(Results)

IInv == /\ ClientsRight /\ NetRight /\ RepliesRight /\ DOMAIN replica = Replicas
        /\ \A r \in Replicas : Local(replica[r], r, TheWorld)

-----------------------------------------------------------------------------
(***************************************************************************)
(* Facts about sequences and logs.                                         *)
(***************************************************************************)

LEMMA MaxOfBounded ==
  ASSUME NEW S \in SUBSET Nat, NEW n \in Nat, S # {}, \A x \in S : x <= n
  PROVE  Max(S) \in S /\ \A x \in S : x <= Max(S)
<1> DEFINE T == {d \in 0..n : n - d \in S}
<1>1. T \subseteq Nat /\ T # {}
  <2>1. PICK x \in S : TRUE
    OBVIOUS
  <2>2. n - x \in T
    OBVIOUS
  <2> QED
    BY <2>2
<1>2. PICK d \in T : \A e \in T : ~(<<e, d>> \in OpToRel(<, Nat))
  BY <1>1, NatLessThanWellFounded, WFMin
<1>3. \A e \in T : ~(e < d)
  BY <1>1, <1>2 DEF OpToRel
<1>4. \A x \in S : n - d >= x
  <2> SUFFICES ASSUME NEW x \in S PROVE n - d >= x
    OBVIOUS
  <2>1. n - x \in T
    OBVIOUS
  <2>2. d \in 0..n
    BY <1>2
  <2>3. ~(n - x < d)
    BY <1>3, <2>1
  <2> QED
    BY <2>2, <2>3
<1> QED
  BY <1>2, <1>4 DEF Max

LEMMA SeqUpdate ==
  ASSUME NEW S, NEW log \in Seq(S), NEW op \in 1..Len(log), NEW e \in S
  PROVE  /\ [log EXCEPT ![op] = e] \in Seq(S)
         /\ Len([log EXCEPT ![op] = e]) = Len(log)
         /\ \A i \in 1..Len(log) : [log EXCEPT ![op] = e][i] = IF i = op THEN e ELSE log[i]
<1>1. [log EXCEPT ![op] = e] \in Seq(S) /\ Len([log EXCEPT ![op] = e]) = Len(log)
  OBVIOUS
<1>2. \A i \in 1..Len(log) : [log EXCEPT ![op] = e][i] = IF i = op THEN e ELSE log[i]
  OBVIOUS
<1> QED
  BY <1>1, <1>2

(* The updates of a log entry that the handlers make. *)
SetPrepared(log, op) == [log EXCEPT ![op].prepared = TRUE]

LEMMA SetPreparedEffect ==
  ASSUME NEW R, NEW log \in Seq(Entries(R)), NEW op \in 1..Len(log)
  PROVE  /\ SetPrepared(log, op) \in Seq(Entries(R))
         /\ Len(SetPrepared(log, op)) = Len(log)
         /\ \A i \in 1..Len(log) :
              /\ SetPrepared(log, op)[i].batch = log[i].batch
              /\ SetPrepared(log, op)[i].committed = log[i].committed
              /\ SetPrepared(log, op)[i].prepared <=> i = op \/ log[i].prepared
<1> DEFINE e == [log[op] EXCEPT !.prepared = TRUE]
           new == [log EXCEPT ![op] = e]
<1>1. log[op] \in Entries(R)
  BY ElementOfSeq
<1>2. /\ e \in Entries(R) /\ e.batch = log[op].batch
      /\ e.committed = log[op].committed /\ e.prepared = TRUE
  BY <1>1 DEF Entries
<1>3. SetPrepared(log, op) = new
  BY DEF SetPrepared
<1> HIDE DEF e
<1>4. /\ new \in Seq(Entries(R))
      /\ Len(new) = Len(log)
      /\ \A i \in 1..Len(log) : new[i] = IF i = op THEN e ELSE log[i]
  BY <1>2, SeqUpdate
<1> HIDE DEF new
<1>5. \A i \in 1..Len(log) :
              /\ new[i].batch = log[i].batch
              /\ new[i].committed = log[i].committed
              /\ new[i].prepared <=> i = op \/ log[i].prepared
  BY <1>2, <1>4
<1> QED
  BY <1>3, <1>4, <1>5


SetCommitted(log, op) == [log EXCEPT ![op].committed = TRUE]

LEMMA SetCommittedEffect ==
  ASSUME NEW R, NEW log \in Seq(Entries(R)), NEW op \in 1..Len(log)
  PROVE  /\ SetCommitted(log, op) \in Seq(Entries(R))
         /\ Len(SetCommitted(log, op)) = Len(log)
         /\ \A i \in 1..Len(log) :
              /\ SetCommitted(log, op)[i].batch = log[i].batch
              /\ SetCommitted(log, op)[i].prepared = log[i].prepared
              /\ SetCommitted(log, op)[i].committed <=> i = op \/ log[i].committed
<1> DEFINE e == [log[op] EXCEPT !.committed = TRUE]
           new == [log EXCEPT ![op] = e]
<1>1. log[op] \in Entries(R)
  BY ElementOfSeq
<1>2. /\ e \in Entries(R) /\ e.batch = log[op].batch
      /\ e.prepared = log[op].prepared /\ e.committed = TRUE
  BY <1>1 DEF Entries
<1>3. SetCommitted(log, op) = new
  BY DEF SetCommitted
<1> HIDE DEF e
<1>4. /\ new \in Seq(Entries(R))
      /\ Len(new) = Len(log)
      /\ \A i \in 1..Len(log) : new[i] = IF i = op THEN e ELSE log[i]
  BY <1>2, SeqUpdate
<1> HIDE DEF new
<1>5. \A i \in 1..Len(log) :
              /\ new[i].batch = log[i].batch
              /\ new[i].prepared = log[i].prepared
              /\ new[i].committed <=> i = op \/ log[i].committed
  BY <1>2, <1>4
<1> QED
  BY <1>3, <1>4, <1>5

SetBatch(log, op, b) == [Resize(log, op) EXCEPT ![op].batch = b]

EntryAt(log, i) == IF i <= Len(log) THEN log[i] ELSE NoEntry

(* new is log with the batch b at number op. *)
BatchIsSet(log, op, b, R, new) ==
  /\ new \in Seq(Entries(R))
  /\ Len(new) = IF op <= Len(log) THEN Len(log) ELSE op
  /\ \A i \in 1..Len(new) :
        /\ new[i].batch = IF i = op THEN b ELSE EntryAt(log, i).batch
        /\ new[i].prepared = EntryAt(log, i).prepared
        /\ new[i].committed = EntryAt(log, i).committed

LEMMA SetBatchEffect ==
  ASSUME NEW R, NEW log \in Seq(Entries(R)), NEW op \in Nat \ {0}, NEW b \in Seq(R)
  PROVE  BatchIsSet(log, op, b, R, SetBatch(log, op, b))
<1> DEFINE n == IF op <= Len(log) THEN Len(log) ELSE op
           E(i) == EntryAt(log, i)
           old == Resize(log, op)
           e == [old[op] EXCEPT !.batch = b]
           new == [old EXCEPT ![op] = e]
<1>1. \A i \in 1..Len(log) : log[i] \in Entries(R)
  BY ElementOfSeq
<1>2. NoEntry \in Entries(R)
  BY DEF NoEntry, Entries
<1>3. Max({Len(log), op}) = n
  BY LenProperties DEF Max
<1>4. n \in Nat /\ op \in 1..n
  BY LenProperties
<1>5. old = [i \in 1..n |-> E(i)]
  BY <1>3 DEF Resize, EntryAt
<1>6. \A i \in 1..n : E(i) \in Entries(R)
  BY <1>1, <1>2, LenProperties DEF EntryAt
<1> HIDE DEF n, E, old
<1>7. old \in Seq(Entries(R)) /\ Len(old) = n /\ \A i \in 1..n : old[i] = E(i)
  BY <1>4, <1>5, <1>6
<1>8. old[op] \in Entries(R)
  BY <1>4, <1>6, <1>7
<1>9. /\ e \in Entries(R) /\ e.batch = b
      /\ e.committed = old[op].committed /\ e.prepared = old[op].prepared
  BY <1>8 DEF Entries
<1>10. SetBatch(log, op, b) = new
  BY DEF SetBatch, old
<1> HIDE DEF e
<1>11. /\ new \in Seq(Entries(R))
       /\ Len(new) = n
       /\ \A i \in 1..n : new[i] = IF i = op THEN e ELSE old[i]
  BY <1>4, <1>7, <1>9, SeqUpdate
<1> HIDE DEF new
<1>12. \A i \in 1..n : /\ new[i].batch = IF i = op THEN b ELSE E(i).batch
                       /\ new[i].prepared = E(i).prepared
                       /\ new[i].committed = E(i).committed
  BY <1>4, <1>7, <1>9, <1>11
<1> QED
  BY <1>10, <1>11, <1>12 DEF n, E, BatchIsSet

-----------------------------------------------------------------------------
(***************************************************************************)
(* The methods of a replica keep what is said of it, against a fixed world *)
(* M.                                                                      *)
(***************************************************************************)

LEMMA FewerTasks ==
  ASSUME NEW M, NEW r, NEW s, Local(s, r, M), NEW x
  PROVE  Local([s EXCEPT !.tasks = @ \ {x}], r, M)
<1> DEFINE t == [s EXCEPT !.tasks = @ \ {x}]
<1>1. /\ DOMAIN t = Fields
      /\ t.replies = s.replies /\ t.requests = s.requests /\ t.opNum = s.opNum /\ t.log = s.log
      /\ t.prepares = s.prepares
      /\ t.commits = s.commits /\ t.commitNum = s.commitNum /\ t.app = s.app
      /\ t.pendingPrepares = s.pendingPrepares /\ t.pendingCommits = s.pendingCommits
      /\ t.panicked = s.panicked
      /\ t.tasks = s.tasks \ {x}
  BY DEF Local, Fields
<1> HIDE DEF t
<1>2. Queue(t, r, M) /\ LogRight(t, r, M) /\ Pending(t, r, M)
  BY <1>1 DEF Local, Queue, LogRight, Pending
<1>10. Certified(t, M) /\ AppRight(t, M) /\ Quorums(t, M)
  BY <1>1 DEF Local, Certified, AppRight, Quorums
<1>3. Tasks(t, r, M)
  BY <1>1 DEF Local, Tasks, TaskRight, HasBatch, HasEntry
<1>4. OneAtATime(t)
  BY <1>1 DEF Local, OneAtATime, Verifying
<1>5. LeftOver(t)
  BY <1>1 DEF Local, LeftOver, Verifying
<1>6. SignedOnce(t, r)
  BY <1>1 DEF Local, SignedOnce, HasBatch, HasEntry
<1> QED
  BY <1>1, <1>2, <1>10, <1>3, <1>4, <1>5, <1>6 DEF Local, t

(* The log of t extends that of s: no entry loses its batch, or is no      *)
(* longer prepared or committed.                                           *)
Grows(s, t) ==
  /\ Len(s.log) <= Len(t.log)
  /\ \A op \in 1..Len(s.log) :
       /\ s.log[op].batch # <<>> => t.log[op].batch = s.log[op].batch
       /\ s.log[op].prepared => t.log[op].prepared
       /\ s.log[op].committed => t.log[op].committed

LEMMA AppKept ==
  ASSUME NEW M, NEW s, NEW t, AppRight(s, M), Grows(s, t), t.app = s.app, t.commitNum = s.commitNum,
         Len(s.log) \in Nat, Len(t.log) \in Nat
  PROVE  AppRight(t, M)
<1>1. Len(s.app) \in Nat /\ Len(s.app) <= Len(s.log) /\ Len(s.log) <= Len(t.log)
  BY LenProperties DEF AppRight, Grows
<1>2. \A i \in 1..Len(s.app) : i \in 1..Len(s.log)
  BY <1>1
<1>3. ASSUME NEW i \in 1..Len(s.app)
      PROVE  /\ t.log[i].committed
             /\ s.app[i] # <<>> => s.app[i] = t.log[i].batch
             /\ InOrder => s.app[i] # <<>>
  BY <1>2 DEF AppRight, Grows
<1> QED
  BY <1>1, <1>3 DEF AppRight

LEMMA TaskKept ==
  ASSUME NEW M, World(M), NEW r, NEW s, NEW t, NEW x, TaskRight(x, s, r, M), Grows(s, t),
         Len(s.log) \in Nat, Len(t.log) \in Nat
  PROVE  TaskRight(x, t, r, M) /\ x.msg.op \in Nat \ {0}
<1>1. \A op \in Nat \ {0} : HasEntry(s, op) => op \in 1..Len(s.log) /\ HasEntry(t, op)
  BY DEF HasEntry, Grows
<1>2. \A op \in Nat \ {0} : HasBatch(s, op) => HasBatch(t, op)
  BY <1>1 DEF HasBatch, Grows
<1>3. \A op \in Nat \ {0} : HasEntry(s, op) /\ s.log[op].prepared => t.log[op].prepared
  BY <1>1 DEF Grows
<1>4. x.msg.op \in Nat \ {0}
  BY DEF TaskRight, World, Votes, PrePrepares
<1> QED
  BY <1>1, <1>2, <1>3, <1>4 DEF TaskRight

LEMMA InsertedFacts ==
  ASSUME NEW V, NEW X, V \subseteq X, NEW p \in X, OnePerSender(V)
  PROVE  /\ Inserted(V, p) \subseteq X /\ OnePerSender(Inserted(V, p))
         /\ p \in Inserted(V, p)
         /\ \A op : op # p.op => Quorum(Inserted(V, p), op) = Quorum(V, op)
         /\ Quorum(V, p.op) = {} => Quorum(Inserted(V, p), p.op) = {p}
         /\ \A Q : OnePerSender(Inserted(V, p) \ Q)
<1>1. Inserted(V, p) \subseteq X /\ p \in Inserted(V, p)
  BY DEF Inserted
<1>2. OnePerSender(Inserted(V, p))
  BY DEF Inserted, OnePerSender
<1>3. \A op : op # p.op => Quorum(Inserted(V, p), op) = Quorum(V, op)
  BY DEF Inserted, Quorum
<1>4. Quorum(V, p.op) = {} => Quorum(Inserted(V, p), p.op) = {p}
  BY DEF Inserted, Quorum
<1>5. \A Q : OnePerSender(Inserted(V, p) \ Q)
  BY <1>2 DEF OnePerSender
<1> QED
  BY <1>1, <1>2, <1>3, <1>4, <1>5

LEMMA QuorumSize == N \in Nat /\ N - F \in Nat /\ N - F >= 3
  BY ReplicasAssumption, FS_CardinalityType DEF N

(* A vote that is left over is no quorum: n - f is three at least. *)
LEMMA OneIsNoQuorum ==
  ASSUME NEW V, NEW op, NEW p, Quorum(V, op) = {p}
  PROVE  ~HasPrepareQuorum(V, op) /\ ~HasCommitQuorum(V, op)
<1>1. Cardinality(Quorum(V, op)) = 1
  BY FS_Singleton
<1> QED
  BY <1>1, QuorumSize DEF HasPrepareQuorum, HasCommitQuorum

(* insert_prepare does not meet the assert at 575, provided a vote for a   *)
(* prepared number is the only one left.                                   *)
LEMMA InsertPrepareRight ==
  ASSUME NEW M, World(M), NEW r, NEW s, Local(s, r, M), NEW p \in M.prep,
         HasEntry(s, p.op) /\ s.log[p.op].prepared =>
            Quorum(s.prepares, p.op) = {} /\ Verifying(s, "Prepare", p.op) = {}
  PROVE  /\ Local(InsertPrepare(s, r, p), r, M)
         /\ Grows(s, InsertPrepare(s, r, p))
         /\ InsertPrepare(s, r, p).pendingPrepares = s.pendingPrepares
         /\ InsertPrepare(s, r, p).pendingCommits = s.pendingCommits
         /\ \A type, op : Verifying(InsertPrepare(s, r, p), type, op) = Verifying(s, type, op)
<1> DEFINE t == InsertPrepare(s, r, p)
           Q == Inserted(s.prepares, p)
<1>1. /\ Q \subseteq M.prep /\ OnePerSender(Q)
      /\ p \in Q
      /\ \A op : op # p.op => Quorum(Q, op) = Quorum(s.prepares, op)
      /\ Quorum(s.prepares, p.op) = {} => Quorum(Q, p.op) = {p}
      /\ \A V : OnePerSender(Q \ V)
  BY InsertedFacts DEF Local, Quorums
<1>2. p \in Votes("Prepare", Replicas \ {Primary}, M.req)
  BY DEF World
<1>3. p.op \in Nat \ {0} /\ p.digest \in Seq(M.req)
  BY <1>2 DEF Votes
<1>4. DOMAIN s = Fields /\ s.log \in Seq(Entries(M.req)) /\ Len(s.log) \in Nat
  BY LenProperties DEF Local, LogRight
<1>5. CASE ~HasPrepareQuorum(Q, p.op) \/ ~HasEntry(s, p.op)
  <2>1. t = [s EXCEPT !.prepares = Q]
    BY <1>5 DEF InsertPrepare
  <2>2. /\ DOMAIN t = Fields
        /\ t.replies = s.replies /\ t.requests = s.requests /\ t.opNum = s.opNum /\ t.log = s.log
        /\ t.prepares = Q
        /\ t.commits = s.commits /\ t.commitNum = s.commitNum /\ t.app = s.app
        /\ t.pendingPrepares = s.pendingPrepares /\ t.pendingCommits = s.pendingCommits
        /\ t.panicked = s.panicked /\ t.tasks = s.tasks
    BY <1>4, <2>1 DEF Fields
  <2> HIDE DEF t, Q
  <2>3. Queue(t, r, M) /\ LogRight(t, r, M) /\ Pending(t, r, M)
    BY <2>2 DEF Local, Queue, LogRight, Pending
  <2>10. Certified(t, M) /\ AppRight(t, M)
    BY <2>2 DEF Local, Certified, AppRight
  <2>4. Quorums(t, M)
    BY <1>1, <2>2 DEF Local, Quorums
  <2>5. Tasks(t, r, M)
    BY <2>2 DEF Local, Tasks, TaskRight, HasBatch, HasEntry
  <2>6. OneAtATime(t) /\ SignedOnce(t, r)
    BY <2>2 DEF Local, OneAtATime, Verifying, SignedOnce, HasBatch, HasEntry
  <2>7. \A type, op : Verifying(t, type, op) = Verifying(s, type, op)
    BY <2>2 DEF Verifying
  <2>8. LeftOver(t)
    <3> SUFFICES ASSUME NEW op \in 1..Len(s.log), s.log[op].prepared
                 PROVE  /\ AtMostOne(Quorum(Q, op))
                        /\ Verifying(s, "Prepare", op) # {} => Quorum(Q, op) = {}
      BY <2>2, <2>7 DEF Local, LeftOver
    <3>1. CASE op # p.op
      BY <1>1, <3>1 DEF Local, LeftOver
    <3>2. CASE op = p.op
      BY <1>1, <1>3, <3>2 DEF HasEntry, AtMostOne
    <3> QED
      BY <3>1, <3>2
  <2>9. Grows(s, t)
    BY <1>4, <2>2 DEF Grows
  <2> QED
    BY <2>2, <2>3, <2>10, <2>4, <2>5, <2>6, <2>7, <2>8, <2>9 DEF Local, t
<1>6. CASE HasPrepareQuorum(Q, p.op) /\ HasEntry(s, p.op)
  <2>0. p.op \in 1..Len(s.log)
    BY <1>3, <1>4, <1>6 DEF HasEntry
  <2>1. ~s.log[p.op].prepared
    BY <1>1, <1>6, OneIsNoQuorum
  <2>2. t = [s EXCEPT !.prepares = Q \ Quorum(Q, p.op),
                      !.log = SetPrepared(s.log, p.op),
                      !.tasks = @ \cup {Sign(Commit(p.op, p.digest, r))}]
    BY <1>6, <2>1 DEF InsertPrepare, SetPrepared
  <2>3. /\ DOMAIN t = Fields
        /\ t.replies = s.replies /\ t.requests = s.requests /\ t.opNum = s.opNum
        /\ t.log = SetPrepared(s.log, p.op)
        /\ t.prepares = Q \ Quorum(Q, p.op)
        /\ t.commits = s.commits /\ t.commitNum = s.commitNum /\ t.app = s.app
        /\ t.pendingPrepares = s.pendingPrepares /\ t.pendingCommits = s.pendingCommits
        /\ t.panicked = s.panicked
        /\ t.tasks = s.tasks \cup {Sign(Commit(p.op, p.digest, r))}
    BY <1>4, <2>2 DEF Fields
  <2> HIDE DEF t, Q
  <2>4. /\ t.log \in Seq(Entries(M.req)) /\ Len(t.log) = Len(s.log)
        /\ \A i \in 1..Len(s.log) :
              /\ t.log[i].batch = s.log[i].batch
              /\ t.log[i].committed = s.log[i].committed
              /\ t.log[i].prepared <=> i = p.op \/ s.log[i].prepared
    <3>1. /\ SetPrepared(s.log, p.op) \in Seq(Entries(M.req))
          /\ Len(SetPrepared(s.log, p.op)) = Len(s.log)
          /\ \A i \in 1..Len(s.log) :
                /\ SetPrepared(s.log, p.op)[i].batch = s.log[i].batch
                /\ SetPrepared(s.log, p.op)[i].committed = s.log[i].committed
                /\ SetPrepared(s.log, p.op)[i].prepared <=> i = p.op \/ s.log[i].prepared
      BY <1>4, <2>0, SetPreparedEffect
    <3> QED
      BY <2>3, <3>1
  <2>5. Grows(s, t)
    BY <1>4, <2>4 DEF Grows
  <2>6. Queue(t, r, M) /\ Pending(t, r, M)
    BY <2>3 DEF Local, Queue, Pending
  <2>7. LogRight(t, r, M)
    BY <2>4 DEF Local, LogRight
  <2>8. Certified(t, M)
    BY <1>1, <1>6, <2>4 DEF Local, Certified
  <2>9. AppRight(t, M)
    BY <1>4, <2>3, <2>4, <2>5, AppKept DEF Local
  <2>10. Quorums(t, M)
    BY <1>1, <2>3 DEF Local, Quorums
  <2>11. \A type, op : Verifying(t, type, op) = Verifying(s, type, op)
    BY <2>3 DEF Verifying, Sign
  <2>12. Tasks(t, r, M)
    <3>1. TaskRight(Sign(Commit(p.op, p.digest, r)), t, r, M)
      BY <1>3, <2>0, <2>4 DEF TaskRight, Sign, Commit, Votes, HasEntry
    <3>2. ASSUME NEW x \in s.tasks PROVE TaskRight(x, t, r, M)
      <4>1. TaskRight(x, s, r, M)
        BY DEF Local, Tasks
      <4> QED
        BY <1>4, <2>4, <2>5, <4>1, TaskKept
    <3> QED
      BY <2>3, <3>1, <3>2 DEF Tasks
  <2>13. OneAtATime(t)
    BY <2>3, <2>11 DEF Local, OneAtATime, Sign
  <2>14. LeftOver(t)
    <3>1. ASSUME NEW op \in 1..Len(s.log), t.log[op].prepared
          PROVE  /\ AtMostOne(Quorum(t.prepares, op))
                 /\ Verifying(s, "Prepare", op) # {} => Quorum(t.prepares, op) = {}
      <4>1. CASE op # p.op
        <5>1. Quorum(t.prepares, op) = Quorum(s.prepares, op)
          BY <1>1, <2>3, <4>1 DEF Quorum
        <5> QED
          BY <2>4, <3>1, <4>1, <5>1 DEF Local, LeftOver
      <4>2. CASE op = p.op
        BY <2>3, <4>2 DEF Quorum, AtMostOne
      <4> QED
        BY <4>1, <4>2
    <3> QED
      BY <2>3, <2>4, <2>11, <3>1 DEF Local, LeftOver
  <2>15. SignedOnce(t, r)
    <3>1. \A op \in Nat \ {0} : HasBatch(t, op) => HasBatch(s, op)
      BY <1>4, <2>4 DEF HasBatch, HasEntry
    <3>2. \A x \in s.tasks : x.msg.op \in Nat \ {0}
      BY DEF Local, Tasks, TaskRight, Votes, PrePrepares, World
    <3> QED
      BY <2>3, <2>4, <3>1, <3>2 DEF Local, SignedOnce, Sign, Commit
  <2> QED
    BY <2>3, <2>5, <2>6, <2>7, <2>8, <2>9, <2>10, <2>11, <2>12, <2>13, <2>14, <2>15 DEF Local, t
<1> QED
  BY <1>5, <1>6

LEMMA VerifyingPrepare ==
  ASSUME NEW M, World(M), NEW r, NEW s, Local(s, r, M), NEW f, NEW T,
         T # {} => \E p \in M.prep :
            /\ T = {Verify(p)} /\ p.from # r /\ p.op \in DOMAIN f
            /\ SubmitPrepare(s, p) /\ Verifying(s, "Prepare", p.op) = {},
         \A op \in DOMAIN f : f[op] \in Seq({p \in M.prep : p.op = op /\ p.from # r}),
         \A op : Verifying(s, "Prepare", op) # {} => op \in DOMAIN f
  PROVE  Local([s EXCEPT !.pendingPrepares = f, !.tasks = @ \cup T], r, M)
<1> DEFINE t == [s EXCEPT !.pendingPrepares = f, !.tasks = @ \cup T]
<1>1. /\ DOMAIN t = Fields
      /\ t.replies = s.replies /\ t.requests = s.requests /\ t.opNum = s.opNum /\ t.log = s.log
      /\ t.prepares = s.prepares
      /\ t.commits = s.commits /\ t.commitNum = s.commitNum /\ t.app = s.app
      /\ t.pendingPrepares = f /\ t.pendingCommits = s.pendingCommits
      /\ t.panicked = s.panicked
      /\ t.tasks = s.tasks \cup T
  BY DEF Local, Fields
<1> HIDE DEF t
<1>2. Queue(t, r, M) /\ LogRight(t, r, M) /\ Certified(t, M) /\ AppRight(t, M)
      /\ Quorums(t, M) /\ Pending(t, r, M)
  BY <1>1 DEF Local, Queue, LogRight, Certified, AppRight, Quorums, Pending
<1>3. ASSUME NEW p \in M.prep
      PROVE  /\ Verify(p).kind = "Verify" /\ Verify(p).msg = p /\ p.type = "Prepare"
             /\ p.op \in Nat \ {0}
  BY DEF Verify, World, Votes
<1>4. \A x \in T : x.kind = "Verify" /\ x.msg \in M.prep /\ x.msg.type = "Prepare" /\ x.msg.from # r
  BY <1>3
<1>5. Tasks(t, r, M)
  BY <1>1, <1>4 DEF Local, Tasks, TaskRight, HasBatch, HasEntry
<1>6. \A op : Verifying(t, "Commit", op) = Verifying(s, "Commit", op)
  BY <1>1, <1>4 DEF Verifying
<1>7. \A op : Verifying(t, "Prepare", op) =
               IF \E x \in T : x.msg.op = op THEN T ELSE Verifying(s, "Prepare", op)
  BY <1>1, <1>3, <1>4 DEF Verifying
<1>8. OneAtATime(t)
  <2> SUFFICES ASSUME NEW x \in t.tasks, x.kind = "Verify"
               PROVE  /\ x.msg.type = "Prepare" =>
                           x.msg.op \in DOMAIN f /\ Verifying(t, "Prepare", x.msg.op) = {x}
                      /\ x.msg.type = "Commit" =>
                           /\ x.msg.op \in DOMAIN s.pendingCommits
                           /\ Verifying(t, "Commit", x.msg.op) = {x}
    BY <1>1 DEF OneAtATime
  <2>1. CASE x \in T
    BY <1>3, <1>4, <1>7, <2>1
  <2>2. CASE x \in s.tasks /\ x.msg.type = "Commit"
    BY <1>6, <2>2 DEF Local, OneAtATime
  <2>3. CASE x \in s.tasks /\ x.msg.type = "Prepare" /\ x \notin T
    <3>1. Verifying(s, "Prepare", x.msg.op) = {x}
      BY <2>3 DEF Local, OneAtATime
    <3>2. x.msg.op \in DOMAIN f /\ ~\E y \in T : y.msg.op = x.msg.op
      BY <1>3, <3>1
    <3> QED
      BY <1>7, <2>3, <3>1, <3>2
  <2> QED
    BY <1>1, <2>1, <2>2, <2>3
<1>9. LeftOver(t)
  <2>1. ASSUME NEW op \in 1..Len(s.log), s.log[op].prepared
        PROVE  Verifying(t, "Prepare", op) = Verifying(s, "Prepare", op)
    <3>1. ~\E x \in T : x.msg.op = op
      BY <1>3, <2>1, LenProperties DEF SubmitPrepare, HasEntry, Local, LogRight
    <3> QED
      BY <1>7, <3>1
  <2> QED
    BY <1>1, <1>6, <2>1 DEF Local, LeftOver
<1>10. SignedOnce(t, r)
  BY <1>1, <1>4 DEF Local, SignedOnce, HasBatch, HasEntry
<1> QED
  BY <1>1, <1>2, <1>5, <1>8, <1>9, <1>10 DEF Local, t

LEMMA PushPrepareRight ==
  ASSUME NEW M, World(M), NEW r, NEW s, Local(s, r, M), NEW p \in M.prep, p.from # r
  PROVE  Local(PushPrepare(s, p), r, M) /\ PushPrepare(s, p).log = s.log
<1>0. DOMAIN s = Fields
  BY DEF Local
<1>1. CASE p.op \in DOMAIN s.pendingPrepares
  <2> DEFINE f == [s.pendingPrepares EXCEPT ![p.op] = Append(@, p)]
             V(op) == {q \in M.prep : q.op = op /\ q.from # r}
             t == [s EXCEPT !.pendingPrepares = f, !.tasks = @ \cup {}]
  <2>1. PushPrepare(s, p) = [s EXCEPT !.pendingPrepares = f]
    BY <1>1 DEF PushPrepare
  <2>2. \A op \in DOMAIN s.pendingPrepares : s.pendingPrepares[op] \in Seq(V(op))
    BY DEF Local, Pending
  <2>3. DOMAIN f = DOMAIN s.pendingPrepares
        /\ \A op \in DOMAIN f : f[op] = IF op = p.op THEN Append(s.pendingPrepares[op], p)
                                        ELSE s.pendingPrepares[op]
    BY <1>1
  <2>4. Append(s.pendingPrepares[p.op], p) \in Seq(V(p.op))
    BY <1>1, <2>2, AppendProperties
  <2> HIDE DEF f
  <2>5. \A op \in DOMAIN f : f[op] \in Seq(V(op))
    BY <2>2, <2>3, <2>4
  <2>6. \A op : Verifying(s, "Prepare", op) # {} => op \in DOMAIN f
    BY <2>3 DEF Local, OneAtATime, Verifying
  <2>7. Local(t, r, M)
    BY <2>5, <2>6, VerifyingPrepare
  <2>8. t = [s EXCEPT !.pendingPrepares = f]
    BY <1>0 DEF Fields
  <2> QED
    BY <1>0, <2>1, <2>7, <2>8 DEF Fields
<1>2. CASE p.op \notin DOMAIN s.pendingPrepares /\ SubmitPrepare(s, p)
  <2> DEFINE f == WithKey(s.pendingPrepares, p.op, <<>>)
             t == [s EXCEPT !.pendingPrepares = f, !.tasks = @ \cup {Verify(p)}]
  <2>1. PushPrepare(s, p) = t
    BY <1>2 DEF PushPrepare
  <2>2. /\ DOMAIN f = DOMAIN s.pendingPrepares \cup {p.op} /\ f[p.op] = <<>>
        /\ \A op \in DOMAIN s.pendingPrepares : f[op] = s.pendingPrepares[op]
    BY <1>2 DEF WithKey
  <2> HIDE DEF f
  <2>3. \A op \in DOMAIN f : f[op] \in Seq({q \in M.prep : q.op = op /\ q.from # r})
    <3> DEFINE V(op) == {q \in M.prep : q.op = op /\ q.from # r}
    <3>1. \A op \in DOMAIN s.pendingPrepares : s.pendingPrepares[op] \in Seq(V(op))
      BY DEF Local, Pending
    <3> SUFFICES ASSUME NEW op \in DOMAIN f PROVE f[op] \in Seq(V(op))
      OBVIOUS
    <3> HIDE DEF V
    <3> QED
      BY <2>2, <3>1, EmptySeq
  <2>4. \A op : Verifying(s, "Prepare", op) # {} => op \in DOMAIN s.pendingPrepares
    BY DEF Local, OneAtATime, Verifying
  <2>5. Verifying(s, "Prepare", p.op) = {}
    BY <1>2, <2>4
  <2>6. Local(t, r, M)
    BY <1>2, <2>2, <2>3, <2>4, <2>5, VerifyingPrepare
  <2> QED
    BY <1>0, <2>1, <2>6 DEF Fields
<1>3. CASE p.op \notin DOMAIN s.pendingPrepares /\ ~SubmitPrepare(s, p)
  BY <1>3 DEF PushPrepare
<1> QED
  BY <1>1, <1>2, <1>3

LEMMA PopPrepareRight ==
  ASSUME NEW M, World(M), NEW r, NEW s, Local(s, r, M), NEW op,
         Verifying(s, "Prepare", op) = {}
  PROVE  Local(PopPrepare(s, op), r, M) /\ PopPrepare(s, op).log = s.log
<1> DEFINE list == s.pendingPrepares[op]
           good == {i \in DOMAIN list : SubmitPrepare(s, list[i])}
           V(o) == {q \in M.prep : q.op = o /\ q.from # r}
<1>0. DOMAIN s = Fields
  BY DEF Local
<1>1. CASE op \notin DOMAIN s.pendingPrepares
  BY <1>1 DEF PopPrepare
<1>2. \A o : Verifying(s, "Prepare", o) # {} => o \in DOMAIN s.pendingPrepares \ {op}
  BY DEF Local, OneAtATime, Verifying
<1>3. CASE op \in DOMAIN s.pendingPrepares /\ good = {}
  <2> DEFINE f == WithoutKey(s.pendingPrepares, op)
             t == [s EXCEPT !.pendingPrepares = f, !.tasks = @ \cup {}]
  <2>1. PopPrepare(s, op) = [s EXCEPT !.pendingPrepares = f]
    BY <1>3 DEF PopPrepare
  <2>2. /\ DOMAIN f = DOMAIN s.pendingPrepares \ {op}
        /\ \A o \in DOMAIN f : f[o] = s.pendingPrepares[o]
    BY DEF WithoutKey
  <2> HIDE DEF f
  <2>3. \A o \in DOMAIN f : f[o] \in Seq(V(o))
    BY <2>2 DEF Local, Pending
  <2>4. Local(t, r, M)
    BY <1>2, <2>2, <2>3, VerifyingPrepare
  <2>5. t = [s EXCEPT !.pendingPrepares = f]
    BY <1>0 DEF Fields
  <2> QED
    BY <1>0, <2>1, <2>4, <2>5 DEF Fields
<1>4. CASE op \in DOMAIN s.pendingPrepares /\ good # {}
  <2> DEFINE m == Max(good)
             f == [s.pendingPrepares EXCEPT ![op] = SubSeq(@, 1, m - 1)]
             t == [s EXCEPT !.pendingPrepares = f, !.tasks = @ \cup {Verify(list[m])}]
  <2>1. PopPrepare(s, op) = t
    BY <1>4 DEF PopPrepare
  <2>2. list \in Seq(V(op))
    BY <1>4 DEF Local, Pending
  <2>3. DOMAIN list = 1..Len(list) /\ Len(list) \in Nat
    BY <2>2
  <2>4. good \subseteq Nat /\ \A i \in good : i <= Len(list)
    BY <2>3
  <2> HIDE DEF list
  <2>5. m \in good
    BY <1>4, <2>3, <2>4, MaxOfBounded
  <2> HIDE DEF m
  <2>6. m \in 1..Len(list) /\ SubmitPrepare(s, list[m])
    BY <2>3, <2>5
  <2>7. list[m] \in V(op)
    BY <2>2, <2>6, ElementOfSeq
  <2>8. SubSeq(list, 1, m - 1) \in Seq(V(op))
    <3>1. \A i \in 1..(m - 1) : list[i] \in V(op)
      BY <2>2, <2>3, <2>6, ElementOfSeq
    <3>2. m - 1 \in Int /\ 1 \in Int
      BY <2>3, <2>6
    <3> HIDE DEF V
    <3> QED
      BY <3>1, <3>2, SubSeqProperties
  <2>9. /\ DOMAIN f = DOMAIN s.pendingPrepares
        /\ f[op] = SubSeq(list, 1, m - 1)
        /\ \A o \in DOMAIN f : o # op => f[o] = s.pendingPrepares[o]
    BY <1>4 DEF list
  <2> HIDE DEF f
  <2>10. \A o \in DOMAIN f : o # op => f[o] \in Seq(V(o))
    BY <2>9 DEF Local, Pending
  <2>11. \A o \in DOMAIN f : f[o] \in Seq(V(o))
    <3> SUFFICES ASSUME NEW o \in DOMAIN f PROVE f[o] \in Seq(V(o))
      OBVIOUS
    <3> HIDE DEF V
    <3> QED
      BY <2>8, <2>9, <2>10
  <2>12. Local(t, r, M)
    <3>1. ASSUME NEW o, Verifying(s, "Prepare", o) # {} PROVE o \in DOMAIN f
      BY <1>2, <2>9, <3>1
    <3>2. /\ list[m] \in M.prep /\ list[m].op = op /\ list[m].from # r
          /\ op \in DOMAIN f /\ SubmitPrepare(s, list[m]) /\ Verifying(s, "Prepare", op) = {}
      BY <1>4, <2>6, <2>7, <2>9
    <3> HIDE DEF m
    <3> QED
      BY <2>11, <3>1, <3>2, VerifyingPrepare
  <2> QED
    BY <1>0, <2>1, <2>12 DEF Fields
<1> QED
  BY <1>1, <1>3, <1>4

LEMMA VerifyingCommit ==
  ASSUME NEW M, World(M), NEW r, NEW s, Local(s, r, M), NEW f, NEW T,
         T # {} => \E p \in M.com :
            /\ T = {Verify(p)} /\ p.from # r /\ p.op \in DOMAIN f
            /\ SubmitCommit(s, p) /\ Verifying(s, "Commit", p.op) = {},
         \A op \in DOMAIN f : f[op] \in Seq({p \in M.com : p.op = op /\ p.from # r}),
         \A op : Verifying(s, "Commit", op) # {} => op \in DOMAIN f
  PROVE  Local([s EXCEPT !.pendingCommits = f, !.tasks = @ \cup T], r, M)
<1> DEFINE t == [s EXCEPT !.pendingCommits = f, !.tasks = @ \cup T]
<1>1. /\ DOMAIN t = Fields
      /\ t.replies = s.replies /\ t.requests = s.requests /\ t.opNum = s.opNum /\ t.log = s.log
      /\ t.prepares = s.prepares
      /\ t.commits = s.commits /\ t.commitNum = s.commitNum /\ t.app = s.app
      /\ t.pendingCommits = f /\ t.pendingPrepares = s.pendingPrepares
      /\ t.panicked = s.panicked
      /\ t.tasks = s.tasks \cup T
  BY DEF Local, Fields
<1> HIDE DEF t
<1>2. Queue(t, r, M) /\ LogRight(t, r, M) /\ Certified(t, M) /\ AppRight(t, M)
      /\ Quorums(t, M) /\ Pending(t, r, M)
  BY <1>1 DEF Local, Queue, LogRight, Certified, AppRight, Quorums, Pending
<1>3. ASSUME NEW p \in M.com
      PROVE  /\ Verify(p).kind = "Verify" /\ Verify(p).msg = p /\ p.type = "Commit"
             /\ p.op \in Nat \ {0}
  BY DEF Verify, World, Votes
<1>4. \A x \in T : x.kind = "Verify" /\ x.msg \in M.com /\ x.msg.type = "Commit" /\ x.msg.from # r
  BY <1>3
<1>5. Tasks(t, r, M)
  BY <1>1, <1>4 DEF Local, Tasks, TaskRight, HasBatch, HasEntry
<1>6. \A op : Verifying(t, "Prepare", op) = Verifying(s, "Prepare", op)
  BY <1>1, <1>4 DEF Verifying
<1>7. \A op : Verifying(t, "Commit", op) =
               IF \E x \in T : x.msg.op = op THEN T ELSE Verifying(s, "Commit", op)
  BY <1>1, <1>3, <1>4 DEF Verifying
<1>8. OneAtATime(t)
  <2> SUFFICES ASSUME NEW x \in t.tasks, x.kind = "Verify"
               PROVE  /\ x.msg.type = "Commit" =>
                           x.msg.op \in DOMAIN f /\ Verifying(t, "Commit", x.msg.op) = {x}
                      /\ x.msg.type = "Prepare" =>
                           /\ x.msg.op \in DOMAIN s.pendingPrepares
                           /\ Verifying(t, "Prepare", x.msg.op) = {x}
    BY <1>1 DEF OneAtATime
  <2>1. CASE x \in T
    BY <1>3, <1>4, <1>7, <2>1
  <2>2. CASE x \in s.tasks /\ x.msg.type = "Prepare"
    BY <1>6, <2>2 DEF Local, OneAtATime
  <2>3. CASE x \in s.tasks /\ x.msg.type = "Commit" /\ x \notin T
    <3>1. Verifying(s, "Commit", x.msg.op) = {x}
      BY <2>3 DEF Local, OneAtATime
    <3>2. x.msg.op \in DOMAIN f /\ ~\E y \in T : y.msg.op = x.msg.op
      BY <1>3, <3>1
    <3> QED
      BY <1>7, <2>3, <3>1, <3>2
  <2> QED
    BY <1>1, <2>1, <2>2, <2>3
<1>9. LeftOver(t)
  <2>1. ASSUME NEW op \in 1..Len(s.log), s.log[op].committed
        PROVE  Verifying(t, "Commit", op) = Verifying(s, "Commit", op)
    <3>1. ~\E x \in T : x.msg.op = op
      BY <1>3, <2>1, LenProperties DEF SubmitCommit, HasEntry, Local, LogRight
    <3> QED
      BY <1>7, <3>1
  <2> QED
    BY <1>1, <1>6, <2>1 DEF Local, LeftOver
<1>10. SignedOnce(t, r)
  BY <1>1, <1>4 DEF Local, SignedOnce, HasBatch, HasEntry
<1> QED
  BY <1>1, <1>2, <1>5, <1>8, <1>9, <1>10 DEF Local, t

LEMMA PushCommitRight ==
  ASSUME NEW M, World(M), NEW r, NEW s, Local(s, r, M), NEW p \in M.com, p.from # r
  PROVE  Local(PushCommit(s, p), r, M) /\ PushCommit(s, p).log = s.log
<1>0. DOMAIN s = Fields
  BY DEF Local
<1>1. CASE p.op \in DOMAIN s.pendingCommits
  <2> DEFINE f == [s.pendingCommits EXCEPT ![p.op] = Append(@, p)]
             V(op) == {q \in M.com : q.op = op /\ q.from # r}
             t == [s EXCEPT !.pendingCommits = f, !.tasks = @ \cup {}]
  <2>1. PushCommit(s, p) = [s EXCEPT !.pendingCommits = f]
    BY <1>1 DEF PushCommit
  <2>2. \A op \in DOMAIN s.pendingCommits : s.pendingCommits[op] \in Seq(V(op))
    BY DEF Local, Pending
  <2>3. DOMAIN f = DOMAIN s.pendingCommits
        /\ \A op \in DOMAIN f : f[op] = IF op = p.op THEN Append(s.pendingCommits[op], p)
                                        ELSE s.pendingCommits[op]
    BY <1>1
  <2>4. Append(s.pendingCommits[p.op], p) \in Seq(V(p.op))
    BY <1>1, <2>2, AppendProperties
  <2> HIDE DEF f
  <2>5. \A op \in DOMAIN f : f[op] \in Seq(V(op))
    BY <2>2, <2>3, <2>4
  <2>6. \A op : Verifying(s, "Commit", op) # {} => op \in DOMAIN f
    BY <2>3 DEF Local, OneAtATime, Verifying
  <2>7. Local(t, r, M)
    BY <2>5, <2>6, VerifyingCommit
  <2>8. t = [s EXCEPT !.pendingCommits = f]
    BY <1>0 DEF Fields
  <2> QED
    BY <1>0, <2>1, <2>7, <2>8 DEF Fields
<1>2. CASE p.op \notin DOMAIN s.pendingCommits /\ SubmitCommit(s, p)
  <2> DEFINE f == WithKey(s.pendingCommits, p.op, <<>>)
             t == [s EXCEPT !.pendingCommits = f, !.tasks = @ \cup {Verify(p)}]
  <2>1. PushCommit(s, p) = t
    BY <1>2 DEF PushCommit
  <2>2. /\ DOMAIN f = DOMAIN s.pendingCommits \cup {p.op} /\ f[p.op] = <<>>
        /\ \A op \in DOMAIN s.pendingCommits : f[op] = s.pendingCommits[op]
    BY <1>2 DEF WithKey
  <2> HIDE DEF f
  <2>3. \A op \in DOMAIN f : f[op] \in Seq({q \in M.com : q.op = op /\ q.from # r})
    <3> DEFINE V(op) == {q \in M.com : q.op = op /\ q.from # r}
    <3>1. \A op \in DOMAIN s.pendingCommits : s.pendingCommits[op] \in Seq(V(op))
      BY DEF Local, Pending
    <3> SUFFICES ASSUME NEW op \in DOMAIN f PROVE f[op] \in Seq(V(op))
      OBVIOUS
    <3> HIDE DEF V
    <3> QED
      BY <2>2, <3>1, EmptySeq
  <2>4. \A op : Verifying(s, "Commit", op) # {} => op \in DOMAIN s.pendingCommits
    BY DEF Local, OneAtATime, Verifying
  <2>5. Verifying(s, "Commit", p.op) = {}
    BY <1>2, <2>4
  <2>6. Local(t, r, M)
    BY <1>2, <2>2, <2>3, <2>4, <2>5, VerifyingCommit
  <2> QED
    BY <1>0, <2>1, <2>6 DEF Fields
<1>3. CASE p.op \notin DOMAIN s.pendingCommits /\ ~SubmitCommit(s, p)
  BY <1>3 DEF PushCommit
<1> QED
  BY <1>1, <1>2, <1>3

LEMMA PopCommitRight ==
  ASSUME NEW M, World(M), NEW r, NEW s, Local(s, r, M), NEW op,
         Verifying(s, "Commit", op) = {}
  PROVE  Local(PopCommit(s, op), r, M) /\ PopCommit(s, op).log = s.log
<1> DEFINE list == s.pendingCommits[op]
           good == {i \in DOMAIN list : SubmitCommit(s, list[i])}
           V(o) == {q \in M.com : q.op = o /\ q.from # r}
<1>0. DOMAIN s = Fields
  BY DEF Local
<1>1. CASE op \notin DOMAIN s.pendingCommits
  BY <1>1 DEF PopCommit
<1>2. \A o : Verifying(s, "Commit", o) # {} => o \in DOMAIN s.pendingCommits \ {op}
  BY DEF Local, OneAtATime, Verifying
<1>3. CASE op \in DOMAIN s.pendingCommits /\ good = {}
  <2> DEFINE f == WithoutKey(s.pendingCommits, op)
             t == [s EXCEPT !.pendingCommits = f, !.tasks = @ \cup {}]
  <2>1. PopCommit(s, op) = [s EXCEPT !.pendingCommits = f]
    BY <1>3 DEF PopCommit
  <2>2. /\ DOMAIN f = DOMAIN s.pendingCommits \ {op}
        /\ \A o \in DOMAIN f : f[o] = s.pendingCommits[o]
    BY DEF WithoutKey
  <2> HIDE DEF f
  <2>3. \A o \in DOMAIN f : f[o] \in Seq(V(o))
    BY <2>2 DEF Local, Pending
  <2>4. Local(t, r, M)
    BY <1>2, <2>2, <2>3, VerifyingCommit
  <2>5. t = [s EXCEPT !.pendingCommits = f]
    BY <1>0 DEF Fields
  <2> QED
    BY <1>0, <2>1, <2>4, <2>5 DEF Fields
<1>4. CASE op \in DOMAIN s.pendingCommits /\ good # {}
  <2> DEFINE m == Max(good)
             f == [s.pendingCommits EXCEPT ![op] = SubSeq(@, 1, m - 1)]
             t == [s EXCEPT !.pendingCommits = f, !.tasks = @ \cup {Verify(list[m])}]
  <2>1. PopCommit(s, op) = t
    BY <1>4 DEF PopCommit
  <2>2. list \in Seq(V(op))
    BY <1>4 DEF Local, Pending
  <2>3. DOMAIN list = 1..Len(list) /\ Len(list) \in Nat
    BY <2>2
  <2>4. good \subseteq Nat /\ \A i \in good : i <= Len(list)
    BY <2>3
  <2> HIDE DEF list
  <2>5. m \in good
    BY <1>4, <2>3, <2>4, MaxOfBounded
  <2> HIDE DEF m
  <2>6. m \in 1..Len(list) /\ SubmitCommit(s, list[m])
    BY <2>3, <2>5
  <2>7. list[m] \in V(op)
    BY <2>2, <2>6, ElementOfSeq
  <2>8. SubSeq(list, 1, m - 1) \in Seq(V(op))
    <3>1. \A i \in 1..(m - 1) : list[i] \in V(op)
      BY <2>2, <2>3, <2>6, ElementOfSeq
    <3>2. m - 1 \in Int /\ 1 \in Int
      BY <2>3, <2>6
    <3> HIDE DEF V
    <3> QED
      BY <3>1, <3>2, SubSeqProperties
  <2>9. /\ DOMAIN f = DOMAIN s.pendingCommits
        /\ f[op] = SubSeq(list, 1, m - 1)
        /\ \A o \in DOMAIN f : o # op => f[o] = s.pendingCommits[o]
    BY <1>4 DEF list
  <2> HIDE DEF f
  <2>10. \A o \in DOMAIN f : o # op => f[o] \in Seq(V(o))
    BY <2>9 DEF Local, Pending
  <2>11. \A o \in DOMAIN f : f[o] \in Seq(V(o))
    <3> SUFFICES ASSUME NEW o \in DOMAIN f PROVE f[o] \in Seq(V(o))
      OBVIOUS
    <3> HIDE DEF V
    <3> QED
      BY <2>8, <2>9, <2>10
  <2>12. Local(t, r, M)
    <3>1. ASSUME NEW o, Verifying(s, "Commit", o) # {} PROVE o \in DOMAIN f
      BY <1>2, <2>9, <3>1
    <3>2. /\ list[m] \in M.com /\ list[m].op = op /\ list[m].from # r
          /\ op \in DOMAIN f /\ SubmitCommit(s, list[m]) /\ Verifying(s, "Commit", op) = {}
      BY <1>4, <2>6, <2>7, <2>9
    <3> HIDE DEF m
    <3> QED
      BY <2>11, <3>1, <3>2, VerifyingCommit
  <2> QED
    BY <1>0, <2>1, <2>12 DEF Fields
<1> QED
  BY <1>1, <1>3, <1>4

LEMMA UpperBound ==
  \A a, b, c \in Nat : \E n \in Nat : a <= n /\ b <= n /\ c <= n
<1> SUFFICES ASSUME NEW a \in Nat, NEW b \in Nat, NEW c \in Nat
             PROVE  \E n \in Nat : a <= n /\ b <= n /\ c <= n
  OBVIOUS
<1>1. a + b + c \in Nat /\ a <= a + b + c /\ b <= a + b + c /\ c <= a + b + c
  OBVIOUS
<1> QED
  BY <1>1

LEMMA ArgMax ==
  ASSUME NEW A, A # {}, NEW f, NEW n \in Nat, \A x \in A : f[x] \in Nat /\ f[x] <= n
  PROVE  \E x \in A : \A y \in A : f[y] <= f[x]
<1> DEFINE S == {f[x] : x \in A}
<1>1. S \in SUBSET Nat /\ S # {} /\ \A v \in S : v <= n
  OBVIOUS
<1>2. Max(S) \in S /\ \A v \in S : v <= Max(S)
  BY <1>1, MaxOfBounded
<1>3. PICK x \in A : f[x] = Max(S)
  BY <1>2
<1> QED
  BY <1>2, <1>3

(* The largest of a set of executed requests, by sequence number, then     *)
(* place.                                                                  *)
LEMMA LastOne ==
  ASSUME NEW A, A # {}, NEW f, NEW n \in Nat,
         \A x \in A : /\ f[x] \in Nat /\ f[x] <= n
                      /\ x[1] \in Nat /\ x[1] <= n
                      /\ x[2] \in Nat /\ x[2] <= n
  PROVE  \E x \in A : \A y \in A :
            \/ f[x] > f[y]
            \/ f[x] = f[y] /\ (x[1] > y[1] \/ (x[1] = y[1] /\ x[2] >= y[2]))
<1>1. PICK u \in A : \A y \in A : f[y] <= f[u]
  BY ArgMax
<1> DEFINE B == {x \in A : f[x] = f[u]}
           g == [x \in B |-> x[1]]
<1>2. PICK v \in B : \A y \in B : y[1] <= v[1]
  <2>1. B # {} /\ \A x \in B : g[x] \in Nat /\ g[x] <= n
    OBVIOUS
  <2>2. \E x \in B : \A y \in B : g[y] <= g[x]
    BY <2>1, ArgMax
  <2> QED
    BY <2>2
<1> DEFINE C == {x \in B : x[1] = v[1]}
           h == [x \in C |-> x[2]]
<1>3. PICK w \in C : \A y \in C : y[2] <= w[2]
  <2>1. C # {} /\ \A x \in C : h[x] \in Nat /\ h[x] <= n
    BY <1>2
  <2>2. \E x \in C : \A y \in C : h[y] <= h[x]
    BY <2>1, ArgMax
  <2> QED
    BY <2>2
<1>4. w \in A /\ f[w] = f[u] /\ w[1] = v[1]
  BY <1>3
<1>5. ASSUME NEW y \in A
      PROVE  \/ f[w] > f[y]
             \/ f[w] = f[y] /\ (w[1] > y[1] \/ (w[1] = y[1] /\ w[2] >= y[2]))
  <2>1. CASE f[y] # f[u]
    BY <1>1, <1>4, <2>1
  <2>2. CASE y \in B /\ y[1] # v[1]
    BY <1>2, <1>4, <2>2
  <2>3. CASE y \in C
    BY <1>3, <1>4, <2>3
  <2> QED
    BY <2>1, <2>2, <2>3
<1> QED
  BY <1>4, <1>5

LEMMA ExecutedFacts ==
  ASSUME NEW R, R \subseteq Requests, NEW s, s.app \in Seq(Seq(R)), NEW first \in Nat \ {0},
         NEW e \in Executed(s, first)
  PROVE  /\ e[1] \in first..Len(s.app) /\ e[2] \in 1..MaxBatch /\ Len(s.app) \in Nat
         /\ e[2] \in 1..Len(s.app[e[1]])
         /\ RequestAt(s, e) \in R /\ Result(s, e) \in Results
<1>1. e[1] \in first..Len(s.app) /\ e[2] \in 1..MaxBatch /\ e[2] <= Len(s.app[e[1]])
  BY DEF Executed
<1>2. Len(s.app) \in Nat /\ e[1] \in 1..Len(s.app)
  BY <1>1, LenProperties
<1>3. s.app[e[1]] \in Seq(R)
  BY <1>2, ElementOfSeq
<1>4. e[2] \in 1..Len(s.app[e[1]])
  BY <1>1, <1>3, BoundsAssumption, LenProperties
<1>5. RequestAt(s, e) \in R
  BY <1>3, <1>4, ElementOfSeq DEF RequestAt
<1>6. SubSeq(s.app, 1, e[1]) \in Seq(Batches)
  <2>1. \A i \in 1..e[1] : s.app[i] \in Seq(R)
    BY <1>2, ElementOfSeq
  <2>2. \A i \in 1..e[1] : s.app[i] \in Batches
    BY <2>1, SeqMonotonic DEF Batches
  <2>3. e[1] \in Int /\ 1 \in Int
    BY <1>2
  <2> QED
    BY <2>2, <2>3, SubSeqProperties
<1>7. Result(s, e) \in Results
  <2> DEFINE hist == SubSeq(s.app, 1, e[1])
  <2>1. e[2] \in Nat
    BY <1>1, BoundsAssumption
  <2>2. hist \in Seq(Batches) /\ Result(s, e) = [history |-> hist, index |-> e[2]]
    BY <1>6 DEF Result
  <2> HIDE DEF hist
  <2> QED
    BY <2>1, <2>2 DEF Results
<1> QED
  BY <1>1, <1>2, <1>4, <1>5, <1>7

(* Of each client, t has stored a reply to a request that it executed from *)
(* number first on, or has found none that is not older than the last one  *)
(* in the table as it was.                                                 *)
Answers(old, t, first, replies) ==
  \A c \in Clients :
    \/ /\ replies[c].seq >= old[c].seq /\ replies[c].reply \in Results
       /\ \E e \in Executed(t, first) :
            /\ RequestAt(t, e).client = c
            /\ replies[c] = [seq |-> RequestAt(t, e).seq, reply |-> Result(t, e)]
    \/ /\ replies[c] = old[c]
       /\ \A e \in Executed(t, first) :
            RequestAt(t, e).client = c => ~(RequestAt(t, e).seq >= old[c].seq)

LEMMA AnswersSame ==
  ASSUME NEW old, NEW s, NEW t, NEW first, NEW replies, t.app = s.app, Answers(old, s, first, replies)
  PROVE  Answers(old, t, first, replies)
<1>1. Executed(t, first) = Executed(s, first)
  BY DEF Executed
<1>2. \A e : RequestAt(t, e) = RequestAt(s, e) /\ Result(t, e) = Result(s, e)
  BY DEF RequestAt, Result
<1> SUFFICES ASSUME NEW c \in Clients
             PROVE  \/ /\ replies[c].seq >= old[c].seq /\ replies[c].reply \in Results
                       /\ \E e \in Executed(t, first) :
                            /\ RequestAt(t, e).client = c
                            /\ replies[c] = [seq |-> RequestAt(t, e).seq, reply |-> Result(t, e)]
                    \/ /\ replies[c] = old[c]
                       /\ \A e \in Executed(t, first) :
                            RequestAt(t, e).client = c => ~(RequestAt(t, e).seq >= old[c].seq)
  BY DEF Answers
<1>3. CASE \E e \in Executed(s, first) :
                /\ RequestAt(s, e).client = c
                /\ replies[c] = [seq |-> RequestAt(s, e).seq, reply |-> Result(s, e)]
  <2>1. PICK e \in Executed(s, first) :
                /\ RequestAt(s, e).client = c
                /\ replies[c] = [seq |-> RequestAt(s, e).seq, reply |-> Result(s, e)]
    BY <1>3
  <2>2. e \in Executed(t, first) /\ RequestAt(t, e).client = c
        /\ replies[c] = [seq |-> RequestAt(t, e).seq, reply |-> Result(t, e)]
    BY <1>1, <1>2, <2>1
  <2>3. CASE replies[c].seq >= old[c].seq /\ replies[c].reply \in Results
    BY <2>2, <2>3
  <2>4. CASE ~(replies[c].seq >= old[c].seq /\ replies[c].reply \in Results)
    BY <1>1, <1>2, <2>4 DEF Answers
  <2> QED
    BY <2>3, <2>4
<1>4. CASE ~\E e \in Executed(s, first) :
                /\ RequestAt(s, e).client = c
                /\ replies[c] = [seq |-> RequestAt(s, e).seq, reply |-> Result(s, e)]
  BY <1>1, <1>2, <1>4 DEF Answers
<1> QED
  BY <1>3, <1>4

LEMMA StoreRepliesRight ==
  ASSUME NEW R, R \subseteq Requests, NEW s, DOMAIN s = Fields, s.app \in Seq(Seq(R)),
         NEW first \in Nat \ {0}, RepliesTyped(s.replies, R)
  PROVE  \E replies : /\ RepliesTyped(replies, R)
                      /\ StoreReplies(s, first) = [s EXCEPT !.replies = replies]
                      /\ Answers(s.replies, s, first, replies)
<1> DEFINE At(c) == {e \in Executed(s, first) :
                    RequestAt(s, e).client = c /\ RequestAt(s, e).seq >= s.replies[c].seq}
           Later(e, e2) == e[1] > e2[1] \/ (e[1] = e2[1] /\ e[2] >= e2[2])
           IsLast(c, e) == \A e2 \in At(c) :
                      \/ RequestAt(s, e).seq > RequestAt(s, e2).seq
                      \/ RequestAt(s, e).seq = RequestAt(s, e2).seq /\ Later(e, e2)
           Last(c) == CHOOSE e \in At(c) : IsLast(c, e)
           Entry(c) == IF At(c) = {} THEN s.replies[c]
                       ELSE [seq |-> RequestAt(s, Last(c)).seq, reply |-> Result(s, Last(c))]
           replies == [c \in Clients |-> Entry(c)]
<1>1. StoreReplies(s, first) = [s EXCEPT !.replies = replies]
  BY DEF StoreReplies
<1>2. ASSUME NEW c \in Clients, At(c) # {}
      PROVE  Last(c) \in At(c)
  <2> DEFINE f == [e \in At(c) |-> RequestAt(s, e).seq]
  <2>1. ASSUME NEW e \in At(c)
        PROVE  /\ e[1] \in first..Len(s.app) /\ e[2] \in 1..MaxBatch /\ Len(s.app) \in Nat
               /\ RequestAt(s, e) \in Requests
    BY ExecutedFacts
  <2>2. \A e \in At(c) : RequestAt(s, e).seq \in 1..MaxSeq
    BY <2>1 DEF Requests
  <2>3. MaxSeq \in Nat /\ MaxBatch \in Nat /\ Len(s.app) \in Nat
    BY <1>2, <2>1, BoundsAssumption
  <2>4. PICK n \in Nat : MaxSeq <= n /\ MaxBatch <= n /\ Len(s.app) <= n
    BY <2>3, UpperBound
  <2>5. \A e \in At(c) : /\ f[e] \in Nat /\ f[e] <= n
                         /\ e[1] \in Nat /\ e[1] <= n
                         /\ e[2] \in Nat /\ e[2] <= n
    <3> SUFFICES ASSUME NEW e \in At(c)
                 PROVE  /\ f[e] \in Nat /\ f[e] <= n
                        /\ e[1] \in Nat /\ e[1] <= n
                        /\ e[2] \in Nat /\ e[2] <= n
      OBVIOUS
    <3>1. f[e] \in 1..MaxSeq
      BY <2>2
    <3>2. e[1] \in first..Len(s.app) /\ e[2] \in 1..MaxBatch
      BY <2>1
    <3> HIDE DEF f, At
    <3>3. f[e] \in Nat /\ f[e] <= n
      BY <2>3, <2>4, <3>1
    <3> DEFINE u == e[1]
               v == e[2]
    <3>4. u \in first..Len(s.app) /\ v \in 1..MaxBatch
      BY <3>2
    <3> HIDE DEF u, v
    <3>5. u \in Nat /\ u <= n /\ v \in Nat /\ v <= n
      BY <2>3, <2>4, <3>4
    <3> QED
      BY <3>3, <3>5 DEF u, v
  <2> HIDE DEF At
  <2>6. \E x \in At(c) : \A y \in At(c) :
            \/ f[x] > f[y]
            \/ f[x] = f[y] /\ (x[1] > y[1] \/ (x[1] = y[1] /\ x[2] >= y[2]))
    BY <1>2, <2>4, <2>5, LastOne
  <2>7. \E x \in At(c) : IsLast(c, x)
    BY <2>6
  <2> HIDE DEF IsLast
  <2> QED
    BY <2>7
<1>3. ASSUME NEW c \in Clients
      PROVE  /\ Entry(c) \in [seq : Nat, reply : Results \cup {None}]
             /\ Entry(c).seq = 0 \/ [client |-> c, seq |-> Entry(c).seq] \in R
             /\ \/ /\ Entry(c).seq >= s.replies[c].seq /\ Entry(c).reply \in Results
                   /\ \E e \in Executed(s, first) :
                        /\ RequestAt(s, e).client = c
                        /\ Entry(c) = [seq |-> RequestAt(s, e).seq, reply |-> Result(s, e)]
                \/ Entry(c) = s.replies[c] /\ At(c) = {}
  <2>1. CASE At(c) = {}
    BY <2>1 DEF RepliesTyped
  <2>2. CASE At(c) # {}
    <3> DEFINE e == Last(c)
    <3>1. /\ e \in Executed(s, first) /\ RequestAt(s, e).client = c
          /\ RequestAt(s, e).seq >= s.replies[c].seq
      BY <1>2, <2>2
    <3> HIDE DEF e
    <3>2. RequestAt(s, e) \in R /\ Result(s, e) \in Results
      BY <3>1, ExecutedFacts
    <3>3. RequestAt(s, e) \in Requests
      BY <3>2
    <3>4. RequestAt(s, e).seq \in Nat /\ [client |-> c, seq |-> RequestAt(s, e).seq] = RequestAt(s, e)
      BY <3>1, <3>3, BoundsAssumption DEF Requests
    <3>5. Entry(c) = [seq |-> RequestAt(s, e).seq, reply |-> Result(s, e)]
      BY <2>2 DEF e
    <3> HIDE DEF Entry
    <3>6. Entry(c) \in [seq : Nat, reply : Results \cup {None}]
      BY <3>2, <3>4, <3>5
    <3>7. [client |-> c, seq |-> Entry(c).seq] \in R
      BY <3>2, <3>4, <3>5
    <3>8. Entry(c).seq >= s.replies[c].seq /\ Entry(c).reply \in Results
      BY <3>1, <3>2, <3>5
    <3> QED
      BY <3>1, <3>5, <3>6, <3>7, <3>8
  <2> QED
    BY <2>1, <2>2
<1> HIDE DEF Entry
<1>4. RepliesTyped(replies, R)
  BY <1>3 DEF RepliesTyped
<1>5. Answers(s.replies, s, first, replies)
  BY <1>3 DEF Answers
<1> QED
  BY <1>1, <1>4, <1>5

LEMMA SeqFrom ==
  ASSUME NEW B, NEW n \in Nat, NEW f, DOMAIN f = 1..n, f = [i \in 1..n |-> f[i]],
         \A i \in 1..n : f[i] \in B
  PROVE  f \in Seq(B) /\ Len(f) = n
<1>1. f \in [1..n -> B]
  OBVIOUS
<1> QED
  BY <1>1

LEMMA ConcatSeq ==
  ASSUME NEW B, NEW a \in Seq(B), NEW b \in Seq(B)
  PROVE  /\ a \o b \in Seq(B) /\ Len(a \o b) = Len(a) + Len(b)
         /\ \A i \in 1..(Len(a) + Len(b)) :
               (a \o b)[i] = IF i <= Len(a) THEN a[i] ELSE b[i - Len(a)]
  OBVIOUS

(* t has executed what s had committed, and changed nothing else. *)
ExecutesTo(s, t) ==
  /\ t.requests = s.requests /\ t.opNum = s.opNum /\ t.log = s.log /\ t.tasks = s.tasks
  /\ Len(t.app) >= Len(s.app)
  /\ \A i \in 1..Len(t.app) : t.app[i] = IF i <= Len(s.app) THEN s.app[i] ELSE s.log[i].batch
  /\ Answers(s.replies, t, Len(s.app) + 1, t.replies)

LEMMA ExecuteRight ==
  ASSUME NEW M, World(M), NEW r, NEW s, Local(s, r, M)
  PROVE  /\ Local(Execute(s), r, M)
         /\ ExecutesTo(s, Execute(s))
         /\ Execute(s).log = s.log
         /\ Execute(s).pendingPrepares = s.pendingPrepares
         /\ Execute(s).pendingCommits = s.pendingCommits
         /\ Execute(s).tasks = s.tasks
         /\ Len(s.app) \in Nat
<1> DEFINE S == {m \in s.commitNum..Len(s.log) : \A i \in s.commitNum + 1 .. m : s.log[i].committed}
           upTo == Max(S)
           more == [i \in 1..(upTo - s.commitNum) |-> s.log[s.commitNum + i].batch]
           app == s.app \o more
           executed == [s EXCEPT !.commitNum = upTo, !.app = app]
           t == Execute(s)
<1>1. /\ DOMAIN s = Fields /\ s.log \in Seq(Entries(M.req)) /\ Len(s.log) \in Nat
      /\ s.app \in Seq(Seq(M.req)) /\ Len(s.app) \in Nat
      /\ s.commitNum = Len(s.app) /\ Len(s.app) <= Len(s.log) /\ M.req \subseteq Requests
  BY LenProperties DEF Local, LogRight, AppRight, World
<1>2. t = StoreReplies(executed, s.commitNum + 1)
  BY DEF Execute
<1>3. upTo \in S
  <2>1. S \in SUBSET Nat /\ S # {} /\ \A m \in S : m <= Len(s.log)
    <3>1. s.commitNum \in S
      BY <1>1
    <3> QED
      BY <1>1, <3>1
  <2> QED
    BY <1>1, <2>1, MaxOfBounded
<1> HIDE DEF upTo
<1>4. /\ upTo \in Nat /\ upTo >= Len(s.app) /\ upTo <= Len(s.log)
      /\ \A i \in Len(s.app) + 1 .. upTo : s.log[i].committed
  BY <1>1, <1>3
<1>5. more \in Seq(Seq(M.req)) /\ Len(more) = upTo - Len(s.app)
      /\ \A i \in 1..(upTo - Len(s.app)) : more[i] = s.log[Len(s.app) + i].batch
  <2>1. \A i \in 1..(upTo - Len(s.app)) : Len(s.app) + i \in 1..Len(s.log)
    BY <1>1, <1>4
  <2>2. \A i \in 1..(upTo - Len(s.app)) : s.log[Len(s.app) + i] \in Entries(M.req)
    BY <1>1, <2>1, ElementOfSeq
  <2>3. \A i \in 1..(upTo - Len(s.app)) : s.log[Len(s.app) + i].batch \in Seq(M.req)
    BY <2>2 DEF Entries
  <2>4. more = [i \in 1..(upTo - Len(s.app)) |-> s.log[Len(s.app) + i].batch]
    BY <1>1
  <2>5. upTo - Len(s.app) \in Nat
    BY <1>1, <1>4
  <2> HIDE DEF more
  <2>6. /\ DOMAIN more = 1..(upTo - Len(s.app))
        /\ \A i \in 1..(upTo - Len(s.app)) : more[i] = s.log[Len(s.app) + i].batch
    BY <2>4
  <2>7. more = [i \in 1..(upTo - Len(s.app)) |-> more[i]]
    BY <2>4
  <2>8. \A i \in 1..(upTo - Len(s.app)) : more[i] \in Seq(M.req)
    BY <2>3, <2>6
  <2> DEFINE B == Seq(M.req)
             n == upTo - Len(s.app)
  <2>a. n \in Nat /\ DOMAIN more = 1..n /\ more = [i \in 1..n |-> more[i]] /\ \A i \in 1..n : more[i] \in B
    BY <2>5, <2>6, <2>7, <2>8
  <2> HIDE DEF B, n
  <2>b. more \in Seq(B) /\ Len(more) = n
    BY <2>a, SeqFrom
  <2>9. more \in Seq(Seq(M.req)) /\ Len(more) = upTo - Len(s.app)
    BY <2>b DEF B, n
  <2> QED
    BY <2>6, <2>9
<1> HIDE DEF more
<1>6. /\ app \in Seq(Seq(M.req)) /\ Len(app) = upTo
      /\ \A i \in 1..upTo : app[i] = IF i <= Len(s.app) THEN s.app[i] ELSE s.log[i].batch
  <2>1. /\ app \in Seq(Seq(M.req)) /\ Len(app) = Len(s.app) + Len(more)
        /\ \A i \in 1..(Len(s.app) + Len(more)) :
              app[i] = IF i <= Len(s.app) THEN s.app[i] ELSE more[i - Len(s.app)]
    <3> DEFINE B == Seq(M.req)
               a == s.app
    <3>1. a \in Seq(B) /\ more \in Seq(B)
      BY <1>1, <1>5
    <3> HIDE DEF B, a
    <3>2. /\ a \o more \in Seq(B) /\ Len(a \o more) = Len(a) + Len(more)
          /\ \A i \in 1..(Len(a) + Len(more)) :
                (a \o more)[i] = IF i <= Len(a) THEN a[i] ELSE more[i - Len(a)]
      BY <3>1, ConcatSeq
    <3> QED
      BY <3>2 DEF B, a
  <2>2. Len(s.app) + Len(more) = upTo
    BY <1>1, <1>4, <1>5
  <2> HIDE DEF app
  <2>3. ASSUME NEW i \in 1..upTo, ~(i <= Len(s.app)) PROVE app[i] = s.log[i].batch
    <3>1. i - Len(s.app) \in 1..(upTo - Len(s.app)) /\ Len(s.app) + (i - Len(s.app)) = i
      BY <1>1, <1>4, <2>3
    <3>2. more[i - Len(s.app)] = s.log[Len(s.app) + (i - Len(s.app))].batch
      BY <1>5, <3>1
    <3> QED
      BY <2>1, <2>2, <2>3, <3>1, <3>2
  <2> QED
    BY <2>1, <2>2, <2>3
<1> HIDE DEF app
<1>7. DOMAIN executed = Fields /\ executed.app = app /\ executed.replies = s.replies
  BY <1>1 DEF Fields
<1> DEFINE first == s.commitNum + 1
<1>a. first \in Nat \ {0} /\ t = StoreReplies(executed, first)
  BY <1>1, <1>2
<1>b. executed.app \in Seq(Seq(M.req)) /\ RepliesTyped(executed.replies, M.req)
  BY <1>6, <1>7 DEF Local, Queue
<1>c. executed = [s EXCEPT !.commitNum = upTo, !.app = app]
  OBVIOUS
<1> HIDE DEF first, executed
<1>8. PICK replies : /\ RepliesTyped(replies, M.req) /\ t = [executed EXCEPT !.replies = replies]
                     /\ Answers(executed.replies, executed, first, replies)
  BY <1>1, <1>7, <1>a, <1>b, StoreRepliesRight
<1>9. /\ DOMAIN t = Fields
      /\ t.replies = replies /\ t.requests = s.requests /\ t.opNum = s.opNum /\ t.log = s.log
      /\ t.prepares = s.prepares
      /\ t.commits = s.commits /\ t.commitNum = upTo /\ t.app = app
      /\ t.pendingPrepares = s.pendingPrepares /\ t.pendingCommits = s.pendingCommits
      /\ t.panicked = s.panicked
      /\ t.tasks = s.tasks
  BY <1>1, <1>8, <1>c DEF Fields
<1> HIDE DEF t
<1>d. ExecutesTo(s, t)
  <2>1. Answers(s.replies, t, Len(s.app) + 1, t.replies)
    <3>1. Answers(s.replies, executed, first, t.replies) /\ t.app = executed.app
      BY <1>7, <1>8, <1>9
    <3>4. Answers(s.replies, t, first, t.replies)
      BY <3>1, AnswersSame
    <3> QED
      BY <1>1, <3>4 DEF first
  <2> QED
    BY <1>1, <1>4, <1>6, <1>9, <2>1 DEF ExecutesTo
<1>10. Queue(t, r, M) /\ LogRight(t, r, M) /\ Certified(t, M) /\ Quorums(t, M) /\ Pending(t, r, M)
  BY <1>8, <1>9 DEF Local, Queue, LogRight, Certified, Quorums, Pending
<1>11. Tasks(t, r, M)
  BY <1>9 DEF Local, Tasks, TaskRight, HasBatch, HasEntry
<1>12. OneAtATime(t) /\ SignedOnce(t, r)
  BY <1>9 DEF Local, OneAtATime, Verifying, SignedOnce, HasBatch, HasEntry
<1>13. LeftOver(t)
  BY <1>9 DEF Local, LeftOver, Verifying
<1>14. AppRight(t, M)
  <2> SUFFICES ASSUME NEW i \in 1..upTo
               PROVE  /\ s.log[i].committed
                      /\ app[i] # <<>> => app[i] = s.log[i].batch
                      /\ InOrder => app[i] # <<>>
    BY <1>4, <1>6, <1>9 DEF AppRight
  <2>1. CASE i <= Len(s.app)
    <3>1. i \in 1..Len(s.app)
      BY <1>1, <1>4, <2>1
    <3> QED
      BY <1>6, <2>1, <3>1 DEF Local, AppRight
  <2>2. CASE ~(i <= Len(s.app))
    <3>1. i \in Len(s.app) + 1 .. upTo /\ i \in 1..Len(s.log)
      BY <1>1, <1>4, <2>2
    <3> QED
      BY <1>4, <1>6, <2>2, <3>1 DEF Local, LogRight
  <2> QED
    BY <2>1, <2>2
<1> QED
  BY <1>1, <1>9, <1>10, <1>11, <1>12, <1>13, <1>14, <1>d DEF Local, t

LEMMA CloseBatchRight ==
  ASSUME NEW M, World(M), NEW r, IsPrimary(r), NEW s, Local(s, r, M), NEW k \in Nat,
         \A j \in 1..k : (j - 1) * MaxBatch < Len(s.requests)
  PROVE  /\ Local(CloseBatch(s, k), r, M)
         /\ CloseBatch(s, k).log = s.log
         /\ CloseBatch(s, k).app = s.app
         /\ CloseBatch(s, k).pendingPrepares = s.pendingPrepares
         /\ CloseBatch(s, k).pendingCommits = s.pendingCommits
         /\ \A type, op : Verifying(CloseBatch(s, k), type, op) = Verifying(s, type, op)
<1> DEFINE len == Len(s.requests)
           batch(j) == SubSeq(s.requests, (j - 1) * MaxBatch + 1, Min({j * MaxBatch, len}))
           rest == SubSeq(s.requests, k * MaxBatch + 1, len)
           new == {Sign(PrePrepare(s.opNum + j, batch(j))) : j \in 1..k}
           t == CloseBatch(s, k)
<1>1. /\ DOMAIN s = Fields /\ s.log \in Seq(Entries(M.req)) /\ Len(s.log) \in Nat
      /\ s.requests \in Seq(M.req) /\ len \in Nat /\ s.opNum \in Nat
  BY LenProperties DEF Local, LogRight, Queue
<1>2. t = [s EXCEPT !.opNum = @ + k, !.requests = rest, !.tasks = @ \cup new]
  BY DEF CloseBatch
<1>3. \A i \in 1..len : s.requests[i] \in M.req
  BY <1>1, ElementOfSeq
<1>4. ASSUME NEW j \in 1..k
      PROVE  batch(j) \in Seq(M.req) \ {<<>>}
  <2> DEFINE a == (j - 1) * MaxBatch + 1
             b == Min({j * MaxBatch, len})
  <2>1. a \in Nat /\ a >= 1 /\ a <= len /\ j * MaxBatch \in Nat /\ a <= j * MaxBatch
    BY <1>1, BoundsAssumption
  <2>2. b \in Nat /\ a <= b /\ b <= len
    BY <1>1, <2>1 DEF Min
  <2> HIDE DEF a, b
  <2>3. \A i \in a..b : s.requests[i] \in M.req
    BY <1>1, <1>3, <2>1, <2>2
  <2>4. a \in Int /\ b \in Int
    BY <2>1, <2>2
  <2>5. SubSeq(s.requests, a, b) \in Seq(M.req) /\ Len(SubSeq(s.requests, a, b)) = b - a + 1
    BY <2>2, <2>3, <2>4, SubSeqProperties
  <2>6. SubSeq(s.requests, a, b) # <<>>
    BY <2>1, <2>2, <2>5, EmptySeq
  <2> QED
    BY <2>5, <2>6 DEF a, b
<1>5. rest \in Seq(M.req)
  <2> DEFINE a == k * MaxBatch + 1
  <2>1. a \in Int /\ a >= 1 /\ len \in Int
    BY <1>1, BoundsAssumption
  <2> HIDE DEF a
  <2>2. \A i \in a..len : s.requests[i] \in M.req
    BY <1>1, <1>3, <2>1
  <2>3. SubSeq(s.requests, a, len) \in Seq(M.req)
    BY <2>1, <2>2, SubSeqProperties
  <2> QED
    BY <2>3 DEF a
<1> HIDE DEF batch, rest
<1>6. ASSUME NEW x \in new
      PROVE  \E j \in 1..k : /\ x = Sign(PrePrepare(s.opNum + j, batch(j)))
                             /\ x.kind = "Sign" /\ x.msg.type = "PrePrepare"
                             /\ x.msg.op = s.opNum + j /\ x.msg \in PrePrepares(M.req)
                             /\ x.msg.op \in Nat \ {0}
  <2>1. PICK j \in 1..k : x = Sign(PrePrepare(s.opNum + j, batch(j)))
    OBVIOUS
  <2>2. s.opNum + j \in Nat \ {0}
    BY <1>1
  <2>3. batch(j) \in Seq(M.req) \ {<<>>}
    BY <1>4
  <2> QED
    BY <2>1, <2>2, <2>3 DEF Sign, PrePrepare, PrePrepares
<1>7. /\ DOMAIN t = Fields
      /\ t.replies = s.replies /\ t.requests = rest /\ t.opNum = s.opNum + k /\ t.log = s.log
      /\ t.prepares = s.prepares
      /\ t.commits = s.commits /\ t.commitNum = s.commitNum /\ t.app = s.app
      /\ t.pendingPrepares = s.pendingPrepares /\ t.pendingCommits = s.pendingCommits
      /\ t.panicked = s.panicked
      /\ t.tasks = s.tasks \cup new
  BY <1>1, <1>2 DEF Fields
<1> HIDE DEF t
<1>8. LogRight(t, r, M) /\ Certified(t, M) /\ AppRight(t, M) /\ Quorums(t, M) /\ Pending(t, r, M)
  BY <1>7 DEF Local, LogRight, Certified, AppRight, Quorums, Pending
<1>9. Queue(t, r, M)
  BY <1>1, <1>5, <1>7 DEF Local, Queue
<1>10. Tasks(t, r, M)
  <2>1. \A x \in new : TaskRight(x, t, r, M)
    BY <1>6 DEF TaskRight
  <2>2. \A x \in s.tasks : TaskRight(x, t, r, M)
    BY <1>7 DEF Local, Tasks, TaskRight, HasBatch, HasEntry
  <2> QED
    BY <1>7, <2>1, <2>2 DEF Tasks
<1>11. \A type, op : Verifying(t, type, op) = Verifying(s, type, op)
  BY <1>6, <1>7 DEF Verifying
<1>12. OneAtATime(t)
  <2> SUFFICES ASSUME NEW x \in t.tasks, x.kind = "Verify" PROVE
         /\ x.msg.type = "Prepare" =>
              x.msg.op \in DOMAIN t.pendingPrepares /\ Verifying(t, "Prepare", x.msg.op) = {x}
         /\ x.msg.type = "Commit" =>
              x.msg.op \in DOMAIN t.pendingCommits /\ Verifying(t, "Commit", x.msg.op) = {x}
    BY DEF OneAtATime
  <2>1. x \in s.tasks
    BY <1>6, <1>7
  <2>2. /\ x.msg.type = "Prepare" =>
             x.msg.op \in DOMAIN s.pendingPrepares /\ Verifying(s, "Prepare", x.msg.op) = {x}
        /\ x.msg.type = "Commit" =>
             x.msg.op \in DOMAIN s.pendingCommits /\ Verifying(s, "Commit", x.msg.op) = {x}
    BY <2>1 DEF Local, OneAtATime
  <2> QED
    BY <1>7, <1>11, <2>2
<1>13. LeftOver(t)
  BY <1>7, <1>11 DEF Local, LeftOver
<1>14. SignedOnce(t, r)
  <2>1. \A x \in s.tasks : x.kind = "Sign" /\ x.msg.type = "PrePrepare" =>
            x.msg.op <= s.opNum /\ x.msg.op \in Nat
    BY DEF Local, SignedOnce, Tasks, TaskRight, PrePrepares, Votes
  <2>2. ASSUME NEW x \in t.tasks, x.kind = "Sign", x.msg.type = "PrePrepare"
        PROVE  /\ x.msg.op <= s.opNum + k /\ ~HasBatch(t, x.msg.op)
               /\ \A u \in t.tasks :
                    u.kind = "Sign" /\ u.msg.type = "PrePrepare" /\ u.msg.op = x.msg.op => u = x
    <3>1. CASE x \in s.tasks
      <4>1. x.msg.op <= s.opNum /\ x.msg.op \in Nat /\ ~HasBatch(t, x.msg.op)
        BY <1>7, <2>1, <2>2, <3>1 DEF Local, SignedOnce, HasBatch, HasEntry
      <4>2. \A u \in new : u.msg.op # x.msg.op
        BY <1>1, <1>6, <4>1
      <4> QED
        BY <1>1, <1>7, <2>2, <3>1, <4>1, <4>2 DEF Local, SignedOnce
    <3>2. CASE x \in new
      <4>1. PICK j \in 1..k : /\ x = Sign(PrePrepare(s.opNum + j, batch(j)))
                              /\ x.msg.op = s.opNum + j
        BY <1>6, <3>2
      <4>2. ~HasBatch(t, x.msg.op)
        BY <1>1, <1>7, <4>1 DEF Local, SignedOnce, HasBatch, HasEntry
      <4>3. ASSUME NEW u \in t.tasks, u.kind = "Sign", u.msg.type = "PrePrepare", u.msg.op = x.msg.op
            PROVE  u = x
        <5>1. u \notin s.tasks
          BY <1>1, <2>1, <4>1, <4>3
        <5>2. PICK i \in 1..k : /\ u = Sign(PrePrepare(s.opNum + i, batch(i)))
                                /\ u.msg.op = s.opNum + i
          BY <1>6, <1>7, <5>1
        <5>3. i = j
          BY <1>1, <4>1, <4>3, <5>2
        <5> QED
          BY <4>1, <5>2, <5>3
      <4>4. x.msg.op <= s.opNum + k
        BY <1>1, <4>1
      <4> QED
        BY <4>2, <4>3, <4>4
    <3> QED
      BY <1>7, <2>2, <3>1, <3>2
  <2>3. Len(t.log) <= t.opNum
    BY <1>1, <1>7 DEF Local, SignedOnce
  <2> QED
    BY <1>7, <2>2, <2>3 DEF SignedOnce
<1> QED
  BY <1>7, <1>8, <1>9, <1>10, <1>11, <1>12, <1>13, <1>14 DEF Local, t

LEMMA WantedBatches ==
  ASSUME NEW len \in Nat, NEW b \in Nat \ {0}
  PROVE  /\ (len + b - 1) \div b \in Nat
         /\ \A j \in 1..((len + b - 1) \div b) : (j - 1) * b < len
<1> DEFINE w == (len + b - 1) \div b
<1>1. w \in Nat
  OBVIOUS
<1>2. w * b <= len + b - 1
  OBVIOUS
<1> HIDE DEF w
<1>3. ASSUME NEW j \in 1..w PROVE (j - 1) * b < len
  <2>1. j * b <= w * b
    BY <1>1
  <2>2. (j - 1) * b = j * b - b
    OBVIOUS
  <2>3. j * b \in Nat /\ w * b \in Nat
    BY <1>1
  <2> QED
    BY <1>2, <2>1, <2>2, <2>3
<1> QED
  BY <1>1, <1>3 DEF w

LEMMA MinOfTwo ==
  ASSUME NEW a \in Nat, NEW b \in Nat
  PROVE  Min({a, b}) \in Nat /\ Min({a, b}) <= a /\ Min({a, b}) <= b
  BY DEF Min

LEMMA CloseBatchesRight ==
  ASSUME NEW M, World(M), NEW r, NEW s, Local(s, r, M)
  PROVE  /\ Local(CloseBatches(s, r), r, M)
         /\ CloseBatches(s, r).log = s.log
         /\ CloseBatches(s, r).app = s.app
         /\ CloseBatches(s, r).pendingPrepares = s.pendingPrepares
         /\ CloseBatches(s, r).pendingCommits = s.pendingCommits
         /\ \A type, op : Verifying(CloseBatches(s, r), type, op) = Verifying(s, type, op)
<1> DEFINE len == Len(s.requests)
           wanted == (len + MaxBatch - 1) \div MaxBatch
           allowed == s.commitNum + NUM_CONCURRENT_PRE_PREPARE + 1
           k == Min({wanted, allowed - s.opNum})
<1>1. len \in Nat /\ s.opNum \in Nat /\ s.commitNum \in Nat
  BY LenProperties DEF Local, Queue, AppRight
<1>2. wanted \in Nat /\ \A j \in 1..wanted : (j - 1) * MaxBatch < len
  BY <1>1, WantedBatches, BoundsAssumption
<1>3. CASE IsPrimary(r) /\ s.opNum < allowed
  <2>1. CloseBatches(s, r) = CloseBatch(s, k)
    BY <1>3 DEF CloseBatches
  <2>2. allowed - s.opNum \in Nat
    BY <1>1, <1>3 DEF NUM_CONCURRENT_PRE_PREPARE
  <2> HIDE DEF wanted, allowed
  <2>3. k \in Nat /\ k <= wanted
    BY <1>2, <2>2, MinOfTwo
  <2> HIDE DEF k
  <2>4. \A j \in 1..k : (j - 1) * MaxBatch < Len(s.requests)
    BY <1>2, <2>3
  <2> QED
    BY <1>3, <2>1, <2>3, <2>4, CloseBatchRight
<1>4. CASE ~(IsPrimary(r) /\ s.opNum < allowed)
  BY <1>4 DEF CloseBatches
<1> QED
  BY <1>3, <1>4

(* insert_commit when the quorum is complete, before the loops that        *)
(* execute.                                                                *)
WithCommitted(s, Q, op) ==
  [s EXCEPT !.commits = Q \ Quorum(Q, op), !.log = SetCommitted(s.log, op)]

LEMMA CommittedRight ==
  ASSUME NEW M, World(M), NEW r, NEW s, Local(s, r, M), NEW Q, Q \subseteq M.com, OnePerSender(Q),
         NEW op \in 1..Len(s.log), HasCommitQuorum(Q, op),
         \A o : o # op => Quorum(Q, o) = Quorum(s.commits, o)
  PROVE  /\ Local(WithCommitted(s, Q, op), r, M) /\ Grows(s, WithCommitted(s, Q, op))
         /\ WithCommitted(s, Q, op).pendingPrepares = s.pendingPrepares
         /\ WithCommitted(s, Q, op).pendingCommits = s.pendingCommits
         /\ WithCommitted(s, Q, op).tasks = s.tasks
<1> DEFINE t == WithCommitted(s, Q, op)
<1>1. DOMAIN s = Fields /\ s.log \in Seq(Entries(M.req)) /\ Len(s.log) \in Nat
  BY LenProperties DEF Local, LogRight
<1>2. /\ DOMAIN t = Fields
      /\ t.replies = s.replies /\ t.requests = s.requests /\ t.opNum = s.opNum
      /\ t.log = SetCommitted(s.log, op)
      /\ t.prepares = s.prepares
      /\ t.commits = Q \ Quorum(Q, op) /\ t.commitNum = s.commitNum /\ t.app = s.app
      /\ t.pendingPrepares = s.pendingPrepares /\ t.pendingCommits = s.pendingCommits
      /\ t.panicked = s.panicked
      /\ t.tasks = s.tasks
  BY <1>1 DEF Fields, WithCommitted
<1> HIDE DEF t
<1>3. /\ t.log \in Seq(Entries(M.req)) /\ Len(t.log) = Len(s.log)
      /\ \A i \in 1..Len(s.log) :
            /\ t.log[i].batch = s.log[i].batch
            /\ t.log[i].prepared = s.log[i].prepared
            /\ t.log[i].committed <=> i = op \/ s.log[i].committed
  <2>1. /\ SetCommitted(s.log, op) \in Seq(Entries(M.req))
        /\ Len(SetCommitted(s.log, op)) = Len(s.log)
        /\ \A i \in 1..Len(s.log) :
              /\ SetCommitted(s.log, op)[i].batch = s.log[i].batch
              /\ SetCommitted(s.log, op)[i].prepared = s.log[i].prepared
              /\ SetCommitted(s.log, op)[i].committed <=> i = op \/ s.log[i].committed
    BY <1>1, SetCommittedEffect
  <2> QED
    BY <1>2, <2>1
<1>4. Grows(s, t)
  BY <1>1, <1>3 DEF Grows
<1>5. Queue(t, r, M) /\ Pending(t, r, M)
  BY <1>2 DEF Local, Queue, Pending
<1>6. LogRight(t, r, M)
  BY <1>3 DEF Local, LogRight
<1>7. Certified(t, M)
  BY <1>3 DEF Local, Certified
<1>8. AppRight(t, M)
  BY <1>1, <1>2, <1>3, <1>4, AppKept DEF Local
<1>9. Quorums(t, M)
  BY <1>2 DEF Local, Quorums, OnePerSender
<1>10. \A type, o : Verifying(t, type, o) = Verifying(s, type, o)
  BY <1>2 DEF Verifying
<1>11. Tasks(t, r, M)
  <2>1. ASSUME NEW x \in s.tasks PROVE TaskRight(x, t, r, M)
    <3>1. TaskRight(x, s, r, M)
      BY DEF Local, Tasks
    <3> QED
      BY <1>1, <1>3, <1>4, <3>1, TaskKept
  <2> QED
    BY <1>2, <2>1 DEF Tasks
<1>12. OneAtATime(t)
  BY <1>2 DEF Local, OneAtATime, Verifying
<1>13. LeftOver(t)
  <2>1. ASSUME NEW o \in 1..Len(s.log), t.log[o].committed
        PROVE  /\ AtMostOne(Quorum(t.commits, o))
               /\ Verifying(s, "Commit", o) # {} => Quorum(t.commits, o) = {}
    <3>1. CASE o # op
      <4>1. Quorum(t.commits, o) = Quorum(s.commits, o)
        BY <1>2, <3>1 DEF Quorum
      <4> QED
        BY <1>3, <2>1, <3>1, <4>1 DEF Local, LeftOver
    <3>2. CASE o = op
      BY <1>2, <3>2 DEF Quorum, AtMostOne
    <3> QED
      BY <3>1, <3>2
  <2>2. ASSUME NEW o \in 1..Len(s.log), t.log[o].prepared
        PROVE  /\ AtMostOne(Quorum(t.prepares, o))
               /\ Verifying(s, "Prepare", o) # {} => Quorum(t.prepares, o) = {}
    BY <1>2, <1>3, <2>2 DEF Local, LeftOver
  <2>3. \A o : Verifying(t, "Prepare", o) = Verifying(s, "Prepare", o)
               /\ Verifying(t, "Commit", o) = Verifying(s, "Commit", o)
    BY <1>10
  <2> QED
    BY <1>3, <2>1, <2>2, <2>3 DEF LeftOver
<1>14. SignedOnce(t, r)
  <2>1. \A o \in Nat \ {0} : HasBatch(t, o) => HasBatch(s, o)
    BY <1>1, <1>3 DEF HasBatch, HasEntry
  <2>2. \A x \in s.tasks : x.msg.op \in Nat \ {0}
    BY DEF Local, Tasks, TaskRight, Votes, PrePrepares, World
  <2> QED
    BY <1>2, <1>3, <2>1, <2>2 DEF Local, SignedOnce
<1> QED
  BY <1>2, <1>4, <1>5, <1>6, <1>7, <1>8, <1>9, <1>11, <1>12, <1>13, <1>14 DEF Local, t

LEMMA InsertCommitRight ==
  ASSUME NEW M, World(M), NEW r, NEW s, Local(s, r, M), NEW p \in M.com,
         HasEntry(s, p.op) /\ s.log[p.op].committed =>
            Quorum(s.commits, p.op) = {} /\ Verifying(s, "Commit", p.op) = {}
  PROVE  /\ Local(InsertCommit(s, r, p), r, M)
         /\ Grows(s, InsertCommit(s, r, p))
         /\ InsertCommit(s, r, p).pendingPrepares = s.pendingPrepares
         /\ InsertCommit(s, r, p).pendingCommits = s.pendingCommits
         /\ \A type, op : Verifying(InsertCommit(s, r, p), type, op) = Verifying(s, type, op)
<1> DEFINE t == InsertCommit(s, r, p)
           Q == Inserted(s.commits, p)
<1>1. /\ Q \subseteq M.com /\ OnePerSender(Q)
      /\ p \in Q
      /\ \A op : op # p.op => Quorum(Q, op) = Quorum(s.commits, op)
      /\ Quorum(s.commits, p.op) = {} => Quorum(Q, p.op) = {p}
  <2>1. s.commits \subseteq M.com /\ OnePerSender(s.commits)
    BY DEF Local, Quorums
  <2> QED
    BY <2>1, InsertedFacts
<1>2. p \in Votes("Commit", Replicas, M.req)
  BY DEF World
<1>3. p.op \in Nat \ {0} /\ p.digest \in Seq(M.req)
  BY <1>2 DEF Votes
<1>4. DOMAIN s = Fields /\ s.log \in Seq(Entries(M.req)) /\ Len(s.log) \in Nat
  BY LenProperties DEF Local, LogRight
<1>5. HasCommitQuorum(Q, p.op) /\ HasEntry(s, p.op) => ~s.log[p.op].committed
  BY <1>1, OneIsNoQuorum
<1>6. CASE ~(HasCommitQuorum(Q, p.op) /\ HasEntry(s, p.op) /\ s.log[p.op].prepared)
  <2>1. t = [s EXCEPT !.commits = Q]
    BY <1>5, <1>6 DEF InsertCommit
  <2>2. /\ DOMAIN t = Fields
        /\ t.replies = s.replies /\ t.requests = s.requests /\ t.opNum = s.opNum /\ t.log = s.log
        /\ t.prepares = s.prepares
        /\ t.commits = Q /\ t.commitNum = s.commitNum /\ t.app = s.app
        /\ t.pendingPrepares = s.pendingPrepares /\ t.pendingCommits = s.pendingCommits
        /\ t.panicked = s.panicked /\ t.tasks = s.tasks
    BY <1>4, <2>1 DEF Fields
  <2> HIDE DEF t, Q
  <2>3. Queue(t, r, M) /\ LogRight(t, r, M) /\ Pending(t, r, M)
    BY <2>2 DEF Local, Queue, LogRight, Pending
  <2>10. Certified(t, M) /\ AppRight(t, M)
    BY <2>2 DEF Local, Certified, AppRight
  <2>4. Quorums(t, M)
    BY <1>1, <2>2 DEF Local, Quorums
  <2>5. Tasks(t, r, M)
    BY <2>2 DEF Local, Tasks, TaskRight, HasBatch, HasEntry
  <2>6. OneAtATime(t) /\ SignedOnce(t, r)
    BY <2>2 DEF Local, OneAtATime, Verifying, SignedOnce, HasBatch, HasEntry
  <2>7. \A type, op : Verifying(t, type, op) = Verifying(s, type, op)
    BY <2>2 DEF Verifying
  <2>8. LeftOver(t)
    <3> SUFFICES ASSUME NEW op \in 1..Len(s.log), s.log[op].committed
                 PROVE  /\ AtMostOne(Quorum(Q, op))
                        /\ Verifying(s, "Commit", op) # {} => Quorum(Q, op) = {}
      BY <2>2, <2>7 DEF Local, LeftOver
    <3>1. CASE op # p.op
      BY <1>1, <3>1 DEF Local, LeftOver
    <3>2. CASE op = p.op
      BY <1>1, <1>3, <3>2 DEF HasEntry, AtMostOne
    <3> QED
      BY <3>1, <3>2
  <2>9. Grows(s, t)
    BY <1>4, <2>2 DEF Grows
  <2> QED
    BY <2>2, <2>3, <2>10, <2>4, <2>5, <2>6, <2>7, <2>8, <2>9 DEF Local, t
<1>7. CASE HasCommitQuorum(Q, p.op) /\ HasEntry(s, p.op) /\ s.log[p.op].prepared
  <2> DEFINE u == WithCommitted(s, Q, p.op)
  <2>1. t = CloseBatches(Execute(u), r)
    BY <1>5, <1>7 DEF InsertCommit, SetCommitted, WithCommitted
  <2>2. p.op \in 1..Len(s.log)
    BY <1>3, <1>4, <1>7 DEF HasEntry
  <2> HIDE DEF t, Q
  <2>3. /\ Local(u, r, M) /\ Grows(s, u)
        /\ u.pendingPrepares = s.pendingPrepares
        /\ u.pendingCommits = s.pendingCommits
        /\ u.tasks = s.tasks
    BY <1>1, <1>7, <2>2, CommittedRight
  <2> HIDE DEF u
  <2> DEFINE x == Execute(u)
  <2>4. /\ Local(x, r, M)
        /\ x.log = u.log /\ x.pendingPrepares = u.pendingPrepares
        /\ x.pendingCommits = u.pendingCommits /\ x.tasks = u.tasks
    BY <2>3, ExecuteRight
  <2> HIDE DEF x
  <2>5. /\ Local(CloseBatches(x, r), r, M)
        /\ CloseBatches(x, r).log = x.log
        /\ CloseBatches(x, r).pendingPrepares = x.pendingPrepares
        /\ CloseBatches(x, r).pendingCommits = x.pendingCommits
        /\ \A type, o : Verifying(CloseBatches(x, r), type, o) = Verifying(x, type, o)
    BY <2>4, CloseBatchesRight
  <2>6. t = CloseBatches(x, r)
    BY <2>1 DEF x
  <2>7. \A type, o : Verifying(t, type, o) = Verifying(s, type, o)
    BY <2>3, <2>4, <2>5, <2>6 DEF Verifying
  <2>8. Grows(s, t)
    BY <2>3, <2>4, <2>5, <2>6 DEF Grows
  <2> QED
    BY <2>3, <2>4, <2>5, <2>6, <2>7, <2>8 DEF t
<1> QED
  BY <1>6, <1>7

(* t waits for the same votes as s. *)
SameVotes(s, t) ==
  /\ t.pendingPrepares = s.pendingPrepares /\ t.pendingCommits = s.pendingCommits
  /\ \A type, op : type # "PrePrepare" => Verifying(t, type, op) = Verifying(s, type, op)

(* The request is noted and queued. *)
Queued(s, q) ==
  [s EXCEPT !.replies = [s.replies EXCEPT ![q.client] = [seq |-> q.seq, reply |-> None]],
            !.requests = Append(s.requests, q)]

LEMMA AppendSeq ==
  ASSUME NEW B, NEW a \in Seq(B), NEW x \in B
  PROVE  Append(a, x) \in Seq(B) /\ Len(Append(a, x)) = Len(a) + 1
  OBVIOUS

LEMMA QueuedRight ==
  ASSUME NEW M, World(M), NEW r, IsPrimary(r), NEW s, Local(s, r, M), NEW q \in M.req
  PROVE  /\ Local(Queued(s, q), r, M) /\ Queued(s, q).log = s.log /\ Queued(s, q).app = s.app
         /\ SameVotes(s, Queued(s, q))
         /\ Len(Queued(s, q).requests) > 0 /\ Len(Queued(s, q).requests) \in Nat
<1> DEFINE t == Queued(s, q)
<1>1. /\ DOMAIN s = Fields /\ s.requests \in Seq(M.req) /\ Len(s.requests) \in Nat
      /\ RepliesTyped(s.replies, M.req)
  BY LenProperties DEF Local, Queue
<1>2. q.client \in Clients /\ q.seq \in Nat /\ q = [client |-> q.client, seq |-> q.seq]
  BY BoundsAssumption DEF World, Requests
<1> DEFINE replies == [s.replies EXCEPT ![q.client] = [seq |-> q.seq, reply |-> None]]
           requests == Append(s.requests, q)
<1>3. RepliesTyped(replies, M.req)
  <2>1. replies \in [Clients -> [seq : Nat, reply : Results \cup {None}]]
    BY <1>1, <1>2 DEF RepliesTyped
  <2>2. ASSUME NEW c \in Clients
        PROVE  replies[c].seq = 0 \/ [client |-> c, seq |-> replies[c].seq] \in M.req
    BY <1>1, <1>2 DEF RepliesTyped
  <2> QED
    BY <2>1, <2>2 DEF RepliesTyped
<1>4. requests \in Seq(M.req) /\ Len(requests) = Len(s.requests) + 1
  <2> DEFINE R == M.req
             a == s.requests
  <2>1. a \in Seq(R) /\ q \in R
    BY <1>1
  <2> HIDE DEF R, a
  <2>2. Append(a, q) \in Seq(R) /\ Len(Append(a, q)) = Len(a) + 1
    BY <2>1, AppendSeq
  <2> QED
    BY <2>2 DEF R, a
<1>5. /\ DOMAIN t = Fields
      /\ t.replies = replies /\ t.requests = requests /\ t.opNum = s.opNum
      /\ t.log = s.log
      /\ t.prepares = s.prepares
      /\ t.commits = s.commits /\ t.commitNum = s.commitNum /\ t.app = s.app
      /\ t.pendingPrepares = s.pendingPrepares /\ t.pendingCommits = s.pendingCommits
      /\ t.panicked = s.panicked
      /\ t.tasks = s.tasks
  BY <1>1 DEF Fields, Queued
<1> HIDE DEF replies, requests, t
<1>6. Queue(t, r, M)
  BY <1>3, <1>4, <1>5 DEF Local, Queue
<1>7. LogRight(t, r, M) /\ Certified(t, M) /\ AppRight(t, M) /\ Quorums(t, M) /\ Pending(t, r, M)
  BY <1>5 DEF Local, LogRight, Certified, AppRight, Quorums, Pending
<1>8. Tasks(t, r, M)
  BY <1>5 DEF Local, Tasks, TaskRight, HasBatch, HasEntry
<1>9. OneAtATime(t) /\ SignedOnce(t, r)
  BY <1>5 DEF Local, OneAtATime, Verifying, SignedOnce, HasBatch, HasEntry
<1>10. LeftOver(t)
  BY <1>5 DEF Local, LeftOver, Verifying
<1>11. SameVotes(s, t)
  BY <1>5 DEF SameVotes, Verifying
<1>12. Len(t.requests) > 0 /\ Len(t.requests) \in Nat
  BY <1>1, <1>4, <1>5
<1> QED
  BY <1>5, <1>6, <1>7, <1>8, <1>9, <1>10, <1>11, <1>12 DEF Local, t

LEMMA AcceptRight ==
  ASSUME NEW M, World(M), NEW r, IsPrimary(r), NEW s, Local(s, r, M), NEW q \in M.req
  PROVE  /\ Local(Accept(s, q), r, M) /\ Accept(s, q).log = s.log /\ Accept(s, q).app = s.app
         /\ SameVotes(s, Accept(s, q))
<1> DEFINE t == Queued(s, q)
<1>2. /\ Local(t, r, M) /\ t.log = s.log /\ t.app = s.app /\ SameVotes(s, t)
      /\ Len(t.requests) > 0 /\ Len(t.requests) \in Nat
  BY QueuedRight
<1>3. Accept(s, q) = t \/ Accept(s, q) = CloseBatch(t, 1)
  BY DEF Accept, Queued
<1> HIDE DEF t
<1>4. CASE Accept(s, q) = t
  BY <1>2, <1>4
<1>5. CASE Accept(s, q) = CloseBatch(t, 1)
  <2>1. \A j \in 1..1 : (j - 1) * MaxBatch < Len(t.requests)
    BY <1>2, BoundsAssumption
  <2>2. /\ Local(CloseBatch(t, 1), r, M)
        /\ CloseBatch(t, 1).log = t.log
        /\ CloseBatch(t, 1).app = t.app
        /\ CloseBatch(t, 1).pendingPrepares = t.pendingPrepares
        /\ CloseBatch(t, 1).pendingCommits = t.pendingCommits
        /\ \A type, op : Verifying(CloseBatch(t, 1), type, op) = Verifying(t, type, op)
    BY <1>2, <2>1, CloseBatchRight
  <2>3. SameVotes(s, CloseBatch(t, 1))
    BY <1>2, <2>2 DEF SameVotes
  <2> QED
    BY <1>2, <1>5, <2>2, <2>3
<1> QED
  BY <1>3, <1>4, <1>5

(* The batch of a pre-prepare is logged, and votes for another digest      *)
(* dropped.                                                                *)
NewBatch(s, op, b, P, C, T) ==
  [s EXCEPT !.log = SetBatch(s.log, op, b), !.tasks = s.tasks \cup T,
            !.prepares = P, !.commits = C]

LEMMA NewBatchRight ==
  ASSUME NEW M, World(M), NEW r, NEW s, Local(s, r, M),
         NEW op \in Nat \ {0}, NEW b \in Seq(M.req), b # <<>>,
         ~HasBatch(s, op), InOrder => op <= Len(s.log) + 1,
         ~IsPrimary(r) => PrePrepare(op, b) \in M.pre,
         IsPrimary(r) => /\ op <= s.opNum
                         /\ \A x \in s.tasks : x.kind = "Sign" /\ x.msg.type = "PrePrepare" => x.msg.op # op,
         NEW P, P \subseteq s.prepares, NEW C, C \subseteq s.commits, NEW T,
         T # {} => ~IsPrimary(r) /\ T = {Sign(Prepare(op, b, r))}
  PROVE  /\ Local(NewBatch(s, op, b, P, C, T), r, M)
         /\ Grows(s, NewBatch(s, op, b, P, C, T))
         /\ SameVotes(s, NewBatch(s, op, b, P, C, T))
         /\ HasEntry(NewBatch(s, op, b, P, C, T), op)
         /\ NewBatch(s, op, b, P, C, T).log[op].batch = b
         /\ NewBatch(s, op, b, P, C, T).app = s.app
<1> DEFINE t == NewBatch(s, op, b, P, C, T)
           E(i) == EntryAt(s.log, i)
<1>1. DOMAIN s = Fields /\ s.log \in Seq(Entries(M.req)) /\ Len(s.log) \in Nat
  BY LenProperties DEF Local, LogRight
<1>2. /\ DOMAIN t = Fields
      /\ t.replies = s.replies /\ t.requests = s.requests /\ t.opNum = s.opNum
      /\ t.log = SetBatch(s.log, op, b)
      /\ t.prepares = P
      /\ t.commits = C /\ t.commitNum = s.commitNum /\ t.app = s.app
      /\ t.pendingPrepares = s.pendingPrepares /\ t.pendingCommits = s.pendingCommits
      /\ t.panicked = s.panicked
      /\ t.tasks = s.tasks \cup T
  BY <1>1 DEF Fields, NewBatch
<1> HIDE DEF t
<1>3. /\ t.log \in Seq(Entries(M.req))
      /\ Len(t.log) = IF op <= Len(s.log) THEN Len(s.log) ELSE op
      /\ \A i \in 1..Len(t.log) : /\ t.log[i].batch = IF i = op THEN b ELSE E(i).batch
                                  /\ t.log[i].prepared = E(i).prepared
                                  /\ t.log[i].committed = E(i).committed
  <2>1. BatchIsSet(s.log, op, b, M.req, SetBatch(s.log, op, b))
    BY <1>1, SetBatchEffect
  <2> QED
    BY <1>2, <2>1 DEF BatchIsSet
<1>4. /\ Len(t.log) \in Nat /\ Len(s.log) <= Len(t.log) /\ op \in 1..Len(t.log)
      /\ \A i \in 1..Len(s.log) : i \in 1..Len(t.log)
  BY <1>1, <1>3
<1>5. \A i \in 1..Len(s.log) :
        /\ t.log[i].batch = IF i = op THEN b ELSE s.log[i].batch
        /\ t.log[i].prepared = s.log[i].prepared
        /\ t.log[i].committed = s.log[i].committed
  BY <1>1, <1>3, <1>4 DEF EntryAt
<1>6. \A i \in 1..Len(t.log) : i \notin 1..Len(s.log) =>
        /\ t.log[i].batch = IF i = op THEN b ELSE <<>>
        /\ t.log[i].prepared = FALSE
        /\ t.log[i].committed = FALSE
  <2> SUFFICES ASSUME NEW i \in 1..Len(t.log), i \notin 1..Len(s.log)
               PROVE  /\ t.log[i].batch = IF i = op THEN b ELSE <<>>
                      /\ t.log[i].prepared = FALSE
                      /\ t.log[i].committed = FALSE
    OBVIOUS
  <2>1. E(i) = NoEntry
    BY <1>1, <1>4 DEF EntryAt
  <2> HIDE DEF E
  <2>2. E(i).batch = <<>> /\ E(i).prepared = FALSE /\ E(i).committed = FALSE
    BY <2>1 DEF NoEntry
  <2> QED
    BY <1>3, <2>2
<1>7. t.log[op].batch = b /\ HasEntry(t, op)
  BY <1>3, <1>4 DEF HasEntry
<1> HIDE DEF E
<1>8. op \in 1..Len(s.log) => s.log[op].batch = <<>>
  BY <1>1 DEF HasBatch, HasEntry
<1>9. Grows(s, t)
  BY <1>4, <1>5, <1>8 DEF Grows
<1>10. Queue(t, r, M) /\ Pending(t, r, M)
  BY <1>2 DEF Local, Queue, Pending
<1>11. LogRight(t, r, M)
  <2> SUFFICES ASSUME NEW i \in 1..Len(t.log)
               PROVE  /\ ~IsPrimary(r) /\ t.log[i].batch # <<>> => PrePrepare(i, t.log[i].batch) \in M.pre
                      /\ InOrder => t.log[i].batch # <<>>
    BY <1>3 DEF LogRight
  <2>1. CASE i = op
    BY <1>7, <2>1
  <2>2. CASE i # op /\ i \in 1..Len(s.log)
    BY <1>5, <2>2 DEF Local, LogRight
  <2>3. CASE i # op /\ i \notin 1..Len(s.log)
    <3>1. t.log[i].batch = <<>>
      BY <1>6, <2>3
    <3>2. ~InOrder
      BY <1>1, <1>3, <1>4, <2>3
    <3> QED
      BY <3>1, <3>2
  <2> QED
    BY <2>1, <2>2, <2>3
<1>12. Certified(t, M)
  BY <1>5, <1>6 DEF Local, Certified
<1>13. AppRight(t, M)
  BY <1>1, <1>2, <1>4, <1>9, AppKept DEF Local
<1>14. Quorums(t, M)
  BY <1>2 DEF Local, Quorums, OnePerSender
<1>15. \A type, o : Verifying(t, type, o) = Verifying(s, type, o)
  BY <1>2 DEF Verifying, Sign
<1>16. Tasks(t, r, M)
  <2>1. ASSUME NEW x \in T PROVE TaskRight(x, t, r, M)
    <3>1. x = Sign(Prepare(op, b, r)) /\ ~IsPrimary(r) /\ HasBatch(t, op)
      BY <1>7 DEF HasBatch
    <3> QED
      BY <3>1 DEF TaskRight, Sign, Prepare, Votes
  <2>2. ASSUME NEW x \in s.tasks PROVE TaskRight(x, t, r, M)
    <3>1. TaskRight(x, s, r, M)
      BY DEF Local, Tasks
    <3> QED
      BY <1>1, <1>4, <1>9, <3>1, TaskKept
  <2> QED
    BY <1>2, <2>1, <2>2 DEF Tasks
<1>17. OneAtATime(t)
  BY <1>2 DEF Local, OneAtATime, Verifying, Sign
<1>18. LeftOver(t)
  <2>1. \A V, W, o : V \subseteq W => Quorum(V, o) \subseteq Quorum(W, o)
    BY DEF Quorum
  <2>2. ASSUME NEW i \in 1..Len(t.log), t.log[i].prepared
        PROVE  /\ AtMostOne(Quorum(P, i))
               /\ Verifying(s, "Prepare", i) # {} => Quorum(P, i) = {}
    <3>1. i \in 1..Len(s.log) /\ s.log[i].prepared
      BY <1>5, <1>6, <2>2
    <3>2. /\ AtMostOne(Quorum(s.prepares, i))
          /\ Verifying(s, "Prepare", i) # {} => Quorum(s.prepares, i) = {}
      BY <3>1 DEF Local, LeftOver
    <3> QED
      BY <2>1, <3>2 DEF AtMostOne
  <2>3. ASSUME NEW i \in 1..Len(t.log), t.log[i].committed
        PROVE  /\ AtMostOne(Quorum(C, i))
               /\ Verifying(s, "Commit", i) # {} => Quorum(C, i) = {}
    <3>1. i \in 1..Len(s.log) /\ s.log[i].committed
      BY <1>5, <1>6, <2>3
    <3>2. /\ AtMostOne(Quorum(s.commits, i))
          /\ Verifying(s, "Commit", i) # {} => Quorum(s.commits, i) = {}
      BY <3>1 DEF Local, LeftOver
    <3> QED
      BY <2>1, <3>2 DEF AtMostOne
  <2>4. \A o : Verifying(t, "Prepare", o) = Verifying(s, "Prepare", o)
               /\ Verifying(t, "Commit", o) = Verifying(s, "Commit", o)
    BY <1>15
  <2> QED
    BY <1>2, <2>2, <2>3, <2>4 DEF LeftOver
<1>19. SignedOnce(t, r)
  <2> SUFFICES ASSUME IsPrimary(r) PROVE SignedOnce(t, r)
    BY DEF SignedOnce
  <2>1. t.tasks = s.tasks
    BY <1>2
  <2>2. \A o \in Nat \ {0} : HasBatch(t, o) => HasBatch(s, o) \/ o = op
    BY <1>1, <1>4, <1>5, <1>6 DEF HasBatch, HasEntry
  <2>3. \A x \in s.tasks : x.msg.op \in Nat \ {0}
    BY DEF Local, Tasks, TaskRight, Votes, PrePrepares, World
  <2>4. Len(t.log) <= t.opNum
    BY <1>2, <1>3 DEF Local, SignedOnce
  <2> QED
    BY <1>2, <2>1, <2>2, <2>3, <2>4 DEF Local, SignedOnce
<1>20. SameVotes(s, t)
  BY <1>2, <1>15 DEF SameVotes
<1> QED
  BY <1>2, <1>7, <1>9, <1>10, <1>11, <1>12, <1>13, <1>14, <1>16, <1>17, <1>18, <1>19, <1>20 DEF Local, t

LEMMA MoreTasks ==
  ASSUME NEW M, World(M), NEW r, ~IsPrimary(r), NEW s, Local(s, r, M), NEW m \in M.pre
  PROVE  /\ Local([s EXCEPT !.tasks = @ \cup {Verify(m)}], r, M)
         /\ SameVotes(s, [s EXCEPT !.tasks = @ \cup {Verify(m)}])
         /\ [s EXCEPT !.tasks = @ \cup {Verify(m)}].log = s.log
         /\ [s EXCEPT !.tasks = @ \cup {Verify(m)}].app = s.app
<1> DEFINE t == [s EXCEPT !.tasks = @ \cup {Verify(m)}]
<1>1. m.type = "PrePrepare"
  BY DEF World, PrePrepares
<1>2. /\ DOMAIN t = Fields
      /\ t.replies = s.replies /\ t.requests = s.requests /\ t.opNum = s.opNum /\ t.log = s.log
      /\ t.prepares = s.prepares
      /\ t.commits = s.commits /\ t.commitNum = s.commitNum /\ t.app = s.app
      /\ t.pendingPrepares = s.pendingPrepares /\ t.pendingCommits = s.pendingCommits
      /\ t.panicked = s.panicked
      /\ t.tasks = s.tasks \cup {Verify(m)}
  BY DEF Local, Fields
<1> HIDE DEF t
<1>3. Queue(t, r, M) /\ LogRight(t, r, M) /\ Certified(t, M) /\ AppRight(t, M)
      /\ Quorums(t, M) /\ Pending(t, r, M)
  BY <1>2 DEF Local, Queue, LogRight, Certified, AppRight, Quorums, Pending
<1>4. Tasks(t, r, M)
  <2>1. TaskRight(Verify(m), t, r, M)
    BY DEF TaskRight, Verify
  <2> QED
    BY <1>2, <2>1 DEF Local, Tasks, TaskRight, HasBatch, HasEntry
<1>5. Verify(m).kind = "Verify" /\ Verify(m).msg.type = "PrePrepare"
  BY <1>1 DEF Verify
<1>6. \A type, op : type # "PrePrepare" => Verifying(t, type, op) = Verifying(s, type, op)
  BY <1>2, <1>5 DEF Verifying
<1>7. OneAtATime(t)
  BY <1>2, <1>5, <1>6 DEF Local, OneAtATime
<1>8. LeftOver(t)
  BY <1>2, <1>6 DEF Local, LeftOver
<1>9. SignedOnce(t, r)
  BY DEF SignedOnce
<1> QED
  BY <1>2, <1>3, <1>4, <1>6, <1>7, <1>8, <1>9 DEF Local, SameVotes, t

-----------------------------------------------------------------------------
(***************************************************************************)
(* The world grows with the logs, and a larger world makes nothing false.  *)
(***************************************************************************)

Larger(M, M2) ==
  M.req \subseteq M2.req /\ M.pre \subseteq M2.pre /\ M.prep \subseteq M2.prep /\ M.com \subseteq M2.com

LEMMA SeqMonotone ==
  ASSUME NEW A, NEW B, A \subseteq B
  PROVE  Seq(A) \subseteq Seq(B)
<1> SUFFICES ASSUME NEW a \in Seq(A) PROVE a \in Seq(B)
  OBVIOUS
<1>1. a \in [1..Len(a) -> A] /\ Len(a) \in Nat
  OBVIOUS
<1>2. a \in [1..Len(a) -> B]
  BY <1>1
<1> QED
  BY <1>1, <1>2

LEMMA EntriesMonotone ==
  ASSUME NEW A, NEW B, A \subseteq B
  PROVE  /\ Entries(A) \subseteq Entries(B) /\ PrePrepares(A) \subseteq PrePrepares(B)
         /\ \A type, from : Votes(type, from, A) \subseteq Votes(type, from, B)
<1>1. Seq(A) \subseteq Seq(B)
  BY SeqMonotone
<1>2. Entries(A) \subseteq Entries(B)
  BY <1>1 DEF Entries
<1>3. PrePrepares(A) \subseteq PrePrepares(B)
  BY <1>1 DEF PrePrepares
<1>4. \A type, from : Votes(type, from, A) \subseteq Votes(type, from, B)
  BY <1>1 DEF Votes
<1> QED
  BY <1>2, <1>3, <1>4

LEMMA LocalMonotone ==
  ASSUME NEW M, NEW M2, Larger(M, M2), NEW r, NEW s, Local(s, r, M)
  PROVE  Local(s, r, M2)
<1>0. M.req \subseteq M2.req /\ M.pre \subseteq M2.pre /\ M.prep \subseteq M2.prep /\ M.com \subseteq M2.com
  BY DEF Larger
<1>1. Seq(M.req) \subseteq Seq(M2.req)
  BY <1>0, SeqMonotone
<1>2. Seq(Seq(M.req)) \subseteq Seq(Seq(M2.req))
  BY <1>1, SeqMonotone
<1>3. /\ Entries(M.req) \subseteq Entries(M2.req) /\ PrePrepares(M.req) \subseteq PrePrepares(M2.req)
      /\ \A type, from : Votes(type, from, M.req) \subseteq Votes(type, from, M2.req)
  BY <1>0, EntriesMonotone
<1>4. Seq(Entries(M.req)) \subseteq Seq(Entries(M2.req))
  BY <1>3, SeqMonotone
<1>5. Queue(s, r, M2)
  BY <1>0, <1>1 DEF Local, Queue, RepliesTyped
<1>6. LogRight(s, r, M2)
  BY <1>0, <1>4 DEF Local, LogRight
<1>7. Certified(s, M2)
  BY <1>0 DEF Local, Certified
<1>8. AppRight(s, M2)
  BY <1>2 DEF Local, AppRight
<1>9. Quorums(s, M2)
  BY <1>0 DEF Local, Quorums
<1>10. Pending(s, r, M2)
  <2>1. ASSUME NEW op \in DOMAIN s.pendingPrepares
        PROVE  s.pendingPrepares[op] \in Seq({p \in M2.prep : p.op = op /\ p.from # r})
    <3>1. s.pendingPrepares[op] \in Seq({p \in M.prep : p.op = op /\ p.from # r})
      BY DEF Local, Pending
    <3>2. {p \in M.prep : p.op = op /\ p.from # r} \subseteq {p \in M2.prep : p.op = op /\ p.from # r}
      BY <1>0
    <3> QED
      BY <3>1, <3>2, SeqMonotone
  <2>2. ASSUME NEW op \in DOMAIN s.pendingCommits
        PROVE  s.pendingCommits[op] \in Seq({p \in M2.com : p.op = op /\ p.from # r})
    <3>1. s.pendingCommits[op] \in Seq({p \in M.com : p.op = op /\ p.from # r})
      BY DEF Local, Pending
    <3>2. {p \in M.com : p.op = op /\ p.from # r} \subseteq {p \in M2.com : p.op = op /\ p.from # r}
      BY <1>0
    <3> QED
      BY <3>1, <3>2, SeqMonotone
  <2> QED
    BY <2>1, <2>2 DEF Pending
<1>11. Tasks(s, r, M2)
  <2>1. ASSUME NEW x \in s.tasks PROVE TaskRight(x, s, r, M2)
    <3>1. TaskRight(x, s, r, M)
      BY DEF Local, Tasks
    <3> QED
      BY <1>0, <1>3, <3>1 DEF TaskRight
  <2> QED
    BY <2>1 DEF Tasks
<1> QED
  BY <1>5, <1>6, <1>7, <1>8, <1>9, <1>10, <1>11 DEF Local

LEMMA MessageMonotone ==
  ASSUME NEW M, NEW M2, Larger(M, M2), NEW e, MessageRight(e, M)
  PROVE  MessageRight(e, M2)
  BY DEF Larger, MessageRight

LEMMA WorldOfRight ==
  ASSUME NEW sq, NEW rep
  PROVE  World(WorldOf(sq, rep)) /\ WorldOf(sq, rep).req = InvokedBy(sq)
<1>1. InvokedBy(sq) \subseteq Requests
  BY DEF InvokedBy
<1> QED
  BY <1>1 DEF World, WorldOf

LEMMA WorldOfGrows ==
  ASSUME NEW sq, NEW sq2, NEW rep, NEW rep2,
         \A q \in Requests : q.seq <= sq[q.client] => q.seq <= sq2[q.client],
         \A r \in Replicas : /\ Grows(rep[r], rep2[r])
                             /\ Len(rep[r].log) \in Nat /\ Len(rep2[r].log) \in Nat
  PROVE  Larger(WorldOf(sq, rep), WorldOf(sq2, rep2))
<1> DEFINE A == InvokedBy(sq)
           B == InvokedBy(sq2)
<1>1. A \subseteq B
  BY DEF InvokedBy
<1> HIDE DEF A, B
<1>2. /\ PrePrepares(A) \subseteq PrePrepares(B)
      /\ \A type, from : Votes(type, from, A) \subseteq Votes(type, from, B)
  BY <1>1, EntriesMonotone
<1>3. ASSUME NEW r \in Replicas, NEW op \in Nat \ {0}, HasEntry(rep[r], op)
      PROVE  /\ HasEntry(rep2[r], op)
             /\ rep[r].log[op].batch # <<>> => rep2[r].log[op].batch = rep[r].log[op].batch
             /\ rep[r].log[op].prepared => rep2[r].log[op].prepared
  <2>1. /\ Grows(rep[r], rep2[r])
        /\ Len(rep[r].log) \in Nat /\ Len(rep2[r].log) \in Nat
    OBVIOUS
  <2>2. op \in 1..Len(rep[r].log)
    BY <1>3, <2>1 DEF HasEntry
  <2>3. Len(rep[r].log) <= Len(rep2[r].log)
    BY <2>1 DEF Grows
  <2>4. HasEntry(rep2[r], op)
    BY <2>1, <2>2, <2>3 DEF HasEntry
  <2>5. /\ rep[r].log[op].batch # <<>> => rep2[r].log[op].batch = rep[r].log[op].batch
        /\ rep[r].log[op].prepared => rep2[r].log[op].prepared
    BY <2>1, <2>2, Zenon DEF Grows
  <2> QED
    BY <2>4, <2>5
<1>4. ASSUME NEW m \in PrePrepares(A),
             HasEntry(rep[Primary], m.op) /\ rep[Primary].log[m.op].batch = m.digest
      PROVE  /\ m \in PrePrepares(B)
             /\ HasEntry(rep2[Primary], m.op) /\ rep2[Primary].log[m.op].batch = m.digest
  <2>1. m.op \in Nat \ {0} /\ m.digest # <<>> /\ Primary \in Replicas
    BY ReplicasAssumption DEF PrePrepares
  <2> QED
    BY <1>2, <1>3, <1>4, <2>1
<1>5. ASSUME NEW p \in Votes("Prepare", Replicas \ {Primary}, A), HasBatch(rep[p.from], p.op)
      PROVE  p \in Votes("Prepare", Replicas \ {Primary}, B) /\ HasBatch(rep2[p.from], p.op)
  <2>1. p.op \in Nat \ {0} /\ p.from \in Replicas
    BY DEF Votes
  <2> QED
    BY <1>2, <1>3, <1>5, <2>1 DEF HasBatch
<1>6. ASSUME NEW p \in Votes("Commit", Replicas, A),
             HasEntry(rep[p.from], p.op) /\ rep[p.from].log[p.op].prepared
      PROVE  /\ p \in Votes("Commit", Replicas, B)
             /\ HasEntry(rep2[p.from], p.op) /\ rep2[p.from].log[p.op].prepared
  <2>1. p.op \in Nat \ {0} /\ p.from \in Replicas
    BY DEF Votes
  <2> QED
    BY <1>2, <1>3, <1>6, <2>1
<1> QED
  BY <1>1, <1>4, <1>5, <1>6 DEF Larger, WorldOf, A, B

(* The step takes replica r to state t and leaves the others alone. *)
Becomes(r, t) ==
  /\ DOMAIN replica' = Replicas
  /\ \A d \in Replicas : replica'[d] = IF d = r THEN t ELSE replica[d]

LEMMA BecomesBy ==
  ASSUME IInv, NEW r \in Replicas, NEW t, replica' = [replica EXCEPT ![r] = t]
  PROVE  Becomes(r, t)
  BY DEF IInv, Becomes

LEMMA StepOf ==
  ASSUME IInv, NEW r \in Replicas, NEW t, seq' = seq, Becomes(r, t),
         Local(t, r, TheWorld), Grows(replica[r], t)
  PROVE  /\ DOMAIN replica' = Replicas
         /\ \A d \in Replicas : Local(replica'[d], d, TheWorld')
         /\ Larger(TheWorld, TheWorld')
         /\ replica'[r] = t
<1>1. /\ DOMAIN replica = Replicas
      /\ \A d \in Replicas : Local(replica[d], d, TheWorld)
  BY DEF IInv
<1>2. DOMAIN replica' = Replicas /\ \A d \in Replicas : replica'[d] = IF d = r THEN t ELSE replica[d]
  BY DEF Becomes
<1>3. \A d \in Replicas : Local(replica'[d], d, TheWorld)
  BY <1>1, <1>2
<1>4. \A d \in Replicas : Len(replica[d].log) \in Nat /\ Len(replica'[d].log) \in Nat
  <2>1. \A s, d : Local(s, d, TheWorld) => Len(s.log) \in Nat
    BY LenProperties DEF Local, LogRight
  <2> QED
    BY <1>1, <1>3, <2>1
<1>5. \A d \in Replicas : Grows(replica[d], replica'[d])
  <2>1. \A d \in Replicas : Grows(replica[d], replica[d])
    BY <1>4 DEF Grows
  <2> QED
    BY <1>2, <2>1
<1>6. Larger(WorldOf(seq, replica), WorldOf(seq', replica'))
  BY <1>4, <1>5, WorldOfGrows
<1>7. Larger(TheWorld, TheWorld')
  BY <1>6 DEF TheWorld
<1>8. \A d \in Replicas : Local(replica'[d], d, TheWorld')
  BY <1>3, <1>7, LocalMonotone
<1> QED
  BY <1>2, <1>7, <1>8

AnswerRight(m) ==
  m.client \in Clients /\ m.seq \in 1..MaxSeq /\ m.result \in Results /\ m.from \in Alive

LEMMA StepRight ==
  ASSUME IInv, NEW r \in Replicas, NEW t, UNCHANGED <<seq, invoke, results>>, Becomes(r, t),
         Local(t, r, TheWorld), Grows(replica[r], t),
         \A e \in toReplica' : e \in toReplica \/ MessageRight(e, TheWorld'),
         \A m \in toClient' : m \in toClient \/ AnswerRight(m)
  PROVE  IInv'
<1>1. /\ DOMAIN replica' = Replicas
      /\ \A d \in Replicas : Local(replica'[d], d, TheWorld')
      /\ Larger(TheWorld, TheWorld')
  BY StepOf
<1>2. NetRight'
  <2>1. \A e \in toReplica : MessageRight(e, TheWorld')
    BY <1>1, MessageMonotone DEF IInv, NetRight
  <2> QED
    BY <2>1 DEF NetRight
<1>3. RepliesRight'
  BY DEF IInv, RepliesRight, AnswerRight
<1>4. ClientsRight'
  BY DEF IInv, ClientsRight
<1> QED
  BY <1>1, <1>2, <1>3, <1>4 DEF IInv

-----------------------------------------------------------------------------
(***************************************************************************)
(* Every action keeps the invariant.                                       *)
(***************************************************************************)

LEMMA InitRight == ASSUME Init PROVE IInv
<1>1. ClientsRight
  BY BoundsAssumption DEF Init, ClientsRight
<1>2. NetRight /\ RepliesRight /\ DOMAIN replica = Replicas
  BY DEF Init, NetRight, RepliesRight
<1>3. ASSUME NEW r \in Replicas, NEW M PROVE Local(InitReplica, r, M)
  <2> DEFINE s == InitReplica
  <2>1. /\ DOMAIN s = Fields
        /\ s.replies = [c \in Clients |-> [seq |-> 0, reply |-> None]]
        /\ s.requests = <<>> /\ s.opNum = 0 /\ s.log = <<>>
        /\ s.prepares = {} /\ s.commits = {} /\ s.commitNum = 0 /\ s.app = <<>>
        /\ s.pendingPrepares = <<>> /\ s.pendingCommits = <<>> /\ s.tasks = {} /\ s.panicked = FALSE
    BY DEF InitReplica, Fields
  <2> HIDE DEF s
  <2>2. \A S : <<>> \in Seq(S) /\ Len(<<>>) = 0 /\ DOMAIN <<>> = {}
    OBVIOUS
  <2>3. Queue(s, r, M)
    BY <2>1, <2>2 DEF Queue, RepliesTyped
  <2>4. LogRight(s, r, M) /\ Certified(s, M)
    BY <2>1, <2>2 DEF LogRight, Certified
  <2>5. AppRight(s, M)
    BY <2>1, <2>2 DEF AppRight
  <2>6. Quorums(s, M) /\ Pending(s, r, M) /\ Tasks(s, r, M) /\ OneAtATime(s)
    BY <2>1, <2>2 DEF Quorums, Pending, Tasks, OneAtATime, OnePerSender
  <2>7. LeftOver(s) /\ SignedOnce(s, r)
    BY <2>1, <2>2 DEF LeftOver, SignedOnce
  <2> QED
    BY <2>1, <2>3, <2>4, <2>5, <2>6, <2>7 DEF Local, s
<1>4. \A r \in Replicas : Local(replica[r], r, TheWorld)
  BY <1>3 DEF Init
<1> QED
  BY <1>1, <1>2, <1>4 DEF IInv

LEMMA ClientInvokeRight ==
  ASSUME IInv, NEW c \in Clients, ClientInvoke(c)
  PROVE  IInv'
<1> DEFINE q == [client |-> c, seq |-> seq[c] + 1]
<1>1. /\ seq \in [Clients -> 0..MaxSeq] /\ seq[c] < MaxSeq /\ MaxSeq \in Nat
      /\ seq' = [seq EXCEPT ![c] = @ + 1] /\ invoke' = [invoke EXCEPT ![c] = <<>>]
      /\ toReplica' = toReplica \cup {Envelope(Primary, [type |-> "Request", req |-> q])}
      /\ results' = results /\ replica' = replica /\ toClient' = toClient
  BY BoundsAssumption DEF ClientInvoke, IInv, ClientsRight
<1>2. /\ seq' \in [Clients -> 0..MaxSeq]
      /\ \A d \in Clients : seq[d] <= seq'[d] /\ seq[d] \in Nat /\ seq'[d] \in Nat
      /\ seq'[c] = seq[c] + 1
  BY <1>1
<1>3. ClientsRight'
  <2>0. <<>> \in Gathered
    <3>1. <<>> \in [{} -> Results]
      OBVIOUS
    <3> QED
      BY <3>1 DEF Gathered
  <2>1. \A d \in Clients : invoke'[d] = invoke[d] \/ invoke'[d] = <<>>
    BY <1>1
  <2> QED
    BY <1>1, <1>2, <2>0, <2>1 DEF IInv, ClientsRight
<1>4. Larger(TheWorld, TheWorld')
  <2>1. \A x \in Requests : x.seq <= seq[x.client] => x.seq <= seq'[x.client]
    BY <1>1, <1>2 DEF Requests
  <2>2. \A s, d : Local(s, d, TheWorld) => Len(s.log) \in Nat
    BY LenProperties DEF Local, LogRight
  <2>3. \A r \in Replicas : Len(replica[r].log) \in Nat /\ Grows(replica[r], replica[r])
    BY <2>2 DEF IInv, Grows
  <2>4. Larger(WorldOf(seq, replica), WorldOf(seq', replica))
    BY <2>1, <2>3, WorldOfGrows
  <2> QED
    BY <1>1, <2>4 DEF TheWorld
<1>5. \A r \in Replicas : Local(replica'[r], r, TheWorld')
  BY <1>1, <1>4, LocalMonotone DEF IInv
<1>6. NetRight'
  <2>1. \A e \in toReplica : MessageRight(e, TheWorld')
    BY <1>4, MessageMonotone DEF IInv, NetRight
  <2>2. q \in InvokedBy(seq')
    BY <1>1, <1>2 DEF InvokedBy, Requests
  <2>3. q \in TheWorld'.req
    BY <2>2 DEF TheWorld, WorldOf
  <2>4. MessageRight(Envelope(Primary, [type |-> "Request", req |-> q]), TheWorld')
    BY <2>3, ReplicasAssumption DEF MessageRight, Envelope
  <2> QED
    BY <1>1, <2>1, <2>4 DEF NetRight
<1>7. RepliesRight' /\ DOMAIN replica' = Replicas
  BY <1>1 DEF IInv, RepliesRight
<1> QED
  BY <1>3, <1>5, <1>6, <1>7 DEF IInv

LEMMA ClientRecvReplyRight ==
  ASSUME IInv, NEW c \in Clients, NEW m \in toClient, ClientRecvReply(c, m)
  PROVE  IInv'
<1>1. /\ UNCHANGED <<seq, replica, toReplica, toClient>>
      /\ invoke[c] # None
      /\ \/ /\ invoke' = [invoke EXCEPT ![c] = None]
            /\ results' = [results EXCEPT ![c] = Append(@, m.result)]
         \/ /\ invoke' = [invoke EXCEPT ![c] = WithKey(@, m.from, m.result)]
            /\ results' = results
  BY DEF ClientRecvReply
<1>2. m.result \in Results /\ m.from \in Replicas
  BY ReplicasAssumption DEF IInv, RepliesRight
<1>3. \A d \in Clients : /\ invoke[d] \in Gathered \cup {None}
                         /\ results[d] \in Seq(Results)
                         /\ d \in DOMAIN invoke /\ d \in DOMAIN results
  BY DEF IInv, ClientsRight
<1>4. WithKey(invoke[c], m.from, m.result) \in Gathered
  <2>1. PICK rs \in SUBSET Replicas : invoke[c] \in [rs -> Results]
    BY <1>1, <1>3 DEF Gathered
  <2>2. WithKey(invoke[c], m.from, m.result) \in [rs \cup {m.from} -> Results]
    BY <1>2, <2>1 DEF WithKey
  <2> QED
    BY <1>2, <2>2 DEF Gathered
<1>5. ASSUME NEW d \in Clients
      PROVE  invoke'[d] \in Gathered \cup {None}
  <2>1. invoke'[d] \in {invoke[d], None} \/ invoke'[d] = WithKey(invoke[c], m.from, m.result)
    BY <1>1, <1>3
  <2> QED
    BY <1>3, <1>4, <2>1
<1>6. ASSUME NEW d \in Clients
      PROVE  results'[d] \in Seq(Results)
  <2>1. results'[d] = results[d] \/ results'[d] = Append(results[d], m.result)
    BY <1>1, <1>3
  <2>2. Append(results[d], m.result) \in Seq(Results)
    BY <1>2, <1>3, AppendSeq
  <2> QED
    BY <1>3, <2>1, <2>2
<1>7. ClientsRight'
  <2>1. DOMAIN invoke' = Clients /\ DOMAIN results' = Clients
    BY <1>1 DEF IInv, ClientsRight
  <2> QED
    BY <1>1, <1>5, <1>6, <2>1 DEF IInv, ClientsRight
<1> QED
  BY <1>1, <1>7 DEF IInv, NetRight, RepliesRight, TheWorld

LEMMA Here ==
  ASSUME IInv, NEW r \in Alive
  PROVE  /\ r \in Replicas /\ World(TheWorld) /\ Local(replica[r], r, TheWorld)
         /\ Len(replica[r].log) \in Nat /\ Grows(replica[r], replica[r])
         /\ TheWorld.req = InvokedBy(seq)
<1>1. r \in Replicas
  BY ReplicasAssumption
<1>2. World(TheWorld) /\ TheWorld.req = InvokedBy(seq)
  BY WorldOfRight DEF TheWorld
<1>3. Local(replica[r], r, TheWorld)
  BY <1>1 DEF IInv
<1>4. Len(replica[r].log) \in Nat
  BY <1>3, LenProperties DEF Local, LogRight
<1>5. Grows(replica[r], replica[r])
  BY <1>4 DEF Grows
<1> QED
  BY <1>1, <1>2, <1>3, <1>4, <1>5

LEMMA MessageTypes ==
  ASSUME NEW M, World(M)
  PROVE  /\ \A m \in M.pre : m.type = "PrePrepare" /\ m.op \in Nat \ {0}
                             /\ m.digest \in Seq(M.req) /\ m.digest # <<>>
                             /\ m = PrePrepare(m.op, m.digest)
         /\ \A p \in M.prep : p.type = "Prepare" /\ p.op \in Nat \ {0}
         /\ \A p \in M.com : p.type = "Commit" /\ p.op \in Nat \ {0}
  BY DEF World, PrePrepares, Votes, PrePrepare

LEMMA DoneRight ==
  ASSUME IInv, NEW r \in Alive, NEW t
  PROVE  /\ Local(Done(r, t), r, TheWorld)
         /\ DOMAIN Done(r, t) = Fields
         /\ Done(r, t).log = replica[r].log /\ Done(r, t).app = replica[r].app
         /\ Done(r, t).opNum = replica[r].opNum /\ Done(r, t).tasks = replica[r].tasks \ {t}
         /\ Done(r, t).prepares = replica[r].prepares /\ Done(r, t).commits = replica[r].commits
         /\ Done(r, t).pendingPrepares = replica[r].pendingPrepares
         /\ Done(r, t).pendingCommits = replica[r].pendingCommits
         /\ Grows(replica[r], Done(r, t))
         /\ \A op : HasBatch(Done(r, t), op) <=> HasBatch(replica[r], op)
         /\ \A op : HasEntry(Done(r, t), op) <=> HasEntry(replica[r], op)
<1> DEFINE s == Done(r, t)
<1>1. /\ Local(replica[r], r, TheWorld) /\ DOMAIN replica[r] = Fields
      /\ Grows(replica[r], replica[r])
  BY Here DEF Local
<1>2. Local(s, r, TheWorld)
  BY <1>1, FewerTasks DEF Done
<1>3. /\ DOMAIN s = Fields /\ s.log = replica[r].log /\ s.app = replica[r].app
      /\ s.opNum = replica[r].opNum /\ s.tasks = replica[r].tasks \ {t}
      /\ s.prepares = replica[r].prepares /\ s.commits = replica[r].commits
      /\ s.pendingPrepares = replica[r].pendingPrepares
      /\ s.pendingCommits = replica[r].pendingCommits
  BY <1>1 DEF Done, Fields
<1> HIDE DEF s
<1>4. Grows(replica[r], s)
  BY <1>1, <1>3 DEF Grows
<1>5. \A op : (HasBatch(s, op) <=> HasBatch(replica[r], op)) /\ (HasEntry(s, op) <=> HasEntry(replica[r], op))
  BY <1>3 DEF HasBatch, HasEntry
<1> QED
  BY <1>2, <1>3, <1>4, <1>5 DEF s

LEMMA RecvRequestRight ==
  ASSUME IInv, NEW r \in Alive, NEW e \in toReplica, RecvRequest(r, e)
  PROVE  IInv'
<1> DEFINE q == e.body.req
           s == replica[r]
           stored == s.replies[q.client]
           t == IF Known(s, q) THEN s ELSE IF IsPrimary(r) THEN Accept(s, q) ELSE Panic(s)
           answer == [client |-> q.client, seq |-> q.seq, result |-> stored.reply, from |-> r]
<1>1. /\ r \in Replicas /\ World(TheWorld) /\ Local(s, r, TheWorld) /\ Grows(s, s)
      /\ TheWorld.req = InvokedBy(seq)
  BY Here
<1>2. /\ e.dst = r /\ e.body.type = "Request" /\ UNCHANGED <<seq, invoke, results>>
      /\ toReplica' \subseteq toReplica
  <2>1. Receive(r, e, "Request")
    BY Zenon DEF RecvRequest
  <2> QED
    BY <2>1 DEF Receive
<1>a. \/ toClient' = toClient
      \/ stored.reply # None /\ toClient' = toClient \cup {answer}
  BY Zenon DEF RecvRequest
<1>b. Becomes(r, t)
  <2>1. replica' = [replica EXCEPT ![r] = t]
    BY DEF RecvRequest
  <2> HIDE DEF t
  <2> QED
    BY <1>1, <2>1, BecomesBy
<1>3. MessageRight(e, TheWorld)
  BY DEF IInv, NetRight
<1>4. q \in TheWorld.req /\ IsPrimary(r)
  BY <1>1, <1>2, <1>3, MessageTypes DEF MessageRight, IsPrimary
<1>5. Local(t, r, TheWorld) /\ t.log = s.log
  <2>1. Local(Accept(s, q), r, TheWorld) /\ Accept(s, q).log = s.log
    BY <1>1, <1>4, AcceptRight
  <2> QED
    BY <1>1, <1>4, <2>1
<1>6. Grows(s, t)
  BY <1>1, <1>5 DEF Grows
<1>7. q \in Requests
  BY <1>1, <1>4 DEF InvokedBy
<1>8. q.client \in Clients /\ q.seq \in 1..MaxSeq
  BY <1>7 DEF Requests
<1>9. stored.reply \in Results \cup {None}
  BY <1>1, <1>8 DEF Local, Queue, RepliesTyped
<1> HIDE DEF t, q, stored
<1>10. ASSUME stored.reply # None PROVE AnswerRight(answer)
  BY <1>8, <1>9, <1>10 DEF AnswerRight
<1> HIDE DEF answer
<1>11. \A m \in toClient' : m \in toClient \/ AnswerRight(m)
  BY <1>a, <1>10
<1> QED
  BY <1>1, <1>2, <1>b, <1>5, <1>6, <1>11, StepRight

LEMMA RecvPrePrepareRight ==
  ASSUME IInv, NEW r \in Alive, NEW e \in toReplica, RecvPrePrepare(r, e)
  PROVE  IInv'
<1> DEFINE s == replica[r]
           u == [s EXCEPT !.tasks = @ \cup {Verify(e.body)}]
           t == IF HasBatch(s, e.body.op) THEN s ELSE u
<1>1. /\ r \in Replicas /\ World(TheWorld) /\ Local(s, r, TheWorld) /\ Grows(s, s)
  BY Here
<1>2. /\ e.dst = r /\ e.body.type = "PrePrepare" /\ UNCHANGED <<seq, invoke, results>>
      /\ toReplica' \subseteq toReplica /\ toClient' \subseteq toClient
  BY DEF RecvPrePrepare, Receive
<1>3. Becomes(r, t)
  <2>1. CASE HasBatch(s, e.body.op)
    BY <1>1, <2>1 DEF RecvPrePrepare, IInv, Becomes
  <2>2. CASE ~HasBatch(s, e.body.op)
    BY <1>1, <2>2 DEF RecvPrePrepare, IInv, Becomes
  <2> QED
    BY <2>1, <2>2
<1>4. MessageRight(e, TheWorld)
  BY DEF IInv, NetRight
<1>5. e.body \in TheWorld.pre /\ ~IsPrimary(r)
  BY <1>1, <1>2, <1>4, MessageTypes DEF MessageRight, IsPrimary
<1>6. Local(u, r, TheWorld) /\ u.log = s.log
  BY <1>1, <1>5, MoreTasks
<1>7. Local(t, r, TheWorld) /\ t.log = s.log
  BY <1>1, <1>6
<1>8. Grows(s, t)
  BY <1>1, <1>7 DEF Grows
<1> HIDE DEF t
<1> QED
  BY <1>1, <1>2, <1>3, <1>7, <1>8, StepRight

LEMMA RecvPrepareRight ==
  ASSUME IInv, NEW r \in Alive, NEW e \in toReplica, RecvPrepare(r, e)
  PROVE  IInv'
<1> DEFINE s == replica[r]
           t == PushPrepare(s, e.body)
<1>1. /\ r \in Replicas /\ World(TheWorld) /\ Local(s, r, TheWorld) /\ Grows(s, s)
  BY Here
<1>2. /\ e.dst = r /\ e.body.type = "Prepare" /\ UNCHANGED <<seq, invoke, results>>
      /\ toReplica' \subseteq toReplica /\ toClient' \subseteq toClient
  BY DEF RecvPrepare, Receive
<1>3. Becomes(r, t)
  BY <1>1, BecomesBy DEF RecvPrepare
<1>4. MessageRight(e, TheWorld)
  BY DEF IInv, NetRight
<1>5. e.body \in TheWorld.prep /\ e.body.from # r
  BY <1>1, <1>2, <1>4, MessageTypes DEF MessageRight
<1>6. Local(t, r, TheWorld) /\ t.log = s.log
  BY <1>1, <1>5, PushPrepareRight
<1>7. Grows(s, t)
  BY <1>1, <1>6 DEF Grows
<1> HIDE DEF t
<1> QED
  BY <1>1, <1>2, <1>3, <1>6, <1>7, StepRight

LEMMA RecvCommitRight ==
  ASSUME IInv, NEW r \in Alive, NEW e \in toReplica, RecvCommit(r, e)
  PROVE  IInv'
<1> DEFINE s == replica[r]
           t == PushCommit(s, e.body)
<1>1. /\ r \in Replicas /\ World(TheWorld) /\ Local(s, r, TheWorld) /\ Grows(s, s)
  BY Here
<1>2. /\ e.dst = r /\ e.body.type = "Commit" /\ UNCHANGED <<seq, invoke, results>>
      /\ toReplica' \subseteq toReplica /\ toClient' \subseteq toClient
  BY DEF RecvCommit, Receive
<1>3. Becomes(r, t)
  BY <1>1, BecomesBy DEF RecvCommit
<1>4. MessageRight(e, TheWorld)
  BY DEF IInv, NetRight
<1>5. e.body \in TheWorld.com /\ e.body.from # r
  BY <1>1, <1>2, <1>4, MessageTypes DEF MessageRight
<1>6. Local(t, r, TheWorld) /\ t.log = s.log
  BY <1>1, <1>5, PushCommitRight
<1>7. Grows(s, t)
  BY <1>1, <1>6 DEF Grows
<1> HIDE DEF t
<1> QED
  BY <1>1, <1>2, <1>3, <1>6, <1>7, StepRight

LEMMA TaskIs ==
  ASSUME IInv, NEW r \in Alive, NEW t \in replica[r].tasks
  PROVE  LET M == TheWorld
         IN  /\ t.msg.op \in Nat \ {0}
             /\ t.kind = "Sign" /\ t.msg.type = "PrePrepare" =>
                  /\ IsPrimary(r) /\ t.msg.digest \in Seq(M.req) /\ t.msg.digest # <<>>
                  /\ t.msg = PrePrepare(t.msg.op, t.msg.digest)
                  /\ t.msg \in PrePrepares(M.req)
             /\ t.kind = "Verify" /\ t.msg.type = "PrePrepare" => ~IsPrimary(r) /\ t.msg \in M.pre
             /\ t.kind = "Sign" /\ t.msg.type = "Prepare" => t.msg \in M.prep /\ t.msg.from = r
             /\ t.kind = "Verify" /\ t.msg.type = "Prepare" => t.msg \in M.prep /\ t.msg.from # r
             /\ t.kind = "Sign" /\ t.msg.type = "Commit" => t.msg \in M.com /\ t.msg.from = r
             /\ t.kind = "Verify" /\ t.msg.type = "Commit" => t.msg \in M.com /\ t.msg.from # r
<1> DEFINE M == TheWorld
<1>1. /\ r \in Replicas /\ World(M) /\ Local(replica[r], r, M) /\ M.req = InvokedBy(seq)
  BY Here
<1>2. TaskRight(t, replica[r], r, M)
  BY <1>1 DEF Local, Tasks
<1>3. ASSUME t.msg \in Votes("Prepare", {r}, M.req), HasBatch(replica[r], t.msg.op), ~IsPrimary(r)
      PROVE  t.msg \in M.prep /\ t.msg.from = r
  <2>1. t.msg.from = r /\ t.msg \in Votes("Prepare", Replicas \ {Primary}, M.req)
    BY <1>1, <1>3 DEF Votes, IsPrimary
  <2> QED
    BY <1>1, <1>3, <2>1 DEF TheWorld, WorldOf
<1>4. ASSUME t.msg \in Votes("Commit", {r}, M.req), HasEntry(replica[r], t.msg.op),
             replica[r].log[t.msg.op].prepared
      PROVE  t.msg \in M.com /\ t.msg.from = r
  <2>1. t.msg.from = r /\ t.msg \in Votes("Commit", Replicas, M.req)
    BY <1>1, <1>4 DEF Votes
  <2> QED
    BY <1>1, <1>4, <2>1 DEF TheWorld, WorldOf
<1>5. \A type, m : m \in Votes(type, {r}, M.req) => m.type = type /\ m.op \in Nat \ {0}
  BY DEF Votes
<1>6. \A m \in PrePrepares(M.req) :
         /\ m.type = "PrePrepare" /\ m.op \in Nat \ {0} /\ m.digest \in Seq(M.req)
         /\ m.digest # <<>> /\ m = PrePrepare(m.op, m.digest)
  BY DEF PrePrepares, PrePrepare
<1>7. /\ \A m \in M.pre : m.type = "PrePrepare" /\ m.op \in Nat \ {0}
      /\ \A p \in M.prep : p.type = "Prepare" /\ p.op \in Nat \ {0}
      /\ \A p \in M.com : p.type = "Commit" /\ p.op \in Nat \ {0}
  BY <1>1, MessageTypes
<1> HIDE DEF M
<1>8. /\ t.msg.op \in Nat \ {0}
      /\ t.kind = "Sign" /\ t.msg.type = "PrePrepare" =>
           /\ IsPrimary(r) /\ t.msg.digest \in Seq(M.req) /\ t.msg.digest # <<>>
           /\ t.msg = PrePrepare(t.msg.op, t.msg.digest)
           /\ t.msg \in PrePrepares(M.req)
      /\ t.kind = "Verify" /\ t.msg.type = "PrePrepare" => ~IsPrimary(r) /\ t.msg \in M.pre
      /\ t.kind = "Sign" /\ t.msg.type = "Prepare" => t.msg \in M.prep /\ t.msg.from = r
      /\ t.kind = "Verify" /\ t.msg.type = "Prepare" => t.msg \in M.prep /\ t.msg.from # r
      /\ t.kind = "Sign" /\ t.msg.type = "Commit" => t.msg \in M.com /\ t.msg.from = r
      /\ t.kind = "Verify" /\ t.msg.type = "Commit" => t.msg \in M.com /\ t.msg.from # r
  BY <1>2, <1>3, <1>4, <1>5, <1>6, <1>7 DEF TaskRight
<1> QED
  BY <1>8 DEF M

LEMMA SendAllRight ==
  ASSUME NEW r, NEW m, NEW M, SendAll(r, m),
         (m \in M.pre /\ r = Primary) \/ (m \in M.prep /\ m.from = r) \/ (m \in M.com /\ m.from = r)
  PROVE  \A e \in toReplica' : e \in toReplica \/ MessageRight(e, M)
<1> SUFFICES ASSUME NEW e \in toReplica', e \notin toReplica PROVE MessageRight(e, M)
  OBVIOUS
<1>1. PICK d \in Alive \ {r} : e = Envelope(d, m)
  BY DEF SendAll
<1>2. e.dst = d /\ e.body = m
  BY <1>1 DEF Envelope
<1> QED
  BY <1>1, <1>2 DEF MessageRight

LEMMA SignedPrePrepareRight ==
  ASSUME IInv, NEW r \in Alive, NEW t \in replica[r].tasks, SignedPrePrepare(r, t)
  PROVE  IInv'
<1> DEFINE s == Done(r, t)
           op == t.msg.op
           b == t.msg.digest
           u == NewBatch(s, op, b, s.prepares, s.commits, {})
           M == TheWorld
<1>1. /\ t.kind = "Sign" /\ t.msg.type = "PrePrepare" /\ UNCHANGED <<seq, invoke, results>>
      /\ InOrder => op <= Len(s.log) + 1
      /\ toClient' = toClient
  BY DEF SignedPrePrepare, Finish
<1>2. /\ r \in Replicas /\ World(M) /\ Local(replica[r], r, M) /\ Len(replica[r].log) \in Nat
  BY Here
<1>3. /\ op \in Nat \ {0} /\ IsPrimary(r) /\ b \in Seq(M.req) /\ b # <<>>
      /\ t.msg = PrePrepare(op, b) /\ t.msg \in PrePrepares(M.req)
  BY <1>1, TaskIs
<1>4. /\ Local(s, r, M) /\ DOMAIN s = Fields /\ s.log = replica[r].log
      /\ s.opNum = replica[r].opNum /\ s.tasks = replica[r].tasks \ {t}
      /\ \A o : HasBatch(s, o) <=> HasBatch(replica[r], o)
  BY DoneRight
<1>5. /\ ~HasBatch(s, op) /\ op <= s.opNum
      /\ \A x \in s.tasks : x.kind = "Sign" /\ x.msg.type = "PrePrepare" => x.msg.op # op
  BY <1>1, <1>2, <1>3, <1>4 DEF Local, SignedOnce
<1>6. replica' = [replica EXCEPT ![r] = [s EXCEPT !.log = SetBatch(@, op, b)]] /\ SendAll(r, t.msg)
  BY <1>5 DEF SignedPrePrepare, SetBatch
<1> HIDE DEF s, M, b
<1>7. [s EXCEPT !.log = SetBatch(@, op, b)] = u
  BY <1>4 DEF NewBatch, Fields
<1>8. Becomes(r, u)
  BY <1>2, <1>6, <1>7, BecomesBy
<1>9. /\ Local(u, r, M) /\ Grows(s, u) /\ HasEntry(u, op) /\ u.log[op].batch = b
  BY <1>1, <1>2, <1>3, <1>4, <1>5, NewBatchRight
<1> HIDE DEF u
<1>10. Grows(replica[r], u)
  BY <1>4, <1>9 DEF Grows
<1>11. Larger(M, M') /\ replica'[r] = u
  BY <1>1, <1>2, <1>8, <1>9, <1>10, StepOf DEF M
<1>12. t.msg \in M'.pre
  <2>1. M'.pre = {m \in PrePrepares(M'.req) :
                    HasEntry(replica'[Primary], m.op) /\ replica'[Primary].log[m.op].batch = m.digest}
    BY DEF M, TheWorld, WorldOf
  <2>2. t.msg \in PrePrepares(M'.req)
    BY <1>3, <1>11, EntriesMonotone DEF Larger
  <2> QED
    BY <1>3, <1>9, <1>11, <2>1, <2>2 DEF IsPrimary, b
<1>13. \A e \in toReplica' : e \in toReplica \/ MessageRight(e, M')
  BY <1>3, <1>6, <1>12, SendAllRight DEF IsPrimary
<1> QED
  BY <1>1, <1>2, <1>8, <1>9, <1>10, <1>13, StepRight DEF M

LEMMA VerifiedPrePrepareRight ==
  ASSUME IInv, NEW r \in Alive, NEW t \in replica[r].tasks, VerifiedPrePrepare(r, t)
  PROVE  IInv'
<1> DEFINE s == Done(r, t)
           op == t.msg.op
           b == t.msg.digest
           Retained(quorums) == {q \in quorums : q.op = op => q.digest = b}
           T == {Sign(Prepare(op, b, r))}
           v == NewBatch(s, op, b, Retained(s.prepares), Retained(s.commits), T)
           u == IF HasBatch(s, op) THEN s ELSE v
           M == TheWorld
<1>1. /\ t.kind = "Verify" /\ t.msg.type = "PrePrepare" /\ UNCHANGED <<seq, invoke, results>>
      /\ InOrder => op <= Len(s.log) + 1
      /\ toClient' = toClient /\ toReplica' = toReplica
  BY DEF VerifiedPrePrepare, Finish
<1>2. /\ r \in Replicas /\ World(M) /\ Local(replica[r], r, M) /\ Len(replica[r].log) \in Nat
  BY Here
<1>3. ~IsPrimary(r) /\ t.msg \in M.pre
  BY <1>1, TaskIs
<1>4. op \in Nat \ {0} /\ b \in Seq(M.req) /\ b # <<>> /\ t.msg = PrePrepare(op, b)
  BY <1>2, <1>3, MessageTypes
<1>5. /\ Local(s, r, M) /\ DOMAIN s = Fields /\ s.log = replica[r].log
      /\ Grows(replica[r], s)
  BY DoneRight
<1>6. Becomes(r, u)
  <2>1. replica' = [replica EXCEPT ![r] = IF HasBatch(s, op) THEN s
               ELSE [s EXCEPT !.log = SetBatch(@, op, b),
                              !.tasks = @ \cup {Sign(Prepare(op, b, r))},
                              !.prepares = Retained(@),
                              !.commits = Retained(@)]]
    BY DEF VerifiedPrePrepare, SetBatch
  <2> HIDE DEF s, b
  <2>2. [s EXCEPT !.log = SetBatch(@, op, b),
                  !.tasks = @ \cup {Sign(Prepare(op, b, r))},
                  !.prepares = Retained(@),
                  !.commits = Retained(@)] = v
    BY <1>5 DEF NewBatch, Fields
  <2>3. replica' = [replica EXCEPT ![r] = u]
    BY <2>1, <2>2
  <2> HIDE DEF u
  <2> QED
    BY <1>2, <2>3, BecomesBy
<1>7. ASSUME ~HasBatch(s, op) PROVE Local(v, r, M) /\ Grows(s, v)
  <2> DEFINE P == Retained(s.prepares)
             C == Retained(s.commits)
  <2>1. P \subseteq s.prepares /\ C \subseteq s.commits
    OBVIOUS
  <2>2. T # {} => ~IsPrimary(r) /\ T = {Sign(Prepare(op, b, r))}
    BY <1>3
  <2>3. PrePrepare(op, b) \in M.pre
    BY <1>3, <1>4
  <2> HIDE DEF P, C, T, s, M, b, op
  <2>4. Local(NewBatch(s, op, b, P, C, T), r, M) /\ Grows(s, NewBatch(s, op, b, P, C, T))
    BY <1>1, <1>2, <1>3, <1>4, <1>5, <1>7, <2>1, <2>2, <2>3, NewBatchRight
  <2> QED
    BY <2>4 DEF P, C
<1> HIDE DEF v, s
<1>8. Local(u, r, M) /\ Grows(replica[r], u)
  <2>1. CASE HasBatch(s, op)
    BY <1>5, <2>1
  <2>2. CASE ~HasBatch(s, op)
    <3>1. Local(v, r, M) /\ Grows(s, v) /\ u = v
      BY <1>7, <2>2
    <3> QED
      BY <1>5, <3>1 DEF Grows
  <2> QED
    BY <2>1, <2>2
<1> HIDE DEF u
<1> QED
  BY <1>1, <1>2, <1>6, <1>8, StepRight

LEMMA VerifyFailsRight ==
  ASSUME IInv, NEW r \in Alive, NEW t \in replica[r].tasks, VerifyFails(r, t)
  PROVE  IInv'
<1> DEFINE s == Done(r, t)
<1>1. /\ UNCHANGED <<seq, invoke, results>> /\ toReplica' = toReplica /\ toClient' = toClient
      /\ replica' = [replica EXCEPT ![r] = s]
  BY DEF VerifyFails
<1>2. Local(s, r, TheWorld) /\ Grows(replica[r], s) /\ r \in Replicas
  BY DoneRight, Here
<1> HIDE DEF s
<1>3. Becomes(r, s)
  BY <1>1, <1>2, BecomesBy
<1> QED
  BY <1>1, <1>2, <1>3, StepRight

LEMMA RepliesSent ==
  ASSUME IInv, NEW r \in Alive, NEW s, NEW u, Local(u, r, TheWorld), Len(s.app) \in Nat,
         NEW m \in Replies(r, s, u)
  PROVE  AnswerRight(m)
<1> DEFINE first == Len(s.app) + 1
           R == TheWorld.req
<1>1. R \subseteq Requests /\ u.app \in Seq(Seq(R)) /\ first \in Nat \ {0}
  <2>1. R \subseteq Requests
    BY Here DEF InvokedBy
  <2>2. u.app \in Seq(Seq(R))
    BY DEF Local, AppRight
  <2> QED
    BY <2>1, <2>2
<1>2. PICK e \in Executed(u, first) :
         m = [client |-> RequestAt(u, e).client, seq |-> RequestAt(u, e).seq,
              result |-> Result(u, e), from |-> r]
  BY DEF Replies
<1> HIDE DEF R, first
<1>3. RequestAt(u, e) \in R /\ Result(u, e) \in Results
  BY <1>1, ExecutedFacts
<1>4. RequestAt(u, e).client \in Clients /\ RequestAt(u, e).seq \in 1..MaxSeq
  BY <1>1, <1>3 DEF Requests
<1> QED
  BY <1>2, <1>3, <1>4 DEF AnswerRight

LEMMA DoneVerifying ==
  ASSUME IInv, NEW r \in Alive, NEW t \in replica[r].tasks, t.kind = "Verify"
  PROVE  /\ t.msg.type = "Prepare" =>
              /\ t.msg.op \in DOMAIN replica[r].pendingPrepares
              /\ Verifying(Done(r, t), "Prepare", t.msg.op) = {}
              /\ HasEntry(Done(r, t), t.msg.op) /\ Done(r, t).log[t.msg.op].prepared =>
                    Quorum(Done(r, t).prepares, t.msg.op) = {}
         /\ t.msg.type = "Commit" =>
              /\ t.msg.op \in DOMAIN replica[r].pendingCommits
              /\ Verifying(Done(r, t), "Commit", t.msg.op) = {}
              /\ HasEntry(Done(r, t), t.msg.op) /\ Done(r, t).log[t.msg.op].committed =>
                    Quorum(Done(r, t).commits, t.msg.op) = {}
<1> DEFINE s == replica[r]
           u == Done(r, t)
           op == t.msg.op
<1>1. Local(s, r, TheWorld) /\ Len(s.log) \in Nat /\ op \in Nat \ {0}
  BY Here, TaskIs
<1>2. /\ u.log = s.log /\ u.tasks = s.tasks \ {t}
      /\ u.prepares = s.prepares /\ u.commits = s.commits
      /\ \A o : HasEntry(u, o) <=> HasEntry(s, o)
  BY DoneRight
<1> HIDE DEF u
<1>3. HasEntry(s, op) => op \in 1..Len(s.log)
  BY <1>1 DEF HasEntry
<1>4. ASSUME t.msg.type = "Prepare"
      PROVE  /\ op \in DOMAIN s.pendingPrepares
             /\ Verifying(u, "Prepare", op) = {}
             /\ HasEntry(u, op) /\ u.log[op].prepared => Quorum(u.prepares, op) = {}
  <2>1. Verifying(s, "Prepare", op) = {t} /\ op \in DOMAIN s.pendingPrepares
    BY <1>1, <1>4 DEF Local, OneAtATime
  <2>2. Verifying(u, "Prepare", op) = {}
    BY <1>2, <2>1 DEF Verifying
  <2>3. HasEntry(u, op) /\ u.log[op].prepared => Quorum(u.prepares, op) = {}
    BY <1>1, <1>2, <1>3, <2>1 DEF Local, LeftOver
  <2> QED
    BY <2>1, <2>2, <2>3
<1>5. ASSUME t.msg.type = "Commit"
      PROVE  /\ op \in DOMAIN s.pendingCommits
             /\ Verifying(u, "Commit", op) = {}
             /\ HasEntry(u, op) /\ u.log[op].committed => Quorum(u.commits, op) = {}
  <2>1. Verifying(s, "Commit", op) = {t} /\ op \in DOMAIN s.pendingCommits
    BY <1>1, <1>5 DEF Local, OneAtATime
  <2>2. Verifying(u, "Commit", op) = {}
    BY <1>2, <2>1 DEF Verifying
  <2>3. HasEntry(u, op) /\ u.log[op].committed => Quorum(u.commits, op) = {}
    BY <1>1, <1>2, <1>3, <2>1 DEF Local, LeftOver
  <2> QED
    BY <2>1, <2>2, <2>3
<1> QED
  BY <1>4, <1>5 DEF u

LEMMA SignedPrepareRight ==
  ASSUME IInv, NEW r \in Alive, NEW t \in replica[r].tasks, SignedPrepare(r, t)
  PROVE  IInv'
<1> DEFINE s == Done(r, t)
           p == t.msg
           v == InsertPrepare(s, r, p)
           u == IF s.log[p.op].prepared THEN s ELSE v
           M == TheWorld
<1>1. /\ t.kind = "Sign" /\ p.type = "Prepare" /\ UNCHANGED <<seq, invoke, results>>
      /\ SendAll(r, p) /\ toClient' = toClient
      /\ replica' = [replica EXCEPT ![r] = u]
  BY DEF SignedPrepare, Finish
<1>2. /\ r \in Replicas /\ World(M) /\ p \in M.prep /\ p.from = r
  BY <1>1, Here, TaskIs
<1>3. /\ Local(s, r, M) /\ s.log = replica[r].log /\ Grows(replica[r], s)
  BY DoneRight
<1> HIDE DEF s, M
<1>4. ASSUME ~s.log[p.op].prepared PROVE Local(v, r, M) /\ Grows(s, v)
  BY <1>2, <1>3, <1>4, InsertPrepareRight
<1> HIDE DEF v
<1>5. Local(u, r, M) /\ Grows(replica[r], u)
  BY <1>3, <1>4 DEF Grows
<1> HIDE DEF u
<1>6. Becomes(r, u)
  BY <1>1, <1>2, BecomesBy
<1>7. Larger(M, M')
  BY <1>1, <1>2, <1>5, <1>6, StepOf DEF M
<1>8. p \in M'.prep
  BY <1>2, <1>7 DEF Larger
<1>9. \A e \in toReplica' : e \in toReplica \/ MessageRight(e, M')
  BY <1>1, <1>2, <1>8, SendAllRight
<1> QED
  BY <1>1, <1>2, <1>5, <1>6, <1>9, StepRight DEF M

LEMMA VerifiedPrepareRight ==
  ASSUME IInv, NEW r \in Alive, NEW t \in replica[r].tasks, VerifiedPrepare(r, t)
  PROVE  IInv'
<1> DEFINE s == Done(r, t)
           p == t.msg
           v == InsertPrepare(s, r, p)
           u == PopPrepare(v, p.op)
           M == TheWorld
<1>1. /\ t.kind = "Verify" /\ p.type = "Prepare" /\ UNCHANGED <<seq, invoke, results>>
      /\ toReplica' = toReplica /\ toClient' = toClient
      /\ replica' = [replica EXCEPT ![r] = u]
  BY DEF VerifiedPrepare, Finish
<1>2. /\ r \in Replicas /\ World(M) /\ p \in M.prep
  BY <1>1, Here, TaskIs
<1>3. /\ Local(s, r, M) /\ s.log = replica[r].log /\ Grows(replica[r], s)
  BY DoneRight
<1>4. /\ Verifying(s, "Prepare", p.op) = {}
      /\ HasEntry(s, p.op) /\ s.log[p.op].prepared => Quorum(s.prepares, p.op) = {}
  BY <1>1, DoneVerifying
<1> HIDE DEF s, M
<1>5. /\ Local(v, r, M) /\ Grows(s, v)
      /\ \A type, op : Verifying(v, type, op) = Verifying(s, type, op)
  BY <1>2, <1>3, <1>4, InsertPrepareRight
<1> HIDE DEF v
<1>6. Verifying(v, "Prepare", p.op) = {}
  BY <1>4, <1>5
<1>7. Local(u, r, M) /\ u.log = v.log
  BY <1>2, <1>5, <1>6, PopPrepareRight
<1> HIDE DEF u
<1>8. Grows(replica[r], u)
  BY <1>3, <1>5, <1>7 DEF Grows
<1>9. Becomes(r, u)
  BY <1>1, <1>2, BecomesBy
<1> QED
  BY <1>1, <1>2, <1>7, <1>8, <1>9, StepRight DEF M

LEMMA SignedCommitRight ==
  ASSUME IInv, NEW r \in Alive, NEW t \in replica[r].tasks, SignedCommit(r, t)
  PROVE  IInv'
<1> DEFINE s == Done(r, t)
           p == t.msg
           v == InsertCommit(s, r, p)
           u == IF s.log[p.op].committed THEN s ELSE v
           M == TheWorld
<1>1. /\ t.kind = "Sign" /\ p.type = "Commit" /\ UNCHANGED <<seq, invoke, results>>
      /\ SendAll(r, p) /\ toClient' = toClient \cup Replies(r, s, u)
      /\ replica' = [replica EXCEPT ![r] = u]
  BY DEF SignedCommit, Finish
<1>2. /\ r \in Replicas /\ World(M) /\ p \in M.com /\ p.from = r
  BY <1>1, Here, TaskIs
<1>3. /\ Local(s, r, M) /\ s.log = replica[r].log /\ Grows(replica[r], s)
  BY DoneRight
<1>a. Len(s.app) \in Nat
  BY <1>3, LenProperties DEF Local, AppRight
<1> HIDE DEF s, M
<1>4. ASSUME ~s.log[p.op].committed PROVE Local(v, r, M) /\ Grows(s, v)
  BY <1>2, <1>3, <1>4, InsertCommitRight
<1> HIDE DEF v
<1>5. Local(u, r, M) /\ Grows(replica[r], u)
  BY <1>3, <1>4 DEF Grows
<1> HIDE DEF u
<1>6. Becomes(r, u)
  BY <1>1, <1>2, BecomesBy
<1>7. Larger(M, M')
  BY <1>1, <1>2, <1>5, <1>6, StepOf DEF M
<1>8. p \in M'.com
  BY <1>2, <1>7 DEF Larger
<1>9. \A e \in toReplica' : e \in toReplica \/ MessageRight(e, M')
  BY <1>1, <1>2, <1>8, SendAllRight
<1>10. \A m \in toClient' : m \in toClient \/ AnswerRight(m)
  BY <1>1, <1>5, <1>a, RepliesSent DEF M
<1> QED
  BY <1>1, <1>2, <1>5, <1>6, <1>9, <1>10, StepRight DEF M

LEMMA VerifiedCommitRight ==
  ASSUME IInv, NEW r \in Alive, NEW t \in replica[r].tasks, VerifiedCommit(r, t)
  PROVE  IInv'
<1> DEFINE s == Done(r, t)
           p == t.msg
           v == InsertCommit(s, r, p)
           u == PopCommit(v, p.op)
           M == TheWorld
<1>1. /\ t.kind = "Verify" /\ p.type = "Commit" /\ UNCHANGED <<seq, invoke, results>>
      /\ toReplica' = toReplica /\ toClient' = toClient \cup Replies(r, s, v)
      /\ replica' = [replica EXCEPT ![r] = u]
  BY DEF VerifiedCommit, Finish
<1>2. /\ r \in Replicas /\ World(M) /\ p \in M.com
  BY <1>1, Here, TaskIs
<1>3. /\ Local(s, r, M) /\ s.log = replica[r].log /\ Grows(replica[r], s)
  BY DoneRight
<1>a. Len(s.app) \in Nat
  BY <1>3, LenProperties DEF Local, AppRight
<1>4. /\ Verifying(s, "Commit", p.op) = {}
      /\ HasEntry(s, p.op) /\ s.log[p.op].committed => Quorum(s.commits, p.op) = {}
  BY <1>1, DoneVerifying
<1> HIDE DEF s, M
<1>5. /\ Local(v, r, M) /\ Grows(s, v)
      /\ \A type, op : Verifying(v, type, op) = Verifying(s, type, op)
  BY <1>2, <1>3, <1>4, InsertCommitRight
<1> HIDE DEF v
<1>6. Verifying(v, "Commit", p.op) = {}
  BY <1>4, <1>5
<1>7. Local(u, r, M) /\ u.log = v.log
  BY <1>2, <1>5, <1>6, PopCommitRight
<1> HIDE DEF u
<1>8. Grows(replica[r], u)
  BY <1>3, <1>5, <1>7 DEF Grows
<1>9. Becomes(r, u)
  BY <1>1, <1>2, BecomesBy
<1>10. \A m \in toClient' : m \in toClient \/ AnswerRight(m)
  BY <1>1, <1>5, <1>a, RepliesSent DEF M
<1> QED
  BY <1>1, <1>2, <1>7, <1>8, <1>9, <1>10, StepRight DEF M

LEMMA NextRight == ASSUME IInv, [Next]_vars PROVE IInv'
<1>1. CASE UNCHANGED vars
  BY <1>1 DEF vars, IInv, ClientsRight, NetRight, RepliesRight, TheWorld
<1>2. ASSUME NEW c \in Clients, ClientInvoke(c) PROVE IInv'
  BY <1>2, ClientInvokeRight
<1>3. ASSUME NEW c \in Clients, RecvReply(c) PROVE IInv'
  BY <1>3, ClientRecvReplyRight DEF RecvReply
<1>4. ASSUME NEW r \in Alive, Recv(r) PROVE IInv'
  BY <1>4, RecvRequestRight, RecvPrePrepareRight, RecvPrepareRight, RecvCommitRight DEF Recv
<1>5. ASSUME NEW r \in Alive, Crypto(r) PROVE IInv'
  BY <1>5, SignedPrePrepareRight, VerifiedPrePrepareRight, SignedPrepareRight,
     VerifiedPrepareRight, SignedCommitRight, VerifiedCommitRight DEF Crypto
<1>6. ASSUME NEW r \in Alive, NEW t \in replica[r].tasks, VerifyFails(r, t) PROVE IInv'
  BY <1>6, VerifyFailsRight
<1> QED
  BY <1>1, <1>2, <1>3, <1>4, <1>5, <1>6 DEF Next

(***************************************************************************)
(* Every state that pbft.rs can reach, with messages lost, repeated and    *)
(* reordered, crypto tasks that finish in any order and signatures that do *)
(* not verify, satisfies the inductive invariant.                          *)
(***************************************************************************)
THEOREM Invariance == Spec => []IInv
<1>1. Init => IInv
  BY InitRight
<1>2. IInv /\ [Next]_vars => IInv'
  BY NextRight
<1> QED
  BY <1>1, <1>2, PTL DEF Spec

(***************************************************************************)
(* No replica reaches a failing assert of pbft.rs (382, 575, 704) or the   *)
(* todo!() of a backup: a number is not signed twice, and no quorum        *)
(* completes a second time although a vote may still be under verification *)
(* when it completes the first time.                                       *)
(***************************************************************************)
THEOREM NeverPanics == Spec => []NoPanic
<1>1. IInv => NoPanic
  BY DEF IInv, Local, NoPanic
<1> QED
  BY <1>1, Invariance, PTL

-----------------------------------------------------------------------------
(***************************************************************************)
(* What replicas execute.                                                  *)
(***************************************************************************)

LEMMA BatchIsPrimarys ==
  ASSUME IInv, NEW r \in Replicas, NEW op \in Nat \ {0}, HasBatch(replica[r], op)
  PROVE  HasBatch(replica[Primary], op) /\ replica[Primary].log[op].batch = replica[r].log[op].batch
<1> DEFINE M == TheWorld
           s == replica[r]
<1>1. Local(s, r, M) /\ Len(s.log) \in Nat /\ Primary \in Replicas
  <2>1. Local(s, r, M)
    BY DEF IInv
  <2> QED
    BY <2>1, LenProperties, ReplicasAssumption DEF Local, LogRight
<1>2. op \in 1..Len(s.log) /\ s.log[op].batch # <<>>
  BY <1>1 DEF HasBatch, HasEntry
<1>3. CASE IsPrimary(r)
  BY <1>3 DEF IsPrimary
<1>4. CASE ~IsPrimary(r)
  <2>1. PrePrepare(op, s.log[op].batch) \in M.pre
    BY <1>1, <1>2, <1>4 DEF Local, LogRight
  <2>2. HasEntry(replica[Primary], op) /\ replica[Primary].log[op].batch = s.log[op].batch
    BY <2>1 DEF TheWorld, WorldOf, PrePrepare
  <2> QED
    BY <1>2, <2>2 DEF HasBatch
<1> QED
  BY <1>3, <1>4

(* Replicas that executed a batch of requests under a number executed the  *)
(* same one.                                                               *)
NonEmptyAgreement ==
  \A r1, r2 \in Replicas :
    \A i \in DOMAIN replica[r1].app \cap DOMAIN replica[r2].app :
      replica[r1].app[i] # <<>> /\ replica[r2].app[i] # <<>> => replica[r1].app[i] = replica[r2].app[i]

(* A batch executed is that of the primary's log. *)
LEMMA AppIsLog ==
  ASSUME IInv, NEW r \in Replicas, NEW i \in DOMAIN replica[r].app
  PROVE  /\ replica[r].app[i] # <<>> =>
              HasBatch(replica[Primary], i) /\ replica[r].app[i] = replica[Primary].log[i].batch
         /\ InOrder => replica[r].app[i] # <<>>
<1> DEFINE s == replica[r]
<1>1. Local(s, r, TheWorld)
  BY DEF IInv
<1>2. Len(s.app) \in Nat /\ DOMAIN s.app = 1..Len(s.app) /\ Len(s.app) <= Len(s.log) /\ Len(s.log) \in Nat
  BY <1>1, LenProperties DEF Local, LogRight, AppRight
<1>3. i \in 1..Len(s.app) /\ i \in Nat \ {0} /\ i <= Len(s.log)
  BY <1>2
<1>4. s.app[i] # <<>> => s.app[i] = s.log[i].batch /\ HasBatch(s, i)
  BY <1>1, <1>3 DEF Local, AppRight, HasBatch, HasEntry
<1>5. InOrder => s.app[i] # <<>>
  BY <1>1, <1>3 DEF Local, AppRight
<1> QED
  BY <1>3, <1>4, <1>5, BatchIsPrimarys

(***************************************************************************)
(* When the pre-prepares are verified in the order of their numbers, no    *)
(* two replicas execute different batches under a number (insert_commit).  *)
(* Without the hypothesis it is false: the run pbft_gap has the            *)
(* counterexample.                                                         *)
(***************************************************************************)
THEOREM Agreement ==
  ASSUME InOrder
  PROVE  Spec => []ExecutionAgreement
<1>1. IInv => ExecutionAgreement
  BY AppIsLog DEF ExecutionAgreement
<1> QED
  BY <1>1, Invariance, PTL

(***************************************************************************)
(* In whatever order the pre-prepares are verified, replicas never execute *)
(* different requests under a number: all that can go wrong is that one of *)
(* them executes none, for an entry that was committed before its pre-     *)
(* prepare arrived.                                                        *)
(***************************************************************************)
THEOREM AgreementButForGaps == Spec => []NonEmptyAgreement
<1>1. IInv => NonEmptyAgreement
  BY AppIsLog DEF NonEmptyAgreement
<1> QED
  BY <1>1, Invariance, PTL

-----------------------------------------------------------------------------
(***************************************************************************)
(* What votes lead to.                                                     *)
(***************************************************************************)

LEMMA TypesRight == ASSUME IInv PROVE TypeOK
<1> DEFINE M == TheWorld
<1>1. World(M) /\ M.req = InvokedBy(seq) /\ M.req \subseteq Requests
  BY WorldOfRight DEF TheWorld, InvokedBy
<1>2. Seq(M.req) \subseteq Batches
  BY <1>1, SeqMonotone DEF Batches
<1>3. Seq(Seq(M.req)) \subseteq Seq(Batches)
  BY <1>2, SeqMonotone
<1>4. Entries(M.req) \subseteq LogEntries
  BY <1>2 DEF Entries, LogEntries
<1>5. Seq(Entries(M.req)) \subseteq Seq(LogEntries)
  BY <1>4, SeqMonotone
<1>6. \A from : /\ PrePrepares(M.req) \subseteq Messages(from)
                /\ Votes("Prepare", from, M.req) \subseteq Messages(from)
                /\ Votes("Commit", from, M.req) \subseteq Messages(from)
  BY <1>2 DEF PrePrepares, Votes, Messages
<1>7. \A from, type, m : m \in Votes(type, Replicas, M.req) /\ m.from \in from => m \in Votes(type, from, M.req)
  BY DEF Votes
<1>8. \A m : /\ m \in M.pre => m \in PrePrepares(M.req)
             /\ m \in M.prep => m \in Votes("Prepare", Replicas \ {Primary}, M.req)
             /\ m \in M.com => m \in Votes("Commit", Replicas, M.req)
  BY <1>1 DEF World
<1>9. \A m : /\ m \in M.prep => m \in Votes("Prepare", Replicas, M.req) /\ m.from \in Replicas
             /\ m \in M.com => m.from \in Replicas
  BY <1>8 DEF Votes
<1>10. \A d, m : (m \in M.prep \/ m \in M.com) /\ m.from # d => m \in Messages(Replicas \ {d})
  <2> SUFFICES ASSUME NEW d, NEW m, m \in M.prep \/ m \in M.com, m.from # d
               PROVE  m \in Messages(Replicas \ {d})
    OBVIOUS
  <2>1. m.from \in Replicas \ {d}
    BY <1>9
  <2>2. m \in Votes("Prepare", Replicas \ {d}, M.req) \/ m \in Votes("Commit", Replicas \ {d}, M.req)
    BY <1>7, <1>8, <1>9, <2>1
  <2> QED
    BY <1>6, <2>2
<1>11. ClientsRight /\ RepliesRight
  BY DEF IInv
<1>12. ASSUME NEW e \in toReplica
       PROVE  /\ e.dst \in Alive
              /\ \/ e.body.type = "Request" /\ e.body.req \in Requests
                 \/ e.body \in Messages(Replicas \ {e.dst})
  <2>1. MessageRight(e, M)
    BY DEF IInv, NetRight
  <2> QED
    BY <1>1, <1>6, <1>8, <1>10, <2>1 DEF MessageRight
<1>13. ASSUME NEW r \in Replicas
       PROVE  LET s == replica[r]
              IN  /\ \A c \in Clients : s.replies[c].seq \in 0..seq[c] /\ s.replies[c].reply \in Results \cup {None}
                  /\ s.requests \in Batches
                  /\ s.opNum \in Nat /\ s.commitNum \in Nat
                  /\ ~IsPrimary(r) => s.requests = <<>> /\ s.opNum = 0
                  /\ s.log \in Seq(LogEntries)
                  /\ s.prepares \subseteq Messages(Replicas \ {Primary})
                  /\ s.commits \subseteq Messages(Replicas)
                  /\ s.app \in Seq(Batches)
                  /\ \A t \in s.tasks :
                        \/ t.kind = "Sign" /\ t.msg \in Messages({r})
                        \/ t.kind = "Verify" /\ t.msg \in Messages(Replicas \ {r})
  <2> DEFINE s == replica[r]
  <2>1. Local(s, r, M)
    BY DEF IInv
  <2> HIDE DEF s, M
  <2>2. ASSUME NEW c \in Clients
        PROVE  s.replies[c].seq \in 0..seq[c] /\ s.replies[c].reply \in Results \cup {None}
    <3>1. /\ s.replies[c].seq \in Nat /\ s.replies[c].reply \in Results \cup {None}
          /\ s.replies[c].seq = 0 \/ [client |-> c, seq |-> s.replies[c].seq] \in M.req
      BY <2>1 DEF Local, Queue, RepliesTyped
    <3>2. seq[c] \in Nat
      BY <1>11 DEF ClientsRight
    <3>3. \A n : [client |-> c, seq |-> n] \in M.req => n <= seq[c]
      BY <1>1 DEF InvokedBy
    <3> QED
      BY <3>1, <3>2, <3>3
  <2>3. /\ s.requests \in Batches /\ s.opNum \in Nat
        /\ ~IsPrimary(r) => s.requests = <<>> /\ s.opNum = 0
    BY <1>2, <2>1 DEF Local, Queue
  <2>4. s.log \in Seq(LogEntries) /\ s.app \in Seq(Batches) /\ s.commitNum \in Nat
    <3>1. s.log \in Seq(Entries(M.req)) /\ s.app \in Seq(Seq(M.req)) /\ s.commitNum = Len(s.app)
      BY <2>1 DEF Local, LogRight, AppRight
    <3>2. s.commitNum \in Nat
      BY <3>1, LenProperties
    <3> QED
      BY <1>3, <1>5, <3>1, <3>2
  <2>5. s.prepares \subseteq Messages(Replicas \ {Primary}) /\ s.commits \subseteq Messages(Replicas)
    BY <1>6, <1>8, <2>1 DEF Local, Quorums
  <2>6. ASSUME NEW t \in s.tasks
        PROVE  \/ t.kind = "Sign" /\ t.msg \in Messages({r})
               \/ t.kind = "Verify" /\ t.msg \in Messages(Replicas \ {r})
    <3>1. TaskRight(t, s, r, M)
      BY <2>1 DEF Local, Tasks
    <3> QED
      BY <1>6, <1>8, <1>10, <3>1 DEF TaskRight
  <2> QED
    BY <2>2, <2>3, <2>4, <2>5, <2>6 DEF s
<1> HIDE DEF M
<1>14. \A c \in Clients :
          /\ invoke[c] = None \/ \E rs \in SUBSET Replicas : invoke[c] \in [rs -> Results]
          /\ results[c] \in Seq(Results)
  BY <1>11 DEF ClientsRight, Gathered
<1> QED
  BY <1>11, <1>12, <1>13, <1>14 DEF TypeOK, ClientsRight, RepliesRight

LEMMA OneVerificationRight == ASSUME IInv PROVE OneVerification
<1> SUFFICES ASSUME NEW r \in Replicas, NEW t \in replica[r].tasks,
                    t.kind = "Verify", t.msg.type # "PrePrepare"
             PROVE  /\ t.msg.op \in DOMAIN (IF t.msg.type = "Prepare" THEN replica[r].pendingPrepares
                                                                     ELSE replica[r].pendingCommits)
                    /\ \A u \in replica[r].tasks :
                          u.kind = "Verify" /\ u.msg.type = t.msg.type /\ u.msg.op = t.msg.op => u = t
  BY DEF OneVerification
<1> DEFINE s == replica[r]
<1>1. Local(s, r, TheWorld) /\ World(TheWorld)
  BY WorldOfRight DEF IInv, TheWorld
<1>2. TaskRight(t, s, r, TheWorld)
  BY <1>1 DEF Local, Tasks
<1>3. t.msg.type = "Prepare" \/ t.msg.type = "Commit"
  BY <1>1, <1>2, MessageTypes DEF TaskRight
<1>4. CASE t.msg.type = "Prepare"
  <2>1. t.msg.op \in DOMAIN s.pendingPrepares /\ Verifying(s, "Prepare", t.msg.op) = {t}
    BY <1>1, <1>4 DEF Local, OneAtATime
  <2> QED
    BY <1>4, <2>1 DEF Verifying
<1>5. CASE t.msg.type = "Commit"
  <2>1. t.msg.op \in DOMAIN s.pendingCommits /\ Verifying(s, "Commit", t.msg.op) = {t}
    BY <1>1, <1>5 DEF Local, OneAtATime
  <2> QED
    BY <1>5, <2>1 DEF Verifying
<1> QED
  BY <1>3, <1>4, <1>5

(* As many senders as votes, when no sender has two. *)
LEMMA SendersOf ==
  ASSUME NEW Q, OnePerSender(Q), NEW op, NEW D, D \subseteq Replicas, \A p \in Quorum(Q, op) : p.from \in D
  PROVE  IsFiniteSet(D) /\ Cardinality(Quorum(Q, op)) <= Cardinality(D)
         /\ Cardinality(Quorum(Q, op)) \in Nat /\ Cardinality(D) \in Nat
<1> DEFINE V == Quorum(Q, op)
           f == [p \in V |-> p.from]
<1>1. IsFiniteSet(D) /\ Cardinality(D) \in Nat
  BY ReplicasAssumption, FS_Subset, FS_CardinalityType
<1>2. \A p, q \in V : p.from = q.from => p = q
  BY DEF Quorum, OnePerSender
<1>a. \A p \in V : p.from \in D
  OBVIOUS
<1> HIDE DEF V
<1>3. f \in Injection(V, D)
  BY <1>2, <1>a DEF Injection, IsInjective
<1>4. IsFiniteSet(V) /\ Cardinality(V) <= Cardinality(D)
  BY <1>1, <1>3, FS_Injection DEF ExistsInjection
<1> QED
  BY <1>1, <1>4, FS_CardinalityType DEF V

LEMMA QuorumBackedRight == ASSUME IInv PROVE QuorumBacked
<1> SUFFICES ASSUME NEW r \in Replicas, NEW op \in DOMAIN replica[r].log
             PROVE  /\ replica[r].log[op].prepared =>
                          Cardinality({d \in Replicas : HasBatch(replica[d], op)}) >= N - F
                    /\ replica[r].log[op].committed =>
                          Cardinality({d \in Replicas : HasEntry(replica[d], op) /\ replica[d].log[op].prepared})
                            >= N - F
  BY DEF QuorumBacked
<1> DEFINE s == replica[r]
           M == TheWorld
<1>1. Local(s, r, M) /\ World(M)
  BY WorldOfRight DEF IInv, TheWorld
<1>2. op \in 1..Len(s.log) /\ op \in Nat \ {0}
  <2>1. DOMAIN s.log = 1..Len(s.log) /\ Len(s.log) \in Nat
    BY <1>1, LenProperties DEF Local, LogRight
  <2> QED
    BY <2>1
<1>3. ASSUME s.log[op].prepared
      PROVE  Cardinality({d \in Replicas : HasBatch(replica[d], op)}) >= N - F
  <2>1. PICK Q \in SUBSET M.prep : OnePerSender(Q) /\ HasPrepareQuorum(Q, op)
    BY <1>1, <1>2, <1>3 DEF Local, Certified
  <2> DEFINE B == {d \in Replicas : HasBatch(replica[d], op)}
             D == B \ {Primary}
  <2>2. \A p \in Quorum(Q, op) : p.from \in D
    BY <2>1 DEF TheWorld, WorldOf, Quorum, Votes
  <2>3. IsFiniteSet(D) /\ Cardinality(Quorum(Q, op)) <= Cardinality(D)
        /\ Cardinality(Quorum(Q, op)) \in Nat /\ Cardinality(D) \in Nat
    BY <2>1, <2>2, SendersOf
  <2>4. Cardinality(D) + 1 >= N - F /\ Cardinality(D) # 0
    BY <2>1, <2>3, QuorumSize DEF HasPrepareQuorum
  <2>5. D # {}
    BY <2>4, FS_EmptySet
  <2>6. Primary \in B
    <3>1. PICK d \in D : TRUE
      BY <2>5
    <3> QED
      BY <1>2, <3>1, BatchIsPrimarys, ReplicasAssumption
  <2> HIDE DEF B
  <2>7. B = D \cup {Primary} /\ Primary \notin D
    BY <2>6
  <2>8. Cardinality(B) = Cardinality(D) + 1
    BY <2>3, <2>7, FS_AddElement
  <2> QED
    BY <2>4, <2>8 DEF B
<1>4. ASSUME s.log[op].committed
      PROVE  Cardinality({d \in Replicas : HasEntry(replica[d], op) /\ replica[d].log[op].prepared}) >= N - F
  <2>1. PICK Q \in SUBSET M.com : OnePerSender(Q) /\ HasCommitQuorum(Q, op)
    BY <1>1, <1>2, <1>4 DEF Local, Certified
  <2> DEFINE D == {d \in Replicas : HasEntry(replica[d], op) /\ replica[d].log[op].prepared}
  <2>2. \A p \in Quorum(Q, op) : p.from \in D
    BY <2>1 DEF TheWorld, WorldOf, Quorum, Votes
  <2>3. IsFiniteSet(D) /\ Cardinality(Quorum(Q, op)) <= Cardinality(D)
        /\ Cardinality(Quorum(Q, op)) \in Nat /\ Cardinality(D) \in Nat
    BY <2>1, <2>2, SendersOf
  <2> HIDE DEF D
  <2>4. Cardinality(D) >= N - F
    BY <2>1, <2>3, QuorumSize DEF HasCommitQuorum
  <2> QED
    BY <2>4 DEF D
<1> QED
  BY <1>3, <1>4

-----------------------------------------------------------------------------
(***************************************************************************)
(* The votes that wait in pending_prepares and pending_commits. An entry   *)
(* without a task under way would keep them for ever; that there is none   *)
(* is inductive together with IInv, as long as no signature fails to       *)
(* verify.                                                                 *)
(***************************************************************************)

OngoingIn(s, type, keys) == \A op \in keys : Verifying(s, type, op) # {}

Ongoing(s) ==
  OngoingIn(s, "Prepare", DOMAIN s.pendingPrepares) /\ OngoingIn(s, "Commit", DOMAIN s.pendingCommits)

(* There is a task for every number with votes that wait. *)
OInv == bad \in Nat /\ (bad = 0 => \A r \in Replicas : Ongoing(replica[r]))

LEMMA SameOngoing ==
  ASSUME NEW s, NEW t, SameVotes(s, t), Ongoing(s)
  PROVE  Ongoing(t)
  BY DEF SameVotes, Ongoing, OngoingIn

LEMMA BeingVerified ==
  ASSUME NEW s, NEW p, Verify(p) \in s.tasks
  PROVE  Verifying(s, p.type, p.op) # {}
<1>1. Verify(p).kind = "Verify" /\ Verify(p).msg = p
  BY DEF Verify
<1>2. Verify(p) \in Verifying(s, p.type, p.op)
  BY <1>1 DEF Verifying
<1> QED
  BY <1>2

LEMMA PushPrepareOngoing ==
  ASSUME NEW s, DOMAIN s = Fields, Ongoing(s), NEW p, p.type = "Prepare"
  PROVE  Ongoing(PushPrepare(s, p))
<1> DEFINE t == PushPrepare(s, p)
<1>1. t.pendingCommits = s.pendingCommits
  BY DEF PushPrepare, Fields
<1>2. \/ DOMAIN t.pendingPrepares = DOMAIN s.pendingPrepares /\ t.tasks = s.tasks
      \/ DOMAIN t.pendingPrepares = DOMAIN s.pendingPrepares \cup {p.op} /\ t.tasks = s.tasks \cup {Verify(p)}
  <2>1. CASE p.op \in DOMAIN s.pendingPrepares
    BY <2>1 DEF PushPrepare, Fields
  <2>2. CASE p.op \notin DOMAIN s.pendingPrepares /\ SubmitPrepare(s, p)
    BY <2>2 DEF PushPrepare, Fields, WithKey
  <2>3. CASE p.op \notin DOMAIN s.pendingPrepares /\ ~SubmitPrepare(s, p)
    BY <2>3 DEF PushPrepare
  <2> QED
    BY <2>1, <2>2, <2>3
<1> HIDE DEF t
<1>3. \A type, op : Verifying(s, type, op) # {} => Verifying(t, type, op) # {}
  BY <1>2 DEF Verifying
<1>4. t.tasks = s.tasks \cup {Verify(p)} => Verifying(t, "Prepare", p.op) # {}
  BY BeingVerified
<1> QED
  BY <1>1, <1>2, <1>3, <1>4 DEF Ongoing, OngoingIn, t

LEMMA PopPrepareOngoing ==
  ASSUME NEW M, World(M), NEW r, NEW s, Local(s, r, M), NEW op,
         OngoingIn(s, "Prepare", DOMAIN s.pendingPrepares \ {op}),
         OngoingIn(s, "Commit", DOMAIN s.pendingCommits)
  PROVE  Ongoing(PopPrepare(s, op))
<1> DEFINE list == s.pendingPrepares[op]
           good == {i \in DOMAIN list : SubmitPrepare(s, list[i])}
           t == PopPrepare(s, op)
<1>0. DOMAIN s = Fields
  BY DEF Local
<1>1. CASE op \notin DOMAIN s.pendingPrepares
  <2>1. t = s
    BY <1>1 DEF PopPrepare
  <2> QED
    BY <1>1, <2>1 DEF Ongoing, OngoingIn
<1>2. CASE op \in DOMAIN s.pendingPrepares /\ good = {}
  <2>1. t = [s EXCEPT !.pendingPrepares = WithoutKey(@, op)]
    BY <1>2 DEF PopPrepare
  <2>2. /\ DOMAIN t.pendingPrepares = DOMAIN s.pendingPrepares \ {op}
        /\ t.pendingCommits = s.pendingCommits /\ t.tasks = s.tasks
    BY <1>0, <2>1 DEF Fields, WithoutKey
  <2> HIDE DEF t
  <2>3. \A type, o : Verifying(t, type, o) = Verifying(s, type, o)
    BY <2>2 DEF Verifying
  <2> QED
    BY <2>2, <2>3 DEF Ongoing, OngoingIn, t
<1>3. CASE op \in DOMAIN s.pendingPrepares /\ good # {}
  <2>1. list \in Seq({p \in M.prep : p.op = op /\ p.from # r})
    BY <1>3 DEF Local, Pending
  <2>2. /\ Len(list) \in Nat /\ DOMAIN list = 1..Len(list)
        /\ \A i \in 1..Len(list) : list[i] \in M.prep /\ list[i].op = op
    <3> DEFINE V == {p \in M.prep : p.op = op /\ p.from # r}
    <3>1. \A p \in V : p \in M.prep /\ p.op = op
      OBVIOUS
    <3>2. list \in Seq(V)
      BY <2>1
    <3> HIDE DEF V, list
    <3>3. /\ Len(list) \in Nat /\ DOMAIN list = 1..Len(list)
          /\ \A i \in 1..Len(list) : list[i] \in V
      BY <3>2, LenProperties, ElementOfSeq
    <3> QED
      BY <3>1, <3>3
  <2>3. Max(good) \in 1..Len(list)
    <3>1. good \in SUBSET Nat /\ \A i \in good : i <= Len(list) /\ i \in 1..Len(list)
      BY <2>2
    <3> HIDE DEF good
    <3> QED
      BY <1>3, <2>2, <3>1, MaxOfBounded
  <2> DEFINE p == list[Max(good)]
             front == SubSeq(list, 1, Max(good) - 1)
  <2>4. p.op = op /\ p.type = "Prepare"
    BY <2>2, <2>3, MessageTypes
  <2>5. t = [s EXCEPT !.pendingPrepares[op] = front, !.tasks = @ \cup {Verify(p)}]
    BY <1>3 DEF PopPrepare
  <2> HIDE DEF p, front
  <2>6. /\ DOMAIN t.pendingPrepares = DOMAIN s.pendingPrepares
        /\ t.pendingCommits = s.pendingCommits /\ t.tasks = s.tasks \cup {Verify(p)}
    BY <1>0, <2>5 DEF Fields
  <2> HIDE DEF t
  <2>7. \A type, o : Verifying(s, type, o) # {} => Verifying(t, type, o) # {}
    BY <2>6 DEF Verifying
  <2>8. Verifying(t, "Prepare", op) # {}
    BY <2>4, <2>6, BeingVerified
  <2> QED
    BY <2>6, <2>7, <2>8 DEF Ongoing, OngoingIn, t
<1> QED
  BY <1>1, <1>2, <1>3

LEMMA PushCommitOngoing ==
  ASSUME NEW s, DOMAIN s = Fields, Ongoing(s), NEW p, p.type = "Commit"
  PROVE  Ongoing(PushCommit(s, p))
<1> DEFINE t == PushCommit(s, p)
<1>1. t.pendingPrepares = s.pendingPrepares
  BY DEF PushCommit, Fields
<1>2. \/ DOMAIN t.pendingCommits = DOMAIN s.pendingCommits /\ t.tasks = s.tasks
      \/ DOMAIN t.pendingCommits = DOMAIN s.pendingCommits \cup {p.op} /\ t.tasks = s.tasks \cup {Verify(p)}
  <2>1. CASE p.op \in DOMAIN s.pendingCommits
    BY <2>1 DEF PushCommit, Fields
  <2>2. CASE p.op \notin DOMAIN s.pendingCommits /\ SubmitCommit(s, p)
    BY <2>2 DEF PushCommit, Fields, WithKey
  <2>3. CASE p.op \notin DOMAIN s.pendingCommits /\ ~SubmitCommit(s, p)
    BY <2>3 DEF PushCommit
  <2> QED
    BY <2>1, <2>2, <2>3
<1> HIDE DEF t
<1>3. \A type, op : Verifying(s, type, op) # {} => Verifying(t, type, op) # {}
  BY <1>2 DEF Verifying
<1>4. t.tasks = s.tasks \cup {Verify(p)} => Verifying(t, "Commit", p.op) # {}
  BY BeingVerified
<1> QED
  BY <1>1, <1>2, <1>3, <1>4 DEF Ongoing, OngoingIn, t

LEMMA PopCommitOngoing ==
  ASSUME NEW M, World(M), NEW r, NEW s, Local(s, r, M), NEW op,
         OngoingIn(s, "Commit", DOMAIN s.pendingCommits \ {op}),
         OngoingIn(s, "Prepare", DOMAIN s.pendingPrepares)
  PROVE  Ongoing(PopCommit(s, op))
<1> DEFINE list == s.pendingCommits[op]
           good == {i \in DOMAIN list : SubmitCommit(s, list[i])}
           t == PopCommit(s, op)
<1>0. DOMAIN s = Fields
  BY DEF Local
<1>1. CASE op \notin DOMAIN s.pendingCommits
  <2>1. t = s
    BY <1>1 DEF PopCommit
  <2> QED
    BY <1>1, <2>1 DEF Ongoing, OngoingIn
<1>2. CASE op \in DOMAIN s.pendingCommits /\ good = {}
  <2>1. t = [s EXCEPT !.pendingCommits = WithoutKey(@, op)]
    BY <1>2 DEF PopCommit
  <2>2. /\ DOMAIN t.pendingCommits = DOMAIN s.pendingCommits \ {op}
        /\ t.pendingPrepares = s.pendingPrepares /\ t.tasks = s.tasks
    BY <1>0, <2>1 DEF Fields, WithoutKey
  <2> HIDE DEF t
  <2>3. \A type, o : Verifying(t, type, o) = Verifying(s, type, o)
    BY <2>2 DEF Verifying
  <2> QED
    BY <2>2, <2>3 DEF Ongoing, OngoingIn, t
<1>3. CASE op \in DOMAIN s.pendingCommits /\ good # {}
  <2>1. list \in Seq({p \in M.com : p.op = op /\ p.from # r})
    BY <1>3 DEF Local, Pending
  <2>2. /\ Len(list) \in Nat /\ DOMAIN list = 1..Len(list)
        /\ \A i \in 1..Len(list) : list[i] \in M.com /\ list[i].op = op
    <3> DEFINE V == {p \in M.com : p.op = op /\ p.from # r}
    <3>1. \A p \in V : p \in M.com /\ p.op = op
      OBVIOUS
    <3>2. list \in Seq(V)
      BY <2>1
    <3> HIDE DEF V, list
    <3>3. /\ Len(list) \in Nat /\ DOMAIN list = 1..Len(list)
          /\ \A i \in 1..Len(list) : list[i] \in V
      BY <3>2, LenProperties, ElementOfSeq
    <3> QED
      BY <3>1, <3>3
  <2>3. Max(good) \in 1..Len(list)
    <3>1. good \in SUBSET Nat /\ \A i \in good : i <= Len(list) /\ i \in 1..Len(list)
      BY <2>2
    <3> HIDE DEF good
    <3> QED
      BY <1>3, <2>2, <3>1, MaxOfBounded
  <2> DEFINE p == list[Max(good)]
             front == SubSeq(list, 1, Max(good) - 1)
  <2>4. p.op = op /\ p.type = "Commit"
    BY <2>2, <2>3, MessageTypes
  <2>5. t = [s EXCEPT !.pendingCommits[op] = front, !.tasks = @ \cup {Verify(p)}]
    BY <1>3 DEF PopCommit
  <2> HIDE DEF p, front
  <2>6. /\ DOMAIN t.pendingCommits = DOMAIN s.pendingCommits
        /\ t.pendingPrepares = s.pendingPrepares /\ t.tasks = s.tasks \cup {Verify(p)}
    BY <1>0, <2>5 DEF Fields
  <2> HIDE DEF t
  <2>7. \A type, o : Verifying(s, type, o) # {} => Verifying(t, type, o) # {}
    BY <2>6 DEF Verifying
  <2>8. Verifying(t, "Commit", op) # {}
    BY <2>4, <2>6, BeingVerified
  <2> QED
    BY <2>6, <2>7, <2>8 DEF Ongoing, OngoingIn, t
<1> QED
  BY <1>1, <1>2, <1>3

LEMMA DoneOngoing ==
  ASSUME IInv, NEW r \in Alive, NEW t \in replica[r].tasks, Ongoing(replica[r])
  PROVE  /\ t.kind = "Sign" \/ t.msg.type = "PrePrepare" => SameVotes(replica[r], Done(r, t))
         /\ t.msg.type = "Prepare" =>
              /\ OngoingIn(Done(r, t), "Prepare", DOMAIN Done(r, t).pendingPrepares \ {t.msg.op})
              /\ OngoingIn(Done(r, t), "Commit", DOMAIN Done(r, t).pendingCommits)
         /\ t.msg.type = "Commit" =>
              /\ OngoingIn(Done(r, t), "Prepare", DOMAIN Done(r, t).pendingPrepares)
              /\ OngoingIn(Done(r, t), "Commit", DOMAIN Done(r, t).pendingCommits \ {t.msg.op})
<1> DEFINE s == replica[r]
           u == Done(r, t)
<1>1. /\ u.tasks = s.tasks \ {t}
      /\ u.pendingPrepares = s.pendingPrepares /\ u.pendingCommits = s.pendingCommits
  BY DoneRight
<1> HIDE DEF u
<1>2. \A type, op : ~(t.kind = "Verify" /\ t.msg.type = type /\ t.msg.op = op) =>
         Verifying(u, type, op) = Verifying(s, type, op)
  BY <1>1 DEF Verifying
<1>3. t.kind = "Sign" \/ t.msg.type = "PrePrepare" => SameVotes(s, u)
  BY <1>1, <1>2 DEF SameVotes
<1>4. t.msg.type = "Prepare" =>
        /\ OngoingIn(u, "Prepare", DOMAIN u.pendingPrepares \ {t.msg.op})
        /\ OngoingIn(u, "Commit", DOMAIN u.pendingCommits)
  BY <1>1, <1>2 DEF Ongoing, OngoingIn
<1>5. t.msg.type = "Commit" =>
        /\ OngoingIn(u, "Prepare", DOMAIN u.pendingPrepares)
        /\ OngoingIn(u, "Commit", DOMAIN u.pendingCommits \ {t.msg.op})
  BY <1>1, <1>2 DEF Ongoing, OngoingIn
<1> QED
  BY <1>3, <1>4, <1>5 DEF u

LEMMA SameTransitive ==
  ASSUME NEW s, NEW t, NEW u, SameVotes(s, t), SameVotes(t, u)
  PROVE  SameVotes(s, u)
  BY DEF SameVotes

LEMMA OngoingStep ==
  ASSUME IInv, OInv, [Next]_vars
  PROVE  OInv'
<1>1. CASE UNCHANGED vars
  BY <1>1 DEF vars, OInv
<1>2. ASSUME NEW c \in Clients, ClientInvoke(c) \/ RecvReply(c) PROVE OInv'
  BY <1>2 DEF OInv, ClientInvoke, RecvReply, ClientRecvReply
<1>3. ASSUME NEW r \in Alive, NEW t, bad' = bad, Becomes(r, t), Ongoing(replica[r]) => Ongoing(t)
      PROVE  OInv'
  <2>1. r \in Replicas
    BY ReplicasAssumption
  <2> QED
    BY <1>3, <2>1 DEF OInv, Becomes
<1>4. ASSUME NEW r \in Alive, NEW e \in toReplica, RecvRequest(r, e) PROVE OInv'
  <2> DEFINE q == e.body.req
             s == replica[r]
             t == IF Known(s, q) THEN s ELSE IF IsPrimary(r) THEN Accept(s, q) ELSE Panic(s)
  <2>1. /\ r \in Replicas /\ World(TheWorld) /\ Local(s, r, TheWorld)
    BY Here
  <2>2. e.dst = r /\ e.body.type = "Request" /\ bad' = bad
    BY <1>4 DEF RecvRequest, Receive
  <2>3. Becomes(r, t)
    <3>1. replica' = [replica EXCEPT ![r] = t]
      BY <1>4 DEF RecvRequest
    <3> HIDE DEF t
    <3> QED
      BY <2>1, <3>1, BecomesBy
  <2>4. q \in TheWorld.req /\ IsPrimary(r)
    BY <2>1, <2>2, MessageTypes DEF IInv, NetRight, MessageRight, IsPrimary
  <2>5. SameVotes(s, Accept(s, q))
    BY <2>1, <2>4, AcceptRight
  <2>6. Ongoing(s) => Ongoing(t)
    BY <2>4, <2>5, SameOngoing
  <2> HIDE DEF t
  <2> QED
    BY <1>3, <2>2, <2>3, <2>6
<1>5. ASSUME NEW r \in Alive, NEW e \in toReplica, RecvPrePrepare(r, e) PROVE OInv'
  <2> DEFINE s == replica[r]
             u == [s EXCEPT !.tasks = @ \cup {Verify(e.body)}]
             t == IF HasBatch(s, e.body.op) THEN s ELSE u
  <2>1. /\ r \in Replicas /\ World(TheWorld) /\ Local(s, r, TheWorld)
    BY Here
  <2>2. e.dst = r /\ e.body.type = "PrePrepare" /\ bad' = bad
    BY <1>5 DEF RecvPrePrepare, Receive
  <2>3. Becomes(r, t)
    <3>1. CASE HasBatch(s, e.body.op)
      BY <1>5, <2>1, <3>1 DEF RecvPrePrepare, IInv, Becomes
    <3>2. CASE ~HasBatch(s, e.body.op)
      BY <1>5, <2>1, <3>2 DEF RecvPrePrepare, IInv, Becomes
    <3> QED
      BY <3>1, <3>2
  <2>4. e.body \in TheWorld.pre /\ ~IsPrimary(r)
    BY <2>1, <2>2, MessageTypes DEF IInv, NetRight, MessageRight, IsPrimary
  <2>5. SameVotes(s, u)
    BY <2>1, <2>4, MoreTasks
  <2> HIDE DEF u
  <2>6. Ongoing(s) => Ongoing(t)
    BY <2>5, SameOngoing
  <2> HIDE DEF t
  <2> QED
    BY <1>3, <2>2, <2>3, <2>6
<1>6. ASSUME NEW r \in Alive, NEW e \in toReplica, RecvPrepare(r, e) PROVE OInv'
  <2> DEFINE t == PushPrepare(replica[r], e.body)
  <2>1. e.body.type = "Prepare" /\ bad' = bad /\ replica' = [replica EXCEPT ![r] = t]
    BY <1>6 DEF RecvPrepare, Receive
  <2>2. Becomes(r, t) /\ DOMAIN replica[r] = Fields
    BY <2>1, Here, BecomesBy DEF Local
  <2>3. Ongoing(replica[r]) => Ongoing(t)
    BY <2>1, <2>2, PushPrepareOngoing
  <2> HIDE DEF t
  <2> QED
    BY <1>3, <2>1, <2>2, <2>3
<1>7. ASSUME NEW r \in Alive, NEW e \in toReplica, RecvCommit(r, e) PROVE OInv'
  <2> DEFINE t == PushCommit(replica[r], e.body)
  <2>1. e.body.type = "Commit" /\ bad' = bad /\ replica' = [replica EXCEPT ![r] = t]
    BY <1>7 DEF RecvCommit, Receive
  <2>2. Becomes(r, t) /\ DOMAIN replica[r] = Fields
    BY <2>1, Here, BecomesBy DEF Local
  <2>3. Ongoing(replica[r]) => Ongoing(t)
    BY <2>1, <2>2, PushCommitOngoing
  <2> HIDE DEF t
  <2> QED
    BY <1>3, <2>1, <2>2, <2>3
<1>8. ASSUME NEW r \in Alive, NEW x \in replica[r].tasks, SignedPrePrepare(r, x) PROVE OInv'
  <2> DEFINE s == Done(r, x)
             v == [s EXCEPT !.log = [Resize(@, x.msg.op) EXCEPT ![x.msg.op].batch = x.msg.digest]]
  <2>1. x.kind = "Sign" /\ bad' = bad
        /\ (replica' = [replica EXCEPT ![r] = Panic(s)] \/ replica' = [replica EXCEPT ![r] = v])
    BY <1>8 DEF SignedPrePrepare, Finish
  <2>2. DOMAIN s = Fields /\ r \in Replicas
    BY DoneRight, Here
  <2>3. Ongoing(replica[r]) => SameVotes(replica[r], s)
    BY <2>1, DoneOngoing
  <2> HIDE DEF s
  <2>4. SameVotes(s, Panic(s)) /\ SameVotes(s, v)
    BY <2>2 DEF SameVotes, Verifying, Panic, Fields
  <2> HIDE DEF v
  <2>5. /\ Ongoing(replica[r]) => Ongoing(Panic(s))
        /\ Ongoing(replica[r]) => Ongoing(v)
    BY <2>3, <2>4, SameOngoing
  <2>6. Becomes(r, Panic(s)) \/ Becomes(r, v)
    BY <2>1, <2>2, BecomesBy
  <2> QED
    BY <1>3, <2>1, <2>5, <2>6
<1>9. ASSUME NEW r \in Alive, NEW x \in replica[r].tasks, VerifiedPrePrepare(r, x) PROVE OInv'
  <2> DEFINE s == Done(r, x)
             op == x.msg.op
             Retained(quorums) == {q \in quorums : q.op = op => q.digest = x.msg.digest}
             v == [s EXCEPT !.log = [Resize(@, op) EXCEPT ![op].batch = x.msg.digest],
                            !.tasks = @ \cup {Sign(Prepare(op, x.msg.digest, r))},
                            !.prepares = Retained(@),
                            !.commits = Retained(@)]
             u == IF HasBatch(s, op) THEN s ELSE v
  <2>1. x.msg.type = "PrePrepare" /\ bad' = bad /\ replica' = [replica EXCEPT ![r] = u]
    BY <1>9 DEF VerifiedPrePrepare, Finish
  <2>2. DOMAIN s = Fields /\ r \in Replicas
    BY DoneRight, Here
  <2>3. Ongoing(replica[r]) => SameVotes(replica[r], s)
    BY <2>1, DoneOngoing
  <2> HIDE DEF s
  <2>4. SameVotes(s, v)
    <3>1. /\ v.pendingPrepares = s.pendingPrepares /\ v.pendingCommits = s.pendingCommits
          /\ v.tasks = s.tasks \cup {Sign(Prepare(op, x.msg.digest, r))}
      BY <2>2 DEF Fields
    <3> HIDE DEF v
    <3> QED
      BY <3>1 DEF SameVotes, Verifying, Sign
  <2> HIDE DEF v
  <2>5. Ongoing(replica[r]) => Ongoing(u)
    BY <2>3, <2>4, SameOngoing
  <2> HIDE DEF u
  <2>6. Becomes(r, u)
    BY <2>1, <2>2, BecomesBy
  <2> QED
    BY <1>3, <2>1, <2>5, <2>6
<1>10. ASSUME NEW r \in Alive, NEW x \in replica[r].tasks, SignedPrepare(r, x) PROVE OInv'
  <2> DEFINE s == Done(r, x)
             p == x.msg
             v == InsertPrepare(s, r, p)
             u == IF s.log[p.op].prepared THEN s ELSE v
  <2>1. x.kind = "Sign" /\ p.type = "Prepare" /\ bad' = bad /\ replica' = [replica EXCEPT ![r] = u]
    BY <1>10 DEF SignedPrepare, Finish
  <2>2. r \in Replicas /\ World(TheWorld) /\ p \in TheWorld.prep /\ Local(s, r, TheWorld)
    BY <2>1, Here, TaskIs, DoneRight
  <2>3. Ongoing(replica[r]) => SameVotes(replica[r], s)
    BY <2>1, DoneOngoing
  <2> HIDE DEF s
  <2>4. ~s.log[p.op].prepared => SameVotes(s, v)
    <3> SUFFICES ASSUME ~s.log[p.op].prepared PROVE SameVotes(s, v)
      OBVIOUS
    <3>1. /\ v.pendingPrepares = s.pendingPrepares /\ v.pendingCommits = s.pendingCommits
          /\ \A type, op : Verifying(v, type, op) = Verifying(s, type, op)
      BY <2>2, InsertPrepareRight
    <3> QED
      BY <3>1 DEF SameVotes
  <2> HIDE DEF v
  <2>5. Ongoing(replica[r]) => Ongoing(u)
    BY <2>3, <2>4, SameOngoing
  <2> HIDE DEF u
  <2>6. Becomes(r, u)
    BY <2>1, <2>2, BecomesBy
  <2> QED
    BY <1>3, <2>1, <2>5, <2>6
<1>11. ASSUME NEW r \in Alive, NEW x \in replica[r].tasks, VerifiedPrepare(r, x) PROVE OInv'
  <2> DEFINE s == Done(r, x)
             p == x.msg
             v == InsertPrepare(s, r, p)
             u == PopPrepare(v, p.op)
  <2>1. x.kind = "Verify" /\ p.type = "Prepare" /\ bad' = bad /\ replica' = [replica EXCEPT ![r] = u]
    BY <1>11 DEF VerifiedPrepare, Finish
  <2>2. r \in Replicas /\ World(TheWorld) /\ p \in TheWorld.prep /\ Local(s, r, TheWorld)
    BY <2>1, Here, TaskIs, DoneRight
  <2>3. Ongoing(replica[r]) =>
           /\ OngoingIn(s, "Prepare", DOMAIN s.pendingPrepares \ {p.op})
           /\ OngoingIn(s, "Commit", DOMAIN s.pendingCommits)
    BY <2>1, DoneOngoing
  <2>4. /\ Verifying(s, "Prepare", p.op) = {}
        /\ HasEntry(s, p.op) /\ s.log[p.op].prepared => Quorum(s.prepares, p.op) = {}
    BY <2>1, DoneVerifying
  <2> HIDE DEF s
  <2>5. /\ Local(v, r, TheWorld)
        /\ v.pendingPrepares = s.pendingPrepares /\ v.pendingCommits = s.pendingCommits
        /\ \A type, op : Verifying(v, type, op) = Verifying(s, type, op)
    BY <2>2, <2>4, InsertPrepareRight
  <2> HIDE DEF v
  <2>6. Ongoing(replica[r]) =>
           /\ OngoingIn(v, "Prepare", DOMAIN v.pendingPrepares \ {p.op})
           /\ OngoingIn(v, "Commit", DOMAIN v.pendingCommits)
    BY <2>3, <2>5 DEF OngoingIn
  <2>7. Ongoing(replica[r]) => Ongoing(u)
    BY <2>2, <2>5, <2>6, PopPrepareOngoing
  <2> HIDE DEF u
  <2>8. Becomes(r, u)
    BY <2>1, <2>2, BecomesBy
  <2> QED
    BY <1>3, <2>1, <2>7, <2>8
<1>12. ASSUME NEW r \in Alive, NEW x \in replica[r].tasks, SignedCommit(r, x) PROVE OInv'
  <2> DEFINE s == Done(r, x)
             p == x.msg
             v == InsertCommit(s, r, p)
             u == IF s.log[p.op].committed THEN s ELSE v
  <2>1. x.kind = "Sign" /\ p.type = "Commit" /\ bad' = bad /\ replica' = [replica EXCEPT ![r] = u]
    BY <1>12 DEF SignedCommit, Finish
  <2>2. r \in Replicas /\ World(TheWorld) /\ p \in TheWorld.com /\ Local(s, r, TheWorld)
    BY <2>1, Here, TaskIs, DoneRight
  <2>3. Ongoing(replica[r]) => SameVotes(replica[r], s)
    BY <2>1, DoneOngoing
  <2> HIDE DEF s
  <2>4. ~s.log[p.op].committed => SameVotes(s, v)
    <3> SUFFICES ASSUME ~s.log[p.op].committed PROVE SameVotes(s, v)
      OBVIOUS
    <3>1. /\ v.pendingPrepares = s.pendingPrepares /\ v.pendingCommits = s.pendingCommits
          /\ \A type, op : Verifying(v, type, op) = Verifying(s, type, op)
      BY <2>2, InsertCommitRight
    <3> QED
      BY <3>1 DEF SameVotes
  <2> HIDE DEF v
  <2>5. Ongoing(replica[r]) => Ongoing(u)
    BY <2>3, <2>4, SameOngoing
  <2> HIDE DEF u
  <2>6. Becomes(r, u)
    BY <2>1, <2>2, BecomesBy
  <2> QED
    BY <1>3, <2>1, <2>5, <2>6
<1>13. ASSUME NEW r \in Alive, NEW x \in replica[r].tasks, VerifiedCommit(r, x) PROVE OInv'
  <2> DEFINE s == Done(r, x)
             p == x.msg
             v == InsertCommit(s, r, p)
             u == PopCommit(v, p.op)
  <2>1. x.kind = "Verify" /\ p.type = "Commit" /\ bad' = bad /\ replica' = [replica EXCEPT ![r] = u]
    BY <1>13 DEF VerifiedCommit, Finish
  <2>2. r \in Replicas /\ World(TheWorld) /\ p \in TheWorld.com /\ Local(s, r, TheWorld)
    BY <2>1, Here, TaskIs, DoneRight
  <2>3. Ongoing(replica[r]) =>
           /\ OngoingIn(s, "Prepare", DOMAIN s.pendingPrepares)
           /\ OngoingIn(s, "Commit", DOMAIN s.pendingCommits \ {p.op})
    BY <2>1, DoneOngoing
  <2>4. /\ Verifying(s, "Commit", p.op) = {}
        /\ HasEntry(s, p.op) /\ s.log[p.op].committed => Quorum(s.commits, p.op) = {}
    BY <2>1, DoneVerifying
  <2> HIDE DEF s
  <2>5. /\ Local(v, r, TheWorld)
        /\ v.pendingPrepares = s.pendingPrepares /\ v.pendingCommits = s.pendingCommits
        /\ \A type, op : Verifying(v, type, op) = Verifying(s, type, op)
    BY <2>2, <2>4, InsertCommitRight
  <2> HIDE DEF v
  <2>6. Ongoing(replica[r]) =>
           /\ OngoingIn(v, "Prepare", DOMAIN v.pendingPrepares)
           /\ OngoingIn(v, "Commit", DOMAIN v.pendingCommits \ {p.op})
    BY <2>3, <2>5 DEF OngoingIn
  <2>7. Ongoing(replica[r]) => Ongoing(u)
    BY <2>2, <2>5, <2>6, PopCommitOngoing
  <2> HIDE DEF u
  <2>8. Becomes(r, u)
    BY <2>1, <2>2, BecomesBy
  <2> QED
    BY <1>3, <2>1, <2>7, <2>8
<1>14. ASSUME NEW r \in Alive, NEW t \in replica[r].tasks, VerifyFails(r, t) PROVE OInv'
  BY <1>14 DEF VerifyFails, OInv
<1> QED
  BY <1>1, <1>2, <1>4, <1>5, <1>6, <1>7, <1>8, <1>9, <1>10, <1>11, <1>12, <1>13, <1>14
     DEF Next, Recv, Crypto

(***************************************************************************)
(* Votes are verified one at a time and none is left waiting for ever      *)
(* while signatures verify (the comments at 493 and 545 of pbft.rs), and a *)
(* number is prepared or committed by a replica only when n - f replicas   *)
(* hold its pre-prepare, or are prepared.                                  *)
(***************************************************************************)
THEOREM VotesAreRight == Spec => []VotesRight
<1>1. Init => OInv
  BY DEF Init, InitReplica, OInv, Ongoing, OngoingIn
<1>2. IInv /\ OInv /\ [Next]_vars => OInv'
  BY OngoingStep
<1>3. IInv /\ OInv => PendingMeansOngoing
  <2> SUFFICES ASSUME IInv, OInv, bad = 0, NEW r \in Replicas
               PROVE  /\ \A op \in DOMAIN replica[r].pendingPrepares :
                            \E t \in replica[r].tasks :
                               t.kind = "Verify" /\ t.msg.type = "Prepare" /\ t.msg.op = op
                      /\ \A op \in DOMAIN replica[r].pendingCommits :
                            \E t \in replica[r].tasks :
                               t.kind = "Verify" /\ t.msg.type = "Commit" /\ t.msg.op = op
    BY DEF PendingMeansOngoing
  <2> QED
    BY DEF OInv, Ongoing, OngoingIn, Verifying
<1>4. IInv => TypeOK /\ OneVerification /\ QuorumBacked
  BY TypesRight, OneVerificationRight, QuorumBackedRight
<1>5. IInv /\ OInv => VotesRight
  BY <1>3, <1>4 DEF VotesRight
<1> QED
  BY <1>1, <1>2, <1>5, Invariance, PTL DEF Spec

-----------------------------------------------------------------------------
(***************************************************************************)
(* What becomes of a request the primary accepted: it is queued            *)
(* (requests), then in a batch that is being signed, then in the log, then *)
(* executed.  Held is the batches of the middle two, and Keeps says of the *)
(* primary that no request is in two places of these and the queue         *)
(* (Apart), that what is in a place is not newer than the replies table    *)
(* (Noted), which is why a repeated request is recognised, and of every    *)
(* replica that a request noted without a reply is still in a place that   *)
(* will be executed (AllWait).  KInv is inductive together with IInv.      *)
(***************************************************************************)

(* m is being signed by the crypto worker, or logged under its number.     *)
Signing(s, m) == \E t \in s.tasks : t.kind = "Sign" /\ t.msg = m

Logged(s, m) == m.op \in 1..Len(s.log) /\ s.log[m.op].batch = m.digest

(* The batches that s has logged or is about to sign, as pre-prepares. *)
Held(s) == {m \in PrePrepares(Requests) : Logged(s, m) \/ Signing(s, m)}

(* The request q is in the batch or queue b.                               *)
In(q, b) == \E i \in 1..Len(b) : b[i] = q

(* No request is in two places of the batches H and the queue Q. *)
Apart(H, Q) ==
  /\ \A m \in H : Len(m.digest) <= MaxBatch
  /\ \A m, n \in H : \A i \in 1..Len(m.digest), j \in 1..Len(n.digest) :
        m.digest[i] = n.digest[j] => m = n /\ i = j
  /\ \A i, j \in 1..Len(Q) : Q[i] = Q[j] => i = j
  /\ \A m \in H : \A i \in 1..Len(m.digest), j \in 1..Len(Q) : m.digest[i] # Q[j]

(* What is batched or queued is not newer than what the table notes, so    *)
(* that a newer request is in no place yet.                                *)
Noted(H, Q, replies) ==
  \A q \in Requests : In(q, Q) \/ (\E m \in H : In(q, m.digest)) => q.seq <= replies[q.client].seq

(* The request q is queued or in a batch beyond number n. *)
Waits(H, Q, n, q) == In(q, Q) \/ \E m \in H : m.op > n /\ In(q, m.digest)

AllWait(s, r) ==
  \A c \in Clients : s.replies[c].seq > 0 /\ s.replies[c].reply = None =>
    IsPrimary(r) /\ Waits(Held(s), s.requests, s.commitNum, [client |-> c, seq |-> s.replies[c].seq])

(* What s keeps as the state of r; the last part of what the primary keeps *)
(* is that it executes no gap.                                             *)
Keeps(s, r) ==
  /\ IsPrimary(r) => /\ Apart(Held(s), s.requests) /\ Noted(Held(s), s.requests, s.replies)
                     /\ \A i \in 1..Len(s.app) : s.app[i] # <<>>
  /\ AllWait(s, r)

(* With IInv this is inductive: RequestsKept follows from the two.         *)
KInv == \A r \in Replicas : Keeps(replica[r], r)

(* t holds the same as s. *)
Same(s, t) ==
  /\ t.requests = s.requests /\ t.replies = s.replies /\ t.commitNum = s.commitNum /\ t.app = s.app
  /\ Held(t) = Held(s)

(* What is the same keeps the same.                                        *)
LEMMA SameKeeps ==
  ASSUME NEW s, NEW t, NEW r, Same(s, t), Keeps(s, r)
  PROVE  Keeps(t, r)
  BY DEF Same, Keeps, AllWait

(* A backup keeps what it has to by its replies alone. *)
LEMMA BackupKeeps ==
  ASSUME NEW s, NEW t, NEW r, ~IsPrimary(r), Keeps(s, r), t.replies = s.replies
  PROVE  Keeps(t, r)
  BY DEF Keeps, AllWait

(* It is the same as long as no batch is logged and no pre-prepare begins  *)
(* or ends being signed.                                                   *)
LEMMA SameBy ==
  ASSUME NEW s, NEW t,
         t.requests = s.requests, t.replies = s.replies, t.commitNum = s.commitNum, t.app = s.app,
         Len(t.log) = Len(s.log), \A i \in 1..Len(s.log) : t.log[i].batch = s.log[i].batch,
         \A x : x.kind = "Sign" /\ x.msg.type = "PrePrepare" => (x \in t.tasks <=> x \in s.tasks)
  PROVE  Same(s, t)
<1>1. \A m \in PrePrepares(Requests) : m.type = "PrePrepare"
  BY DEF PrePrepares
<1>2. \A m \in PrePrepares(Requests) : Signing(t, m) <=> Signing(s, m)
  BY <1>1 DEF Signing
<1>3. \A m \in PrePrepares(Requests) : Logged(t, m) <=> Logged(s, m)
  BY DEF Logged
<1>4. Held(t) = Held(s)
  BY <1>2, <1>3 DEF Held
<1> QED
  BY <1>4 DEF Same

(* The tasks of votes are not tasks of pre-prepares.                       *)
LEMMA NoPrePrepare ==
  /\ \A x : Verify(x).kind = "Verify"
  /\ \A op, d, r : Sign(Prepare(op, d, r)).msg.type = "Prepare" /\ Sign(Commit(op, d, r)).msg.type = "Commit"
  BY DEF Sign, Verify, Prepare, Commit

(* A task that ends holds nothing, unless it signs a pre-prepare.          *)
LEMMA DoneSame ==
  ASSUME NEW s, DOMAIN s = Fields, NEW x, x.kind # "Sign" \/ x.msg.type # "PrePrepare"
  PROVE  Same(s, [s EXCEPT !.tasks = @ \ {x}])
<1> DEFINE t == [s EXCEPT !.tasks = @ \ {x}]
<1>1. /\ t.requests = s.requests /\ t.replies = s.replies /\ t.commitNum = s.commitNum /\ t.app = s.app
      /\ t.log = s.log /\ t.tasks = s.tasks \ {x}
  BY DEF Fields
<1> HIDE DEF t
<1>3. \A y : y.kind = "Sign" /\ y.msg.type = "PrePrepare" => (y \in t.tasks <=> y \in s.tasks)
  BY <1>1
<1>4. Same(s, t)
  BY <1>1, <1>3, SameBy
<1> QED
  BY <1>4 DEF t

(* insert_prepare holds nothing.                                           *)
LEMMA InsertPrepareSame ==
  ASSUME NEW M, NEW s, NEW r, Local(s, r, M), NEW p, p.op \in Nat \ {0}
  PROVE  Same(s, InsertPrepare(s, r, p))
<1> DEFINE t == InsertPrepare(s, r, p)
           Q == Inserted(s.prepares, p)
<1>1. DOMAIN s = Fields /\ s.log \in Seq(Entries(M.req)) /\ Len(s.log) \in Nat
  BY LenProperties DEF Local, LogRight
<1>2. CASE t = [s EXCEPT !.prepares = Q]
  <2>1. /\ t.requests = s.requests /\ t.replies = s.replies /\ t.commitNum = s.commitNum /\ t.app = s.app
        /\ t.log = s.log /\ t.tasks = s.tasks
    BY <1>1, <1>2 DEF Fields
  <2> HIDE DEF t
  <2> QED
    BY <2>1 DEF Same, Held, Logged, Signing, t
<1>3. CASE t = Panic(s)
  <2>1. /\ t.requests = s.requests /\ t.replies = s.replies /\ t.commitNum = s.commitNum /\ t.app = s.app
        /\ t.log = s.log /\ t.tasks = s.tasks
    BY <1>1, <1>3 DEF Fields, Panic
  <2> HIDE DEF t
  <2> QED
    BY <2>1 DEF Same, Held, Logged, Signing, t
<1>4. CASE /\ HasEntry(s, p.op)
           /\ t = [s EXCEPT !.prepares = Q \ Quorum(Q, p.op), !.log = SetPrepared(s.log, p.op),
                            !.tasks = @ \cup {Sign(Commit(p.op, p.digest, r))}]
  <2>1. /\ t.requests = s.requests /\ t.replies = s.replies /\ t.commitNum = s.commitNum /\ t.app = s.app
        /\ t.log = SetPrepared(s.log, p.op) /\ t.tasks = s.tasks \cup {Sign(Commit(p.op, p.digest, r))}
    BY <1>1, <1>4 DEF Fields
  <2> HIDE DEF t
  <2>2. p.op \in 1..Len(s.log)
    BY <1>1, <1>4 DEF HasEntry
  <2>3. Len(t.log) = Len(s.log) /\ \A i \in 1..Len(s.log) : t.log[i].batch = s.log[i].batch
    BY <1>1, <2>1, <2>2, SetPreparedEffect
  <2>4. \A y : y.kind = "Sign" /\ y.msg.type = "PrePrepare" => (y \in t.tasks <=> y \in s.tasks)
    BY <2>1, NoPrePrepare
  <2>5. Same(s, t)
    BY <2>1, <2>3, <2>4, SameBy
  <2> QED
    BY <2>5 DEF t
<1> QED
  BY <1>2, <1>3, <1>4 DEF InsertPrepare, SetPrepared

(* Recv<Prepare> and Recv<Commit> hold nothing.                            *)
LEMMA PushSame ==
  ASSUME NEW s, DOMAIN s = Fields, NEW p
  PROVE  Same(s, PushPrepare(s, p)) /\ Same(s, PushCommit(s, p))
<1> DEFINE Fits(t) == /\ t.requests = s.requests /\ t.replies = s.replies /\ t.commitNum = s.commitNum
                      /\ t.app = s.app /\ t.log = s.log
                      /\ t.tasks = s.tasks \/ t.tasks = s.tasks \cup {Verify(p)}
<1>1. Fits(PushPrepare(s, p))
  BY DEF PushPrepare, Fields
<1>2. Fits(PushCommit(s, p))
  BY DEF PushCommit, Fields
<1>3. ASSUME NEW t, Fits(t) PROVE Same(s, t)
  <2>1. \A y : y.kind = "Sign" /\ y.msg.type = "PrePrepare" => (y \in t.tasks <=> y \in s.tasks)
    BY <1>3, NoPrePrepare
  <2> QED
    BY <1>3, <2>1, SameBy
<1> HIDE DEF Fits
<1> QED
  BY <1>1, <1>2, <1>3

(* Neither does what waits in the pending lists.                           *)
LEMMA PopSame ==
  ASSUME NEW s, DOMAIN s = Fields, NEW op
  PROVE  Same(s, PopPrepare(s, op)) /\ Same(s, PopCommit(s, op))
<1> DEFINE Fits(t) == /\ t.requests = s.requests /\ t.replies = s.replies /\ t.commitNum = s.commitNum
                      /\ t.app = s.app /\ t.log = s.log
                      /\ t.tasks = s.tasks \/ \E p : t.tasks = s.tasks \cup {Verify(p)}
<1>1. Fits(PopPrepare(s, op))
  BY DEF PopPrepare, Fields
<1>2. Fits(PopCommit(s, op))
  BY DEF PopCommit, Fields
<1>3. ASSUME NEW t, Fits(t) PROVE Same(s, t)
  <2>1. \A y : y.kind = "Sign" /\ y.msg.type = "PrePrepare" => (y \in t.tasks <=> y \in s.tasks)
    BY <1>3, NoPrePrepare
  <2> QED
    BY <1>3, <2>1, SameBy
<1> HIDE DEF Fits
<1> QED
  BY <1>1, <1>2, <1>3

(* The pre-prepare that was signed is logged. *)
LEMMA LoggedSame ==
  ASSUME NEW M, World(M), NEW s, NEW r, Local(s, r, M), IsPrimary(r), NEW x \in s.tasks,
         x.kind = "Sign", x.msg.type = "PrePrepare", NEW t,
         t.requests = s.requests, t.replies = s.replies, t.commitNum = s.commitNum, t.app = s.app,
         t.log = SetBatch(s.log, x.msg.op, x.msg.digest), t.tasks = s.tasks \ {x}
  PROVE  Same(s, t)
<1> DEFINE op == x.msg.op
           b == x.msg.digest
<1>1. s.log \in Seq(Entries(M.req)) /\ Len(s.log) \in Nat
  BY LenProperties DEF Local, LogRight
<1>2. x.msg \in PrePrepares(M.req) /\ M.req \subseteq Requests
  BY DEF Local, Tasks, TaskRight, Votes, World
<1>3. op \in Nat \ {0} /\ b \in Seq(M.req) /\ b # <<>>
  BY <1>2 DEF PrePrepares
<1>4. BatchIsSet(s.log, op, b, M.req, t.log)
  BY <1>1, <1>3, SetBatchEffect
<1>5. ~HasBatch(s, op)
  BY DEF Local, SignedOnce
<1>6. Len(t.log) \in Nat /\ Len(t.log) = IF op <= Len(s.log) THEN Len(s.log) ELSE op
  BY <1>1, <1>3, <1>4 DEF BatchIsSet
<1>7. \A i \in 1..Len(t.log) : t.log[i].batch = IF i = op THEN b ELSE EntryAt(s.log, i).batch
  BY <1>4 DEF BatchIsSet
<1>8. \A u \in s.tasks : u.kind = "Sign" /\ u.msg.type = "PrePrepare" /\ u.msg.op = op => u = x
  BY DEF Local, SignedOnce
<1>9. ASSUME NEW m \in PrePrepares(Requests)
      PROVE  Logged(t, m) \/ Signing(t, m) <=> Logged(s, m) \/ Signing(s, m)
  <2>1. m.type = "PrePrepare" /\ m.op \in Nat \ {0} /\ m.digest # <<>>
    BY DEF PrePrepares
  <2>2. CASE m.op = op
    <3>1. m.digest = b <=> m = x.msg
      BY <1>2, <2>2 DEF PrePrepares
    <3>2. Logged(t, m) <=> m.digest = b
      BY <1>3, <1>6, <1>7, <2>2 DEF Logged
    <3>3. Signing(s, m) <=> m = x.msg
      BY <1>8, <2>1, <2>2 DEF Signing
    <3>4. ~Logged(s, m)
      BY <1>1, <1>5, <2>1, <2>2 DEF Logged, HasBatch, HasEntry
    <3>5. ~Signing(t, m)
      BY <1>8, <2>1, <2>2 DEF Signing
    <3> QED
      BY <3>1, <3>2, <3>3, <3>4, <3>5
  <2>3. CASE m.op # op
    <3>1. Signing(t, m) <=> Signing(s, m)
      BY <2>3 DEF Signing
    <3>2. ASSUME Logged(s, m) PROVE Logged(t, m)
      <4>1. m.op \in 1..Len(t.log) /\ m.op <= Len(s.log)
        BY <1>1, <1>3, <1>6, <3>2 DEF Logged
      <4> QED
        BY <1>7, <2>3, <3>2, <4>1 DEF Logged, EntryAt
    <3>3. ASSUME Logged(t, m) PROVE Logged(s, m)
      <4>1. m.op \in 1..Len(t.log) /\ EntryAt(s.log, m.op).batch = m.digest
        BY <1>7, <2>3, <3>3 DEF Logged
      <4>2. m.op <= Len(s.log)
        BY <2>1, <4>1 DEF EntryAt, NoEntry
      <4> QED
        BY <1>1, <2>1, <4>1, <4>2 DEF Logged, EntryAt
    <3> QED
      BY <3>1, <3>2, <3>3
  <2> QED
    BY <2>2, <2>3
<1>10. Held(t) = Held(s)
  BY <1>9 DEF Held
<1> QED
  BY <1>10 DEF Same

(* The j-th batch of the queue Q, and what k batches leave of it. *)
BatchOf(Q, j) == SubSeq(Q, (j - 1) * MaxBatch + 1, Min({j * MaxBatch, Len(Q)}))
RestOf(Q, k) == SubSeq(Q, k * MaxBatch + 1, Len(Q))

(* The smaller of two numbers.                                             *)
LEMMA MinIs ==
  ASSUME NEW a \in Nat, NEW b \in Nat
  PROVE  Min({a, b}) \in {a, b} /\ Min({a, b}) <= a /\ Min({a, b}) <= b
<1>1. CASE a <= b
  <2>1. \A y \in {a, b} : a <= y
    BY <1>1
  <2> QED
    BY <1>1, <2>1 DEF Min
<1>2. CASE b <= a
  <2>1. \A y \in {a, b} : b <= y
    BY <1>2
  <2> QED
    BY <1>2, <2>1 DEF Min
<1> QED
  BY <1>1, <1>2

(* What has elements is not empty.                                         *)
LEMMA NotEmpty ==
  ASSUME NEW a, NEW n \in Nat \ {0}, Len(a) \in 1..n
  PROVE  a # <<>>
  OBVIOUS

(* The j-th batch is the part of the queue from (j - 1) * MaxBatch + 1 on. *)
LEMMA BatchOfIs ==
  ASSUME NEW Q \in Seq(Requests), NEW j \in Nat \ {0}, (j - 1) * MaxBatch < Len(Q)
  PROVE  /\ BatchOf(Q, j) \in Seq(Requests) \ {<<>>}
         /\ Len(BatchOf(Q, j)) \in 1..MaxBatch
         /\ Len(BatchOf(Q, j)) = Min({j * MaxBatch, Len(Q)}) - (j - 1) * MaxBatch
         /\ \A i \in 1..Len(BatchOf(Q, j)) :
              (j - 1) * MaxBatch + i \in 1..Len(Q) /\ BatchOf(Q, j)[i] = Q[(j - 1) * MaxBatch + i]
<1> DEFINE c == (j - 1) * MaxBatch
           d == j * MaxBatch
           len == Len(Q)
           b == Min({d, len})
<1>1. len \in Nat /\ MaxBatch \in Nat \ {0}
  BY BoundsAssumption, LenProperties
<1>2. c \in Nat /\ d \in Nat /\ d = c + MaxBatch /\ c < len
  BY <1>1
<1>3. BatchOf(Q, j) = SubSeq(Q, c + 1, b)
  BY DEF BatchOf
<1>4. \A i \in 1..len : Q[i] \in Requests
  BY ElementOfSeq
<1> HIDE DEF c, d, len
<1>5. b \in Nat /\ c + 1 <= b /\ b <= len /\ b <= d
  <2>1. b \in {d, len} /\ b <= d /\ b <= len
    BY <1>1, <1>2, MinIs
  <2> HIDE DEF b
  <2> QED
    BY <1>1, <1>2, <2>1
<1> HIDE DEF b
<1>6. \A i \in (c + 1)..b : Q[i] \in Requests
  BY <1>1, <1>2, <1>4, <1>5
<1>7. c + 1 \in Int /\ b \in Int
  BY <1>2, <1>5
<1>8. /\ SubSeq(Q, c + 1, b) \in Seq(Requests)
      /\ Len(SubSeq(Q, c + 1, b)) = b - (c + 1) + 1
      /\ \A i \in 1..(b - (c + 1) + 1) : SubSeq(Q, c + 1, b)[i] = Q[(c + 1) + i - 1]
  BY <1>5, <1>6, <1>7, SubSeqProperties
<1>9. Len(SubSeq(Q, c + 1, b)) = b - c /\ b - c \in 1..MaxBatch
  BY <1>1, <1>2, <1>5, <1>8
<1>10. ASSUME NEW i \in 1..(b - c) PROVE c + i \in 1..len /\ SubSeq(Q, c + 1, b)[i] = Q[c + i]
  <2>1. i \in 1..(b - (c + 1) + 1) /\ (c + 1) + i - 1 = c + i
    BY <1>2, <1>5
  <2>2. c + i \in 1..len
    BY <1>1, <1>2, <1>5
  <2> QED
    BY <1>8, <2>1, <2>2
<1>11. SubSeq(Q, c + 1, b) # <<>>
  <2> DEFINE t == SubSeq(Q, c + 1, b)
  <2>1. Len(t) \in 1..MaxBatch
    BY <1>9
  <2> HIDE DEF t
  <2>2. t # <<>>
    BY <1>1, <2>1, NotEmpty
  <2> QED
    BY <2>2 DEF t
<1> QED
  BY <1>3, <1>8, <1>9, <1>10, <1>11 DEF b, c, d, len

(* What k batches leave is the part of the queue from k * MaxBatch + 1 on. *)
LEMMA RestOfIs ==
  ASSUME NEW Q \in Seq(Requests), NEW k \in Nat
  PROVE  /\ RestOf(Q, k) \in Seq(Requests)
         /\ Len(RestOf(Q, k)) = IF k * MaxBatch < Len(Q) THEN Len(Q) - k * MaxBatch ELSE 0
         /\ \A i \in 1..Len(RestOf(Q, k)) :
              k * MaxBatch + i \in 1..Len(Q) /\ RestOf(Q, k)[i] = Q[k * MaxBatch + i]
<1> DEFINE c == k * MaxBatch
           len == Len(Q)
           t == RestOf(Q, k)
<1>1. len \in Nat /\ c \in Nat
  BY BoundsAssumption, LenProperties
<1>2. t = SubSeq(Q, c + 1, len)
  BY DEF RestOf
<1>3. \A i \in 1..len : Q[i] \in Requests
  BY ElementOfSeq
<1> HIDE DEF c, len, t
<1>4. \A i \in (c + 1)..len : Q[i] \in Requests
  BY <1>1, <1>3
<1>5. c + 1 \in Int /\ len \in Int
  BY <1>1
<1>6. /\ t \in Seq(Requests)
      /\ Len(t) = IF c + 1 <= len THEN len - (c + 1) + 1 ELSE 0
      /\ \A i \in 1..(len - (c + 1) + 1) : t[i] = Q[(c + 1) + i - 1]
  BY <1>2, <1>4, <1>5, SubSeqProperties
<1>7. Len(t) = IF c < len THEN len - c ELSE 0
  BY <1>1, <1>6
<1>8. ASSUME NEW i \in 1..Len(t) PROVE c + i \in 1..len /\ t[i] = Q[c + i]
  <2>1. i \in 1..(len - (c + 1) + 1) /\ (c + 1) + i - 1 = c + i /\ c + i \in 1..len
    BY <1>1, <1>7
  <2> QED
    BY <1>6, <2>1
<1> QED
  BY <1>6, <1>7, <1>8 DEF c, len, t

(* Places in different batches, or in a batch and the rest, are different. *)
LEMMA Places ==
  ASSUME NEW i \in 1..MaxBatch, NEW j \in 1..MaxBatch, NEW a \in Nat \ {0}, NEW b \in Nat \ {0},
         (a - 1) * MaxBatch + i = (b - 1) * MaxBatch + j
  PROVE  a = b /\ i = j
<1>1. MaxBatch \in Nat \ {0}
  BY BoundsAssumption
<1> DEFINE c == (a - 1) * MaxBatch
           d == (b - 1) * MaxBatch
<1>2. c \in Nat /\ d \in Nat /\ c + i = d + j
  BY <1>1
<1>3. CASE a < b
  <2>1. d >= c + MaxBatch
    <3>1. (b - 1) * MaxBatch = (a - 1) * MaxBatch + (b - a) * MaxBatch
      BY <1>1, <1>3
    <3>2. (b - a) * MaxBatch >= MaxBatch /\ (b - a) * MaxBatch \in Nat
      BY <1>1, <1>3
    <3> QED
      BY <1>1, <1>2, <3>1, <3>2
  <2> HIDE DEF c, d
  <2> QED
    BY <1>1, <1>2, <2>1
<1>4. CASE b < a
  <2>1. c >= d + MaxBatch
    <3>1. (a - 1) * MaxBatch = (b - 1) * MaxBatch + (a - b) * MaxBatch
      BY <1>1, <1>4
    <3>2. (a - b) * MaxBatch >= MaxBatch /\ (a - b) * MaxBatch \in Nat
      BY <1>1, <1>4
    <3> QED
      BY <1>1, <1>2, <3>1, <3>2
  <2> HIDE DEF c, d
  <2> QED
    BY <1>1, <1>2, <2>1
<1>5. CASE a = b
  BY <1>1, <1>2, <1>5
<1> QED
  BY <1>3, <1>4, <1>5

(* A place of one of the k batches is before the rest.                     *)
LEMMA BeforeRest ==
  ASSUME NEW k \in Nat, NEW a \in 1..k, NEW i \in 1..MaxBatch
  PROVE  (a - 1) * MaxBatch + i <= k * MaxBatch /\ (a - 1) * MaxBatch \in Nat /\ k * MaxBatch \in Nat
<1>1. MaxBatch \in Nat \ {0}
  BY BoundsAssumption
<1>2. k * MaxBatch = (a - 1) * MaxBatch + (k - a + 1) * MaxBatch
  BY <1>1
<1>3. (k - a + 1) * MaxBatch >= MaxBatch /\ (k - a + 1) * MaxBatch \in Nat /\ (a - 1) * MaxBatch \in Nat
  BY <1>1
<1> QED
  BY <1>1, <1>2, <1>3

(* Every place of the queue is in one of the batches or in the rest. *)
LEMMA Covers ==
  ASSUME NEW Q \in Seq(Requests), NEW k \in Nat, NEW p \in 1..Len(Q),
         \A j \in 1..k : (j - 1) * MaxBatch < Len(Q)
  PROVE  \/ \E i \in 1..Len(RestOf(Q, k)) : RestOf(Q, k)[i] = Q[p]
         \/ \E j \in 1..k : \E i \in 1..Len(BatchOf(Q, j)) : BatchOf(Q, j)[i] = Q[p]
<1>1. MaxBatch \in Nat \ {0} /\ Len(Q) \in Nat /\ k * MaxBatch \in Nat /\ p \in Nat \ {0}
  BY BoundsAssumption, LenProperties
<1>2. CASE p > k * MaxBatch
  <2> DEFINE i == p - k * MaxBatch
  <2>1. i \in 1..Len(RestOf(Q, k)) /\ k * MaxBatch + i = p
    <3> DEFINE c == k * MaxBatch
               len == Len(Q)
    <3>1. Len(RestOf(Q, k)) = IF c < len THEN len - c ELSE 0
      BY RestOfIs
    <3>2. c \in Nat /\ len \in Nat /\ p > c /\ p \in 1..len /\ i = p - c
      BY <1>1, <1>2
    <3> HIDE DEF c, len, i
    <3>3. c < len /\ i \in 1..len - c /\ c + i = p
      BY <3>2
    <3> QED
      BY <3>1, <3>3 DEF c
  <2>2. RestOf(Q, k)[i] = Q[k * MaxBatch + i]
    BY <2>1, RestOfIs
  <2> QED
    BY <2>1, <2>2
<1>3. CASE p <= k * MaxBatch
  <2> DEFINE h == (p - 1) \div MaxBatch
             i == p - h * MaxBatch
             j == h + 1
  <2>1. h \in Nat /\ h * MaxBatch <= p - 1 /\ p - 1 < h * MaxBatch + MaxBatch /\ h * MaxBatch \in Nat
    BY <1>1
  <2> HIDE DEF h
  <2>2. i \in 1..MaxBatch
    BY <1>1, <2>1
  <2>3. j \in Nat \ {0} /\ (j - 1) * MaxBatch = h * MaxBatch /\ j * MaxBatch = h * MaxBatch + MaxBatch
    BY <1>1, <2>1
  <2>4. h < k
    <3> SUFFICES ASSUME h >= k PROVE FALSE
      BY <2>1
    <3>1. h * MaxBatch >= k * MaxBatch
      BY <1>1, <2>1
    <3> QED
      BY <1>1, <1>3, <2>1, <3>1
  <2>5. j \in 1..k
    BY <2>1, <2>4
  <2>6. /\ Len(BatchOf(Q, j)) = Min({j * MaxBatch, Len(Q)}) - (j - 1) * MaxBatch
        /\ \A l \in 1..Len(BatchOf(Q, j)) : BatchOf(Q, j)[l] = Q[(j - 1) * MaxBatch + l]
    BY <2>3, <2>5, BatchOfIs
  <2>7. Min({j * MaxBatch, Len(Q)}) \in Nat /\ Min({j * MaxBatch, Len(Q)}) >= p
    <3> DEFINE d == j * MaxBatch
               len == Len(Q)
    <3>1. d \in Nat /\ d >= p /\ len \in Nat /\ len >= p
      BY <1>1, <2>1, <2>3
    <3> HIDE DEF d, len
    <3>2. Min({d, len}) \in {d, len}
      BY <3>1, MinIs
    <3>3. Min({d, len}) \in Nat /\ Min({d, len}) >= p
      BY <3>1, <3>2
    <3> QED
      BY <3>3 DEF d, len
  <2>8. i \in 1..Len(BatchOf(Q, j)) /\ (j - 1) * MaxBatch + i = p
    BY <1>1, <2>1, <2>2, <2>3, <2>6, <2>7
  <2> QED
    BY <2>5, <2>6, <2>8
<1> QED
  BY <1>1, <1>2, <1>3

(* The elements of a sequence over S are in S.                             *)
LEMMA InElement ==
  ASSUME NEW S, NEW b \in Seq(S), NEW q, In(q, b)
  PROVE  q \in S
  BY ElementOfSeq DEF In

(* The queue Q is long enough for k batches, which are sent after number n. *)
Enough(Q, k) == \A j \in 1..k : (j - 1) * MaxBatch < Len(Q)
Closed(Q, k, n) == {PrePrepare(n + j, BatchOf(Q, j)) : j \in 1..k}

(* Of the queue Q, the batches `new` are made and `rest` is left. *)
ClosesTo(H, Q, n, new, rest) ==
  /\ new \subseteq PrePrepares(Requests) /\ Apart(H \cup new, rest)
  /\ \A q : In(q, Q) <=> In(q, rest) \/ \E m \in new : In(q, m.digest)
  /\ \A m \in new : m.op > n

(* k batches are closed: each request of the queue Q is in one of them or  *)
(* in the rest, at one place.                                              *)
LEMMA Closing ==
  ASSUME NEW H, H \subseteq PrePrepares(Requests), NEW Q \in Seq(Requests), Apart(H, Q),
         NEW k \in Nat, NEW n \in Nat, Enough(Q, k), NEW new, new = Closed(Q, k, n)
  PROVE  ClosesTo(H, Q, n, new, RestOf(Q, k))
<1> DEFINE rest == RestOf(Q, k)
           at(j, i) == (j - 1) * MaxBatch + i
<1>0. /\ \A j \in 1..k : (j - 1) * MaxBatch < Len(Q)
      /\ new = {PrePrepare(n + j, BatchOf(Q, j)) : j \in 1..k}
  BY DEF Enough, Closed
<1>1. /\ rest \in Seq(Requests) /\ k * MaxBatch \in Nat /\ Len(rest) \in Nat
      /\ \A i \in 1..Len(rest) : k * MaxBatch + i \in 1..Len(Q) /\ rest[i] = Q[k * MaxBatch + i]
  BY RestOfIs, BoundsAssumption, LenProperties
<1>2. ASSUME NEW j \in 1..k
      PROVE  /\ BatchOf(Q, j) \in Seq(Requests) \ {<<>>} /\ Len(BatchOf(Q, j)) \in 1..MaxBatch
             /\ \A i \in 1..Len(BatchOf(Q, j)) :
                  at(j, i) \in 1..Len(Q) /\ i \in 1..MaxBatch /\ BatchOf(Q, j)[i] = Q[at(j, i)]
  <2>1. j \in Nat \ {0} /\ (j - 1) * MaxBatch < Len(Q)
    BY <1>0
  <2>2. /\ BatchOf(Q, j) \in Seq(Requests) \ {<<>>} /\ Len(BatchOf(Q, j)) \in 1..MaxBatch
        /\ \A i \in 1..Len(BatchOf(Q, j)) : at(j, i) \in 1..Len(Q) /\ BatchOf(Q, j)[i] = Q[at(j, i)]
    BY <2>1, BatchOfIs
  <2>3. \A i \in 1..Len(BatchOf(Q, j)) : i \in 1..MaxBatch
    BY <2>2, BoundsAssumption
  <2> QED
    BY <2>2, <2>3
<1>3. ASSUME NEW m \in new
      PROVE  \E j \in 1..k : m = PrePrepare(n + j, BatchOf(Q, j)) /\ m.op = n + j /\ m.digest = BatchOf(Q, j)
  BY <1>0 DEF PrePrepare
<1>4. ASSUME NEW m \in new PROVE m \in PrePrepares(Requests) /\ m.op > n
  <2>1. PICK j \in 1..k : m = PrePrepare(n + j, BatchOf(Q, j))
    BY <1>3
  <2>2. n + j \in Nat \ {0} /\ n + j > n
    OBVIOUS
  <2>3. BatchOf(Q, j) \in Seq(Requests) \ {<<>>}
    BY <1>2
  <2> QED
    BY <2>1, <2>2, <2>3 DEF PrePrepare, PrePrepares
<1> HIDE DEF rest, at
<1>5. ASSUME NEW q, In(q, Q) PROVE In(q, rest) \/ \E m \in new : In(q, m.digest)
  <2>1. PICK p \in 1..Len(Q) : Q[p] = q
    BY <1>5 DEF In
  <2>2. \/ \E i \in 1..Len(rest) : rest[i] = Q[p]
        \/ \E j \in 1..k : \E i \in 1..Len(BatchOf(Q, j)) : BatchOf(Q, j)[i] = Q[p]
    BY <1>0, Covers DEF rest
  <2>3. CASE \E i \in 1..Len(rest) : rest[i] = Q[p]
    BY <2>1, <2>3 DEF In
  <2>4. CASE \E j \in 1..k : \E i \in 1..Len(BatchOf(Q, j)) : BatchOf(Q, j)[i] = Q[p]
    <3>1. PICK j \in 1..k : In(q, BatchOf(Q, j))
      BY <2>1, <2>4 DEF In
    <3>2. PrePrepare(n + j, BatchOf(Q, j)) \in new
      BY <1>0
    <3>3. PrePrepare(n + j, BatchOf(Q, j)).digest = BatchOf(Q, j)
      BY DEF PrePrepare
    <3> QED
      BY <3>1, <3>2, <3>3
  <2> QED
    BY <2>2, <2>3, <2>4
<1>6. ASSUME NEW q, In(q, rest) \/ \E m \in new : In(q, m.digest) PROVE In(q, Q)
  <2>1. CASE In(q, rest)
    BY <1>1, <2>1 DEF In
  <2>2. ASSUME NEW m \in new, In(q, m.digest) PROVE In(q, Q)
    <3>1. PICK j \in 1..k : m.digest = BatchOf(Q, j)
      BY <1>3
    <3> QED
      BY <1>2, <2>2, <3>1 DEF In
  <2> QED
    BY <1>6, <2>1, <2>2
<1>7. \A m \in H \cup new : Len(m.digest) <= MaxBatch
  <2>1. ASSUME NEW m \in new PROVE Len(m.digest) <= MaxBatch
    <3>1. PICK j \in 1..k : m.digest = BatchOf(Q, j)
      BY <1>3
    <3>2. Len(m.digest) \in 1..MaxBatch
      BY <1>2, <3>1
    <3> QED
      BY <3>2, BoundsAssumption
  <2> QED
    BY <2>1 DEF Apart
<1>8. ASSUME NEW m \in H, NEW o \in new, NEW i \in 1..Len(m.digest), NEW l \in 1..Len(o.digest)
      PROVE  m.digest[i] # o.digest[l]
  <2>1. PICK j \in 1..k : o.digest = BatchOf(Q, j)
    BY <1>3
  <2>2. at(j, l) \in 1..Len(Q) /\ o.digest[l] = Q[at(j, l)]
    BY <1>2, <2>1
  <2> QED
    BY <2>2 DEF Apart
<1>9. ASSUME NEW m \in new, NEW o \in new, NEW i \in 1..Len(m.digest), NEW l \in 1..Len(o.digest),
             m.digest[i] = o.digest[l]
      PROVE  m = o /\ i = l
  <2>1. PICK a \in 1..k : m = PrePrepare(n + a, BatchOf(Q, a)) /\ m.digest = BatchOf(Q, a)
    BY <1>3
  <2>2. PICK b \in 1..k : o = PrePrepare(n + b, BatchOf(Q, b)) /\ o.digest = BatchOf(Q, b)
    BY <1>3
  <2>3. /\ at(a, i) \in 1..Len(Q) /\ i \in 1..MaxBatch /\ m.digest[i] = Q[at(a, i)]
    BY <1>2, <2>1
  <2>4. /\ at(b, l) \in 1..Len(Q) /\ l \in 1..MaxBatch /\ o.digest[l] = Q[at(b, l)]
    BY <1>2, <2>2
  <2>5. at(a, i) = at(b, l)
    BY <1>9, <2>3, <2>4 DEF Apart
  <2>6. a \in Nat \ {0} /\ b \in Nat \ {0}
    OBVIOUS
  <2>7. a = b /\ i = l
    BY <2>3, <2>4, <2>5, <2>6, Places DEF at
  <2> QED
    BY <2>1, <2>2, <2>7
<1>10. ASSUME NEW i \in 1..Len(rest), NEW j \in 1..Len(rest), rest[i] = rest[j] PROVE i = j
  <2>1. k * MaxBatch + i = k * MaxBatch + j
    BY <1>1, <1>10 DEF Apart
  <2> QED
    BY <1>1, <2>1
<1>11. ASSUME NEW m \in H, NEW i \in 1..Len(m.digest), NEW j \in 1..Len(rest) PROVE m.digest[i] # rest[j]
  <2>1. k * MaxBatch + j \in 1..Len(Q) /\ rest[j] = Q[k * MaxBatch + j]
    BY <1>1
  <2>2. \A l \in 1..Len(Q) : m.digest[i] # Q[l]
    BY DEF Apart
  <2> QED
    BY <2>1, <2>2
<1>12. ASSUME NEW m \in new, NEW i \in 1..Len(m.digest), NEW j \in 1..Len(rest) PROVE m.digest[i] # rest[j]
  <2> SUFFICES ASSUME m.digest[i] = rest[j] PROVE FALSE
    OBVIOUS
  <2>1. PICK a \in 1..k : m.digest = BatchOf(Q, a)
    BY <1>3
  <2>2. at(a, i) \in 1..Len(Q) /\ i \in 1..MaxBatch /\ m.digest[i] = Q[at(a, i)]
    BY <1>2, <2>1
  <2>3. at(a, i) = k * MaxBatch + j
    BY <1>1, <2>2 DEF Apart
  <2>4. at(a, i) <= k * MaxBatch /\ k * MaxBatch \in Nat /\ j \in Nat \ {0}
    BY <1>1, <2>2, BeforeRest DEF at
  <2> QED
    BY <2>3, <2>4
<1>13. Apart(H \cup new, rest)
  <2>1. \A m, o \in H \cup new : \A i \in 1..Len(m.digest), j \in 1..Len(o.digest) :
           m.digest[i] = o.digest[j] => m = o /\ i = j
    <3> SUFFICES ASSUME NEW m \in H \cup new, NEW o \in H \cup new,
                        NEW i \in 1..Len(m.digest), NEW j \in 1..Len(o.digest), m.digest[i] = o.digest[j]
                 PROVE  m = o /\ i = j
      OBVIOUS
    <3>1. CASE m \in H /\ o \in H
      BY <3>1 DEF Apart
    <3>2. CASE m \in H /\ o \in new
      BY <1>8, <3>2
    <3>3. CASE m \in new /\ o \in H
      BY <1>8, <3>3
    <3>4. CASE m \in new /\ o \in new
      BY <1>9, <3>4
    <3> QED
      BY <3>1, <3>2, <3>3, <3>4
  <2> QED
    BY <1>7, <1>10, <1>11, <1>12, <2>1 DEF Apart
<1> QED
  BY <1>4, <1>5, <1>6, <1>13 DEF rest, ClosesTo


(* close_batch moves requests from the queue to batches being signed.      *)
LEMMA CloseBatchKeeps ==
  ASSUME NEW M, World(M), NEW r, IsPrimary(r), NEW s, Local(s, r, M), Keeps(s, r), NEW k \in Nat,
         \A j \in 1..k : (j - 1) * MaxBatch < Len(s.requests)
  PROVE  Keeps(CloseBatch(s, k), r)
<1> DEFINE t == CloseBatch(s, k)
           Q == s.requests
           H == Held(s)
           n == s.opNum
           new == {PrePrepare(n + j, BatchOf(Q, j)) : j \in 1..k}
<1>1. /\ t.requests = RestOf(Q, k) /\ t.replies = s.replies /\ t.commitNum = s.commitNum /\ t.app = s.app
      /\ t.log = s.log /\ t.tasks = s.tasks \cup {Sign(PrePrepare(n + j, BatchOf(Q, j))) : j \in 1..k}
  BY DEF Local, Fields, CloseBatch, RestOf, BatchOf
<1>2. Q \in Seq(Requests) /\ n \in Nat
  <2>1. Q \in Seq(M.req) /\ M.req \subseteq Requests /\ n \in Nat
    BY DEF Local, Queue, World
  <2> QED
    BY <2>1, SeqMonotone
<1>3. s.commitNum \in Nat /\ s.commitNum <= n
  BY <1>2, LenProperties DEF Local, AppRight, LogRight, SignedOnce
<1>4. H \subseteq PrePrepares(Requests)
  BY DEF Held
<1>5. Apart(H, Q) /\ Noted(H, Q, s.replies)
  BY DEF Keeps
<1> HIDE DEF t, new
<1>6. /\ new \subseteq PrePrepares(Requests) /\ Apart(H \cup new, RestOf(Q, k))
      /\ \A q : In(q, Q) <=> In(q, RestOf(Q, k)) \/ \E m \in new : In(q, m.digest)
      /\ \A m \in new : m.op > n
  <2> DEFINE old == H
             queue == Q
             num == n
             made == new
  <2>1. made = Closed(queue, k, num)
    BY DEF new, Closed
  <2>2. old \subseteq PrePrepares(Requests) /\ Apart(old, queue) /\ queue \in Seq(Requests) /\ num \in Nat
        /\ Enough(queue, k)
    BY <1>2, <1>4, <1>5 DEF Enough
  <2> HIDE DEF old, queue, num, made
  <2>3. ClosesTo(old, queue, num, made, RestOf(queue, k))
    BY <2>1, <2>2, Closing
  <2> QED
    BY <2>3 DEF old, queue, num, made, ClosesTo
<1>7. \A m : Signing(t, m) <=> Signing(s, m) \/ m \in new
  <2>1. \A j : Sign(PrePrepare(n + j, BatchOf(Q, j))).kind = "Sign"
               /\ Sign(PrePrepare(n + j, BatchOf(Q, j))).msg = PrePrepare(n + j, BatchOf(Q, j))
    BY DEF Sign
  <2> QED
    BY <1>1, <2>1 DEF Signing, new
<1>8. \A m : Logged(t, m) <=> Logged(s, m)
  BY <1>1 DEF Logged
<1>9. Held(t) = H \cup new
  BY <1>6, <1>7, <1>8 DEF Held
<1>10. Noted(H \cup new, RestOf(Q, k), s.replies)
  BY <1>5, <1>6 DEF Noted
<1>11. \A q : Waits(H, Q, s.commitNum, q) => Waits(H \cup new, RestOf(Q, k), s.commitNum, q)
  <2>1. \A m \in new : m.op > s.commitNum
    <3>1. \A m \in new : m.op \in Nat
      BY <1>6 DEF PrePrepares
    <3> QED
      BY <1>2, <1>3, <1>6, <3>1
  <2> QED
    BY <1>6, <2>1 DEF Waits
<1>12. AllWait(t, r)
  BY <1>1, <1>9, <1>11 DEF Keeps, AllWait
<1> QED
  BY <1>1, <1>6, <1>9, <1>10, <1>12 DEF Keeps, t

(* The second loop of insert_commit (close_batch as often as allowed).     *)
LEMMA CloseBatchesKeep ==
  ASSUME NEW M, World(M), NEW r, NEW s, Local(s, r, M), Keeps(s, r)
  PROVE  Keeps(CloseBatches(s, r), r)
<1> DEFINE wanted == (Len(s.requests) + MaxBatch - 1) \div MaxBatch
           allowed == s.commitNum + NUM_CONCURRENT_PRE_PREPARE + 1
           k == Min({wanted, allowed - s.opNum})
<1>1. CASE IsPrimary(r) /\ s.opNum < allowed
  <2>1. Len(s.requests) \in Nat /\ s.opNum \in Nat /\ s.commitNum \in Nat
    BY LenProperties DEF Local, Queue, AppRight
  <2>2. wanted \in Nat /\ \A j \in 1..wanted : (j - 1) * MaxBatch < Len(s.requests)
    BY <2>1, WantedBatches, BoundsAssumption
  <2>3. allowed - s.opNum \in Nat
    BY <1>1, <2>1 DEF NUM_CONCURRENT_PRE_PREPARE
  <2> HIDE DEF wanted, allowed
  <2>4. k \in Nat /\ k <= wanted
    BY <2>2, <2>3, MinOfTwo
  <2> HIDE DEF k
  <2>5. \A j \in 1..k : (j - 1) * MaxBatch < Len(s.requests)
    BY <2>2, <2>4
  <2>6. Keeps(CloseBatch(s, k), r)
    BY <1>1, <2>4, <2>5, CloseBatchKeeps
  <2>7. CloseBatches(s, r) = CloseBatch(s, k)
    BY <1>1 DEF CloseBatches, k, wanted, allowed
  <2> QED
    BY <2>6, <2>7
<1>2. CASE ~(IsPrimary(r) /\ s.opNum < allowed)
  BY <1>2 DEF CloseBatches
<1> QED
  BY <1>1, <1>2

(* A commit that does not complete a quorum changes nothing, and neither   *)
(* does noting a number as committed.                                      *)
LEMMA CommitsSame ==
  ASSUME NEW s, DOMAIN s = Fields, NEW Q
  PROVE  Same(s, [s EXCEPT !.commits = Q])
<1> DEFINE u == [s EXCEPT !.commits = Q]
<1>1. /\ u.requests = s.requests /\ u.replies = s.replies /\ u.commitNum = s.commitNum /\ u.app = s.app
      /\ u.log = s.log /\ u.tasks = s.tasks
  BY DEF Fields
<1> HIDE DEF u
<1>2. Same(s, u)
  BY <1>1, SameBy
<1> QED
  BY <1>2 DEF u

LEMMA WithCommittedSame ==
  ASSUME NEW M, NEW r, NEW s, Local(s, r, M), NEW Q, NEW op \in 1..Len(s.log)
  PROVE  Same(s, WithCommitted(s, Q, op))
<1>1. DOMAIN s = Fields /\ s.log \in Seq(Entries(M.req))
  BY DEF Local, LogRight
<1> DEFINE t == WithCommitted(s, Q, op)
<1>2. /\ t.requests = s.requests /\ t.replies = s.replies /\ t.commitNum = s.commitNum /\ t.app = s.app
      /\ t.log = SetCommitted(s.log, op) /\ t.tasks = s.tasks
  BY <1>1 DEF Fields, WithCommitted
<1> HIDE DEF t
<1>3. Len(t.log) = Len(s.log) /\ \A i \in 1..Len(s.log) : t.log[i].batch = s.log[i].batch
  BY <1>1, <1>2, SetCommittedEffect
<1>4. Same(s, t)
  BY <1>2, <1>3, SameBy
<1> QED
  BY <1>4 DEF t

(* A committed number has its batch at the primary. *)
LEMMA CommittedHasBatch ==
  ASSUME IInv, NEW op \in Nat \ {0},
         NEW Q \in SUBSET TheWorld.com, OnePerSender(Q), HasCommitQuorum(Q, op)
  PROVE  HasBatch(replica[Primary], op)
<1>1. PICK p \in Q : p.op = op
  <2> SUFFICES ASSUME Quorum(Q, op) = {} PROVE FALSE
    BY DEF Quorum
  <2>1. Cardinality(Quorum(Q, op)) = 0
    BY FS_EmptySet
  <2> QED
    BY <2>1, QuorumSize DEF HasCommitQuorum
<1>2. p.from \in Replicas /\ HasEntry(replica[p.from], op) /\ replica[p.from].log[op].prepared
  BY <1>1 DEF TheWorld, WorldOf, Votes
<1>3. Certified(replica[p.from], TheWorld) /\ Len(replica[p.from].log) \in Nat
  BY <1>2, LenProperties DEF IInv, Local, LogRight
<1>4. op \in 1..Len(replica[p.from].log)
  BY <1>2, <1>3 DEF HasEntry
<1>5. PICK P \in SUBSET TheWorld.prep : OnePerSender(P) /\ HasPrepareQuorum(P, op)
  BY <1>2, <1>3, <1>4 DEF Certified
<1>6. PICK v \in P : v.op = op
  <2> SUFFICES ASSUME Quorum(P, op) = {} PROVE FALSE
    BY DEF Quorum
  <2>1. Cardinality(Quorum(P, op)) = 0
    BY FS_EmptySet
  <2> QED
    BY <1>5, <2>1, QuorumSize DEF HasPrepareQuorum
<1>7. v.from \in Replicas /\ HasBatch(replica[v.from], op)
  BY <1>6 DEF TheWorld, WorldOf, Votes
<1> QED
  BY <1>7, BatchIsPrimarys


(* A batch that is committed is logged, not being signed. *)
LEMMA CommittedIsLogged ==
  ASSUME NEW M, World(M), NEW r, IsPrimary(r), NEW s, Local(s, r, M), NEW m \in Held(s),
         m.op \in 1..Len(s.log), s.log[m.op].batch # <<>>
  PROVE  s.log[m.op].batch = m.digest
<1>1. HasBatch(s, m.op)
  BY LenProperties DEF HasBatch, HasEntry, Local, LogRight
<1>2. m.type = "PrePrepare"
  BY DEF Held, PrePrepares
<1>3. ~Signing(s, m)
  BY <1>1, <1>2 DEF Signing, Local, SignedOnce
<1> QED
  BY <1>3 DEF Held, Logged

(* The first loop of insert_commit: what is executed was held, its clients *)
(* have a reply from then on, and the others wait as before.               *)
LEMMA ExecuteKeeps ==
  ASSUME NEW M, World(M), NEW r, NEW s, Local(s, r, M), Keeps(s, r), NEW t, Local(t, r, M), ExecutesTo(s, t),
         IsPrimary(r) => \A op \in 1..Len(s.log) : s.log[op].committed => s.log[op].batch # <<>>
  PROVE  Keeps(t, r)
<1>1. /\ t.requests = s.requests /\ t.log = s.log /\ t.tasks = s.tasks
      /\ Len(t.app) >= Len(s.app)
      /\ \A i \in 1..Len(t.app) : t.app[i] = IF i <= Len(s.app) THEN s.app[i] ELSE s.log[i].batch
      /\ Answers(s.replies, t, Len(s.app) + 1, t.replies)
  BY DEF ExecutesTo
<1>2. Held(t) = Held(s)
  BY <1>1 DEF Held, Logged, Signing
<1>3. /\ t.commitNum = Len(t.app) /\ s.commitNum = Len(s.app) /\ Len(t.app) \in Nat /\ Len(s.app) \in Nat
      /\ Len(s.log) \in Nat /\ Len(t.app) <= Len(s.log) /\ \A i \in 1..Len(t.app) : s.log[i].committed
  BY <1>1, LenProperties DEF Local, AppRight, LogRight
<1>4. \A c \in Clients : s.replies[c].seq \in Nat /\ t.replies[c].seq \in Nat
  BY DEF Local, Queue, RepliesTyped
<1>5. \A c \in Clients : t.replies[c].seq >= s.replies[c].seq
  BY <1>1, <1>4 DEF Answers
<1>6. \A c \in Clients : t.replies[c].reply = None => t.replies[c] = s.replies[c]
  BY <1>1, NoneAssumption DEF Answers
<1>7. CASE ~IsPrimary(r)
  BY <1>6, <1>7 DEF Keeps, AllWait
<1>8. CASE IsPrimary(r)
  <2>1. \A i \in 1..Len(t.app) : t.app[i] # <<>>
    <3> SUFFICES ASSUME NEW i \in 1..Len(t.app) PROVE t.app[i] # <<>>
      OBVIOUS
    <3>1. CASE i <= Len(s.app)
      <4>1. i \in 1..Len(s.app)
        BY <1>3, <3>1
      <4>2. s.app[i] # <<>>
        BY <1>8, <4>1 DEF Keeps
      <4> QED
        BY <1>1, <3>1, <4>2
    <3>2. CASE ~(i <= Len(s.app))
      <4>1. i \in 1..Len(s.log) /\ s.log[i].committed
        BY <1>3
      <4> QED
        BY <1>1, <1>8, <3>2, <4>1
    <3> QED
      BY <3>1, <3>2
  <2>2. Noted(Held(t), t.requests, t.replies)
    <3>1. Noted(Held(s), s.requests, s.replies)
      BY <1>8 DEF Keeps
    <3>2. ASSUME NEW q \in Requests, q.seq <= s.replies[q.client].seq PROVE q.seq <= t.replies[q.client].seq
      <4>1. q.client \in Clients /\ q.seq \in Nat
        BY DEF Requests
      <4>2. t.replies[q.client].seq >= s.replies[q.client].seq
            /\ t.replies[q.client].seq \in Nat /\ s.replies[q.client].seq \in Nat
        BY <1>4, <1>5, <4>1
      <4> QED
        BY <3>2, <4>1, <4>2
    <3> QED
      BY <1>1, <1>2, <3>1, <3>2 DEF Noted
  <2>3. ASSUME NEW c \in Clients, t.replies[c].seq > 0, t.replies[c].reply = None
        PROVE  Waits(Held(t), t.requests, t.commitNum, [client |-> c, seq |-> t.replies[c].seq])
    <3> DEFINE q == [client |-> c, seq |-> t.replies[c].seq]
    <3>1. t.replies[c] = s.replies[c]
      BY <1>6, <2>3
    <3>2. Waits(Held(s), s.requests, s.commitNum, q)
      BY <2>3, <3>1 DEF Keeps, AllWait
    <3>3. q.client = c /\ q.seq = s.replies[c].seq /\ q.seq \in Nat
      BY <1>4, <3>1
    <3> HIDE DEF q
    <3>4. CASE In(q, s.requests)
      BY <1>1, <3>4 DEF Waits, q
    <3>5. ASSUME NEW m \in Held(s), m.op > s.commitNum, In(q, m.digest) PROVE m.op > t.commitNum
      <4> SUFFICES ASSUME ~(m.op > t.commitNum) PROVE FALSE
        OBVIOUS
      <4>1. m.op \in Nat \ {0}
        BY DEF Held, PrePrepares
      <4>2. m.op \in 1..Len(t.app) /\ m.op \in 1..Len(s.log) /\ m.op \in (Len(s.app) + 1)..Len(t.app)
            /\ ~(m.op <= Len(s.app))
        BY <1>3, <3>5, <4>1
      <4>3. t.app[m.op] = s.log[m.op].batch /\ t.app[m.op] # <<>>
        BY <1>1, <2>1, <4>2
      <4>4. t.app[m.op] = m.digest
        BY <1>8, <4>2, <4>3, CommittedIsLogged
      <4>5. PICK i \in 1..Len(m.digest) : m.digest[i] = q
        BY <3>5 DEF In
      <4>6. i \in 1..MaxBatch /\ i \in 1..Len(t.app[m.op])
        <5>1. Len(m.digest) <= MaxBatch /\ Len(m.digest) \in Nat
          BY <1>8, LenProperties DEF Keeps, Apart, Held, PrePrepares
        <5> QED
          BY <4>4, <5>1, BoundsAssumption
      <4> DEFINE e == <<m.op, i>>
      <4>7. e \in Executed(t, Len(s.app) + 1)
        BY <4>2, <4>6 DEF Executed
      <4>8. RequestAt(t, e) = q
        BY <4>4, <4>5 DEF RequestAt
      <4> HIDE DEF e
      <4>9. ~(q.seq >= s.replies[c].seq) \/ t.replies[c].reply \in Results
        BY <1>1, <3>3, <4>7, <4>8 DEF Answers
      <4> QED
        BY <2>3, <3>3, <4>9, NoneAssumption
    <3> QED
      BY <1>1, <1>2, <3>2, <3>4, <3>5 DEF Waits, q
  <2>4. Apart(Held(t), t.requests)
    BY <1>1, <1>2, <1>8 DEF Keeps
  <2> QED
    BY <1>8, <2>1, <2>2, <2>3, <2>4 DEF Keeps, AllWait
<1> QED
  BY <1>7, <1>8


(* insert_commit: the number that is committed has its batch at the        *)
(* primary, so that no gap is executed there.                              *)
LEMMA InsertCommitKeeps ==
  ASSUME IInv, NEW r \in Replicas, NEW s, Local(s, r, TheWorld), s.log = replica[r].log, Keeps(s, r),
         NEW p \in TheWorld.com,
         HasEntry(s, p.op) /\ s.log[p.op].committed =>
            Quorum(s.commits, p.op) = {} /\ Verifying(s, "Commit", p.op) = {}
  PROVE  Keeps(InsertCommit(s, r, p), r)
<1> DEFINE M == TheWorld
           Q == Inserted(s.commits, p)
           t == InsertCommit(s, r, p)
<1>0. World(M)
  BY WorldOfRight DEF TheWorld
<1> HIDE DEF M
<1>1. /\ Q \subseteq M.com /\ OnePerSender(Q)
      /\ p \in Q
      /\ \A op : op # p.op => Quorum(Q, op) = Quorum(s.commits, op)
      /\ Quorum(s.commits, p.op) = {} => Quorum(Q, p.op) = {p}
  <2>1. s.commits \subseteq M.com /\ OnePerSender(s.commits) /\ p \in M.com
    BY DEF Local, Quorums, M
  <2> QED
    BY <2>1, InsertedFacts
<1>2. p \in Votes("Commit", Replicas, M.req)
  BY <1>0 DEF World, M
<1>3. p.op \in Nat \ {0}
  BY <1>2 DEF Votes
<1>4. DOMAIN s = Fields /\ s.log \in Seq(Entries(M.req)) /\ Len(s.log) \in Nat
  BY LenProperties DEF Local, LogRight, M
<1>5. HasCommitQuorum(Q, p.op) /\ HasEntry(s, p.op) => ~s.log[p.op].committed
  BY <1>1, OneIsNoQuorum
<1>6. CASE ~(HasCommitQuorum(Q, p.op) /\ HasEntry(s, p.op) /\ s.log[p.op].prepared)
  <2>1. t = [s EXCEPT !.commits = Q]
    BY <1>5, <1>6 DEF InsertCommit
  <2> HIDE DEF t, Q
  <2>2. Same(s, t)
    BY <1>4, <2>1, CommitsSame
  <2>3. Keeps(t, r)
    BY <2>2, SameKeeps
  <2> QED
    BY <2>3 DEF t
<1>7. CASE HasCommitQuorum(Q, p.op) /\ HasEntry(s, p.op) /\ s.log[p.op].prepared
  <2> DEFINE u == WithCommitted(s, Q, p.op)
  <2>1. t = CloseBatches(Execute(u), r)
    BY <1>5, <1>7 DEF InsertCommit, SetCommitted, WithCommitted
  <2>2. p.op \in 1..Len(s.log)
    BY <1>3, <1>4, <1>7 DEF HasEntry
  <2> HIDE DEF t, Q
  <2>3. Local(u, r, M)
    BY <1>0, <1>1, <1>7, <2>2, CommittedRight DEF M
  <2>4. Keeps(u, r)
    BY <2>2, WithCommittedSame, SameKeeps
  <2>5. u.log = SetCommitted(s.log, p.op)
    BY <1>4 DEF WithCommitted, Fields
  <2>6. Len(u.log) = Len(s.log) /\ \A i \in 1..Len(s.log) : u.log[i].batch = s.log[i].batch
    BY <1>4, <2>2, <2>5, SetCommittedEffect
  <2> HIDE DEF u
  <2>7. ASSUME IsPrimary(r), NEW op \in 1..Len(u.log), u.log[op].committed PROVE u.log[op].batch # <<>>
    <3>1. PICK P \in SUBSET M.com : OnePerSender(P) /\ HasCommitQuorum(P, op)
      BY <2>3, <2>7 DEF Local, Certified
    <3>2. op \in Nat \ {0}
      BY <1>4, <2>6
    <3>3. HasBatch(replica[Primary], op)
      BY <3>1, <3>2, CommittedHasBatch DEF M
    <3> QED
      BY <2>6, <2>7, <3>3 DEF HasBatch, IsPrimary
  <2> DEFINE x == Execute(u)
  <2>8. Local(x, r, M) /\ ExecutesTo(u, x)
    BY <1>0, <2>3, ExecuteRight
  <2> HIDE DEF x
  <2>9. Keeps(x, r)
    BY <1>0, <2>3, <2>4, <2>7, <2>8, ExecuteKeeps
  <2>10. Keeps(CloseBatches(x, r), r)
    BY <1>0, <2>8, <2>9, CloseBatchesKeep
  <2> QED
    BY <2>1, <2>10 DEF t, x
<1> QED
  BY <1>6, <1>7

(* The places of a queue with one request more.                            *)
LEMMA AppendIs ==
  ASSUME NEW S, NEW a \in Seq(S), NEW x \in S
  PROVE  /\ Len(a) \in Nat /\ Len(Append(a, x)) = Len(a) + 1
         /\ Append(a, x)[Len(a) + 1] = x
         /\ \A i \in 1..Len(a) : Append(a, x)[i] = a[i]
  OBVIOUS

(* A request newer than the one noted of its client is in no place yet.    *)
LEMMA QueuedKeeps ==
  ASSUME NEW M, World(M), NEW r, IsPrimary(r), NEW s, Local(s, r, M), Keeps(s, r),
         NEW q \in M.req, ~Known(s, q)
  PROVE  Keeps(Queued(s, q), r)
<1> DEFINE t == Queued(s, q)
           Q == s.requests
           H == Held(s)
<1>1. DOMAIN s = Fields /\ Q \in Seq(M.req) /\ RepliesTyped(s.replies, M.req)
  BY DEF Local, Queue
<1>2. q \in Requests /\ q.client \in Clients /\ q.seq \in Nat /\ q = [client |-> q.client, seq |-> q.seq]
  BY BoundsAssumption DEF World, Requests
<1>3. /\ t.requests = Append(Q, q) /\ t.commitNum = s.commitNum /\ t.app = s.app
      /\ t.log = s.log /\ t.tasks = s.tasks
      /\ t.replies = [s.replies EXCEPT ![q.client] = [seq |-> q.seq, reply |-> None]]
  BY <1>1 DEF Fields, Queued
<1>4. /\ Len(Q) \in Nat /\ Len(Append(Q, q)) = Len(Q) + 1 /\ Append(Q, q)[Len(Q) + 1] = q
      /\ \A i \in 1..Len(Q) : Append(Q, q)[i] = Q[i]
  <2> HIDE DEF Q
  <2>1. \A S : Q \in Seq(S) /\ q \in S =>
           /\ Len(Q) \in Nat /\ Len(Append(Q, q)) = Len(Q) + 1 /\ Append(Q, q)[Len(Q) + 1] = q
           /\ \A i \in 1..Len(Q) : Append(Q, q)[i] = Q[i]
    BY AppendIs
  <2> QED
    BY <1>1, <2>1
<1>5. /\ t.replies[q.client] = [seq |-> q.seq, reply |-> None]
      /\ \A c \in Clients : c # q.client => t.replies[c] = s.replies[c]
      /\ \A c \in Clients : s.replies[c].seq \in Nat
  BY <1>1, <1>2, <1>3 DEF RepliesTyped
<1> HIDE DEF t
<1>6. Held(t) = H
  BY <1>3 DEF Held, Logged, Signing
<1>7. Apart(H, Q) /\ Noted(H, Q, s.replies)
  BY DEF Keeps
<1>8. ~In(q, Q) /\ \A m \in H : ~In(q, m.digest)
  BY <1>2, <1>5, <1>7 DEF Noted, Known
<1> HIDE DEF H
<1> DEFINE new == Append(Q, q)
<1> HIDE DEF new
<1>9. /\ Len(new) = Len(Q) + 1 /\ new[Len(Q) + 1] = q /\ Len(Q) \in Nat /\ \A i \in 1..Len(Q) : new[i] = Q[i]
      /\ t.requests = new
  BY <1>3, <1>4 DEF new
<1>10. \A i \in 1..Len(new) : i = Len(Q) + 1 \/ i \in 1..Len(Q)
  BY <1>9
<1> HIDE DEF Q
<1>11. \A i \in 1..Len(Q) : Q[i] # q
  BY <1>8 DEF In
<1>12. \A m \in H : \A i \in 1..Len(m.digest) : m.digest[i] # q
  BY <1>8 DEF In
<1>13. \A i, j \in 1..Len(new) : new[i] = new[j] => i = j
  BY <1>7, <1>9, <1>10, <1>11 DEF Apart
<1>14. \A m \in H : \A i \in 1..Len(m.digest), j \in 1..Len(new) : m.digest[i] # new[j]
  BY <1>7, <1>9, <1>10, <1>12 DEF Apart
<1>15. Apart(H, new)
  BY <1>7, <1>13, <1>14 DEF Apart
<1>16. \A o : In(o, Q) => In(o, new)
  BY <1>9, <1>10 DEF In
<1>17. In(q, new)
  <2>1. Len(Q) + 1 \in 1..Len(new)
    BY <1>9
  <2> QED
    BY <1>9, <2>1 DEF In
<1>18. \A o : In(o, new) => o = q \/ In(o, Q)
  BY <1>9, <1>10 DEF In
<1>19. Noted(H, new, t.replies)
  <2> SUFFICES ASSUME NEW o \in Requests, In(o, new) \/ \E m \in H : In(o, m.digest)
               PROVE  o.seq <= t.replies[o.client].seq
    BY DEF Noted
  <2>1. o.client \in Clients /\ o.seq \in Nat
    BY DEF Requests
  <2>2. CASE o = q
    BY <1>2, <1>5, <2>2
  <2>3. CASE o # q
    <3>1. o.seq <= s.replies[o.client].seq
      BY <1>7, <1>18, <2>3 DEF Noted
    <3>2. CASE o.client = q.client
      <4>1. q.seq > s.replies[q.client].seq
        BY <1>2, <1>5 DEF Known
      <4>2. o.seq <= q.seq
        BY <1>2, <1>5, <2>1, <3>1, <3>2, <4>1
      <4> QED
        BY <1>5, <3>2, <4>2
    <3>3. CASE o.client # q.client
      BY <1>5, <2>1, <3>1, <3>3
    <3> QED
      BY <3>2, <3>3
  <2> QED
    BY <2>2, <2>3
<1>20. AllWait(t, r)
  <2> SUFFICES ASSUME NEW c \in Clients, t.replies[c].seq > 0, t.replies[c].reply = None
               PROVE  Waits(H, new, s.commitNum, [client |-> c, seq |-> t.replies[c].seq])
    BY <1>3, <1>6, <1>9 DEF AllWait
  <2>1. CASE c = q.client
    <3>1. [client |-> c, seq |-> t.replies[c].seq] = q
      BY <1>2, <1>5, <2>1
    <3> QED
      BY <1>17, <3>1 DEF Waits
  <2>2. CASE c # q.client
    <3>1. Waits(H, Q, s.commitNum, [client |-> c, seq |-> t.replies[c].seq])
      BY <1>5, <2>2 DEF Keeps, AllWait, H, Q
    <3> QED
      BY <1>16, <3>1 DEF Waits
  <2> QED
    BY <2>1, <2>2
<1> QED
  BY <1>3, <1>6, <1>9, <1>15, <1>19, <1>20 DEF Keeps, t

(* Recv<Request> of a request that is new.                                 *)
LEMMA AcceptKeeps ==
  ASSUME NEW M, World(M), NEW r, IsPrimary(r), NEW s, Local(s, r, M), Keeps(s, r),
         NEW q \in M.req, ~Known(s, q)
  PROVE  Keeps(Accept(s, q), r)
<1> DEFINE t == Queued(s, q)
<1>1. /\ Local(t, r, M) /\ Len(t.requests) > 0 /\ Len(t.requests) \in Nat
  BY QueuedRight
<1>2. Keeps(t, r)
  BY QueuedKeeps
<1>3. Accept(s, q) = t \/ Accept(s, q) = CloseBatch(t, 1)
  BY DEF Accept, Queued
<1> HIDE DEF t
<1>4. \A j \in 1..1 : (j - 1) * MaxBatch < Len(t.requests)
  BY <1>1, BoundsAssumption
<1>5. Keeps(CloseBatch(t, 1), r)
  BY <1>1, <1>2, <1>4, CloseBatchKeeps
<1> QED
  BY <1>2, <1>3, <1>5


(* Nothing is held at first.                                               *)
LEMMA InitKeeps == ASSUME Init PROVE KInv
<1> SUFFICES ASSUME NEW r \in Replicas PROVE Keeps(replica[r], r)
  BY DEF KInv
<1> DEFINE s == replica[r]
<1>1. /\ s.requests = <<>> /\ s.log = <<>> /\ s.app = <<>> /\ s.tasks = {}
      /\ \A c \in Clients : s.replies[c].seq = 0
  BY DEF Init, InitReplica
<1> HIDE DEF s
<1>2. Held(s) = {}
  BY <1>1 DEF Held, Logged, Signing
<1>3. Apart(Held(s), s.requests) /\ Noted(Held(s), s.requests, s.replies)
  BY <1>1, <1>2 DEF Apart, Noted, In
<1>4. Keeps(s, r)
  BY <1>1, <1>3 DEF Keeps, AllWait
<1> QED
  BY <1>4 DEF s

(* A task that ends, other than the signing of a pre-prepare.              *)
LEMMA DoneKeeps ==
  ASSUME IInv, KInv, NEW r \in Alive, NEW x \in replica[r].tasks, x.kind # "Sign" \/ x.msg.type # "PrePrepare"
  PROVE  Keeps(Done(r, x), r)
<1>1. DOMAIN replica[r] = Fields /\ Keeps(replica[r], r)
  BY Here DEF KInv, Local
<1>2. Same(replica[r], Done(r, x))
  BY <1>1, DoneSame DEF Done
<1> QED
  BY <1>1, <1>2, SameKeeps

(* No step of a client or a replica loses or doubles a request.            *)
LEMMA KeepsStep ==
  ASSUME IInv, KInv, [Next]_vars
  PROVE  KInv'
<1>1. CASE UNCHANGED vars
  BY <1>1 DEF vars, KInv
<1>2. ASSUME NEW c \in Clients, ClientInvoke(c) \/ RecvReply(c) PROVE KInv'
  BY <1>2 DEF KInv, ClientInvoke, RecvReply, ClientRecvReply
<1>3. ASSUME NEW r \in Alive, NEW t, Becomes(r, t), Keeps(t, r) PROVE KInv'
  BY <1>3 DEF KInv, Becomes
<1>4. ASSUME NEW r \in Alive, NEW e \in toReplica, RecvRequest(r, e) PROVE KInv'
  <2> DEFINE q == e.body.req
             s == replica[r]
             t == IF Known(s, q) THEN s ELSE IF IsPrimary(r) THEN Accept(s, q) ELSE Panic(s)
  <2>1. /\ r \in Replicas /\ World(TheWorld) /\ Local(s, r, TheWorld)
    BY Here
  <2>2. e.dst = r /\ e.body.type = "Request"
    BY <1>4 DEF RecvRequest, Receive
  <2>3. Becomes(r, t)
    <3>1. replica' = [replica EXCEPT ![r] = t]
      BY <1>4 DEF RecvRequest
    <3> HIDE DEF t
    <3> QED
      BY <2>1, <3>1, BecomesBy
  <2>4. q \in TheWorld.req /\ IsPrimary(r)
    BY <2>1, <2>2, MessageTypes DEF IInv, NetRight, MessageRight, IsPrimary
  <2>5. Keeps(s, r)
    BY <2>1 DEF KInv
  <2>6. ~Known(s, q) => Keeps(Accept(s, q), r)
    BY <2>1, <2>4, <2>5, AcceptKeeps
  <2>7. Keeps(t, r)
    BY <2>4, <2>5, <2>6
  <2> HIDE DEF t
  <2> QED
    BY <1>3, <2>3, <2>7
<1>5. ASSUME NEW r \in Alive, NEW e \in toReplica, RecvPrePrepare(r, e) PROVE KInv'
  <2> DEFINE s == replica[r]
             u == [s EXCEPT !.tasks = @ \cup {Verify(e.body)}]
             t == IF HasBatch(s, e.body.op) THEN s ELSE u
  <2>1. /\ r \in Replicas /\ World(TheWorld) /\ Local(s, r, TheWorld)
    BY Here
  <2>2. e.dst = r /\ e.body.type = "PrePrepare"
    BY <1>5 DEF RecvPrePrepare, Receive
  <2>3. Becomes(r, t)
    <3>1. CASE HasBatch(s, e.body.op)
      BY <1>5, <2>1, <3>1 DEF RecvPrePrepare, IInv, Becomes
    <3>2. CASE ~HasBatch(s, e.body.op)
      BY <1>5, <2>1, <3>2 DEF RecvPrePrepare, IInv, Becomes
    <3> QED
      BY <3>1, <3>2
  <2>4. ~IsPrimary(r)
    BY <2>1, <2>2, MessageTypes DEF IInv, NetRight, MessageRight, IsPrimary
  <2>5. Keeps(s, r) /\ u.replies = s.replies
    BY <2>1 DEF KInv, Local, Fields
  <2> HIDE DEF u
  <2>6. Keeps(t, r)
    BY <2>4, <2>5, BackupKeeps
  <2> HIDE DEF t
  <2> QED
    BY <1>3, <2>3, <2>6
<1>6. ASSUME NEW r \in Alive, NEW e \in toReplica, RecvPrepare(r, e) \/ RecvCommit(r, e) PROVE KInv'
  <2>1. PICK t \in {PushPrepare(replica[r], e.body), PushCommit(replica[r], e.body)} :
           replica' = [replica EXCEPT ![r] = t]
    BY <1>6 DEF RecvPrepare, RecvCommit
  <2>2. Becomes(r, t) /\ DOMAIN replica[r] = Fields /\ Keeps(replica[r], r)
    BY <2>1, Here, BecomesBy DEF Local, KInv
  <2>3. Same(replica[r], t)
    BY <2>2, PushSame
  <2>4. Keeps(t, r)
    BY <2>2, <2>3, SameKeeps
  <2> QED
    BY <1>3, <2>2, <2>4
<1>8. ASSUME NEW r \in Alive, NEW x \in replica[r].tasks, SignedPrePrepare(r, x) PROVE KInv'
  <2> DEFINE s == Done(r, x)
             op == x.msg.op
             v == [s EXCEPT !.log = SetBatch(@, op, x.msg.digest)]
             M == TheWorld
  <2>1. x.kind = "Sign" /\ x.msg.type = "PrePrepare"
    BY <1>8 DEF SignedPrePrepare, Finish
  <2>2. /\ r \in Replicas /\ World(M) /\ Local(replica[r], r, M) /\ DOMAIN replica[r] = Fields
        /\ Keeps(replica[r], r)
    BY Here DEF KInv, Local
  <2>3. IsPrimary(r)
    BY <2>1, TaskIs
  <2>4. ~HasBatch(s, op)
    BY <2>1, <2>2, <2>3, DoneRight DEF Local, SignedOnce
  <2>5. replica' = [replica EXCEPT ![r] = v]
    BY <1>8, <2>4 DEF SignedPrePrepare, SetBatch
  <2>6. /\ v.requests = replica[r].requests /\ v.replies = replica[r].replies
        /\ v.commitNum = replica[r].commitNum /\ v.app = replica[r].app
        /\ v.log = SetBatch(replica[r].log, op, x.msg.digest) /\ v.tasks = replica[r].tasks \ {x}
    BY <2>2 DEF Done, Fields
  <2> HIDE DEF v, M
  <2>7. Same(replica[r], v)
    BY <2>1, <2>2, <2>3, <2>6, LoggedSame
  <2>8. Keeps(v, r)
    BY <2>2, <2>7, SameKeeps
  <2>9. Becomes(r, v)
    BY <2>2, <2>5, BecomesBy
  <2> QED
    BY <1>3, <2>8, <2>9
<1>9. ASSUME NEW r \in Alive, NEW x \in replica[r].tasks, VerifiedPrePrepare(r, x) PROVE KInv'
  <2> DEFINE s == Done(r, x)
             op == x.msg.op
             Retained(quorums) == {q \in quorums : q.op = op => q.digest = x.msg.digest}
             v == [s EXCEPT !.log = [Resize(@, op) EXCEPT ![op].batch = x.msg.digest],
                            !.tasks = @ \cup {Sign(Prepare(op, x.msg.digest, r))},
                            !.prepares = Retained(@),
                            !.commits = Retained(@)]
             u == IF HasBatch(s, op) THEN s ELSE v
  <2>1. x.kind = "Verify" /\ x.msg.type = "PrePrepare" /\ replica' = [replica EXCEPT ![r] = u]
    BY <1>9 DEF VerifiedPrePrepare, Finish
  <2>2. DOMAIN s = Fields /\ r \in Replicas
    BY DoneRight, Here
  <2>3. Keeps(s, r) /\ ~IsPrimary(r)
    BY <2>1, DoneKeeps, TaskIs
  <2> HIDE DEF s
  <2>4. v.replies = s.replies
    BY <2>2 DEF Fields
  <2> HIDE DEF v
  <2>5. Keeps(u, r)
    BY <2>3, <2>4, BackupKeeps
  <2> HIDE DEF u
  <2>6. Becomes(r, u)
    BY <2>1, <2>2, BecomesBy
  <2> QED
    BY <1>3, <2>5, <2>6
<1>10. ASSUME NEW r \in Alive, NEW x \in replica[r].tasks, SignedPrepare(r, x) PROVE KInv'
  <2> DEFINE s == Done(r, x)
             p == x.msg
             v == InsertPrepare(s, r, p)
             u == IF s.log[p.op].prepared THEN s ELSE v
  <2>1. x.kind = "Sign" /\ p.type = "Prepare" /\ replica' = [replica EXCEPT ![r] = u]
    BY <1>10 DEF SignedPrepare, Finish
  <2>2. r \in Replicas /\ p.op \in Nat \ {0} /\ Local(s, r, TheWorld)
    BY <2>1, Here, TaskIs, DoneRight
  <2>3. Keeps(s, r)
    BY <2>1, DoneKeeps
  <2> HIDE DEF s
  <2>4. Keeps(v, r)
    BY <2>2, <2>3, InsertPrepareSame, SameKeeps
  <2> HIDE DEF v
  <2>5. Keeps(u, r)
    BY <2>3, <2>4
  <2> HIDE DEF u
  <2>6. Becomes(r, u)
    BY <2>1, <2>2, BecomesBy
  <2> QED
    BY <1>3, <2>5, <2>6
<1>11. ASSUME NEW r \in Alive, NEW x \in replica[r].tasks, VerifiedPrepare(r, x) PROVE KInv'
  <2> DEFINE s == Done(r, x)
             p == x.msg
             v == InsertPrepare(s, r, p)
             u == PopPrepare(v, p.op)
  <2>1. x.kind = "Verify" /\ p.type = "Prepare" /\ replica' = [replica EXCEPT ![r] = u]
    BY <1>11 DEF VerifiedPrepare, Finish
  <2>2. r \in Replicas /\ World(TheWorld) /\ p \in TheWorld.prep /\ p.op \in Nat \ {0} /\ Local(s, r, TheWorld)
    BY <2>1, Here, TaskIs, DoneRight
  <2>3. Keeps(s, r)
    BY <2>1, DoneKeeps
  <2>4. /\ Verifying(s, "Prepare", p.op) = {}
        /\ HasEntry(s, p.op) /\ s.log[p.op].prepared => Quorum(s.prepares, p.op) = {}
    BY <2>1, DoneVerifying
  <2> HIDE DEF s
  <2>5. Keeps(v, r)
    BY <2>2, <2>3, InsertPrepareSame, SameKeeps
  <2>6. DOMAIN v = Fields
    <3>1. Local(v, r, TheWorld)
      BY <2>2, <2>4, InsertPrepareRight
    <3> QED
      BY <3>1 DEF Local
  <2> HIDE DEF v
  <2>7. Keeps(u, r)
    BY <2>5, <2>6, PopSame, SameKeeps
  <2> HIDE DEF u
  <2>8. Becomes(r, u)
    BY <2>1, <2>2, BecomesBy
  <2> QED
    BY <1>3, <2>7, <2>8
<1>12. ASSUME NEW r \in Alive, NEW x \in replica[r].tasks, SignedCommit(r, x) PROVE KInv'
  <2> DEFINE s == Done(r, x)
             p == x.msg
             v == InsertCommit(s, r, p)
             u == IF s.log[p.op].committed THEN s ELSE v
  <2>1. x.kind = "Sign" /\ p.type = "Commit" /\ replica' = [replica EXCEPT ![r] = u]
    BY <1>12 DEF SignedCommit, Finish
  <2>2. r \in Replicas /\ p \in TheWorld.com /\ Local(s, r, TheWorld) /\ s.log = replica[r].log
    BY <2>1, Here, TaskIs, DoneRight
  <2>3. Keeps(s, r)
    BY <2>1, DoneKeeps
  <2> HIDE DEF s
  <2>4. ~s.log[p.op].committed => Keeps(v, r)
    BY <2>2, <2>3, InsertCommitKeeps
  <2> HIDE DEF v
  <2>5. Keeps(u, r)
    BY <2>3, <2>4
  <2> HIDE DEF u
  <2>6. Becomes(r, u)
    BY <2>1, <2>2, BecomesBy
  <2> QED
    BY <1>3, <2>5, <2>6
<1>13. ASSUME NEW r \in Alive, NEW x \in replica[r].tasks, VerifiedCommit(r, x) PROVE KInv'
  <2> DEFINE s == Done(r, x)
             p == x.msg
             v == InsertCommit(s, r, p)
             u == PopCommit(v, p.op)
  <2>1. x.kind = "Verify" /\ p.type = "Commit" /\ replica' = [replica EXCEPT ![r] = u]
    BY <1>13 DEF VerifiedCommit, Finish
  <2>2. r \in Replicas /\ World(TheWorld) /\ p \in TheWorld.com /\ Local(s, r, TheWorld) /\ s.log = replica[r].log
    BY <2>1, Here, TaskIs, DoneRight
  <2>3. Keeps(s, r)
    BY <2>1, DoneKeeps
  <2>4. /\ Verifying(s, "Commit", p.op) = {}
        /\ HasEntry(s, p.op) /\ s.log[p.op].committed => Quorum(s.commits, p.op) = {}
    BY <2>1, DoneVerifying
  <2> HIDE DEF s
  <2>5. Keeps(v, r)
    BY <2>2, <2>3, <2>4, InsertCommitKeeps
  <2>6. DOMAIN v = Fields
    <3>1. Local(v, r, TheWorld)
      BY <2>2, <2>4, InsertCommitRight
    <3> QED
      BY <3>1 DEF Local
  <2> HIDE DEF v
  <2>7. Keeps(u, r)
    BY <2>5, <2>6, PopSame, SameKeeps
  <2> HIDE DEF u
  <2>8. Becomes(r, u)
    BY <2>1, <2>2, BecomesBy
  <2> QED
    BY <1>3, <2>7, <2>8
<1>14. ASSUME NEW r \in Alive, NEW x \in replica[r].tasks, VerifyFails(r, x) PROVE KInv'
  <2>1. x.kind = "Verify" /\ replica' = [replica EXCEPT ![r] = Done(r, x)]
    BY <1>14 DEF VerifyFails
  <2>2. Keeps(Done(r, x), r)
    BY <2>1, DoneKeeps
  <2>3. Becomes(r, Done(r, x))
    BY <2>1, Here, BecomesBy
  <2> QED
    BY <1>3, <2>2, <2>3
<1> QED
  BY <1>1, <1>2, <1>4, <1>5, <1>6, <1>8, <1>9, <1>10, <1>11, <1>12, <1>13, <1>14
     DEF Next, Recv, Crypto

(* A replica executed its batches from the places where the primary holds  *)
(* them.                                                                   *)
LEMMA AppIsHeld ==
  ASSUME IInv, NEW r \in Replicas, NEW i \in 1..Len(replica[r].app), replica[r].app[i] # <<>>
  PROVE  /\ PrePrepare(i, replica[r].app[i]) \in Held(replica[Primary])
         /\ PrePrepare(i, replica[r].app[i]).op = i
         /\ PrePrepare(i, replica[r].app[i]).digest = replica[r].app[i]
<1> DEFINE P == replica[Primary]
           b == replica[r].app[i]
           m == PrePrepare(i, b)
<1>1. Primary \in Replicas /\ Local(P, Primary, TheWorld) /\ Local(replica[r], r, TheWorld)
  BY ReplicasAssumption DEF IInv
<1>2. InvokedBy(seq) \subseteq Requests /\ TheWorld.req = InvokedBy(seq)
  BY WorldOfRight DEF TheWorld, InvokedBy
<1>3. replica[r].app \in Seq(Seq(InvokedBy(seq)))
  BY <1>1, <1>2 DEF Local, AppRight
<1>4. b \in Seq(InvokedBy(seq)) /\ i \in DOMAIN replica[r].app /\ i \in Nat \ {0}
  BY <1>3, LenProperties, ElementOfSeq
<1>5. HasBatch(P, i) /\ b = P.log[i].batch
  BY <1>4, AppIsLog
<1>6. b \in Seq(Requests)
  BY <1>2, <1>4, SeqMonotone
<1>7. m.op = i /\ m.digest = b /\ m \in PrePrepares(Requests)
  BY <1>4, <1>6 DEF PrePrepare, PrePrepares
<1>8. Logged(P, m)
  <2>1. Len(P.log) \in Nat
    BY <1>1, LenProperties DEF Local, LogRight
  <2> QED
    BY <1>4, <1>5, <1>7, <2>1 DEF Logged, HasBatch, HasEntry
<1> QED
  BY <1>7, <1>8 DEF Held

(* No request is in two of these batches.                                  *)
LEMMA OnceBy ==
  ASSUME IInv, KInv
  PROVE  ExecutedOnce
<1> SUFFICES ASSUME NEW r \in Replicas, NEW d \in Executed(replica[r], 1), NEW e \in Executed(replica[r], 1),
                    RequestAt(replica[r], d) = RequestAt(replica[r], e)
             PROVE  d = e
  BY DEF ExecutedOnce
<1> DEFINE s == replica[r]
           P == replica[Primary]
           H == Held(P)
<1>1. Primary \in Replicas /\ Local(P, Primary, TheWorld) /\ Local(s, r, TheWorld)
  BY ReplicasAssumption DEF IInv
<1>2. Apart(H, P.requests)
  BY <1>1 DEF KInv, Keeps, IsPrimary
<1>3. InvokedBy(seq) \subseteq Requests /\ TheWorld.req = InvokedBy(seq)
  BY WorldOfRight DEF TheWorld, InvokedBy
<1>4. s.app \in Seq(Seq(InvokedBy(seq)))
  BY <1>1, <1>3 DEF Local, AppRight
<1>5. ASSUME NEW x \in Executed(s, 1)
      PROVE  LET m == PrePrepare(x[1], s.app[x[1]])
             IN  m \in H /\ m.op = x[1] /\ m.digest = s.app[x[1]] /\ x[2] \in 1..Len(m.digest)
                 /\ x \in Nat \X Nat
  <2> DEFINE i == x[1]
             b == s.app[i]
             m == PrePrepare(i, b)
  <2>1. /\ i \in 1..Len(s.app) /\ x[2] \in 1..MaxBatch /\ Len(s.app) \in Nat
        /\ x[2] \in 1..Len(b)
    <3> DEFINE R == InvokedBy(seq)
    <3>1. R \subseteq Requests /\ s.app \in Seq(Seq(R)) /\ 1 \in Nat \ {0} /\ x \in Executed(s, 1)
      BY <1>3, <1>4
    <3> HIDE DEF R, s
    <3> QED
      BY <3>1, ExecutedFacts
  <2>2. x \in Nat \X Nat
    BY <2>1, BoundsAssumption DEF Executed
  <2>3. b # <<>>
    BY <2>1
  <2>4. m.op = i /\ m.digest = b /\ m \in H
    BY <2>1, <2>3, AppIsHeld
  <2> QED
    BY <2>1, <2>2, <2>4
<1> DEFINE m == PrePrepare(d[1], s.app[d[1]])
           n == PrePrepare(e[1], s.app[e[1]])
<1>6. m \in H /\ m.op = d[1] /\ m.digest = s.app[d[1]] /\ d[2] \in 1..Len(m.digest) /\ d \in Nat \X Nat
  BY <1>5
<1>7. n \in H /\ n.op = e[1] /\ n.digest = s.app[e[1]] /\ e[2] \in 1..Len(n.digest) /\ e \in Nat \X Nat
  BY <1>5
<1>8. m.digest[d[2]] = n.digest[e[2]]
  BY <1>6, <1>7 DEF RequestAt
<1> HIDE DEF m, n, H
<1>9. m = n /\ d[2] = e[2]
  <2>1. \A a, b \in H : \A i \in 1..Len(a.digest), j \in 1..Len(b.digest) :
           a.digest[i] = b.digest[j] => a = b /\ i = j
    BY <1>2 DEF Apart
  <2> DEFINE i == d[2]
             j == e[2]
  <2>2. i \in 1..Len(m.digest) /\ j \in 1..Len(n.digest) /\ m.digest[i] = n.digest[j]
    BY <1>6, <1>7, <1>8
  <2>3. m \in H /\ n \in H
    BY <1>6, <1>7
  <2> HIDE DEF i, j
  <2>4. m = n /\ i = j
    BY <2>1, <2>2, <2>3
  <2> QED
    BY <2>4 DEF i, j
<1> QED
  BY <1>6, <1>7, <1>9

(* AllWait says where a request that was accepted is: queued, being        *)
(* signed, or logged beyond commit_num.                                    *)
LEMMA NotForgottenBy ==
  ASSUME IInv, KInv
  PROVE  AcceptedNotForgotten
<1> SUFFICES ASSUME NEW r \in Replicas, NEW c \in Clients,
                    replica[r].replies[c].seq > 0, replica[r].replies[c].reply = None
             PROVE  LET s == replica[r]
                        q == [client |-> c, seq |-> s.replies[c].seq]
                        Has(batch) == \E i \in DOMAIN batch : batch[i] = q
                    IN  \/ Has(s.requests)
                        \/ \E t \in s.tasks : t.kind = "Sign" /\ t.msg.type = "PrePrepare" /\ Has(t.msg.digest)
                        \/ \E op \in DOMAIN s.log : op > s.commitNum /\ Has(s.log[op].batch)
  BY DEF AcceptedNotForgotten
<1> DEFINE s == replica[r]
           q == [client |-> c, seq |-> s.replies[c].seq]
           Has(batch) == \E i \in DOMAIN batch : batch[i] = q
<1>1. Waits(Held(s), s.requests, s.commitNum, q)
  BY DEF KInv, Keeps, AllWait
<1>2. s.requests \in Seq(TheWorld.req) /\ s.log \in Seq(Entries(TheWorld.req))
  BY DEF IInv, Local, Queue, LogRight
<1> HIDE DEF s, q
<1>3. CASE In(q, s.requests)
  <2>1. Has(s.requests)
    BY <1>2, <1>3, LenProperties DEF In
  <2> QED
    BY <2>1 DEF s, q
<1>4. ASSUME NEW m \in Held(s), m.op > s.commitNum, In(q, m.digest)
      PROVE  \/ \E t \in s.tasks : t.kind = "Sign" /\ t.msg.type = "PrePrepare" /\ Has(t.msg.digest)
             \/ \E op \in DOMAIN s.log : op > s.commitNum /\ Has(s.log[op].batch)
  <2>1. m.type = "PrePrepare" /\ m.digest \in Seq(Requests)
    BY DEF Held, PrePrepares
  <2>2. Has(m.digest)
    BY <1>4, <2>1, LenProperties DEF In
  <2> HIDE DEF Has
  <2>3. CASE Signing(s, m)
    BY <2>1, <2>2, <2>3 DEF Signing
  <2>4. CASE Logged(s, m)
    <3>1. m.op \in DOMAIN s.log
      BY <1>2, <2>4, LenProperties DEF Logged
    <3> QED
      BY <1>4, <2>2, <2>4, <3>1 DEF Logged
  <2> QED
    BY <2>3, <2>4 DEF Held
<1> QED
  BY <1>1, <1>3, <1>4 DEF Waits, s, q

(***************************************************************************)
(* A request that the primary accepted is neither forgotten nor executed   *)
(* twice by any replica, however often it is delivered (the match of       *)
(* Recv<Request> at 321 on the replies table), however many batches are    *)
(* closed together and in whatever order the crypto worker finishes them.  *)
(***************************************************************************)
THEOREM KeepsRequests == Spec => []RequestsKept
<1>1. Init => KInv
  BY InitKeeps
<1>2. IInv /\ KInv /\ [Next]_vars => KInv'
  BY KeepsStep
<1>3. IInv /\ KInv => RequestsKept
  BY OnceBy, NotForgottenBy DEF RequestsKept
<1> QED
  BY <1>1, <1>2, <1>3, Invariance, PTL DEF Spec
=============================================================================
